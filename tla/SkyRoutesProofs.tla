-------------------------- MODULE SkyRoutesProofs --------------------------
(***************************************************************************)
(* Proofs about the route table of server/server.c, for any number of      *)
(* CPUs, clients, addresses, packets and slots, and any hash: modules      *)
(* SkyRoutes (the hook runs alone) and SkyRoutesSMP (hooks overlap).       *)
(*                                                                         *)
(* Alone, a table keeps to a set of pages that is closed under storing a   *)
(* pair in a free slot and zeroing one: pages of which every pair is one   *)
(* some SYN asked for, or pages that count no more than they hold.  When   *)
(* hooks overlap, every step of one is shown to leave alone what another   *)
(* points at, as long as nothing has been torn.                            *)
(***************************************************************************)
EXTENDS SkyRoutesSMP, FiniteSetTheorems, WellFoundedInduction, TLAPS

-----------------------------------------------------------------------------
(* What is stored *)

Pairs == [first : Addresses, second : Addresses]
Pages == [used : Nat, pairs : [1 .. PAIRS -> Pairs]]
Tables == [Buckets -> Seq(Pages)]

\* The slots of a table, and what is in one: pages are numbered from the end.
SlotsOf(table) ==
  {s \in Buckets \X Nat \X Nat : s[2] \in 1 .. Len(table[s[1]]) /\ s[3] \in 1 .. PAIRS}

In(table, s) == table[s[1]][Len(table[s[1]]) - s[2] + 1].pairs[s[3]]

\* A slot looks free, or a SYN paired what it pairs.
Kept(pairs, pair) ==
  pair.first.code = 0 \/ Paired(pairs, pair.first.ep, pair.second.ep)

-----------------------------------------------------------------------------
(* Least elements, recursion and the sweep *)

LEMMA HasLeast ==
  ASSUME NEW S \in SUBSET Nat, S # {}
  PROVE  Min(S) \in S /\ \A j \in S : Min(S) <= j
<1> DEFINE R == {x \in Nat \X Nat : x[1] < x[2]}
<1>1. IsWellFoundedOn(R, Nat)
  BY NatLessThanWellFounded, Zenon DEF OpToRel
<1>2. PICK x \in S : \A y \in S : ~(<<y, x>> \in R)
  <2> HIDE DEF R
  <2> QED
    BY <1>1, WFMin
<1>3. ASSUME NEW y \in S PROVE x <= y
  <2>1. x \in Nat /\ y \in Nat /\ <<y, x>> \in Nat \X Nat
        /\ <<y, x>>[1] = y /\ <<y, x>>[2] = x
    OBVIOUS
  <2>2. y < x => <<y, x>> \in R
    BY <2>1
  <2>3. ~(y < x)
    BY <1>2, <2>2
  <2> QED
    BY <2>1, <2>3
<1>4. \E k \in S : \A j \in S : k <= j
  BY <1>3
<1> QED
  BY <1>4, Zenon DEF Min

\* g[m] is what m steps make of base.
Steps(g, A, n, base, step) ==
  /\ g \in [0 .. n -> A] /\ g[0] = base
  /\ \A m \in 1 .. n : g[m] = step[<<g[m - 1], m>>]

\* A function that is defined by a step from one number to the next exists,
\* and stays where its steps stay.
LEMMA Recursion ==
  ASSUME NEW A, NEW n \in Nat, NEW base \in A, NEW step \in [A \X (1 .. n) -> A]
  PROVE  \E g : Steps(g, A, n, base, step)
<1> DEFINE Upto(k, g) == /\ g \in [0 .. k -> A] /\ g[0] = base
                         /\ \A m \in 1 .. k : g[m] = step[<<g[m - 1], m>>]
           bad == {k \in 0 .. n : ~ \E g : Upto(k, g)}
<1>1. \E g : Upto(0, g)
  <2>1. Upto(0, [m \in 0 .. 0 |-> base])
    OBVIOUS
  <2> QED
    BY <2>1
<1>2. ASSUME NEW k \in 0 .. n - 1, NEW g, Upto(k, g) PROVE \E h : Upto(k + 1, h)
  <2> DEFINE h == [m \in 0 .. k + 1 |-> IF m = k + 1 THEN step[<<g[k], k + 1>>] ELSE g[m]]
  <2>1. k + 1 \in 1 .. n /\ g[k] \in A /\ <<g[k], k + 1>> \in A \X (1 .. n)
    BY <1>2
  <2>2. step[<<g[k], k + 1>>] \in A
    BY <2>1
  <2>3. h \in [0 .. k + 1 -> A]
    BY <1>2, <2>2
  <2>4. h[0] = base
    BY <1>2
  <2>5. ASSUME NEW m \in 1 .. k + 1 PROVE h[m] = step[<<h[m - 1], m>>]
    <3>1. h[m - 1] = g[m - 1]
      OBVIOUS
    <3>2. CASE m = k + 1
      <4>1. m - 1 = k /\ h[k] = g[k] /\ h[k + 1] = step[<<g[k], k + 1>>]
        BY <3>2
      <4> QED
        BY <3>2, <4>1, Zenon
    <3>3. CASE m # k + 1
      <4>1. m \in 1 .. k /\ h[m] = g[m]
        BY <3>3
      <4> QED
        BY <1>2, <3>1, <4>1
    <3> QED
      BY <3>2, <3>3
  <2>6. Upto(k + 1, h)
    BY <2>3, <2>4, <2>5
  <2> QED
    BY <2>6
<1> HIDE DEF Upto
<1>3. bad = {}
  <2> SUFFICES ASSUME bad # {} PROVE FALSE
    OBVIOUS
  <2>1. bad \in SUBSET Nat
    OBVIOUS
  <2>2. Min(bad) \in bad /\ \A j \in bad : Min(bad) <= j
    BY <2>1, HasLeast
  <2> DEFINE k == Min(bad)
  <2> HIDE DEF k
  <2>3. k \in 0 .. n /\ (~ \E g : Upto(k, g)) /\ \A j \in bad : k <= j
    BY <2>2 DEF k
  <2>4. k # 0
    BY <1>1, <2>3
  <2>5. k - 1 \in 0 .. n - 1 /\ k - 1 \in 0 .. n /\ ~(k <= k - 1) /\ (k - 1) + 1 = k
    BY <2>3, <2>4
  <2>6. k - 1 \notin bad
    BY <2>3, <2>5
  <2>7. PICK g : Upto(k - 1, g)
    BY <2>5, <2>6
  <2>8. \E h : Upto((k - 1) + 1, h)
    BY <1>2, <2>5, <2>7
  <2> QED
    BY <2>3, <2>5, <2>8
<1>4. n \in 0 .. n
  OBVIOUS
<1>5. PICK g : Upto(n, g)
  BY <1>3, <1>4
<1> QED
  BY <1>5 DEF Upto, Steps

\* The pages that remove_route_sky leaves of the first n of a chain.
IsSweep(g, pages, own, wanted) ==
  g = [n \in 0 .. Len(pages) |->
         IF n = 0 THEN [pages |-> <<>>, i |-> 1, wanted |-> wanted]
         ELSE SweepPage(own, g[n - 1], pages[n])]

LEMMA SweepIs ==
  ASSUME NEW pages, NEW own, NEW wanted, \E g : IsSweep(g, pages, own, wanted)
  PROVE  \E h : IsSweep(h, pages, own, wanted) /\ Sweep(pages, own, wanted) = h[Len(pages)]
BY Zenon DEF Sweep, IsSweep

-----------------------------------------------------------------------------
(* What a page may be, as a set that the two ways to write one stay within *)

\* A page of G stays one when the pair is stored in a slot that looks free.
Takes(G, pair) ==
  \A page \in G : \A i \in 1 .. PAIRS :
    page.pairs[i].first.code = 0 =>
      [used |-> page.used + 1, pairs |-> [page.pairs EXCEPT ![i] = pair]] \in G

\* A page of G stays one when a pair of it is zeroed.
Drops(G) ==
  \A page \in G : \A i \in 1 .. PAIRS :
    page.used > 0 =>
      [used |-> page.used - 1, pairs |-> [page.pairs EXCEPT ![i] = ZeroPair]] \in G

PageSet(G) == G \subseteq Pages /\ ZeroPage \in G /\ Drops(G)

LEMMA ZerosAreKept ==
  ASSUME NEW pairs
  PROVE  /\ ZeroData \in Addresses /\ ZeroPair \in Pairs /\ Kept(pairs, ZeroPair)
         /\ ZeroPage \in Pages /\ \A i \in 1 .. PAIRS : ZeroPage.pairs[i] = ZeroPair
<1>1. ZeroData \in Addresses /\ ZeroData.code = 0
  BY DEF Addresses, ZeroData
<1>2. ZeroPair \in Pairs /\ ZeroPair.first = ZeroData
  BY <1>1 DEF ZeroPair, Pairs
<1>3. Kept(pairs, ZeroPair)
  BY <1>1, <1>2 DEF Kept
<1>4. ZeroPage \in Pages /\ \A i \in 1 .. PAIRS : ZeroPage.pairs[i] = ZeroPair
  BY <1>2 DEF ZeroPage, Pages
<1> QED
  BY <1>1, <1>2, <1>3, <1>4

\* A chain loses nothing but what is stored under these endpoints or looks free.
Loses(pages, after, eps) ==
  \A n \in 1 .. Len(pages), i \in 1 .. PAIRS :
    \/ pages[n].pairs[i].first.code = 0
    \/ pages[n].pairs[i].first.ep \in eps
    \/ \E m \in 1 .. Len(after) : after[m].pairs[i] = pages[n].pairs[i]

\* insert_route_sky: where a pair goes, and that all else stays.
LEMMA InsertKeeps ==
  ASSUME NEW G, PageSet(G), NEW pages \in Seq(G), NEW pair, Takes(G, pair)
  PROVE  /\ InsertInto(pages, pair) \in Seq(G)
         /\ Loses(pages, InsertInto(pages, pair), {})
<1> DEFINE room == {k \in DOMAIN pages : pages[k].used < PAIRS}
           chain == IF room = {} THEN <<ZeroPage>> \o pages ELSE pages
           k == IF room = {} THEN 1 ELSE Min(room)
           free == {i \in 1 .. PAIRS : chain[k].pairs[i].first.code = 0}
           m == Min(free)
           written == [chain EXCEPT ![k] = [used |-> @.used + 1,
                                            pairs |-> [@.pairs EXCEPT ![m] = pair]]]
<1>1. /\ chain \in Seq(G) /\ k \in 1 .. Len(chain)
      /\ \A n \in 1 .. Len(pages) : \E l \in 1 .. Len(chain) : chain[l] = pages[n]
  <2>1. CASE room = {}
    <3>1. <<ZeroPage>> \in Seq(G) /\ Len(<<ZeroPage>>) = 1
      BY DEF PageSet
    <3>2. /\ <<ZeroPage>> \o pages \in Seq(G)
          /\ Len(<<ZeroPage>> \o pages) = 1 + Len(pages)
          /\ \A n \in 1 .. Len(pages) : (<<ZeroPage>> \o pages)[n + 1] = pages[n]
      BY <3>1
    <3>3. \A n \in 1 .. Len(pages) : n + 1 \in 1 .. Len(<<ZeroPage>> \o pages)
      BY <3>2
    <3>4. chain = <<ZeroPage>> \o pages /\ k = 1
      BY <2>1
    <3>5. k \in 1 .. Len(chain)
      BY <3>2, <3>4
    <3> HIDE DEF chain, k
    <3>6. ASSUME NEW n \in 1 .. Len(pages) PROVE \E l \in 1 .. Len(chain) : chain[l] = pages[n]
      BY <3>2, <3>3, <3>4
    <3> QED
      BY <3>2, <3>4, <3>5, <3>6
  <2>2. CASE room # {}
    <3>1. room \in SUBSET Nat /\ room \subseteq 1 .. Len(pages)
      OBVIOUS
    <3>2. Min(room) \in room
      BY <2>2, <3>1, HasLeast
    <3> QED
      BY <2>2, <3>1, <3>2
  <2> QED
    BY <2>1, <2>2
<1>2. InsertInto(pages, pair) = IF free = {} THEN chain ELSE written
  BY Zenon DEF InsertInto
<1>3. CASE free = {}
  <2>1. InsertInto(pages, pair) = chain
    BY <1>2, <1>3
  <2> HIDE DEF chain
  <2> QED
    BY <1>1, <2>1 DEF Loses
<1>4. CASE free # {}
  <2>0. free \subseteq 1 .. PAIRS
    BY Zenon
  <2>1. free \in SUBSET Nat /\ free \subseteq 1 .. PAIRS
    <3>1. \A i \in free : i \in 1 .. PAIRS
      BY <2>0, Zenon
    <3> HIDE DEF free
    <3>2. \A i \in free : i \in Nat
      BY <3>1
    <3> QED
      BY <2>0, <3>2, Zenon
  <2>2. m \in free /\ m \in 1 .. PAIRS
    BY <1>4, <2>1, HasLeast
  <2> HIDE DEF m, k, chain
  <2>3. chain[k] \in G /\ chain[k].pairs[m].first.code = 0
    BY <1>1, <2>2
  <2> DEFINE page == [used |-> chain[k].used + 1, pairs |-> [chain[k].pairs EXCEPT ![m] = pair]]
  <2>4. page \in G
    BY <2>2, <2>3 DEF Takes
  <2>5. \A i \in 1 .. PAIRS : i # m => page.pairs[i] = chain[k].pairs[i]
    <3>1. chain[k] \in Pages
      BY <2>3 DEF PageSet
    <3> QED
      BY <3>1 DEF Pages
  <2>6. DOMAIN chain = 1 .. Len(chain) /\ Len(chain) \in Nat
    BY <1>1
  <2>7. written = [n \in DOMAIN chain |-> IF n = k THEN page ELSE chain[n]]
    BY <2>6
  <2>8. InsertInto(pages, pair) = written
    BY <1>2, <1>4
  <2> HIDE DEF page, written, free
  <2>9. written \in Seq(G) /\ Len(written) = Len(chain)
    <3>1. \A n \in 1 .. Len(chain) : written[n] \in G
      BY <1>1, <2>4, <2>6, <2>7
    <3>2. written = [n \in 1 .. Len(chain) |-> written[n]]
      BY <2>6, <2>7
    <3> QED
      BY <2>6, <3>1, <3>2
  <2>10. ASSUME NEW n \in 1 .. Len(pages), NEW i \in 1 .. PAIRS
         PROVE  \/ pages[n].pairs[i].first.code = 0
                \/ \E l \in 1 .. Len(written) : written[l].pairs[i] = pages[n].pairs[i]
    <3>1. PICK l \in 1 .. Len(chain) : chain[l] = pages[n]
      BY <1>1
    <3>2. written[l] = IF l = k THEN page ELSE chain[l]
      BY <2>6, <2>7
    <3>3. CASE l = k /\ i = m
      BY <2>3, <3>1, <3>3
    <3>4. CASE ~(l = k /\ i = m)
      <4>1. written[l].pairs[i] = pages[n].pairs[i]
        BY <2>5, <3>1, <3>2, <3>4
      <4> QED
        BY <2>9, <4>1
    <3> QED
      BY <3>3, <3>4
  <2> QED
    BY <2>8, <2>9, <2>10 DEF Loses
<1> QED
  BY <1>3, <1>4

\* remove_route_sky: what a page loses on the way.
Spared(old, new, wanted) ==
  \A j \in 1 .. PAIRS :
    \/ new.pairs[j] = old.pairs[j]
    \/ new.pairs[j] = ZeroPair
       /\ (Same(old.pairs[j].first, wanted) \/ Same(old.pairs[j].first, ZeroData))

\* What has been looked for is still there or zero.
Accs(G, wanted) ==
  [pages : Seq(G), i : Nat \ {0}, wanted : {wanted, ZeroData}]

\* The page is one more, as a page that may have lost a pair.
Appended(G, before, after, page, wanted) ==
  \E new \in G : after = Append(before, new) /\ Spared(page, new, wanted)

LEMMA SweepPageKeeps ==
  ASSUME NEW G, PageSet(G), NEW own, NEW wanted, NEW acc \in Accs(G, wanted), NEW page \in G
  PROVE  /\ SweepPage(own, acc, page) \in Accs(G, wanted)
         /\ Appended(G, acc.pages, SweepPage(own, acc, page).pages, page, wanted)
<1> DEFINE n == Len(acc.pages) + 1
           hits == {j \in acc.i .. PAIRS : Same(page.pairs[j].first, acc.wanted)}
           j == Min(hits)
           swept == [used |-> page.used - 1, pairs |-> [page.pairs EXCEPT ![j] = ZeroPair]]
           after == SweepPage(own, acc, page)
<1>0. after = CASE page.used = 0 -> [acc EXCEPT !.pages = Append(@, page)]
       [] page.used > 0 /\ hits = {} ->
            [acc EXCEPT !.pages = Append(@, page), !.i = PAIRS + 1]
       [] page.used > 0 /\ hits # {} ->
            [pages |-> Append(acc.pages, swept),
             i |-> j,
             wanted |-> IF own = <<n, j>> THEN ZeroData ELSE acc.wanted]
  BY Zenon DEF SweepPage
<1>1. page \in Pages /\ page.used \in Nat /\ PAIRS \in Nat
  BY RoutesAssumption DEF PageSet, Pages
<1>2. \A q \in G : Append(acc.pages, q) \in Seq(G)
  BY DEF Accs
<1>3. CASE page.used = 0
  <2>1. after = [acc EXCEPT !.pages = Append(@, page)]
    BY <1>0, <1>3
  <2>2. after = [pages |-> Append(acc.pages, page), i |-> acc.i, wanted |-> acc.wanted]
    BY <2>1 DEF Accs
  <2> QED
    BY <1>2, <2>2 DEF Accs, Spared, Appended
<1>4. CASE page.used > 0 /\ hits = {}
  <2>1. after = [acc EXCEPT !.pages = Append(@, page), !.i = PAIRS + 1]
    BY <1>0, <1>1, <1>4
  <2>2. after = [pages |-> Append(acc.pages, page), i |-> PAIRS + 1, wanted |-> acc.wanted]
    BY <2>1 DEF Accs
  <2> QED
    BY <1>1, <1>2, <2>2 DEF Accs, Spared, Appended
<1>5. CASE page.used > 0 /\ hits # {}
  <2>1. after = [pages |-> Append(acc.pages, swept), i |-> j,
                 wanted |-> IF own = <<n, j>> THEN ZeroData ELSE acc.wanted]
    BY <1>0, <1>1, <1>5
  <2>2. acc.i \in Nat \ {0} /\ acc.wanted \in {wanted, ZeroData}
    BY DEF Accs
  <2>3. hits \in SUBSET Nat /\ hits \subseteq (1 .. PAIRS)
    BY <1>1, <2>2
  <2>4. j \in 1 .. PAIRS /\ Same(page.pairs[j].first, acc.wanted)
    BY <1>5, <2>3, HasLeast
  <2> HIDE DEF j
  <2>5. swept \in G
    BY <1>5, <2>4 DEF PageSet, Drops
  <2>6. Spared(page, swept, wanted)
    <3>1. \A l \in 1 .. PAIRS : swept.pairs[l] = IF l = j THEN ZeroPair ELSE page.pairs[l]
      BY <1>1, <2>4 DEF Pages
    <3> QED
      BY <2>2, <2>4, <3>1 DEF Spared
  <2> HIDE DEF swept
  <2>7. Append(acc.pages, swept) \in Seq(G)
    BY <1>2, <2>5
  <2> DEFINE w == IF own = <<n, j>> THEN ZeroData ELSE acc.wanted
             ps == Append(acc.pages, swept)
  <2>8. w \in {wanted, ZeroData}
    BY <2>2
  <2>9. after = [pages |-> ps, i |-> j, wanted |-> w]
    BY <2>1
  <2> HIDE DEF w, ps
  <2>10. after \in Accs(G, wanted) /\ after.pages = ps
    BY <2>4, <2>7, <2>8, <2>9 DEF Accs, ps
  <2> QED
    BY <2>5, <2>6, <2>10 DEF ps, Appended
<1> QED
  BY <1>1, <1>3, <1>4, <1>5

LEMMA SweepUnfolds ==
  ASSUME NEW G, PageSet(G), NEW own, NEW wanted, NEW pages \in Seq(G)
  PROVE  \E h : IsSweep(h, pages, own, wanted) /\ Sweep(pages, own, wanted) = h[Len(pages)]
<1> DEFINE A == Accs(G, wanted)
           base == [pages |-> <<>>, i |-> 1, wanted |-> wanted]
           step == [x \in A \X (1 .. Len(pages)) |-> SweepPage(own, x[1], pages[x[2]])]
<1>1. Len(pages) \in Nat /\ \A k \in 1 .. Len(pages) : pages[k] \in G
  OBVIOUS
<1>2. base \in A /\ Len(base.pages) = 0 /\ base.pages = <<>>
  BY DEF Accs
<1>3. step \in [A \X (1 .. Len(pages)) -> A]
  <2>1. ASSUME NEW x \in A \X (1 .. Len(pages)) PROVE SweepPage(own, x[1], pages[x[2]]) \in A
    <3>1. x[1] \in A /\ pages[x[2]] \in G
      BY <1>1
    <3> QED
      BY <3>1, SweepPageKeeps
  <2> QED
    BY <2>1
<1> HIDE DEF base, step, A
<1>4. PICK g : Steps(g, A, Len(pages), base, step)
  BY <1>1, <1>2, <1>3, Recursion
<1>5. g = [n \in 0 .. Len(pages) |-> IF n = 0 THEN base ELSE SweepPage(own, g[n - 1], pages[n])]
  <2>1. ASSUME NEW m \in 1 .. Len(pages) PROVE g[m] = SweepPage(own, g[m - 1], pages[m])
    <3>1. m - 1 \in 0 .. Len(pages)
      BY <1>1
    <3>2. <<g[m - 1], m>> \in A \X (1 .. Len(pages))
          /\ <<g[m - 1], m>>[1] = g[m - 1] /\ <<g[m - 1], m>>[2] = m
      BY <1>4, <3>1 DEF Steps
    <3>3. step[<<g[m - 1], m>>] = SweepPage(own, g[m - 1], pages[m])
      BY <3>2 DEF step
    <3> QED
      BY <1>4, <3>3 DEF Steps
  <2>2. \A n \in 0 .. Len(pages) : n = 0 \/ n \in 1 .. Len(pages)
    BY <1>1
  <2> QED
    BY <1>4, <2>1, <2>2 DEF Steps
<1>6. IsSweep(g, pages, own, wanted)
  BY <1>5 DEF IsSweep, base
<1> QED
  BY <1>6, SweepIs

LEMMA SweepKeeps ==
  ASSUME NEW G, PageSet(G), NEW own, NEW wanted, NEW pages \in Seq(G)
  PROVE  /\ Sweep(pages, own, wanted).pages \in Seq(G)
         /\ Len(Sweep(pages, own, wanted).pages) = Len(pages)
         /\ \A k \in 1 .. Len(pages) :
              Spared(pages[k], Sweep(pages, own, wanted).pages[k], wanted)
<1> DEFINE A == Accs(G, wanted)
           base == [pages |-> <<>>, i |-> 1, wanted |-> wanted]
<1>1. Len(pages) \in Nat /\ \A k \in 1 .. Len(pages) : pages[k] \in G
  OBVIOUS
<1>2. base \in A /\ Len(base.pages) = 0 /\ base.pages = <<>>
  BY DEF Accs
<1>6. PICK h : IsSweep(h, pages, own, wanted) /\ Sweep(pages, own, wanted) = h[Len(pages)]
  BY SweepUnfolds
<1>60. h = [n \in 0 .. Len(pages) |-> IF n = 0 THEN base ELSE SweepPage(own, h[n - 1], pages[n])]
  BY <1>6 DEF IsSweep, base
<1> DEFINE Good(m) == /\ h[m] \in A /\ Len(h[m].pages) = m
                      /\ \A k \in 1 .. m : Spared(pages[k], h[m].pages[k], wanted)
           bad == {m \in 0 .. Len(pages) : ~Good(m)}
<1>7. Good(0)
  <2>1. h[0] = base
    BY <1>1, <1>60
  <2> QED
    BY <1>2, <2>1
<1>8. ASSUME NEW m \in 1 .. Len(pages), Good(m - 1) PROVE Good(m)
  <2>1. h[m] = SweepPage(own, h[m - 1], pages[m])
    BY <1>1, <1>60
  <2>2. pages[m] \in G /\ h[m - 1] \in Accs(G, wanted)
    BY <1>1, <1>8 DEF A
  <2>3. h[m] \in Accs(G, wanted)
        /\ Appended(G, h[m - 1].pages, h[m].pages, pages[m], wanted)
    BY <2>1, <2>2, SweepPageKeeps
  <2>4. PICK new \in G : h[m].pages = Append(h[m - 1].pages, new) /\ Spared(pages[m], new, wanted)
    BY <2>3 DEF Appended
  <2>5. h[m - 1].pages \in Seq(G) /\ Len(h[m - 1].pages) = m - 1
    BY <1>8, <2>2 DEF Accs
  <2>6. /\ Len(h[m].pages) = m /\ h[m].pages[m] = new
        /\ \A k \in 1 .. m - 1 : h[m].pages[k] = h[m - 1].pages[k]
    BY <2>4, <2>5
  <2>7. ASSUME NEW k \in 1 .. m PROVE Spared(pages[k], h[m].pages[k], wanted)
    <3>1. k = m \/ k \in 1 .. m - 1
      OBVIOUS
    <3> QED
      BY <1>8, <2>4, <2>6, <3>1
  <2> QED
    BY <2>3, <2>6, <2>7 DEF A
<1> HIDE DEF Good
<1>9. bad = {}
  <2> SUFFICES ASSUME bad # {} PROVE FALSE
    OBVIOUS
  <2>1. bad \in SUBSET Nat /\ bad \subseteq 0 .. Len(pages)
    BY <1>1
  <2> DEFINE k == Min(bad)
  <2>2. k \in bad /\ \A j \in bad : k <= j
    BY <2>1, HasLeast
  <2> HIDE DEF k
  <2>3. k \in 0 .. Len(pages) /\ ~Good(k)
    BY <2>2
  <2>4. k \in 1 .. Len(pages) /\ k - 1 \in 0 .. Len(pages)
    BY <1>1, <1>7, <2>3
  <2>5. k - 1 \notin bad
    BY <2>2, <2>4
  <2>6. Good(k - 1)
    BY <2>4, <2>5
  <2> QED
    BY <1>8, <2>3, <2>4, <2>6
<1>10. Len(pages) \in 0 .. Len(pages)
  BY <1>1
<1>11. Good(Len(pages))
  BY <1>9, <1>10
<1> QED
  BY <1>6, <1>11 DEF Good, A, Accs

-----------------------------------------------------------------------------
(* find_route_sky: the place it finds *)

LEMMA PlaceIs ==
  ASSUME NEW table \in Tables, NEW data \in Addresses, Found(table, data)
  PROVE  /\ Place(table, data) \in Matches(table, data)
         /\ \A q \in Matches(table, data) : Before(Place(table, data), q)
<1> DEFINE M == Matches(table, data)
           ks == {p[1] : p \in M}
           k == Min(ks)
           is == {p[2] : p \in {q \in M : q[1] = k}}
           i == Min(is)
<1>1. M # {} /\ M \subseteq (DOMAIN table[Bucket(data)]) \X (1 .. PAIRS)
  BY DEF Found, Matches
<1>2. DOMAIN table[Bucket(data)] \subseteq Nat
  BY RoutesAssumption DEF Tables
<1>3. ASSUME NEW p \in M PROVE p = <<p[1], p[2]>> /\ p[1] \in Nat /\ p[2] \in Nat
  BY <1>1, <1>2
<1> HIDE DEF M
<1>4. ks \in SUBSET Nat /\ ks # {}
  BY <1>1, <1>3
<1>5. k \in ks /\ \A x \in ks : k <= x
  BY <1>4, HasLeast
<1> HIDE DEF k
<1>6. is \in SUBSET Nat /\ is # {}
  BY <1>3, <1>5
<1>7. i \in is /\ \A x \in is : i <= x
  BY <1>6, HasLeast
<1> HIDE DEF i
<1>8. PICK p \in M : p[1] = k /\ p[2] = i
  BY <1>7
<1>9. ASSUME NEW q \in M PROVE Before(p, q)
  <2>1. k <= q[1] /\ q[1] \in Nat /\ q[2] \in Nat /\ k \in Nat
    BY <1>3, <1>4, <1>5
  <2>2. q[1] = k => i <= q[2]
    BY <1>7
  <2> QED
    BY <1>8, <2>1, <2>2 DEF Before
<1> QED
  BY <1>8, <1>9, Zenon DEF Place, M

LEMMA AddressFacts ==
  /\ Claimed \subseteq Addresses
  /\ \A c \in Clients, tail \in Tails :
       V4(c, tail) \in Addresses /\ V4(c, tail).code # 0 /\ V4(c, tail).ep = c
  /\ \A data \in Addresses : Bucket(data) \in Buckets
<1>1. Claimed \subseteq Addresses /\ \A data \in Addresses : Bucket(data) \in Buckets
  BY RoutesAssumption DEF Addresses
<1>2. ASSUME NEW c \in Clients, NEW tail \in Tails
      PROVE  V4(c, tail) \in Addresses /\ V4(c, tail).code # 0 /\ V4(c, tail).ep = c
  <2>1. V4(c, tail) \in Addresses
    <3>1. V4(c, tail) \in {V4(x, y) : x \in Clients, y \in Tails}
      OBVIOUS
    <3> QED
      BY <3>1 DEF Addresses
  <2>2. V4(c, tail).code = 253 /\ V4(c, tail).ep = c
    BY DEF V4
  <2> QED
    BY <2>1, <2>2
<1> QED
  BY <1>1, <1>2

-----------------------------------------------------------------------------
(* What a table may be, and what it loses *)

\* Tables of such pages, and what a table has lost in none of its chains.
TablesOf(G) == [Buckets -> Seq(G)]

Losing(table, after, eps) == \A b \in Buckets : Loses(table[b], after[b], eps)

LEMMA TablesOfAre ==
  ASSUME NEW G, PageSet(G), NEW table \in TablesOf(G)
  PROVE  table \in Tables /\ \A b \in Buckets : table[b] \in Seq(G)
<1>1. \A b \in Buckets : table[b] \in Seq(G) /\ table[b] \in Seq(Pages)
  BY DEF TablesOf, PageSet
<1> QED
  BY <1>1 DEF TablesOf, Tables

LEMMA LosesTwice ==
  ASSUME NEW t, NEW u, NEW v, NEW eps, NEW more, Losing(t, u, eps), Losing(u, v, more)
  PROVE  Losing(t, v, eps \cup more)
<1> SUFFICES ASSUME NEW b \in Buckets, NEW k \in 1 .. Len(t[b]), NEW i \in 1 .. PAIRS,
                    t[b][k].pairs[i].first.code # 0, t[b][k].pairs[i].first.ep \notin eps,
                    t[b][k].pairs[i].first.ep \notin more
             PROVE  \E m \in 1 .. Len(v[b]) : v[b][m].pairs[i] = t[b][k].pairs[i]
  BY DEF Losing, Loses
<1>1. PICK n \in 1 .. Len(u[b]) : u[b][n].pairs[i] = t[b][k].pairs[i]
  BY DEF Losing, Loses
<1>2. /\ u[b][n].pairs[i].first = t[b][k].pairs[i].first
      /\ \/ u[b][n].pairs[i].first.code = 0 \/ u[b][n].pairs[i].first.ep \in more
         \/ \E m \in 1 .. Len(v[b]) : v[b][m].pairs[i] = u[b][n].pairs[i]
  BY <1>1 DEF Losing, Loses
<1> QED
  BY <1>1, <1>2

LEMMA InsertOneKeeps ==
  ASSUME NEW G, PageSet(G), NEW t \in TablesOf(G), NEW x \in Pairs, Takes(G, x)
  PROVE  InsertOne(t, x) \in TablesOf(G) /\ Losing(t, InsertOne(t, x), {})
<1> DEFINE h == Bucket(x.first)
           chain == InsertInto(t[h], x)
<1>1. h \in Buckets
  BY AddressFacts DEF Pairs
<1>2. t[h] \in Seq(G)
  BY <1>1, TablesOfAre
<1>3. chain \in Seq(G) /\ Loses(t[h], chain, {})
  BY <1>2, InsertKeeps
<1>4. InsertOne(t, x) = [t EXCEPT ![h] = chain]
  BY DEF InsertOne
<1> HIDE DEF chain, h
<1>5. InsertOne(t, x) = [b \in Buckets |-> IF b = h THEN chain ELSE t[b]]
  BY <1>4 DEF TablesOf
<1>6. InsertOne(t, x) \in TablesOf(G)
  BY <1>3, <1>5 DEF TablesOf
<1>7. Losing(t, InsertOne(t, x), {})
  <2>1. ASSUME NEW b \in Buckets PROVE Loses(t[b], InsertOne(t, x)[b], {})
    <3>1. CASE b = h
      BY <1>3, <1>5, <3>1
    <3>2. CASE b # h
      BY <1>5, <3>2 DEF Loses
    <3> QED
      BY <3>1, <3>2
  <2> QED
    BY <2>1 DEF Losing
<1> QED
  BY <1>6, <1>7

LEMMA InsertRouteKeeps ==
  ASSUME NEW G, PageSet(G), NEW table \in TablesOf(G), NEW pair \in Pairs,
         Takes(G, pair), Takes(G, Swap(pair))
  PROVE  /\ InsertRoute(table, pair) \in TablesOf(G)
         /\ Losing(table, InsertRoute(table, pair), {})
<1> DEFINE once == InsertOne(table, pair)
           twice == InsertOne(once, Swap(pair))
<1>1. Swap(pair) \in Pairs
  BY DEF Swap, Pairs
<1>2. once \in TablesOf(G) /\ Losing(table, once, {})
  BY InsertOneKeeps
<1> HIDE DEF once
<1>3. twice \in TablesOf(G) /\ Losing(once, twice, {})
  BY <1>1, <1>2, InsertOneKeeps
<1>4. InsertRoute(table, pair) = twice
  BY DEF InsertRoute, once
<1> HIDE DEF twice
<1>5. Losing(table, twice, {} \cup {})
  BY <1>2, <1>3, LosesTwice
<1>6. {} \cup {} = {}
  OBVIOUS
<1> QED
  BY <1>3, <1>4, <1>5, <1>6

\* The slot that is found, what is in it, and where it leads.
LEMMA FoundIs ==
  ASSUME NEW table \in Tables, NEW data \in Addresses, Found(table, data)
  PROVE  LET b == Bucket(data)
             place == Place(table, data)
         IN /\ b \in Buckets /\ place[1] \in 1 .. Len(table[b]) /\ place[2] \in 1 .. PAIRS
            /\ table[b] \in Seq(Pages) /\ table[b][place[1]] \in Pages
            /\ PairAt(table, b, place) \in Pairs
            /\ Same(PairAt(table, b, place).first, data)
<1> DEFINE b == Bucket(data)
           place == Place(table, data)
<1>1. b \in Buckets /\ table[b] \in Seq(Pages)
  BY AddressFacts DEF Tables
<1>2. place \in Matches(table, data)
  BY PlaceIs
<1> HIDE DEF place, b
<1>3. /\ place[1] \in 1 .. Len(table[b]) /\ place[2] \in 1 .. PAIRS
      /\ Same(table[b][place[1]].pairs[place[2]].first, data)
  BY <1>1, <1>2 DEF Matches, b
<1>4. table[b][place[1]] \in Pages
  BY <1>1, <1>3
<1>5. PairAt(table, b, place) \in Pairs /\ Same(PairAt(table, b, place).first, data)
  BY <1>3, <1>4 DEF PairAt, Pages
<1> QED
  BY <1>1, <1>3, <1>4, <1>5 DEF place, b

\* The table after remove_route_sky went through bucket b.
SweptIn(t, b, own, wanted) == [t EXCEPT ![b] = Sweep(t[b], own, wanted).pages]

LEMMA SweptTable ==
  ASSUME NEW G, PageSet(G), NEW t \in TablesOf(G), NEW b \in Buckets, NEW own, NEW wanted,
         NEW eps, wanted.code = 0 \/ wanted.ep \in eps
  PROVE  LET after == SweptIn(t, b, own, wanted)
         IN /\ after \in TablesOf(G) /\ Losing(t, after, eps)
            /\ \A c \in Buckets : \A k \in 1 .. Len(t[c]), i \in 1 .. PAIRS :
                 after[c][k].pairs[i] = t[c][k].pairs[i] \/ after[c][k].pairs[i] = ZeroPair
<1> DEFINE chain == Sweep(t[b], own, wanted).pages
           after == SweptIn(t, b, own, wanted)
<1>1. t[b] \in Seq(G)
  BY TablesOfAre
<1>2. /\ chain \in Seq(G) /\ Len(chain) = Len(t[b])
      /\ \A k \in 1 .. Len(t[b]) : Spared(t[b][k], chain[k], wanted)
  BY <1>1, SweepKeeps
<1> HIDE DEF chain
<1>3. after = [c \in Buckets |-> IF c = b THEN chain ELSE t[c]]
  BY DEF TablesOf, SweptIn, chain
<1> HIDE DEF after
<1>4. after \in TablesOf(G)
  BY <1>2, <1>3 DEF TablesOf
<1>5. Losing(t, after, eps)
  <2> SUFFICES ASSUME NEW c \in Buckets, NEW k \in 1 .. Len(t[c]), NEW i \in 1 .. PAIRS,
                      t[c][k].pairs[i].first.code # 0, t[c][k].pairs[i].first.ep \notin eps
               PROVE  k \in 1 .. Len(after[c]) /\ after[c][k].pairs[i] = t[c][k].pairs[i]
    BY DEF Losing, Loses
  <2>1. CASE c = b
    <3>1. ~Same(t[c][k].pairs[i].first, wanted) /\ ~Same(t[c][k].pairs[i].first, ZeroData)
      BY DEF Same, ZeroData
    <3> QED
      BY <1>2, <1>3, <2>1, <3>1 DEF Spared
  <2>2. CASE c # b
    BY <1>3, <2>2
  <2> QED
    BY <2>1, <2>2
<1>6. ASSUME NEW c \in Buckets, NEW k \in 1 .. Len(t[c]), NEW i \in 1 .. PAIRS
      PROVE  after[c][k].pairs[i] = t[c][k].pairs[i] \/ after[c][k].pairs[i] = ZeroPair
  BY <1>2, <1>3 DEF Spared
<1> QED
  BY <1>4, <1>5, <1>6 DEF after

LEMMA RemoveRouteKeeps ==
  ASSUME NEW G, PageSet(G), NEW table \in TablesOf(G), NEW data \in Addresses,
         Found(table, data)
  PROVE  /\ RemoveRoute(table, data) \in TablesOf(G)
         /\ Losing(table, RemoveRoute(table, data),
              {data.ep, PairAt(table, Bucket(data), Place(table, data)).second.ep})
<1> DEFINE own == Place(table, data)
           b == Bucket(data)
           first == PairAt(table, b, own).first
           second == PairAt(table, b, own).second
           b1 == Bucket(first)
           b2 == Bucket(second)
           cleared == SweptIn(table, b1, own, first)
           wanted == PairAt(cleared, b, own).second
           own2 == IF b2 = b THEN own ELSE <<0, 0>>
           after == SweptIn(cleared, b2, own2, wanted)
<1>1. RemoveRoute(table, data) = after
  BY Zenon DEF RemoveRoute, SweptIn
<1>2. /\ b \in Buckets /\ own[1] \in 1 .. Len(table[b]) /\ own[2] \in 1 .. PAIRS
      /\ PairAt(table, b, own) \in Pairs /\ Same(PairAt(table, b, own).first, data)
  BY TablesOfAre, FoundIs
<1>3. first \in Addresses /\ second \in Addresses /\ first.ep = data.ep
  BY <1>2 DEF Pairs, Same
<1>4. b1 \in Buckets /\ b2 \in Buckets
  BY <1>3, AddressFacts
<1> HIDE DEF own, b, first, second, b1, b2
<1>5. first.code = 0 \/ first.ep \in {data.ep}
  BY <1>3
<1>6. /\ cleared \in TablesOf(G) /\ Losing(table, cleared, {data.ep})
      /\ \A c \in Buckets : \A k \in 1 .. Len(table[c]), i \in 1 .. PAIRS :
           cleared[c][k].pairs[i] = table[c][k].pairs[i] \/ cleared[c][k].pairs[i] = ZeroPair
  BY <1>4, <1>5, SweptTable
<1>7. wanted.code = 0 \/ wanted.ep \in {second.ep}
  <2>1. \/ PairAt(cleared, b, own) = PairAt(table, b, own)
        \/ PairAt(cleared, b, own) = ZeroPair
    BY <1>2, <1>6 DEF PairAt
  <2> QED
    BY <2>1 DEF ZeroPair, ZeroData, second
<1> HIDE DEF cleared, own2, wanted
<1>8. after \in TablesOf(G) /\ Losing(cleared, after, {second.ep})
  BY <1>4, <1>6, <1>7, SweptTable
<1> HIDE DEF after
<1>9. Losing(table, after, {data.ep} \cup {second.ep})
  BY <1>6, <1>8, LosesTwice
<1>10. {data.ep} \cup {second.ep} = {data.ep, second.ep}
  OBVIOUS
<1> QED
  BY <1>1, <1>8, <1>9, <1>10 DEF second, own, b

-----------------------------------------------------------------------------
(* Pages of which every slot is kept *)

\* Every pair of the page is one that a SYN asked for, or looks free.
KeptPages(pairs) ==
  {page \in Pages : \A i \in 1 .. PAIRS : Kept(pairs, page.pairs[i])}

Clean(pairs) == TablesOf(KeptPages(pairs))

\* A page stays kept when a pair that is kept is written into it.
LEMMA WrittenPageIsKept ==
  ASSUME NEW pairs, NEW page \in KeptPages(pairs), NEW i \in 1 .. PAIRS,
         NEW pair \in Pairs, Kept(pairs, pair), NEW used \in Nat
  PROVE  [used |-> used, pairs |-> [page.pairs EXCEPT ![i] = pair]] \in KeptPages(pairs)
<1> DEFINE written == [used |-> used, pairs |-> [page.pairs EXCEPT ![i] = pair]]
<1>1. page.pairs \in [1 .. PAIRS -> Pairs] /\ \A j \in 1 .. PAIRS : Kept(pairs, page.pairs[j])
  BY DEF KeptPages, Pages
<1>2. written \in Pages
  BY <1>1 DEF Pages
<1>3. ASSUME NEW j \in 1 .. PAIRS PROVE Kept(pairs, written.pairs[j])
  <2>1. written.pairs[j] = IF j = i THEN pair ELSE page.pairs[j]
    BY <1>1
  <2> QED
    BY <1>1, <2>1
<1> QED
  BY <1>2, <1>3 DEF KeptPages

LEMMA KeptPagesAre ==
  ASSUME NEW pairs
  PROVE  /\ PageSet(KeptPages(pairs))
         /\ \A pair \in Pairs : Kept(pairs, pair) => Takes(KeptPages(pairs), pair)
<1> DEFINE G == KeptPages(pairs)
<1>1. \A page \in G : page \in Pages /\ page.used \in Nat
  BY DEF KeptPages, Pages
<1>2. ZeroPage \in G
  BY ZerosAreKept DEF KeptPages
<1> HIDE DEF G
<1>3. ASSUME NEW page \in G, NEW i \in 1 .. PAIRS, page.used > 0
      PROVE  [used |-> page.used - 1, pairs |-> [page.pairs EXCEPT ![i] = ZeroPair]] \in G
  <2>1. page.used - 1 \in Nat
    BY <1>1, <1>3
  <2> QED
    BY <2>1, ZerosAreKept, WrittenPageIsKept DEF G
<1>4. ASSUME NEW pair \in Pairs, Kept(pairs, pair), NEW page \in G, NEW i \in 1 .. PAIRS
      PROVE  [used |-> page.used + 1, pairs |-> [page.pairs EXCEPT ![i] = pair]] \in G
  <2>1. page.used + 1 \in Nat
    BY <1>1
  <2> QED
    BY <1>4, <2>1, WrittenPageIsKept DEF G
<1>5. Drops(G)
  BY <1>3 DEF Drops
<1>6. \A pair \in Pairs : Kept(pairs, pair) => Takes(G, pair)
  BY <1>4 DEF Takes
<1>7. PageSet(G)
  BY <1>1, <1>2, <1>5 DEF PageSet
<1> QED
  BY <1>6, <1>7 DEF G

LEMMA CleanTables ==
  ASSUME NEW pairs, NEW table \in Clean(pairs)
  PROVE  /\ table \in Tables
         /\ \A b \in Buckets : table[b] \in Seq(KeptPages(pairs))
BY KeptPagesAre, TablesOfAre DEF Clean

LEMMA CleanGrows ==
  ASSUME NEW pairs, NEW more, pairs \subseteq more
  PROVE  Clean(pairs) \subseteq Clean(more)
<1>1. KeptPages(pairs) \subseteq KeptPages(more)
  BY DEF KeptPages, Kept, Paired
<1> QED
  BY <1>1 DEF Clean, TablesOf

LEMMA FoundIsPaired ==
  ASSUME NEW pairs, NEW table \in Clean(pairs), NEW c \in Clients, NEW tail \in Tails,
         Found(table, V4(c, tail))
  PROVE  Paired(pairs, c, PairAt(table, Bucket(V4(c, tail)), Place(table, V4(c, tail))).second.ep)
<1> DEFINE data == V4(c, tail)
           b == Bucket(data)
           place == Place(table, data)
<1>1. data \in Addresses /\ data.code # 0 /\ data.ep = c
  BY AddressFacts
<1>2. table \in Tables
  BY CleanTables
<1>3. /\ b \in Buckets /\ place[1] \in 1 .. Len(table[b]) /\ place[2] \in 1 .. PAIRS
      /\ Same(PairAt(table, b, place).first, data)
  BY <1>1, <1>2, FoundIs
<1> HIDE DEF place, b, data
<1>4. table[b][place[1]] \in KeptPages(pairs)
  BY <1>3, CleanTables
<1>5. Kept(pairs, PairAt(table, b, place))
  BY <1>3, <1>4 DEF KeptPages, PairAt
<1>6. Paired(pairs, c, PairAt(table, b, place).second.ep)
  BY <1>1, <1>3, <1>5 DEF Kept, Same
<1> QED
  BY <1>6 DEF place, b, data

-----------------------------------------------------------------------------
(* Pages that count no more than is stored in them *)

CountedPages ==
  {page \in Pages : page.used \in 0 .. Cardinality(Occupied(page))}

LEMMA OccupiedIs ==
  ASSUME NEW page \in Pages, NEW i \in 1 .. PAIRS, NEW pair \in Pairs, NEW used \in Nat
  PROVE  LET after == [used |-> used, pairs |-> [page.pairs EXCEPT ![i] = pair]]
         IN /\ after \in Pages /\ IsFiniteSet(Occupied(page))
            /\ Cardinality(Occupied(page)) \in Nat
            /\ pair.first.code # 0 => Occupied(after) = Occupied(page) \cup {i}
            /\ pair.first.code = 0 => Occupied(after) = Occupied(page) \ {i}
<1> DEFINE after == [used |-> used, pairs |-> [page.pairs EXCEPT ![i] = pair]]
<1>1. page.pairs \in [1 .. PAIRS -> Pairs]
  BY DEF Pages
<1>2. after \in Pages
  BY <1>1 DEF Pages
<1>3. \A j \in 1 .. PAIRS : after.pairs[j] = IF j = i THEN pair ELSE page.pairs[j]
  BY <1>1
<1> HIDE DEF after
<1>4. IsFiniteSet(1 .. PAIRS)
  BY RoutesAssumption, FS_Interval
<1>5. Occupied(page) \subseteq 1 .. PAIRS
  BY DEF Occupied
<1>6. IsFiniteSet(Occupied(page)) /\ Cardinality(Occupied(page)) \in Nat
  BY <1>4, <1>5, FS_Subset, FS_CardinalityType
<1>7. pair.first.code # 0 => Occupied(after) = Occupied(page) \cup {i}
  BY <1>3 DEF Occupied
<1>8. pair.first.code = 0 => Occupied(after) = Occupied(page) \ {i}
  BY <1>3 DEF Occupied
<1> QED
  BY <1>2, <1>6, <1>7, <1>8 DEF after

LEMMA CountedPagesAre ==
  /\ PageSet(CountedPages)
  /\ \A pair \in Pairs : pair.first.code # 0 => Takes(CountedPages, pair)
<1> DEFINE G == CountedPages
<1>1. \A page \in G : page \in Pages /\ page.used \in 0 .. Cardinality(Occupied(page))
  BY DEF CountedPages
<1>2. ZeroPage \in G
  <2>1. Occupied(ZeroPage) = {}
    BY ZerosAreKept DEF Occupied, ZeroPair, ZeroData
  <2>2. ZeroPage.used = 0 /\ Cardinality({}) = 0
    BY FS_EmptySet DEF ZeroPage
  <2> QED
    BY <2>1, <2>2, ZerosAreKept DEF CountedPages
<1>3. ASSUME NEW page \in G, NEW i \in 1 .. PAIRS, page.used > 0
      PROVE  [used |-> page.used - 1, pairs |-> [page.pairs EXCEPT ![i] = ZeroPair]] \in G
  <2> DEFINE after == [used |-> page.used - 1, pairs |-> [page.pairs EXCEPT ![i] = ZeroPair]]
  <2>1. page \in Pages /\ page.used \in Nat /\ page.used - 1 \in Nat
    BY <1>1, <1>3 DEF Pages
  <2>2. /\ after \in Pages /\ IsFiniteSet(Occupied(page)) /\ Cardinality(Occupied(page)) \in Nat
        /\ Occupied(after) = Occupied(page) \ {i}
    BY <2>1, ZerosAreKept, OccupiedIs DEF ZeroPair, ZeroData
  <2>3. Cardinality(Occupied(page) \ {i}) = IF i \in Occupied(page)
          THEN Cardinality(Occupied(page)) - 1 ELSE Cardinality(Occupied(page))
    BY <2>2, FS_RemoveElement
  <2>4. after.used = page.used - 1
    OBVIOUS
  <2> HIDE DEF after
  <2>5. after.used \in 0 .. Cardinality(Occupied(after))
    BY <1>1, <2>1, <2>2, <2>3, <2>4
  <2> QED
    BY <2>2, <2>5 DEF CountedPages, after
<1>4. ASSUME NEW pair \in Pairs, pair.first.code # 0, NEW page \in G, NEW i \in 1 .. PAIRS,
             page.pairs[i].first.code = 0
      PROVE  [used |-> page.used + 1, pairs |-> [page.pairs EXCEPT ![i] = pair]] \in G
  <2> DEFINE after == [used |-> page.used + 1, pairs |-> [page.pairs EXCEPT ![i] = pair]]
  <2>1. page \in Pages /\ page.used \in Nat /\ page.used + 1 \in Nat
    BY <1>1 DEF Pages
  <2>2. /\ after \in Pages /\ IsFiniteSet(Occupied(page)) /\ Cardinality(Occupied(page)) \in Nat
        /\ Occupied(after) = Occupied(page) \cup {i}
    BY <1>4, <2>1, OccupiedIs
  <2>3. i \notin Occupied(page)
    BY <1>4 DEF Occupied
  <2>4. Cardinality(Occupied(page) \cup {i}) = Cardinality(Occupied(page)) + 1
    BY <2>2, <2>3, FS_AddElement
  <2>5. after.used = page.used + 1
    OBVIOUS
  <2> HIDE DEF after
  <2>6. after.used \in 0 .. Cardinality(Occupied(after))
    BY <1>1, <2>1, <2>2, <2>4, <2>5
  <2> QED
    BY <2>2, <2>6 DEF CountedPages, after
<1> HIDE DEF G
<1>5. Drops(G)
  BY <1>3 DEF Drops
<1>6. \A pair \in Pairs : pair.first.code # 0 => Takes(G, pair)
  BY <1>4 DEF Takes
<1>7. PageSet(G)
  BY <1>1, <1>2, <1>5 DEF PageSet
<1> QED
  BY <1>6, <1>7 DEF G

-----------------------------------------------------------------------------
(* One packet after the other *)

\* Sends leaves nobody astray when a SYN paired the two.
LEMMA SendsPaired ==
  ASSUME NEW c, NEW e, Sends(c, e), Paired(asked', c, e)
  PROVE  astray' = astray
BY DEF Sends

LEMMA SynKeeps ==
  ASSUME routes \in Clean(asked), NEW c \in Clients, NEW tail \in Tails,
         NEW data \in Claimed, Syn(c, data, tail)
  PROVE  /\ routes' \in Clean(asked') /\ astray' = astray /\ asked \subseteq asked'
         /\ Losing(routes, routes', {})
         /\ NoneLooksFree(asked') => NoneLooksFree(asked)
         /\ NoneLooksFree(asked') /\ routes \in TablesOf(CountedPages)
              => routes' \in TablesOf(CountedPages)
<1> DEFINE pair == [first |-> V4(c, tail), second |-> data]
           swapped == Swap(pair)
<1>1. /\ routes' = InsertRoute(routes, pair) /\ asked' = asked \cup {<<c, data.ep>>}
      /\ Sends(c, data.ep)
  BY DEF Syn
<1>2. V4(c, tail) \in Addresses /\ V4(c, tail).code # 0 /\ V4(c, tail).ep = c /\ data \in Addresses
  BY AddressFacts
<1>3. /\ pair \in Pairs /\ pair.first.ep = c /\ pair.second.ep = data.ep /\ pair.first.code # 0
      /\ swapped \in Pairs /\ swapped.first = data /\ swapped.second.ep = c
  BY <1>2 DEF Pairs, Swap
<1>4. Paired(asked', c, data.ep) /\ Paired(asked', data.ep, c)
  BY <1>1 DEF Paired
<1> HIDE DEF pair
<1>5. Kept(asked', pair) /\ Kept(asked', swapped)
  BY <1>3, <1>4 DEF Kept
<1>6. routes \in TablesOf(KeptPages(asked'))
  BY <1>1, CleanGrows DEF Clean
<1> HIDE DEF swapped
<1>7. Takes(KeptPages(asked'), pair) /\ Takes(KeptPages(asked'), swapped)
  BY <1>3, <1>5, KeptPagesAre
<1>8. routes' \in Clean(asked') /\ Losing(routes, routes', {})
  BY <1>1, <1>3, <1>6, <1>7, KeptPagesAre, InsertRouteKeeps DEF Clean, swapped
<1>9. NoneLooksFree(asked') => NoneLooksFree(asked) /\ data.code # 0
  BY <1>1 DEF NoneLooksFree
<1>10. ASSUME data.code # 0, routes \in TablesOf(CountedPages)
       PROVE  routes' \in TablesOf(CountedPages)
  <2>1. Takes(CountedPages, pair) /\ Takes(CountedPages, swapped)
    BY <1>3, <1>10, CountedPagesAre
  <2> QED
    BY <1>1, <1>3, <1>10, <2>1, CountedPagesAre, InsertRouteKeeps DEF swapped
<1> QED
  BY <1>1, <1>4, <1>8, <1>9, <1>10, SendsPaired

LEMMA FinKeeps ==
  ASSUME routes \in Clean(asked), NEW c \in Clients, NEW tail \in Tails, Fin(c, tail)
  PROVE  /\ routes' \in Clean(asked') /\ astray' = astray /\ asked' = asked
         /\ Paired(asked', c, Destination(V4(c, tail)))
         /\ Losing(routes, routes', {c, Destination(V4(c, tail))})
         /\ routes \in TablesOf(CountedPages) => routes' \in TablesOf(CountedPages)
<1> DEFINE data == V4(c, tail)
<1>1. /\ Found(routes, data) /\ asked' = asked
      /\ routes' = RemoveRoute(routes, data) /\ Sends(c, Destination(data))
  BY DEF Fin
<1>2. Paired(asked', c, Destination(data))
  BY <1>1, FoundIsPaired DEF Destination
<1>3. data \in Addresses /\ data.ep = c
  BY AddressFacts
<1> HIDE DEF data
<1>4. /\ routes' \in Clean(asked')
      /\ Losing(routes, routes', {data.ep, Destination(data)})
  BY <1>1, <1>3, KeptPagesAre, RemoveRouteKeeps DEF Clean, Destination
<1>5. routes \in TablesOf(CountedPages) => routes' \in TablesOf(CountedPages)
  BY <1>1, <1>3, CountedPagesAre, RemoveRouteKeeps
<1> QED
  BY <1>1, <1>2, <1>3, <1>4, <1>5, SendsPaired DEF data

LEMMA RestKeeps ==
  ASSUME routes \in Clean(asked), NEW c \in Clients, NEW tail \in Tails,
         Data(c, tail) \/ Unknown(c, tail)
  PROVE  routes' = routes /\ astray' = astray /\ asked' = asked
<1>1. CASE Data(c, tail)
  <2>1. /\ Found(routes, V4(c, tail)) /\ asked' = asked /\ routes' = routes
        /\ Sends(c, Destination(V4(c, tail)))
    BY <1>1 DEF Data
  <2>2. Paired(asked', c, Destination(V4(c, tail)))
    BY <2>1, FoundIsPaired DEF Destination
  <2> QED
    BY <2>1, <2>2, SendsPaired
<1>2. CASE Unknown(c, tail)
  BY <1>2 DEF Unknown, vars
<1> QED
  BY <1>1, <1>2

LEMMA NextIs ==
  ASSUME Next
  PROVE  \E c \in Clients, tail \in Tails :
           \/ \E data \in Claimed : Syn(c, data, tail)
           \/ Fin(c, tail) \/ Data(c, tail) \/ Unknown(c, tail)
BY Zenon DEF Next

\* No page counts more than it holds.
Counted == NoneLooksFree(asked) => routes \in TablesOf(CountedPages)

LEMMA AloneKeeps ==
  ASSUME routes \in Clean(asked), astray = {}, Next
  PROVE  /\ routes' \in Clean(asked') /\ astray' = {} /\ asked \subseteq asked'
         /\ Counted => Counted'
<1> PICK c \in Clients, tail \in Tails :
      \/ \E data \in Claimed : Syn(c, data, tail)
      \/ Fin(c, tail) \/ Data(c, tail) \/ Unknown(c, tail)
  BY NextIs
<1>1. ASSUME NEW data \in Claimed, Syn(c, data, tail)
      PROVE  /\ routes' \in Clean(asked') /\ astray' = {} /\ asked \subseteq asked'
             /\ Counted => Counted'
  BY <1>1, SynKeeps DEF Counted
<1>2. CASE Fin(c, tail)
  BY <1>2, FinKeeps DEF Counted
<1>3. CASE Data(c, tail) \/ Unknown(c, tail)
  BY <1>3, RestKeeps DEF Counted
<1> QED
  BY <1>1, <1>2, <1>3

\* OthersKept, whatever packet comes alone.
LEMMA AloneKeepsOthers ==
  ASSUME routes \in Clean(asked), Next
  PROVE  OthersKept
<1> SUFFICES ASSUME NEW c \in Clients, HandledFor(c), NEW s \in Stored \ Stored'
             PROVE  \/ s.pair.first.code = 0 \/ s.pair.first.ep = c
                    \/ Paired(asked', c, s.pair.first.ep)
  BY DEF OthersKept
<1>1. routes \in Tables
  BY CleanTables
<1>20. PICK b \in Buckets : s \in {[b |-> b, pair |-> routes[b][k].pairs[i]] :
                                     k \in DOMAIN routes[b], i \in 1 .. PAIRS}
  BY DEF Stored
<1>2. PICK k \in DOMAIN routes[b], i \in 1 .. PAIRS :
        s = [b |-> b, pair |-> routes[b][k].pairs[i]]
  BY <1>20
<1>3. k \in 1 .. Len(routes[b])
  BY <1>1 DEF Tables
<1>4. s.pair = routes[b][k].pairs[i]
  BY <1>2
<1>5. ASSUME NEW eps, Losing(routes, routes', eps), routes' \in Clean(asked'),
             s.pair.first.code # 0
      PROVE  s.pair.first.ep \in eps
  <2> SUFFICES ASSUME s.pair.first.ep \notin eps PROVE FALSE
    OBVIOUS
  <2>1. PICK m \in 1 .. Len(routes'[b]) : routes'[b][m].pairs[i] = s.pair
    BY <1>3, <1>4, <1>5 DEF Losing, Loses
  <2>2. m \in DOMAIN routes'[b]
    <3>1. routes'[b] \in Seq(KeptPages(asked'))
      BY <1>5, CleanTables
    <3> QED
      BY <3>1
  <2>3. s = [b |-> b, pair |-> routes'[b][m].pairs[i]]
    BY <1>2, <1>4, <2>1
  <2>4. s \in Stored'
    BY <2>2, <2>3 DEF Stored
  <2> QED
    BY <2>4
<1>6. ASSUME NEW tail \in Tails, Fin(c, tail)
      PROVE  \/ s.pair.first.code = 0 \/ s.pair.first.ep = c
             \/ Paired(asked', c, s.pair.first.ep)
  <2>1. /\ routes' \in Clean(asked') /\ Paired(asked', c, Destination(V4(c, tail)))
        /\ Losing(routes, routes', {c, Destination(V4(c, tail))})
    BY <1>6, FinKeeps
  <2> QED
    BY <1>5, <2>1
<1>7. ASSUME NEW d \in Clients, NEW tail \in Tails, NEW data \in Claimed, Syn(d, data, tail)
      PROVE  s.pair.first.code = 0
  <2>1. routes' \in Clean(asked') /\ Losing(routes, routes', {})
    BY <1>7, SynKeeps
  <2> QED
    BY <1>5, <2>1
<1>8. ASSUME NEW d \in Clients, NEW tail \in Tails, Data(d, tail) \/ Unknown(d, tail)
      PROVE  FALSE
  <2>1. routes' = routes
    BY <1>8, RestKeeps
  <2> QED
    BY <2>1 DEF Stored
<1>9. ASSUME NEW d \in Clients, NEW tail \in Tails, Fin(d, tail)
      PROVE  \E x \in Tails : Fin(c, x)
  <2>1. syns' = syns
    BY <1>9 DEF Fin
  <2> QED
    BY <2>1 DEF HandledFor
<1> QED
  BY <1>6, <1>7, <1>8, <1>9, NextIs

-----------------------------------------------------------------------------
(* What a step of one handler does to the table *)

LEMMA HalfIs ==
  ASSUME NEW pair \in Pairs, NEW half \in {"first", "second"}, NEW value \in Addresses
  PROVE  [pair EXCEPT ![half] = value] =
           IF half = "first" THEN [first |-> value, second |-> pair.second]
           ELSE [first |-> pair.first, second |-> value]
<1>1. CASE half = "first"
  <2>1. [pair EXCEPT ![half] = value] = [pair EXCEPT !.first = value]
    BY <1>1
  <2>2. [pair EXCEPT !.first = value] = [first |-> value, second |-> pair.second]
    BY DEF Pairs
  <2> QED
    BY <1>1, <2>1, <2>2
<1>2. CASE half = "second"
  <2>1. [pair EXCEPT ![half] = value] = [pair EXCEPT !.second = value]
    BY <1>2
  <2>2. [pair EXCEPT !.second = value] = [first |-> pair.first, second |-> value]
    BY DEF Pairs
  <2> QED
    BY <1>2, <2>1, <2>2
<1> QED
  BY <1>1, <1>2

LEMMA SlotFacts ==
  ASSUME NEW table \in Tables, NEW s \in SlotsOf(table)
  PROVE  LET n == Len(table[s[1]]) - s[2] + 1
         IN /\ s[1] \in Buckets /\ table[s[1]] \in Seq(Pages) /\ Len(table[s[1]]) \in Nat
            /\ s[2] \in 1 .. Len(table[s[1]]) /\ s[3] \in 1 .. PAIRS
            /\ n \in 1 .. Len(table[s[1]]) /\ table[s[1]][n] \in Pages
            /\ In(table, s) = table[s[1]][n].pairs[s[3]] /\ In(table, s) \in Pairs
            /\ s = <<s[1], s[2], s[3]>>
<1>1. s \in Buckets \X Nat \X Nat /\ s[2] \in 1 .. Len(table[s[1]]) /\ s[3] \in 1 .. PAIRS
  BY DEF SlotsOf
<1>2. s[1] \in Buckets /\ s = <<s[1], s[2], s[3]>> /\ table[s[1]] \in Seq(Pages)
  BY <1>1 DEF Tables
<1>3. Len(table[s[1]]) \in Nat /\ Len(table[s[1]]) - s[2] + 1 \in 1 .. Len(table[s[1]])
  BY <1>1, <1>2
<1>4. table[s[1]][Len(table[s[1]]) - s[2] + 1] \in Pages
  BY <1>2, <1>3
<1>5. In(table, s) \in Pairs
  BY <1>1, <1>4 DEF In, Pages
<1> QED
  BY <1>1, <1>2, <1>3, <1>4, <1>5 DEF In

LEMMA PageIs ==
  ASSUME NEW page \in Pages, NEW i, NEW pair, NEW used
  PROVE  /\ [page EXCEPT !.pairs = [@ EXCEPT ![i] = pair]]
              = [used |-> page.used, pairs |-> [page.pairs EXCEPT ![i] = pair]]
         /\ [page EXCEPT !.used = used] = [used |-> used, pairs |-> page.pairs]
BY DEF Pages

\* A page is written.
\* The table with another page n in bucket b.
WithPage(table, b, n, page) == [table EXCEPT ![b] = [@ EXCEPT ![n] = page]]

LEMMA WrittenPage ==
  ASSUME NEW table \in Tables, NEW b \in Buckets, NEW n \in 1 .. Len(table[b]),
         NEW page \in Pages
  PROVE  LET after == WithPage(table, b, n, page) IN
         /\ after \in Tables /\ \A c \in Buckets : Len(after[c]) = Len(table[c])
         /\ after[b][n] = page
         /\ SlotsOf(after) = SlotsOf(table)
         /\ \A s \in SlotsOf(table) :
              In(after, s) = IF s[1] = b /\ s[2] = Len(table[b]) - n + 1
                             THEN page.pairs[s[3]] ELSE In(table, s)
<1> DEFINE after == WithPage(table, b, n, page)
<1>1. table[b] \in Seq(Pages) /\ Len(table[b]) \in Nat
  BY DEF Tables
<1>2. [table[b] EXCEPT ![n] = page] \in Seq(Pages)
      /\ Len([table[b] EXCEPT ![n] = page]) = Len(table[b])
  BY <1>1
<1>3. after = [c \in Buckets |-> IF c = b THEN [table[b] EXCEPT ![n] = page] ELSE table[c]]
  BY DEF Tables, WithPage
<1> HIDE DEF after
<1>4. after \in Tables
  BY <1>2, <1>3 DEF Tables
<1>5. \A c \in Buckets : Len(after[c]) = Len(table[c])
  BY <1>2, <1>3
<1>6. SlotsOf(after) = SlotsOf(table)
  BY <1>5 DEF SlotsOf
<1>7. ASSUME NEW s \in SlotsOf(table)
      PROVE  In(after, s) = IF s[1] = b /\ s[2] = Len(table[b]) - n + 1
                            THEN page.pairs[s[3]] ELSE In(table, s)
  <2> DEFINE m == Len(table[s[1]]) - s[2] + 1
  <2>1. s[1] \in Buckets /\ m \in 1 .. Len(table[s[1]]) /\ s[2] \in Nat
        /\ Len(after[s[1]]) = Len(table[s[1]])
    BY <1>5, SlotFacts
  <2>2. In(after, s) = after[s[1]][m].pairs[s[3]] /\ In(table, s) = table[s[1]][m].pairs[s[3]]
    BY <2>1 DEF In
  <2>3. CASE s[1] = b
    <3>1. after[s[1]][m] = IF m = n THEN page ELSE table[s[1]][m]
      BY <1>1, <1>3, <2>1, <2>3
    <3>2. m = n <=> s[2] = Len(table[b]) - n + 1
      BY <1>1, <2>1, <2>3
    <3> QED
      BY <2>2, <2>3, <3>1, <3>2
  <2>4. CASE s[1] # b
    <3>1. after[s[1]] = table[s[1]]
      BY <1>3, <2>1, <2>4
    <3> QED
      BY <2>2, <2>4, <3>1
  <2> QED
    BY <2>3, <2>4
<1>8. after[b][n] = page
  BY <1>1, <1>3
<1> QED
  BY <1>4, <1>5, <1>6, <1>7, <1>8 DEF after

LEMMA StoresHalfIs ==
  ASSUME routes \in Tables, NEW p \in Cpus, cpu[p].slot \in SlotsOf(routes),
         NEW half \in {"first", "second"}, NEW value \in Addresses,
         StoresHalf(p, half, value)
  PROVE  /\ routes' \in Tables /\ \A b \in Buckets : Len(routes'[b]) = Len(routes[b])
         /\ SlotsOf(routes') = SlotsOf(routes)
         /\ \A s \in SlotsOf(routes) : s # cpu[p].slot => In(routes', s) = In(routes, s)
         /\ In(routes', cpu[p].slot) =
              IF half = "first" THEN [first |-> value, second |-> In(routes, cpu[p].slot).second]
              ELSE [first |-> In(routes, cpu[p].slot).first, second |-> value]
         /\ asked' = asked /\ astray' = astray
         /\ ~torn' => ~torn /\ \A q \in Cpus \ {p} : cpu[p].slot \notin Held(q)
<1> DEFINE x == cpu[p].slot
           b == x[1]
           n == Len(routes[b]) - x[2] + 1
           old == In(routes, x)
           new == IF half = "first" THEN [first |-> value, second |-> old.second]
                  ELSE [first |-> old.first, second |-> value]
           page == [used |-> routes[b][n].used, pairs |-> [routes[b][n].pairs EXCEPT ![x[3]] = new]]
<1>1. /\ b \in Buckets /\ routes[b] \in Seq(Pages) /\ Len(routes[b]) \in Nat
      /\ x[2] \in 1 .. Len(routes[b]) /\ x[3] \in 1 .. PAIRS
      /\ n \in 1 .. Len(routes[b]) /\ routes[b][n] \in Pages
      /\ old = routes[b][n].pairs[x[3]] /\ old \in Pairs
      /\ x = <<x[1], x[2], x[3]>>
  BY SlotFacts
<1>2. /\ routes' = [routes EXCEPT ![b][n].pairs[x[3]][half] = value]
      /\ asked' = asked /\ astray' = astray
      /\ torn' = (torn \/ \E q \in Cpus \ {p} : x \in Held(q))
  BY DEF StoresHalf, PageNo
<1> HIDE DEF n, b, x
<1>3. new \in Pairs
  BY <1>1 DEF Pairs
<1>4. [old EXCEPT ![half] = value] = new
  BY <1>1, HalfIs
<1> HIDE DEF new, old
<1>5. page \in Pages
  BY <1>1, <1>3 DEF Pages
<1>6. [routes[b][n] EXCEPT !.pairs[x[3]][half] = value] = page
  <2>1. routes[b][n].pairs[x[3]] = old
    BY <1>1
  <2>2. [routes[b][n] EXCEPT !.pairs = [@ EXCEPT ![x[3]] = new]] = page
    BY <1>1, PageIs
  <2> QED
    BY <2>1, <2>2, <1>4
<1>7. routes' = WithPage(routes, b, n, page)
  BY <1>2, <1>6 DEF WithPage
<1> HIDE DEF page
<1>8. /\ routes' \in Tables /\ \A c \in Buckets : Len(routes'[c]) = Len(routes[c])
      /\ SlotsOf(routes') = SlotsOf(routes)
      /\ \A s \in SlotsOf(routes) :
           In(routes', s) = IF s[1] = b /\ s[2] = Len(routes[b]) - n + 1
                            THEN page.pairs[s[3]] ELSE In(routes, s)
  BY <1>1, <1>5, <1>7, WrittenPage
<1>9. Len(routes[b]) - n + 1 = x[2]
  BY <1>1 DEF n
<1>10. \A i \in 1 .. PAIRS : page.pairs[i] = IF i = x[3] THEN new ELSE routes[b][n].pairs[i]
  BY <1>1 DEF page, Pages
<1>11. ASSUME NEW s \in SlotsOf(routes), s # x PROVE In(routes', s) = In(routes, s)
  <2>1. s = <<s[1], s[2], s[3]>> /\ s[3] \in 1 .. PAIRS
    BY SlotFacts
  <2>2. CASE s[1] = b /\ s[2] = x[2]
    <3>1. s[3] # x[3]
      BY <1>1, <1>11, <2>1, <2>2 DEF b
    <3>2. In(routes', s) = routes[b][n].pairs[s[3]]
      BY <1>8, <1>9, <1>10, <2>1, <2>2, <3>1
    <3>3. In(routes, s) = routes[b][n].pairs[s[3]]
      BY <2>2 DEF In, n
    <3> QED
      BY <3>2, <3>3
  <2>3. CASE ~(s[1] = b /\ s[2] = x[2])
    BY <1>8, <1>9, <2>3
  <2> QED
    BY <2>2, <2>3
<1>12. In(routes', x) = new
  <2>1. x \in SlotsOf(routes) /\ x[1] = b
    BY DEF x, b
  <2> QED
    BY <1>1, <1>8, <1>9, <1>10, <2>1
<1> QED
  BY <1>2, <1>8, <1>11, <1>12 DEF x, new, old

LEMMA WritesUsedIs ==
  ASSUME routes \in Tables, NEW p \in Cpus, cpu[p].slot \in SlotsOf(routes),
         NEW value \in Int, WritesUsed(p, value)
  PROVE  /\ routes' \in Tables /\ \A b \in Buckets : Len(routes'[b]) = Len(routes[b])
         /\ SlotsOf(routes') = SlotsOf(routes)
         /\ \A s \in SlotsOf(routes) : In(routes', s) = In(routes, s)
         /\ asked' = asked /\ astray' = astray /\ torn' = torn
<1> DEFINE x == cpu[p].slot
           b == x[1]
           n == Len(routes[b]) - x[2] + 1
           used == value % USED_MOD
           page == [used |-> used, pairs |-> routes[b][n].pairs]
<1>1. /\ b \in Buckets /\ routes[b] \in Seq(Pages) /\ Len(routes[b]) \in Nat
      /\ x[2] \in 1 .. Len(routes[b]) /\ x[3] \in 1 .. PAIRS
      /\ n \in 1 .. Len(routes[b]) /\ routes[b][n] \in Pages
  BY SlotFacts
<1>2. /\ routes' = [routes EXCEPT ![b][n].used = used]
      /\ asked' = asked /\ astray' = astray /\ torn' = torn
  BY DEF WritesUsed, PageNo
<1> HIDE DEF n, b, x
<1>3. used \in Nat
  BY SharedAssumption
<1> HIDE DEF used
<1>4. page \in Pages /\ [routes[b][n] EXCEPT !.used = used] = page
  BY <1>1, <1>3, PageIs DEF Pages
<1>5. routes' = WithPage(routes, b, n, page)
  BY <1>2, <1>4 DEF WithPage
<1>6. page.pairs = routes[b][n].pairs
  OBVIOUS
<1> HIDE DEF page
<1>7. /\ routes' \in Tables /\ \A c \in Buckets : Len(routes'[c]) = Len(routes[c])
      /\ SlotsOf(routes') = SlotsOf(routes)
      /\ \A s \in SlotsOf(routes) :
           In(routes', s) = IF s[1] = b /\ s[2] = Len(routes[b]) - n + 1
                            THEN page.pairs[s[3]] ELSE In(routes, s)
  BY <1>1, <1>4, <1>5, WrittenPage
<1>8. ASSUME NEW s \in SlotsOf(routes) PROVE In(routes', s) = In(routes, s)
  <2>1. CASE s[1] = b /\ s[2] = Len(routes[b]) - n + 1
    <3>1. Len(routes[b]) - s[2] + 1 = n
      BY <1>1, <2>1
    <3>2. In(routes, s) = routes[b][n].pairs[s[3]]
      BY <2>1, <3>1 DEF In
    <3> QED
      BY <1>6, <1>7, <2>1, <3>2
  <2>2. CASE ~(s[1] = b /\ s[2] = Len(routes[b]) - n + 1)
    BY <1>7, <2>2
  <2> QED
    BY <2>1, <2>2
<1> QED
  BY <1>2, <1>7, <1>8

LEMMA LinksIs ==
  ASSUME routes \in Tables, NEW b \in Buckets, routes' = [routes EXCEPT ![b] = <<ZeroPage>> \o @]
  PROVE  /\ routes' \in Tables /\ SlotsOf(routes) \subseteq SlotsOf(routes')
         /\ \A c \in Buckets :
              Len(routes'[c]) = IF c = b THEN Len(routes[c]) + 1 ELSE Len(routes[c])
         /\ \A s \in SlotsOf(routes) : In(routes', s) = In(routes, s)
         /\ \A s \in SlotsOf(routes') : s \in SlotsOf(routes) \/ In(routes', s) = ZeroPair
<1>1. ZeroPage \in Pages /\ \A i \in 1 .. PAIRS : ZeroPage.pairs[i] = ZeroPair
  BY ZerosAreKept DEF KeptPages, ZeroPage
<1>2. \A c \in Buckets : routes[c] \in Seq(Pages) /\ Len(routes[c]) \in Nat
  BY DEF Tables
<1>3. routes' = [c \in Buckets |-> IF c = b THEN <<ZeroPage>> \o routes[b] ELSE routes[c]]
  BY DEF Tables
<1> DEFINE longer == <<ZeroPage>> \o routes[b]
<1>4. /\ longer \in Seq(Pages) /\ Len(longer) = Len(routes[b]) + 1
      /\ longer[1] = ZeroPage /\ \A n \in 1 .. Len(routes[b]) : longer[n + 1] = routes[b][n]
  <2>1. <<ZeroPage>> \in Seq(Pages) /\ Len(<<ZeroPage>>) = 1 /\ <<ZeroPage>>[1] = ZeroPage
    BY <1>1
  <2> QED
    BY <1>2, <2>1
<1> HIDE DEF longer
<1>5. routes'[b] = longer /\ \A c \in Buckets \ {b} : routes'[c] = routes[c]
  BY <1>3 DEF longer
<1>6. routes' \in Tables
  BY <1>2, <1>3, <1>4 DEF Tables, longer
<1>7. \A c \in Buckets : Len(routes'[c]) = IF c = b THEN Len(routes[c]) + 1 ELSE Len(routes[c])
  BY <1>4, <1>5
<1>8. SlotsOf(routes) \subseteq SlotsOf(routes')
  BY <1>2, <1>7 DEF SlotsOf
<1>9. ASSUME NEW s \in SlotsOf(routes) PROVE In(routes', s) = In(routes, s)
  <2>1. s[1] \in Buckets /\ s[2] \in 1 .. Len(routes[s[1]])
    BY SlotFacts
  <2>2. CASE s[1] = b
    <3>1. Len(routes[b]) - s[2] + 1 \in 1 .. Len(routes[b])
          /\ (Len(routes[b]) + 1) - s[2] + 1 = (Len(routes[b]) - s[2] + 1) + 1
      BY <1>2, <2>1, <2>2
    <3>2. longer[(Len(routes[b]) + 1) - s[2] + 1] = routes[b][Len(routes[b]) - s[2] + 1]
      BY <1>4, <3>1
    <3>3. In(routes', s) = longer[Len(longer) - s[2] + 1].pairs[s[3]]
      BY <1>5, <2>2 DEF In
    <3>4. In(routes, s) = routes[b][Len(routes[b]) - s[2] + 1].pairs[s[3]]
      BY <2>2 DEF In
    <3> QED
      BY <1>4, <3>2, <3>3, <3>4
  <2>3. CASE s[1] # b
    BY <1>5, <2>1, <2>3 DEF In
  <2> QED
    BY <2>2, <2>3
<1>10. ASSUME NEW s \in SlotsOf(routes'), s \notin SlotsOf(routes) PROVE In(routes', s) = ZeroPair
  <2>1. s \in Buckets \X Nat \X Nat /\ s[2] \in 1 .. Len(routes'[s[1]]) /\ s[3] \in 1 .. PAIRS
    BY DEF SlotsOf
  <2>2. s[2] \notin 1 .. Len(routes[s[1]])
    BY <1>10, <2>1 DEF SlotsOf
  <2>3. s[1] = b /\ s[2] = Len(routes[b]) + 1
    BY <1>2, <1>7, <2>1, <2>2
  <2>4. Len(longer) - s[2] + 1 = 1
    BY <1>2, <1>4, <2>3
  <2>5. In(routes', s) = longer[1].pairs[s[3]]
    BY <1>5, <2>3, <2>4 DEF In
  <2> QED
    BY <1>1, <1>4, <2>1, <2>5
<1> QED
  BY <1>6, <1>7, <1>8, <1>9, <1>10

-----------------------------------------------------------------------------
(* What the handlers that overlap are doing *)

\* Where a handler stands: in insert_route_sky, in remove_route_sky, and in
\* both where it is at a slot that it has chosen.
Inserting == {"choose", "link", "pick", "first", "second", "count", "counted"}
Removing == {"sweep", "clear", "rest", "uncount", "uncounted"}
AtSlot == {"first", "second", "count", "counted", "clear", "rest", "uncount", "uncounted"}
Places == Inserting \cup Removing \cup {"find", "copy", "search", "done"}

JobFields == {"at", "job", "pass", "slot", "own", "used", "b2", "to"}

\* Where a handler is fits its job.
Shaped(p) ==
  /\ DOMAIN cpu[p] = JobFields
  /\ cpu[p].at \in Places /\ cpu[p].job \in Jobs
  /\ cpu[p].pass \in {1, 2} /\ cpu[p].used \in Nat
  /\ cpu[p].at \in Inserting => cpu[p].job.kind = "syn"
  /\ cpu[p].at \in Removing => cpu[p].b2 \in Buckets

\* What it points at is there.
Points(p) ==
  LET s == cpu[p].slot IN
  /\ cpu[p].at \in AtSlot => s \in SlotsOf(routes)
  /\ cpu[p].at = "pick" => /\ s \in Buckets \X Nat \X Nat
                           /\ s[2] \in 1 .. Len(routes[s[1]])
  /\ cpu[p].at = "sweep" => /\ s \in Buckets \X Nat \X Nat
                            /\ s[2] \in 0 .. Len(routes[s[1]]) /\ s[3] # 0

\* What it has written or found there is still there: nobody wrote under it.
Holds(p) ==
  /\ cpu[p].at = "second" => In(routes, cpu[p].slot).first = ToInsert(p).first
  /\ cpu[p].at = "rest" => In(routes, cpu[p].slot).first.code = 0
  /\ cpu[p].at = "copy" => /\ cpu[p].own \in SlotsOf(routes)
                           /\ Same(In(routes, cpu[p].own).first, Source(p))

\* Its packet goes where a SYN said.
Leads(p) ==
  /\ cpu[p].job.kind = "syn" => <<cpu[p].job.c, cpu[p].job.data.ep>> \in asked
  /\ cpu[p].to = "here" \/ Paired(asked, cpu[p].job.c, cpu[p].to)

\* A slot that is not kept is half written.
Storing ==
  \A s \in SlotsOf(routes) :
    \/ Kept(asked, In(routes, s))
    \/ \E q \in Cpus : cpu[q].at = "second" /\ cpu[q].slot = s

\* A handler that is under way is right in all of this.
Fine(p) == cpu[p] # Idle => Shaped(p) /\ Points(p) /\ Holds(p) /\ Leads(p)

\* What holds as long as nothing was torn.
Untorn ==
  /\ cpu = [p \in Cpus |-> cpu[p]]
  /\ routes \in Tables
  /\ \A p \in Cpus : Fine(p)
  /\ Storing
  /\ astray = {}

-----------------------------------------------------------------------------
(* What a step of one handler does to the handlers *)

LEMMA GoesIs ==
  ASSUME cpu = [q \in Cpus |-> cpu[q]], NEW p \in Cpus, DOMAIN cpu[p] = JobFields,
         NEW at, NEW new, Goes(p, at, new)
  PROVE  /\ cpu' = [q \in Cpus |-> cpu'[q]] /\ \A q \in Cpus \ {p} : cpu'[q] = cpu[q]
         /\ DOMAIN cpu'[p] = JobFields /\ cpu'[p].at = at
         /\ \A f \in JobFields \ {"at"} :
              cpu'[p][f] = IF f \in DOMAIN new THEN new[f] ELSE cpu[p][f]
<1> DEFINE after == [f \in JobFields |-> IF f = "at" THEN at
                               ELSE IF f \in DOMAIN new THEN new[f] ELSE cpu[p][f]]
<1>1. cpu' = [cpu EXCEPT ![p] = after]
  BY DEF Goes
<1>2. cpu' = [q \in Cpus |-> IF q = p THEN after ELSE cpu[q]]
  BY <1>1, Zenon
<1>3. cpu'[p] = after /\ \A q \in Cpus \ {p} : cpu'[q] = cpu[q]
  BY <1>2
<1>4. "at" \in JobFields
  BY DEF JobFields
<1> QED
  BY <1>2, <1>3, <1>4

\* No slot goes away: pages are added and never freed.
Grown ==
  /\ routes' \in Tables /\ asked \subseteq asked'
  /\ SlotsOf(routes) \subseteq SlotsOf(routes')
  /\ \A b \in Buckets : Len(routes[b]) <= Len(routes'[b])

LEMMA OthersFine ==
  ASSUME NEW q \in Cpus, cpu'[q] = cpu[q], Fine(q), routes \in Tables, Grown,
         \A s \in SlotsOf(routes) \cap Held(q) : In(routes', s) = In(routes, s)
  PROVE  Fine(q)'
<1> SUFFICES ASSUME cpu[q] # Idle PROVE Fine(q)'
  BY DEF Fine
<1>1. Shaped(q)' /\ Shaped(q) /\ Points(q) /\ Holds(q) /\ Leads(q)
  BY DEF Fine, Shaped
<1>2. \A b \in Buckets : Len(routes[b]) \in Nat /\ Len(routes'[b]) \in Nat
                        /\ Len(routes[b]) <= Len(routes'[b])
  BY DEF Grown, Tables
<1>3. Points(q)'
  BY <1>1, <1>2 DEF Points, Grown
<1>4. ToInsert(q)' = ToInsert(q) /\ Source(q)' = Source(q)
  BY DEF ToInsert, Source
<1>5. Holds(q)'
  <2>1. ASSUME cpu[q].at \in {"second", "rest"}
        PROVE  In(routes', cpu[q].slot) = In(routes, cpu[q].slot)
    BY <1>1, <2>1 DEF Points, AtSlot, Held
  <2>2. ASSUME cpu[q].at = "copy"
        PROVE  /\ In(routes', cpu[q].own) = In(routes, cpu[q].own)
               /\ cpu[q].own \in SlotsOf(routes')
    BY <1>1, <2>2 DEF Holds, Held, Grown
  <2> QED
    BY <1>1, <1>4, <2>1, <2>2 DEF Holds
<1>6. Leads(q)'
  BY <1>1 DEF Leads, Paired, Grown
<1> QED
  BY <1>1, <1>3, <1>5, <1>6 DEF Fine

LEMMA Assemble ==
  ASSUME Untorn, NEW p \in Cpus,
         cpu' = [q \in Cpus |-> cpu'[q]], \A q \in Cpus \ {p} : cpu'[q] = cpu[q],
         Fine(p)', Grown, astray' = {},
         \A q \in Cpus \ {p} : \A s \in SlotsOf(routes) \cap Held(q) :
           In(routes', s) = In(routes, s),
         \A s \in SlotsOf(routes') :
           \/ Kept(asked', In(routes', s))
           \/ cpu'[p].at = "second" /\ cpu'[p].slot = s
           \/ /\ s \in SlotsOf(routes) /\ In(routes', s) = In(routes, s)
              /\ ~(cpu[p].at = "second" /\ cpu[p].slot = s)
  PROVE  Untorn'
<1>1. ASSUME NEW q \in Cpus PROVE Fine(q)'
  <2>1. CASE q = p
    BY <2>1
  <2>2. CASE q # p
    BY <2>2, OthersFine DEF Untorn
  <2> QED
    BY <2>1, <2>2
<1>2. ASSUME NEW s \in SlotsOf(routes')
      PROVE  \/ Kept(asked', In(routes', s))
             \/ \E q \in Cpus : cpu'[q].at = "second" /\ cpu'[q].slot = s
  <2>1. CASE cpu'[p].at = "second" /\ cpu'[p].slot = s
    BY <2>1
  <2>2. CASE /\ s \in SlotsOf(routes) /\ In(routes', s) = In(routes, s)
             /\ ~(cpu[p].at = "second" /\ cpu[p].slot = s)
    <3>1. CASE Kept(asked, In(routes, s))
      BY <2>2, <3>1 DEF Grown, Kept, Paired
    <3>2. CASE \E q \in Cpus : cpu[q].at = "second" /\ cpu[q].slot = s
      <4>1. PICK q \in Cpus : cpu[q].at = "second" /\ cpu[q].slot = s
        BY <3>2
      <4>2. cpu'[q] = cpu[q]
        BY <2>2, <4>1
      <4> QED
        BY <4>1, <4>2
    <3> QED
      BY <2>2, <3>1, <3>2 DEF Untorn, Storing
  <2> QED
    BY <2>1, <2>2
<1>3. Storing'
  BY <1>2 DEF Storing
<1> QED
  BY <1>1, <1>3 DEF Untorn, Grown

\* A step that only looks.
LEMMA LookIsFine ==
  ASSUME Untorn, NEW p \in Cpus,
         cpu' = [q \in Cpus |-> cpu'[q]], \A q \in Cpus \ {p} : cpu'[q] = cpu[q],
         Fine(p)', routes' = routes, asked' = asked, astray' = {}, cpu[p].at # "second"
  PROVE  Untorn'
<1>1. \A b \in Buckets : Len(routes[b]) \in Nat
  BY DEF Untorn, Tables
<1>2. Grown
  BY <1>1 DEF Grown, Untorn
<1> QED
  BY <1>2, Assemble

\* What a handler that is busy points at and inserts.
LEMMA BusyIs ==
  ASSUME Untorn, NEW p \in Cpus, cpu[p] # Idle
  PROVE  /\ cpu = [q \in Cpus |-> cpu[q]] /\ routes \in Tables /\ astray = {}
         /\ Shaped(p) /\ Points(p) /\ Holds(p) /\ Leads(p)
         /\ DOMAIN cpu[p] = JobFields /\ Source(p) \in Addresses
         /\ Source(p).code # 0 /\ Source(p).ep = cpu[p].job.c
<1>1. Shaped(p) /\ Points(p) /\ Holds(p) /\ Leads(p)
  BY DEF Untorn, Fine
<1>2. cpu[p].job \in Jobs /\ DOMAIN cpu[p] = JobFields
  BY <1>1 DEF Shaped
<1>3. cpu[p].job.c \in Clients /\ SharedTail \in Tails
  BY <1>2, SharedAssumption
<1> QED
  BY <1>1, <1>2, <1>3, AddressFacts DEF Source, Untorn

LEMMA InsertingIs ==
  ASSUME Untorn, NEW p \in Cpus, cpu[p] # Idle, cpu[p].at \in Inserting
  PROVE  /\ ToInsert(p).first \in Addresses /\ ToInsert(p).second \in Addresses
         /\ Home(p) \in Buckets
         /\ Paired(asked, ToInsert(p).first.ep, ToInsert(p).second.ep)
<1>1. cpu[p].job \in Jobs /\ cpu[p].job.kind = "syn"
      /\ <<cpu[p].job.c, cpu[p].job.data.ep>> \in asked
  BY BusyIs DEF Shaped, Leads
<1>2. cpu[p].job.data \in Claimed
  BY <1>1, SharedAssumption
<1>3. Source(p) \in Addresses /\ cpu[p].job.data \in Addresses /\ Source(p).ep = cpu[p].job.c
  BY <1>2, BusyIs, AddressFacts
<1> DEFINE x == Source(p)
           y == cpu[p].job.data
<1>4. \/ ToInsert(p).first = x /\ ToInsert(p).second = y
      \/ ToInsert(p).first = y /\ ToInsert(p).second = x
  BY DEF ToInsert, Swap
<1>5. Paired(asked, x.ep, y.ep) /\ Paired(asked, y.ep, x.ep)
  BY <1>1, <1>3 DEF Paired
<1> HIDE DEF x, y
<1>6. ToInsert(p).first \in Addresses /\ ToInsert(p).second \in Addresses
  BY <1>3, <1>4 DEF x, y
<1> QED
  BY <1>4, <1>5, <1>6, AddressFacts DEF Home

-----------------------------------------------------------------------------
(* The steps that only look *)

LEMMA GoesNone ==
  ASSUME Untorn, NEW p \in Cpus, cpu[p] # Idle, NEW at, Goes(p, at, None)
  PROVE  /\ cpu' = [q \in Cpus |-> cpu'[q]] /\ \A q \in Cpus \ {p} : cpu'[q] = cpu[q]
         /\ DOMAIN cpu'[p] = JobFields /\ cpu'[p].at = at
         /\ cpu'[p].job = cpu[p].job /\ cpu'[p].pass = cpu[p].pass /\ cpu'[p].slot = cpu[p].slot
         /\ cpu'[p].own = cpu[p].own /\ cpu'[p].used = cpu[p].used /\ cpu'[p].b2 = cpu[p].b2
         /\ cpu'[p].to = cpu[p].to
<1>1. DOMAIN None = {}
  BY DEF None
<1>2. /\ cpu' = [q \in Cpus |-> cpu'[q]] /\ \A q \in Cpus \ {p} : cpu'[q] = cpu[q]
      /\ DOMAIN cpu'[p] = JobFields /\ cpu'[p].at = at
      /\ \A f \in JobFields \ {"at"} :
              cpu'[p][f] = IF f \in DOMAIN None THEN None[f] ELSE cpu[p][f]
  BY BusyIs, GoesIs
<1>3. \A f \in JobFields \ {"at"} : cpu'[p][f] = cpu[p][f]
  BY <1>1, <1>2
<1> QED
  BY <1>2, <1>3 DEF JobFields

LEMMA GoesSlot ==
  ASSUME Untorn, NEW p \in Cpus, cpu[p] # Idle, NEW at, NEW v, Goes(p, at, [slot |-> v])
  PROVE  /\ cpu' = [q \in Cpus |-> cpu'[q]] /\ \A q \in Cpus \ {p} : cpu'[q] = cpu[q]
         /\ DOMAIN cpu'[p] = JobFields /\ cpu'[p].at = at
         /\ cpu'[p].job = cpu[p].job /\ cpu'[p].pass = cpu[p].pass /\ cpu'[p].slot = v
         /\ cpu'[p].own = cpu[p].own /\ cpu'[p].used = cpu[p].used /\ cpu'[p].b2 = cpu[p].b2
         /\ cpu'[p].to = cpu[p].to
<1> DEFINE new == [slot |-> v]
<1>1. DOMAIN new = {"slot"} /\ new["slot"] = v
  OBVIOUS
<1> HIDE DEF new
<1>2. /\ cpu' = [q \in Cpus |-> cpu'[q]] /\ \A q \in Cpus \ {p} : cpu'[q] = cpu[q]
      /\ DOMAIN cpu'[p] = JobFields /\ cpu'[p].at = at
      /\ \A f \in JobFields \ {"at"} :
              cpu'[p][f] = IF f \in DOMAIN new THEN new[f] ELSE cpu[p][f]
  BY BusyIs, GoesIs DEF new
<1> QED
  BY <1>1, <1>2 DEF JobFields

LEMMA FreePageIs ==
  ASSUME Untorn, NEW b \in Buckets, NEW k \in 1 .. Len(routes[b])
  PROVE  <<b, PageNo(b, k), 0>> \in Buckets \X Nat \X Nat /\ PageNo(b, k) \in 1 .. Len(routes[b])
<1>1. Len(routes[b]) \in Nat
  BY DEF Untorn, Tables
<1> QED
  BY <1>1 DEF PageNo

LEMMA ChooseKeeps ==
  ASSUME Untorn, NEW p \in Cpus, cpu[p] # Idle, Choose(p)
  PROVE  Untorn'
<1> DEFINE b == Home(p)
           room == {k \in DOMAIN routes[b] : routes[b][k].used < PAIRS}
<1>1. /\ cpu[p].at = "choose" /\ UNCHANGED <<vars, crowd, torn>>
      /\ IF room = {} THEN Goes(p, "link", None)
         ELSE Goes(p, "pick", [slot |-> <<b, PageNo(b, Min(room)), 0>>])
  BY DEF Choose, Looks
<1>2. routes' = routes /\ asked' = asked /\ astray' = {} /\ cpu[p].at # "second"
  BY <1>1, BusyIs DEF vars
<1>3. Shaped(p) /\ Leads(p)
  BY BusyIs
<1>4. b \in Buckets /\ cpu[p].job.kind = "syn"
  BY <1>1, <1>3, InsertingIs DEF Inserting, Shaped
<1> HIDE DEF b
<1>5. CASE room = {}
  <2>1. Goes(p, "link", None)
    BY <1>1, <1>5
  <2>2. Shaped(p)' /\ Points(p)' /\ Holds(p)' /\ Leads(p)'
    BY <1>2, <1>3, <1>4, <2>1, GoesNone
       DEF Shaped, Points, Holds, Leads, AtSlot, Places, Inserting, Removing
  <2> QED
    BY <1>2, <2>1, <2>2, GoesNone, LookIsFine DEF Fine
<1>6. CASE room # {}
  <2> DEFINE m == Min(room)
             v == <<b, PageNo(b, m), 0>>
  <2>1. Goes(p, "pick", [slot |-> v])
    BY <1>1, <1>6
  <2>2. room \in SUBSET Nat /\ room \subseteq 1 .. Len(routes[b])
    BY <1>4 DEF Untorn, Tables
  <2>3. m \in 1 .. Len(routes[b])
    BY <1>6, <2>2, HasLeast
  <2> HIDE DEF m
  <2>4. v \in Buckets \X Nat \X Nat /\ v[2] \in 1 .. Len(routes[v[1]])
    BY <1>4, <2>3, FreePageIs
  <2> HIDE DEF v
  <2>5. Shaped(p)' /\ Points(p)' /\ Holds(p)' /\ Leads(p)'
    BY <1>2, <1>3, <1>4, <2>1, <2>4, GoesSlot
       DEF Shaped, Points, Holds, Leads, AtSlot, Places, Inserting, Removing
  <2> QED
    BY <1>2, <2>1, <2>5, GoesSlot, LookIsFine DEF Fine
<1> QED
  BY <1>5, <1>6

LEMMA LinkKeeps ==
  ASSUME Untorn, NEW p \in Cpus, cpu[p] # Idle, Link(p)
  PROVE  Untorn'
<1> DEFINE b == Home(p)
           v == <<b, Len(routes[b]) + 1, 0>>
<1>1. /\ cpu[p].at = "link" /\ routes' = [routes EXCEPT ![b] = <<ZeroPage>> \o @]
      /\ Goes(p, "pick", [slot |-> v]) /\ asked' = asked /\ astray' = astray
  BY DEF Link
<1>2. Shaped(p) /\ Leads(p) /\ routes \in Tables /\ astray' = {}
  BY <1>1, BusyIs
<1>3. b \in Buckets /\ cpu[p].job.kind = "syn"
  BY <1>1, <1>2, InsertingIs DEF Inserting, Shaped
<1> HIDE DEF b
<1>4. /\ routes' \in Tables /\ SlotsOf(routes) \subseteq SlotsOf(routes')
      /\ \A c \in Buckets : Len(routes'[c]) = IF c = b THEN Len(routes[c]) + 1 ELSE Len(routes[c])
      /\ \A s \in SlotsOf(routes) : In(routes', s) = In(routes, s)
      /\ \A s \in SlotsOf(routes') : s \in SlotsOf(routes) \/ In(routes', s) = ZeroPair
  BY <1>1, <1>2, <1>3, LinksIs
<1>5. \A c \in Buckets : Len(routes[c]) \in Nat
  BY <1>2 DEF Tables
<1>6. Grown
  <2>1. ASSUME NEW c \in Buckets PROVE Len(routes[c]) <= Len(routes'[c])
    BY <1>4, <1>5
  <2> QED
    BY <1>1, <1>4, <2>1 DEF Grown
<1>7. v \in Buckets \X Nat \X Nat /\ v[2] \in 1 .. Len(routes'[v[1]])
  BY <1>3, <1>4, <1>5
<1> HIDE DEF v
<1>8. Shaped(p)' /\ Points(p)' /\ Holds(p)' /\ Leads(p)'
  BY <1>1, <1>2, <1>3, <1>7, GoesSlot
     DEF Shaped, Points, Holds, Leads, AtSlot, Places, Inserting, Removing
<1>9. \A s \in SlotsOf(routes') :
           \/ Kept(asked', In(routes', s))
           \/ /\ s \in SlotsOf(routes) /\ In(routes', s) = In(routes, s)
              /\ ~(cpu[p].at = "second" /\ cpu[p].slot = s)
  BY <1>1, <1>4, ZerosAreKept
<1> QED
  BY <1>1, <1>2, <1>4, <1>6, <1>8, <1>9, GoesSlot, Assemble DEF Fine

LEMMA InsertedIs ==
  ASSUME Untorn, NEW p \in Cpus, cpu[p] # Idle, Inserted(p)
  PROVE  /\ cpu' = [q \in Cpus |-> cpu'[q]] /\ \A q \in Cpus \ {p} : cpu'[q] = cpu[q]
         /\ DOMAIN cpu'[p] = JobFields /\ cpu'[p].at \in {"choose", "done"}
         /\ cpu'[p].job = cpu[p].job /\ cpu'[p].pass \in {1, 2} /\ cpu'[p].used = 0
         /\ cpu'[p].to = cpu[p].to
<1>0. Shaped(p)
  BY BusyIs
<1>1. CASE cpu[p].pass = 1
  <2> DEFINE new == [pass |-> 2, slot |-> NoSlot, used |-> 0]
  <2>1. DOMAIN new = {"pass", "slot", "used"} /\ new["pass"] = 2 /\ new["used"] = 0
    OBVIOUS
  <2>2. Goes(p, "choose", new)
    BY <1>1 DEF Inserted
  <2> HIDE DEF new
  <2>3. /\ cpu' = [q \in Cpus |-> cpu'[q]] /\ \A q \in Cpus \ {p} : cpu'[q] = cpu[q]
        /\ DOMAIN cpu'[p] = JobFields /\ cpu'[p].at = "choose"
        /\ \A f \in JobFields \ {"at"} :
              cpu'[p][f] = IF f \in DOMAIN new THEN new[f] ELSE cpu[p][f]
    BY <2>2, BusyIs, GoesIs
  <2> QED
    BY <2>1, <2>3 DEF JobFields
<1>2. CASE cpu[p].pass # 1
  <2> DEFINE new == [slot |-> NoSlot, used |-> 0]
  <2>1. DOMAIN new = {"slot", "used"} /\ new["used"] = 0
    OBVIOUS
  <2>2. Goes(p, "done", new)
    BY <1>2 DEF Inserted
  <2> HIDE DEF new
  <2>3. /\ cpu' = [q \in Cpus |-> cpu'[q]] /\ \A q \in Cpus \ {p} : cpu'[q] = cpu[q]
        /\ DOMAIN cpu'[p] = JobFields /\ cpu'[p].at = "done"
        /\ \A f \in JobFields \ {"at"} :
              cpu'[p][f] = IF f \in DOMAIN new THEN new[f] ELSE cpu[p][f]
    BY <2>2, BusyIs, GoesIs
  <2> QED
    BY <1>0, <2>1, <2>3 DEF JobFields, Shaped
<1> QED
  BY <1>1, <1>2

LEMMA InsertedIsFine ==
  ASSUME Untorn, NEW p \in Cpus, cpu[p] # Idle, cpu[p].at \in Inserting,
         Inserted(p), asked' = asked
  PROVE  Fine(p)' /\ cpu'[p].at # "second"
<1>1. Shaped(p) /\ Leads(p)
  BY BusyIs
<1>2. Shaped(p)' /\ Points(p)' /\ Holds(p)' /\ Leads(p)' /\ cpu'[p].at \in {"choose", "done"}
  BY <1>1, InsertedIs DEF Shaped, Points, Holds, Leads, AtSlot, Places, Inserting, Removing
<1> QED
  BY <1>2 DEF Fine

LEMMA PickKeeps ==
  ASSUME Untorn, NEW p \in Cpus, cpu[p] # Idle, Pick(p)
  PROVE  Untorn'
<1> DEFINE s == cpu[p].slot
           free == {i \in 1 .. PAIRS : PageOf(s).pairs[i].first.code = 0}
           v == <<s[1], s[2], Min(free)>>
<1>1. /\ cpu[p].at = "pick" /\ UNCHANGED <<vars, crowd, torn>>
      /\ IF free = {} THEN Inserted(p) ELSE Goes(p, "first", [slot |-> v])
  BY DEF Pick, Looks
<1>2. routes' = routes /\ asked' = asked /\ astray' = {} /\ cpu[p].at # "second"
  BY <1>1, BusyIs DEF vars
<1>3. Shaped(p) /\ Leads(p) /\ Points(p) /\ cpu[p].at \in Inserting
  BY <1>1, BusyIs DEF Inserting
<1>4. CASE free = {}
  <2>1. Inserted(p)
    BY <1>1, <1>4
  <2> QED
    BY <1>2, <1>3, <2>1, InsertedIs, InsertedIsFine, LookIsFine
<1>5. CASE free # {}
  <2>1. Goes(p, "first", [slot |-> v])
    BY <1>1, <1>5
  <2>2. free \in SUBSET Nat /\ free \subseteq 1 .. PAIRS
    OBVIOUS
  <2>3. Min(free) \in 1 .. PAIRS
    BY <1>5, <2>2, HasLeast
  <2>4. s \in Buckets \X Nat \X Nat /\ s[2] \in 1 .. Len(routes[s[1]])
    BY <1>1, <1>3 DEF Points
  <2> HIDE DEF free, s
  <2>5. v \in SlotsOf(routes)
    BY <2>3, <2>4 DEF SlotsOf
  <2> HIDE DEF v
  <2>6. Shaped(p)' /\ Points(p)' /\ Holds(p)' /\ Leads(p)'
    BY <1>2, <1>3, <2>1, <2>5, GoesSlot
       DEF Shaped, Points, Holds, Leads, AtSlot, Places, Inserting, Removing
  <2> QED
    BY <1>2, <2>1, <2>6, GoesSlot, LookIsFine DEF Fine
<1> QED
  BY <1>4, <1>5

LEMMA SameSlots ==
  ASSUME routes \in Tables, routes' \in Tables, asked' = asked,
         \A b \in Buckets : Len(routes'[b]) = Len(routes[b])
  PROVE  Grown /\ SlotsOf(routes') = SlotsOf(routes)
<1>1. \A b \in Buckets : Len(routes[b]) \in Nat
  BY DEF Tables
<1>2. SlotsOf(routes') = SlotsOf(routes)
  BY DEF SlotsOf
<1>3. \A b \in Buckets : Len(routes[b]) <= Len(routes'[b])
  BY <1>1
<1> QED
  BY <1>2, <1>3 DEF Grown

LEMMA StoreFirstKeeps ==
  ASSUME Untorn, NEW p \in Cpus, cpu[p] # Idle, StoreFirst(p), ~torn'
  PROVE  Untorn'
<1> DEFINE x == cpu[p].slot
           value == ToInsert(p).first
<1>1. cpu[p].at = "first" /\ StoresHalf(p, "first", value) /\ Goes(p, "second", None)
  BY DEF StoreFirst
<1>2. Shaped(p) /\ Leads(p) /\ Points(p) /\ routes \in Tables /\ astray = {}
  BY BusyIs
<1>3. x \in SlotsOf(routes) /\ value \in Addresses
  BY <1>1, <1>2, InsertingIs DEF Points, AtSlot, Inserting
<1>4. /\ routes' \in Tables /\ \A b \in Buckets : Len(routes'[b]) = Len(routes[b])
      /\ SlotsOf(routes') = SlotsOf(routes)
      /\ \A s \in SlotsOf(routes) : s # x => In(routes', s) = In(routes, s)
      /\ In(routes', x) = [first |-> value, second |-> In(routes, x).second]
      /\ asked' = asked /\ astray' = astray
      /\ \A q \in Cpus \ {p} : x \notin Held(q)
  BY <1>1, <1>2, <1>3, StoresHalfIs
<1>5. Grown
  BY <1>2, <1>4, SameSlots
<1>6. ToInsert(p)' = ToInsert(p)
  BY <1>1, GoesNone DEF ToInsert, Source
<1>7. Holds(p)'
  <2>1. In(routes', x).first = value /\ cpu'[p].slot = x /\ cpu'[p].at = "second"
    BY <1>1, <1>4, GoesNone
  <2> QED
    BY <1>6, <2>1 DEF Holds
<1> HIDE DEF value
<1>8. Shaped(p)' /\ Points(p)' /\ Leads(p)'
  BY <1>1, <1>2, <1>3, <1>4, GoesNone
     DEF Shaped, Points, Leads, AtSlot, Places, Inserting, Removing
<1>9. Fine(p)'
  BY <1>7, <1>8 DEF Fine
<1>10. \A q \in Cpus \ {p} : \A s \in SlotsOf(routes) \cap Held(q) : In(routes', s) = In(routes, s)
  BY <1>4
<1>11. \A s \in SlotsOf(routes') :
           \/ cpu'[p].at = "second" /\ cpu'[p].slot = s
           \/ /\ s \in SlotsOf(routes) /\ In(routes', s) = In(routes, s)
              /\ ~(cpu[p].at = "second" /\ cpu[p].slot = s)
  BY <1>1, <1>4, GoesNone
<1> QED
  BY <1>1, <1>2, <1>4, <1>5, <1>9, <1>10, <1>11, GoesNone, Assemble

LEMMA StoreSecondKeeps ==
  ASSUME Untorn, NEW p \in Cpus, cpu[p] # Idle, StoreSecond(p), ~torn'
  PROVE  Untorn'
<1> DEFINE x == cpu[p].slot
           value == ToInsert(p).second
<1>1. cpu[p].at = "second" /\ StoresHalf(p, "second", value) /\ Goes(p, "count", None)
  BY DEF StoreSecond
<1>2. Shaped(p) /\ Leads(p) /\ Points(p) /\ Holds(p) /\ routes \in Tables /\ astray = {}
  BY BusyIs
<1>3. x \in SlotsOf(routes) /\ value \in Addresses
      /\ Paired(asked, ToInsert(p).first.ep, value.ep)
  BY <1>1, <1>2, InsertingIs DEF Points, AtSlot, Inserting
<1>4. /\ routes' \in Tables /\ \A b \in Buckets : Len(routes'[b]) = Len(routes[b])
      /\ SlotsOf(routes') = SlotsOf(routes)
      /\ \A s \in SlotsOf(routes) : s # x => In(routes', s) = In(routes, s)
      /\ In(routes', x) = [first |-> In(routes, x).first, second |-> value]
      /\ asked' = asked /\ astray' = astray
      /\ \A q \in Cpus \ {p} : x \notin Held(q)
  BY <1>1, <1>2, <1>3, StoresHalfIs
<1>5. Grown
  BY <1>2, <1>4, SameSlots
<1>6. Kept(asked', In(routes', x))
  <2>1. In(routes, x).first = ToInsert(p).first
    BY <1>1, <1>2 DEF Holds
  <2> QED
    BY <1>3, <1>4, <2>1 DEF Kept
<1> HIDE DEF value
<1>8. Shaped(p)' /\ Points(p)' /\ Leads(p)' /\ Holds(p)'
  BY <1>1, <1>2, <1>3, <1>4, GoesNone
     DEF Shaped, Points, Leads, AtSlot, Places, Inserting, Removing, Holds
<1>9. Fine(p)'
  BY <1>8 DEF Fine
<1>10. \A q \in Cpus \ {p} : \A s \in SlotsOf(routes) \cap Held(q) : In(routes', s) = In(routes, s)
  BY <1>4
<1>11. \A s \in SlotsOf(routes') :
           \/ Kept(asked', In(routes', s))
           \/ /\ s \in SlotsOf(routes) /\ In(routes', s) = In(routes, s)
              /\ ~(cpu[p].at = "second" /\ cpu[p].slot = s)
  BY <1>4, <1>6
<1> QED
  BY <1>1, <1>2, <1>4, <1>5, <1>9, <1>10, <1>11, GoesNone, Assemble

\* The counter of the page it points at.
LEMMA UsedIs ==
  ASSUME routes \in Tables, NEW s \in SlotsOf(routes)
  PROVE  PageOf(s).used \in Nat
<1>1. routes[s[1]][Len(routes[s[1]]) - s[2] + 1] \in Pages
  BY SlotFacts
<1> QED
  BY <1>1 DEF PageOf, PageNo, Pages

LEMMA ReadUsedKeeps ==
  ASSUME Untorn, NEW p \in Cpus, cpu[p] # Idle, ReadUsed(p)
  PROVE  Untorn'
<1> DEFINE v == PageOf(cpu[p].slot).used
           at == IF cpu[p].at = "count" THEN "counted" ELSE "uncounted"
           new == [used |-> v]
<1>1. /\ cpu[p].at \in {"count", "uncount"} /\ UNCHANGED <<vars, crowd, torn>>
      /\ Goes(p, at, new)
  BY DEF ReadUsed, Looks
<1>2. routes' = routes /\ asked' = asked /\ astray' = {} /\ cpu[p].at # "second"
  BY <1>1, BusyIs DEF vars
<1>3. Shaped(p) /\ Leads(p) /\ Points(p) /\ routes \in Tables
  BY BusyIs
<1>4. cpu[p].slot \in SlotsOf(routes)
  BY <1>1, <1>3 DEF Points, AtSlot
<1>5. v \in Nat
  BY <1>3, <1>4, UsedIs
<1> HIDE DEF v
<1>6. DOMAIN new = {"used"} /\ new["used"] = v
  OBVIOUS
<1> HIDE DEF new, at
<1>7. /\ cpu' = [q \in Cpus |-> cpu'[q]] /\ \A q \in Cpus \ {p} : cpu'[q] = cpu[q]
      /\ DOMAIN cpu'[p] = JobFields /\ cpu'[p].at = at
      /\ \A f \in JobFields \ {"at"} :
            cpu'[p][f] = IF f \in DOMAIN new THEN new[f] ELSE cpu[p][f]
  BY <1>1, BusyIs, GoesIs
<1>8. /\ cpu'[p].job = cpu[p].job /\ cpu'[p].pass = cpu[p].pass /\ cpu'[p].slot = cpu[p].slot
      /\ cpu'[p].b2 = cpu[p].b2 /\ cpu'[p].to = cpu[p].to /\ cpu'[p].used = v
  BY <1>6, <1>7 DEF JobFields
<1>9. \/ cpu[p].at = "count" /\ cpu'[p].at = "counted"
      \/ cpu[p].at = "uncount" /\ cpu'[p].at = "uncounted"
  BY <1>1, <1>7 DEF at
<1>10. Shaped(p)' /\ Points(p)' /\ Holds(p)' /\ Leads(p)'
  BY <1>2, <1>3, <1>4, <1>5, <1>7, <1>8, <1>9
     DEF Shaped, Points, Leads, AtSlot, Places, Inserting, Removing, Holds
<1> QED
  BY <1>2, <1>7, <1>10, LookIsFine DEF Fine

LEMMA CountKeeps ==
  ASSUME Untorn, NEW p \in Cpus, cpu[p] # Idle, Count(p)
  PROVE  Untorn'
<1>1. cpu[p].at = "counted" /\ WritesUsed(p, cpu[p].used + 1) /\ Inserted(p)
  BY DEF Count
<1>2. Shaped(p) /\ Points(p) /\ routes \in Tables /\ astray = {}
  BY BusyIs
<1>3. cpu[p].slot \in SlotsOf(routes) /\ cpu[p].used + 1 \in Int
  BY <1>1, <1>2 DEF Points, AtSlot, Shaped
<1>4. /\ routes' \in Tables /\ \A b \in Buckets : Len(routes'[b]) = Len(routes[b])
      /\ SlotsOf(routes') = SlotsOf(routes)
      /\ \A s \in SlotsOf(routes) : In(routes', s) = In(routes, s)
      /\ asked' = asked /\ astray' = astray
  BY <1>1, <1>2, <1>3, WritesUsedIs
<1>5. Grown
  BY <1>2, <1>4, SameSlots
<1>6. Fine(p)'
  BY <1>1, <1>4, InsertedIsFine DEF Inserting
<1>7. \A s \in SlotsOf(routes') :
        /\ s \in SlotsOf(routes) /\ In(routes', s) = In(routes, s)
        /\ ~(cpu[p].at = "second" /\ cpu[p].slot = s)
  BY <1>1, <1>4
<1> QED
  BY <1>1, <1>2, <1>4, <1>5, <1>6, <1>7, InsertedIs, Assemble

-----------------------------------------------------------------------------
(* find_route_sky and the copy *)

LEMMA NewestPageIs ==
  ASSUME routes \in Tables, NEW b \in Buckets
  PROVE  LET s == NewestPage(b)
         IN s \in Buckets \X Nat \X Nat /\ s[2] \in 0 .. Len(routes[s[1]]) /\ s[3] = 1
<1>1. Len(routes[b]) \in Nat
  BY DEF Tables
<1> QED
  BY <1>1 DEF NewestPage

LEMMA FindKeeps ==
  ASSUME Untorn, NEW p \in Cpus, cpu[p] # Idle, Find(p)
  PROVE  Untorn'
<1> DEFINE data == Source(p)
           place == Place(routes, data)
           b == Bucket(data)
           own == <<b, PageNo(b, place[1]), place[2]>>
           v == NewestPage(Bucket(PairIn(own).first))
           b2 == Bucket(PairIn(own).second)
           new == [own |-> own, slot |-> v, b2 |-> b2]
           copied == [own |-> own]
<1>1. /\ cpu[p].at \in {"find", "search"} /\ UNCHANGED <<vars, crowd, torn>>
      /\ ~Found(routes, data) => Goes(p, "done", None)
      /\ Found(routes, data) /\ cpu[p].at = "find" => Goes(p, "copy", copied)
      /\ Found(routes, data) /\ cpu[p].at = "search" => Goes(p, "sweep", new)
  <2>1. /\ cpu[p].at \in {"find", "search"} /\ UNCHANGED <<vars, crowd, torn>>
        /\ CASE ~Found(routes, data) -> Goes(p, "done", None)
             [] Found(routes, data) /\ cpu[p].at = "find" -> Goes(p, "copy", copied)
             [] Found(routes, data) /\ cpu[p].at = "search" -> Goes(p, "sweep", new)
    BY Zenon DEF Find, Looks
  <2> HIDE DEF new, copied, data
  <2> QED
    BY <2>1
<1>2. routes' = routes /\ asked' = asked /\ astray' = {} /\ cpu[p].at # "second"
  BY <1>1, BusyIs DEF vars
<1>3. Shaped(p) /\ Leads(p) /\ Points(p) /\ routes \in Tables /\ data \in Addresses
  BY BusyIs
<1> HIDE DEF data
<1>4. CASE ~Found(routes, data)
  <2>1. Goes(p, "done", None)
    BY <1>1, <1>4
  <2>2. Shaped(p)' /\ Points(p)' /\ Holds(p)' /\ Leads(p)'
    BY <1>2, <1>3, <2>1, GoesNone
       DEF Shaped, Points, Holds, Leads, AtSlot, Places, Inserting, Removing
  <2> QED
    BY <1>2, <2>1, <2>2, GoesNone, LookIsFine DEF Fine
<1>5. ASSUME Found(routes, data)
      PROVE  /\ own \in SlotsOf(routes) /\ Same(In(routes, own).first, data)
             /\ PairIn(own) = In(routes, own) /\ PairIn(own) \in Pairs
  <2>1. /\ b \in Buckets /\ place[1] \in 1 .. Len(routes[b]) /\ place[2] \in 1 .. PAIRS
        /\ PairAt(routes, b, place) \in Pairs
        /\ Same(PairAt(routes, b, place).first, data)
    BY <1>3, <1>5, FoundIs
  <2>2. Len(routes[b]) \in Nat /\ PAIRS \in Nat
    BY <1>3, <2>1, RoutesAssumption DEF Tables
  <2> HIDE DEF b, place
  <2>3. /\ PageNo(b, place[1]) \in 1 .. Len(routes[b])
        /\ Len(routes[b]) - PageNo(b, place[1]) + 1 = place[1]
        /\ PageNo(b, PageNo(b, place[1])) = place[1]
    BY <2>1, <2>2 DEF PageNo
  <2>4. own[1] = b /\ own[2] = PageNo(b, place[1]) /\ own[3] = place[2]
    OBVIOUS
  <2>5. own \in Buckets \X Nat \X Nat
    BY <2>1, <2>2, <2>3
  <2> HIDE DEF own
  <2>6. own \in SlotsOf(routes)
    BY <2>1, <2>3, <2>4, <2>5 DEF SlotsOf
  <2>7. In(routes, own) = PairAt(routes, b, place)
    BY <2>3, <2>4 DEF In, PairAt
  <2>8. PairIn(own) = PairAt(routes, b, place)
    BY <2>3, <2>4 DEF PairIn, PageOf, PairAt
  <2> QED
    BY <2>1, <2>6, <2>7, <2>8
<1>6. CASE Found(routes, data) /\ cpu[p].at = "find"
  <2>1. DOMAIN copied = {"own"} /\ copied["own"] = own
    OBVIOUS
  <2> HIDE DEF own, copied
  <2>2. /\ cpu' = [q \in Cpus |-> cpu'[q]] /\ \A q \in Cpus \ {p} : cpu'[q] = cpu[q]
        /\ DOMAIN cpu'[p] = JobFields /\ cpu'[p].at = "copy"
        /\ \A f \in JobFields \ {"at"} :
              cpu'[p][f] = IF f \in DOMAIN copied THEN copied[f] ELSE cpu[p][f]
    BY <1>1, <1>6, BusyIs, GoesIs
  <2>3. /\ cpu'[p].job = cpu[p].job /\ cpu'[p].pass = cpu[p].pass /\ cpu'[p].own = own
        /\ cpu'[p].b2 = cpu[p].b2 /\ cpu'[p].to = cpu[p].to /\ cpu'[p].used = cpu[p].used
    BY <2>1, <2>2 DEF JobFields
  <2>4. Source(p)' = data
    BY <2>3 DEF Source, data
  <2>5. Shaped(p)' /\ Points(p)' /\ Holds(p)' /\ Leads(p)'
    BY <1>2, <1>3, <1>5, <1>6, <2>2, <2>3, <2>4
       DEF Shaped, Points, Holds, Leads, AtSlot, Places, Inserting, Removing
  <2> QED
    BY <1>2, <2>2, <2>5, LookIsFine DEF Fine
<1>7. CASE Found(routes, data) /\ cpu[p].at = "search"
  <2>1. DOMAIN new = {"own", "slot", "b2"} /\ new["slot"] = v /\ new["b2"] = b2
    OBVIOUS
  <2>2. PairIn(own).first \in Addresses /\ PairIn(own).second \in Addresses
    BY <1>5, <1>7 DEF Pairs
  <2> HIDE DEF own, new
  <2>3. b2 \in Buckets /\ Bucket(PairIn(own).first) \in Buckets
    BY <2>2, AddressFacts
  <2>4. v \in Buckets \X Nat \X Nat /\ v[2] \in 0 .. Len(routes[v[1]]) /\ v[3] # 0
    BY <1>3, <2>3, NewestPageIs
  <2> HIDE DEF v, b2
  <2>5. /\ cpu' = [q \in Cpus |-> cpu'[q]] /\ \A q \in Cpus \ {p} : cpu'[q] = cpu[q]
        /\ DOMAIN cpu'[p] = JobFields /\ cpu'[p].at = "sweep"
        /\ \A f \in JobFields \ {"at"} :
              cpu'[p][f] = IF f \in DOMAIN new THEN new[f] ELSE cpu[p][f]
    BY <1>1, <1>7, BusyIs, GoesIs
  <2>6. /\ cpu'[p].job = cpu[p].job /\ cpu'[p].pass = cpu[p].pass /\ cpu'[p].slot = v
        /\ cpu'[p].b2 = b2 /\ cpu'[p].to = cpu[p].to /\ cpu'[p].used = cpu[p].used
    BY <2>1, <2>5 DEF JobFields
  <2>7. Shaped(p)' /\ Points(p)' /\ Holds(p)' /\ Leads(p)'
    BY <1>2, <1>3, <2>3, <2>4, <2>5, <2>6
       DEF Shaped, Points, Holds, Leads, AtSlot, Places, Inserting, Removing
  <2> QED
    BY <1>2, <2>5, <2>7, LookIsFine DEF Fine
<1> QED
  BY <1>1, <1>4, <1>6, <1>7

LEMMA CopyKeeps ==
  ASSUME Untorn, NEW p \in Cpus, cpu[p] # Idle, Copy(p), ~torn'
  PROVE  Untorn'
<1> DEFINE x == cpu[p].own
           e == PairIn(x).second.ep
           at == IF cpu[p].job.kind = "fin" THEN "search" ELSE "done"
           new == [to |-> e, own |-> NoSlot]
<1>1. /\ cpu[p].at = "copy" /\ Goes(p, at, new) /\ UNCHANGED vars
      /\ \A q \in Busy : ~(cpu[q].at \in {"second", "rest"} /\ cpu[q].slot = x)
  BY DEF Copy
<1>2. routes' = routes /\ asked' = asked /\ astray' = {} /\ cpu[p].at # "second"
  BY <1>1, BusyIs DEF vars
<1>3. /\ Shaped(p) /\ Leads(p) /\ Holds(p) /\ routes \in Tables
      /\ Source(p).code # 0 /\ Source(p).ep = cpu[p].job.c
  BY BusyIs
<1>4. x \in SlotsOf(routes) /\ Same(In(routes, x).first, Source(p))
  BY <1>1, <1>3 DEF Holds
<1>5. PairIn(x) = In(routes, x)
  BY DEF PairIn, PageOf, PageNo, In
<1>6. Paired(asked, cpu[p].job.c, e)
  <2>1. ASSUME NEW q \in Cpus, cpu[q].at = "second", cpu[q].slot = x PROVE FALSE
    <3>1. q \in Busy
      BY <2>1 DEF Busy, Idle
    <3> QED
      BY <1>1, <2>1, <3>1
  <2>2. Kept(asked, In(routes, x))
    BY <1>4, <2>1 DEF Untorn, Storing
  <2> QED
    BY <1>3, <1>4, <1>5, <2>2 DEF Kept, Same
<1> HIDE DEF e
<1>7. DOMAIN new = {"to", "own"} /\ new["to"] = e
  OBVIOUS
<1> HIDE DEF new
<1>8. /\ cpu' = [q \in Cpus |-> cpu'[q]] /\ \A q \in Cpus \ {p} : cpu'[q] = cpu[q]
      /\ DOMAIN cpu'[p] = JobFields /\ cpu'[p].at = at
      /\ \A f \in JobFields \ {"at"} :
            cpu'[p][f] = IF f \in DOMAIN new THEN new[f] ELSE cpu[p][f]
  BY <1>1, BusyIs, GoesIs
<1>9. /\ cpu'[p].job = cpu[p].job /\ cpu'[p].pass = cpu[p].pass /\ cpu'[p].to = e
      /\ cpu'[p].b2 = cpu[p].b2 /\ cpu'[p].used = cpu[p].used
      /\ cpu'[p].at \in {"search", "done"}
  BY <1>7, <1>8 DEF JobFields
<1>10. Shaped(p)' /\ Points(p)' /\ Holds(p)' /\ Leads(p)'
  BY <1>2, <1>3, <1>6, <1>8, <1>9
     DEF Shaped, Points, Holds, Leads, AtSlot, Places, Inserting, Removing
<1> QED
  BY <1>2, <1>8, <1>10, LookIsFine DEF Fine

-----------------------------------------------------------------------------
(* remove_route_sky *)

\* A place that remove_route_sky may have reached.
Swept(s) == s \in Buckets \X Nat \X Nat /\ s[2] \in 0 .. Len(routes[s[1]]) /\ s[3] # 0

LEMMA TurnsPageIs ==
  ASSUME Untorn, NEW p \in Cpus, cpu[p] # Idle, cpu[p].at \in Removing,
         cpu[p].slot \in Buckets \X Nat \X Nat,
         cpu[p].slot[2] \in 0 .. Len(routes[cpu[p].slot[1]]),
         NEW i \in Nat \ {0}, TurnsPage(p, i)
  PROVE  /\ cpu' = [q \in Cpus |-> cpu'[q]] /\ \A q \in Cpus \ {p} : cpu'[q] = cpu[q]
         /\ DOMAIN cpu'[p] = JobFields /\ cpu'[p].at \in {"sweep", "done"}
         /\ cpu'[p].job = cpu[p].job /\ cpu'[p].pass \in {1, 2} /\ cpu'[p].used = 0
         /\ cpu'[p].b2 = cpu[p].b2 /\ cpu'[p].to = cpu[p].to
         /\ cpu'[p].at = "sweep" => Swept(cpu'[p].slot)
<1> DEFINE s == cpu[p].slot
           next == [slot |-> <<s[1], s[2] - 1, i>>, used |-> 0]
           pass2 == [slot |-> NewestPage(cpu[p].b2), pass |-> 2, used |-> 0]
           over == [slot |-> NoSlot, own |-> NoSlot, used |-> 0]
<1>1. Shaped(p) /\ cpu[p].pass \in {1, 2} /\ cpu[p].b2 \in Buckets /\ routes \in Tables
  BY BusyIs DEF Shaped
<1>2. /\ s[2] > 1 => Goes(p, "sweep", next)
      /\ s[2] <= 1 /\ cpu[p].pass = 1 => Goes(p, "sweep", pass2)
      /\ s[2] <= 1 /\ cpu[p].pass = 2 => Goes(p, "done", over)
  <2>1. /\ CASE s[2] > 1 -> Goes(p, "sweep", next)
             [] s[2] <= 1 /\ cpu[p].pass = 1 -> Goes(p, "sweep", pass2)
             [] s[2] <= 1 /\ cpu[p].pass = 2 -> Goes(p, "done", over)
    BY Zenon DEF TurnsPage
  <2>2. s[2] \in Nat
    OBVIOUS
  <2>3. (s[2] > 1 /\ ~(s[2] <= 1)) \/ (~(s[2] > 1) /\ s[2] <= 1)
    BY <2>2
  <2> DEFINE more == s[2] > 1
             last == s[2] <= 1
             one == cpu[p].pass = 1
             two == cpu[p].pass = 2
  <2>4. (more \/ last) /\ ~(more /\ last) /\ ~(one /\ two)
    BY <2>3
  <2> HIDE DEF next, pass2, over, s
  <2>5. /\ CASE more -> Goes(p, "sweep", next)
             [] last /\ one -> Goes(p, "sweep", pass2)
             [] last /\ two -> Goes(p, "done", over)
    BY <2>1
  <2> HIDE DEF more, last, one, two
  <2>6. (more => Goes(p, "sweep", next)) /\ (last /\ one => Goes(p, "sweep", pass2))
        /\ (last /\ two => Goes(p, "done", over))
    BY <2>4, <2>5, Zenon
  <2> QED
    BY <2>6 DEF more, last, one, two
<1>3. Len(routes[s[1]]) \in Nat
  BY <1>1 DEF Tables
<1>4. CASE s[2] > 1
  <2>1. DOMAIN next = {"slot", "used"} /\ next["slot"] = <<s[1], s[2] - 1, i>> /\ next["used"] = 0
    OBVIOUS
  <2>2. Swept(<<s[1], s[2] - 1, i>>)
    BY <1>3, <1>4 DEF Swept
  <2> HIDE DEF next
  <2>3. /\ cpu' = [q \in Cpus |-> cpu'[q]] /\ \A q \in Cpus \ {p} : cpu'[q] = cpu[q]
        /\ DOMAIN cpu'[p] = JobFields /\ cpu'[p].at = "sweep"
        /\ \A f \in JobFields \ {"at"} :
              cpu'[p][f] = IF f \in DOMAIN next THEN next[f] ELSE cpu[p][f]
    BY <1>2, <1>4, BusyIs, GoesIs
  <2> HIDE DEF s
  <2>4. /\ cpu'[p].job = cpu[p].job /\ cpu'[p].pass = cpu[p].pass /\ cpu'[p].used = 0
        /\ cpu'[p].b2 = cpu[p].b2 /\ cpu'[p].to = cpu[p].to
        /\ cpu'[p].slot = <<s[1], s[2] - 1, i>>
    BY <2>1, <2>3 DEF JobFields
  <2> QED
    BY <1>1, <2>2, <2>3, <2>4
<1>5. CASE s[2] <= 1 /\ cpu[p].pass = 1
  <2> DEFINE v == NewestPage(cpu[p].b2)
  <2>1. DOMAIN pass2 = {"slot", "pass", "used"} /\ pass2["slot"] = v /\ pass2["pass"] = 2
        /\ pass2["used"] = 0
    OBVIOUS
  <2>2. Swept(v)
    BY <1>1, NewestPageIs DEF Swept
  <2> HIDE DEF pass2, v
  <2>3. /\ cpu' = [q \in Cpus |-> cpu'[q]] /\ \A q \in Cpus \ {p} : cpu'[q] = cpu[q]
        /\ DOMAIN cpu'[p] = JobFields /\ cpu'[p].at = "sweep"
        /\ \A f \in JobFields \ {"at"} :
              cpu'[p][f] = IF f \in DOMAIN pass2 THEN pass2[f] ELSE cpu[p][f]
    BY <1>2, <1>5, BusyIs, GoesIs
  <2>4. /\ cpu'[p].job = cpu[p].job /\ cpu'[p].pass = 2 /\ cpu'[p].used = 0
        /\ cpu'[p].b2 = cpu[p].b2 /\ cpu'[p].to = cpu[p].to /\ cpu'[p].slot = v
    BY <2>1, <2>3 DEF JobFields
  <2> QED
    BY <2>2, <2>3, <2>4
<1>6. CASE s[2] <= 1 /\ cpu[p].pass = 2
  <2>1. DOMAIN over = {"slot", "own", "used"} /\ over["used"] = 0
    OBVIOUS
  <2> HIDE DEF over
  <2>3. /\ cpu' = [q \in Cpus |-> cpu'[q]] /\ \A q \in Cpus \ {p} : cpu'[q] = cpu[q]
        /\ DOMAIN cpu'[p] = JobFields /\ cpu'[p].at = "done"
        /\ \A f \in JobFields \ {"at"} :
              cpu'[p][f] = IF f \in DOMAIN over THEN over[f] ELSE cpu[p][f]
    BY <1>2, <1>6, BusyIs, GoesIs
  <2>4. /\ cpu'[p].job = cpu[p].job /\ cpu'[p].pass = cpu[p].pass /\ cpu'[p].used = 0
        /\ cpu'[p].b2 = cpu[p].b2 /\ cpu'[p].to = cpu[p].to
    BY <2>1, <2>3 DEF JobFields
  <2> QED
    BY <1>1, <2>3, <2>4
<1>7. s[2] \in Nat
  OBVIOUS
<1> QED
  BY <1>1, <1>4, <1>5, <1>6, <1>7

LEMMA TurnedIsFine ==
  ASSUME Untorn, NEW p \in Cpus, cpu[p] # Idle, cpu[p].at \in Removing,
         cpu[p].slot \in Buckets \X Nat \X Nat,
         cpu[p].slot[2] \in 0 .. Len(routes[cpu[p].slot[1]]),
         NEW i \in Nat \ {0}, TurnsPage(p, i),
         asked' = asked, \A b \in Buckets : Len(routes'[b]) = Len(routes[b])
  PROVE  Fine(p)' /\ cpu'[p].at # "second"
<1>1. Shaped(p) /\ Leads(p) /\ cpu[p].b2 \in Buckets
  BY BusyIs DEF Shaped
<1>2. /\ DOMAIN cpu'[p] = JobFields /\ cpu'[p].at \in {"sweep", "done"}
      /\ cpu'[p].job = cpu[p].job /\ cpu'[p].pass \in {1, 2} /\ cpu'[p].used = 0
      /\ cpu'[p].b2 = cpu[p].b2 /\ cpu'[p].to = cpu[p].to
      /\ cpu'[p].at = "sweep" => Swept(cpu'[p].slot)
  BY TurnsPageIs
<1>3. Points(p)'
  BY <1>2 DEF Points, Swept, AtSlot
<1>4. Shaped(p)' /\ Holds(p)' /\ Leads(p)'
  BY <1>1, <1>2 DEF Shaped, Holds, Leads, Places, Inserting, Removing
<1> QED
  BY <1>2, <1>3, <1>4 DEF Fine

LEMMA SweepOnKeeps ==
  ASSUME Untorn, NEW p \in Cpus, cpu[p] # Idle, SweepOn(p)
  PROVE  Untorn'
<1> DEFINE s == cpu[p].slot
           hits == {j \in s[3] .. PAIRS : Same(PageOf(s).pairs[j].first, Wanted(p))}
           v == <<s[1], s[2], Min(hits)>>
<1>1. /\ cpu[p].at = "sweep" /\ UNCHANGED <<vars, crowd, torn>>
      /\ CASE s[2] = 0 -> TurnsPage(p, s[3])
           [] s[2] > 0 /\ PageOf(s).used = 0 -> TurnsPage(p, s[3])
           [] s[2] > 0 /\ PageOf(s).used > 0 /\ hits = {} -> TurnsPage(p, PAIRS + 1)
           [] s[2] > 0 /\ PageOf(s).used > 0 /\ hits # {} -> Goes(p, "clear", [slot |-> v])
  BY Zenon DEF SweepOn, Looks
<1>2. routes' = routes /\ asked' = asked /\ astray' = {} /\ cpu[p].at # "second"
  BY <1>1, BusyIs DEF vars
<1>3. Shaped(p) /\ Leads(p) /\ Points(p) /\ routes \in Tables /\ PAIRS \in Nat
  BY BusyIs, RoutesAssumption
<1>4. Swept(s) /\ s[3] \in Nat /\ s[2] \in Nat
  BY <1>1, <1>3 DEF Points, Swept
<1>5. s[2] > 0 => PageOf(s).used \in Nat
  <2>1. routes[s[1]] \in Seq(Pages) /\ Len(routes[s[1]]) \in Nat /\ s[2] <= Len(routes[s[1]])
    BY <1>3, <1>4 DEF Tables, Swept
  <2>2. s[2] > 0 => PageNo(s[1], s[2]) \in 1 .. Len(routes[s[1]])
    BY <1>4, <2>1 DEF PageNo
  <2>3. s[2] > 0 => PageOf(s) \in Pages
    BY <2>1, <2>2 DEF PageOf
  <2> QED
    BY <2>3 DEF Pages
<1> DEFINE found == s[2] > 0 /\ PageOf(s).used > 0 /\ hits # {}
<1>6. \/ found /\ Goes(p, "clear", [slot |-> v])
      \/ TurnsPage(p, s[3]) \/ TurnsPage(p, PAIRS + 1)
  <2> DEFINE u == PageOf(s).used
  <2>1. s[2] = 0 \/ (s[2] > 0 /\ (u = 0 \/ u > 0))
    <3> HIDE DEF u, s
    <3> QED
      BY <1>4, <1>5 DEF u
  <2> HIDE DEF s, hits, v
  <2> QED
    BY <1>1, <2>1, Zenon
<1>7. CASE found /\ Goes(p, "clear", [slot |-> v])
  <2>1. hits \in SUBSET Nat /\ hits \subseteq 1 .. PAIRS
    BY <1>3, <1>4 DEF Swept
  <2>2. Min(hits) \in 1 .. PAIRS
    BY <1>7, <2>1, HasLeast
  <2>3. s \in Buckets \X Nat \X Nat /\ s[2] \in 1 .. Len(routes[s[1]])
    BY <1>4, <1>7 DEF Swept
  <2> HIDE DEF hits, s
  <2>4. v \in SlotsOf(routes)
    BY <2>2, <2>3 DEF SlotsOf
  <2> HIDE DEF v
  <2>5. Shaped(p)' /\ Points(p)' /\ Holds(p)' /\ Leads(p)'
    BY <1>1, <1>2, <1>3, <1>7, <2>4, GoesSlot
       DEF Shaped, Points, Holds, Leads, AtSlot, Places, Inserting, Removing
  <2> QED
    BY <1>2, <1>7, <2>5, GoesSlot, LookIsFine DEF Fine
<1>8. ASSUME NEW i \in Nat \ {0}, TurnsPage(p, i) PROVE Untorn'
  <2>1. cpu[p].at \in Removing /\ s \in Buckets \X Nat \X Nat /\ s[2] \in 0 .. Len(routes[s[1]])
    BY <1>1, <1>4 DEF Removing, Swept
  <2>2. Fine(p)'
    BY <1>2, <1>8, <2>1, TurnedIsFine
  <2>3. cpu' = [q \in Cpus |-> cpu'[q]] /\ \A q \in Cpus \ {p} : cpu'[q] = cpu[q]
    BY <1>8, <2>1, TurnsPageIs
  <2> QED
    BY <1>2, <2>2, <2>3, LookIsFine
<1>9. s[3] \in Nat \ {0} /\ PAIRS + 1 \in Nat \ {0}
  BY <1>3, <1>4 DEF Swept
<1> QED
  BY <1>6, <1>7, <1>8, <1>9

LEMMA ClearFirstKeeps ==
  ASSUME Untorn, NEW p \in Cpus, cpu[p] # Idle, ClearFirst(p), ~torn'
  PROVE  Untorn'
<1> DEFINE x == cpu[p].slot
<1>1. cpu[p].at = "clear" /\ StoresHalf(p, "first", ZeroData) /\ Goes(p, "rest", None)
  BY DEF ClearFirst
<1>2. Shaped(p) /\ Leads(p) /\ Points(p) /\ routes \in Tables /\ astray = {}
  BY BusyIs
<1>3. x \in SlotsOf(routes) /\ ZeroData \in Addresses
  BY <1>1, <1>2, ZerosAreKept DEF Points, AtSlot
<1>4. /\ routes' \in Tables /\ \A b \in Buckets : Len(routes'[b]) = Len(routes[b])
      /\ SlotsOf(routes') = SlotsOf(routes)
      /\ \A s \in SlotsOf(routes) : s # x => In(routes', s) = In(routes, s)
      /\ In(routes', x) = [first |-> ZeroData, second |-> In(routes, x).second]
      /\ asked' = asked /\ astray' = astray
      /\ \A q \in Cpus \ {p} : x \notin Held(q)
  BY <1>1, <1>2, <1>3, StoresHalfIs
<1>5. Grown
  BY <1>2, <1>4, SameSlots
<1>6. In(routes', x).first.code = 0
  BY <1>4 DEF ZeroData
<1>7. Kept(asked', In(routes', x))
  BY <1>6 DEF Kept
<1>8. Shaped(p)' /\ Points(p)' /\ Leads(p)' /\ Holds(p)'
  BY <1>1, <1>2, <1>3, <1>4, <1>6, GoesNone
     DEF Shaped, Points, Leads, AtSlot, Places, Inserting, Removing, Holds
<1>9. Fine(p)'
  BY <1>8 DEF Fine
<1>10. \A q \in Cpus \ {p} : \A s \in SlotsOf(routes) \cap Held(q) : In(routes', s) = In(routes, s)
  BY <1>4
<1>11. \A s \in SlotsOf(routes') :
           \/ Kept(asked', In(routes', s))
           \/ /\ s \in SlotsOf(routes) /\ In(routes', s) = In(routes, s)
              /\ ~(cpu[p].at = "second" /\ cpu[p].slot = s)
  BY <1>1, <1>4, <1>7
<1> QED
  BY <1>1, <1>2, <1>4, <1>5, <1>9, <1>10, <1>11, GoesNone, Assemble

LEMMA ClearSecondKeeps ==
  ASSUME Untorn, NEW p \in Cpus, cpu[p] # Idle, ClearSecond(p), ~torn'
  PROVE  Untorn'
<1> DEFINE x == cpu[p].slot
<1>1. cpu[p].at = "rest" /\ StoresHalf(p, "second", ZeroData) /\ Goes(p, "uncount", None)
  BY DEF ClearSecond
<1>2. Shaped(p) /\ Leads(p) /\ Points(p) /\ Holds(p) /\ routes \in Tables /\ astray = {}
  BY BusyIs
<1>3. x \in SlotsOf(routes) /\ ZeroData \in Addresses /\ In(routes, x).first.code = 0
  BY <1>1, <1>2, ZerosAreKept DEF Points, AtSlot, Holds
<1>4. /\ routes' \in Tables /\ \A b \in Buckets : Len(routes'[b]) = Len(routes[b])
      /\ SlotsOf(routes') = SlotsOf(routes)
      /\ \A s \in SlotsOf(routes) : s # x => In(routes', s) = In(routes, s)
      /\ In(routes', x) = [first |-> In(routes, x).first, second |-> ZeroData]
      /\ asked' = asked /\ astray' = astray
      /\ \A q \in Cpus \ {p} : x \notin Held(q)
  BY <1>1, <1>2, <1>3, StoresHalfIs
<1>5. Grown
  BY <1>2, <1>4, SameSlots
<1>7. Kept(asked', In(routes', x))
  BY <1>3, <1>4 DEF Kept
<1>8. Shaped(p)' /\ Points(p)' /\ Leads(p)' /\ Holds(p)'
  BY <1>1, <1>2, <1>3, <1>4, GoesNone
     DEF Shaped, Points, Leads, AtSlot, Places, Inserting, Removing, Holds
<1>9. Fine(p)'
  BY <1>8 DEF Fine
<1>10. \A q \in Cpus \ {p} : \A s \in SlotsOf(routes) \cap Held(q) : In(routes', s) = In(routes, s)
  BY <1>4
<1>11. \A s \in SlotsOf(routes') :
           \/ Kept(asked', In(routes', s))
           \/ /\ s \in SlotsOf(routes) /\ In(routes', s) = In(routes, s)
              /\ ~(cpu[p].at = "second" /\ cpu[p].slot = s)
  BY <1>1, <1>4, <1>7
<1> QED
  BY <1>1, <1>2, <1>4, <1>5, <1>9, <1>10, <1>11, GoesNone, Assemble

LEMMA UncountKeeps ==
  ASSUME Untorn, NEW p \in Cpus, cpu[p] # Idle, Uncount(p)
  PROVE  Untorn'
<1> DEFINE x == cpu[p].slot
<1>1. cpu[p].at = "uncounted" /\ WritesUsed(p, cpu[p].used - 1) /\ TurnsPage(p, x[3])
  BY DEF Uncount
<1>2. Shaped(p) /\ Points(p) /\ routes \in Tables /\ astray = {}
  BY BusyIs
<1>3. x \in SlotsOf(routes) /\ cpu[p].used - 1 \in Int /\ cpu[p].at \in Removing
  BY <1>1, <1>2 DEF Points, AtSlot, Shaped, Removing
<1>4. /\ routes' \in Tables /\ \A b \in Buckets : Len(routes'[b]) = Len(routes[b])
      /\ SlotsOf(routes') = SlotsOf(routes)
      /\ \A s \in SlotsOf(routes) : In(routes', s) = In(routes, s)
      /\ asked' = asked /\ astray' = astray
  BY <1>1, <1>2, <1>3, WritesUsedIs
<1>5. Grown
  BY <1>2, <1>4, SameSlots
<1>6. x \in Buckets \X Nat \X Nat /\ x[2] \in 0 .. Len(routes[x[1]]) /\ x[3] \in Nat \ {0}
  BY <1>2, <1>3, SlotFacts DEF SlotsOf
<1> HIDE DEF x
<1>7. Fine(p)' /\ cpu' = [q \in Cpus |-> cpu'[q]] /\ \A q \in Cpus \ {p} : cpu'[q] = cpu[q]
  BY <1>1, <1>3, <1>4, <1>6, TurnedIsFine, TurnsPageIs DEF x
<1>8. \A s \in SlotsOf(routes') :
        /\ s \in SlotsOf(routes) /\ In(routes', s) = In(routes, s)
        /\ ~(cpu[p].at = "second" /\ cpu[p].slot = s)
  BY <1>1, <1>4
<1> QED
  BY <1>2, <1>4, <1>5, <1>7, <1>8, Assemble

-----------------------------------------------------------------------------
(* server_pre_routing_sky: handlers end and begin *)

LEMMA DoneKeeps ==
  ASSUME Untorn, NEW p \in Cpus, cpu[p] # Idle, Done(p)
  PROVE  Untorn'
<1>1. /\ cpu[p].at = "done" /\ routes' = routes /\ asked' = asked
      /\ IF cpu[p].to = "here" THEN astray' = astray ELSE Sends(cpu[p].job.c, cpu[p].to)
      /\ cpu' = [cpu EXCEPT ![p] = Idle]
  BY DEF Done
<1>2. cpu = [q \in Cpus |-> cpu[q]] /\ Leads(p) /\ astray = {}
  BY BusyIs
<1>3. astray' = {}
  <2>1. CASE cpu[p].to = "here"
    BY <1>1, <1>2, <2>1
  <2>2. CASE cpu[p].to # "here"
    BY <1>1, <1>2, <2>2, SendsPaired DEF Leads
  <2> QED
    BY <2>1, <2>2
<1>4. cpu' = [q \in Cpus |-> IF q = p THEN Idle ELSE cpu[q]]
  BY <1>1, <1>2
<1>5. cpu' = [q \in Cpus |-> cpu'[q]] /\ cpu'[p] = Idle /\ \A q \in Cpus \ {p} : cpu'[q] = cpu[q]
  BY <1>4
<1>6. Fine(p)'
  BY <1>5 DEF Fine
<1> QED
  BY <1>1, <1>3, <1>5, <1>6, LookIsFine

LEMMA BegunIs ==
  ASSUME NEW job
  PROVE  /\ DOMAIN Begun(job) = JobFields /\ Begun(job).at \in {"choose", "find"}
         /\ Begun(job).at = "choose" => job.kind = "syn"
         /\ Begun(job).job = job /\ Begun(job).pass = 1 /\ Begun(job).used = 0
         /\ Begun(job).to = IF job.kind = "syn" THEN job.data.ep ELSE "here"
BY DEF Begun, JobFields

LEMMA ArriveKeeps ==
  ASSUME Untorn, NEW D, NEW jobs \in [D -> Jobs], \A p \in D \cap Cpus : cpu[p] = Idle,
         Arrive(jobs)
  PROVE  Untorn'
<1>1. /\ cpu' = [p \in Cpus |-> IF p \in D THEN Begun(jobs[p]) ELSE cpu[p]]
      /\ asked' = asked \cup {<<jobs[p].c, jobs[p].data.ep>> : p \in SynsOf(jobs)}
      /\ routes' = routes /\ astray' = astray
  BY DEF Arrive
<1>2. \A b \in Buckets : Len(routes[b]) \in Nat
  BY DEF Untorn, Tables
<1>3. Grown
  BY <1>1, <1>2 DEF Grown, Untorn
<1>4. ASSUME NEW p \in Cpus, p \in D PROVE Fine(p)'
  <2> DEFINE job == jobs[p]
  <2>1. job \in Jobs /\ cpu'[p] = Begun(job)
    BY <1>1, <1>4
  <2>2. job.kind = "syn" => <<job.c, job.data.ep>> \in asked'
    BY <1>1, <1>4 DEF SynsOf
  <2> HIDE DEF job
  <2>3. Shaped(p)'
    BY <2>1, BegunIs DEF Shaped, Places, Inserting, Removing
  <2>4. Points(p)' /\ Holds(p)'
    BY <2>1, BegunIs DEF Points, Holds, AtSlot
  <2>5. Leads(p)'
    BY <2>1, <2>2, BegunIs DEF Leads, Paired
  <2> QED
    BY <2>3, <2>4, <2>5 DEF Fine
<1>5. ASSUME NEW p \in Cpus, p \notin D PROVE Fine(p)' /\ cpu'[p] = cpu[p]
  <2>1. cpu'[p] = cpu[p]
    BY <1>1, <1>5
  <2> QED
    BY <1>1, <1>3, <2>1, OthersFine DEF Untorn
<1>6. Storing'
  <2> SUFFICES ASSUME NEW s \in SlotsOf(routes)
               PROVE  \/ Kept(asked', In(routes, s))
                      \/ \E q \in Cpus : cpu'[q].at = "second" /\ cpu'[q].slot = s
    BY <1>1 DEF Storing
  <2>1. CASE Kept(asked, In(routes, s))
    BY <1>1, <2>1 DEF Kept, Paired
  <2>2. ASSUME NEW q \in Cpus, cpu[q].at = "second", cpu[q].slot = s
        PROVE  cpu'[q].at = "second" /\ cpu'[q].slot = s
    <3>1. q \notin D
      BY <2>2 DEF Idle
    <3> QED
      BY <1>5, <2>2, <3>1
  <2> QED
    BY <2>1, <2>2 DEF Untorn, Storing
<1> QED
  BY <1>1, <1>3, <1>4, <1>5, <1>6 DEF Untorn, Grown

-----------------------------------------------------------------------------
(* Handlers that do not overlap *)

LEMMA CleanIs ==
  ASSUME NEW pairs, NEW table \in Tables
  PROVE  table \in Clean(pairs) <=> \A s \in SlotsOf(table) : Kept(pairs, In(table, s))
<1>1. ASSUME table \in Clean(pairs), NEW s \in SlotsOf(table) PROVE Kept(pairs, In(table, s))
  <2> DEFINE n == Len(table[s[1]]) - s[2] + 1
  <2>1. /\ s[1] \in Buckets /\ n \in 1 .. Len(table[s[1]]) /\ s[3] \in 1 .. PAIRS
        /\ In(table, s) = table[s[1]][n].pairs[s[3]]
    BY SlotFacts
  <2>2. table[s[1]] \in Seq(KeptPages(pairs))
    BY <1>1, <2>1, CleanTables
  <2> HIDE DEF n
  <2>3. table[s[1]][n] \in KeptPages(pairs)
    BY <2>1, <2>2
  <2> QED
    BY <2>1, <2>3 DEF KeptPages
<1>2. ASSUME \A s \in SlotsOf(table) : Kept(pairs, In(table, s)) PROVE table \in Clean(pairs)
  <2>1. ASSUME NEW b \in Buckets PROVE table[b] \in Seq(KeptPages(pairs))
    <3>1. table[b] \in Seq(Pages) /\ Len(table[b]) \in Nat
      BY DEF Tables
    <3>2. ASSUME NEW k \in 1 .. Len(table[b]), NEW i \in 1 .. PAIRS
          PROVE  Kept(pairs, table[b][k].pairs[i])
      <4> DEFINE m == Len(table[b]) - k + 1
                 s == <<b, m, i>>
      <4>1. m \in 1 .. Len(table[b]) /\ m \in Nat /\ Len(table[b]) - m + 1 = k
        BY <3>1
      <4> HIDE DEF m
      <4>2. s \in SlotsOf(table)
        BY <4>1, RoutesAssumption DEF SlotsOf
      <4>3. In(table, s) = table[b][k].pairs[i]
        BY <4>1 DEF In
      <4> QED
        BY <1>2, <4>2, <4>3
    <3>3. ASSUME NEW k \in 1 .. Len(table[b]) PROVE table[b][k] \in KeptPages(pairs)
      <4>1. table[b][k] \in Pages
        BY <3>1
      <4> QED
        BY <3>2, <4>1 DEF KeptPages
    <3>4. \A k \in 1 .. Len(table[b]) : table[b][k] \in KeptPages(pairs)
      BY <3>3
    <3>5. table[b] = [k \in 1 .. Len(table[b]) |-> table[b][k]]
      BY <3>1
    <3> HIDE DEF KeptPages
    <3> QED
      BY <3>1, <3>4, <3>5
  <2> QED
    BY <2>1 DEF Tables, Clean, TablesOf
<1> QED
  BY <1>1, <1>2

LEMMA NextKeeps ==
  ASSUME Untorn, Busy = {}, Next, cpu' = cpu
  PROVE  Untorn'
<1>1. \A q \in Cpus : cpu[q] = Idle
  BY DEF Busy
<1>2. \A q \in Cpus : cpu[q].at # "second"
  BY <1>1 DEF Idle
<1>3. routes \in Tables /\ \A s \in SlotsOf(routes) : Kept(asked, In(routes, s))
  BY <1>2 DEF Untorn, Storing
<1>4. routes \in Clean(asked) /\ astray = {}
  BY <1>3, CleanIs DEF Untorn
<1>5. routes' \in Clean(asked') /\ astray' = {}
  BY <1>4, AloneKeeps
<1>6. routes' \in Tables /\ \A s \in SlotsOf(routes') : Kept(asked', In(routes', s))
  BY <1>5, CleanTables, CleanIs
<1>7. Storing'
  BY <1>6 DEF Storing
<1>8. \A q \in Cpus : Fine(q)'
  BY <1>1 DEF Fine
<1> QED
  BY <1>5, <1>6, <1>7, <1>8 DEF Untorn

-----------------------------------------------------------------------------
(* The theorem *)

\* The inductive invariant.
UntornUnlessTorn == ~torn => Untorn

LEMMA UntornStarts ==
  ASSUME SMPInit
  PROVE  UntornUnlessTorn
<1>1. routes = [b \in Buckets |-> <<>>] /\ astray = {} /\ cpu = [p \in Cpus |-> Idle]
  BY DEF SMPInit, Init
<1>2. routes \in Tables /\ \A b \in Buckets : Len(routes[b]) = 0
  BY <1>1 DEF Tables
<1>3. SlotsOf(routes) = {}
  BY <1>2 DEF SlotsOf
<1>4. Storing
  BY <1>3 DEF Storing
<1>5. cpu = [p \in Cpus |-> cpu[p]] /\ \A p \in Cpus : Fine(p)
  BY <1>1 DEF Fine
<1> QED
  BY <1>1, <1>2, <1>4, <1>5 DEF UntornUnlessTorn, Untorn

LEMMA StepKeeps ==
  ASSUME Untorn, NEW p \in Busy, Step(p), ~torn'
  PROVE  Untorn'
<1>1. p \in Cpus /\ cpu[p] # Idle
  BY DEF Busy
<1>2. \/ Choose(p) \/ Link(p) \/ Pick(p) \/ StoreFirst(p) \/ StoreSecond(p)
      \/ ReadUsed(p) \/ Count(p)
      \/ Find(p) \/ Copy(p) \/ SweepOn(p) \/ ClearFirst(p) \/ ClearSecond(p)
      \/ Uncount(p) \/ Done(p)
  BY Zenon DEF Step
<1> QED
  BY <1>1, <1>2, ChooseKeeps, LinkKeeps, PickKeeps, StoreFirstKeeps, StoreSecondKeeps,
     ReadUsedKeeps, CountKeeps, FindKeeps, CopyKeeps, SweepOnKeeps, ClearFirstKeeps,
     ClearSecondKeeps, UncountKeeps, DoneKeeps, Zenon

LEMMA TornStays ==
  ASSUME SMPNext, torn
  PROVE  torn'
<1>1. CASE Busy = {} /\ Next /\ (crowd > 0 => syns' <= MaxShared) /\ UNCHANGED smpVars
  BY <1>1 DEF smpVars
<1>2. CASE ArriveTogether \/ ArriveBeside
  BY <1>2 DEF ArriveTogether, ArriveBeside, Arrive
<1>3. ASSUME NEW p \in Busy, Step(p) PROVE torn'
  BY <1>3 DEF Step, Choose, Link, Pick, StoreFirst, StoreSecond, ReadUsed, Count, Find, Copy,
     SweepOn, ClearFirst, ClearSecond, Uncount, Done, Looks, StoresHalf, WritesUsed
<1> QED
  BY <1>1, <1>2, <1>3 DEF SMPNext

LEMMA UntornIsKept ==
  ASSUME UntornUnlessTorn, [SMPNext]_allVars
  PROVE  UntornUnlessTorn'
<1>1. CASE UNCHANGED allVars
  BY <1>1 DEF allVars, vars, smpVars, UntornUnlessTorn, Untorn, Fine, Shaped, Points, Holds,
     Leads, Storing, ToInsert, Source
<1>2. CASE SMPNext
  <2> SUFFICES ASSUME ~torn' PROVE Untorn'
    BY DEF UntornUnlessTorn
  <2>1. Untorn
    BY <1>2, TornStays DEF UntornUnlessTorn
  <2>2. CASE Busy = {} /\ Next /\ (crowd > 0 => syns' <= MaxShared) /\ UNCHANGED smpVars
    BY <2>1, <2>2, NextKeeps DEF smpVars
  <2>3. CASE ArriveTogether
    <3>0. PICK pair \in kSubset(2, Cpus) : \E jobs \in [pair -> Jobs] : Arrive(jobs)
      BY <2>3, Zenon DEF ArriveTogether
    <3>1. PICK jobs \in [pair -> Jobs] : Arrive(jobs)
      BY <3>0
    <3>2. \A q \in pair \cap Cpus : cpu[q] = Idle
      BY <2>3 DEF ArriveTogether, Busy
    <3> QED
      BY <2>1, <3>1, <3>2, ArriveKeeps
  <2>4. CASE ArriveBeside
    <3>0. PICK q \in Cpus \ Busy : \E jobs \in [{q} -> Jobs] : Arrive(jobs)
      BY <2>4, Zenon DEF ArriveBeside
    <3>1. PICK jobs \in [{q} -> Jobs] : Arrive(jobs)
      BY <3>0
    <3>2. \A r \in {q} \cap Cpus : cpu[r] = Idle
      BY DEF Busy
    <3> QED
      BY <2>1, <3>1, <3>2, ArriveKeeps
  <2>5. CASE \E p \in Busy : Step(p)
    BY <2>1, <2>5, StepKeeps
  <2> QED
    BY <1>2, <2>2, <2>3, <2>4, <2>5 DEF SMPNext
<1> QED
  BY <1>1, <1>2

LEMMA UntornIsSafe ==
  ASSUME UntornUnlessTorn
  PROVE  CrossTalkOnlyIfTorn
BY DEF UntornUnlessTorn, Untorn, CrossTalkOnlyIfTorn, NoCrossTalk

(***************************************************************************)
(* However many handlers overlap on a table without a lock, a packet only  *)
(* goes where a SYN paired its source (find_route_sky and pre_routing_sky  *)
(* of server/server.c), unless one CPU wrote into a slot that another had  *)
(* a pointer to, or copied a pair half written. Counters that are too low, *)
(* pages that are lost and pairs that are cleared late send nobody astray. *)
(***************************************************************************)
THEOREM CrossTalkNeedsTearing == SMPSpec => []CrossTalkOnlyIfTorn
<1>1. SMPInit => UntornUnlessTorn
  BY UntornStarts
<1>2. UntornUnlessTorn /\ [SMPNext]_allVars => UntornUnlessTorn'
  BY UntornIsKept
<1>3. UntornUnlessTorn => CrossTalkOnlyIfTorn
  BY UntornIsSafe
<1> QED
  BY <1>1, <1>2, <1>3, PTL DEF SMPSpec

-----------------------------------------------------------------------------
(* As long as no handlers have overlapped *)

\* The invariant while no handlers have overlapped: the handler is one action,
\* and the table is what it is in SkyRoutes.
Alone ==
  /\ crowd \in Nat
  /\ crowd = 0 => /\ \A p \in Cpus : cpu[p] = Idle
                  /\ routes \in Clean(asked) /\ astray = {} /\ Counted

LEMMA AloneStarts ==
  ASSUME SMPInit
  PROVE  Alone
<1>1. routes = [b \in Buckets |-> <<>>] /\ astray = {} /\ cpu = [p \in Cpus |-> Idle] /\ crowd = 0
  BY DEF SMPInit, Init
<1>2. routes \in Clean(asked) /\ Counted
  BY <1>1 DEF Clean, Counted, TablesOf
<1> QED
  BY <1>1, <1>2 DEF Alone

LEMMA ArriveCrowds ==
  ASSUME crowd \in Nat, NEW D, NEW jobs \in [D -> Jobs], Cardinality(D) \in {1, 2}, Arrive(jobs)
  PROVE  crowd' \in Nat /\ crowd' # 0
<1>1. DOMAIN jobs = D
  OBVIOUS
<1>2. crowd' = crowd + Cardinality(D)
  BY <1>1 DEF Arrive
<1> QED
  BY <1>2

LEMMA ArrivalCrowds ==
  ASSUME crowd \in Nat, ArriveTogether \/ ArriveBeside
  PROVE  crowd' \in Nat /\ crowd' # 0
<1>1. CASE ArriveTogether
  <2>1. PICK pair \in kSubset(2, Cpus) : \E jobs \in [pair -> Jobs] : Arrive(jobs)
    BY <1>1, Zenon DEF ArriveTogether
  <2>2. PICK jobs \in [pair -> Jobs] : Arrive(jobs)
    BY <2>1
  <2>3. Cardinality(pair) = 2
    BY DEF kSubset
  <2> QED
    BY <2>2, <2>3, ArriveCrowds
<1>2. CASE ArriveBeside
  <2>1. PICK q \in Cpus \ Busy : \E jobs \in [{q} -> Jobs] : Arrive(jobs)
    BY <1>2, Zenon DEF ArriveBeside
  <2>2. PICK jobs \in [{q} -> Jobs] : Arrive(jobs)
    BY <2>1
  <2>3. Cardinality({q}) = 1
    BY FS_Singleton
  <2> QED
    BY <2>2, <2>3, ArriveCrowds
<1> QED
  BY <1>1, <1>2

LEMMA StepsDoNotCrowd ==
  ASSUME NEW p \in Busy, Step(p)
  PROVE  crowd' = crowd
BY DEF Step, Choose, Link, Pick, StoreFirst, StoreSecond, ReadUsed, Count, Find, Copy,
   SweepOn, ClearFirst, ClearSecond, Uncount, Done, Looks, StoresHalf, WritesUsed

\* Which steps leave crowd zero.
LEMMA AloneMeansNext ==
  ASSUME Alone, SMPNext, crowd' = 0
  PROVE  crowd = 0 /\ Next /\ cpu' = cpu
<1>1. crowd \in Nat
  BY DEF Alone
<1>2. ~(ArriveTogether \/ ArriveBeside)
  BY <1>1, ArrivalCrowds
<1>3. ASSUME NEW p \in Busy, Step(p) PROVE FALSE
  <2>1. crowd = 0
    BY <1>3, StepsDoNotCrowd
  <2> QED
    BY <2>1 DEF Alone, Busy
<1>4. Next /\ UNCHANGED smpVars
  BY <1>2, <1>3 DEF SMPNext
<1> QED
  BY <1>4 DEF smpVars

LEMMA AloneIsKept ==
  ASSUME Alone, [SMPNext]_allVars
  PROVE  Alone'
<1>1. CASE UNCHANGED allVars
  BY <1>1 DEF allVars, vars, smpVars, Alone, Counted
<1>2. CASE SMPNext
  <2>1. crowd' \in Nat
    <3>1. CASE UNCHANGED smpVars
      BY <3>1 DEF smpVars, Alone
    <3>2. CASE ArriveTogether \/ ArriveBeside
      BY <3>2, ArrivalCrowds DEF Alone
    <3>3. CASE \E p \in Busy : Step(p)
      BY <3>3, StepsDoNotCrowd DEF Alone
    <3> QED
      BY <1>2, <3>1, <3>2, <3>3 DEF SMPNext
  <2>2. ASSUME crowd' = 0
        PROVE  /\ \A p \in Cpus : cpu'[p] = Idle
               /\ routes' \in Clean(asked') /\ astray' = {} /\ Counted'
    <3>1. crowd = 0 /\ Next /\ cpu' = cpu
      BY <1>2, <2>2, AloneMeansNext
    <3> QED
      BY <3>1, AloneKeeps DEF Alone
  <2> QED
    BY <2>1, <2>2 DEF Alone
<1> QED
  BY <1>1, <1>2

LEMMA AloneCounts ==
  ASSUME Alone
  PROVE  UsedUnlessOverlapped
<1> SUFFICES ASSUME crowd = 0, NoneLooksFree(asked), NEW b \in Buckets, NEW k \in DOMAIN routes[b]
             PROVE  routes[b][k].used \in 0 .. Cardinality(Occupied(routes[b][k]))
  BY DEF UsedUnlessOverlapped, UsedAtMostOccupied
<1>1. routes \in TablesOf(CountedPages)
  BY DEF Alone, Counted
<1>2. routes[b] \in Seq(CountedPages)
  BY <1>1 DEF TablesOf
<1>3. routes[b][k] \in CountedPages
  BY <1>2
<1> QED
  BY <1>3 DEF CountedPages

(***************************************************************************)
(* Until handlers overlap, `used' of a page never exceeds what is stored   *)
(* there, whatever insert_route_sky and remove_route_sky have done before, *)
(* if no SYN asked for an endpoint that looks like a free slot: so a page  *)
(* that has room is never taken for a full one on that account.            *)
(***************************************************************************)
THEOREM CountsHoldAlone == SMPSpec => []UsedUnlessOverlapped
<1>1. SMPInit => Alone
  BY AloneStarts
<1>2. Alone /\ [SMPNext]_allVars => Alone'
  BY AloneIsKept
<1>3. Alone => UsedUnlessOverlapped
  BY AloneCounts
<1> QED
  BY <1>1, <1>2, <1>3, PTL DEF SMPSpec

(***************************************************************************)
(* Until handlers overlap, no packet takes away a pair that is stored      *)
(* under endpoints it has nothing to do with: insert_route_sky overwrites  *)
(* no pair that does not look free, and remove_route_sky clears only those *)
(* of the packet's source and of endpoints that a SYN paired with it.      *)
(***************************************************************************)
THEOREM OthersKeptAlone == SMPSpec => OthersKeptUnlessOverlapped
<1>1. SMPInit => Alone
  BY AloneStarts
<1>2. Alone /\ [SMPNext]_allVars => Alone'
  BY AloneIsKept
<1>3. Alone /\ [SMPNext]_allVars => [crowd' = 0 /\ routes' # routes => OthersKept]_allVars
  <2>1. ASSUME Alone, SMPNext, crowd' = 0 PROVE OthersKept
    BY <2>1, AloneMeansNext, AloneKeepsOthers DEF Alone
  <2> QED
    BY <2>1
<1> QED
  BY <1>1, <1>2, <1>3, PTL DEF SMPSpec, OthersKeptUnlessOverlapped

-----------------------------------------------------------------------------
(* One handler after the other, whatever the number of packets *)

LEMMA CleanStarts ==
  ASSUME Init
  PROVE  routes \in Clean(asked) /\ astray = {}
BY DEF Init, Clean, TablesOf

\* Every stored pair is kept and nobody is astray.
RoutesClean == routes \in Clean(asked) /\ astray = {}

(***************************************************************************)
(* When each packet is handled after the other, it only ever goes to an    *)
(* endpoint that a SYN paired with its source, whatever slots              *)
(* insert_route_sky reused and remove_route_sky leaked or cleared, through *)
(* a pointer into the page it is clearing too.                             *)
(***************************************************************************)
THEOREM RoutesNeverCross == Spec => []NoCrossTalk
<1>1. Init => RoutesClean
  BY CleanStarts DEF RoutesClean
<1>2. RoutesClean /\ [Next]_vars => RoutesClean'
  <2>1. RoutesClean /\ Next => RoutesClean'
    BY AloneKeeps DEF RoutesClean
  <2>2. RoutesClean /\ UNCHANGED vars => RoutesClean'
    BY DEF RoutesClean, vars
  <2> QED
    BY <2>1, <2>2
<1>3. RoutesClean => NoCrossTalk
  BY DEF RoutesClean, NoCrossTalk
<1> QED
  BY <1>1, <1>2, <1>3, PTL DEF Spec

-----------------------------------------------------------------------------
(* Open routes are found, as long as the table is not too full: then each  *)
(* bucket has one page, which never runs out of slots.                     *)

\* The one page of a bucket; one that is still to be allocated is empty.
PageIn(table, b) == IF Len(table[b]) = 0 THEN ZeroPage ELSE table[b][1]

Spots == Buckets \X (1 .. PAIRS)
At(table, s) == PageIn(table, s[1]).pairs[s[2]]

\* No bucket has a second page, or needs one for fewer than PAIRS pairs.
Short(table, n) ==
  /\ table \in Tables
  /\ \A b \in Buckets : Len(table[b]) \in {0, 1} /\ PageIn(table, b).used <= n
  /\ \A s \in Spots : At(table, s).first.code # 0 => s[2] <= n

LEMMA PageInIs ==
  ASSUME NEW table \in Tables, NEW b \in Buckets
  PROVE  /\ table[b] \in Seq(Pages) /\ PageIn(table, b) \in Pages
         /\ \A i \in 1 .. PAIRS : <<b, i>> \in Spots
                                  /\ At(table, <<b, i>>) = PageIn(table, b).pairs[i]
<1>1. table[b] \in Seq(Pages) /\ Len(table[b]) \in Nat
  BY DEF Tables
<1>2. PageIn(table, b) \in Pages
  <2>1. CASE Len(table[b]) = 0
    BY <2>1, ZerosAreKept DEF PageIn
  <2>2. CASE Len(table[b]) # 0
    BY <1>1, <2>2 DEF PageIn
  <2> QED
    BY <2>1, <2>2
<1>3. \A i \in 1 .. PAIRS : <<b, i>> \in Spots /\ At(table, <<b, i>>) = PageIn(table, b).pairs[i]
  BY DEF Spots, At
<1> QED
  BY <1>1, <1>2, <1>3

LEMMA WrittenIs ==
  ASSUME NEW f \in [1 .. PAIRS -> Pairs], NEW m \in 1 .. PAIRS, NEW pair \in Pairs
  PROVE  /\ [f EXCEPT ![m] = pair] \in [1 .. PAIRS -> Pairs]
         /\ \A i \in 1 .. PAIRS : [f EXCEPT ![m] = pair][i] = IF i = m THEN pair ELSE f[i]
OBVIOUS

\* insert_route_sky on a chain of at most one page that has room.
LEMMA InsertShort ==
  ASSUME NEW n \in Nat, n < PAIRS, NEW pages \in Seq(Pages), Len(pages) \in {0, 1},
         NEW page \in Pages, page = IF Len(pages) = 0 THEN ZeroPage ELSE pages[1],
         page.used <= n, \A i \in 1 .. PAIRS : page.pairs[i].first.code # 0 => i <= n,
         NEW pair \in Pairs
  PROVE  \E m \in 1 .. n + 1 :
           /\ page.pairs[m].first.code = 0
           /\ InsertInto(pages, pair) =
                <<[used |-> page.used + 1, pairs |-> [page.pairs EXCEPT ![m] = pair]]>>
<1> DEFINE room == {k \in DOMAIN pages : pages[k].used < PAIRS}
           chain == IF room = {} THEN <<ZeroPage>> \o pages ELSE pages
           k == IF room = {} THEN 1 ELSE Min(room)
           free == {i \in 1 .. PAIRS : chain[k].pairs[i].first.code = 0}
           m == Min(free)
           written == [chain EXCEPT ![k] = [used |-> @.used + 1,
                                            pairs |-> [@.pairs EXCEPT ![m] = pair]]]
<1>1. InsertInto(pages, pair) = IF free = {} THEN chain ELSE written
  BY Zenon DEF InsertInto
<1>2. PAIRS \in Nat /\ Len(pages) \in Nat
  BY RoutesAssumption
<1>3. chain = <<page>> /\ k = 1
  <2>1. CASE Len(pages) = 0
    <3>1. pages = <<>>
      BY <2>1
    <3>2. room = {}
      BY <3>1
    <3>3. chain = <<ZeroPage>> \o <<>> /\ k = 1
      BY <3>1, <3>2
    <3>4. <<ZeroPage>> \o <<>> = <<ZeroPage>>
      OBVIOUS
    <3> QED
      BY <2>1, <3>3, <3>4
  <2>2. CASE Len(pages) # 0
    <3>0. Len(pages) = 1 /\ DOMAIN pages = {1}
      <4>1. Len(pages) = 1
        BY <1>2, <2>2
      <4>2. DOMAIN pages = 1 .. Len(pages)
        OBVIOUS
      <4> QED
        BY <4>1, <4>2
    <3>1. Len(pages) = 1 /\ pages[1] = page
      BY <2>2, <3>0
    <3>2. page.used < PAIRS
      BY <1>2 DEF Pages
    <3>3. room = {1}
      BY <3>0, <3>1, <3>2
    <3> HIDE DEF room
    <3>4. Min(room) \in room
      <4>1. room \in SUBSET Nat /\ room # {}
        BY <3>3
      <4> QED
        BY <4>1, HasLeast
    <3>5. chain = pages /\ k = 1
      BY <3>3, <3>4
    <3>6. pages = <<page>>
      BY <3>1
    <3> QED
      BY <3>5, <3>6
  <2> QED
    BY <2>1, <2>2
<1> HIDE DEF chain, k, room
<1>4. free = {i \in 1 .. PAIRS : page.pairs[i].first.code = 0}
  BY <1>3
<1>5. n + 1 \in free
  BY <1>2, <1>4
<1>6. free \in SUBSET Nat
  BY <1>2, <1>4
<1>7. m \in free /\ \A j \in free : m <= j
  BY <1>5, <1>6, HasLeast
<1> HIDE DEF m, free
<1>8. m \in 1 .. n + 1 /\ m \in 1 .. PAIRS /\ page.pairs[m].first.code = 0
  BY <1>2, <1>4, <1>5, <1>7
<1>9. written = <<[used |-> page.used + 1, pairs |-> [page.pairs EXCEPT ![m] = pair]]>>
  BY <1>3
<1>10. InsertInto(pages, pair) = written
  BY <1>1, <1>5
<1> QED
  BY <1>8, <1>9, <1>10

\* insert_route_sky on such a table: one slot changes, which looked free.
InsertsAt(t, u, b, m, pair) ==
  /\ <<b, m>> \in Spots /\ At(t, <<b, m>>).first.code = 0
  /\ \A s \in Spots : At(u, s) = IF s = <<b, m>> THEN pair ELSE At(t, s)
  /\ \A c \in Buckets : PageIn(u, c).used = PageIn(t, c).used + (IF c = b THEN 1 ELSE 0)

LEMMA InsertOneShort ==
  ASSUME NEW n \in Nat, n < PAIRS, NEW t, Short(t, n), NEW pair \in Pairs
  PROVE  /\ Short(InsertOne(t, pair), n + 1)
         /\ \E m \in 1 .. PAIRS : InsertsAt(t, InsertOne(t, pair), Bucket(pair.first), m, pair)
<1> DEFINE b == Bucket(pair.first)
           page == PageIn(t, b)
           u == InsertOne(t, pair)
<1>1. b \in Buckets /\ PAIRS \in Nat
  BY AddressFacts, RoutesAssumption DEF Pairs
<1>2. t \in Tables /\ t[b] \in Seq(Pages) /\ page \in Pages /\ Len(t[b]) \in {0, 1} /\ page.used <= n
  BY <1>1, PageInIs DEF Short
<1>3. \A i \in 1 .. PAIRS : page.pairs[i].first.code # 0 => i <= n
  <2> SUFFICES ASSUME NEW i \in 1 .. PAIRS, page.pairs[i].first.code # 0 PROVE i <= n
    OBVIOUS
  <2>1. <<b, i>> \in Spots /\ At(t, <<b, i>>) = page.pairs[i] /\ <<b, i>>[2] = i
    BY <1>1, <1>2, PageInIs
  <2> QED
    BY <2>1 DEF Short
<1>4. page = IF Len(t[b]) = 0 THEN ZeroPage ELSE t[b][1]
  BY DEF PageIn
<1> DEFINE new(m) == [used |-> page.used + 1, pairs |-> [page.pairs EXCEPT ![m] = pair]]
<1> HIDE DEF page, b
<1>5. PICK m \in 1 .. n + 1 : page.pairs[m].first.code = 0 /\ InsertInto(t[b], pair) = <<new(m)>>
  BY <1>2, <1>3, <1>4, InsertShort
<1>6. m \in 1 .. PAIRS
  BY <1>1, <1>5
<1>7. /\ new(m) \in Pages /\ new(m).used = page.used + 1
      /\ \A i \in 1 .. PAIRS : new(m).pairs[i] = IF i = m THEN pair ELSE page.pairs[i]
  <2>1. /\ page.used + 1 \in Nat /\ page.pairs \in [1 .. PAIRS -> Pairs]
        /\ [page.pairs EXCEPT ![m] = pair] \in [1 .. PAIRS -> Pairs]
        /\ \A i \in 1 .. PAIRS :
             [page.pairs EXCEPT ![m] = pair][i] = IF i = m THEN pair ELSE page.pairs[i]
    <3>1. page.used \in Nat /\ page.pairs \in [1 .. PAIRS -> Pairs]
      BY <1>2 DEF Pages
    <3> QED
      BY <1>6, <3>1, WrittenIs
  <2> QED
    BY <2>1 DEF Pages, new
<1> HIDE DEF new
<1>8. u = [t EXCEPT ![b] = <<new(m)>>]
  BY <1>5 DEF InsertOne, b
<1>9. /\ u \in Tables
      /\ \A c \in Buckets : u[c] = IF c = b THEN <<new(m)>> ELSE t[c]
  BY <1>1, <1>2, <1>7, <1>8 DEF Tables
<1> HIDE DEF u
<1>10. /\ PageIn(u, b) = new(m) /\ Len(u[b]) = 1
       /\ \A c \in Buckets \ {b} : PageIn(u, c) = PageIn(t, c) /\ u[c] = t[c]
  <2>1. u[b] = <<new(m)>> /\ Len(<<new(m)>>) = 1 /\ <<new(m)>>[1] = new(m)
    BY <1>1, <1>9
  <2> QED
    BY <1>9, <2>1 DEF PageIn
<1>11. ASSUME NEW s \in Spots PROVE At(u, s) = IF s = <<b, m>> THEN pair ELSE At(t, s)
  <2>1. s[1] \in Buckets /\ s[2] \in 1 .. PAIRS /\ s = <<s[1], s[2]>>
    BY DEF Spots
  <2>2. CASE s[1] = b
    BY <1>7, <1>10, <2>1, <2>2 DEF At, page
  <2>3. CASE s[1] # b
    BY <1>10, <2>1, <2>3 DEF At
  <2> QED
    BY <2>2, <2>3
<1>12. ASSUME NEW c \in Buckets
       PROVE  PageIn(u, c).used = PageIn(t, c).used + (IF c = b THEN 1 ELSE 0)
  <2>1. PageIn(t, c).used \in Nat
    BY <1>2, PageInIs DEF Pages
  <2> QED
    BY <1>7, <1>10, <2>1 DEF page
<1>13. <<b, m>> \in Spots /\ At(t, <<b, m>>).first.code = 0
  BY <1>1, <1>2, <1>5, <1>6, PageInIs DEF page
<1>14. Short(u, n + 1)
  <2>1. ASSUME NEW c \in Buckets PROVE Len(u[c]) \in {0, 1} /\ PageIn(u, c).used <= n + 1
    <3>1. PageIn(t, c).used <= n /\ Len(t[c]) \in {0, 1} /\ PageIn(t, c).used \in Nat
      BY <1>2, PageInIs DEF Short, Pages
    <3>2. PageIn(u, c).used = PageIn(t, c).used + (IF c = b THEN 1 ELSE 0)
      BY <1>12
    <3>3. Len(u[c]) \in {0, 1}
      BY <1>10, <3>1, c \in Buckets \ {b} \/ c = b
    <3> QED
      BY <3>1, <3>2, <3>3
  <2>2. ASSUME NEW s \in Spots, At(u, s).first.code # 0 PROVE s[2] <= n + 1
    <3>1. CASE s = <<b, m>>
      BY <1>5, <3>1
    <3>2. CASE s # <<b, m>>
      <4>1. s[2] <= n /\ s[2] \in Nat
        BY <1>1, <1>11, <2>2, <3>2 DEF Short, Spots
      <4> QED
        BY <4>1
    <3> QED
      BY <3>1, <3>2
  <2> QED
    BY <1>9, <2>1, <2>2 DEF Short
<1> QED
  BY <1>6, <1>11, <1>12, <1>13, <1>14 DEF InsertsAt, b, u

-----------------------------------------------------------------------------
(* remove_route_sky on such a table *)

LEMMA PagesAre == PageSet(Pages)
<1>1. ZeroPage \in Pages /\ ZeroPair \in Pairs
  BY ZerosAreKept
<1>2. ASSUME NEW page \in Pages, NEW i \in 1 .. PAIRS, page.used > 0
      PROVE  [used |-> page.used - 1, pairs |-> [page.pairs EXCEPT ![i] = ZeroPair]] \in Pages
  <2>1. page.used \in Nat /\ page.used - 1 \in Nat /\ page.pairs \in [1 .. PAIRS -> Pairs]
    BY <1>2 DEF Pages
  <2>2. [page.pairs EXCEPT ![i] = ZeroPair] \in [1 .. PAIRS -> Pairs]
    BY <1>1, <2>1, WrittenIs
  <2> QED
    BY <2>1, <2>2 DEF Pages
<1> QED
  BY <1>1, <1>2 DEF PageSet, Drops

\* What the sweep leaves of a page that is the only one.
HitsIn(page, wanted) == {j \in 1 .. PAIRS : Same(page.pairs[j].first, wanted)}

SweptPage(page, wanted) ==
  IF page.used = 0 \/ HitsIn(page, wanted) = {} THEN page
  ELSE [used |-> page.used - 1,
        pairs |-> [page.pairs EXCEPT ![Min(HitsIn(page, wanted))] = ZeroPair]]

LEMMA HitsAre ==
  ASSUME NEW page, NEW wanted, HitsIn(page, wanted) # {}
  PROVE  /\ Min(HitsIn(page, wanted)) \in HitsIn(page, wanted)
         /\ Min(HitsIn(page, wanted)) \in 1 .. PAIRS
         /\ \A j \in HitsIn(page, wanted) : Min(HitsIn(page, wanted)) <= j
<1>1. HitsIn(page, wanted) \subseteq 1 .. PAIRS
  BY DEF HitsIn
<1>2. HitsIn(page, wanted) \in SUBSET Nat
  BY <1>1, RoutesAssumption
<1> QED
  BY <1>1, <1>2, HasLeast

LEMMA SweptPageIs ==
  ASSUME NEW page \in Pages, NEW wanted
  PROVE  LET swept == SweptPage(page, wanted) IN
         /\ swept \in Pages
         /\ swept.used <= page.used /\ page.used - 1 <= swept.used
         /\ \A i \in 1 .. PAIRS : \/ swept.pairs[i] = page.pairs[i]
                                  \/ swept.pairs[i] = ZeroPair /\ Same(page.pairs[i].first, wanted)
<1> DEFINE m == Min(HitsIn(page, wanted))
           swept == SweptPage(page, wanted)
<1>1. page.used \in Nat /\ page.pairs \in [1 .. PAIRS -> Pairs]
  BY DEF Pages
<1>2. CASE page.used = 0 \/ HitsIn(page, wanted) = {}
  <2>1. swept = page
    BY <1>2 DEF SweptPage
  <2> QED
    BY <1>1, <2>1
<1>3. CASE ~(page.used = 0 \/ HitsIn(page, wanted) = {})
  <2>1. m \in 1 .. PAIRS /\ Same(page.pairs[m].first, wanted)
    BY <1>3, HitsAre DEF HitsIn
  <2>2. swept = [used |-> page.used - 1, pairs |-> [page.pairs EXCEPT ![m] = ZeroPair]]
    BY <1>3 DEF SweptPage
  <2> HIDE DEF m, swept
  <2>3. swept \in Pages
    BY <1>1, <1>3, <2>1, <2>2, PagesAre DEF PageSet, Drops
  <2>4. \A i \in 1 .. PAIRS : swept.pairs[i] = IF i = m THEN ZeroPair ELSE page.pairs[i]
    <3>1. \A i \in 1 .. PAIRS :
            [page.pairs EXCEPT ![m] = ZeroPair][i] = IF i = m THEN ZeroPair ELSE page.pairs[i]
      BY <1>1, <2>1, ZerosAreKept, WrittenIs
    <3> QED
      BY <2>2, <3>1
  <2>5. swept.used = page.used - 1
    BY <2>2
  <2> QED
    BY <1>1, <2>1, <2>3, <2>4, <2>5 DEF swept
<1> QED
  BY <1>2, <1>3

LEMMA SweepShort ==
  ASSUME NEW pages \in Seq(Pages), Len(pages) \in {0, 1}, NEW own, NEW wanted
  PROVE  LET after == Sweep(pages, own, wanted).pages IN
         /\ after \in Seq(Pages) /\ Len(after) = Len(pages)
         /\ Len(pages) = 1 => after[1] = SweptPage(pages[1], wanted)
<1> DEFINE after == Sweep(pages, own, wanted)
           base == [pages |-> <<>>, i |-> 1, wanted |-> wanted]
<1>1. after.pages \in Seq(Pages) /\ Len(after.pages) = Len(pages)
  BY PagesAre, SweepKeeps
<1>2. PICK h : IsSweep(h, pages, own, wanted) /\ after = h[Len(pages)]
  BY PagesAre, SweepUnfolds
<1> HIDE DEF after
<1>3. ASSUME Len(pages) = 1 PROVE after.pages[1] = SweptPage(pages[1], wanted)
  <2>1. h = [n \in 0 .. 1 |-> IF n = 0 THEN base ELSE SweepPage(own, h[n - 1], pages[n])]
    BY <1>2, <1>3 DEF IsSweep
  <2>2. h[0] = base /\ h[1] = SweepPage(own, h[0], pages[1])
    <3>1. 0 \in 0 .. 1 /\ 1 \in 0 .. 1 /\ 1 - 1 = 0 /\ 1 # 0
      OBVIOUS
    <3> HIDE DEF base
    <3> QED
      BY <2>1, <3>1
  <2> DEFINE page == pages[1]
             hits == {j \in base.i .. PAIRS : Same(page.pairs[j].first, base.wanted)}
             j == Min(hits)
             n == Len(base.pages) + 1
  <2>3. after = CASE page.used = 0 -> [base EXCEPT !.pages = Append(@, page)]
       [] page.used > 0 /\ hits = {} ->
            [base EXCEPT !.pages = Append(@, page), !.i = PAIRS + 1]
       [] page.used > 0 /\ hits # {} ->
            [pages |-> Append(base.pages, [used |-> page.used - 1,
                                pairs |-> [page.pairs EXCEPT ![j] = ZeroPair]]),
             i |-> j,
             wanted |-> IF own = <<n, j>> THEN ZeroData ELSE base.wanted]
    <3>1. after = SweepPage(own, base, pages[1])
      BY <1>2, <1>3, <2>2
    <3> HIDE DEF base
    <3> QED
      BY <3>1, Zenon DEF SweepPage
  <2>4. hits = HitsIn(page, wanted) /\ base.pages = <<>>
    BY DEF HitsIn
  <2>5. page \in Pages /\ page.used \in Nat
    <3>1. page \in Pages
      BY <1>3
    <3> QED
      BY <3>1 DEF Pages
  <2> DEFINE swept == [used |-> page.used - 1,
                       pairs |-> [page.pairs EXCEPT ![Min(HitsIn(page, wanted))] = ZeroPair]]
  <2>6. CASE page.used = 0
    <3>1. after = [base EXCEPT !.pages = Append(@, page)]
      BY <2>3, <2>6
    <3> HIDE DEF page
    <3>2. after.pages = Append(<<>>, page)
      BY <3>1
    <3> QED
      BY <2>6, <3>2 DEF SweptPage, page
  <2>7. CASE page.used > 0 /\ hits = {}
    <3>1. after = [base EXCEPT !.pages = Append(@, page), !.i = PAIRS + 1]
      BY <2>3, <2>5, <2>7
    <3> HIDE DEF page
    <3>2. after.pages = Append(<<>>, page)
      BY <3>1
    <3> QED
      BY <2>4, <2>7, <3>2 DEF SweptPage, page
  <2>8. CASE page.used > 0 /\ hits # {}
    <3>1. after.pages = Append(base.pages, [used |-> page.used - 1,
                                pairs |-> [page.pairs EXCEPT ![j] = ZeroPair]])
      <4> HIDE DEF hits, base, page
      <4> QED
        BY <2>3, <2>5, <2>8
    <3>2. after.pages = Append(<<>>, swept)
      BY <2>4, <3>1, Zenon
    <3>3. SweptPage(page, wanted) = swept
      BY <2>4, <2>5, <2>8 DEF SweptPage
    <3> HIDE DEF swept
    <3>4. after.pages[1] = swept
      BY <3>2
    <3> QED
      BY <3>3, <3>4
  <2> QED
    BY <2>5, <2>6, <2>7, <2>8
<1> QED
  BY <1>1, <1>3 DEF after

LEMMA SweptShort ==
  ASSUME NEW n \in Nat, NEW t, Short(t, n), NEW b \in Buckets, NEW own, NEW wanted
  PROVE  LET u == SweptIn(t, b, own, wanted) IN
         /\ Short(u, n)
         /\ \A c \in Buckets :
              /\ PageIn(u, c) = IF c = b THEN SweptPage(PageIn(t, b), wanted) ELSE PageIn(t, c)
              /\ Len(u[c]) = Len(t[c])
<1> DEFINE u == SweptIn(t, b, own, wanted)
           after == Sweep(t[b], own, wanted).pages
<1>1. t \in Tables /\ t[b] \in Seq(Pages) /\ Len(t[b]) \in {0, 1}
  BY PageInIs DEF Short
<1>2. /\ after \in Seq(Pages) /\ Len(after) = Len(t[b])
      /\ Len(t[b]) = 1 => after[1] = SweptPage(t[b][1], wanted)
  BY <1>1, SweepShort
<1> HIDE DEF after
<1>3. u \in Tables /\ \A c \in Buckets : u[c] = IF c = b THEN after ELSE t[c]
  BY <1>1, <1>2 DEF SweptIn, Tables, after
<1> HIDE DEF u
<1>4. ASSUME NEW c \in Buckets
      PROVE  PageIn(u, c) = IF c = b THEN SweptPage(PageIn(t, b), wanted) ELSE PageIn(t, c)
  <2>1. CASE c # b
    BY <1>3, <2>1 DEF PageIn
  <2>2. CASE c = b /\ Len(t[b]) = 1
    BY <1>2, <1>3, <2>2 DEF PageIn
  <2>3. CASE c = b /\ Len(t[b]) = 0
    <3>1. PageIn(u, c) = ZeroPage /\ PageIn(t, b) = ZeroPage
      BY <1>2, <1>3, <2>3 DEF PageIn
    <3>2. SweptPage(ZeroPage, wanted) = ZeroPage
      BY DEF SweptPage, ZeroPage
    <3> QED
      BY <2>3, <3>1, <3>2
  <2> QED
    BY <1>1, <2>1, <2>2, <2>3
<1>5. ASSUME NEW c \in Buckets
      PROVE  /\ Len(u[c]) \in {0, 1} /\ PageIn(u, c).used <= n
             /\ \A i \in 1 .. PAIRS : \/ PageIn(u, c).pairs[i] = PageIn(t, c).pairs[i]
                                      \/ PageIn(u, c).pairs[i] = ZeroPair
  <2>1. PageIn(t, c) \in Pages /\ PageIn(t, c).used \in Nat /\ PageIn(t, c).used <= n
    BY <1>1, PageInIs DEF Short, Pages
  <2>2. Len(u[c]) \in {0, 1}
    BY <1>1, <1>2, <1>3 DEF Short
  <2>3. CASE c # b
    BY <1>4, <2>1, <2>2, <2>3
  <2>4. CASE c = b
    <3> DEFINE swept == SweptPage(PageIn(t, b), wanted)
    <3>1. /\ swept \in Pages /\ swept.used <= PageIn(t, b).used
          /\ \A i \in 1 .. PAIRS : \/ swept.pairs[i] = PageIn(t, b).pairs[i]
                                   \/ swept.pairs[i] = ZeroPair
      BY <2>1, <2>4, SweptPageIs
    <3>2. swept.used \in Nat
      BY <3>1 DEF Pages
    <3> HIDE DEF swept
    <3>3. PageIn(u, c) = swept
      BY <1>4, <2>4 DEF swept
    <3> QED
      BY <2>1, <2>2, <2>4, <3>1, <3>2, <3>3
  <2> QED
    BY <2>3, <2>4
<1>6. ASSUME NEW s \in Spots, At(u, s).first.code # 0 PROVE s[2] <= n
  <2>1. s[1] \in Buckets /\ s[2] \in 1 .. PAIRS
    BY DEF Spots
  <2>2. At(u, s) = At(t, s) \/ At(u, s) = ZeroPair
    BY <1>5, <2>1 DEF At
  <2>3. ZeroPair.first.code = 0
    BY DEF ZeroPair, ZeroData
  <2> QED
    BY <1>6, <2>2, <2>3 DEF Short
<1>7. \A c \in Buckets : Len(u[c]) = Len(t[c])
  BY <1>2, <1>3
<1> QED
  BY <1>3, <1>4, <1>5, <1>6, <1>7 DEF Short, u

\* Slot m of bucket b is given up, and perhaps some that looked free.
RemovesAt(t, u, b, m, b2) ==
  /\ At(u, <<b, m>>).first.code = 0
  /\ \A s \in Spots \ {<<b, m>>} :
       At(u, s) = At(t, s) \/ (At(t, s).first.code = 0 /\ At(u, s).first.code = 0)
  /\ \A c \in Buckets :
       PageIn(t, c).used - (IF c = b THEN 1 ELSE 0) - (IF c = b2 THEN 1 ELSE 0)
         <= PageIn(u, c).used

LEMMA FoundShort ==
  ASSUME NEW n \in Nat, NEW t, Short(t, n), NEW data \in Addresses, Found(t, data)
  PROVE  LET b == Bucket(data)
             m == Place(t, data)[2]
             own == At(t, <<b, m>>)
         IN /\ b \in Buckets /\ m \in 1 .. PAIRS /\ <<b, m>> \in Spots
            /\ own \in Pairs /\ Same(own.first, data)
            /\ own = PairAt(t, b, Place(t, data)) /\ Place(t, data)[1] = 1
            /\ Len(t[b]) = 1
            /\ \A j \in HitsIn(PageIn(t, b), data) : m <= j
<1> DEFINE b == Bucket(data)
           place == Place(t, data)
           m == place[2]
           own == At(t, <<b, m>>)
<1>1. /\ b \in Buckets /\ place[1] \in 1 .. Len(t[b]) /\ m \in 1 .. PAIRS
      /\ PairAt(t, b, place) \in Pairs /\ Same(PairAt(t, b, place).first, data)
  BY FoundIs DEF Short
<1>2. \A q \in Matches(t, data) : Before(place, q)
  BY PlaceIs DEF Short
<1> HIDE DEF place, b
<1>3. Len(t[b]) = 1 /\ place[1] = 1
  <2>1. Len(t[b]) \in {0, 1}
    BY <1>1 DEF Short
  <2>2. place[1] \in 1 .. Len(t[b])
    BY <1>1
  <2>3. CASE Len(t[b]) = 0
    BY <2>2, <2>3
  <2>4. CASE Len(t[b]) = 1
    BY <2>2, <2>4
  <2> QED
    BY <2>1, <2>3, <2>4
<1>4. PageIn(t, b) = t[b][1] /\ DOMAIN t[b] = 1 .. 1 /\ t[b] \in Seq(Pages)
  <2>1. t[b] \in Seq(Pages)
    BY <1>1, PageInIs DEF Short
  <2>2. PageIn(t, b) = t[b][1]
    BY <1>3 DEF PageIn
  <2>3. DOMAIN t[b] = 1 .. Len(t[b])
    BY <2>1
  <2> QED
    BY <1>3, <2>1, <2>2, <2>3
<1>5. own = PairAt(t, b, place)
  BY <1>3, <1>4 DEF At, PairAt
<1>6. ASSUME NEW j \in HitsIn(PageIn(t, b), data) PROVE m <= j
  <2>1. j \in 1 .. PAIRS /\ Same(t[b][1].pairs[j].first, data) /\ 1 \in DOMAIN t[b]
    BY <1>4 DEF HitsIn
  <2>2. <<1, j>> \in Matches(t, data) /\ <<1, j>>[1] = 1 /\ <<1, j>>[2] = j
    BY <2>1 DEF Matches, b
  <2>3. Before(place, <<1, j>>)
    BY <1>2, <2>2
  <2> QED
    BY <1>3, <2>2, <2>3 DEF Before
<1>7. <<b, m>> \in Spots
  BY <1>1 DEF Spots
<1> QED
  BY <1>1, <1>3, <1>5, <1>6, <1>7 DEF place, b

LEMMA RemoveShort ==
  ASSUME NEW n \in Nat, NEW t, Short(t, n), NEW data \in Addresses, Found(t, data),
         NEW b, b = Bucket(data), NEW m, m = Place(t, data)[2],
         NEW own, own = At(t, <<b, m>>), Bucket(own.first) = b, PageIn(t, b).used > 0
  PROVE  /\ Short(RemoveRoute(t, data), n)
         /\ RemovesAt(t, RemoveRoute(t, data), b, m, Bucket(own.second))
<1> DEFINE place == Place(t, data)
           b2 == Bucket(own.second)
           cleared == SweptIn(t, b, place, own.first)
           wanted == PairAt(cleared, b, place).second
           own2 == IF b2 = b THEN place ELSE <<0, 0>>
           after == SweptIn(cleared, b2, own2, wanted)
           page == PageIn(t, b)
<1>1. /\ b \in Buckets /\ m \in 1 .. PAIRS /\ <<b, m>> \in Spots
      /\ own \in Pairs /\ Same(own.first, data)
      /\ own = PairAt(t, b, place) /\ place[1] = 1 /\ Len(t[b]) = 1
      /\ \A j \in HitsIn(page, data) : m <= j
  BY FoundShort
<1>2. RemoveRoute(t, data) = after
  BY <1>1, Zenon DEF RemoveRoute, SweptIn
<1>3. b2 \in Buckets /\ t \in Tables /\ page \in Pages /\ page.pairs[m] = own
  BY <1>1, AddressFacts, PageInIs DEF Pairs, Short
<1> HIDE DEF b2, place
<1>4. HitsIn(page, own.first) = HitsIn(page, data) /\ m \in HitsIn(page, data)
  BY <1>1, <1>3 DEF HitsIn, Same
<1>5. Min(HitsIn(page, own.first)) = m
  <2>1. /\ Min(HitsIn(page, own.first)) \in HitsIn(page, own.first)
        /\ Min(HitsIn(page, own.first)) \in 1 .. PAIRS
        /\ Min(HitsIn(page, own.first)) <= m
    BY <1>4, HitsAre
  <2> QED
    BY <1>1, <1>4, <2>1
<1>6. /\ Short(cleared, n)
      /\ \A c \in Buckets :
           /\ PageIn(cleared, c) = IF c = b THEN SweptPage(page, own.first) ELSE PageIn(t, c)
           /\ Len(cleared[c]) = Len(t[c])
  BY <1>1, SweptShort
<1> HIDE DEF cleared
<1>7. SweptPage(page, own.first) =
        [used |-> page.used - 1, pairs |-> [page.pairs EXCEPT ![m] = ZeroPair]]
  BY <1>3, <1>4, <1>5 DEF SweptPage, Pages
<1> DEFINE once == PageIn(cleared, b)
<1>8. /\ once.used = page.used - 1
      /\ \A i \in 1 .. PAIRS : once.pairs[i] = IF i = m THEN ZeroPair ELSE page.pairs[i]
  <2>1. page.pairs \in [1 .. PAIRS -> Pairs]
    BY <1>3 DEF Pages
  <2>2. \A i \in 1 .. PAIRS :
          [page.pairs EXCEPT ![m] = ZeroPair][i] = IF i = m THEN ZeroPair ELSE page.pairs[i]
    BY <1>1, <2>1, ZerosAreKept, WrittenIs
  <2>3. once = [used |-> page.used - 1, pairs |-> [page.pairs EXCEPT ![m] = ZeroPair]]
    BY <1>1, <1>6, <1>7
  <2> HIDE DEF once, page
  <2> QED
    BY <2>2, <2>3
<1>9. wanted = ZeroData
  <2>1. PairAt(cleared, b, place) = once.pairs[m]
    <3>1. Len(cleared[b]) = 1
      BY <1>1, <1>6
    <3> QED
      BY <1>1, <3>1 DEF PairAt, PageIn, place
  <2> QED
    BY <1>1, <1>8, <2>1 DEF ZeroPair
<1> HIDE DEF wanted, own2
<1>10. /\ Short(after, n)
       /\ \A c \in Buckets :
            PageIn(after, c) =
              IF c = b2 THEN SweptPage(PageIn(cleared, b2), ZeroData) ELSE PageIn(cleared, c)
  BY <1>3, <1>6, <1>9, SweptShort
<1> HIDE DEF after, once
\* What the first pass changes, and what the second.
<1>11. ASSUME NEW c \in Buckets
       PROVE  /\ PageIn(t, c).used - (IF c = b THEN 1 ELSE 0) = PageIn(cleared, c).used
              /\ \A i \in 1 .. PAIRS :
                   PageIn(cleared, c).pairs[i] =
                     IF c = b /\ i = m THEN ZeroPair ELSE PageIn(t, c).pairs[i]
  <2>1. PageIn(t, c).used \in Nat
    BY <1>3, PageInIs DEF Pages
  <2>2. CASE c = b
    BY <1>8, <2>2 DEF once, page
  <2>3. CASE c # b
    BY <1>6, <2>1, <2>3
  <2> QED
    BY <2>2, <2>3
<1>12. ASSUME NEW c \in Buckets
       PROVE  /\ PageIn(cleared, c).used - (IF c = b2 THEN 1 ELSE 0) <= PageIn(after, c).used
              /\ PageIn(cleared, c).used \in Nat /\ PageIn(after, c).used \in Nat
              /\ \A i \in 1 .. PAIRS :
                   \/ PageIn(after, c).pairs[i] = PageIn(cleared, c).pairs[i]
                   \/ /\ PageIn(after, c).pairs[i] = ZeroPair
                      /\ PageIn(cleared, c).pairs[i].first.code = 0
  <2>1. PageIn(cleared, c) \in Pages /\ PageIn(after, c) \in Pages
    BY <1>6, <1>10, PageInIs DEF Short
  <2>2. PageIn(cleared, c).used \in Nat /\ PageIn(after, c).used \in Nat
    BY <2>1 DEF Pages
  <2>3. CASE c # b2
    BY <1>10, <2>2, <2>3
  <2>4. CASE c = b2
    <3> DEFINE swept == SweptPage(PageIn(cleared, b2), ZeroData)
    <3>1. /\ PageIn(cleared, b2).used - 1 <= swept.used
          /\ \A i \in 1 .. PAIRS : \/ swept.pairs[i] = PageIn(cleared, b2).pairs[i]
                                   \/ swept.pairs[i] = ZeroPair
                                      /\ Same(PageIn(cleared, b2).pairs[i].first, ZeroData)
      BY <2>1, <2>4, SweptPageIs
    <3> HIDE DEF swept
    <3>2. PageIn(after, c) = swept
      BY <1>10, <2>4 DEF swept
    <3>3. \A x : Same(x, ZeroData) => x.code = 0
      BY DEF Same, ZeroData
    <3> QED
      BY <2>2, <2>4, <3>1, <3>2, <3>3
  <2> QED
    BY <2>3, <2>4
<1>13. ZeroPair.first.code = 0
  BY DEF ZeroPair, ZeroData
<1>14. ASSUME NEW s \in Spots
       PROVE  IF s = <<b, m>> THEN At(after, s).first.code = 0
              ELSE \/ At(after, s) = At(t, s)
                   \/ At(t, s).first.code = 0 /\ At(after, s).first.code = 0
  <2>1. s[1] \in Buckets /\ s[2] \in 1 .. PAIRS /\ s = <<s[1], s[2]>>
    BY DEF Spots
  <2>2. /\ At(cleared, s) = IF s = <<b, m>> THEN ZeroPair ELSE At(t, s)
        /\ \/ At(after, s) = At(cleared, s)
           \/ At(after, s) = ZeroPair /\ At(cleared, s).first.code = 0
    BY <1>11, <1>12, <2>1 DEF At
  <2> QED
    BY <1>13, <2>2
<1>15. ASSUME NEW c \in Buckets
       PROVE  PageIn(t, c).used - (IF c = b THEN 1 ELSE 0) - (IF c = b2 THEN 1 ELSE 0)
                <= PageIn(after, c).used
  BY <1>11, <1>12
<1> QED
  BY <1>1, <1>2, <1>10, <1>14, <1>15 DEF RemovesAt, b2

-----------------------------------------------------------------------------
(* The entries of clients in such a table *)

\* The slots that a SYN filled first and no FIN has cleared.
Entries(table) ==
  {s \in Spots : At(table, s).first.code # 0 /\ At(table, s).first.ep \in Clients}

EntriesAt(table, b) == {s \in Entries(table) : s[1] = b}
EntriesTo(table, b) == {s \in Entries(table) : Bucket(At(table, s).second) = b}
EntriesOf(table, c, b, e) ==
  {s \in EntriesAt(table, b) : At(table, s).first.ep = c /\ At(table, s).second.ep = e}

\* A client's entry is found from where it is.
Homed(table) ==
  \A s \in Entries(table) : /\ Bucket(At(table, s).first) = s[1]
                            /\ At(table, s).first.code = 253
                            /\ At(table, s).second \in Claimed

\* A page never stops counting while it has an entry: the swapped one is
\* counted as long as a client's entry is there to lead to it.
Enough(table) ==
  \A b \in Buckets :
    Cardinality(EntriesAt(table, b)) + Cardinality(EntriesTo(table, b))
      <= PageIn(table, b).used

LEMMA EntriesFinite ==
  ASSUME NEW table, NEW b, NEW c, NEW e
  PROVE  /\ IsFiniteSet(Entries(table)) /\ IsFiniteSet(EntriesAt(table, b))
         /\ IsFiniteSet(EntriesTo(table, b)) /\ IsFiniteSet(EntriesOf(table, c, b, e))
<1>1. IsFiniteSet(1 .. PAIRS)
  BY FS_Interval, RoutesAssumption
<1>2. IsFiniteSet(Spots)
  BY <1>1, FS_Product, RoutesAssumption DEF Spots
<1>3. /\ Entries(table) \in SUBSET Spots /\ EntriesAt(table, b) \in SUBSET Spots
      /\ EntriesTo(table, b) \in SUBSET Spots /\ EntriesOf(table, c, b, e) \in SUBSET Spots
  BY DEF Entries, EntriesAt, EntriesTo, EntriesOf
<1> QED
  BY <1>2, <1>3, FS_Subset

\* One entry more.
LEMMA EntriesGrow ==
  ASSUME NEW t, NEW u, NEW x \in Spots, x \notin Entries(t),
         At(u, x).first.code # 0, At(u, x).first.ep \in Clients,
         \A s \in Spots \ {x} : \/ At(u, s) = At(t, s)
                                \/ s \notin Entries(t) /\ s \notin Entries(u)
  PROVE  /\ Entries(u) = Entries(t) \cup {x}
         /\ \A s \in Entries(t) : At(u, s) = At(t, s)
         /\ \A b : EntriesAt(u, b) = IF x[1] = b THEN EntriesAt(t, b) \cup {x} ELSE EntriesAt(t, b)
         /\ \A b : EntriesTo(u, b) = IF Bucket(At(u, x).second) = b
                                     THEN EntriesTo(t, b) \cup {x} ELSE EntriesTo(t, b)
         /\ \A c, b, e : EntriesOf(u, c, b, e) =
                           IF /\ x[1] = b /\ At(u, x).first.ep = c
                              /\ At(u, x).second.ep = e
                           THEN EntriesOf(t, c, b, e) \cup {x} ELSE EntriesOf(t, c, b, e)
<1>1. ASSUME NEW s \in Spots PROVE s \in Entries(u) <=> s \in Entries(t) \/ s = x
  <2>1. CASE s = x
    BY <2>1 DEF Entries
  <2>2. CASE s # x /\ At(u, s) = At(t, s)
    BY <2>2 DEF Entries
  <2>3. CASE s # x /\ s \notin Entries(t) /\ s \notin Entries(u)
    BY <2>3
  <2> QED
    BY <2>1, <2>2, <2>3
<1>2. Entries(t) \subseteq Spots /\ Entries(u) \subseteq Spots
  BY DEF Entries
<1>3. Entries(u) = Entries(t) \cup {x}
  BY <1>1, <1>2
<1>4. \A s \in Entries(t) : At(u, s) = At(t, s)
  BY <1>2
<1>5. \A b : EntriesAt(u, b) = IF x[1] = b THEN EntriesAt(t, b) \cup {x} ELSE EntriesAt(t, b)
  BY <1>3 DEF EntriesAt
<1>6. \A b : EntriesTo(u, b) = IF Bucket(At(u, x).second) = b
                               THEN EntriesTo(t, b) \cup {x} ELSE EntriesTo(t, b)
  BY <1>3, <1>4 DEF EntriesTo
<1>7. ASSUME NEW c, NEW b, NEW e
      PROVE  EntriesOf(u, c, b, e) =
               IF x[1] = b /\ At(u, x).first.ep = c /\ At(u, x).second.ep = e
               THEN EntriesOf(t, c, b, e) \cup {x} ELSE EntriesOf(t, c, b, e)
  <2>1. \A s : s \in EntriesOf(u, c, b, e) <=>
                 /\ s \in Entries(t) \/ s = x
                 /\ s[1] = b /\ At(u, s).first.ep = c /\ At(u, s).second.ep = e
    BY <1>3 DEF EntriesOf, EntriesAt
  <2>2. \A s : s \in EntriesOf(t, c, b, e) <=>
                 /\ s \in Entries(t)
                 /\ s[1] = b /\ At(t, s).first.ep = c /\ At(t, s).second.ep = e
    BY DEF EntriesOf, EntriesAt
  <2> QED
    BY <1>4, <2>1, <2>2
<1> QED
  BY <1>3, <1>4, <1>5, <1>6, <1>7

\* What that does to the numbers.
LEMMA CountsGrow ==
  ASSUME NEW t, NEW u, NEW x \in Spots, x \notin Entries(t),
         At(u, x).first.code # 0, At(u, x).first.ep \in Clients,
         \A s \in Spots \ {x} : \/ At(u, s) = At(t, s)
                                \/ s \notin Entries(t) /\ s \notin Entries(u)
  PROVE  /\ \A b : /\ Cardinality(EntriesAt(t, b)) \in Nat /\ Cardinality(EntriesTo(t, b)) \in Nat
                   /\ Cardinality(EntriesAt(u, b)) =
                        Cardinality(EntriesAt(t, b)) + (IF x[1] = b THEN 1 ELSE 0)
                   /\ Cardinality(EntriesTo(u, b)) =
                        Cardinality(EntriesTo(t, b))
                          + (IF Bucket(At(u, x).second) = b THEN 1 ELSE 0)
         /\ \A c, b, e :
              /\ Cardinality(EntriesOf(t, c, b, e)) \in Nat
              /\ Cardinality(EntriesOf(u, c, b, e)) =
                   Cardinality(EntriesOf(t, c, b, e))
                     + (IF /\ x[1] = b /\ At(u, x).first.ep = c
                           /\ At(u, x).second.ep = e THEN 1 ELSE 0)
<1>1. ASSUME NEW S, NEW T, NEW P \in BOOLEAN, IsFiniteSet(S), x \notin S,
             T = IF P THEN S \cup {x} ELSE S
      PROVE  Cardinality(S) \in Nat /\ Cardinality(T) = Cardinality(S) + (IF P THEN 1 ELSE 0)
  <2>1. Cardinality(S) \in Nat
    BY <1>1, FS_CardinalityType
  <2>2. CASE P
    BY <1>1, <2>1, <2>2, FS_AddElement
  <2>3. CASE ~P
    BY <1>1, <2>1, <2>3
  <2> QED
    BY <2>1, <2>2, <2>3
<1>2. /\ \A b : EntriesAt(u, b) = IF x[1] = b THEN EntriesAt(t, b) \cup {x} ELSE EntriesAt(t, b)
      /\ \A b : EntriesTo(u, b) = IF Bucket(At(u, x).second) = b
                                  THEN EntriesTo(t, b) \cup {x} ELSE EntriesTo(t, b)
      /\ \A c, b, e : EntriesOf(u, c, b, e) =
                        IF /\ x[1] = b /\ At(u, x).first.ep = c
                           /\ At(u, x).second.ep = e
                        THEN EntriesOf(t, c, b, e) \cup {x} ELSE EntriesOf(t, c, b, e)
  BY EntriesGrow
<1>3. \A c, b, e : /\ x \notin EntriesAt(t, b) /\ x \notin EntriesTo(t, b)
                   /\ x \notin EntriesOf(t, c, b, e)
  BY DEF EntriesAt, EntriesTo, EntriesOf
<1>4. ASSUME NEW b
      PROVE  /\ Cardinality(EntriesAt(t, b)) \in Nat
             /\ Cardinality(EntriesAt(u, b)) =
                  Cardinality(EntriesAt(t, b)) + (IF x[1] = b THEN 1 ELSE 0)
  <2>1. IsFiniteSet(EntriesAt(t, b)) /\ (x[1] = b) \in BOOLEAN
    BY EntriesFinite
  <2> QED
    BY <1>1, <1>2, <1>3, <2>1
<1>5. ASSUME NEW b
      PROVE  /\ Cardinality(EntriesTo(t, b)) \in Nat
             /\ Cardinality(EntriesTo(u, b)) =
                  Cardinality(EntriesTo(t, b))
                    + (IF Bucket(At(u, x).second) = b THEN 1 ELSE 0)
  <2>1. IsFiniteSet(EntriesTo(t, b)) /\ (Bucket(At(u, x).second) = b) \in BOOLEAN
    BY EntriesFinite
  <2> QED
    BY <1>1, <1>2, <1>3, <2>1
<1>6. ASSUME NEW c, NEW b, NEW e
      PROVE  /\ Cardinality(EntriesOf(t, c, b, e)) \in Nat
             /\ Cardinality(EntriesOf(u, c, b, e)) =
                  Cardinality(EntriesOf(t, c, b, e))
                    + (IF /\ x[1] = b /\ At(u, x).first.ep = c
                          /\ At(u, x).second.ep = e THEN 1 ELSE 0)
  <2> DEFINE P == x[1] = b /\ At(u, x).first.ep = c /\ At(u, x).second.ep = e
  <2>1. IsFiniteSet(EntriesOf(t, c, b, e)) /\ P \in BOOLEAN
    BY EntriesFinite
  <2>2. EntriesOf(u, c, b, e) =
          IF P THEN EntriesOf(t, c, b, e) \cup {x} ELSE EntriesOf(t, c, b, e)
    BY <1>2
  <2> HIDE DEF P
  <2>3. /\ Cardinality(EntriesOf(t, c, b, e)) \in Nat
        /\ Cardinality(EntriesOf(u, c, b, e)) =
             Cardinality(EntriesOf(t, c, b, e)) + (IF P THEN 1 ELSE 0)
    BY <1>1, <1>3, <2>1, <2>2
  <2> QED
    BY <2>3 DEF P
<1> QED
  BY <1>4, <1>5, <1>6

-----------------------------------------------------------------------------
(* The invariant of a table that is not too full *)

Roomy == 2 * syns <= PAIRS /\ asked \cap (Clients \X Clients) = {}

\* The entries of a client in a bucket are those of its open connections.
Tallied ==
  \A c \in Clients, b \in Buckets, e \in Destinations :
    Cardinality(EntriesOf(routes, c, b, e)) = open[c][b][e]

OpenTyped == syns \in Nat /\ open \in [Clients -> [Buckets -> [Destinations -> Nat]]]

Findable ==
  Roomy => Short(routes, 2 * syns) /\ Homed(routes) /\ Enough(routes) /\ Tallied

LEMMA ClientsAddress ==
  ASSUME NEW c \in Clients, NEW tail \in Tails
  PROVE  /\ V4(c, tail) \in Addresses /\ V4(c, tail).code = 253 /\ V4(c, tail).ep = c
         /\ Bucket(V4(c, tail)) \in Buckets
BY AddressFacts DEF V4

LEMMA SynFinds ==
  ASSUME OpenTyped, Findable, NEW c \in Clients, NEW tail \in Tails, NEW data \in Claimed,
         Syn(c, data, tail)
  PROVE  OpenTyped' /\ Findable'
<1> DEFINE pair == [first |-> V4(c, tail), second |-> data]
           swapped == Swap(pair)
           b == Bucket(V4(c, tail))
           n == 2 * syns
           u == InsertOne(routes, pair)
<1>1. /\ routes' = InsertRoute(routes, pair) /\ asked' = asked \cup {<<c, data.ep>>}
      /\ open' = [open EXCEPT ![c][b][data.ep] = @ + 1] /\ syns' = syns + 1
  BY DEF Syn
<1>2. /\ V4(c, tail) \in Addresses /\ V4(c, tail).code = 253 /\ V4(c, tail).ep = c
      /\ b \in Buckets /\ data \in Addresses /\ data.ep \in Destinations
  BY ClientsAddress, AddressFacts DEF Destinations
<1>3. /\ OpenTyped'
      /\ \A x \in Clients, y \in Buckets, e \in Destinations :
           open'[x][y][e] = open[x][y][e] + (IF x = c /\ y = b /\ e = data.ep THEN 1 ELSE 0)
  <2>1. syns' \in Nat
    BY <1>1 DEF OpenTyped
  <2> HIDE DEF b
  <2>2. /\ open' \in [Clients -> [Buckets -> [Destinations -> Nat]]]
        /\ \A x \in Clients, y \in Buckets, e \in Destinations :
             open'[x][y][e] = IF x = c /\ y = b /\ e = data.ep
                              THEN open[x][y][e] + 1 ELSE open[x][y][e]
    BY <1>1, <1>2 DEF OpenTyped
  <2>3. \A x \in Clients, y \in Buckets, e \in Destinations : open[x][y][e] \in Nat
    BY DEF OpenTyped
  <2> QED
    BY <2>1, <2>2, <2>3 DEF OpenTyped
<1> SUFFICES ASSUME Roomy' PROVE Findable'
  BY <1>3 DEF Findable
<1>4. /\ Roomy /\ n \in Nat /\ n + 1 \in Nat /\ n < PAIRS /\ n + 1 < PAIRS
      /\ n + 2 = 2 * syns' /\ data.ep \notin Clients
  <2>1. n \in Nat /\ n + 2 = 2 * syns' /\ PAIRS \in Nat
    BY <1>1, RoutesAssumption DEF OpenTyped
  <2>2. n + 2 <= PAIRS
    BY <2>1 DEF Roomy
  <2>3. /\ asked' = asked \cup {<<c, data.ep>>}
        /\ asked' \cap (Clients \X Clients) = {}
    BY <1>1 DEF Roomy
  <2>4. data.ep \notin Clients /\ asked \cap (Clients \X Clients) = {}
    <3>1. ASSUME data.ep \in Clients PROVE FALSE
      <4>1. <<c, data.ep>> \in Clients \X Clients
        BY <3>1
      <4> QED
        BY <4>1, <2>3, Zenon
    <3> QED
      BY <3>1, <2>3, Zenon
  <2> QED
    BY <2>1, <2>2, <2>4 DEF Roomy
<1>5. Short(routes, n) /\ Homed(routes) /\ Enough(routes) /\ Tallied
  BY <1>4 DEF Findable
<1>6. /\ pair \in Pairs /\ pair.first = V4(c, tail) /\ pair.second = data
      /\ swapped \in Pairs /\ swapped.first = data
  BY <1>2 DEF Pairs, Swap
<1>7. routes' = InsertOne(u, swapped)
  BY <1>1 DEF InsertRoute
<1> HIDE DEF pair, swapped, n
<1>8. /\ Short(u, n + 1)
      /\ \E m \in 1 .. PAIRS : InsertsAt(routes, u, b, m, pair)
  BY <1>4, <1>5, <1>6, InsertOneShort
<1>9. PICK m \in 1 .. PAIRS : InsertsAt(routes, u, b, m, pair)
  BY <1>8
<1> HIDE DEF u, b
<1>10. /\ Short(routes', (n + 1) + 1)
       /\ \E k \in 1 .. PAIRS : InsertsAt(u, routes', Bucket(data), k, swapped)
  BY <1>4, <1>6, <1>7, <1>8, InsertOneShort
<1>11. PICK k \in 1 .. PAIRS : InsertsAt(u, routes', Bucket(data), k, swapped)
  BY <1>10
<1>12. Short(routes', 2 * syns')
  <2>1. (n + 1) + 1 = 2 * syns'
    BY <1>4
  <2> QED
    BY <1>10, <2>1
<1> DEFINE x == <<b, m>>
           y == <<Bucket(data), k>>
<1>13. /\ x \in Spots /\ At(routes, x).first.code = 0 /\ At(u, x) = pair
       /\ y \in Spots /\ At(u, y).first.code = 0 /\ At(routes', y) = swapped
       /\ \A s \in Spots \ {x} : At(u, s) = At(routes, s)
       /\ \A s \in Spots \ {y} : At(routes', s) = At(u, s)
  BY <1>9, <1>11 DEF InsertsAt
<1>14. x[1] = b
  OBVIOUS
<1> HIDE DEF x, y
<1>15. x # y /\ At(routes', x) = pair
  BY <1>2, <1>6, <1>13
<1>16. /\ x \notin Entries(routes)
       /\ \A s \in Spots \ {x} : \/ At(routes', s) = At(routes, s)
                                 \/ s \notin Entries(routes) /\ s \notin Entries(routes')
  <2>1. x \notin Entries(routes)
    BY <1>13 DEF Entries
  <2>2. At(routes, y).first.code = 0 /\ At(routes', y).first.ep \notin Clients
    BY <1>4, <1>6, <1>13, <1>15
  <2>3. y \notin Entries(routes) /\ y \notin Entries(routes')
    BY <2>2 DEF Entries
  <2> QED
    BY <1>13, <2>1, <2>3
<1>17. At(routes', x).first.code # 0 /\ At(routes', x).first.ep \in Clients
  BY <1>2, <1>6, <1>15
<1>18. Homed(routes')
  <2> SUFFICES ASSUME NEW s \in Entries(routes')
               PROVE  /\ Bucket(At(routes', s).first) = s[1]
                      /\ At(routes', s).first.code = 253
                      /\ At(routes', s).second \in Claimed
    BY DEF Homed
  <2>1. CASE s = x
    BY <1>2, <1>6, <1>14, <1>15, <2>1 DEF b
  <2>2. CASE s # x
    <3>1. At(routes', s) = At(routes, s) /\ s \in Entries(routes)
      BY <1>16, <2>2 DEF Entries
    <3> QED
      BY <1>5, <3>1 DEF Homed
  <2> QED
    BY <2>1, <2>2
<1>19. /\ \A z : /\ Cardinality(EntriesAt(routes, z)) \in Nat
                 /\ Cardinality(EntriesTo(routes, z)) \in Nat
                 /\ Cardinality(EntriesAt(routes', z)) =
                      Cardinality(EntriesAt(routes, z)) + (IF x[1] = z THEN 1 ELSE 0)
                 /\ Cardinality(EntriesTo(routes', z)) =
                      Cardinality(EntriesTo(routes, z))
                        + (IF Bucket(At(routes', x).second) = z THEN 1 ELSE 0)
       /\ \A d, z, e :
            /\ Cardinality(EntriesOf(routes, d, z, e)) \in Nat
            /\ Cardinality(EntriesOf(routes', d, z, e)) =
                 Cardinality(EntriesOf(routes, d, z, e))
                   + (IF /\ x[1] = z /\ At(routes', x).first.ep = d
                         /\ At(routes', x).second.ep = e THEN 1 ELSE 0)
  BY <1>13, <1>16, <1>17, CountsGrow
<1>20. Enough(routes')
  <2> SUFFICES ASSUME NEW z \in Buckets
               PROVE  Cardinality(EntriesAt(routes', z)) + Cardinality(EntriesTo(routes', z))
                        <= PageIn(routes', z).used
    BY DEF Enough
  <2> DEFINE here == IF b = z THEN 1 ELSE 0
             there == IF Bucket(data) = z THEN 1 ELSE 0
             old == PageIn(routes, z).used
             new == PageIn(routes', z).used
  <2>1. /\ Cardinality(EntriesAt(routes, z)) \in Nat /\ Cardinality(EntriesTo(routes, z)) \in Nat
        /\ Cardinality(EntriesAt(routes', z)) = Cardinality(EntriesAt(routes, z)) + here
        /\ Cardinality(EntriesTo(routes', z)) = Cardinality(EntriesTo(routes, z)) + there
    BY <1>6, <1>14, <1>15, <1>19
  <2>2. /\ old \in Nat
        /\ Cardinality(EntriesAt(routes, z)) + Cardinality(EntriesTo(routes, z)) <= old
    <3>1. PageIn(routes, z) \in Pages
      BY <1>5, PageInIs DEF Short
    <3> QED
      BY <1>5, <3>1 DEF Enough, Pages
  <2>3. new = (old + here) + there
    <3>1. PageIn(u, z).used = old + here
      BY <1>9 DEF InsertsAt
    <3>2. new = PageIn(u, z).used + there
      BY <1>11 DEF InsertsAt
    <3> QED
      BY <3>1, <3>2
  <2>4. here \in Nat /\ there \in Nat
    OBVIOUS
  <2> HIDE DEF here, there, old, new
  <2>5. Cardinality(EntriesAt(routes', z)) + Cardinality(EntriesTo(routes', z)) <= new
    BY <2>1, <2>2, <2>3, <2>4
  <2> QED
    BY <2>5 DEF new
<1>21. Tallied'
  <2> SUFFICES ASSUME NEW d \in Clients, NEW z \in Buckets, NEW e \in Destinations
               PROVE  Cardinality(EntriesOf(routes', d, z, e)) = open'[d][z][e]
    BY DEF Tallied
  <2>1. Cardinality(EntriesOf(routes', d, z, e)) =
          Cardinality(EntriesOf(routes, d, z, e))
            + (IF b = z /\ c = d /\ data.ep = e THEN 1 ELSE 0)
    BY <1>2, <1>6, <1>14, <1>15, <1>19
  <2>2. Cardinality(EntriesOf(routes, d, z, e)) = open[d][z][e]
    BY <1>5 DEF Tallied
  <2>3. (b = z /\ c = d /\ data.ep = e) <=> (d = c /\ z = b /\ e = data.ep)
    OBVIOUS
  <2> QED
    BY <1>3, <2>1, <2>2, <2>3
<1> QED
  BY <1>12, <1>18, <1>20, <1>21 DEF Findable

\* What is found is the entry of a client.
LEMMA FoundEntry ==
  ASSUME NEW n \in Nat, Short(routes, n), Homed(routes),
         NEW c \in Clients, NEW tail \in Tails, Found(routes, V4(c, tail))
  PROVE  LET b == Bucket(V4(c, tail))
             x == <<b, Place(routes, V4(c, tail))[2]>>
             own == At(routes, x)
         IN /\ x \in Spots /\ b \in Buckets
            /\ own.first.code = 253 /\ own.first.ep = c /\ own.second.ep \in Destinations
            /\ own.second.ep = Destination(V4(c, tail)) /\ Bucket(own.first) = b
            /\ x \in Entries(routes) /\ x \in EntriesAt(routes, b)
            /\ x \in EntriesOf(routes, c, b, own.second.ep)
<1> DEFINE b == Bucket(V4(c, tail))
           place == Place(routes, V4(c, tail))
           x == <<b, place[2]>>
           own == At(routes, x)
<1>1. /\ V4(c, tail) \in Addresses /\ V4(c, tail).code = 253 /\ V4(c, tail).ep = c
  BY ClientsAddress
<1>2. /\ b \in Buckets /\ x \in Spots
      /\ own \in Pairs /\ Same(own.first, V4(c, tail))
      /\ own = PairAt(routes, b, place)
  BY <1>1, FoundShort
<1>3. x[1] = b
  OBVIOUS
<1>4. own.second.ep = Destination(V4(c, tail))
  BY <1>2 DEF Destination
<1> HIDE DEF x, b
<1>5. own.first.code = 253 /\ own.first.ep = c
  BY <1>1, <1>2 DEF Same
<1>6. x \in Entries(routes)
  BY <1>2, <1>5 DEF Entries
<1>7. Bucket(own.first) = b /\ own.second \in Claimed
  BY <1>3, <1>6 DEF Homed
<1>8. own.second.ep \in Destinations
  BY <1>7 DEF Destinations
<1>9. x \in EntriesAt(routes, b) /\ x \in EntriesOf(routes, c, b, own.second.ep)
  BY <1>3, <1>5, <1>6 DEF EntriesAt, EntriesOf
<1> QED
  BY <1>2, <1>4, <1>5, <1>6, <1>7, <1>8, <1>9 DEF x, b

LEMMA NotEmpty ==
  ASSUME NEW S, IsFiniteSet(S), NEW x \in S
  PROVE  Cardinality(S) \in Nat /\ Cardinality(S) >= 1
<1>1. Cardinality(S) \in Nat /\ Cardinality(S) # 0
  BY FS_CardinalityType, FS_EmptySet
<1> QED
  BY <1>1

LEMMA FinFinds ==
  ASSUME OpenTyped, Findable, NEW c \in Clients, NEW tail \in Tails, Fin(c, tail)
  PROVE  OpenTyped' /\ Findable'
<1> DEFINE data == V4(c, tail)
           b == Bucket(data)
           e == Destination(data)
           m == Place(routes, data)[2]
           x == <<b, m>>
           own == At(routes, x)
           b2 == Bucket(own.second)
           n == 2 * syns
<1>1. /\ Found(routes, data) /\ asked' = asked /\ syns' = syns
      /\ routes' = RemoveRoute(routes, data)
      /\ open' = IF e \in Destinations
                 THEN [open EXCEPT ![c][b][e] = IF @ = 0 THEN 0 ELSE @ - 1] ELSE open
  BY DEF Fin
<1>2. data \in Addresses /\ b \in Buckets
  BY ClientsAddress
<1> HIDE DEF e, b
<1>3. /\ OpenTyped'
      /\ e \in Destinations =>
           \A d \in Clients, z \in Buckets, f \in Destinations :
             open'[d][z][f] = IF d = c /\ z = b /\ f = e
                              THEN (IF open[d][z][f] = 0 THEN 0 ELSE open[d][z][f] - 1)
                              ELSE open[d][z][f]
  <2>1. CASE e \notin Destinations
    BY <1>1, <2>1 DEF OpenTyped
  <2>2. CASE e \in Destinations
    <3> DEFINE less == IF open[c][b][e] = 0 THEN 0 ELSE open[c][b][e] - 1
    <3>1. open[c][b][e] \in Nat
      BY <1>2, <2>2 DEF OpenTyped
    <3>2. less \in Nat
      BY <3>1
    <3>3. open' = [open EXCEPT ![c][b][e] = less]
      BY <1>1, <2>2
    <3> HIDE DEF less
    <3>4. /\ open' \in [Clients -> [Buckets -> [Destinations -> Nat]]]
          /\ \A d \in Clients, z \in Buckets, f \in Destinations :
               open'[d][z][f] = IF d = c /\ z = b /\ f = e THEN less ELSE open[d][z][f]
      BY <1>2, <2>2, <3>2, <3>3 DEF OpenTyped
    <3> QED
      BY <1>1, <3>4 DEF OpenTyped, less
  <2> QED
    BY <2>1, <2>2
<1> SUFFICES ASSUME Roomy' PROVE Findable'
  BY <1>3 DEF Findable
<1>4. /\ Roomy /\ n \in Nat
      /\ Short(routes, n) /\ Homed(routes) /\ Enough(routes) /\ Tallied
  BY <1>1 DEF Roomy, Findable, OpenTyped
<1>5. /\ x \in Spots
      /\ own.first.code = 253 /\ own.first.ep = c /\ own.second.ep = e /\ e \in Destinations
      /\ Bucket(own.first) = b
      /\ x \in Entries(routes) /\ x \in EntriesAt(routes, b)
  BY <1>1, <1>4, FoundEntry DEF b, e
<1>6. PageIn(routes, b).used \in Nat /\ PageIn(routes, b).used > 0
  <2>1. Cardinality(EntriesAt(routes, b)) \in Nat /\ Cardinality(EntriesAt(routes, b)) >= 1
    BY <1>5, EntriesFinite, NotEmpty
  <2>2. Cardinality(EntriesTo(routes, b)) \in Nat
    BY EntriesFinite, FS_CardinalityType
  <2>3. PageIn(routes, b) \in Pages
    BY <1>2, <1>4, PageInIs DEF Short
  <2>4. Cardinality(EntriesAt(routes, b)) + Cardinality(EntriesTo(routes, b))
          <= PageIn(routes, b).used
    BY <1>2, <1>4 DEF Enough
  <2> QED
    BY <2>1, <2>2, <2>3, <2>4 DEF Pages
<1> HIDE DEF m, n, data
<1>7. Short(routes', n) /\ RemovesAt(routes, routes', b, m, b2)
  BY <1>1, <1>2, <1>4, <1>5, <1>6, RemoveShort DEF b, m
<1>8. x[1] = b
  OBVIOUS
<1>9. /\ At(routes', x).first.code = 0
      /\ \A s \in Spots \ {x} :
           \/ At(routes', s) = At(routes, s)
           \/ At(routes, s).first.code = 0 /\ At(routes', s).first.code = 0
  BY <1>7 DEF RemovesAt
<1> HIDE DEF x, b2
<1>10. /\ x \notin Entries(routes')
       /\ \A s \in Spots \ {x} : \/ At(routes, s) = At(routes', s)
                                 \/ s \notin Entries(routes') /\ s \notin Entries(routes)
  BY <1>9 DEF Entries
<1>11. At(routes, x).first.code # 0 /\ At(routes, x).first.ep \in Clients
  BY <1>5
<1>12. Homed(routes')
  <2> SUFFICES ASSUME NEW s \in Entries(routes')
               PROVE  /\ Bucket(At(routes', s).first) = s[1]
                      /\ At(routes', s).first.code = 253
                      /\ At(routes', s).second \in Claimed
    BY DEF Homed
  <2>1. At(routes', s) = At(routes, s) /\ s \in Entries(routes)
    BY <1>10 DEF Entries
  <2> QED
    BY <1>4, <2>1 DEF Homed
<1>13. /\ \A z : /\ Cardinality(EntriesAt(routes', z)) \in Nat
                 /\ Cardinality(EntriesTo(routes', z)) \in Nat
                 /\ Cardinality(EntriesAt(routes, z)) =
                      Cardinality(EntriesAt(routes', z)) + (IF x[1] = z THEN 1 ELSE 0)
                 /\ Cardinality(EntriesTo(routes, z)) =
                      Cardinality(EntriesTo(routes', z))
                        + (IF Bucket(At(routes, x).second) = z THEN 1 ELSE 0)
       /\ \A d, z, f :
            /\ Cardinality(EntriesOf(routes', d, z, f)) \in Nat
            /\ Cardinality(EntriesOf(routes, d, z, f)) =
                 Cardinality(EntriesOf(routes', d, z, f))
                   + (IF /\ x[1] = z /\ At(routes, x).first.ep = d
                         /\ At(routes, x).second.ep = f THEN 1 ELSE 0)
  BY <1>5, <1>10, <1>11, CountsGrow
<1>14. Enough(routes')
  <2> SUFFICES ASSUME NEW z \in Buckets
               PROVE  Cardinality(EntriesAt(routes', z)) + Cardinality(EntriesTo(routes', z))
                        <= PageIn(routes', z).used
    BY DEF Enough
  <2> DEFINE here == IF b = z THEN 1 ELSE 0
             there == IF b2 = z THEN 1 ELSE 0
             old == PageIn(routes, z).used
             new == PageIn(routes', z).used
  <2>1. /\ Cardinality(EntriesAt(routes', z)) \in Nat
        /\ Cardinality(EntriesTo(routes', z)) \in Nat
        /\ Cardinality(EntriesAt(routes, z)) = Cardinality(EntriesAt(routes', z)) + here
        /\ Cardinality(EntriesTo(routes, z)) = Cardinality(EntriesTo(routes', z)) + there
    BY <1>8, <1>13 DEF b2
  <2>2. /\ old \in Nat /\ new \in Nat
        /\ Cardinality(EntriesAt(routes, z)) + Cardinality(EntriesTo(routes, z)) <= old
    <3>1. PageIn(routes, z) \in Pages /\ PageIn(routes', z) \in Pages
      BY <1>4, <1>7, PageInIs DEF Short
    <3> QED
      BY <1>4, <3>1 DEF Enough, Pages
  <2>3. old - here - there <= new
    <3>1. here = (IF z = b THEN 1 ELSE 0) /\ there = (IF z = b2 THEN 1 ELSE 0)
      OBVIOUS
    <3>2. old - (IF z = b THEN 1 ELSE 0) - (IF z = b2 THEN 1 ELSE 0) <= new
      BY <1>7 DEF RemovesAt
    <3> QED
      BY <3>1, <3>2
  <2>4. here \in Nat /\ there \in Nat
    OBVIOUS
  <2> HIDE DEF here, there, old, new
  <2>5. Cardinality(EntriesAt(routes', z)) + Cardinality(EntriesTo(routes', z)) <= new
    BY <2>1, <2>2, <2>3, <2>4
  <2> QED
    BY <2>5 DEF new
<1>15. Tallied'
  <2> SUFFICES ASSUME NEW d \in Clients, NEW z \in Buckets, NEW f \in Destinations
               PROVE  Cardinality(EntriesOf(routes', d, z, f)) = open'[d][z][f]
    BY DEF Tallied
  <2> DEFINE mine == d = c /\ z = b /\ f = e
  <2>1. /\ Cardinality(EntriesOf(routes', d, z, f)) \in Nat
        /\ Cardinality(EntriesOf(routes, d, z, f)) =
             Cardinality(EntriesOf(routes', d, z, f)) + (IF mine THEN 1 ELSE 0)
    <3>1. (x[1] = z /\ At(routes, x).first.ep = d /\ At(routes, x).second.ep = f) <=> mine
      BY <1>5, <1>8
    <3> HIDE DEF mine
    <3> QED
      BY <1>13, <3>1
  <2>2. Cardinality(EntriesOf(routes, d, z, f)) = open[d][z][f]
    BY <1>4 DEF Tallied
  <2>3. open'[d][z][f] = IF mine THEN (IF open[d][z][f] = 0 THEN 0 ELSE open[d][z][f] - 1)
                         ELSE open[d][z][f]
    BY <1>3, <1>5
  <2> HIDE DEF mine
  <2> QED
    BY <2>1, <2>2, <2>3
<1>16. n = 2 * syns'
  BY <1>1 DEF n
<1> QED
  BY <1>7, <1>12, <1>14, <1>15, <1>16 DEF Findable

LEMMA OpenIsFound ==
  ASSUME OpenTyped, Findable
  PROVE  OpenRouteFound
<1> SUFFICES ASSUME Roomy, NEW c \in Clients, NEW t \in Destinations, NEW tail \in Tails,
                    \A e \in Destinations :
                      open[c][Bucket(V4(c, tail))][e] = IF e = t THEN 1 ELSE 0
             PROVE  Found(routes, V4(c, tail)) /\ Destination(V4(c, tail)) = t
  BY DEF OpenRouteFound, Roomy
<1> DEFINE data == V4(c, tail)
           b == Bucket(data)
           n == 2 * syns
<1>1. n \in Nat /\ Short(routes, n) /\ Homed(routes) /\ Tallied
  BY DEF Findable, OpenTyped
<1>2. data.code = 253 /\ data.ep = c /\ b \in Buckets
  BY ClientsAddress
<1>3. \A e \in Destinations :
        Cardinality(EntriesOf(routes, c, b, e)) = IF e = t THEN 1 ELSE 0
  BY <1>1, <1>2 DEF Tallied
<1>4. PICK s \in EntriesOf(routes, c, b, t) : TRUE
  <2>1. Cardinality(EntriesOf(routes, c, b, t)) # 0
    BY <1>3
  <2> QED
    BY <2>1, FS_EmptySet
<1>5. /\ s \in Entries(routes) /\ s[1] = b /\ s \in Spots
      /\ At(routes, s).first.ep = c /\ At(routes, s).first.code = 253
  BY <1>1 DEF EntriesOf, EntriesAt, Entries, Homed
<1>6. Found(routes, data)
  <2>1. s[2] \in 1 .. PAIRS /\ At(routes, s) = PageIn(routes, b).pairs[s[2]]
    BY <1>5 DEF Spots, At
  <2>2. Len(routes[b]) \in {0, 1} /\ routes[b] \in Seq(Pages)
    BY <1>1, <1>2, PageInIs DEF Short
  <2>3. Len(routes[b]) = 1
    <3>1. Len(routes[b]) = 0 => At(routes, s) = ZeroPair
      BY <2>1, ZerosAreKept DEF PageIn
    <3> QED
      BY <1>5, <2>2, <3>1 DEF ZeroPair, ZeroData
  <2>4. 1 \in DOMAIN routes[b] /\ At(routes, s) = routes[b][1].pairs[s[2]]
    BY <2>1, <2>2, <2>3 DEF PageIn
  <2>5. Same(routes[b][1].pairs[s[2]].first, data)
    BY <1>2, <1>5, <2>4 DEF Same
  <2>6. <<1, s[2]>> \in Matches(routes, data)
    BY <2>1, <2>4, <2>5 DEF Matches
  <2> QED
    BY <2>6 DEF Found
<1> DEFINE x == <<b, Place(routes, data)[2]>>
           own == At(routes, x)
<1>7. /\ own.second.ep \in Destinations /\ own.second.ep = Destination(data)
      /\ x \in EntriesOf(routes, c, b, own.second.ep)
  BY <1>1, <1>6, FoundEntry
<1> HIDE DEF x, own
<1>8. Cardinality(EntriesOf(routes, c, b, own.second.ep)) >= 1
  BY <1>7, EntriesFinite, NotEmpty
<1>9. own.second.ep = t
  BY <1>3, <1>7, <1>8
<1> QED
  BY <1>6, <1>7, <1>9

-----------------------------------------------------------------------------
\* The invariant while no handlers have overlapped.
AloneFindable == crowd = 0 => OpenTyped /\ Findable

LEMMA FindableStarts ==
  ASSUME SMPInit
  PROVE  AloneFindable
<1>1. /\ routes = [b \in Buckets |-> <<>>] /\ syns = 0
      /\ open = [c \in Clients |-> [b \in Buckets |-> [e \in Destinations |-> 0]]]
  BY DEF SMPInit, Init
<1>2. OpenTyped
  BY <1>1 DEF OpenTyped
<1>3. routes \in Tables /\ \A b \in Buckets : Len(routes[b]) = 0 /\ PageIn(routes, b) = ZeroPage
  BY <1>1 DEF Tables, PageIn
<1>4. ASSUME NEW s \in Spots PROVE At(routes, s).first.code = 0
  <2>1. s[1] \in Buckets /\ s[2] \in 1 .. PAIRS
    BY DEF Spots
  <2>2. At(routes, s) = ZeroPair
    BY <1>3, <2>1, ZerosAreKept DEF At
  <2> QED
    BY <2>2 DEF ZeroPair, ZeroData
<1>5. Entries(routes) = {}
  BY <1>4 DEF Entries
<1>6. Short(routes, 2 * syns)
  BY <1>1, <1>3, <1>4 DEF Short, ZeroPage
<1>7. \A b, c, e : /\ EntriesAt(routes, b) = {} /\ EntriesTo(routes, b) = {}
                   /\ EntriesOf(routes, c, b, e) = {}
  BY <1>5 DEF EntriesAt, EntriesTo, EntriesOf
<1>8. Cardinality({}) = 0
  BY FS_EmptySet
<1>9. Homed(routes)
  BY <1>5 DEF Homed
<1>10. Enough(routes)
  <2>1. \A b \in Buckets : PageIn(routes, b).used = 0
    BY <1>3 DEF ZeroPage
  <2> QED
    BY <2>1, <1>7, <1>8 DEF Enough
<1>11. Tallied
  BY <1>1, <1>7, <1>8 DEF Tallied
<1> QED
  BY <1>2, <1>6, <1>9, <1>10, <1>11 DEF AloneFindable, Findable

LEMMA FindableIsKept ==
  ASSUME Alone, AloneFindable, [SMPNext]_allVars
  PROVE  AloneFindable'
<1>1. CASE UNCHANGED allVars
  BY <1>1 DEF allVars, vars, smpVars, AloneFindable, OpenTyped, Findable, Roomy, Tallied
<1>2. CASE SMPNext
  <2> SUFFICES ASSUME crowd' = 0 PROVE OpenTyped' /\ Findable'
    BY DEF AloneFindable
  <2>1. crowd = 0 /\ Next
    BY <1>2, AloneMeansNext
  <2>2. OpenTyped /\ Findable
    BY <2>1 DEF AloneFindable
  <2>3. PICK c \in Clients, tail \in Tails :
          \/ \E data \in Claimed : Syn(c, data, tail)
          \/ Fin(c, tail) \/ Data(c, tail) \/ Unknown(c, tail)
    BY <2>1, NextIs
  <2>4. ASSUME NEW data \in Claimed, Syn(c, data, tail) PROVE OpenTyped' /\ Findable'
    BY <2>2, <2>4, SynFinds
  <2>5. CASE Fin(c, tail)
    BY <2>2, <2>5, FinFinds
  <2>6. CASE Data(c, tail) \/ Unknown(c, tail)
    <3>1. UNCHANGED <<routes, asked, open, syns>>
      BY <2>6 DEF Data, Unknown, vars
    <3> QED
      BY <2>2, <3>1 DEF OpenTyped, Findable, Roomy, Tallied
  <2> QED
    BY <2>3, <2>4, <2>5, <2>6
<1> QED
  BY <1>1, <1>2

(***************************************************************************)
(* find_route_sky finds the route of an open connection, and it leads      *)
(* where the client asked, though remove_route_sky leaves the swapped pair *)
(* behind and may count it twice: until handlers overlap, somebody asks    *)
(* for a client, or there were more SYNs than half the slots of a page,    *)
(* for any number of clients, buckets and slots, and any hash.             *)
(***************************************************************************)
THEOREM OpenRoutesFoundAlone == SMPSpec => []RouteFoundUnlessOverlapped
<1>1. SMPInit => Alone /\ AloneFindable
  BY AloneStarts, FindableStarts
<1>2. Alone /\ AloneFindable /\ [SMPNext]_allVars => (Alone /\ AloneFindable)'
  BY AloneIsKept, FindableIsKept
<1>3. AloneFindable => RouteFoundUnlessOverlapped
  BY OpenIsFound DEF AloneFindable, RouteFoundUnlessOverlapped
<1> QED
  BY <1>1, <1>2, <1>3, PTL DEF SMPSpec

=============================================================================
