----------------------------- MODULE SkyRoutes -----------------------------
(***************************************************************************)
(* server/server.c: the table in which the server remembers where each     *)
(* client's connection really goes, and the hook that keeps it and         *)
(* rewrites the packets (server_pre_routing_sky).                          *)
(*                                                                         *)
(* A bucket is a chain of pages of PAIRS slots, the newest page first.  A  *)
(* route is stored twice, under the client and, swapped, under the         *)
(* destination.  An address is what the code calls sky_data: the code of   *)
(* the option, an endpoint (address and port) and a tail, the 12 bytes the *)
(* IPv4 form leaves uninitialized on the stack and which are hashed with   *)
(* the rest.  Here packets are handled one after the other; module         *)
(* SkyRoutesSMP lets handlers of several CPUs overlap.                     *)
(***************************************************************************)
EXTENDS Integers, FiniteSetsExt, SequencesExt

CONSTANTS
  Clients,    \* the endpoints packets come from
  Options,    \* TCP options of a SYN: sequences of [kind, data]
  Residues,   \* what the stack holds where a SYN's sky_data will be
  Tails,      \* what the stack holds behind an IPv4 sky_data
  Buckets,    \* 0 .. SKY_DATA_BUCKET_SIZE - 1
  Bucket(_),  \* hash_route_sky modulo the number of buckets
  PAIRS,      \* SKY_DATA_PAIR_SIZE
  MaxSyns     \* bound of the model: SYNs since the module was loaded

VARIABLES
  routes,     \* device_sky->routes
  astray,     \* history: <<c, e>>, a packet of c went to e, though no SYN
              \* had paired the two
  asked,      \* history: <<c, e>>, c's SYN had e for its destination
  open,       \* history: open[c][b][e], such SYNs not yet closed whose route
              \* is in bucket b
  syns        \* history: SYNs since the module was loaded

vars == <<routes, astray, asked, open, syns>>

ZeroData == [code |-> 0, ep |-> "zero", tail |-> "zero"]
ZeroPair == [first |-> ZeroData, second |-> ZeroData]
V4(ep, tail) == [code |-> 253, ep |-> ep, tail |-> tail]

\* A new page comes from vzalloc.
ZeroPage == [used |-> 0, pairs |-> [i \in 1 .. PAIRS |-> ZeroPair]]

\* Faulty form: any endpoint will do.
SameCode(x, y) == x.code = y.code

Same(x, y) == x.code = y.code /\ x.ep = y.ep
Swap(pair) == [first |-> pair.second, second |-> pair.first]

-----------------------------------------------------------------------------
(* insert_route_sky *)

\* Faulty form: a page without a free slot gives up its first.
InsertAnyway(pages, pair) ==
  LET room == {k \in DOMAIN pages : pages[k].used < PAIRS}
      chain == IF room = {} THEN <<ZeroPage>> \o pages ELSE pages
      k == IF room = {} THEN 1 ELSE Min(room)
      free == {i \in 1 .. PAIRS : chain[k].pairs[i].first.code = 0}
  IN [chain EXCEPT ![k].pairs[IF free = {} THEN 1 ELSE Min(free)] = pair,
                   ![k].used = @ + 1]

\* The first slot that looks free, in the first page that should have room.
\* The pair is dropped if `used' is too low and the page has none.
InsertInto(pages, pair) ==
  LET room == {k \in DOMAIN pages : pages[k].used < PAIRS}
      chain == IF room = {} THEN <<ZeroPage>> \o pages ELSE pages
      k == IF room = {} THEN 1 ELSE Min(room)
      free == {i \in 1 .. PAIRS : chain[k].pairs[i].first.code = 0}
  IN IF free = {} THEN chain
     ELSE [chain EXCEPT ![k] = [used |-> @.used + 1,
                                pairs |-> [@.pairs EXCEPT ![Min(free)] = pair]]]

InsertOne(table, pair) ==
  [table EXCEPT ![Bucket(pair.first)] = InsertInto(@, pair)]

InsertRoute(table, pair) == InsertOne(InsertOne(table, pair), Swap(pair))

-----------------------------------------------------------------------------
(* find_route_sky: the place of the first match in the bucket, or none *)

Matches(table, data) ==
  {place \in (DOMAIN table[Bucket(data)]) \X (1 .. PAIRS) :
     Same(table[Bucket(data)][place[1]].pairs[place[2]].first, data)}

Before(p, q) == p[1] < q[1] \/ (p[1] = q[1] /\ p[2] <= q[2])

Found(table, data) == Matches(table, data) # {}

Place(table, data) ==
  CHOOSE p \in Matches(table, data) :
    \A q \in Matches(table, data) : Before(p, q)

PairAt(table, b, place) == table[b][place[1]].pairs[place[2]]

-----------------------------------------------------------------------------
(***************************************************************************)
(* remove_route_sky sweeps a chain for `wanted', one match a page.  `i' is *)
(* not reset between pages.  `pair' points into the table: once its slot   *)
(* (`own', in this chain or not) is zeroed, zero is what is looked for.    *)
(***************************************************************************)
SweepUncounted(own, acc, page) ==   \* faulty form: `used' stays
  LET n == Len(acc.pages) + 1
      hits == {j \in acc.i .. PAIRS : Same(page.pairs[j].first, acc.wanted)}
      j == Min(hits)
  IN CASE page.used = 0 -> [acc EXCEPT !.pages = Append(@, page)]
       [] page.used > 0 /\ hits = {} ->
            [acc EXCEPT !.pages = Append(@, page), !.i = PAIRS + 1]
       [] page.used > 0 /\ hits # {} ->
            [pages |-> Append(acc.pages,
                         [page EXCEPT !.pairs[j] = ZeroPair]),
             i |-> j,
             wanted |-> IF own = <<n, j>> THEN ZeroData ELSE acc.wanted]

SweepPage(own, acc, page) ==
  LET n == Len(acc.pages) + 1
      hits == {j \in acc.i .. PAIRS : Same(page.pairs[j].first, acc.wanted)}
      j == Min(hits)
  IN CASE page.used = 0 -> [acc EXCEPT !.pages = Append(@, page)]
       [] page.used > 0 /\ hits = {} ->
            [acc EXCEPT !.pages = Append(@, page), !.i = PAIRS + 1]
       [] page.used > 0 /\ hits # {} ->
            [pages |-> Append(acc.pages, [used |-> page.used - 1,
                                pairs |-> [page.pairs EXCEPT ![j] = ZeroPair]]),
             i |-> j,
             wanted |-> IF own = <<n, j>> THEN ZeroData ELSE acc.wanted]

\* Faulty form: the first slot is skipped.
SweepFromSecond(pages, own, wanted) ==
  LET after[n \in 0 .. Len(pages)] ==
        IF n = 0 THEN [pages |-> <<>>, i |-> 2, wanted |-> wanted]
        ELSE SweepPage(own, after[n - 1], pages[n])
  IN after[Len(pages)]

Sweep(pages, own, wanted) ==
  LET after[n \in 0 .. Len(pages)] ==
        IF n = 0 THEN [pages |-> <<>>, i |-> 1, wanted |-> wanted]
        ELSE SweepPage(own, after[n - 1], pages[n])
  IN after[Len(pages)]

RemoveRoute(table, data) ==
  LET own == Place(table, data)
      first == PairAt(table, Bucket(data), own).first
      second == PairAt(table, Bucket(data), own).second
      b1 == Bucket(first)
      b2 == Bucket(second)
      pass1 == Sweep(table[b1], own, first)
      cleared == [table EXCEPT ![b1] = pass1.pages]
      wanted == PairAt(cleared, Bucket(data), own).second
      pass2 == Sweep(cleared[b2], IF b2 = Bucket(data) THEN own ELSE <<0, 0>>,
                     wanted)
  IN IF Found(table, data) THEN [cleared EXCEPT ![b2] = pass2.pages] ELSE table

-----------------------------------------------------------------------------
(* server_pre_routing_sky *)

Paired(pairs, x, y) == <<x, y>> \in pairs \/ <<y, x>> \in pairs

\* Where the route found for `data' leads.
Destination(data) ==
  PairAt(routes, Bucket(data), Place(routes, data)).second.ep

Sends(c, e) == astray' = IF Paired(asked', c, e) THEN astray ELSE astray \cup {<<c, e>>}

\* get_toa_data_sky: the first option that is not skipped may be one of ours,
\* end the list or have an impossible size.  IPv4's leaves the tail alone, and
\* without one of ours all of `data' stays what the stack had.
ToaData(options, residue) ==
  LET ends == {k \in DOMAIN options : options[k].kind \notin {"nop", "other"}}
      last == options[Min(ends)]
  IN CASE ends = {} -> residue
       [] ends # {} /\ last.kind \in {"end", "bad"} -> residue
       [] ends # {} /\ last.kind = "sky4" -> V4(last.data.ep, residue.tail)
       [] ends # {} /\ last.kind = "sky6" -> last.data

\* What a SYN's `data' may come out as.
Claimed == {ToaData(options, residue) : options \in Options, residue \in Residues}

Destinations == {data.ep : data \in Claimed}

\* Every sky_data there is.
Addresses ==
  {ZeroData} \cup Claimed \cup {V4(c, tail) : c \in Clients, tail \in Tails}

ASSUME RoutesAssumption ==
  /\ PAIRS \in Nat
  /\ IsFiniteSet(Buckets)
  /\ \A data \in Addresses : Bucket(data) \in Buckets

Init ==
  /\ routes = [b \in Buckets |-> <<>>]
  /\ astray = {}
  /\ asked = {}
  /\ open = [c \in Clients |-> [b \in Buckets |-> [e \in Destinations |-> 0]]]
  /\ syns = 0

\* A SYN: the route is stored, duplicate or not, then used.
Syn(c, data, tail) ==
  /\ syns < MaxSyns
  /\ routes' = InsertRoute(routes, [first |-> V4(c, tail), second |-> data])
  /\ asked' = asked \cup {<<c, data.ep>>}
  /\ Sends(c, data.ep)
  /\ open' = [open EXCEPT ![c][Bucket(V4(c, tail))][data.ep] = @ + 1]
  /\ syns' = syns + 1

\* A FIN or RST: the route is used once more and removed.
Fin(c, tail) ==
  LET data == V4(c, tail)
      e == Destination(data)
      b == Bucket(data)
  IN /\ Found(routes, data)
     /\ UNCHANGED <<asked, syns>>
     /\ Sends(c, e)
     /\ routes' = RemoveRoute(routes, data)
     /\ open' = IF e \in Destinations
                THEN [open EXCEPT ![c][b][e] = IF @ = 0 THEN 0 ELSE @ - 1]
                ELSE open

\* Anything else.
Data(c, tail) ==
  LET data == V4(c, tail)
  IN /\ Found(routes, data)
     /\ UNCHANGED <<routes, asked, open, syns>>
     /\ Sends(c, Destination(data))

\* No SYN and no route: the packet is accepted as it is.
Unknown(c, tail) ==
  /\ ~Found(routes, V4(c, tail))
  /\ UNCHANGED vars

Next ==
  \E c \in Clients, tail \in Tails :
    \/ \E data \in Claimed : Syn(c, data, tail)
    \/ Fin(c, tail)
    \/ Data(c, tail)
    \/ Unknown(c, tail)

Spec == Init /\ [][Next]_vars

-----------------------------------------------------------------------------
Occupied(page) == {i \in 1 .. PAIRS : page.pairs[i].first.code # 0}

\* Every pair stored, with the bucket it is in.
Stored ==
  UNION {{[b |-> b, pair |-> routes[b][k].pairs[i]] : k \in DOMAIN routes[b],
            i \in 1 .. PAIRS} : b \in Buckets}

\* Nobody asked for an endpoint that a SYN without an option may have made of
\* zeros on the stack.
NoneLooksFree(pairs) ==
  \A c \in Clients, data \in Claimed : <<c, data.ep>> \in pairs => data.code # 0

(***************************************************************************)
(* `used' never goes below zero.  remove_route_sky may count a slot as     *)
(* freed that was free before, so it drifts, but only downwards: a page    *)
(* that claims to be full is.  Only a SYN without an option may count a    *)
(* slot that still looks free, when the stack held zeros.                  *)
(***************************************************************************)
UsedAtMostOccupied ==
  NoneLooksFree(asked) =>
  \A b \in Buckets : \A k \in DOMAIN routes[b] :
    routes[b][k].used \in 0 .. Cardinality(Occupied(routes[b][k]))

(***************************************************************************)
(* Whatever slots were reused, leaked or dropped: a packet is only ever    *)
(* sent on to an endpoint that a SYN paired with its source.               *)
(***************************************************************************)
NoCrossTalk == astray = {}

\* Whose packet a step that changes the table handles.
HandledFor(c) ==
  IF syns' = syns THEN \E tail \in Tails : Fin(c, tail) ELSE open'[c] # open[c]

(***************************************************************************)
(* A packet never takes away what is stored under an endpoint, unless it   *)
(* is its source or a SYN paired the two.                                  *)
(***************************************************************************)
OthersKept ==
  \A c \in Clients : HandledFor(c) =>
    \A s \in Stored \ Stored' :
      \/ s.pair.first.code = 0
      \/ s.pair.first.ep = c
      \/ Paired(asked', c, s.pair.first.ep)

(***************************************************************************)
(* What a client with one connection open in a bucket asked for is where   *)
(* its packets go, as long as they are hashed to that bucket (the stack    *)
(* decides), nobody asked for a client, and the table saw no more than     *)
(* half as many SYNs as a page has slots since the module was loaded.  Not *)
(* open connections count, but all there ever were: the swapped entries    *)
(* are not removed.                                                        *)
(***************************************************************************)
OpenRouteFound ==
  2 * syns <= PAIRS /\ asked \cap (Clients \X Clients) = {} =>
    \A c \in Clients, t \in Destinations, tail \in Tails :
      LET data == V4(c, tail) IN
      (\A e \in Destinations : open[c][Bucket(data)][e] = IF e = t THEN 1 ELSE 0)
        => Found(routes, data) /\ Destination(data) = t

=============================================================================
