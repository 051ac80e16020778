--------------------------- MODULE SkyRoutesSMP ---------------------------
(***************************************************************************)
(* The hook of module SkyRoutes on several CPUs.  server.c takes no lock,  *)
(* so a handler sees what the others have done so far.  A handler that     *)
(* runs alone is an action of SkyRoutes; handlers that overlap are taken   *)
(* apart into steps between which another CPU's writes matter.  One step   *)
(* walks along a chain or a page, copies or zeroes one half of a pair,     *)
(* reads `used', writes it, or links a page.                               *)
(*                                                                         *)
(* A slot is <<bucket, page, index>>.  Pages are only ever added in front, *)
(* so a CPU's pointer to one is its number from the end of the chain.      *)
(***************************************************************************)
EXTENDS SkyRoutes

CONSTANTS
  Cpus,
  Jobs,       \* packets whose handlers may overlap: [kind, c, data]
  SharedTail, \* what the stack holds for these
  USED_MOD,   \* 2^32, the modulus of `used'; small here
  MaxCrowd,   \* bound: handlers that overlap another
  MaxShared   \* bound: SYNs before and among them

ASSUME SharedAssumption ==
  /\ SharedTail \in Tails
  /\ Jobs \subseteq [kind : {"syn"}, c : Clients, data : Claimed]
                   \cup [kind : {"fin", "data"}, c : Clients]
  /\ USED_MOD \in Nat \ {0}

VARIABLES
  cpu,        \* what each CPU's handler is doing
  crowd,      \* history: handlers that have overlapped another
  torn        \* history: a CPU wrote into a slot another looked through, or
              \* copied from one half written

smpVars == <<cpu, crowd, torn>>
allVars == <<vars, smpVars>>

Idle == [at |-> "idle"]
Busy == {p \in Cpus : cpu[p] # Idle}

Source(p) == V4(cpu[p].job.c, SharedTail)

NoSlot == <<0, 0, 0>>

\* The slot it works on, the one it has found, the value of `used' it has
\* read, the bucket of its second pass, and where its packet goes.
Begun(job) ==
  [at |-> IF job.kind = "syn" THEN "choose" ELSE "find", job |-> job, pass |-> 1,
   slot |-> NoSlot, own |-> NoSlot, used |-> 0, b2 |-> 0,
   to |-> IF job.kind = "syn" THEN job.data.ep ELSE "here"]

NewestPage(b) == <<b, Len(routes[b]), 1>>
PageNo(b, n) == Len(routes[b]) - n + 1
PageOf(s) == routes[s[1]][PageNo(s[1], s[2])]
PairIn(s) == PageOf(s).pairs[s[3]]

\* The slots a CPU has a pointer to and will still look through.
Held(p) ==
  IF cpu[p] = Idle THEN {}
  ELSE {cpu[p].own} \cup
       (IF cpu[p].at \in {"first", "second", "clear", "rest"} THEN {cpu[p].slot} ELSE {})

\* On to the next step, with the fields that changed.
Goes(p, at, new) ==
  cpu' = [cpu EXCEPT ![p] =
            [f \in DOMAIN @ |-> IF f = "at" THEN at
                               ELSE IF f \in DOMAIN new THEN new[f] ELSE @[f]]]
None == <<>>

Looks == UNCHANGED <<vars, crowd, torn>>

StoresHalf(p, half, value) ==
  LET s == cpu[p].slot
  IN /\ routes' = [routes EXCEPT
                     ![s[1]][PageNo(s[1], s[2])].pairs[s[3]][half] = value]
     /\ torn' = (torn \/ \E q \in Cpus \ {p} : s \in Held(q))
     /\ UNCHANGED <<astray, asked, open, syns, crowd>>

-----------------------------------------------------------------------------
(* insert_route_sky; the second pass inserts the swapped pair *)

ToInsert(p) ==
  LET pair == [first |-> Source(p), second |-> cpu[p].job.data]
  IN IF cpu[p].pass = 1 THEN pair ELSE Swap(pair)

Home(p) == Bucket(ToInsert(p).first)

Inserted(p) ==
  IF cpu[p].pass = 1
  THEN Goes(p, "choose", [pass |-> 2, slot |-> NoSlot, used |-> 0])
  ELSE Goes(p, "done", [slot |-> NoSlot, used |-> 0])

Choose(p) ==
  LET b == Home(p)
      room == {k \in DOMAIN routes[b] : routes[b][k].used < PAIRS}
  IN /\ cpu[p].at = "choose"
     /\ IF room = {} THEN Goes(p, "link", None)
        ELSE Goes(p, "pick", [slot |-> <<b, PageNo(b, Min(room)), 0>>])
     /\ Looks

Link(p) ==
  /\ cpu[p].at = "link"
  /\ routes' = [routes EXCEPT ![Home(p)] = <<ZeroPage>> \o @]
  /\ Goes(p, "pick", [slot |-> <<Home(p), Len(routes[Home(p)]) + 1, 0>>])
  /\ UNCHANGED <<astray, asked, open, syns, crowd, torn>>

Pick(p) ==
  LET s == cpu[p].slot
      free == {i \in 1 .. PAIRS : PageOf(s).pairs[i].first.code = 0}
  IN /\ cpu[p].at = "pick"
     /\ IF free = {} THEN Inserted(p)
        ELSE Goes(p, "first", [slot |-> <<s[1], s[2], Min(free)>>])
     /\ Looks

StoreFirst(p) ==
  /\ cpu[p].at = "first"
  /\ StoresHalf(p, "first", ToInsert(p).first)
  /\ Goes(p, "second", None)

StoreSecond(p) ==
  /\ cpu[p].at = "second"
  /\ StoresHalf(p, "second", ToInsert(p).second)
  /\ Goes(p, "count", None)

ReadUsed(p) ==
  /\ cpu[p].at \in {"count", "uncount"}
  /\ Goes(p, IF cpu[p].at = "count" THEN "counted" ELSE "uncounted",
          [used |-> PageOf(cpu[p].slot).used])
  /\ Looks

WritesUsed(p, value) ==
  LET s == cpu[p].slot
  IN /\ routes' = [routes EXCEPT ![s[1]][PageNo(s[1], s[2])].used = value % USED_MOD]
     /\ UNCHANGED <<astray, asked, open, syns, crowd, torn>>

Count(p) ==
  /\ cpu[p].at = "counted"
  /\ WritesUsed(p, cpu[p].used + 1)
  /\ Inserted(p)

-----------------------------------------------------------------------------
(* find_route_sky, and `pair = *p' *)

Find(p) ==
  LET place == Place(routes, Source(p))
      b == Bucket(Source(p))
      own == <<b, PageNo(b, place[1]), place[2]>>
  IN /\ cpu[p].at \in {"find", "search"}
     /\ CASE ~Found(routes, Source(p)) -> Goes(p, "done", None)
          [] Found(routes, Source(p)) /\ cpu[p].at = "find" ->
               Goes(p, "copy", [own |-> own])
          [] Found(routes, Source(p)) /\ cpu[p].at = "search" ->
               Goes(p, "sweep", [own |-> own, slot |-> NewestPage(Bucket(PairIn(own).first)),
                                 b2 |-> Bucket(PairIn(own).second)])
     /\ Looks

Copy(p) ==
  /\ cpu[p].at = "copy"
  /\ Goes(p, IF cpu[p].job.kind = "fin" THEN "search" ELSE "done",
          [to |-> PairIn(cpu[p].own).second.ep, own |-> NoSlot])
  /\ torn' = (torn \/ \E q \in Busy : /\ cpu[q].at \in {"second", "rest"}
                                    /\ cpu[q].slot = cpu[p].own)
  /\ UNCHANGED <<vars, crowd>>

-----------------------------------------------------------------------------
(* remove_route_sky *)

Wanted(p) ==
  IF cpu[p].pass = 1 THEN PairIn(cpu[p].own).first ELSE PairIn(cpu[p].own).second

\* On to the next page; after the last one to the next pass.
TurnsPage(p, i) ==
  LET s == cpu[p].slot IN
  CASE s[2] > 1 -> Goes(p, "sweep", [slot |-> <<s[1], s[2] - 1, i>>, used |-> 0])
    [] s[2] <= 1 /\ cpu[p].pass = 1 ->
         Goes(p, "sweep", [slot |-> NewestPage(cpu[p].b2), pass |-> 2, used |-> 0])
    [] s[2] <= 1 /\ cpu[p].pass = 2 ->
         Goes(p, "done", [slot |-> NoSlot, own |-> NoSlot, used |-> 0])

SweepOn(p) ==
  LET s == cpu[p].slot
      hits == {j \in s[3] .. PAIRS : Same(PageOf(s).pairs[j].first, Wanted(p))}
  IN /\ cpu[p].at = "sweep"
     /\ CASE s[2] = 0 -> TurnsPage(p, s[3])
          [] s[2] > 0 /\ PageOf(s).used = 0 -> TurnsPage(p, s[3])
          [] s[2] > 0 /\ PageOf(s).used > 0 /\ hits = {} -> TurnsPage(p, PAIRS + 1)
          [] s[2] > 0 /\ PageOf(s).used > 0 /\ hits # {} ->
               Goes(p, "clear", [slot |-> <<s[1], s[2], Min(hits)>>])
     /\ Looks

ClearFirst(p) ==
  /\ cpu[p].at = "clear"
  /\ StoresHalf(p, "first", ZeroData)
  /\ Goes(p, "rest", None)

ClearSecond(p) ==
  /\ cpu[p].at = "rest"
  /\ StoresHalf(p, "second", ZeroData)
  /\ Goes(p, "uncount", None)

Uncount(p) ==
  /\ cpu[p].at = "uncounted"
  /\ WritesUsed(p, cpu[p].used - 1)
  /\ TurnsPage(p, cpu[p].slot[3])

-----------------------------------------------------------------------------
(* server_pre_routing_sky.  As a bound, handlers overlap only once, on a    *)
(* table whose routes were stored with the same stack contents.            *)

SynsOf(jobs) == {p \in DOMAIN jobs : jobs[p].kind = "syn"}

\* Packets arrive on several CPUs, or on one more.
Arrive(jobs) ==
  /\ cpu' = [p \in Cpus |-> IF p \in DOMAIN jobs THEN Begun(jobs[p]) ELSE cpu[p]]
  /\ asked' = asked \cup {<<jobs[p].c, jobs[p].data.ep>> : p \in SynsOf(jobs)}
  /\ syns' = syns + Cardinality(SynsOf(jobs))
  /\ syns' <= MaxShared
  /\ crowd' = crowd + Cardinality(DOMAIN jobs)
  /\ crowd' <= MaxCrowd
  /\ UNCHANGED <<routes, astray, open, torn>>

ArriveTogether ==
  /\ Busy = {}
  /\ syns < MaxShared
  /\ \A s \in Stored : s.pair.first.tail \in {SharedTail, "zero"}
  /\ \E pair \in kSubset(2, Cpus) : \E jobs \in [pair -> Jobs] : Arrive(jobs)

ArriveBeside ==
  /\ Busy # {}
  /\ \E p \in Cpus \ Busy : \E jobs \in [{p} -> Jobs] : Arrive(jobs)

Done(p) ==
  /\ cpu[p].at = "done"
  /\ UNCHANGED <<routes, asked, open, syns, crowd, torn>>
  /\ IF cpu[p].to = "here" THEN UNCHANGED astray ELSE Sends(cpu[p].job.c, cpu[p].to)
  /\ cpu' = [cpu EXCEPT ![p] = Idle]

Step(p) ==
  \/ Choose(p) \/ Link(p) \/ Pick(p) \/ StoreFirst(p) \/ StoreSecond(p)
  \/ ReadUsed(p) \/ Count(p)
  \/ Find(p) \/ Copy(p) \/ SweepOn(p) \/ ClearFirst(p) \/ ClearSecond(p)
  \/ Uncount(p) \/ Done(p)

SMPInit ==
  /\ Init
  /\ cpu = [p \in Cpus |-> Idle]
  /\ crowd = 0
  /\ torn = FALSE

SMPNext ==
  \/ Busy = {} /\ Next /\ (crowd > 0 => syns' <= MaxShared) /\ UNCHANGED smpVars
  \/ ArriveTogether
  \/ ArriveBeside
  \/ \E p \in Busy : Step(p)

SMPSpec == SMPInit /\ [][SMPNext]_allVars

-----------------------------------------------------------------------------
(***************************************************************************)
(* The table's counters are right as long as no handlers overlapped: what  *)
(* remove_route_sky counts twice only ever makes them too low.             *)
(***************************************************************************)
UsedUnlessOverlapped == crowd = 0 => UsedAtMostOccupied

(***************************************************************************)
(* With no lock at all, and counters and routes lost to other CPUs, a      *)
(* packet still only goes where a SYN paired its source, unless one CPU    *)
(* wrote into a slot that another was looking through, or copied from one  *)
(* that another had written half of.                                       *)
(***************************************************************************)
CrossTalkOnlyIfTorn == ~torn => NoCrossTalk

(***************************************************************************)
(* An open connection is found, and leads where the client asked, as long  *)
(* as no handlers overlapped and the table is not too full (see            *)
(* OpenRouteFound).                                                        *)
(***************************************************************************)
RouteFoundUnlessOverlapped == crowd = 0 => OpenRouteFound

(***************************************************************************)
(* As long as no handlers overlap, none takes away what is stored under    *)
(* endpoints its packet has nothing to do with.                            *)
(***************************************************************************)
OthersKeptUnlessOverlapped ==
  [][crowd' = 0 /\ routes' # routes => OthersKept]_allVars

=============================================================================
