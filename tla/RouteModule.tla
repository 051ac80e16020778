---------------------------- MODULE RouteModule ----------------------------
(***************************************************************************)
(* server/main.c, the `xsky route' module: one hook for what comes in, the *)
(* configuration and capture settings it takes from datagrams, and its map *)
(* of limits, which every configuration replaces.  Softirqs of several     *)
(* CPUs run the hook and none of its data has a lock.                      *)
(*                                                                         *)
(* The protocol numbers are bytes that the code compares with htons of a   *)
(* constant: they are equal on big-endian machines only.  The hash maps    *)
(* and the layout of the messages are not in the repository.               *)
(***************************************************************************)
EXTENDS Naturals, SequencesExt

CONSTANTS
  Cpus,
  Orders,     \* the byte orders of the machines considered
  Packets,    \* [type, proto, source, dest, local, foreign, named, body]
  MaxMaps     \* bound: maps made since the module was loaded

VARIABLES
  order,      \* the byte order of this machine
  life,       \* out, live, or between the two halves of route_exit
  limit_map,  \* which map the pointer names
  made,       \* how many maps were made
  alive,      \* the maps made and not freed
  filled,     \* the maps with an entry
  config,     \* _device.config: how many macs and domains follow it
  capture,    \* _device.capture: what to copy
  cpu,        \* per CPU: where it stands in load_config
  fate,       \* the last packet: its verdict, and what was sent on its account
  harmed,     \* history: a map was freed twice, or written after that
  overlapped, \* history: two CPUs were in load_config at once
  overtaken   \* history: route_exit did not wait for a hook

Heads == [macs : Nat, domains : Nat]

\* What comes to the configuration port: the counts where a head would be, and
\* what the datagram really holds.  A name is the bytes its record announces
\* (no more than load_config has room for).
Pieces == {"head", "mac", "domain", "name"}
Messages == [macs : Nat, domains : Nat, data : Seq(Pieces)]
ASSUME PacketAssumption == \A p \in Packets : p.dest = "config" => p.body \in Messages

vars == <<order, life, limit_map, made, alive, filled, config, capture, cpu,
          fate, harmed, overlapped, overtaken>>

NoConfig == [macs |-> 0, domains |-> 0]
NoMessage == [macs |-> 0, domains |-> 0, data |-> <<>>]
Idle == [at |-> "idle", msg |-> NoMessage, map |-> 0, i |-> 0, data |-> <<>>,
         strayed |-> FALSE]

Fate(verdict, sent) == fate' = [verdict |-> verdict, sent |-> sent]

Init ==
  /\ order \in Orders
  /\ life = "out"
  /\ limit_map = 0
  /\ made = 0
  /\ alive = {}
  /\ filled = {}
  /\ config = NoConfig
  /\ capture = {}
  /\ cpu = [c \in Cpus |-> Idle]
  /\ fate = [verdict |-> "none", sent |-> "none"]
  /\ harmed = FALSE
  /\ overlapped = FALSE
  /\ overtaken = FALSE

-----------------------------------------------------------------------------
(* What a packet is *)

IsIp(p) == p.type \in {"ipv4", "ipv6"}

\* The number IPV6_NEXTHDR_UDP stands for is that of UDP-Lite.
Proto(p, name) ==
  /\ order = "big"
  /\ IsIp(p)
  /\ p.proto = IF p.type = "ipv6" /\ name = "udp" THEN "udplite" ELSE name

\* Addressed to the route; for IPv6 only its anycast addresses are looked at.
ToRoute(p, port) == Proto(p, "udp") /\ p.local /\ p.dest = port

IsDns(p) == Proto(p, "udp") /\ p.dest = "dns" /\ p.named
IsConfig(p) == ToRoute(p, "config")
IsSetCapture(p) == ToRoute(p, "capture")

Speaks(p, port) == port \in {p.source, p.dest}

IsGetCapture(p) ==
  \/ p.type = "arp" /\ "arp" \in capture
  \/ /\ IsIp(p)
     /\ p.foreign
     /\ \/ "ip" \in capture
        \/ \E name \in {"icmp", "tcp", "udp"} \cap capture : Proto(p, name)
        \/ \E port \in {"http", "https"} \cap capture : Proto(p, "tcp") /\ Speaks(p, port)
        \/ "dns" \in capture /\ Proto(p, "udp") /\ Speaks(p, "dns")

-----------------------------------------------------------------------------
(* load_config, on CPU c *)

maps == <<limit_map, made, alive, filled>>
history == <<overlapped, overtaken>>

Loading(c) == cpu[c].at # "idle"

\* A message with such counts: macs, then a record and a name for each domain.
Layout(msg) ==
  [k \in 1 .. 1 + msg.macs + 2 * msg.domains |->
     CASE k = 1 -> "head"
       [] k \in 2 .. 1 + msg.macs -> "mac"
       [] OTHER -> IF (k - msg.macs) % 2 = 0 THEN "domain" ELSE "name"]

\* Nothing compares that with the length of the datagram.
Whole(msg) == IsPrefix(Layout(msg), msg.data)

\* skb_recv_config repeats the tests of skb_is_config.
RecvConfig(c, p) ==
  /\ life = "live"
  /\ ~Loading(c)
  /\ IsConfig(p)
  /\ made < MaxMaps
  /\ made' = made + 1
  /\ alive' = alive \cup {made'}
  /\ cpu' = [cpu EXCEPT ![c] = [at |-> "macs_of", msg |-> p.body, map |-> made', i |-> 0,
                                data |-> p.body.data, strayed |-> FALSE]]
  /\ overlapped' = (overlapped \/ \E d \in Cpus : Loading(d))
  /\ UNCHANGED <<order, life, limit_map, filled, config, capture, fate, harmed, overtaken>>

\* Call c has read `pieces', stepping over the first of them if it goes on; what it
\* finds there, or behind the datagram, may be something else.
Reads(c, pieces, on) ==
  [cpu[c] EXCEPT !.strayed = @ \/ ~IsPrefix(pieces, cpu[c].data),
                 !.data = IF on /\ @ # <<>> THEN Tail(@) ELSE @]

\* memcpy of the head, whose fields may be mixed with another's.
CopyHead(c, at, field, next) ==
  /\ cpu[c].at = at
  /\ cpu' = [cpu EXCEPT ![c] = [Reads(c, <<"head">>, next = "macs") EXCEPT !.at = next]]
  /\ config' = [config EXCEPT ![field] = cpu[c].msg[field]]
  /\ UNCHANGED <<order, life, maps, capture, fate, harmed, history>>

\* The loops go by the count in force, which another CPU may have changed, and
\* fill the map in force.
Insert(c, pieces) ==
  /\ cpu' = [cpu EXCEPT ![c] = [Reads(c, pieces, TRUE) EXCEPT !.i = @ + 1]]
  /\ filled' = filled \cup {limit_map}
  /\ harmed' = (harmed \/ limit_map \notin alive)
  /\ UNCHANGED <<order, life, limit_map, made, alive, config, capture, fate, history>>

LoopEnds(c, next) ==
  /\ cpu' = [cpu EXCEPT ![c].at = next, ![c].i = 0]
  /\ UNCHANGED <<order, life, maps, config, capture, fate, harmed, history>>

\* Faulty form: one more than there are.
LoadMacsAndOne(c) ==
  /\ cpu[c].at = "macs"
  /\ IF cpu[c].i <= config.macs THEN Insert(c, <<"mac">>) ELSE LoopEnds(c, "domains")

LoadMacs(c) ==
  /\ cpu[c].at = "macs"
  /\ IF cpu[c].i < config.macs THEN Insert(c, <<"mac">>) ELSE LoopEnds(c, "domains")

\* The name is copied, and not stepped over.
LoadDomains(c) ==
  /\ cpu[c].at = "domains"
  /\ IF cpu[c].i < config.domains THEN Insert(c, <<"domain", "name">>) ELSE LoopEnds(c, "free")

FreeMap ==
  /\ alive' = alive \ {limit_map}
  /\ harmed' = (harmed \/ limit_map \notin alive)

\* Faulty form: the old map is kept.
FreeNothing(c) ==
  /\ cpu[c].at = "free"
  /\ cpu' = [cpu EXCEPT ![c].at = "install"]
  /\ UNCHANGED <<order, life, maps, config, capture, fate, harmed, history>>

Free(c) ==
  /\ cpu[c].at = "free"
  /\ FreeMap
  /\ cpu' = [cpu EXCEPT ![c].at = "install"]
  /\ UNCHANGED <<order, life, limit_map, made, filled, config, capture, fate, history>>

\* Faulty form: the new map is forgotten.
InstallNothing(c) ==
  /\ cpu[c].at = "install"
  /\ cpu' = [cpu EXCEPT ![c] = Idle]
  /\ Fate("drop", "none")
  /\ UNCHANGED <<order, life, maps, config, capture, harmed, history>>

\* The map installed is the one made first; NF_DROP.
Install(c) ==
  /\ cpu[c].at = "install"
  /\ limit_map' = cpu[c].map
  /\ cpu' = [cpu EXCEPT ![c] = Idle]
  /\ Fate("drop", "none")
  /\ UNCHANGED <<order, life, made, alive, filled, config, capture, harmed, history>>

LoadStep(c) ==
  \/ CopyHead(c, "macs_of", "macs", "domains_of")
  \/ CopyHead(c, "domains_of", "domains", "macs")
  \/ LoadMacs(c) \/ LoadDomains(c) \/ Free(c) \/ Install(c)

-----------------------------------------------------------------------------
(* What the hook does with other packets *)

\* The answer is the query itself, sent and yet returned as NF_QUEUE.
RecvDns(p) ==
  /\ IsDns(p)
  /\ Fate("queue", "answer")
  /\ UNCHANGED capture

\* It asks for the configuration port, of what came to the capture port.
RecvCapture(p) ==
  /\ IsSetCapture(p)
  /\ capture' = IF IsConfig(p) THEN p.body ELSE capture
  /\ Fate(IF IsConfig(p) THEN "drop" ELSE "accept", "none")

\* Nothing counts as between client and server, so nothing is proxied.
Accept(p) ==
  /\ ~IsDns(p) /\ ~IsConfig(p) /\ ~IsSetCapture(p)
  /\ Fate("accept", IF IsGetCapture(p) THEN "copy" ELSE "none")
  /\ UNCHANGED capture

RouteNfHandle(c, p) ==
  /\ life = "live"
  /\ ~Loading(c)
  /\ RecvDns(p) \/ RecvCapture(p) \/ Accept(p)
  /\ UNCHANGED <<order, life, maps, config, cpu, harmed, history>>

-----------------------------------------------------------------------------
(* route_init and route_exit *)

\* The hooks come last, so nobody sees the steps before.
RouteInit ==
  /\ life = "out"
  /\ \A c \in Cpus : ~Loading(c)
  /\ life' = "live"
  /\ limit_map' = 1
  /\ made' = 1
  /\ alive' = {1}
  /\ filled' = {}
  /\ config' = NoConfig
  /\ capture' = {}
  /\ harmed' = FALSE
  /\ overlapped' = FALSE
  /\ overtaken' = FALSE
  /\ UNCHANGED <<order, cpu, fate>>

\* Some kernels wait for the hooks that run, others do not.
Unregister ==
  /\ life = "live"
  /\ life' = "unhooked"
  /\ overtaken' = \E c \in Cpus : Loading(c)
  /\ UNCHANGED <<order, maps, config, capture, cpu, fate, harmed, overlapped>>

RouteExit ==
  /\ life = "unhooked"
  /\ life' = "out"
  /\ FreeMap
  /\ UNCHANGED <<order, limit_map, made, filled, config, capture, cpu, fate, history>>

Next ==
  \/ RouteInit \/ Unregister \/ RouteExit
  \/ \E c \in Cpus :
       \/ \E p \in Packets : RecvConfig(c, p) \/ RouteNfHandle(c, p)
       \/ LoadStep(c)

Spec == Init /\ [][Next]_vars

-----------------------------------------------------------------------------
Quiet == \A c \in Cpus : ~Loading(c)

(***************************************************************************)
(* While configurations come one at a time, no map is freed twice, written *)
(* after it was freed, or lost: between them the map in force is the only  *)
(* one, and after route_exit there is none.  What it takes to break that   *)
(* is two CPUs in load_config, or an exit that does not wait for one.      *)
(***************************************************************************)
MapsBalanced ==
  ~overlapped /\ ~overtaken =>
    /\ ~harmed
    /\ Quiet => alive = IF life = "out" THEN {} ELSE {limit_map}

(***************************************************************************)
(* load_config reads what its message has of it and nothing else, but for  *)
(* three causes: the counts are overwritten under its hands; the message   *)
(* has a second domain, which is looked for in the first one's name; or    *)
(* the datagram has not all that its head, and the lengths of its names,   *)
(* announce.                                                               *)
(***************************************************************************)
ReadsItsOwn ==
  \A c \in Cpus :
    cpu[c].strayed => overlapped \/ cpu[c].msg.domains > 1 \/ ~Whole(cpu[c].msg)

(***************************************************************************)
(* Whatever arrives, in any order, on however many CPUs: between           *)
(* configurations no limit is in force, for entries go into the map that   *)
(* is then freed, and no packet is ever copied to a capturing client.      *)
(***************************************************************************)
NothingTakesEffect ==
  /\ life = "live" /\ Quiet => limit_map \notin filled
  /\ fate.sent # "copy"

=============================================================================
