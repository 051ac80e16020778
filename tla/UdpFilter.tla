----------------------------- MODULE UdpFilter -----------------------------
(***************************************************************************)
(* route/main.c: which forwarded UDP packets the hook captures.  The       *)
(* program behind the device sets, by ioctl, one subnet of LAN machines    *)
(* and one tunnel address per address family (xsky_set_udp_proxy_subnet,   *)
(* xsky_set_tunnel); the hook, on any CPU and with no lock, tests packets  *)
(* against them (handle_ipv4_dgram_in, handle_ipv6_dgram_in).              *)
(*                                                                         *)
(* The width of a byte and the lengths of addresses are parameters: the    *)
(* code has BITS = 8 and lengths 4 and 16.  One thread issues the ioctls.  *)
(* Bytes are stored and compared one at a time.  In which order is up to   *)
(* memset, memcpy, memcmp and what the compiler makes of a loop: any.      *)
(***************************************************************************)
EXTENDS Integers

CONSTANTS
  Hooks,      \* the CPUs that run the hook
  Families,   \* AF_INET and AF_INET6
  BITS,       \* bits in a byte
  Length,     \* Length[f]: bytes in an address of family f
  Sources,    \* Sources[f]: the addresses packets come from
  Networks    \* Networks[f]: the addresses the ioctls are given

\* A byte is its bits, the highest first.
Bytes == [0 .. BITS - 1 -> {0, 1}]
Address(f) == [0 .. Length[f] - 1 -> Bytes]

ASSUME FilterAssumption ==
  /\ BITS \in Nat \ {0}
  /\ \A f \in Families : Length[f] \in Nat \ {0}
ASSUME AddressAssumption ==
  \A f \in Families :
    Sources[f] \subseteq Address(f) /\ Networks[f] \subseteq Address(f)

VARIABLES
  subnet,     \* subnet and subnet6: address and prefix
  tunnel,     \* xsky_tunnel_addr and xsky_tunnel_addr6
  is_set_subnet,
  is_set_tunnel_addr,
  ioc,        \* the ioctl in progress: where it stands, its argument
  test,       \* per CPU: where the hook stands, its packet, the prefix read
  conf,       \* history: the subnet last asked for, per family
  seen,       \* history: per CPU, the subnets its test may have met: their
              \* addresses, and the shortest of their prefixes
  overlap     \* history: an ioctl ran during the test of this CPU

settings == <<subnet, is_set_subnet, tunnel, is_set_tunnel_addr>>
vars == <<settings, ioc, test, conf, seen, overlap>>

MaxPrefix(f) == BITS * Length[f]
ZeroByte == [j \in 0 .. BITS - 1 |-> 0]
Zero(f) == [i \in 0 .. Length[f] - 1 |-> ZeroByte]

\* tables[b - 1] & x: the b high bits of a byte.
HighBits(x, b) == [j \in 0 .. BITS - 1 |-> IF j < b THEN x[j] ELSE 0]

\* Faulty form: the bits of the last, incomplete byte are forgotten.
CalcSubnetWholeBytes(f, address, prefix) ==
  [i \in 0 .. Length[f] - 1 |->
     IF i < prefix \div BITS THEN address[i] ELSE ZeroByte]

\* calc_subnet: the first `prefix' bits of an address, the others zero.
CalcSubnet(f, address, prefix) ==
  LET a == prefix \div BITS
      b == prefix % BITS
  IN [i \in 0 .. Length[f] - 1 |->
        CASE i < a -> address[i]
          [] i = a /\ b # 0 -> HighBits(address[i], b)
          [] OTHER -> ZeroByte]

NoIoctl == [at |-> "idle"]
NoTest == [at |-> "idle"]
NothingSeen == [addresses |-> {}, shortest |-> 0]

Positions(f) == 0 .. Length[f] - 1

\* The bytes that hold some of the first `prefix' bits.
Masked(f, prefix) == {i \in Positions(f) : BITS * i < prefix}

Shorter(p, q) == IF p < q THEN p ELSE q

Init ==
  /\ subnet = [f \in Families |-> [address |-> Zero(f), prefix |-> 0]]
  /\ tunnel = [f \in Families |-> Zero(f)]
  /\ is_set_subnet = [f \in Families |-> FALSE]
  /\ is_set_tunnel_addr = [f \in Families |-> FALSE]
  /\ ioc = NoIoctl
  /\ test = [h \in Hooks |-> NoTest]
  /\ conf = subnet
  /\ seen = [h \in Hooks |-> NothingSeen]
  /\ overlap = [h \in Hooks |-> FALSE]

-----------------------------------------------------------------------------
(* chr_ioctl.  A prefix longer than the address is refused with -EINVAL. *)

Disturb == overlap' = [h \in Hooks |-> TRUE]

IoctlSubnet(f, address, prefix) ==
  /\ ioc.at = "idle"
  /\ prefix <= MaxPrefix(f)
  /\ ioc' = [at |-> "subnet", family |-> f, address |-> address,
             prefix |-> prefix, clear |-> Positions(f), store |-> Masked(f, prefix)]
  /\ conf' = [conf EXCEPT ![f] = [address |-> address, prefix |-> prefix]]
  /\ seen' = [h \in Hooks |->
       IF test[h].at # "idle" /\ test[h].family = f
       THEN [addresses |-> seen[h].addresses \cup {address},
             shortest |-> Shorter(seen[h].shortest, prefix)]
       ELSE seen[h]]
  /\ Disturb
  /\ UNCHANGED <<settings, test>>

\* calc_subnet works in place: it clears byte after byte, ...
SubnetClear(i) ==
  /\ ioc.at = "subnet" /\ i \in ioc.clear
  /\ subnet' = [subnet EXCEPT ![ioc.family].address[i] = ZeroByte]
  /\ ioc' = [ioc EXCEPT !.clear = @ \ {i}]
  /\ UNCHANGED <<is_set_subnet, tunnel, is_set_tunnel_addr, test, conf, seen, overlap>>

\* ... then it stores those that the prefix reaches.
StoreByte(i, byte) ==
  /\ ioc.at = "subnet" /\ ioc.clear = {} /\ i \in ioc.store
  /\ subnet' = [subnet EXCEPT ![ioc.family].address[i] = byte]
  /\ ioc' = [ioc EXCEPT !.store = @ \ {i}]
  /\ UNCHANGED <<is_set_subnet, tunnel, is_set_tunnel_addr, test, conf, seen, overlap>>

\* Faulty form: the last byte is stored as it came.
SubnetFillUnmasked(i) == StoreByte(i, ioc.address[i])

SubnetFill(i) == StoreByte(i, CalcSubnet(ioc.family, ioc.address, ioc.prefix)[i])

\* The prefix is stored last, and the flag that nothing reads.
SubnetPrefix ==
  /\ ioc.at = "subnet" /\ ioc.clear = {} /\ ioc.store = {}
  /\ subnet' = [subnet EXCEPT ![ioc.family].prefix = ioc.prefix]
  /\ is_set_subnet' = [is_set_subnet EXCEPT ![ioc.family] = TRUE]
  /\ ioc' = NoIoctl
  /\ UNCHANGED <<tunnel, is_set_tunnel_addr, test, conf, seen, overlap>>

IoctlTunnel(f, address) ==
  /\ ioc.at = "idle"
  /\ ioc' = [at |-> "tunnel", family |-> f, address |-> address,
             prefix |-> 0, clear |-> {}, store |-> Positions(f)]
  /\ Disturb
  /\ UNCHANGED <<settings, test, conf, seen>>

TunnelCopy(i) ==
  /\ ioc.at = "tunnel" /\ i \in ioc.store
  /\ tunnel' = [tunnel EXCEPT ![ioc.family][i] = ioc.address[i]]
  /\ ioc' = [ioc EXCEPT !.store = @ \ {i}]
  /\ UNCHANGED <<subnet, is_set_subnet, is_set_tunnel_addr, test, conf, seen, overlap>>

TunnelSet ==
  /\ ioc.at = "tunnel" /\ ioc.store = {}
  /\ is_set_tunnel_addr' = [is_set_tunnel_addr EXCEPT ![ioc.family] = TRUE]
  /\ ioc' = NoIoctl
  /\ UNCHANGED <<subnet, is_set_subnet, tunnel, test, conf, seen, overlap>>

-----------------------------------------------------------------------------
(* handle_ipv4_dgram_in and handle_ipv6_dgram_in, on CPU h *)

HookIn(h, f, saddr, daddr) ==
  /\ test[h].at = "idle"
  /\ test' = [test EXCEPT ![h] = [at |-> "flag", family |-> f, saddr |-> saddr,
                daddr |-> daddr, prefix |-> 0, left |-> {}]]
  /\ seen' = [seen EXCEPT ![h] =
       [addresses |-> {conf[f].address, subnet[f].address, Zero(f)},
        shortest |-> Shorter(conf[f].prefix, subnet[f].prefix)]]
  /\ overlap' = [overlap EXCEPT ![h] = ioc.at # "idle"]
  /\ UNCHANGED <<settings, ioc, conf>>

\* The next thing CPU h does to its packet; `left' is what memcmp has to compare.
Continue(h, at, left) ==
  /\ test' = [test EXCEPT ![h].at = at, ![h].left = left]
  /\ UNCHANGED <<settings, ioc, conf, seen, overlap>>

TestFlag(h) ==
  LET t == test[h] IN
  /\ t.at = "flag"
  /\ \/ is_set_tunnel_addr[t.family] /\ Continue(h, "tunnel", Positions(t.family))
     \/ ~is_set_tunnel_addr[t.family] /\ Continue(h, "prefix", {})

TestTunnel(h) ==
  LET t == test[h] IN
  /\ t.at = "tunnel"
  /\ \/ t.left = {} /\ Continue(h, "accept", {})
     \/ \E i \in t.left :
          \/ tunnel[t.family][i] = t.daddr[i] /\ Continue(h, "tunnel", t.left \ {i})
          \/ tunnel[t.family][i] # t.daddr[i] /\ Continue(h, "prefix", {})

\* xsky_is_subnet reads the prefix, masks the source on its stack, and
\* only then compares it with the address.
TestPrefix(h) ==
  LET f == test[h].family IN
  /\ test[h].at = "prefix"
  /\ test' = [test EXCEPT ![h].at = "compare", ![h].left = Positions(f),
                          ![h].prefix = subnet[f].prefix]
  /\ UNCHANGED <<settings, ioc, conf, seen, overlap>>

TestCompare(h) ==
  LET t == test[h]
      masked == CalcSubnet(t.family, t.saddr, t.prefix)
      Same(i) == masked[i] = subnet[t.family].address[i]
  IN
  /\ t.at = "compare"
  /\ \/ t.left = {} /\ Continue(h, "capture", {})
     \/ \E i \in t.left :
          \/ Same(i) /\ Continue(h, "compare", t.left \ {i})
          \/ ~Same(i) /\ Continue(h, "accept", {})

\* The verdict is returned (or the packet goes to xsky_queue_push).
HookDone(h) ==
  /\ test[h].at \in {"capture", "accept"}
  /\ test' = [test EXCEPT ![h] = NoTest]
  /\ seen' = [seen EXCEPT ![h] = NothingSeen]
  /\ overlap' = [overlap EXCEPT ![h] = FALSE]
  /\ UNCHANGED <<settings, ioc, conf>>

-----------------------------------------------------------------------------
Next ==
  \/ \E f \in Families : \E a \in Networks[f] :
       \/ \E p \in 0 .. MaxPrefix(f) + 1 : IoctlSubnet(f, a, p)
       \/ IoctlTunnel(f, a)
  \/ \E f \in Families : \E i \in Positions(f) :
       SubnetClear(i) \/ SubnetFill(i) \/ TunnelCopy(i)
  \/ SubnetPrefix
  \/ TunnelSet
  \/ \E h \in Hooks, f \in Families :
       \E s \in Sources[f], d \in Networks[f] : HookIn(h, f, s, d)
  \/ \E h \in Hooks :
       TestFlag(h) \/ TestTunnel(h) \/ TestPrefix(h) \/ TestCompare(h) \/ HookDone(h)

Spec == Init /\ [][Next]_vars

-----------------------------------------------------------------------------
Subnets(f) == [address : Address(f), prefix : 0 .. MaxPrefix(f)]
Ioctls(f) == [at : {"subnet", "tunnel"}, family : {f},
              address : Address(f), prefix : 0 .. MaxPrefix(f),
              clear : SUBSET Positions(f), store : SUBSET Positions(f)]
Tests(f) == [at : {"flag", "tunnel", "prefix", "compare", "capture", "accept"},
             family : {f}, saddr : Address(f), daddr : Address(f),
             prefix : 0 .. MaxPrefix(f), left : SUBSET Positions(f)]

TypeOK ==
  /\ DOMAIN subnet = Families /\ DOMAIN tunnel = Families /\ DOMAIN conf = Families
  /\ \A f \in Families :
       subnet[f] \in Subnets(f) /\ conf[f] \in Subnets(f) /\ tunnel[f] \in Address(f)
  /\ is_set_subnet \in [Families -> BOOLEAN]
  /\ is_set_tunnel_addr \in [Families -> BOOLEAN]
  /\ ioc = NoIoctl \/ \E f \in Families : ioc \in Ioctls(f)
  /\ DOMAIN test = Hooks
  /\ \A h \in Hooks : test[h] = NoTest \/ \E f \in Families : test[h] \in Tests(f)
  /\ overlap \in [Hooks -> BOOLEAN]
  /\ DOMAIN seen = Hooks

\* Bit k of an address, the first bit of the first byte being bit 0.
Bit(address, k) == address[k \div BITS][k % BITS]

\* The first n bits of two addresses are the same.
Agree(x, y, n) == \A k \in 0 .. n - 1 : Bit(x, k) = Bit(y, k)

\* Those of them that are in byte i are.
AgreeIn(i, x, y, n) ==
  \A k \in 0 .. n - 1 : k \div BITS = i => Bit(x, k) = Bit(y, k)

(***************************************************************************)
(* What the two ioctls ask for: a packet is captured if its source has the *)
(* prefix of the subnet last set for its family and its destination is not *)
(* the tunnel.  Until a subnet is set, that is any source.                 *)
(***************************************************************************)
Wanted(f, saddr, daddr) ==
  /\ Agree(saddr, conf[f].address, conf[f].prefix)
  /\ ~(is_set_tunnel_addr[f] /\ tunnel[f] = daddr)

(***************************************************************************)
(* A hook that no ioctl overlaps decides exactly that, whatever changes    *)
(* were made and interrupted by other hooks before.                        *)
(***************************************************************************)
Exact ==
  \A h \in Hooks :
    /\ test[h].at \in {"capture", "accept"}
    /\ ~overlap[h]
    => (test[h].at = "capture"
          <=> Wanted(test[h].family, test[h].saddr, test[h].daddr))

(***************************************************************************)
(* A hook that overlaps changes may compare each byte with another subnet, *)
(* or see it zeroed, under the prefix of a third, so that what it captures *)
(* need not be in any network that was ever asked for.  Even so no byte of *)
(* the source is outside all of them: on as many bits as the shortest of   *)
(* their prefixes reaches into it, it agrees with that byte of one of the  *)
(* subnets asked for meanwhile, or with zero.                              *)
(***************************************************************************)
NeverWider ==
  \A h \in Hooks :
    test[h].at = "capture" =>
      \A i \in Positions(test[h].family) :
        \E n \in seen[h].addresses : AgreeIn(i, test[h].saddr, n, seen[h].shortest)

(***************************************************************************)
(* dev_ctl.h:7 says that the ioctl sets the machines of the LAN whose UDP  *)
(* is proxied: then no packet is captured of a family whose machines have  *)
(* not been set.                                                           *)
(***************************************************************************)
SetMachinesOnly ==
  \A h \in Hooks : test[h].at = "capture" => is_set_subnet[test[h].family]

=============================================================================
