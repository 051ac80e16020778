-------------------------- MODULE UdpFilterProofs --------------------------
(***************************************************************************)
(* Proofs about the capture filter, for any number of CPUs and families,   *)
(* any width of a byte, any lengths of addresses and any ioctls.           *)
(***************************************************************************)
EXTENDS UdpFilter, TLAPS

-----------------------------------------------------------------------------
(* The byte and the bit a position is in *)

LEMMA Place ==
  ASSUME NEW k \in Nat
  PROVE  /\ k \div BITS \in Nat
         /\ k % BITS \in 0 .. BITS - 1
         /\ k = BITS * (k \div BITS) + (k % BITS)
<1>1. ASSUME NEW w \in Nat \ {0}
      PROVE  /\ k \div w \in Nat
             /\ k % w \in 0 .. w - 1
             /\ k = w * (k \div w) + (k % w)
  OBVIOUS
<1> QED
  BY <1>1, FilterAssumption

LEMMA Further ==
  ASSUME NEW i \in Nat, NEW j \in Nat, i < j
  PROVE  BITS * i + BITS <= BITS * j
<1>1. PICK n \in Nat : j = i + 1 + n
  <2>1. j - i - 1 \in Nat /\ j = i + 1 + (j - i - 1)
    OBVIOUS
  <2> QED
    BY <2>1
<1>2. BITS * j = BITS * i + BITS + BITS * n
  BY <1>1, FilterAssumption
<1>3. BITS * n >= 0 /\ BITS * i \in Nat /\ BITS * n \in Nat /\ BITS * j \in Nat
  BY FilterAssumption
<1> QED
  BY <1>2, <1>3, FilterAssumption

LEMMA PlaceUnique ==
  ASSUME NEW i \in Nat, NEW j \in 0 .. BITS - 1
  PROVE  /\ BITS * i + j \in Nat
         /\ (BITS * i + j) \div BITS = i
         /\ (BITS * i + j) % BITS = j
<1> DEFINE k == BITS * i + j
           a == k \div BITS
           b == k % BITS
<1>1. BITS * i \in Nat /\ k \in Nat
  BY FilterAssumption
<1>2. a \in Nat /\ b \in 0 .. BITS - 1 /\ k = BITS * a + b
  BY <1>1, Place
<1> HIDE DEF a, b
<1>3. BITS * a \in Nat
  BY <1>2, FilterAssumption
<1>4. ~(a < i) /\ ~(i < a)
  BY <1>1, <1>2, <1>3, Further, FilterAssumption
<1>5. a = i
  BY <1>2, <1>4
<1>6. b = j
  BY <1>2, <1>3, <1>5
<1> QED
  BY <1>1, <1>5, <1>6 DEF a, b

\* A position comes before another in an earlier byte, or earlier in its own.
LEMMA Earlier ==
  ASSUME NEW k \in Nat, NEW p \in Nat
  PROVE  k < p <=> \/ k \div BITS < p \div BITS
                   \/ k \div BITS = p \div BITS /\ k % BITS < p % BITS
<1> DEFINE q == k \div BITS
           r == p \div BITS
           c == k % BITS
           e == p % BITS
<1>1. /\ q \in Nat /\ c \in 0 .. BITS - 1 /\ k = BITS * q + c
      /\ r \in Nat /\ e \in 0 .. BITS - 1 /\ p = BITS * r + e
  BY Place
<1> HIDE DEF q, r, c, e
<1>2. BITS * q \in Nat /\ BITS * r \in Nat
  BY <1>1, FilterAssumption
<1>3. ASSUME q < r PROVE k < p
  BY <1>1, <1>2, <1>3, Further, FilterAssumption
<1>4. ASSUME r < q PROVE p < k
  BY <1>1, <1>2, <1>4, Further, FilterAssumption
<1>5. ASSUME q = r PROVE k < p <=> c < e
  BY <1>1, <1>2, <1>5
<1>6. k < p <=> q < r \/ (q = r /\ c < e)
  BY <1>1, <1>3, <1>4, <1>5
<1> QED
  BY <1>6 DEF q, r, c, e

LEMMA InAddress ==
  ASSUME NEW f \in Families, NEW k \in 0 .. MaxPrefix(f) - 1
  PROVE  k \in Nat /\ k \div BITS \in 0 .. Length[f] - 1 /\ k % BITS \in 0 .. BITS - 1
<1>1. Length[f] \in Nat /\ BITS * Length[f] \in Nat
  BY FilterAssumption
<1>2. k \in Nat /\ k < BITS * Length[f]
  BY <1>1 DEF MaxPrefix
<1>3. BITS * (k \div BITS) <= k /\ k \div BITS \in Nat /\ k % BITS \in 0 .. BITS - 1
      /\ BITS * (k \div BITS) \in Nat
  BY <1>2, Place, FilterAssumption
<1>4. ~(k \div BITS >= Length[f])
  <2> SUFFICES ASSUME k \div BITS >= Length[f] PROVE FALSE
    OBVIOUS
  <2>1. k \div BITS = Length[f] \/ Length[f] < k \div BITS
    BY <1>1, <1>3
  <2>2. BITS * (k \div BITS) >= BITS * Length[f]
    BY <1>1, <1>3, <2>1, Further, FilterAssumption
  <2> QED
    BY <1>1, <1>2, <1>3, <2>2
<1> QED
  BY <1>1, <1>2, <1>3, <1>4

-----------------------------------------------------------------------------
(* Addresses and their bits *)

LEMMA SameBits ==
  ASSUME NEW f \in Families, NEW x \in Address(f), NEW y \in Address(f),
         \A k \in 0 .. MaxPrefix(f) - 1 : Bit(x, k) = Bit(y, k)
  PROVE  x = y
<1>1. ASSUME NEW i \in 0 .. Length[f] - 1, NEW j \in 0 .. BITS - 1
      PROVE  x[i][j] = y[i][j]
  <2> DEFINE k == BITS * i + j
  <2>1. i \in Nat /\ Length[f] \in Nat /\ i < Length[f]
    BY FilterAssumption
  <2>2. k \in Nat /\ k \div BITS = i /\ k % BITS = j
    BY <2>1, PlaceUnique
  <2>3. k < BITS * Length[f]
    <3>1. BITS * i + BITS <= BITS * Length[f]
      BY <2>1, Further
    <3>2. BITS * i \in Nat /\ BITS * Length[f] \in Nat
      BY <2>1, FilterAssumption
    <3> QED
      BY <3>1, <3>2, FilterAssumption
  <2>4. BITS * Length[f] \in Nat
    BY <2>1, FilterAssumption
  <2> HIDE DEF k
  <2>5. k \in 0 .. MaxPrefix(f) - 1
    BY <2>2, <2>3, <2>4 DEF MaxPrefix
  <2>6. Bit(x, k) = Bit(y, k)
    BY <2>5
  <2> QED
    BY <2>2, <2>6 DEF Bit
<1>2. ASSUME NEW i \in 0 .. Length[f] - 1 PROVE x[i] = y[i]
  <2>1. x[i] \in Bytes /\ y[i] \in Bytes
    BY DEF Address
  <2>2. \A j \in 0 .. BITS - 1 : x[i][j] = y[i][j]
    BY <1>1
  <2>3. /\ x[i] = [j \in 0 .. BITS - 1 |-> x[i][j]]
        /\ y[i] = [j \in 0 .. BITS - 1 |-> y[i][j]]
    BY <2>1 DEF Bytes
  <2> QED
    BY <2>2, <2>3
<1>3. /\ x = [i \in 0 .. Length[f] - 1 |-> x[i]]
      /\ y = [i \in 0 .. Length[f] - 1 |-> y[i]]
  BY DEF Address
<1> QED
  BY <1>2, <1>3

\* calc_subnet, byte by byte, keeps the first `prefix' bits and clears the rest.
LEMMA MaskedBit ==
  ASSUME NEW f \in Families, NEW x \in Address(f), NEW p \in Nat,
         NEW k \in 0 .. MaxPrefix(f) - 1
  PROVE  Bit(CalcSubnet(f, x, p), k) = IF k < p THEN Bit(x, k) ELSE 0
<1> DEFINE i == k \div BITS
           j == k % BITS
           a == p \div BITS
           b == p % BITS
<1>1. k \in Nat /\ i \in 0 .. Length[f] - 1 /\ j \in 0 .. BITS - 1
  BY InAddress
<1>2. k < p <=> i < a \/ (i = a /\ j < b)
  BY <1>1, Earlier
<1>3. a \in Nat /\ b \in 0 .. BITS - 1
  BY Place
<1>4. CalcSubnet(f, x, p)[i] = CASE i < a -> x[i]
                                 [] i = a /\ b # 0 -> HighBits(x[i], b)
                                 [] OTHER -> ZeroByte
  BY <1>1 DEF CalcSubnet
<1>5. Length[f] \in Nat
  BY FilterAssumption
<1> HIDE DEF i, j, a, b
<1>6. CASE i < a
  <2>1. CalcSubnet(f, x, p)[i] = x[i]
    BY <1>1, <1>3, <1>4, <1>5, <1>6
  <2> QED
    BY <1>2, <1>6, <2>1 DEF Bit, i, j
<1>7. CASE i = a
  <2>1. CASE b # 0
    <3>1. CalcSubnet(f, x, p)[i] = HighBits(x[i], b)
      BY <1>3, <1>4, <1>7, <2>1
    <3>2. HighBits(x[i], b)[j] = IF j < b THEN x[i][j] ELSE 0
      BY <1>1 DEF HighBits
    <3>3. k < p <=> j < b
      BY <1>2, <1>3, <1>7
    <3> QED
      BY <3>1, <3>2, <3>3 DEF Bit, i, j
  <2>2. CASE b = 0
    <3>1. CalcSubnet(f, x, p)[i] = ZeroByte
      BY <1>3, <1>4, <1>7, <2>2
    <3>2. ZeroByte[j] = 0
      BY <1>1 DEF ZeroByte
    <3>3. ~(k < p)
      BY <1>1, <1>2, <1>3, <1>7, <2>2
    <3> QED
      BY <3>1, <3>2, <3>3 DEF Bit, i, j
  <2> QED
    BY <2>1, <2>2
<1>8. CASE a < i
  <2>1. CalcSubnet(f, x, p)[i] = ZeroByte
    BY <1>1, <1>3, <1>4, <1>5, <1>8
  <2>2. ZeroByte[j] = 0
    BY <1>1 DEF ZeroByte
  <2>3. ~(k < p)
    BY <1>1, <1>2, <1>3, <1>5, <1>8
  <2> QED
    BY <2>1, <2>2, <2>3 DEF Bit, i, j
<1> QED
  BY <1>1, <1>3, <1>5, <1>6, <1>7, <1>8

LEMMA ZeroTyped == ASSUME NEW f \in Families PROVE Zero(f) \in Address(f)
BY DEF Zero, Address, ZeroByte, Bytes

LEMMA MaskTyped ==
  ASSUME NEW f \in Families, NEW x \in Address(f), NEW p \in Nat
  PROVE  CalcSubnet(f, x, p) \in Address(f)
<1> SUFFICES ASSUME NEW i \in 0 .. Length[f] - 1
             PROVE  CalcSubnet(f, x, p)[i] \in Bytes
  BY DEF CalcSubnet, Address
<1>1. x[i] \in Bytes
  BY DEF Address
<1>2. ASSUME NEW b PROVE HighBits(x[i], b) \in Bytes
  BY <1>1 DEF HighBits, Bytes
<1>3. ZeroByte \in Bytes
  BY DEF ZeroByte, Bytes
<1> QED
  BY <1>1, <1>2, <1>3 DEF CalcSubnet

\* Masked alike are those that agree, and a mask changes nothing before its end.
LEMMA MaskedAlike ==
  ASSUME NEW f \in Families, NEW x \in Address(f), NEW y \in Address(f),
         NEW p \in 0 .. MaxPrefix(f)
  PROVE  CalcSubnet(f, x, p) = CalcSubnet(f, y, p) <=> Agree(x, y, p)
<1>1. p \in Nat /\ \A k \in 0 .. p - 1 : k \in 0 .. MaxPrefix(f) - 1 /\ k < p
  BY FilterAssumption DEF MaxPrefix
<1>2. ASSUME CalcSubnet(f, x, p) = CalcSubnet(f, y, p), NEW k \in 0 .. p - 1
      PROVE  Bit(x, k) = Bit(y, k)
  <2>1. /\ Bit(CalcSubnet(f, x, p), k) = Bit(x, k)
        /\ Bit(CalcSubnet(f, y, p), k) = Bit(y, k)
    BY <1>1, MaskedBit
  <2> QED
    BY <1>2, <2>1
<1>3. ASSUME Agree(x, y, p) PROVE CalcSubnet(f, x, p) = CalcSubnet(f, y, p)
  <2>1. ASSUME NEW k \in 0 .. MaxPrefix(f) - 1
        PROVE  Bit(CalcSubnet(f, x, p), k) = Bit(CalcSubnet(f, y, p), k)
    <3>1. k < p => k \in 0 .. p - 1
      BY <1>1
    <3>2. k < p => Bit(x, k) = Bit(y, k)
      BY <1>3, <3>1 DEF Agree
    <3> QED
      BY <1>1, <3>2, MaskedBit
  <2> QED
    BY <1>1, <2>1, MaskTyped, SameBits
<1> QED
  BY <1>2, <1>3 DEF Agree

\* Bytes that the prefix does not reach are cleared.
LEMMA Unmasked ==
  ASSUME NEW f \in Families, NEW x, NEW p \in Nat, NEW i \in Positions(f) \ Masked(f, p)
  PROVE  CalcSubnet(f, x, p)[i] = ZeroByte
<1> DEFINE a == p \div BITS
           b == p % BITS
<1>1. a \in Nat /\ b \in 0 .. BITS - 1 /\ p = BITS * a + b
  BY Place
<1>2. i \in 0 .. Length[f] - 1 /\ i \in Nat /\ ~(BITS * i < p)
  BY FilterAssumption DEF Positions, Masked
<1>3. CalcSubnet(f, x, p)[i] = CASE i < a -> x[i]
                                 [] i = a /\ b # 0 -> HighBits(x[i], b)
                                 [] OTHER -> ZeroByte
  BY <1>2 DEF CalcSubnet
<1> HIDE DEF a, b
<1>4. BITS * a \in Nat /\ BITS * i \in Nat
  BY <1>1, <1>2, FilterAssumption
<1>5. ~(i < a)
  <2> SUFFICES ASSUME i < a PROVE FALSE
    OBVIOUS
  <2>1. BITS * i + BITS <= BITS * a
    BY <1>1, <1>2, Further
  <2> QED
    BY <1>1, <1>2, <1>4, <2>1, FilterAssumption
<1>6. ~(i = a /\ b # 0)
  <2> SUFFICES ASSUME i = a, b # 0 PROVE FALSE
    OBVIOUS
  <2>1. BITS * i = BITS * a
    OBVIOUS
  <2> QED
    BY <1>1, <1>2, <1>4, <2>1
<1> QED
  BY <1>3, <1>5, <1>6

LEMMA SameBytes ==
  ASSUME NEW f \in Families, NEW x \in Address(f), NEW y \in Address(f),
         \A i \in Positions(f) : x[i] = y[i]
  PROVE  x = y
<1>1. /\ x = [i \in 0 .. Length[f] - 1 |-> x[i]]
      /\ y = [i \in 0 .. Length[f] - 1 |-> y[i]]
  BY DEF Address
<1> QED
  BY <1>1 DEF Positions

LEMMA MaskAgrees ==
  ASSUME NEW f \in Families, NEW x \in Address(f), NEW p \in 0 .. MaxPrefix(f),
         NEW n \in 0 .. p, NEW i
  PROVE  AgreeIn(i, x, CalcSubnet(f, x, p), n)
<1> SUFFICES ASSUME NEW k \in 0 .. n - 1 PROVE Bit(x, k) = Bit(CalcSubnet(f, x, p), k)
  BY DEF AgreeIn
<1>1. p \in Nat /\ k \in 0 .. MaxPrefix(f) - 1 /\ k < p
  BY FilterAssumption DEF MaxPrefix
<1> QED
  BY <1>1, MaskedBit

LEMMA SameAgrees ==
  ASSUME NEW i, NEW x, NEW y, NEW n, x[i] = y[i] PROVE AgreeIn(i, x, y, n)
BY DEF AgreeIn, Bit

LEMMA AgreeTransitive ==
  ASSUME NEW i, NEW x, NEW y, NEW z, NEW n, AgreeIn(i, x, y, n), AgreeIn(i, y, z, n)
  PROVE  AgreeIn(i, x, z, n)
BY DEF AgreeIn

LEMMA AgreeSymmetric ==
  ASSUME NEW i, NEW x, NEW y, NEW n, AgreeIn(i, x, y, n) PROVE AgreeIn(i, y, x, n)
BY DEF AgreeIn

LEMMA AgreeShorter ==
  ASSUME NEW i, NEW x, NEW y, NEW n \in Nat, NEW m \in 0 .. n, AgreeIn(i, x, y, n)
  PROVE  AgreeIn(i, x, y, m)
BY DEF AgreeIn

-----------------------------------------------------------------------------
(* The invariant *)

\* A family's subnet is what was last asked for, masked, but for the bytes and
\* the prefix that the ioctl under way has yet to store.
Settled ==
  \A f \in Families :
    LET asked == CalcSubnet(f, conf[f].address, conf[f].prefix)
    IN IF ioc.at = "subnet" /\ ioc.family = f
       THEN /\ ioc.address = conf[f].address /\ ioc.prefix = conf[f].prefix
            /\ ioc.clear # {} => ioc.store = Masked(f, ioc.prefix)
            /\ \A i \in Positions(f) \ (ioc.clear \cup ioc.store) :
                 subnet[f].address[i] = asked[i]
       ELSE subnet[f] = [address |-> asked, prefix |-> conf[f].prefix]

\* Byte i of an address is no other than what the history has.
Known(i, address, known, least) == \E n \in known : AgreeIn(i, address, n, least)

\* Of a subnet s that may be read, while c is asked for.
NearBy(f, c, s, known, least) ==
  /\ known \subseteq Address(f) /\ {c.address, Zero(f)} \subseteq known
  /\ least \in 0 .. c.prefix /\ least \in 0 .. s.prefix
  /\ \A i \in Positions(f) : Known(i, s.address, known, least)

\* The same of what a CPU has read and found.
NearTest(f, t, known, least) ==
  /\ t.at = "compare" => least \in 0 .. t.prefix
  /\ t.at = "compare" => \A i \in Positions(f) \ t.left : Known(i, t.saddr, known, least)
  /\ t.at = "capture" => \A i \in Positions(f) : Known(i, t.saddr, known, least)

Near ==
  \A h \in Hooks : test[h].at # "idle" =>
    LET f == test[h].family
    IN /\ NearBy(f, conf[f], subnet[f], seen[h].addresses, seen[h].shortest)
       /\ NearTest(f, test[h], seen[h].addresses, seen[h].shortest)

\* A CPU that no ioctl has disturbed reads settled variables only.
Undisturbed(t) ==
  LET f == t.family
      toTunnel == is_set_tunnel_addr[f] /\ tunnel[f] = t.daddr
  IN /\ t.at = "tunnel" => /\ is_set_tunnel_addr[f]
                           /\ \A i \in Positions(f) \ t.left : tunnel[f][i] = t.daddr[i]
     /\ t.at \in {"prefix", "compare", "capture"} => ~toTunnel
     /\ t.at = "compare" =>
          /\ t.prefix = conf[f].prefix
          /\ \A i \in Positions(f) \ t.left :
               CalcSubnet(f, t.saddr, t.prefix)[i] = subnet[f].address[i]
     /\ t.at \in {"capture", "accept"} =>
          (t.at = "capture" <=> Wanted(f, t.saddr, t.daddr))

Steady ==
  \A h \in Hooks : test[h].at # "idle" /\ ~overlap[h] =>
    ioc.at = "idle" /\ Undisturbed(test[h])

-----------------------------------------------------------------------------
(* Types *)

LEMMA PrefixBound ==
  ASSUME NEW f \in Families
  PROVE  MaxPrefix(f) \in Nat
BY FilterAssumption DEF MaxPrefix

LEMMA BusyTest ==
  ASSUME TypeOK, NEW h \in Hooks, test[h].at # "idle"
  PROVE  test[h].family \in Families /\ test[h] \in Tests(test[h].family)
BY DEF TypeOK, NoTest, Tests

LEMMA BusyIoctl ==
  ASSUME TypeOK, ioc.at # "idle"
  PROVE  ioc.family \in Families /\ ioc \in Ioctls(ioc.family)
BY DEF TypeOK, NoIoctl, Ioctls

LEMMA InitType == Init => TypeOK
<1> SUFFICES ASSUME Init PROVE TypeOK
  OBVIOUS
<1>1. \A f \in Families : Zero(f) \in Address(f) /\ 0 \in 0 .. MaxPrefix(f)
  BY ZeroTyped, PrefixBound
<1> QED
  BY <1>1 DEF Init, TypeOK, Subnets

\* The steps of the thread that issues ioctls, and those of a CPU.
IoctlStep ==
  \/ \E f \in Families : \E a \in Networks[f] :
       \/ \E p \in 0 .. MaxPrefix(f) + 1 : IoctlSubnet(f, a, p)
       \/ IoctlTunnel(f, a)
  \/ \E f \in Families : \E i \in Positions(f) :
       SubnetClear(i) \/ SubnetFill(i) \/ TunnelCopy(i)
  \/ SubnetPrefix
  \/ TunnelSet

HookStep(h) ==
  \/ \E f \in Families : \E s \in Sources[f], d \in Networks[f] : HookIn(h, f, s, d)
  \/ TestFlag(h) \/ TestTunnel(h) \/ TestPrefix(h) \/ TestCompare(h) \/ HookDone(h)

LEMMA Steps == Next => IoctlStep \/ \E h \in Hooks : HookStep(h)
BY DEF Next, IoctlStep, HookStep

\* A byte of an address is replaced by another byte.
LEMMA ByteStored ==
  ASSUME NEW f \in Families, NEW x \in Address(f), NEW i \in Positions(f), NEW b \in Bytes
  PROVE  /\ [x EXCEPT ![i] = b] \in Address(f)
         /\ \A j \in Positions(f) : [x EXCEPT ![i] = b][j] = IF j = i THEN b ELSE x[j]
BY DEF Address, Positions

LEMMA ZeroByteTyped == ZeroByte \in Bytes
BY DEF ZeroByte, Bytes

\* What storing byte i of the subnet does, to a family's subnet and to the ioctl.
LEMMA Stored ==
  ASSUME TypeOK, ioc.at = "subnet", NEW i \in ioc.clear \cup ioc.store, NEW b \in Bytes,
         subnet' = [subnet EXCEPT ![ioc.family].address[i] = b]
  PROVE  LET f == ioc.family
             x == subnet'[f].address
         IN /\ f \in Families /\ ioc \in Ioctls(f) /\ i \in Positions(f)
            /\ x \in Address(f)
            /\ \A j \in Positions(f) : x[j] = IF j = i THEN b ELSE subnet[f].address[j]
            /\ subnet'[f] = [address |-> x, prefix |-> subnet[f].prefix]
            /\ subnet'[f] \in Subnets(f)
            /\ \A g \in Families \ {f} : subnet'[g] = subnet[g]
            /\ DOMAIN subnet' = Families
<1> DEFINE f == ioc.family
           y == subnet[f].address
           x == [y EXCEPT ![i] = b]
<1>1. f \in Families /\ ioc \in Ioctls(f)
  BY BusyIoctl
<1>2. i \in Positions(f) /\ subnet[f] \in Subnets(f) /\ y \in Address(f)
  BY <1>1 DEF Ioctls, TypeOK, Subnets
<1>3. /\ x \in Address(f)
      /\ \A j \in Positions(f) : x[j] = IF j = i THEN b ELSE y[j]
  BY <1>1, <1>2, ByteStored
<1>4. DOMAIN subnet = Families
  BY DEF TypeOK
<1>5. /\ subnet'[f] = [subnet[f] EXCEPT !.address = x]
      /\ \A g \in Families \ {f} : subnet'[g] = subnet[g]
      /\ DOMAIN subnet' = Families
  BY <1>1, <1>4
<1> HIDE DEF x
<1>6. subnet'[f] = [address |-> x, prefix |-> subnet[f].prefix] /\ subnet'[f].address = x
  BY <1>2, <1>5 DEF Subnets
<1>7. subnet'[f] \in Subnets(f)
  BY <1>2, <1>3, <1>6 DEF Subnets
<1> QED
  BY <1>1, <1>2, <1>3, <1>5, <1>6, <1>7

LEMMA MaskedByte ==
  ASSUME TypeOK, ioc.at = "subnet", NEW i \in ioc.clear \cup ioc.store
  PROVE  CalcSubnet(ioc.family, ioc.address, ioc.prefix)[i] \in Bytes
<1>1. ioc.family \in Families /\ ioc \in Ioctls(ioc.family)
  BY BusyIoctl
<1>2. CalcSubnet(ioc.family, ioc.address, ioc.prefix) \in Address(ioc.family)
  BY <1>1, MaskTyped, PrefixBound DEF Ioctls
<1>3. i \in Positions(ioc.family)
  BY <1>1 DEF Ioctls
<1> QED
  BY <1>2, <1>3 DEF Address, Positions

LEMMA IoctlKeepsType == ASSUME TypeOK, IoctlStep PROVE TypeOK'
<1>1. ASSUME NEW f \in Families, NEW a \in Networks[f], NEW p \in 0 .. MaxPrefix(f) + 1,
             IoctlSubnet(f, a, p)
      PROVE  TypeOK'
  <2>1. a \in Address(f) /\ p \in 0 .. MaxPrefix(f)
    BY <1>1, AddressAssumption, PrefixBound DEF IoctlSubnet
  <2>2. conf'[f] \in Subnets(f) /\ ioc' \in Ioctls(f)
    BY <1>1, <2>1 DEF IoctlSubnet, TypeOK, Subnets, Ioctls, Masked
  <2> QED
    BY <1>1, <2>2 DEF IoctlSubnet, TypeOK, settings, Disturb
<1>2. ASSUME NEW f \in Families, NEW a \in Networks[f], IoctlTunnel(f, a)
      PROVE  TypeOK'
  <2>1. a \in Address(f) /\ 0 \in 0 .. MaxPrefix(f)
    BY AddressAssumption, PrefixBound
  <2>2. ioc' \in Ioctls(f)
    BY <1>2, <2>1 DEF IoctlTunnel, Ioctls
  <2> QED
    BY <1>2, <2>2 DEF IoctlTunnel, TypeOK, settings, Disturb
<1>3. ASSUME NEW i, SubnetClear(i) PROVE TypeOK'
  <2>1. subnet'[ioc.family] \in Subnets(ioc.family) /\ DOMAIN subnet' = Families
        /\ ioc.family \in Families /\ ioc \in Ioctls(ioc.family)
        /\ \A g \in Families \ {ioc.family} : subnet'[g] = subnet[g]
    BY <1>3, Stored, ZeroByteTyped DEF SubnetClear
  <2>2. ioc' \in Ioctls(ioc.family)
    BY <1>3, <2>1 DEF SubnetClear, Ioctls
  <2> QED
    BY <1>3, <2>1, <2>2 DEF SubnetClear, TypeOK
<1>4. ASSUME NEW i, SubnetFill(i) PROVE TypeOK'
  <2> DEFINE b == CalcSubnet(ioc.family, ioc.address, ioc.prefix)[i]
  <2>1. b \in Bytes
    BY <1>4, MaskedByte DEF SubnetFill, StoreByte
  <2>2. StoreByte(i, b)
    BY <1>4 DEF SubnetFill
  <2> HIDE DEF b
  <2>3. subnet'[ioc.family] \in Subnets(ioc.family) /\ DOMAIN subnet' = Families
        /\ ioc.family \in Families /\ ioc \in Ioctls(ioc.family)
        /\ \A g \in Families \ {ioc.family} : subnet'[g] = subnet[g]
    BY <2>1, <2>2, Stored DEF StoreByte
  <2>4. ioc' \in Ioctls(ioc.family)
    BY <2>2, <2>3 DEF StoreByte, Ioctls
  <2> QED
    BY <2>2, <2>3, <2>4 DEF StoreByte, TypeOK
<1>5. CASE SubnetPrefix
  <2>1. ioc \in Ioctls(ioc.family) /\ ioc.family \in Families
    BY <1>5, BusyIoctl DEF SubnetPrefix
  <2>2. subnet'[ioc.family] \in Subnets(ioc.family)
    BY <1>5, <2>1 DEF SubnetPrefix, Ioctls, Subnets, TypeOK
  <2> QED
    BY <1>5, <2>1, <2>2 DEF SubnetPrefix, TypeOK
<1>6. ASSUME NEW i, TunnelCopy(i) PROVE TypeOK'
  <2>1. ioc \in Ioctls(ioc.family) /\ ioc.family \in Families /\ i \in Positions(ioc.family)
    BY <1>6, BusyIoctl DEF TunnelCopy, Ioctls
  <2>2. ioc.address[i] \in Bytes /\ tunnel[ioc.family] \in Address(ioc.family)
    BY <2>1 DEF Ioctls, Address, Positions, TypeOK
  <2>3. tunnel'[ioc.family] = [tunnel[ioc.family] EXCEPT ![i] = ioc.address[i]]
    BY <1>6, <2>1 DEF TunnelCopy, TypeOK
  <2>4. tunnel'[ioc.family] \in Address(ioc.family)
    BY <2>1, <2>2, <2>3, ByteStored
  <2>5. ioc' \in Ioctls(ioc.family)
    BY <1>6, <2>1 DEF TunnelCopy, Ioctls
  <2> QED
    BY <1>6, <2>1, <2>4, <2>5 DEF TunnelCopy, TypeOK
<1>7. CASE TunnelSet
  <2>1. ioc.family \in Families
    BY <1>7, BusyIoctl DEF TunnelSet
  <2> QED
    BY <1>7, <2>1 DEF TunnelSet, TypeOK
<1> QED
  BY <1>1, <1>2, <1>3, <1>4, <1>5, <1>6, <1>7 DEF IoctlStep

\* A test goes on: its stage and the bytes left change, nothing else of it.
LEMMA Continued ==
  ASSUME TypeOK, NEW h \in Hooks, test[h].at # "idle",
         NEW at \in {"flag", "tunnel", "prefix", "compare", "capture", "accept"},
         NEW left \in SUBSET Positions(test[h].family),
         Continue(h, at, left)
  PROVE  LET t == test[h]
             u == test'[h]
         IN /\ u \in Tests(t.family) /\ t \in Tests(t.family) /\ t.family \in Families
            /\ u.at = at /\ u.left = left /\ u.family = t.family
            /\ u.saddr = t.saddr /\ u.daddr = t.daddr /\ u.prefix = t.prefix
            /\ test' = [test EXCEPT ![h] = u]
            /\ seen' = seen /\ overlap' = overlap
            /\ UNCHANGED <<settings, ioc, conf>>
<1>1. test[h].family \in Families /\ test[h] \in Tests(test[h].family)
  BY BusyTest
<1>2. test'[h] = [test[h] EXCEPT !.at = at, !.left = left]
      /\ test' = [test EXCEPT ![h] = test'[h]]
  BY DEF Continue, TypeOK
<1>3. /\ test'[h].at = at /\ test'[h].left = left /\ test'[h].family = test[h].family
      /\ test'[h].saddr = test[h].saddr /\ test'[h].daddr = test[h].daddr
      /\ test'[h].prefix = test[h].prefix
  BY <1>1, <1>2 DEF Tests
<1>4. test'[h] \in Tests(test[h].family)
  BY <1>1, <1>2 DEF Tests
<1> QED
  BY <1>1, <1>2, <1>3, <1>4 DEF Continue

\* The steps that go on with a test, one by one: where it goes, and what it knows.
Onward(h, at, left) ==
  LET t == test[h]
      f == t.family
      masked == CalcSubnet(f, t.saddr, t.prefix)
      inside == subnet[f].address
  IN
  \/ t.at = "flag" /\ is_set_tunnel_addr[f] /\ at = "tunnel" /\ left = Positions(f)
  \/ t.at = "flag" /\ ~is_set_tunnel_addr[f] /\ at = "prefix" /\ left = {}
  \/ t.at = "tunnel" /\ t.left = {} /\ at = "accept" /\ left = {}
  \/ /\ t.at = "tunnel" /\ at = "tunnel"
     /\ \E i \in t.left : tunnel[f][i] = t.daddr[i] /\ left = t.left \ {i}
  \/ /\ t.at = "tunnel" /\ at = "prefix" /\ left = {}
     /\ \E i \in t.left : tunnel[f][i] # t.daddr[i]
  \/ t.at = "compare" /\ t.left = {} /\ at = "capture" /\ left = {}
  \/ /\ t.at = "compare" /\ at = "compare"
     /\ \E i \in t.left : masked[i] = inside[i] /\ left = t.left \ {i}
  \/ /\ t.at = "compare" /\ at = "accept" /\ left = {}
     /\ \E i \in t.left : masked[i] # inside[i]

LEMMA Goes ==
  ASSUME TypeOK, NEW h \in Hooks, TestFlag(h) \/ TestTunnel(h) \/ TestCompare(h)
  PROVE  /\ test[h].at # "idle"
         /\ \E at \in {"flag", "tunnel", "prefix", "compare", "capture", "accept"} :
              \E left \in SUBSET Positions(test[h].family) :
                Continue(h, at, left) /\ Onward(h, at, left)
<1>1. test[h].at # "idle"
  BY DEF TestFlag, TestTunnel, TestCompare
<1>2. test[h].left \subseteq Positions(test[h].family)
  BY <1>1, BusyTest DEF Tests
<1>3. CASE TestFlag(h)
  BY <1>1, <1>3 DEF TestFlag, Onward
<1>4. CASE TestTunnel(h)
  <2>1. CASE test[h].left = {} /\ Continue(h, "accept", {})
    BY <1>1, <1>4, <2>1 DEF TestTunnel, Onward
  <2>2. ASSUME NEW i \in test[h].left, tunnel[test[h].family][i] = test[h].daddr[i],
               Continue(h, "tunnel", test[h].left \ {i})
        PROVE  Onward(h, "tunnel", test[h].left \ {i})
    BY <1>4, <2>2 DEF TestTunnel, Onward
  <2>3. ASSUME NEW i \in test[h].left, tunnel[test[h].family][i] # test[h].daddr[i],
               Continue(h, "prefix", {})
        PROVE  Onward(h, "prefix", {})
    BY <1>4, <2>3 DEF TestTunnel, Onward
  <2> QED
    BY <1>1, <1>2, <1>4, <2>1, <2>2, <2>3 DEF TestTunnel
<1>5. CASE TestCompare(h)
  <2> DEFINE masked == CalcSubnet(test[h].family, test[h].saddr, test[h].prefix)
             inside == subnet[test[h].family].address
  <2>1. CASE test[h].left = {} /\ Continue(h, "capture", {})
    BY <1>1, <1>5, <2>1 DEF TestCompare, Onward
  <2>2. ASSUME NEW i \in test[h].left, masked[i] = inside[i],
               Continue(h, "compare", test[h].left \ {i})
        PROVE  Onward(h, "compare", test[h].left \ {i})
    BY <1>5, <2>2 DEF TestCompare, Onward
  <2>3. ASSUME NEW i \in test[h].left, masked[i] # inside[i], Continue(h, "accept", {})
        PROVE  Onward(h, "accept", {})
    BY <1>5, <2>3 DEF TestCompare, Onward
  <2> QED
    BY <1>1, <1>2, <1>5, <2>1, <2>2, <2>3 DEF TestCompare
<1> QED
  BY <1>1, <1>3, <1>4, <1>5

LEMMA HookKeepsType == ASSUME TypeOK, NEW h \in Hooks, HookStep(h) PROVE TypeOK'
<1>1. ASSUME test'[h] = NoTest \/ \E f \in Families : test'[h] \in Tests(f),
             test' = [test EXCEPT ![h] = test'[h]],
             DOMAIN seen' = Hooks,
             overlap' \in [Hooks -> BOOLEAN],
             UNCHANGED <<settings, ioc, conf>>
      PROVE  TypeOK'
  BY <1>1 DEF TypeOK, settings
<1>2. ASSUME NEW f \in Families, NEW s \in Sources[f], NEW d \in Networks[f], HookIn(h, f, s, d)
      PROVE  TypeOK'
  <2>1. s \in Address(f) /\ d \in Address(f) /\ 0 \in 0 .. MaxPrefix(f)
    BY AddressAssumption, PrefixBound
  <2>2. test'[h] \in Tests(f)
    BY <1>2, <2>1 DEF HookIn, Tests, TypeOK
  <2> QED
    BY <1>1, <1>2, <2>2 DEF HookIn, TypeOK
<1>3. CASE TestFlag(h) \/ TestTunnel(h) \/ TestCompare(h)
  <2>1. test'[h] \in Tests(test[h].family) /\ test[h].family \in Families
        /\ test' = [test EXCEPT ![h] = test'[h]]
        /\ seen' = seen /\ overlap' = overlap /\ UNCHANGED <<settings, ioc, conf>>
    BY <1>3, Goes, Continued
  <2>2. DOMAIN seen' = Hooks /\ overlap' \in [Hooks -> BOOLEAN]
    BY <2>1 DEF TypeOK
  <2> QED
    BY <1>1, <2>1, <2>2
<1>4. CASE TestPrefix(h)
  <2>1. test[h].family \in Families /\ test[h] \in Tests(test[h].family)
    BY <1>4, BusyTest DEF TestPrefix
  <2>2. subnet[test[h].family].prefix \in 0 .. MaxPrefix(test[h].family)
    BY <2>1 DEF TypeOK, Subnets
  <2>3. test'[h] \in Tests(test[h].family)
    BY <1>4, <2>1, <2>2 DEF TestPrefix, Tests, TypeOK
  <2> QED
    BY <1>1, <1>4, <2>1, <2>3 DEF TestPrefix, TypeOK
<1>5. CASE HookDone(h)
  BY <1>1, <1>5 DEF HookDone, TypeOK
<1> QED
  BY <1>2, <1>3, <1>4, <1>5 DEF HookStep

\* What a step of a CPU leaves alone.
LEMMA HookLocal ==
  ASSUME TypeOK, NEW h \in Hooks, HookStep(h)
  PROVE  /\ UNCHANGED <<settings, ioc, conf>>
         /\ \A g \in Hooks \ {h} :
              test'[g] = test[g] /\ seen'[g] = seen[g] /\ overlap'[g] = overlap[g]
BY DEF HookStep, HookIn, TestFlag, TestTunnel, TestPrefix, TestCompare, Continue, HookDone,
       TypeOK

\* What an ioctl does to the tests under way: all are disturbed when it starts.
LEMMA IoctlLocal ==
  ASSUME TypeOK, IoctlStep
  PROVE  /\ test' = test
         /\ \/ ioc.at # "idle" /\ overlap' = overlap /\ seen' = seen /\ conf' = conf
            \/ \A h \in Hooks : overlap'[h]
BY DEF IoctlStep, IoctlSubnet, IoctlTunnel, Disturb, SubnetClear, SubnetFill, StoreByte,
     SubnetPrefix, TunnelCopy, TunnelSet, settings

-----------------------------------------------------------------------------
(* Settled *)

LEMMA NothingAsked == ASSUME NEW f \in Families PROVE CalcSubnet(f, Zero(f), 0) = Zero(f)
<1>1. Zero(f) \in Address(f) /\ CalcSubnet(f, Zero(f), 0) \in Address(f)
  BY ZeroTyped, MaskTyped
<1>2. ASSUME NEW k \in 0 .. MaxPrefix(f) - 1
      PROVE  Bit(CalcSubnet(f, Zero(f), 0), k) = Bit(Zero(f), k)
  <2>1. Bit(Zero(f), k) = 0
    BY InAddress DEF Bit, Zero, ZeroByte
  <2> QED
    BY <1>1, <2>1, MaskedBit
<1> QED
  BY <1>1, <1>2, SameBits

LEMMA InitSettled == Init => Settled
BY NothingAsked DEF Init, Settled, NoIoctl

LEMMA StepSettled == ASSUME TypeOK, Settled, [Next]_vars PROVE Settled'
<1>1. CASE UNCHANGED <<subnet, ioc, conf>>
  BY <1>1 DEF Settled
<1>2. ASSUME NEW f \in Families, NEW a \in Networks[f], NEW p \in 0 .. MaxPrefix(f) + 1,
             IoctlSubnet(f, a, p)
      PROVE  Settled'
  <2>1. /\ conf'[f] = [address |-> a, prefix |-> p]
        /\ \A g \in Families \ {f} : conf'[g] = conf[g]
        /\ ioc' = [at |-> "subnet", family |-> f, address |-> a, prefix |-> p,
                   clear |-> Positions(f), store |-> Masked(f, p)]
        /\ ioc.at = "idle" /\ subnet' = subnet
    BY <1>2 DEF IoctlSubnet, TypeOK, settings
  <2>2. ioc'.at = "subnet" /\ ioc'.family = f /\ ioc'.address = a /\ ioc'.prefix = p
        /\ ioc'.clear = Positions(f) /\ ioc'.store = Masked(f, p)
    BY <2>1
  <2> QED
    BY <2>1, <2>2 DEF Settled
<1>3. ASSUME \/ \E f \in Families : \E a \in Networks[f] : IoctlTunnel(f, a)
             \/ \E i : TunnelCopy(i)
             \/ TunnelSet
      PROVE  Settled'
  <2>1. ASSUME NEW i, TunnelCopy(i)
        PROVE  ioc.at # "subnet" /\ ioc'.at # "subnet" /\ subnet' = subnet /\ conf' = conf
    <3>1. ioc.at = "tunnel" /\ ioc' = [ioc EXCEPT !.store = @ \ {i}]
      BY <2>1 DEF TunnelCopy
    <3>2. ioc'.at = "tunnel"
      BY <3>1, BusyIoctl DEF Ioctls
    <3> QED
      BY <2>1, <3>1, <3>2 DEF TunnelCopy
  <2>2. ioc.at # "subnet" /\ ioc'.at # "subnet" /\ subnet' = subnet /\ conf' = conf
    BY <1>3, <2>1 DEF IoctlTunnel, TunnelSet, settings, NoIoctl
  <2> QED
    BY <2>2 DEF Settled
<1> DEFINE f == ioc.family
           asked == CalcSubnet(f, conf[f].address, conf[f].prefix)
\* A byte is stored: the others of the subnet and the other family are as before.
<1>4. ASSUME NEW i \in ioc.clear \cup ioc.store, ioc.at = "subnet",
             NEW b \in Bytes, subnet' = [subnet EXCEPT ![f].address[i] = b],
             b = asked[i] \/ i \in ioc'.store,
             ioc'.at = "subnet", ioc'.family = f, ioc'.address = ioc.address,
             ioc'.prefix = ioc.prefix,
             ioc'.clear \subseteq ioc.clear, ioc'.store \subseteq ioc.store,
             ioc.clear \cup ioc.store \subseteq ioc'.clear \cup ioc'.store \cup {i},
             ioc'.clear # {} => ioc'.store = ioc.store,
             conf' = conf
      PROVE  Settled'
  <2>1. /\ f \in Families
        /\ \A j \in Positions(f) :
             subnet'[f].address[j] = IF j = i THEN b ELSE subnet[f].address[j]
        /\ \A g \in Families \ {f} : subnet'[g] = subnet[g]
    BY <1>4, Stored
  <2>2. /\ ioc.address = conf[f].address /\ ioc.prefix = conf[f].prefix
        /\ ioc.clear # {} => ioc.store = Masked(f, ioc.prefix)
        /\ \A j \in Positions(f) \ (ioc.clear \cup ioc.store) :
             subnet[f].address[j] = asked[j]
    BY <1>4, <2>1 DEF Settled
  <2>3. ASSUME NEW j \in Positions(f) \ (ioc'.clear \cup ioc'.store)
        PROVE  subnet'[f].address[j] = asked[j]
    <3>1. CASE j = i
      <4>1. b = asked[i]
        BY <1>4, <2>3, <3>1
      <4> QED
        BY <2>1, <3>1, <4>1
    <3>2. CASE j # i
      <4>1. j \in Positions(f) \ (ioc.clear \cup ioc.store)
        BY <1>4, <2>3, <3>2
      <4> QED
        BY <2>1, <2>2, <3>2, <4>1
    <3> QED
      BY <3>1, <3>2
  <2>4. ioc'.clear # {} => ioc'.store = Masked(f, ioc'.prefix)
    BY <1>4, <2>2
  <2>5. ASSUME NEW g \in Families \ {f}
        PROVE  subnet'[g] = [address |-> CalcSubnet(g, conf[g].address, conf[g].prefix),
                             prefix |-> conf[g].prefix]
    BY <1>4, <2>1 DEF Settled
  <2> QED
    BY <1>4, <2>1, <2>2, <2>3, <2>4, <2>5 DEF Settled
<1>5. ASSUME NEW i, SubnetClear(i) PROVE Settled'
  <2>1. f \in Families /\ ioc \in Ioctls(f) /\ i \in Positions(f)
    BY <1>5, BusyIoctl DEF SubnetClear, Ioctls
  <2>2. ioc.prefix \in Nat /\ ioc.at = "subnet" /\ i \in ioc.clear
    BY <1>5, <2>1, PrefixBound DEF SubnetClear, Ioctls
  <2>3. ioc.prefix = conf[f].prefix /\ ioc.store = Masked(f, ioc.prefix)
    BY <2>1, <2>2 DEF Settled
  <2>4. ioc' = [ioc EXCEPT !.clear = @ \ {i}]
    BY <1>5 DEF SubnetClear
  <2>5. ioc'.at = "subnet" /\ ioc'.family = f /\ ioc'.address = ioc.address
        /\ ioc'.prefix = ioc.prefix /\ ioc'.clear = ioc.clear \ {i} /\ ioc'.store = ioc.store
    BY <1>5, <2>1, <2>4 DEF SubnetClear, Ioctls
  <2>6. i \notin ioc.store => ZeroByte = asked[i]
    BY <2>1, <2>2, <2>3, Unmasked
  <2> HIDE DEF f, asked
  <2>7. subnet' = [subnet EXCEPT ![f].address[i] = ZeroByte] /\ conf' = conf
        /\ ioc.at = "subnet" /\ i \in ioc.clear
    BY <1>5 DEF SubnetClear, f
  <2> QED
    <3>1. /\ i \in ioc.clear \cup ioc.store
          /\ ZeroByte = asked[i] \/ i \in ioc'.store
          /\ ioc'.clear \subseteq ioc.clear /\ ioc'.store \subseteq ioc.store
          /\ ioc.clear \cup ioc.store \subseteq ioc'.clear \cup ioc'.store \cup {i}
          /\ ioc'.clear # {} => ioc'.store = ioc.store
      BY <2>5, <2>6, <2>7
    <3> QED
      BY <1>4, <2>5, <2>7, <3>1, ZeroByteTyped
<1>6. ASSUME NEW i, SubnetFill(i) PROVE Settled'
  <2> DEFINE b == CalcSubnet(f, ioc.address, ioc.prefix)[i]
  <2>1. StoreByte(i, b)
    BY <1>6 DEF SubnetFill
  <2>2. f \in Families /\ ioc \in Ioctls(f)
    BY <2>1, BusyIoctl DEF StoreByte
  <2>3. ioc.address = conf[f].address /\ ioc.prefix = conf[f].prefix
    BY <2>1, <2>2 DEF StoreByte, Settled
  <2>4. b = asked[i] /\ b \in Bytes
    BY <2>1, <2>3, MaskedByte DEF StoreByte
  <2> HIDE DEF b
  <2>5. ioc' = [ioc EXCEPT !.store = @ \ {i}]
    BY <2>1 DEF StoreByte
  <2>6. ioc'.at = "subnet" /\ ioc'.family = f /\ ioc'.address = ioc.address
        /\ ioc'.prefix = ioc.prefix /\ ioc'.clear = ioc.clear /\ ioc'.store = ioc.store \ {i}
    BY <2>1, <2>2, <2>5 DEF StoreByte, Ioctls
  <2>7. ioc.clear = {} /\ i \in ioc.store /\ ioc.at = "subnet" /\ conf' = conf
    BY <2>1 DEF StoreByte
  <2> HIDE DEF f, asked
  <2>8. subnet' = [subnet EXCEPT ![f].address[i] = b]
    BY <2>1 DEF StoreByte, f
  <2> QED
    <3>1. /\ i \in ioc.clear \cup ioc.store
          /\ ioc'.clear \subseteq ioc.clear /\ ioc'.store \subseteq ioc.store
          /\ ioc.clear \cup ioc.store \subseteq ioc'.clear \cup ioc'.store \cup {i}
          /\ ioc'.clear # {} => ioc'.store = ioc.store
      BY <2>6, <2>7
    <3> QED
      BY <1>4, <2>4, <2>6, <2>7, <2>8, <3>1
<1>7. CASE SubnetPrefix
  <2>1. f \in Families /\ ioc \in Ioctls(f) /\ ioc.at = "subnet"
        /\ ioc.clear = {} /\ ioc.store = {} /\ ioc'.at = "idle"
    BY <1>7, BusyIoctl DEF SubnetPrefix, NoIoctl
  <2>2. /\ conf' = conf /\ \A g \in Families \ {f} : subnet'[g] = subnet[g]
        /\ subnet'[f] = [subnet[f] EXCEPT !.prefix = ioc.prefix]
    BY <1>7, <2>1 DEF SubnetPrefix, TypeOK
  <2>3. /\ ioc.prefix = conf[f].prefix
        /\ \A j \in Positions(f) : subnet[f].address[j] = asked[j]
    BY <2>1 DEF Settled
  <2>4. /\ subnet[f] \in Subnets(f) /\ subnet[f].address \in Address(f)
        /\ asked \in Address(f)
    BY <2>1, MaskTyped, PrefixBound DEF TypeOK, Subnets
  <2>5. subnet[f].address = asked
    BY <2>1, <2>3, <2>4, SameBytes
  <2>6. subnet'[f] = [address |-> asked, prefix |-> conf[f].prefix]
    BY <2>2, <2>3, <2>4, <2>5 DEF Subnets
  <2>7. ASSUME NEW g \in Families \ {f}
        PROVE  subnet'[g] = [address |-> CalcSubnet(g, conf[g].address, conf[g].prefix),
                             prefix |-> conf[g].prefix]
    BY <2>1, <2>2, <2>7 DEF Settled
  <2> QED
    BY <2>1, <2>2, <2>6, <2>7 DEF Settled
<1>8. ASSUME NEW h \in Hooks, HookStep(h) PROVE Settled'
  BY <1>1, <1>8, HookLocal DEF settings
<1>9. CASE UNCHANGED vars
  BY <1>1, <1>9 DEF vars, settings
<1> QED
  BY <1>2, <1>3, <1>5, <1>6, <1>7, <1>8, <1>9, Steps DEF IoctlStep

-----------------------------------------------------------------------------
(* Near *)

LEMMA InitNear == Init => Near
BY DEF Init, Near, NoTest

\* What is known stays known when the history grows and its least prefix shrinks.
LEMMA KnownWider ==
  ASSUME NEW i, NEW x, NEW known, NEW wider, known \subseteq wider,
         NEW least \in Nat, NEW less \in 0 .. least, Known(i, x, known, least)
  PROVE  Known(i, x, wider, less)
<1>1. PICK n \in known : AgreeIn(i, x, n, least)
  BY DEF Known
<1>2. AgreeIn(i, x, n, less)
  BY <1>1, AgreeShorter
<1> QED
  BY <1>2 DEF Known

\* Another subnet is asked for.
LEMMA NearAsked ==
  ASSUME NEW f \in Families, NEW c, NEW s, NEW known, NEW least,
         c.prefix \in Nat, s.prefix \in Nat, NearBy(f, c, s, known, least),
         NEW a \in Address(f), NEW p \in 0 .. MaxPrefix(f)
  PROVE  /\ NearBy(f, [address |-> a, prefix |-> p], s, known \cup {a}, Shorter(least, p))
         /\ Shorter(least, p) \in 0 .. least
<1>1. least \in Nat /\ p \in Nat /\ Shorter(least, p) \in 0 .. least /\ Shorter(least, p) \in 0 .. p
  BY PrefixBound DEF NearBy, Shorter
<1>2. ASSUME NEW i \in Positions(f)
      PROVE  Known(i, s.address, known \cup {a}, Shorter(least, p))
  BY <1>1, KnownWider DEF NearBy
<1>3. Shorter(least, p) \in 0 .. s.prefix
  BY <1>1 DEF NearBy
<1> QED
  BY <1>1, <1>2, <1>3 DEF NearBy

LEMMA NearTestShorter ==
  ASSUME NEW f, NEW t, NEW known, NEW wider, NEW least \in Nat, NEW less \in 0 .. least,
         known \subseteq wider, t.prefix \in Nat, NearTest(f, t, known, least)
  PROVE  NearTest(f, t, wider, less)
<1>1. ASSUME t.at = "capture", NEW i \in Positions(f) PROVE Known(i, t.saddr, wider, less)
  BY <1>1, KnownWider DEF NearTest
<1>2. ASSUME t.at = "compare", NEW i \in Positions(f) \ t.left
      PROVE  Known(i, t.saddr, wider, less)
  BY <1>2, KnownWider DEF NearTest
<1>3. t.at = "compare" => less \in 0 .. t.prefix
  BY DEF NearTest
<1> QED
  BY <1>1, <1>2, <1>3 DEF NearTest

LEMMA BusyNear ==
  ASSUME TypeOK, Near, NEW h \in Hooks, test[h].at # "idle"
  PROVE  LET f == test[h].family
         IN /\ f \in Families
            /\ test[h].prefix \in Nat /\ test[h].saddr \in Address(f)
            /\ subnet[f] \in Subnets(f) /\ conf[f] \in Subnets(f)
            /\ conf[f].prefix \in Nat /\ subnet[f].prefix \in Nat
            /\ seen[h].shortest \in Nat
            /\ NearBy(f, conf[f], subnet[f], seen[h].addresses, seen[h].shortest)
            /\ NearTest(f, test[h], seen[h].addresses, seen[h].shortest)
<1>1. test[h].family \in Families /\ test[h] \in Tests(test[h].family)
  BY BusyTest
<1>2. subnet[test[h].family] \in Subnets(test[h].family)
      /\ conf[test[h].family] \in Subnets(test[h].family)
  BY <1>1 DEF TypeOK
<1>3. test[h].prefix \in Nat /\ test[h].saddr \in Address(test[h].family)
      /\ conf[test[h].family].prefix \in Nat /\ subnet[test[h].family].prefix \in Nat
  BY <1>1, <1>2, PrefixBound DEF Tests, Subnets
<1>4. NearBy(test[h].family, conf[test[h].family], subnet[test[h].family],
             seen[h].addresses, seen[h].shortest)
      /\ NearTest(test[h].family, test[h], seen[h].addresses, seen[h].shortest)
  BY DEF Near
<1> QED
  BY <1>1, <1>2, <1>3, <1>4 DEF NearBy

LEMMA IoctlKeepsNear == ASSUME TypeOK, Settled, Near, IoctlStep PROVE Near'
<1> SUFFICES ASSUME NEW h \in Hooks, test[h].at # "idle"
             PROVE  LET f == test[h].family
                    IN /\ NearBy(f, conf'[f], subnet'[f], seen'[h].addresses, seen'[h].shortest)
                       /\ NearTest(f, test[h], seen'[h].addresses, seen'[h].shortest)
  BY IoctlLocal DEF Near
<1> DEFINE f == test[h].family
           known == seen[h].addresses
           least == seen[h].shortest
<1>0. /\ f \in Families
      /\ test[h].prefix \in Nat
      /\ subnet[f] \in Subnets(f) /\ conf[f] \in Subnets(f)
      /\ conf[f].prefix \in Nat /\ subnet[f].prefix \in Nat /\ least \in Nat
      /\ NearBy(f, conf[f], subnet[f], known, least)
      /\ NearTest(f, test[h], known, least)
  BY BusyNear
<1> HIDE DEF f, known, least
<1> SUFFICES NearBy(f, conf'[f], subnet'[f], seen'[h].addresses, seen'[h].shortest)
             /\ NearTest(f, test[h], seen'[h].addresses, seen'[h].shortest)
  BY DEF f
<1>1. ASSUME NEW g \in Families, NEW a \in Networks[g], NEW p \in 0 .. MaxPrefix(g) + 1,
             IoctlSubnet(g, a, p), g = f
      PROVE  NearBy(f, conf'[f], subnet'[f], seen'[h].addresses, seen'[h].shortest)
             /\ NearTest(f, test[h], seen'[h].addresses, seen'[h].shortest)
  <2>1. a \in Address(f) /\ p \in 0 .. MaxPrefix(f)
    BY <1>1, AddressAssumption, PrefixBound DEF IoctlSubnet
  <2>2. conf'[f] = [address |-> a, prefix |-> p] /\ subnet' = subnet
    BY <1>0, <1>1 DEF IoctlSubnet, TypeOK, settings
  <2>3. seen'[h] = [addresses |-> known \cup {a}, shortest |-> Shorter(least, p)]
    BY <1>1 DEF IoctlSubnet, f, known, least
  <2>4. NearBy(f, [address |-> a, prefix |-> p], subnet[f], known \cup {a}, Shorter(least, p))
        /\ Shorter(least, p) \in 0 .. least
    BY <1>0, <2>1, NearAsked
  <2>5. NearTest(f, test[h], known \cup {a}, Shorter(least, p))
    BY <1>0, <2>4, NearTestShorter
  <2> QED
    BY <2>2, <2>3, <2>4, <2>5
<1>2. ASSUME conf'[f] = conf[f] /\ subnet'[f] = subnet[f] /\ seen'[h] = seen[h]
      PROVE  NearBy(f, conf'[f], subnet'[f], seen'[h].addresses, seen'[h].shortest)
             /\ NearTest(f, test[h], seen'[h].addresses, seen'[h].shortest)
  BY <1>0, <1>2 DEF known, least
<1>3. ASSUME NEW g \in Families, NEW a \in Networks[g], NEW p \in 0 .. MaxPrefix(g) + 1,
             IoctlSubnet(g, a, p), g # f
      PROVE  conf'[f] = conf[f] /\ subnet'[f] = subnet[f] /\ seen'[h] = seen[h]
  BY <1>0, <1>3 DEF IoctlSubnet, TypeOK, settings, f
<1>4. ASSUME NEW g \in Families, NEW a \in Networks[g], IoctlTunnel(g, a)
      PROVE  conf'[f] = conf[f] /\ subnet'[f] = subnet[f] /\ seen'[h] = seen[h]
  BY <1>4 DEF IoctlTunnel, settings
<1>5. ASSUME (\E i : TunnelCopy(i)) \/ TunnelSet
      PROVE  conf'[f] = conf[f] /\ subnet'[f] = subnet[f] /\ seen'[h] = seen[h]
  BY <1>5 DEF TunnelCopy, TunnelSet
\* A byte that is known is stored.
<1>6. ASSUME NEW i \in ioc.clear \cup ioc.store, ioc.at = "subnet", ioc.family = f,
             NEW b \in Bytes, subnet' = [subnet EXCEPT ![f].address[i] = b],
             \E n \in known : \A x : x[i] = b => AgreeIn(i, x, n, least),
             conf' = conf, seen' = seen
      PROVE  NearBy(f, conf'[f], subnet'[f], seen'[h].addresses, seen'[h].shortest)
             /\ NearTest(f, test[h], seen'[h].addresses, seen'[h].shortest)
  <2>1. /\ \A j \in Positions(f) :
             subnet'[f].address[j] = IF j = i THEN b ELSE subnet[f].address[j]
        /\ subnet'[f] = [address |-> subnet'[f].address, prefix |-> subnet[f].prefix]
        /\ i \in Positions(f)
    <3>1. subnet' = [subnet EXCEPT ![ioc.family].address[i] = b] /\ ioc.at = "subnet"
          /\ i \in ioc.clear \cup ioc.store /\ b \in Bytes
      BY <1>6
    <3>2. /\ \A j \in Positions(ioc.family) :
               subnet'[ioc.family].address[j] = IF j = i THEN b ELSE subnet[ioc.family].address[j]
          /\ subnet'[ioc.family] = [address |-> subnet'[ioc.family].address,
                                    prefix |-> subnet[ioc.family].prefix]
          /\ i \in Positions(ioc.family)
      BY <3>1, Stored
    <3> QED
      BY <1>6, <3>2
  <2>2. ASSUME NEW j \in Positions(f) PROVE Known(j, subnet'[f].address, known, least)
    <3>1. CASE j = i
      BY <1>6, <2>1, <3>1 DEF Known
    <3>2. CASE j # i
      <4>1. PICK n \in known : AgreeIn(j, subnet[f].address, n, least)
        BY <1>0 DEF NearBy, Known
      <4>2. AgreeIn(j, subnet'[f].address, subnet[f].address, least)
        BY <2>1, <3>2, SameAgrees
      <4> QED
        BY <4>1, <4>2, AgreeTransitive DEF Known
    <3> QED
      BY <3>1, <3>2
  <2>3. subnet'[f].prefix = subnet[f].prefix
    BY <2>1
  <2> QED
    BY <1>0, <1>6, <2>2, <2>3 DEF NearBy, known, least
<1>7. ASSUME NEW i, SubnetClear(i), ioc.family = f
      PROVE  NearBy(f, conf'[f], subnet'[f], seen'[h].addresses, seen'[h].shortest)
             /\ NearTest(f, test[h], seen'[h].addresses, seen'[h].shortest)
  <2>1. i \in ioc.clear \cup ioc.store /\ ioc.at = "subnet" /\ conf' = conf /\ seen' = seen
        /\ subnet' = [subnet EXCEPT ![f].address[i] = ZeroByte]
    BY <1>7 DEF SubnetClear
  <2>2. i \in Positions(f)
    BY <1>7, <2>1, BusyIoctl DEF Ioctls
  <2>3. Zero(f)[i] = ZeroByte /\ Zero(f) \in known
    BY <1>0, <2>2 DEF Zero, NearBy, Positions
  <2>4. \A x : x[i] = ZeroByte => AgreeIn(i, x, Zero(f), least)
    BY <2>3, SameAgrees
  <2> QED
    BY <1>6, <1>7, <2>1, <2>3, <2>4, ZeroByteTyped
<1>8. ASSUME NEW i, SubnetFill(i), ioc.family = f
      PROVE  NearBy(f, conf'[f], subnet'[f], seen'[h].addresses, seen'[h].shortest)
             /\ NearTest(f, test[h], seen'[h].addresses, seen'[h].shortest)
  <2> DEFINE masked == CalcSubnet(f, ioc.address, ioc.prefix)
             b == masked[i]
  <2>1. StoreByte(i, b)
    BY <1>8 DEF SubnetFill
  <2>2. ioc.address = conf[f].address /\ ioc.prefix = conf[f].prefix
    BY <1>0, <1>8, <2>1 DEF StoreByte, Settled
  <2>3. b \in Bytes
    BY <1>8, <2>1, MaskedByte DEF StoreByte
  <2>4. /\ conf[f].address \in Address(f)
        /\ conf[f].prefix \in 0 .. MaxPrefix(f)
        /\ least \in 0 .. conf[f].prefix
        /\ conf[f].address \in known
    BY <1>0 DEF NearBy, Subnets
  <2>5. AgreeIn(i, masked, conf[f].address, least)
    BY <1>0, <2>2, <2>4, MaskAgrees, AgreeSymmetric
  <2> HIDE DEF masked
  <2>6. ASSUME NEW x, x[i] = b PROVE AgreeIn(i, x, conf[f].address, least)
    <3>1. AgreeIn(i, x, masked, least)
      BY <2>6, SameAgrees
    <3> QED
      BY <2>5, <3>1, AgreeTransitive
  <2> HIDE DEF b
  <2>7. i \in ioc.clear \cup ioc.store /\ ioc.at = "subnet" /\ conf' = conf /\ seen' = seen
        /\ subnet' = [subnet EXCEPT ![f].address[i] = b]
    BY <1>8, <2>1 DEF StoreByte
  <2> QED
    BY <1>6, <1>8, <2>3, <2>4, <2>6, <2>7
<1>9. CASE SubnetPrefix /\ ioc.family = f
  <2>1. ioc.prefix = conf[f].prefix
    BY <1>0, <1>9 DEF SubnetPrefix, Settled
  <2>2. subnet'[f] = [address |-> subnet[f].address, prefix |-> conf[f].prefix]
    BY <1>0, <1>9, <2>1 DEF SubnetPrefix, TypeOK, Subnets
  <2>3. NearBy(f, conf[f], subnet'[f], known, least)
    BY <1>0, <2>2 DEF NearBy
  <2> QED
    BY <1>0, <1>9, <2>3 DEF SubnetPrefix, known, least
<1>10. ASSUME (\E i : SubnetClear(i) \/ SubnetFill(i)) \/ SubnetPrefix, ioc.family # f
       PROVE  conf'[f] = conf[f] /\ subnet'[f] = subnet[f] /\ seen'[h] = seen[h]
  BY <1>0, <1>10 DEF SubnetClear, SubnetFill, StoreByte, SubnetPrefix, TypeOK
<1> QED
  BY <1>1, <1>2, <1>3, <1>4, <1>5, <1>7, <1>8, <1>9, <1>10 DEF IoctlStep

LEMMA HookKeepsNear == ASSUME TypeOK, Near, NEW h \in Hooks, HookStep(h) PROVE Near'
<1>1. UNCHANGED <<subnet, conf>>
  BY HookLocal DEF settings
<1>2. ASSUME NEW g \in Hooks \ {h}, test'[g].at # "idle"
      PROVE  LET f == test'[g].family
             IN /\ NearBy(f, conf'[f], subnet'[f], seen'[g].addresses, seen'[g].shortest)
                /\ NearTest(f, test'[g], seen'[g].addresses, seen'[g].shortest)
  BY <1>1, <1>2, HookLocal DEF Near
<1>3. ASSUME test'[h].at # "idle"
      PROVE  LET f == test'[h].family
             IN /\ NearBy(f, conf[f], subnet[f], seen'[h].addresses, seen'[h].shortest)
                /\ NearTest(f, test'[h], seen'[h].addresses, seen'[h].shortest)
  <2>1. ASSUME NEW f \in Families, NEW s \in Sources[f], NEW d \in Networks[f], HookIn(h, f, s, d)
        PROVE  LET e == test'[h].family
               IN /\ NearBy(e, conf[e], subnet[e], seen'[h].addresses, seen'[h].shortest)
                  /\ NearTest(e, test'[h], seen'[h].addresses, seen'[h].shortest)
    <3> DEFINE known == {conf[f].address, subnet[f].address, Zero(f)}
               least == Shorter(conf[f].prefix, subnet[f].prefix)
    <3>1. test'[h].family = f /\ test'[h].at = "flag"
          /\ seen'[h].addresses = known /\ seen'[h].shortest = least
      BY <2>1 DEF HookIn, TypeOK
    <3>2. /\ conf[f].address \in Address(f) /\ conf[f].prefix \in Nat
          /\ subnet[f].address \in Address(f) /\ subnet[f].prefix \in Nat
      BY PrefixBound DEF TypeOK, Subnets
    <3>3. least \in 0 .. conf[f].prefix /\ least \in 0 .. subnet[f].prefix
      BY <3>2 DEF Shorter
    <3> HIDE DEF least
    <3>4. \A i \in Positions(f) : Known(i, subnet[f].address, known, least)
      BY SameAgrees DEF Known
    <3>5. NearBy(f, conf[f], subnet[f], known, least)
      BY <3>2, <3>3, <3>4, ZeroTyped DEF NearBy
    <3> QED
      BY <3>1, <3>5 DEF NearTest
  <2> DEFINE t == test[h]
             u == test'[h]
             f == t.family
             known == seen[h].addresses
             least == seen[h].shortest
  <2>2. ASSUME t.at # "idle"
        PROVE  /\ f \in Families
               /\ t \in Tests(f)
               /\ subnet[f] \in Subnets(f)
               /\ NearBy(f, conf[f], subnet[f], known, least)
               /\ NearTest(f, t, known, least)
    BY <2>2, BusyTest, BusyNear
  <2>3. CASE TestFlag(h) \/ TestTunnel(h) \/ TestCompare(h)
    <3>1. PICK at \in {"flag", "tunnel", "prefix", "compare", "capture", "accept"},
               left \in SUBSET Positions(f) :
            Continue(h, at, left) /\ Onward(h, at, left)
      BY <2>3, Goes
    <3>2. t.at # "idle"
      BY <2>3, Goes
    <3>3. u.at = at /\ u.left = left /\ u.family = f /\ u.saddr = t.saddr
          /\ u.prefix = t.prefix /\ seen' = seen
      BY <3>1, <3>2, Continued
    <3> HIDE DEF u
    <3>4. CASE at \notin {"compare", "capture"}
      BY <2>2, <3>2, <3>3, <3>4 DEF NearTest, u
    <3>5. CASE at = "capture"
      <4>1. t.at = "compare" /\ t.left = {}
        BY <3>1, <3>5 DEF Onward
      <4>2. \A i \in Positions(f) : Known(i, t.saddr, known, least)
        BY <2>2, <3>2, <4>1 DEF NearTest
      <4> QED
        BY <2>2, <3>2, <3>3, <3>5, <4>2 DEF NearTest, u
    <3>6. CASE at = "compare"
      <4>1. t.at = "compare"
        BY <3>1, <3>6 DEF Onward
      <4>2. PICK i \in t.left :
              CalcSubnet(f, t.saddr, t.prefix)[i] = subnet[f].address[i] /\ left = t.left \ {i}
        BY <3>1, <3>6 DEF Onward
      <4>3. t.saddr \in Address(f) /\ t.prefix \in 0 .. MaxPrefix(f) /\ least \in 0 .. t.prefix
            /\ i \in Positions(f)
        BY <2>2, <3>2, <4>1 DEF Tests, NearTest
      <4>4. PICK n \in known : AgreeIn(i, subnet[f].address, n, least)
        BY <2>2, <3>2, <4>3 DEF NearBy, Known
      <4>5. AgreeIn(i, t.saddr, CalcSubnet(f, t.saddr, t.prefix), least)
        BY <2>2, <3>2, <4>3, MaskAgrees
      <4>6. AgreeIn(i, CalcSubnet(f, t.saddr, t.prefix), subnet[f].address, least)
        BY <4>2, SameAgrees
      <4>7. Known(i, t.saddr, known, least)
        BY <4>4, <4>5, <4>6, AgreeTransitive DEF Known
      <4>8. \A j \in Positions(f) \ left : Known(j, t.saddr, known, least)
        BY <2>2, <3>2, <4>1, <4>2, <4>7 DEF NearTest
      <4> QED
        BY <2>2, <3>2, <3>3, <3>6, <4>3, <4>8 DEF NearTest, u
    <3> QED
      BY <3>4, <3>5, <3>6
  <2>4. CASE TestPrefix(h)
    <3>1. /\ u = [t EXCEPT !.at = "compare", !.left = Positions(f), !.prefix = subnet[f].prefix]
          /\ seen' = seen /\ t.at = "prefix"
      BY <2>4 DEF TestPrefix, TypeOK
    <3>2. u.family = f /\ u.at = "compare" /\ u.prefix = subnet[f].prefix
          /\ u.left = Positions(f)
      BY <2>2, <3>1 DEF Tests
    <3>3. least \in 0 .. subnet[f].prefix
      BY <2>2, <3>1 DEF NearBy
    <3> QED
      BY <2>2, <3>1, <3>2, <3>3 DEF NearTest
  <2>5. CASE HookDone(h)
    BY <1>3, <2>5 DEF HookDone, TypeOK, NoTest
  <2> QED
    BY <2>1, <2>3, <2>4, <2>5 DEF HookStep
<1> QED
  BY <1>1, <1>2, <1>3 DEF Near

LEMMA StepNear == ASSUME TypeOK, Settled, Near, [Next]_vars PROVE Near'
<1>1. CASE UNCHANGED vars
  BY <1>1 DEF Near, vars, settings
<1> QED
  BY <1>1, Steps, IoctlKeepsNear, HookKeepsNear

-----------------------------------------------------------------------------
(* Steady *)

LEMMA InitSteady == Init => Steady
BY DEF Init, Steady, NoTest

LEMMA IoctlKeepsSteady == ASSUME TypeOK, Steady, IoctlStep PROVE Steady'
<1> SUFFICES ASSUME NEW h \in Hooks, test[h].at # "idle", ~overlap'[h] PROVE FALSE
  BY IoctlLocal DEF Steady
<1>1. ioc.at # "idle" /\ overlap' = overlap
  BY IoctlLocal
<1> QED
  BY <1>1 DEF Steady

LEMMA SettledIdle ==
  ASSUME Settled, ioc.at = "idle", NEW g \in Families
  PROVE  /\ subnet[g].address = CalcSubnet(g, conf[g].address, conf[g].prefix)
         /\ subnet[g].prefix = conf[g].prefix
<1>1. subnet[g] = [address |-> CalcSubnet(g, conf[g].address, conf[g].prefix),
                   prefix |-> conf[g].prefix]
  BY DEF Settled
<1> QED
  BY <1>1

\* A test that goes on undisturbed: the comparison of all bytes is that of addresses.
LEMMA StaysUndisturbed ==
  ASSUME TypeOK, Settled, ioc.at = "idle", NEW h \in Hooks, Undisturbed(test[h]),
         TestFlag(h) \/ TestTunnel(h) \/ TestCompare(h)
  PROVE  Undisturbed(test[h])'
<1> DEFINE t == test[h]
           u == test'[h]
           f == t.family
           toTunnel == is_set_tunnel_addr[f] /\ tunnel[f] = t.daddr
           masked == CalcSubnet(f, t.saddr, t.prefix)
           inside == subnet[f].address
           wanted == Wanted(f, t.saddr, t.daddr)
<1>1. PICK at \in {"flag", "tunnel", "prefix", "compare", "capture", "accept"},
           left \in SUBSET Positions(f) :
        Continue(h, at, left) /\ Onward(h, at, left)
  BY Goes
<1>2. t.at # "idle"
  BY Goes
<1>3. /\ t \in Tests(f) /\ f \in Families
      /\ u.at = at /\ u.left = left /\ u.family = f
      /\ u.saddr = t.saddr /\ u.daddr = t.daddr /\ u.prefix = t.prefix
      /\ UNCHANGED <<settings, ioc, conf>>
  BY <1>1, <1>2, Continued
<1>4. /\ t.saddr \in Address(f) /\ t.daddr \in Address(f) /\ t.prefix \in 0 .. MaxPrefix(f)
      /\ t.prefix \in Nat /\ tunnel[f] \in Address(f) /\ conf[f].address \in Address(f)
      /\ conf[f].prefix \in 0 .. MaxPrefix(f) /\ inside \in Address(f)
  BY <1>3, PrefixBound DEF Tests, TypeOK, Subnets
<1>5. masked \in Address(f)
  BY <1>3, <1>4, MaskTyped
<1>6. inside = CalcSubnet(f, conf[f].address, conf[f].prefix)
  BY <1>3, SettledIdle
<1>7. ASSUME t.at = "compare" PROVE masked = inside <=> Agree(t.saddr, conf[f].address, conf[f].prefix)
  <2>1. t.prefix = conf[f].prefix
    BY <1>7 DEF Undisturbed
  <2> QED
    BY <1>3, <1>4, <1>6, <2>1, MaskedAlike
<1>8. ASSUME t.at = "compare" PROVE masked = inside <=> wanted
  <2>1. ~toTunnel
    BY <1>8 DEF Undisturbed
  <2> QED
    BY <1>7, <1>8, <2>1 DEF Wanted
\* What Undisturbed says of the test, with the names of before.
<1> DEFINE Good == /\ at = "tunnel" => /\ is_set_tunnel_addr[f]
                                       /\ \A i \in Positions(f) \ left : tunnel[f][i] = t.daddr[i]
                   /\ at \in {"prefix", "compare", "capture"} => ~toTunnel
                   /\ at = "compare" => /\ t.prefix = conf[f].prefix
                                        /\ \A i \in Positions(f) \ left : masked[i] = inside[i]
                   /\ at \in {"capture", "accept"} => (at = "capture" <=> wanted)
<1>9. Good => Undisturbed(test[h])'
  BY <1>3 DEF Undisturbed, Wanted, settings
<1>10. Undisturbed(t)
  OBVIOUS
<1>11. ASSUME t.at = "tunnel"
       PROVE  is_set_tunnel_addr[f] /\ \A i \in Positions(f) \ t.left : tunnel[f][i] = t.daddr[i]
  BY <1>10, <1>11 DEF Undisturbed
<1>12. ASSUME t.at = "compare"
       PROVE  /\ ~toTunnel /\ t.prefix = conf[f].prefix
              /\ \A i \in Positions(f) \ t.left : masked[i] = inside[i]
  BY <1>10, <1>12 DEF Undisturbed
<1>13. wanted => ~toTunnel
  BY DEF Wanted
<1> HIDE DEF masked, inside, wanted
<1>14. Good
  <2>1. CASE t.at = "flag"
    <3>1. \/ is_set_tunnel_addr[f] /\ at = "tunnel" /\ left = Positions(f)
          \/ ~is_set_tunnel_addr[f] /\ at = "prefix"
      BY <1>1, <2>1 DEF Onward
    <3> QED
      BY <3>1
  <2>2. CASE t.at = "tunnel"
    <3>1. \/ t.left = {} /\ at = "accept"
          \/ at = "tunnel" /\ \E i \in t.left : tunnel[f][i] = t.daddr[i] /\ left = t.left \ {i}
          \/ at = "prefix" /\ \E i \in t.left : tunnel[f][i] # t.daddr[i]
      BY <1>1, <2>2 DEF Onward
    <3>2. CASE t.left = {} /\ at = "accept"
      <4>1. tunnel[f] = t.daddr
        BY <1>3, <1>4, <1>11, <2>2, <3>2, SameBytes
      <4>2. ~wanted
        BY <1>11, <1>13, <2>2, <4>1
      <4> QED
        BY <3>2, <4>2
    <3>3. CASE at = "tunnel" /\ \E i \in t.left : tunnel[f][i] = t.daddr[i] /\ left = t.left \ {i}
      BY <1>11, <2>2, <3>3
    <3>4. CASE at = "prefix" /\ \E i \in t.left : tunnel[f][i] # t.daddr[i]
      BY <3>4
    <3> QED
      BY <3>1, <3>2, <3>3, <3>4
  <2>3. CASE t.at = "compare"
    <3>1. \/ t.left = {} /\ at = "capture"
          \/ at = "compare" /\ \E i \in t.left : masked[i] = inside[i] /\ left = t.left \ {i}
          \/ at = "accept" /\ \E i \in t.left : masked[i] # inside[i]
      BY <1>1, <2>3 DEF Onward, masked, inside
    <3>2. CASE t.left = {} /\ at = "capture"
      <4>1. \A i \in Positions(f) : masked[i] = inside[i]
        BY <1>12, <2>3, <3>2
      <4>2. masked = inside
        BY <1>3, <1>4, <1>5, <4>1, SameBytes
      <4>3. wanted
        BY <1>8, <2>3, <4>2
      <4> QED
        BY <1>12, <2>3, <3>2, <4>3
    <3>3. CASE at = "compare" /\ \E i \in t.left : masked[i] = inside[i] /\ left = t.left \ {i}
      BY <1>12, <2>3, <3>3
    <3>4. CASE at = "accept" /\ \E i \in t.left : masked[i] # inside[i]
      <4>1. ~wanted
        BY <1>8, <2>3, <3>4
      <4> QED
        BY <3>4, <4>1
    <3> QED
      BY <3>1, <3>2, <3>3, <3>4
  <2> QED
    BY <1>1, <2>1, <2>2, <2>3 DEF Onward
<1> QED
  BY <1>9, <1>14

LEMMA HookKeepsSteady ==
  ASSUME TypeOK, Settled, Steady, NEW h \in Hooks, HookStep(h)
  PROVE  Steady'
<1>1. UNCHANGED <<settings, conf, ioc>>
  BY HookLocal
<1>2. ASSUME NEW g \in Hooks \ {h}, test'[g].at # "idle", ~overlap'[g]
      PROVE  ioc'.at = "idle" /\ Undisturbed(test[g])'
  <2>1. ioc.at = "idle" /\ Undisturbed(test[g]) /\ test'[g] = test[g]
    BY <1>2, HookLocal DEF Steady
  <2> QED
    BY <1>1, <2>1 DEF Undisturbed, Wanted, settings
<1>3. ASSUME test'[h].at # "idle", ~overlap'[h]
      PROVE  ioc'.at = "idle" /\ Undisturbed(test[h])'
  <2>1. ASSUME NEW e \in Families, NEW s \in Sources[e], NEW d \in Networks[e], HookIn(h, e, s, d)
        PROVE  ioc'.at = "idle" /\ Undisturbed(test[h])'
    <3>1. test'[h].at = "flag" /\ (overlap'[h] <=> ioc.at # "idle")
      BY <2>1 DEF HookIn, TypeOK
    <3> QED
      BY <1>1, <1>3, <3>1 DEF Undisturbed
  <2>2. CASE TestFlag(h) \/ TestTunnel(h) \/ TestCompare(h)
    <3>1. test[h].at # "idle"
      BY <2>2, Goes
    <3>2. overlap' = overlap
      BY <2>2 DEF TestFlag, TestTunnel, TestCompare, Continue
    <3>3. ioc.at = "idle" /\ Undisturbed(test[h])
      BY <1>3, <3>1, <3>2 DEF Steady
    <3> QED
      BY <1>1, <2>2, <3>3, StaysUndisturbed
  <2>3. CASE TestPrefix(h)
    <3> DEFINE t == test[h]
               u == test'[h]
               f == t.family
    <3>1. /\ u = [t EXCEPT !.at = "compare", !.left = Positions(f), !.prefix = subnet[f].prefix]
          /\ t.at = "prefix" /\ overlap' = overlap
      BY <2>3 DEF TestPrefix, TypeOK
    <3>2. t \in Tests(f) /\ f \in Families /\ ioc.at = "idle" /\ Undisturbed(t)
      BY <1>3, <3>1, BusyTest DEF Steady
    <3>3. u.family = f /\ u.at = "compare" /\ u.prefix = subnet[f].prefix
          /\ u.left = Positions(f) /\ u.daddr = t.daddr
      BY <3>1, <3>2 DEF Tests
    <3>4. subnet[f].prefix = conf[f].prefix
      BY <3>2, SettledIdle
    <3>5. ~(is_set_tunnel_addr[f] /\ tunnel[f] = t.daddr)
      BY <3>1, <3>2 DEF Undisturbed
    <3> HIDE DEF t, f
    <3> QED
      BY <1>1, <3>2, <3>3, <3>4, <3>5 DEF Undisturbed, settings, u
  <2>4. CASE HookDone(h)
    BY <1>3, <2>4 DEF HookDone, TypeOK, NoTest
  <2> QED
    BY <2>1, <2>2, <2>3, <2>4 DEF HookStep
<1> QED
  BY <1>2, <1>3 DEF Steady

LEMMA StepSteady == ASSUME TypeOK, Settled, Steady, [Next]_vars PROVE Steady'
<1>1. CASE UNCHANGED vars
  BY <1>1 DEF Steady, Undisturbed, Wanted, vars, settings
<1> QED
  BY <1>1, Steps, IoctlKeepsSteady, HookKeepsSteady

-----------------------------------------------------------------------------
(* Theorems *)

LEMMA Invariance == Spec => [](TypeOK /\ Settled /\ Near /\ Steady)
<1>1. Init => TypeOK /\ Settled /\ Near /\ Steady
  BY InitType, InitSettled, InitNear, InitSteady
<1>2. ASSUME TypeOK, [Next]_vars PROVE TypeOK'
  <2>1. CASE UNCHANGED vars
    BY <1>2, <2>1 DEF TypeOK, vars, settings
  <2> QED
    BY <1>2, <2>1, Steps, IoctlKeepsType, HookKeepsType
<1>3. TypeOK /\ Settled /\ Near /\ Steady /\ [Next]_vars
        => TypeOK' /\ Settled' /\ Near' /\ Steady'
  BY <1>2, StepSettled, StepNear, StepSteady
<1> QED
  BY <1>1, <1>3, PTL DEF Spec

(***************************************************************************)
(* xsky_set_udp_proxy_subnet, xsky_set_tunnel and the hook keep the        *)
(* variables and the packets under test in their types.                    *)
(***************************************************************************)
THEOREM FilterTypeCorrect == Spec => []TypeOK
BY Invariance, PTL

(***************************************************************************)
(* handle_ipv4_dgram_in and handle_ipv6_dgram_in capture exactly what was  *)
(* asked for, when no ioctl meets the hook: masking the source byte by     *)
(* byte (calc_subnet) and comparing it with the masked subnet is to        *)
(* compare the first `prefix' bits, and ioctls that came before, however   *)
(* they met other hooks, leave nothing half done.                          *)
(***************************************************************************)
THEOREM FilterIsExact == Spec => []Exact
<1>1. TypeOK /\ Steady => Exact
  BY DEF TypeOK, Steady, Undisturbed, Exact
<1> QED
  BY <1>1, Invariance, PTL

(***************************************************************************)
(* The hook reads prefix and address with no lock while an ioctl rewrites  *)
(* them byte by byte (main.c:128-140, 192-208): whatever it mixes, no byte *)
(* of a source it captures is outside all the subnets asked for meanwhile, *)
(* but for zeroed bytes, within the shortest prefix it may have met.       *)
(***************************************************************************)
THEOREM TornIsNeverWider == Spec => []NeverWider
<1>1. ASSUME TypeOK, Near, NEW h \in Hooks, test[h].at = "capture"
      PROVE  \A i \in Positions(test[h].family) :
               \E n \in seen[h].addresses : AgreeIn(i, test[h].saddr, n, seen[h].shortest)
  BY <1>1 DEF Near, NearTest, Known
<1>2. TypeOK /\ Near => NeverWider
  BY <1>1 DEF NeverWider
<1> QED
  BY <1>2, Invariance, PTL

=============================================================================
