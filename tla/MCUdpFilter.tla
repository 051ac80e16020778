---------------------------- MODULE MCUdpFilter ----------------------------
(* Address families with bytes of two bits for checking UdpFilter: the     *)
(* "IPv4" addresses have two bytes, the "IPv6" addresses three.            *)
EXTENDS UdpFilter

CONSTANTS h1, h2

OneHook == {h1}
TwoHooks == {h1, h2}
Ipv4 == {"v4"}
BothFamilies == {"v4", "v6"}

TwoAndThree == [f \in Families |-> IF f = "v4" THEN 2 ELSE 3]

\* Each byte zero, full, and with only its high or its low bit set.
Byte(x) == [j \in 0 .. 1 |-> IF j = 0 THEN x \div 2 ELSE x % 2]
TwoBytes(x, y) == [i \in 0 .. 1 |-> Byte(IF i = 0 THEN x ELSE y)]
ThreeBytes(x, y, z) ==
  [i \in 0 .. 2 |-> Byte(CASE i = 0 -> x [] i = 1 -> y [] i = 2 -> z)]

\* Sources inside, on the border of, and outside the subnets set.
BorderSources ==
  [f \in Families |->
     IF f = "v4" THEN {TwoBytes(1, 2), TwoBytes(1, 0), TwoBytes(3, 2)}
     ELSE {ThreeBytes(2, 3, 1)}]
FewSources ==
  [f \in Families |->
     IF f = "v4" THEN {TwoBytes(1, 2), TwoBytes(3, 0), TwoBytes(0, 1)}
     ELSE {ThreeBytes(2, 3, 1)}]

TwoNetworks ==
  [f \in Families |->
     IF f = "v4" THEN {TwoBytes(1, 3), TwoBytes(3, 1)}
     ELSE {ThreeBytes(2, 3, 1)}]
OneNetwork ==
  [f \in Families |->
     IF f = "v4" THEN {TwoBytes(1, 3)} ELSE {ThreeBytes(2, 3, 1)}]

=============================================================================
