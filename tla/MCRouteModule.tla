--------------------------- MODULE MCRouteModule ---------------------------
(* Packets for checking RouteModule. *)
EXTENDS RouteModule

CONSTANTS c1, c2

TwoCpus == {c1, c2}
BothOrders == {"big", "little"}

Plain ==
  [type |-> "ipv4", proto |-> "tcp", source |-> "high", dest |-> "http",
   local |-> FALSE, foreign |-> TRUE, named |-> FALSE, body |-> {}]
ForRoute == [Plain EXCEPT !.proto = "udp", !.local = TRUE]

\* A message that is what it says, and what a short datagram holds of it.
Says(macs, domains) == [macs |-> macs, domains |-> domains, data |-> <<>>]
Complete(msg) == [msg EXCEPT !.data = Layout(msg)]
CutAt(n, msg) == [msg EXCEPT !.data = SubSeq(Layout(msg), 1, n)]
Bodies ==
  {Complete(Says(m, d)) : m \in 0 .. 1, d \in 0 .. 2}
    \cup {CutAt(0, Says(1, 0)), CutAt(2, Says(1, 1)), CutAt(2, Says(0, 1))}
Configs == {[ForRoute EXCEPT !.dest = "config", !.body = b] : b \in Bodies}

SomePackets ==
  Configs \cup
  {Plain,
   [Plain EXCEPT !.type = "arp"],
   [ForRoute EXCEPT !.dest = "dns", !.named = TRUE],
   [ForRoute EXCEPT !.dest = "capture", !.body = {"arp", "ip"}],
   [ForRoute EXCEPT !.dest = "capture", !.body = {"dns", "http"}],
   \* Over IPv6 UDP is not recognized, and UDP-Lite is taken for it.
   [ForRoute EXCEPT !.dest = "config", !.type = "ipv6", !.body = Complete(Says(1, 0))],
   [ForRoute EXCEPT !.dest = "config", !.type = "ipv6", !.proto = "udplite",
                    !.body = Complete(Says(1, 1))]}

=============================================================================
