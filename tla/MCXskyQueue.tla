---------------------------- MODULE MCXskyQueue ----------------------------
(* Model values for checking XskyQueue on a small instance. *)
EXTENDS XskyQueue

CONSTANTS c1, r1, p1, p2, p3, big

OnePusher == {c1}
OneReader == {r1}

FourPackets == {p1, p2, p3, big}
BigPackets == {big}

=============================================================================
