---------------------------- MODULE MCController ----------------------------
(* A short list for checking Controller. *)
EXTENDS Controller

CONSTANTS a, b, w1

OneWorker == {w1}

\* Two IPv4 networks, an IPv6 network and another line in between.
FourLines == <<[family |-> 4, key |-> a], Other, [family |-> 6, key |-> a],
               [family |-> 4, key |-> b]>>

=============================================================================
