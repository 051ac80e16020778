----------------------------- MODULE MCHexView -----------------------------
(* A packet, a clipboard, keys, a search and two comments for HexView. *)
EXTENDS HexView

a == <<1, 1>>
b == <<1, 2>>

OnePacket == {<<a, b, a, b, a>>}
OneClip == {<<b, b>>}
OneKey == {b}
OneDigit == {3}
OnePattern == {<<a, b>>}
TwoRanges == {[begin |-> 1, end |-> 4], [begin |-> 2, end |-> 3]}
TwoWidths == {2, 3}
Header == {[begin |-> 0, end |-> 3]}

=============================================================================
