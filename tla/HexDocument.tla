---------------------------- MODULE HexDocument ----------------------------
(***************************************************************************)
(* client/QHexView/document: the bytes a hex view shows (QHexBuffer over a *)
(* QByteArray), the cursor and its selection (QHexCursor), the commands    *)
(* that change the bytes and the stack that undoes them (QHexDocument).    *)
(*                                                                         *)
(* Everything runs on one thread and most handlers call several of these   *)
(* operations in a row, so a document is a record `d' and an operation     *)
(* maps a document to the next one.  An offset counts from 0, as in the    *)
(* code; a byte is the pair of its nibbles.                                *)
(***************************************************************************)
EXTENDS Integers, Sequences

CONSTANTS
  WORD,       \* 2^64, the modulus of a line number; even, and small here
  DefaultWidth  \* DEFAULT_HEX_LINE_LENGTH

ASSUME WordAssumption == WORD \in Nat /\ WORD > 0 /\ WORD % 2 = 0
ASSUME WidthAssumption == DefaultWidth \in Nat \ {0}

Least(x, y) == IF x < y THEN x ELSE y
Most(x, y) == IF x > y THEN x ELSE y

\* A quint64 read as a signed number.
Signed(x) == IF x % WORD < WORD \div 2 THEN x % WORD ELSE (x % WORD) - WORD

-----------------------------------------------------------------------------
(* QByteArray *)

Byte == (0 .. 15) \X (0 .. 15)
Space == <<2, 0>>

\* What is there of `len' bytes from `pos' on; all of them if len is negative.
Mid(s, pos, len) ==
  SubSeq(s, Most(pos, 0) + 1,
         IF len < 0 THEN Len(s) ELSE Least(Len(s), pos + len))

RemoveAt(s, pos, len) ==
  IF len <= 0 \/ pos < 0 \/ pos >= Len(s) THEN s
  ELSE SubSeq(s, 1, pos) \o SubSeq(s, pos + len + 1, Len(s))

\* Beyond the end the gap is filled with spaces.
InsertAt(s, pos, data) ==
  IF pos < 0 \/ data = <<>> THEN s
  ELSE SubSeq(s, 1, Least(pos, Len(s)))
         \o [i \in 1 .. Most(pos - Len(s), 0) |-> Space]
         \o data \o SubSeq(s, pos + 1, Len(s))

ReplaceAt(s, pos, data) == InsertAt(RemoveAt(s, pos, Len(data)), pos, data)

-----------------------------------------------------------------------------
(* InsertCommand, RemoveCommand, ReplaceCommand *)

Insertion(pos, data) ==
  [op |-> "insert", pos |-> pos, len |-> 0, data |-> data, old |-> <<>>]
Removal(pos, len) ==
  [op |-> "remove", pos |-> pos, len |-> len, data |-> <<>>, old |-> <<>>]
Replacement(pos, data) ==
  [op |-> "replace", pos |-> pos, len |-> 0, data |-> data, old |-> <<>>]

\* What redo() leaves in the command: the bytes it is about to change.
BackedUp(c, s) ==
  CASE c.op = "insert" -> c
    [] c.op = "remove" -> [c EXCEPT !.old = Mid(s, c.pos, c.len)]
    [] c.op = "replace" -> [c EXCEPT !.old = Mid(s, c.pos, Len(c.data))]

RedoBytes(c, s) ==
  CASE c.op = "insert" -> InsertAt(s, c.pos, c.data)
    [] c.op = "remove" -> RemoveAt(s, c.pos, c.len)
    [] c.op = "replace" -> ReplaceAt(s, c.pos, c.data)

\* Faulty form: what was removed comes back one byte late.
UndoBytesLate(c, s) ==
  CASE c.op = "insert" -> RemoveAt(s, c.pos, Len(c.data))
    [] c.op = "remove" -> InsertAt(s, c.pos + 1, c.old)
    [] c.op = "replace" -> ReplaceAt(s, c.pos, c.old)

UndoBytes(c, s) ==
  CASE c.op = "insert" -> RemoveAt(s, c.pos, Len(c.data))
    [] c.op = "remove" -> InsertAt(s, c.pos, c.old)
    [] c.op = "replace" -> ReplaceAt(s, c.pos, c.old)

-----------------------------------------------------------------------------
(***************************************************************************)
(* QUndoStack: `index' commands are done, those behind them were undone.   *)
(* History, for the properties: before[k] is what the bytes were when the  *)
(* k-th command was pushed, before[Len + 1] what they were after the last  *)
(* one; `spoiled' is set when a command is undone that did not do what it  *)
(* undoes: an insertion beyond the end, whose gap stays; a replacement     *)
(* that reached over the end, whose excess stays; a removal of a negative  *)
(* length, which removed nothing but backed up the rest.                   *)
(***************************************************************************)
Push(d, command) ==
  LET bytes == RedoBytes(command, d.bytes)
  IN [d EXCEPT !.bytes = bytes,
               !.commands = Append(SubSeq(@, 1, d.index),
                                   BackedUp(command, d.bytes)),
               !.index = @ + 1,
               !.before = Append(SubSeq(@, 1, d.index + 1), bytes)]

Stretched(c, s) ==
  /\ c.pos >= 0
  /\ \/ c.op = "insert" /\ c.data # <<>> /\ c.pos > Len(s)
     \/ c.op = "replace" /\ Len(c.old) < Len(c.data)
     \/ c.op = "remove" /\ c.len < 0

UndoOne(d) ==
  LET c == d.commands[d.index] IN
  IF d.index = 0 THEN d
  ELSE [d EXCEPT !.bytes = UndoBytes(c, @),
                 !.index = @ - 1,
                 !.spoiled = @ \/ Stretched(c, d.before[d.index])]

RedoOne(d) ==
  LET c == d.commands[d.index + 1] IN
  IF d.index = Len(d.commands) THEN d
  ELSE [d EXCEPT !.bytes = RedoBytes(c, @),
                 !.commands[d.index + 1] = BackedUp(c, d.bytes),
                 !.index = @ + 1]

-----------------------------------------------------------------------------
(* QHexPosition, QHexCursor.  The selection is what lies between the two. *)

At(line, column, nibble) == [line |-> line, column |-> column, nibble |-> nibble]
Home == At(0, 0, 1)

Offset(d, p) == Signed(p.line * d.width) + p.column

Precedes(p, q) == p.line < q.line \/ (p.line = q.line /\ p.column < q.column)

SelectionStart(d) == IF Precedes(d.pos, d.sel) THEN d.pos ELSE d.sel
SelectionEnd(d) == IF Precedes(d.sel, d.pos) THEN d.pos ELSE d.sel
\* Faulty form: the byte at the end is left out.
SelectionLengthShort(d) ==
  Offset(d, SelectionEnd(d)) - Offset(d, SelectionStart(d))

SelectionLength(d) ==
  Offset(d, SelectionEnd(d)) - Offset(d, SelectionStart(d)) + 1

HasSelection(d) == d.pos # d.sel
IsLineSelected(d, line) ==
  HasSelection(d) /\ SelectionStart(d).line <= line /\ line <= SelectionEnd(d).line

MovedTo(d, p) == [d EXCEPT !.pos = p, !.sel = p]
SelectedTo(d, p) == [d EXCEPT !.pos = p]
SelectionCleared(d) == [d EXCEPT !.sel = d.pos]

-----------------------------------------------------------------------------
(* QHexDocument *)

Created(bytes) ==
  [bytes |-> bytes, commands |-> <<>>, index |-> 0,
   pos |-> Home, sel |-> Home, mode |-> "overwrite", width |-> DefaultWidth,
   before |-> <<bytes>>, spoiled |-> FALSE]

AtEnd(d) == Offset(d, d.pos) >= Len(d.bytes)

Inserted(d, offset, data) == Push(d, Insertion(offset, data))
Replaced(d, offset, data) == Push(d, Replacement(offset, data))
Removed(d, offset, len) == Push(d, Removal(offset, len))

RemovedSelection(d) ==
  IF ~HasSelection(d) THEN d
  ELSE SelectionCleared(
         Removed(d, Offset(d, SelectionStart(d)), SelectionLength(d)))

\* Where `pattern' (of two bytes or more) begins in s.
Occurrences(s, pattern) ==
  {k \in 0 .. Len(s) - Len(pattern) : Mid(s, k, Len(pattern)) = pattern}

\* indexOf from the cursor, lastIndexOf from before it; -1 if there is none.
FoundForward(d, pattern) ==
  LET start == Offset(d, d.pos)
      from == IF start < 0 THEN Most(start + Len(d.bytes), 0) ELSE start
      hits == {k \in Occurrences(d.bytes, pattern) : k >= from}
  IN IF hits = {} THEN -1 ELSE CHOOSE k \in hits : \A j \in hits : k <= j

\* From before the first byte the search goes on from the last.
FoundBackward(d, pattern) ==
  LET start == Offset(d, IF HasSelection(d) THEN SelectionStart(d) ELSE d.pos) - 1
      hits == {k \in Occurrences(d.bytes, pattern) : start < 0 \/ k <= start}
  IN IF start > Len(d.bytes) \/ hits = {} THEN -1
     ELSE CHOOSE k \in hits : \A j \in hits : k >= j

\* Neither the cursor's lines and columns nor the scroll bars are adapted.
WithWidth(d, width) == [d EXCEPT !.width = width]

=============================================================================
