------------------------------ MODULE HexView ------------------------------
(***************************************************************************)
(* client/QHexView/qhexview.cpp, and what qhexrenderer.cpp tells it about  *)
(* lines and columns: keys, mouse and scroll bar of the widget in which    *)
(* the capture dialog shows a packet.                                      *)
(*                                                                         *)
(* The document's record has four more fields: the area that takes the     *)
(* keys, the value and the maximum of the scroll bar, and whether the view *)
(* is read-only, as it is in the capture dialog.                           *)
(***************************************************************************)
EXTENDS HexDocument, HexMetadata, FiniteSets

CONSTANTS
  HEIGHT,     \* lines the viewport has room for
  Packets,    \* what is shown: sequences of bytes
  Clips,      \* what the clipboard may hold, decoded
  Keys,       \* printable characters that are typed
  Digits,     \* hexadecimal digits that are typed
  Patterns,   \* what is searched
  Ranges,     \* [begin, end] that get a comment
  Widths,     \* line widths that are set
  TreeRanges, \* what an item of the capture dialog's tree points at
  MaxSteps    \* bound: handlers that run on a document

ASSUME ViewAssumption == HEIGHT \in Nat \ {0} /\ Widths \subseteq Nat \ {0}
ASSUME RangesAssumption == Ranges \subseteq [begin : Nat, end : Nat]
ASSUME TreeAssumption == TreeRanges \subseteq [begin : Int, end : Int]
ASSUME BytesAssumption ==
  /\ Packets \subseteq Seq(Byte) /\ Clips \subseteq Seq(Byte) /\ Patterns \subseteq Seq(Byte)
  /\ Keys \subseteq Byte /\ Digits \subseteq 0 .. 15

VARIABLES
  doc,        \* the document and the view's own fields
  meta,       \* the document's metadata
  steps       \* handlers since the document was set, up to MaxSteps

vars == <<doc, meta, steps>>

-----------------------------------------------------------------------------
(* QHexRenderer: the byte behind the last one has a place too. *)

DocumentLines(d) == Len(d.bytes) \div d.width + 1
LastLine(d) == DocumentLines(d) - 1
LineBytes(d, line) == Mid(d.bytes, line * d.width, d.width)
LastColumn(d) == Len(LineBytes(d, LastLine(d)))

(***************************************************************************)
(* applySelection: the bytes that show as selected.                        *)
(***************************************************************************)
HighlightedIn(d, line) ==
  LET start == SelectionStart(d)
      end == SelectionEnd(d)
      first == IF line = start.line THEN start.column ELSE 0
      last == IF line = end.line THEN end.column ELSE d.width - 1
  IN IF ~IsLineSelected(d, line) THEN {}
     ELSE {line * d.width + c : c \in {k \in first .. last :
                                         0 <= k /\ k < Len(LineBytes(d, line))}}

Highlighted(d) == UNION {HighlightedIn(d, line) : line \in 0 .. LastLine(d)}

-----------------------------------------------------------------------------
(* The scroll bar *)

VisibleLines(d) == Least(HEIGHT, DocumentLines(d))

IsLineVisible(d, line) == d.top <= line /\ line <= d.top + VisibleLines(d) - 1

Scrolled(d, value) == [d EXCEPT !.top = Most(0, Least(value, d.max))]

\* On documentChanged.
Adjusted(d) ==
  IF DocumentLines(d) > VisibleLines(d)
  THEN LET e == [d EXCEPT !.max = DocumentLines(d) - VisibleLines(d) + 1]
       IN Scrolled(e, e.top)
  ELSE [d EXCEPT !.top = 0, !.max = DocumentLines(d)]

\* Faulty form: a whole page up, so that the line is below the last one shown.
FollowedAbove(d) ==
  IF IsLineVisible(d, d.pos.line) THEN d
  ELSE Scrolled(d, Signed(d.pos.line - VisibleLines(d)))

\* moveToSelection, on positionChanged.
Followed(d) ==
  IF IsLineVisible(d, d.pos.line) THEN d
  ELSE Scrolled(d, Signed(d.pos.line - VisibleLines(d) \div 2))

Moved(d, line, column, nibble) == Followed(MovedTo(d, At(line, column, nibble)))
Extended(d, line, column, nibble) == Followed(SelectedTo(d, At(line, column, nibble)))
Put(d, select, line, column, nibble) ==
  IF select THEN Extended(d, line, column, nibble) ELSE Moved(d, line, column, nibble)

-----------------------------------------------------------------------------
(* Moving by a character.  In the hex area the nibbles are passed one by   *)
(* one; -1 comes from the remainder of a negative number and counts as 1.  *)

MovedNext(d, select) ==
  LET p == d.pos
      hex == d.area = "hex"
      lastcell == p.line >= LastLine(d) /\ p.column >= LastColumn(d)
      stays == IF hex THEN \/ lastcell /\ p.nibble = 0
                           \/ Offset(d, p) >= Len(d.bytes) /\ p.nibble # 0
               ELSE lastcell
      nibble == IF hex THEN (p.nibble + 1) % 2 ELSE 1
      column == IF hex /\ nibble = 0 THEN p.column ELSE p.column + 1
  IN IF stays THEN d
     ELSE IF column > d.width - 1
          THEN Put(d, select, Least(LastLine(d), (p.line + 1) % WORD), 0, 1)
          ELSE Put(d, select, p.line, column, nibble)

MovedPrevious(d, select) ==
  LET p == d.pos
      hex == d.area = "hex"
      firstcell == p.line = 0 /\ p.column = 0
      nibble == IF ~hex THEN 1 ELSE IF p.nibble = 0 THEN -1 ELSE 0
      column == IF hex /\ nibble # 0 THEN p.column ELSE p.column - 1
  IN IF firstcell /\ (~hex \/ p.nibble # 0) THEN d
     ELSE IF column < 0
          THEN Put(d, select, (p.line - 1) % WORD, d.width - 1, 0)
          ELSE Put(d, select, p.line, column, nibble)

-----------------------------------------------------------------------------
(* processMove, the other keys *)

MovedLineDown(d, select) ==
  IF LastLine(d) = d.pos.line THEN d
  ELSE Put(d, select, (d.pos.line + 1) % WORD, d.pos.column, 1)

MovedLineUp(d, select) ==
  IF d.pos.line = 0 THEN d ELSE Put(d, select, d.pos.line - 1, d.pos.column, 1)

MovedPageDown(d, select) ==
  IF LastLine(d) = d.pos.line THEN d
  ELSE Put(d, select, Least(LastLine(d), (d.pos.line + VisibleLines(d)) % WORD),
           d.pos.column, 1)

\* Faulty form: a line further up.
MovedPageUpMore(d, select) ==
  IF d.pos.line = 0 THEN d
  ELSE Put(d, select, (d.pos.line - VisibleLines(d) - 1) % WORD, d.pos.column, 1)

\* max(0, ...) of unsigned numbers keeps nothing from wrapping.
MovedPageUp(d, select) ==
  IF d.pos.line = 0 THEN d
  ELSE Put(d, select, (d.pos.line - VisibleLines(d)) % WORD, d.pos.column, 1)

MovedToStart(d, select) ==
  IF d.pos.line = 0 THEN d ELSE Put(d, select, 0, 0, 1)

MovedToEnd(d, select) ==
  IF LastLine(d) = d.pos.line THEN d
  ELSE Put(d, select, LastLine(d), LastColumn(d), 1)

MovedToLineStart(d, select) == Put(d, select, d.pos.line, 0, 1)

MovedToLineEnd(d, select) ==
  IF d.pos.line = LastLine(d) THEN Put(d, select, d.pos.line, LastColumn(d), 1)
  ELSE Put(d, select, d.pos.line, d.width - 1, 0)

ProcessMove(d, key, select) ==
  CASE key = "next" -> MovedNext(d, select)
    [] key = "previous" -> MovedPrevious(d, select)
    [] key = "down" -> MovedLineDown(d, select)
    [] key = "up" -> MovedLineUp(d, select)
    [] key = "pageDown" -> MovedPageDown(d, select)
    [] key = "pageUp" -> MovedPageUp(d, select)
    [] key = "start" -> MovedToStart(d, select)
    [] key = "end" -> MovedToEnd(d, select)
    [] key = "lineStart" -> MovedToLineStart(d, select)
    [] key = "lineEnd" -> MovedToLineEnd(d, select)

MoveKeys == {"next", "previous", "down", "up", "pageDown", "pageUp",
             "start", "end", "lineStart", "lineEnd"}

-----------------------------------------------------------------------------
(* Editing.  Every operation of the document emits documentChanged, a      *)
(* cleared selection positionChanged.                                      *)

CutSelection(d) ==
  IF ~HasSelection(d) THEN d ELSE Followed(Adjusted(RemovedSelection(d)))

\* The selection goes, but the cursor stays: the bytes of the clipboard go
\* where it is, at either end of what was selected.
Pasted(d, data) ==
  LET e == CutSelection(d)
      pos == Offset(e, e.pos)
  IN Adjusted(IF d.mode = "insert" THEN Inserted(e, pos, data)
              ELSE Replaced(e, pos, data))

SelectedAll(d) ==
  Extended(Moved(d, 0, 0, 1), LastLine(d), LastColumn(d) - 1, 1)

\* Delete leaves the cursor where it is, but one further behind a selection;
\* at offset 0 neither key does anything.
Erased(d, key) ==
  LET pos == Offset(d, d.pos)
      start == SelectionStart(d)
      e == IF HasSelection(d)
           THEN Moved(CutSelection(d), start.line, start.column + 1, 1)
           ELSE Adjusted(Removed(d, IF key = "backspace" THEN pos - 1 ELSE pos, 1))
      back == IF e.area = "hex" THEN MovedPrevious(e, FALSE) ELSE e
  IN IF ~HasSelection(d) /\ pos <= 0 THEN d
     ELSE IF key = "backspace" THEN MovedPrevious(back, FALSE) ELSE e

\* The byte at the cursor; any would do for one outside, as nothing is
\* replaced there.
ByteAt(d, offset) ==
  IF offset \in 0 .. Len(d.bytes) - 1 THEN d.bytes[offset + 1] ELSE Space

TypedDigit(d, digit) ==
  LET e == CutSelection(d)
      pos == Offset(e, e.pos)
      ch == ByteAt(e, pos)
      new == IF e.pos.nibble # 0 THEN <<digit, ch[2]>> ELSE <<ch[1], digit>>
  IN IF AtEnd(e) \/ (e.pos.nibble # 0 /\ e.mode = "insert")
     THEN MovedNext(Adjusted(Inserted(e, pos, <<<<digit, 0>>>>)), FALSE)
     ELSE MovedNext(Adjusted(Replaced(e, pos, <<new>>)), FALSE)

TypedKey(d, char) ==
  LET e == CutSelection(d)
      pos == Offset(e, e.pos)
  IN MovedNext(Adjusted(IF ~AtEnd(e) /\ e.mode = "overwrite"
                        THEN Replaced(e, pos, <<char>>)
                        ELSE Inserted(e, pos, <<char>>)), FALSE)

SwitchedMode(d) ==
  [d EXCEPT !.mode = IF @ = "overwrite" THEN "insert" ELSE "overwrite"]

\* moveTo(offset) and select(length): no further than the end of the line.
SelectedFound(d, offset, len) ==
  LET line == offset \div d.width
      column == offset % d.width
  IN Extended(Moved(Followed(SelectionCleared(d)), line, column, 1),
              line, Least(d.width - 1, column + len - 1), 1)

-----------------------------------------------------------------------------
(* The mouse: hitTest *)

Hit(d, area, row, column, half) ==
  LET line == Least(d.top + row, LastLine(d))
      last == IF line = LastLine(d) THEN Len(LineBytes(d, line)) ELSE d.width - 1
  IN At(line, Least(column, last), IF area = "hex" THEN half ELSE 1)

-----------------------------------------------------------------------------
(* Actions *)

Edit(d) == ~doc.readonly /\ doc' = d /\ UNCHANGED meta

\* setDocument adjusts the scroll bar, whose value may stay.
Shown(bytes, readonly, top, max) ==
  LET d == Created(bytes)
      v == [area |-> "hex", top |-> top, max |-> max, readonly |-> readonly]
  IN Adjusted([x \in DOMAIN d \cup DOMAIN v |->
                 IF x \in DOMAIN d THEN d[x] ELSE v[x]])

Init ==
  /\ \E readonly \in BOOLEAN : doc = Shown(<<>>, readonly, 0, 0)
  /\ meta = NoMetadata(DefaultWidth)
  /\ steps = 0

\* A row of the capture dialog's table is clicked.
SetDocument(bytes) ==
  /\ doc' = Shown(bytes, doc.readonly, doc.top, doc.max)
  /\ meta' = NoMetadata(DefaultWidth)

\* An item of its tree is: what it points at is selected, packet or not.
TreeItemClicked(range) ==
  LET d == Moved(doc, range.begin \div doc.width, range.begin % doc.width, 1)
  IN /\ doc' = Extended(d, range.end \div d.width, range.end % d.width, 1)
     /\ UNCHANGED meta

Move(key, select) == doc' = ProcessMove(doc, key, select) /\ UNCHANGED meta

SelectAll == Edit(SelectedAll(doc))
Undo == Edit(Adjusted(UndoOne(doc)))
Redo == Edit(Adjusted(RedoOne(doc)))
Cut == Edit(CutSelection(doc))
Paste(data) == Edit(Pasted(doc, data))
Erase(key) == Edit(Erased(doc, key))
SwitchMode == Edit(SwitchedMode(doc))
TypeDigit(digit) == doc.area = "hex" /\ Edit(TypedDigit(doc, digit))
TypeKey(char) == doc.area = "ascii" /\ Edit(TypedKey(doc, char))

MousePress(area, row, column, half) ==
  LET p == Hit(doc, area, row, column, half)
  IN doc' = Moved([doc EXCEPT !.area = area], p.line, p.column, p.nibble)
     /\ UNCHANGED meta

MouseMove(row, column) ==
  LET p == Hit(doc, "hex", row, column, 1)
  IN doc' = Extended(doc, p.line, p.column, 0) /\ UNCHANGED meta

Scroll(value) ==
  value \in 0 .. doc.max /\ doc' = Scrolled(doc, value) /\ UNCHANGED meta

Search(pattern, forward) ==
  LET found == IF forward THEN FoundForward(doc, pattern)
               ELSE FoundBackward(doc, pattern)
  IN doc' = (IF found < 0 THEN doc ELSE SelectedFound(doc, found, Len(pattern)))
     /\ UNCHANGED meta

SetHexLineWidth(width) ==
  doc' = WithWidth(doc, width) /\ meta' = MetadataWithWidth(meta, width)

Comment(range) == meta' = WithItem(meta, range) /\ UNCHANGED doc
ClearLine(line) == meta' = LineCleared(meta, line) /\ UNCHANGED doc
\* The document is told, and the scroll bar adjusted.
ClearAll == meta' = AllCleared(meta) /\ doc' = Adjusted(doc)

Rows == 0 .. HEIGHT - 1

Handlers ==
  \/ \E range \in TreeRanges : TreeItemClicked(range)
  \/ \E key \in MoveKeys, select \in BOOLEAN : Move(key, select)
  \/ SelectAll \/ Undo \/ Redo \/ Cut \/ SwitchMode
  \/ \E data \in Clips : Paste(data)
  \/ \E key \in {"backspace", "delete"} : Erase(key)
  \/ \E digit \in Digits : TypeDigit(digit)
  \/ \E char \in Keys : TypeKey(char)
  \/ \E area \in {"hex", "ascii"}, row \in Rows, column \in 0 .. doc.width - 1,
        half \in {0, 1} : MousePress(area, row, column, half)
  \/ \E row \in Rows, column \in 0 .. doc.width - 1 : MouseMove(row, column)
  \/ \E value \in 0 .. doc.max : Scroll(value)
  \/ \E pattern \in Patterns, forward \in BOOLEAN : Search(pattern, forward)
  \/ \E width \in Widths : SetHexLineWidth(width)
  \/ \E range \in Ranges : Comment(range)
  \/ \E line \in {p.line : p \in meta.lines} : ClearLine(line)
  \/ ClearAll

Next ==
  \/ \E bytes \in Packets : SetDocument(bytes) /\ steps' = 0
  \/ steps < MaxSteps /\ steps' = steps + 1 /\ Handlers

Spec == Init /\ [][Next]_vars

-----------------------------------------------------------------------------
OnLine(d, p) == p.line \in 0 .. LastLine(d)
OnGrid(d, p) == OnLine(d, p) /\ p.column \in 0 .. d.width - 1

\* t is s without the bytes at the offsets in `gone': every other byte moves up
\* by as many places as bytes before it are gone.
LeavesOut(t, s, gone) ==
  /\ Len(t) = Len(s) - Cardinality(gone)
  /\ \A i \in DOMAIN s :
       i - 1 \notin gone => t[i - Cardinality({o \in gone : o < i - 1})] = s[i]

(***************************************************************************)
(* Whatever was typed, pasted, cut, undone and redone, through a cursor    *)
(* and a selection the undo stack does not restore: after an undo or redo  *)
(* the bytes are what they were when the commands now done had just been   *)
(* done, unless a command was undone that had padded the document or had   *)
(* reached over its end (see `spoiled').                                   *)
(***************************************************************************)
UndoRestores == ~doc.spoiled => doc.bytes = doc.before[doc.index + 1]

(***************************************************************************)
(* Cut, paste, delete and typing remove exactly what shows as selected, as *)
(* long as both ends of the selection are in a column of a line: the lines *)
(* the renderer highlights and the offsets the document removes are worked *)
(* out apart.                                                              *)
(***************************************************************************)
CutTakesHighlighted ==
  HasSelection(doc) /\ OnGrid(doc, doc.pos) /\ OnGrid(doc, doc.sel)
    => LeavesOut(CutSelection(doc).bytes, doc.bytes, Highlighted(doc))

(***************************************************************************)
(* What the tool tip of a byte says is what was said about its offset,     *)
(* whatever line widths and comments came in which order, apart from what  *)
(* was cleared with a line since.                                          *)
(***************************************************************************)
CommentsFollowItems ==
  \A k \in DOMAIN meta.items :
    \A offset \in 0 .. meta.items[k].end + meta.width :
      LET line == offset \div meta.width
      IN Comments(meta, line, offset % meta.width) =
           {j \in Covering(meta, offset) : <<line, j>> \notin meta.hidden}

(***************************************************************************)
(* A key moves the cursor off the document's lines in two ways only, both  *)
(* an unsigned number below zero: page-up less than a page below the top,  *)
(* and left from before the first column, where select-all on an empty     *)
(* document puts the cursor.                                               *)
(***************************************************************************)
LostOnlyByWrap ==
  [][/\ OnLine(doc, doc.pos)
     /\ ~OnLine(doc', doc'.pos)
     => \A key \in MoveKeys, select \in BOOLEAN : Move(key, select) =>
          \/ key = "pageUp" /\ doc.pos.line < VisibleLines(doc)
          \/ key = "previous" /\ doc.pos.line = 0 /\ doc.pos.column < 0]_vars

(***************************************************************************)
(* A cursor that moves can be seen: the view scrolls to its line.  Not     *)
(* when another document is set, whose cursor starts at the top while the  *)
(* scroll bar stays where it was, and not while the scroll bar still has   *)
(* the range of another line width.                                        *)
(***************************************************************************)
CursorShown ==
  [][/\ doc'.pos # doc.pos
     /\ steps' # 0
     /\ OnLine(doc', doc'.pos)
     /\ doc'.max = Adjusted(doc').max
     => IsLineVisible(doc', doc'.pos.line)]_vars

=============================================================================
