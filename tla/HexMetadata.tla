---------------------------- MODULE HexMetadata ----------------------------
(***************************************************************************)
(* client/QHexView/document/qhexmetadata.cpp: colours and comments, given  *)
(* for a range of offsets and kept a second time by line, in the form the  *)
(* renderer and the tool tips read.  `m' is the record of both; an item is *)
(* known by its number.                                                    *)
(***************************************************************************)
EXTENDS Integers, Sequences

NoMetadata(width) == [width |-> width, items |-> <<>>, lines |-> {}, hidden |-> {}]

\* Faulty form: the last line is taken for a whole one.
PiecesWhole(id, item, width) ==
  LET first == item.begin \div width
      last == item.end \div width
      Start(row) == IF row = first THEN item.begin % width ELSE 0
  IN {[line |-> row, start |-> Start(row), length |-> width, id |-> id] :
        row \in first .. last}

(***************************************************************************)
(* setAbsoluteMetadata: the pieces of an item, one a line.  A piece of the *)
(* first line of several begins where the item does and is still a whole   *)
(* line long.                                                              *)
(***************************************************************************)
Pieces(id, item, width) ==
  LET first == item.begin \div width
      last == item.end \div width
      Start(row) == IF row = first THEN item.begin % width ELSE 0
      Length(row) == IF row = last THEN (item.end % width) - Start(row) ELSE width
  IN {[line |-> row, start |-> Start(row), length |-> Length(row), id |-> id] :
        row \in {r \in first .. last : Length(r) > 0}}

\* metadata(begin, end, ...)
WithItem(m, item) ==
  [m EXCEPT !.items = Append(@, item),
            !.lines = @ \cup Pieces(Len(m.items) + 1, item, m.width)]

\* clear(line); history: what it hides.
LineCleared(m, line) ==
  [m EXCEPT !.lines = {p \in @ : p.line # line},
            !.hidden = @ \cup {<<line, p.id>> : p \in {q \in m.lines : q.line = line}}]

AllCleared(m) == NoMetadata(m.width)

\* setLineWidth: the lines are made again, only if the width is another.
MetadataWithWidth(m, width) ==
  IF width = m.width THEN m
  ELSE [m EXCEPT !.width = width,
                 !.lines = UNION {Pieces(k, m.items[k], width) : k \in DOMAIN m.items},
                 !.hidden = {}]

\* comments(line, column), in the order of their numbers.
Comments(m, line, column) ==
  {p.id : p \in {q \in m.lines : /\ q.line = line
                                 /\ q.start <= column
                                 /\ column < q.start + q.length}}

-----------------------------------------------------------------------------
\* What the items themselves say about an offset.
Covering(m, offset) ==
  {k \in DOMAIN m.items : m.items[k].begin <= offset /\ offset < m.items[k].end}

=============================================================================
