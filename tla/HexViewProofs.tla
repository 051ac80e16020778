--------------------------- MODULE HexViewProofs ---------------------------
(***************************************************************************)
(* Proofs about the hex view, for any documents, comments, line widths,    *)
(* contents of the clipboard and sequences of handlers: what comments      *)
(* show, what undo restores, which keys take the cursor off the lines,     *)
(* that what is cut is what shows as selected, and that a moved cursor is  *)
(* scrolled into view.                                                     *)
(***************************************************************************)
EXTENDS HexView, FiniteSetTheorems, WellFoundedInduction, TLAPS

-----------------------------------------------------------------------------
(* Comments *)

Items == [begin : Nat, end : Nat]

\* A piece of an item is there unless its line was cleared since.
Derived(m) ==
  /\ m.width \in Nat \ {0}
  /\ m.items \in Seq(Items)
  /\ \A pair \in m.hidden : pair[2] \in DOMAIN m.items
  /\ \A p \in m.lines : \E k \in DOMAIN m.items :
       p \in Pieces(k, m.items[k], m.width) /\ <<p.line, k>> \notin m.hidden
  /\ \A k \in DOMAIN m.items : \A p \in Pieces(k, m.items[k], m.width) :
       p \in m.lines \/ <<p.line, k>> \in m.hidden

-----------------------------------------------------------------------------
(* Lines and columns *)

LEMMA Quotient ==
  ASSUME NEW w \in Nat \ {0}, NEW x \in Nat
  PROVE  /\ x \div w \in Nat
         /\ x % w \in 0 .. w - 1
         /\ x % w = x - w * (x \div w)
OBVIOUS

LEMMA LineBefore ==
  ASSUME NEW w \in Nat \ {0}, NEW q \in Nat, NEW r \in Nat, q < r
  PROVE  w * q + w <= w * r
<1>1. PICK k \in Nat : r = q + 1 + k
  <2>1. r - q - 1 \in Nat /\ r = q + 1 + (r - q - 1)
    OBVIOUS
  <2> QED
    BY <2>1
<1>2. w * r = w * q + w + w * k
  BY <1>1
<1>3. w * k >= 0
  OBVIOUS
<1>4. w * q \in Nat /\ w * k \in Nat /\ w * r \in Nat
  OBVIOUS
<1> QED
  BY <1>2, <1>3, <1>4

\* Offsets are ordered as their lines are and, on one line, their columns.
LEMMA Lexicographic ==
  ASSUME NEW w \in Nat \ {0}, NEW x \in Nat, NEW y \in Nat
  PROVE  x < y <=> \/ x \div w < y \div w
                   \/ x \div w = y \div w /\ x % w < y % w
<1> DEFINE q == x \div w
           r == y \div w
           c == x % w
           e == y % w
<1>1. /\ q \in Nat /\ c \in 0 .. w - 1 /\ c = x - w * q
      /\ r \in Nat /\ e \in 0 .. w - 1 /\ e = y - w * r
  BY Quotient
<1> HIDE DEF q, r, c, e
<1>2. w * q \in Nat /\ w * r \in Nat
  BY <1>1
<1>3. CASE q < r
  <2>1. w * q + w <= w * r
    BY <1>1, <1>3, LineBefore
  <2> QED
    BY <1>1, <1>2, <1>3, <2>1 DEF q, r
<1>4. CASE r < q
  <2>1. w * r + w <= w * q
    BY <1>1, <1>4, LineBefore
  <2>2. ~(x < y)
    BY <1>1, <1>2, <2>1
  <2>3. ~(q < r) /\ q # r
    BY <1>1, <1>4
  <2> QED
    BY <2>2, <2>3 DEF q, r
<1>5. CASE q = r
  <2>1. x < y <=> c < e
    BY <1>1, <1>2, <1>5
  <2> QED
    BY <1>1, <1>5, <2>1 DEF q, r, c, e
<1> QED
  BY <1>1, <1>3, <1>4, <1>5

-----------------------------------------------------------------------------
(* A byte is in a piece of an item exactly if the item covers it. *)

Shows(p, line, column) == p.line = line /\ p.start <= column /\ column < p.start + p.length

LEMMA PieceShows ==
  ASSUME NEW w \in Nat \ {0}, NEW item \in Items, NEW id, NEW offset \in Nat
  PROVE  (\E p \in Pieces(id, item, w) : Shows(p, offset \div w, offset % w))
           <=> item.begin <= offset /\ offset < item.end
<1> DEFINE first == item.begin \div w
           last == item.end \div w
           line == offset \div w
           column == offset % w
           b == item.begin % w
           e == item.end % w
           start == IF line = first THEN b ELSE 0
           length == IF line = last THEN e - start ELSE w
<1>1. /\ first \in Nat /\ last \in Nat /\ line \in Nat
      /\ b \in 0 .. w - 1 /\ e \in 0 .. w - 1 /\ column \in 0 .. w - 1
      /\ item.begin \in Nat /\ item.end \in Nat
  BY Quotient DEF Items
<1>2. offset < item.begin <=> line < first \/ (line = first /\ column < b)
  BY <1>1, Lexicographic
<1>3. offset < item.end <=> line < last \/ (line = last /\ column < e)
  BY <1>1, Lexicographic
<1>4. (\E p \in Pieces(id, item, w) : Shows(p, line, column))
        <=> /\ line \in first .. last
            /\ length > 0
            /\ start <= column /\ column < start + length
  <2>1. ASSUME NEW p \in Pieces(id, item, w), Shows(p, line, column)
        PROVE  /\ line \in first .. last
               /\ length > 0
               /\ start <= column /\ column < start + length
    BY <2>1 DEF Pieces, Shows
  <2>2. ASSUME line \in first .. last, length > 0, start <= column, column < start + length
        PROVE  \E p \in Pieces(id, item, w) : Shows(p, line, column)
    <3> DEFINE p == [line |-> line, start |-> start, length |-> length, id |-> id]
    <3>1. p \in Pieces(id, item, w)
      BY <2>2 DEF Pieces
    <3>2. Shows(p, line, column)
      BY <2>2 DEF Shows
    <3> QED
      BY <3>1, <3>2
  <2> QED
    BY <2>1, <2>2
<1> HIDE DEF first, last, line, column, b, e
<1>5. (/\ line \in first .. last
       /\ length > 0
       /\ start <= column /\ column < start + length)
      <=> /\ ~(line < first \/ (line = first /\ column < b))
          /\ line < last \/ (line = last /\ column < e)
  BY <1>1
<1>6. item.begin <= offset <=> ~(offset < item.begin)
  BY <1>1
<1> QED
  BY <1>2, <1>3, <1>4, <1>5, <1>6 DEF line, column

LEMMA PieceId ==
  ASSUME NEW w, NEW item, NEW id, NEW p \in Pieces(id, item, w)
  PROVE  p.id = id
BY DEF Pieces

LEMMA DerivedFollows ==
  ASSUME NEW m, Derived(m), NEW offset \in Nat
  PROVE  LET line == offset \div m.width
         IN Comments(m, line, offset % m.width) =
              {j \in Covering(m, offset) : <<line, j>> \notin m.hidden}
<1> DEFINE line == offset \div m.width
           column == offset % m.width
<1>1. m.width \in Nat \ {0} /\ \A k \in DOMAIN m.items : m.items[k] \in Items
  BY DEF Derived
<1>2. ASSUME NEW j \in Comments(m, line, column)
      PROVE  j \in Covering(m, offset) /\ <<line, j>> \notin m.hidden
  <2>1. PICK p \in m.lines : p.id = j /\ Shows(p, line, column)
    BY DEF Comments, Shows
  <2>2. PICK k \in DOMAIN m.items :
          p \in Pieces(k, m.items[k], m.width) /\ <<p.line, k>> \notin m.hidden
    BY DEF Derived
  <2>3. k = j /\ p.line = line
    BY <2>1, <2>2, PieceId DEF Shows
  <2>4. m.items[k].begin <= offset /\ offset < m.items[k].end
    BY <1>1, <2>1, <2>2, PieceShows
  <2> QED
    BY <2>2, <2>3, <2>4 DEF Covering
<1>3. ASSUME NEW j \in Covering(m, offset), <<line, j>> \notin m.hidden
      PROVE  j \in Comments(m, line, column)
  <2>1. j \in DOMAIN m.items /\ m.items[j].begin <= offset /\ offset < m.items[j].end
    BY DEF Covering
  <2>2. PICK p \in Pieces(j, m.items[j], m.width) : Shows(p, line, column)
    BY <1>1, <2>1, PieceShows
  <2>3. p \in m.lines
    BY <1>3, <2>1, <2>2 DEF Derived, Shows
  <2>4. p.id = j
    BY PieceId
  <2> QED
    BY <2>2, <2>3, <2>4 DEF Comments, Shows
<1> HIDE DEF line, column
<1>4. Comments(m, line, column) = {j \in Covering(m, offset) : <<line, j>> \notin m.hidden}
  BY <1>2, <1>3
<1> QED
  BY <1>4 DEF line, column

-----------------------------------------------------------------------------
(* The operations on the metadata keep it so. *)

LEMMA EmptyDerived ==
  ASSUME NEW w \in Nat \ {0}
  PROVE  Derived(NoMetadata(w))
BY DEF Derived, NoMetadata

LEMMA WithItemDerived ==
  ASSUME NEW m, Derived(m), NEW item \in Items,
         m = [width |-> m.width, items |-> m.items, lines |-> m.lines, hidden |-> m.hidden]
  PROVE  Derived(WithItem(m, item))
<1> DEFINE n == Len(m.items) + 1
           new == WithItem(m, item)
<1>1. /\ m.items \in Seq(Items) /\ Len(m.items) \in Nat
      /\ DOMAIN m.items = 1 .. Len(m.items)
  BY DEF Derived
<1>2. /\ new.width = m.width
      /\ new.items = Append(m.items, item)
      /\ new.lines = m.lines \cup Pieces(n, item, m.width)
      /\ new.hidden = m.hidden
  BY DEF WithItem
<1> HIDE DEF new
<1>3. /\ new.items \in Seq(Items)
      /\ DOMAIN new.items = DOMAIN m.items \cup {n}
      /\ n \notin DOMAIN m.items
      /\ new.items[n] = item
      /\ \A k \in DOMAIN m.items : new.items[k] = m.items[k]
  BY <1>1, <1>2
<1> HIDE DEF n
<1>4. \A p \in new.lines : \E k \in DOMAIN new.items :
        p \in Pieces(k, new.items[k], new.width) /\ <<p.line, k>> \notin new.hidden
  <2> SUFFICES ASSUME NEW p \in new.lines
               PROVE  \E k \in DOMAIN new.items :
                 p \in Pieces(k, new.items[k], new.width) /\ <<p.line, k>> \notin new.hidden
    OBVIOUS
  <2>1. CASE p \in m.lines
    BY <1>2, <1>3, <2>1 DEF Derived
  <2>2. CASE p \in Pieces(n, item, m.width)
    <3>1. <<p.line, n>> \notin m.hidden
      BY <1>3 DEF Derived
    <3> QED
      BY <1>2, <1>3, <2>2, <3>1
  <2> QED
    BY <1>2, <2>1, <2>2
<1>5. \A k \in DOMAIN new.items : \A p \in Pieces(k, new.items[k], new.width) :
        p \in new.lines \/ <<p.line, k>> \in new.hidden
  BY <1>2, <1>3 DEF Derived
<1> QED
  BY <1>2, <1>3, <1>4, <1>5 DEF Derived, new

LEMMA LineClearedDerived ==
  ASSUME NEW m, Derived(m), NEW line,
         m = [width |-> m.width, items |-> m.items, lines |-> m.lines, hidden |-> m.hidden]
  PROVE  Derived(LineCleared(m, line))
<1> DEFINE new == LineCleared(m, line)
<1>1. /\ new.width = m.width
      /\ new.items = m.items
      /\ new.lines = {p \in m.lines : p.line # line}
      /\ new.hidden = m.hidden \cup {<<line, p.id>> : p \in {q \in m.lines : q.line = line}}
  BY DEF LineCleared
<1> HIDE DEF new
<1>2. \A p \in m.lines : p.id \in DOMAIN m.items
  <2> SUFFICES ASSUME NEW p \in m.lines PROVE p.id \in DOMAIN m.items
    OBVIOUS
  <2>1. PICK k \in DOMAIN m.items : p \in Pieces(k, m.items[k], m.width)
    BY DEF Derived
  <2>2. p.id = k
    BY <2>1, PieceId
  <2> QED
    BY <2>2
<1>3. \A pair \in new.hidden : pair[2] \in DOMAIN new.items
  BY <1>1, <1>2 DEF Derived
<1>4. \A p \in new.lines : \E k \in DOMAIN new.items :
        p \in Pieces(k, new.items[k], new.width) /\ <<p.line, k>> \notin new.hidden
  BY <1>1 DEF Derived
<1>5. \A k \in DOMAIN new.items : \A p \in Pieces(k, new.items[k], new.width) :
        p \in new.lines \/ <<p.line, k>> \in new.hidden
  <2> SUFFICES ASSUME NEW k \in DOMAIN m.items, NEW p \in Pieces(k, m.items[k], m.width),
                      p \in m.lines, p.line = line
               PROVE  <<p.line, k>> \in new.hidden
    BY <1>1 DEF Derived
  <2>1. p.id = k
    BY PieceId
  <2> QED
    BY <1>1, <2>1
<1> QED
  BY <1>1, <1>3, <1>4, <1>5 DEF Derived, new

LEMMA WithWidthDerived ==
  ASSUME NEW m, Derived(m), NEW w \in Nat \ {0},
         m = [width |-> m.width, items |-> m.items, lines |-> m.lines, hidden |-> m.hidden]
  PROVE  Derived(MetadataWithWidth(m, w))
<1>1. CASE w = m.width
  BY <1>1 DEF MetadataWithWidth
<1>2. CASE w # m.width
  <2> DEFINE new == MetadataWithWidth(m, w)
  <2>1. /\ new.width = w
        /\ new.items = m.items
        /\ new.lines = UNION {Pieces(k, m.items[k], w) : k \in DOMAIN m.items}
        /\ new.hidden = {}
    BY <1>2 DEF MetadataWithWidth
  <2> HIDE DEF new
  <2> QED
    BY <2>1 DEF Derived, new
<1> QED
  BY <1>1, <1>2

-----------------------------------------------------------------------------
MetaInv ==
  /\ Derived(meta)
  /\ meta = [width |-> meta.width, items |-> meta.items, lines |-> meta.lines,
             hidden |-> meta.hidden]

\* What the handlers do to the metadata.
MetaStep ==
  \/ UNCHANGED meta
  \/ meta' = NoMetadata(DefaultWidth)
  \/ \E width \in Widths : meta' = MetadataWithWidth(meta, width)
  \/ \E range \in Ranges : meta' = WithItem(meta, range)
  \/ \E line \in {p.line : p \in meta.lines} : meta' = LineCleared(meta, line)
  \/ meta' = AllCleared(meta)

LEMMA NextMeta == [Next]_vars => MetaStep
<1> SUFFICES ASSUME [Next]_vars PROVE MetaStep
  OBVIOUS
<1>1. CASE UNCHANGED vars
  BY <1>1 DEF vars, MetaStep
<1>2. CASE \E bytes \in Packets : SetDocument(bytes) /\ steps' = 0
  BY <1>2 DEF SetDocument, MetaStep
<1>3. CASE Handlers
  BY <1>3 DEF Handlers, TreeItemClicked, Move, SelectAll, Undo, Redo, Cut, SwitchMode, Paste,
       Erase, TypeDigit, TypeKey, Edit, MousePress, MouseMove, Scroll, Search,
       SetHexLineWidth, Comment, ClearLine, ClearAll, MetaStep
<1> QED
  BY <1>1, <1>2, <1>3 DEF Next

LEMMA MetaStepKeeps == MetaInv /\ MetaStep => MetaInv'
<1> SUFFICES ASSUME MetaInv, MetaStep PROVE MetaInv'
  OBVIOUS
<1>1. CASE UNCHANGED meta
  BY <1>1 DEF MetaInv, Derived
<1>2. ASSUME NEW width \in Nat \ {0}, meta' = NoMetadata(width) PROVE MetaInv'
  <2>1. Derived(meta')
    BY <1>2, EmptyDerived
  <2> QED
    BY <1>2, <2>1 DEF MetaInv, NoMetadata
<1>3. ASSUME NEW width \in Widths, meta' = MetadataWithWidth(meta, width) PROVE MetaInv'
  <2>1. Derived(meta')
    BY <1>3, WithWidthDerived, ViewAssumption DEF MetaInv
  <2> QED
    BY <1>3, <2>1 DEF MetaInv, MetadataWithWidth
<1>4. ASSUME NEW range \in Ranges, meta' = WithItem(meta, range) PROVE MetaInv'
  <2>1. Derived(meta')
    BY <1>4, WithItemDerived, RangesAssumption DEF MetaInv, Items
  <2> QED
    BY <1>4, <2>1 DEF MetaInv, WithItem
<1>5. ASSUME NEW line, meta' = LineCleared(meta, line) PROVE MetaInv'
  <2>1. Derived(meta')
    BY <1>5, LineClearedDerived DEF MetaInv
  <2> QED
    BY <1>5, <2>1 DEF MetaInv, LineCleared
<1>6. meta.width \in Nat \ {0}
  BY DEF MetaInv, Derived
<1> QED
  BY <1>1, <1>2, <1>3, <1>4, <1>5, <1>6, WidthAssumption DEF MetaStep, AllCleared

LEMMA Invariance == Spec => []MetaInv
<1>1. Init => MetaInv
  BY EmptyDerived, WidthAssumption DEF Init, MetaInv, NoMetadata
<1> QED
  BY <1>1, NextMeta, MetaStepKeeps, PTL DEF Spec

-----------------------------------------------------------------------------
(***************************************************************************)
(* QHexMetadata keeps comments by offset and by line: whatever comments,   *)
(* widths and cleared lines came in which order, the tool tip of a byte    *)
(* says what was said about its offset and not cleared since.              *)
(***************************************************************************)
THEOREM CommentsStay == Spec => []CommentsFollowItems
<1>1. MetaInv => CommentsFollowItems
  <2> SUFFICES ASSUME MetaInv, NEW k \in DOMAIN meta.items,
                      NEW offset \in 0 .. meta.items[k].end + meta.width
               PROVE  LET line == offset \div meta.width
                      IN Comments(meta, line, offset % meta.width) =
                           {j \in Covering(meta, offset) : <<line, j>> \notin meta.hidden}
    BY DEF CommentsFollowItems
  <2>1. offset \in Nat
    BY DEF MetaInv, Derived, Items
  <2> QED
    BY <2>1, DerivedFollows DEF MetaInv
<1> QED
  BY <1>1, Invariance, PTL

-----------------------------------------------------------------------------
(* Sequences: n elements from offset pos on are replaced by data. *)

Spliced(s, pos, n, data) == SubSeq(s, 1, pos) \o data \o SubSeq(s, pos + n + 1, Len(s))

\* t is that, element by element.
IsSpliced(t, s, pos, n, data) ==
  /\ t \in Seq(Byte)
  /\ Len(t) = (Len(s) - n) + Len(data)
  /\ \A i \in 1 .. pos : t[i] = s[i]
  /\ \A i \in 1 .. Len(data) : t[pos + i] = data[i]
  /\ \A i \in 1 .. (Len(s) - n) - pos : t[(pos + Len(data)) + i] = s[(pos + n) + i]

LEMMA Parts ==
  ASSUME NEW s \in Seq(Byte), NEW m \in 1 .. Len(s) + 1, NEW n \in 0 .. Len(s), m <= n + 1
  PROVE  /\ SubSeq(s, m, n) \in Seq(Byte)
         /\ Len(SubSeq(s, m, n)) = n - m + 1
         /\ \A i \in 1 .. n - m + 1 : SubSeq(s, m, n)[i] = s[m + i - 1]
OBVIOUS

LEMMA SameSeq ==
  ASSUME NEW s \in Seq(Byte), NEW t \in Seq(Byte), Len(s) = Len(t),
         \A i \in 1 .. Len(s) : s[i] = t[i]
  PROVE  s = t
OBVIOUS

LEMMA SpliceFacts ==
  ASSUME NEW s \in Seq(Byte), NEW pos \in Nat, NEW n \in Nat, pos + n <= Len(s),
         NEW data \in Seq(Byte), NEW t, t = Spliced(s, pos, n, data)
  PROVE  IsSpliced(t, s, pos, n, data)
<1> DEFINE a == SubSeq(s, 1, pos)
           b == SubSeq(s, pos + n + 1, Len(s))
           ad == a \o data
<1>1. a \in Seq(Byte) /\ Len(a) = pos /\ \A i \in 1 .. pos : a[i] = s[i]
  <2>1. 1 \in 1 .. Len(s) + 1 /\ pos \in 0 .. Len(s) /\ 1 <= pos + 1
    OBVIOUS
  <2>2. a \in Seq(Byte) /\ Len(a) = pos - 1 + 1 /\ \A i \in 1 .. pos - 1 + 1 : a[i] = s[1 + i - 1]
    BY <2>1, Parts
  <2> QED
    BY <2>2
<1>2. b \in Seq(Byte) /\ Len(b) = (Len(s) - n) - pos
      /\ \A i \in 1 .. (Len(s) - n) - pos : b[i] = s[(pos + n) + i]
  <2>1. pos + n + 1 \in 1 .. Len(s) + 1 /\ Len(s) \in 0 .. Len(s) /\ pos + n + 1 <= Len(s) + 1
    OBVIOUS
  <2>2. b \in Seq(Byte) /\ Len(b) = Len(s) - (pos + n + 1) + 1
        /\ \A i \in 1 .. (Len(s) - (pos + n + 1)) + 1 : b[i] = s[((pos + n + 1) + i) - 1]
    BY <2>1, Parts
  <2> QED
    BY <2>2
<1> HIDE DEF a, b
<1>3. ad \in Seq(Byte) /\ Len(ad) = pos + Len(data) /\ (\A i \in 1 .. pos : ad[i] = s[i])
      /\ \A i \in 1 .. Len(data) : ad[pos + i] = data[i]
  <2>1. a \in Seq(Byte)
    BY <1>1
  <2>2. ad \in Seq(Byte) /\ Len(ad) = Len(a) + Len(data)
        /\ (\A i \in 1 .. Len(a) : ad[i] = a[i])
        /\ \A i \in 1 .. Len(data) : ad[Len(a) + i] = data[i]
    BY <2>1
  <2> HIDE DEF ad
  <2> QED
    BY <1>1, <2>2
<1>5. t = ad \o b
  BY DEF Spliced, a, b, ad
<1> HIDE DEF ad
<1>4. t \in Seq(Byte) /\ Len(t) = Len(ad) + Len(b)
      /\ (\A i \in 1 .. Len(ad) : t[i] = ad[i])
      /\ \A i \in 1 .. Len(b) : t[Len(ad) + i] = b[i]
  <2>1. ad \in Seq(Byte) /\ b \in Seq(Byte)
    BY <1>2, <1>3
  <2> QED
    BY <1>5, <2>1
<1>6. \A i \in 1 .. pos : t[i] = s[i]
  BY <1>3, <1>4
<1>7. \A i \in 1 .. Len(data) : t[pos + i] = data[i]
  <2> SUFFICES ASSUME NEW i \in 1 .. Len(data) PROVE t[pos + i] = data[i]
    OBVIOUS
  <2>1. pos + i \in 1 .. Len(ad)
    BY <1>3
  <2> QED
    BY <1>3, <1>4, <2>1
<1>8. \A i \in 1 .. (Len(s) - n) - pos : t[(pos + Len(data)) + i] = s[(pos + n) + i]
  BY <1>2, <1>3, <1>4
<1>9. Len(t) = (Len(s) - n) + Len(data)
  BY <1>2, <1>3, <1>4
<1> QED
  BY <1>4, <1>6, <1>7, <1>8, <1>9 DEF IsSpliced

LEMMA CutOut ==
  ASSUME NEW s \in Seq(Byte), NEW pos \in Nat, NEW n \in Nat, pos + n <= Len(s),
         NEW old, old = SubSeq(s, pos + 1, pos + n)
  PROVE  old \in Seq(Byte) /\ Len(old) = n /\ \A i \in 1 .. n : old[i] = s[pos + i]
<1>1. pos + 1 \in 1 .. Len(s) + 1 /\ pos + n \in 0 .. Len(s) /\ pos + 1 <= pos + n + 1
  OBVIOUS
<1>2. old \in Seq(Byte) /\ Len(old) = ((pos + n) - (pos + 1)) + 1
      /\ \A i \in 1 .. ((pos + n) - (pos + 1)) + 1 : old[i] = s[((pos + 1) + i) - 1]
  BY <1>1, Parts
<1>3. ((pos + n) - (pos + 1)) + 1 = n
  OBVIOUS
<1>4. \A i \in 1 .. n : ((pos + 1) + i) - 1 = pos + i
  OBVIOUS
<1> QED
  BY <1>2, <1>3, <1>4

\* What was there comes back.
LEMMA SpliceBack ==
  ASSUME NEW s \in Seq(Byte), NEW pos \in Nat, NEW n \in Nat, pos + n <= Len(s),
         NEW data \in Seq(Byte),
         NEW t, IsSpliced(t, s, pos, n, data),
         NEW old, old = SubSeq(s, pos + 1, pos + n),
         NEW u, IsSpliced(u, t, pos, Len(data), old)
  PROVE  u = s
<1>1. /\ t \in Seq(Byte)
      /\ Len(t) = (Len(s) - n) + Len(data)
      /\ \A i \in 1 .. pos : t[i] = s[i]
      /\ \A i \in 1 .. (Len(s) - n) - pos : t[(pos + Len(data)) + i] = s[(pos + n) + i]
  BY DEF IsSpliced
<1>2. old \in Seq(Byte) /\ Len(old) = n /\ \A i \in 1 .. n : old[i] = s[pos + i]
  BY CutOut
<1>3. Len(data) \in Nat /\ pos + Len(data) <= Len(t)
  BY <1>1
<1>4. /\ u \in Seq(Byte)
      /\ Len(u) = (Len(t) - Len(data)) + Len(old)
      /\ \A i \in 1 .. pos : u[i] = t[i]
      /\ \A i \in 1 .. Len(old) : u[pos + i] = old[i]
      /\ \A i \in 1 .. (Len(t) - Len(data)) - pos : u[(pos + Len(old)) + i] = t[(pos + Len(data)) + i]
  BY DEF IsSpliced
<1>5. Len(u) = Len(s)
  <2>1. Len(t) = (Len(s) - n) + Len(data) /\ Len(u) = (Len(t) - Len(data)) + n
    BY <1>1, <1>2, <1>4
  <2>2. Len(s) \in Nat /\ Len(data) \in Nat
    OBVIOUS
  <2> QED
    BY <2>1, <2>2
<1>6. ASSUME NEW i \in 1 .. Len(s) PROVE u[i] = s[i]
  <2>1. CASE i <= pos
    BY <1>1, <1>4, <2>1
  <2>2. CASE pos < i /\ i <= pos + n
    <3>1. i - pos \in 1 .. n /\ i = pos + (i - pos)
      BY <2>2
    <3> QED
      BY <1>2, <1>4, <3>1
  <2>3. CASE pos + n < i
    <3> DEFINE j == i - (pos + n)
    <3>1. j \in 1 .. (Len(s) - n) - pos /\ i = (pos + n) + j
      BY <2>3
    <3> HIDE DEF j
    <3>2. j \in 1 .. (Len(t) - Len(data)) - pos
      BY <1>1, <3>1
    <3>3. u[(pos + Len(old)) + j] = t[(pos + Len(data)) + j]
      BY <1>4, <3>2
    <3> QED
      BY <1>1, <1>2, <3>1, <3>3
  <2> QED
    BY <2>1, <2>2, <2>3
<1> QED
  BY <1>4, <1>5, <1>6, SameSeq

LEMMA SpliceTwice ==
  ASSUME NEW s \in Seq(Byte), NEW pos \in Nat, NEW n \in Nat, pos + n <= Len(s),
         NEW data \in Seq(Byte),
         NEW r, IsSpliced(r, s, pos, n, <<>>),
         NEW t, IsSpliced(t, r, pos, 0, data)
  PROVE  IsSpliced(t, s, pos, n, data)
<1>1. r \in Seq(Byte) /\ Len(r) = Len(s) - n /\ (\A i \in 1 .. pos : r[i] = s[i])
      /\ \A i \in 1 .. (Len(s) - n) - pos : r[pos + i] = s[(pos + n) + i]
  BY DEF IsSpliced
<1>2. t \in Seq(Byte) /\ Len(t) = Len(r) + Len(data) /\ (\A i \in 1 .. pos : t[i] = r[i])
      /\ (\A i \in 1 .. Len(data) : t[pos + i] = data[i])
      /\ \A i \in 1 .. Len(r) - pos : t[(pos + Len(data)) + i] = r[pos + i]
  BY <1>1 DEF IsSpliced
<1>3. \A i \in 1 .. (Len(s) - n) - pos : t[(pos + Len(data)) + i] = s[(pos + n) + i]
  BY <1>1, <1>2
<1>4. \A i \in 1 .. pos : t[i] = s[i]
  BY <1>1, <1>2
<1>5. Len(t) = (Len(s) - n) + Len(data)
  BY <1>1, <1>2
<1> QED
  BY <1>2, <1>3, <1>4, <1>5 DEF IsSpliced

-----------------------------------------------------------------------------
(* The operations on QByteArray *)

LEMMA MidTyped ==
  ASSUME NEW s \in Seq(Byte), NEW pos \in Int, NEW len \in Int
  PROVE  Mid(s, pos, len) \in Seq(Byte)
<1> DEFINE from == Most(pos, 0) + 1
           to == IF len < 0 THEN Len(s) ELSE Least(Len(s), pos + len)
<1>1. from \in Int /\ 1 <= from /\ to \in Int /\ to <= Len(s)
  BY DEF Least, Most
<1>2. Mid(s, pos, len) = SubSeq(s, from, to)
  BY DEF Mid
<1> HIDE DEF from, to
<1>3. \A i \in from .. to : s[i] \in Byte
  BY <1>1
<1> QED
  BY <1>1, <1>2, <1>3

LEMMA RemoveTyped ==
  ASSUME NEW s \in Seq(Byte), NEW pos \in Int, NEW len \in Int
  PROVE  RemoveAt(s, pos, len) \in Seq(Byte)
<1>1. CASE len <= 0 \/ pos < 0 \/ pos >= Len(s)
  BY <1>1 DEF RemoveAt
<1>2. CASE len > 0 /\ pos >= 0 /\ pos < Len(s)
  <2>1. SubSeq(s, 1, pos) \in Seq(Byte) /\ SubSeq(s, pos + len + 1, Len(s)) \in Seq(Byte)
    BY <1>2
  <2>2. RemoveAt(s, pos, len) = SubSeq(s, 1, pos) \o SubSeq(s, pos + len + 1, Len(s))
    <3>1. ~(len <= 0 \/ pos < 0 \/ pos >= Len(s))
      BY <1>2
    <3> QED
      BY <3>1, Zenon DEF RemoveAt
  <2> QED
    BY <2>1, <2>2
<1> QED
  BY <1>1, <1>2

LEMMA InsertTyped ==
  ASSUME NEW s \in Seq(Byte), NEW pos \in Int, NEW data \in Seq(Byte)
  PROVE  InsertAt(s, pos, data) \in Seq(Byte)
<1>1. CASE pos < 0 \/ data = <<>>
  BY <1>1 DEF InsertAt
<1>2. CASE ~(pos < 0 \/ data = <<>>)
  <2> DEFINE a == SubSeq(s, 1, Least(pos, Len(s)))
             g == Most(pos - Len(s), 0)
             b == [i \in 1 .. g |-> Space]
             c == SubSeq(s, pos + 1, Len(s))
  <2>1. a \in Seq(Byte)
    <3>1. Least(pos, Len(s)) \in 0 .. Len(s)
      BY <1>2 DEF Least
    <3> QED
      BY <3>1
  <2>2. b \in Seq(Byte)
    <3>1. g \in Nat /\ Space \in Byte
      BY DEF Space, Byte, Most
    <3> HIDE DEF g
    <3> QED
      BY <3>1
  <2>3. c \in Seq(Byte)
    BY <1>2
  <2>4. InsertAt(s, pos, data) = ((a \o b) \o data) \o c
    BY <1>2 DEF InsertAt
  <2> HIDE DEF a, b, c
  <2>5. a \o b \in Seq(Byte)
    BY <2>1, <2>2
  <2>6. (a \o b) \o data \in Seq(Byte)
    BY <2>5
  <2> QED
    BY <2>3, <2>4, <2>6
<1> QED
  BY <1>1, <1>2

LEMMA ReplaceTyped ==
  ASSUME NEW s \in Seq(Byte), NEW pos \in Int, NEW data \in Seq(Byte)
  PROVE  ReplaceAt(s, pos, data) \in Seq(Byte)
<1>1. RemoveAt(s, pos, Len(data)) \in Seq(Byte)
  BY RemoveTyped
<1> QED
  BY <1>1, InsertTyped DEF ReplaceAt

LEMMA InsertIs ==
  ASSUME NEW s \in Seq(Byte), NEW pos \in Nat, pos <= Len(s),
         NEW data \in Seq(Byte), data # <<>>
  PROVE  IsSpliced(InsertAt(s, pos, data), s, pos, 0, data)
<1> DEFINE a == SubSeq(s, 1, pos)
           b == [i \in 1 .. 0 |-> Space]
           c == SubSeq(s, pos + 1, Len(s))
<1>1. InsertAt(s, pos, data) = ((a \o b) \o data) \o c
  <2>1. Least(pos, Len(s)) = pos /\ Most(pos - Len(s), 0) = 0 /\ ~(pos < 0 \/ data = <<>>)
    BY DEF Least, Most
  <2> QED
    BY <2>1, Zenon DEF InsertAt
<1>2. a \in Seq(Byte)
  OBVIOUS
<1>3. b = <<>>
  OBVIOUS
<1>4. a \o b = a
  BY <1>2, <1>3
<1>5. InsertAt(s, pos, data) = Spliced(s, pos, 0, data)
  <2>1. pos + 0 + 1 = pos + 1
    OBVIOUS
  <2> QED
    BY <1>1, <1>4, <2>1, Zenon DEF Spliced
<1> QED
  BY <1>5, SpliceFacts

LEMMA RemoveIs ==
  ASSUME NEW s \in Seq(Byte), NEW pos \in Nat, pos < Len(s),
         NEW len \in Nat, len > 0, NEW n \in Nat, n = Least(len, Len(s) - pos)
  PROVE  IsSpliced(RemoveAt(s, pos, len), s, pos, n, <<>>)
<1> DEFINE a == SubSeq(s, 1, pos)
           b == SubSeq(s, pos + n + 1, Len(s))
<1>1. RemoveAt(s, pos, len) = a \o SubSeq(s, pos + len + 1, Len(s))
  <2>1. ~(len <= 0 \/ pos < 0 \/ pos >= Len(s))
    OBVIOUS
  <2> QED
    BY <2>1, Zenon DEF RemoveAt
<1>2. SubSeq(s, pos + len + 1, Len(s)) = b
  <2>1. CASE len <= Len(s) - pos
    <3>1. n = len
      BY <2>1 DEF Least
    <3> QED
      BY <3>1
  <2>2. CASE len > Len(s) - pos
    <3>1. n = Len(s) - pos
      BY <2>2 DEF Least
    <3>2. pos + n + 1 > Len(s) /\ pos + len + 1 > Len(s)
      BY <2>2, <3>1
    <3> QED
      BY <3>2
  <2> QED
    BY <2>1, <2>2
<1>3. a \in Seq(Byte) /\ a \o <<>> = a
  OBVIOUS
<1>4. RemoveAt(s, pos, len) = Spliced(s, pos, n, <<>>)
  BY <1>1, <1>2, <1>3 DEF Spliced
<1>5. pos + n <= Len(s) /\ <<>> \in Seq(Byte)
  BY DEF Least
<1> QED
  BY <1>4, <1>5, SpliceFacts

LEMMA ReplaceIs ==
  ASSUME NEW s \in Seq(Byte), NEW pos \in Nat,
         NEW data \in Seq(Byte), data # <<>>, pos + Len(data) <= Len(s)
  PROVE  IsSpliced(ReplaceAt(s, pos, data), s, pos, Len(data), data)
<1> DEFINE n == Len(data)
           r == RemoveAt(s, pos, n)
<1>1. n \in Nat /\ n > 0 /\ pos < Len(s) /\ n = Least(n, Len(s) - pos)
  <2>1. n \in Nat /\ n > 0 /\ pos < Len(s) /\ n <= Len(s) - pos
    OBVIOUS
  <2> QED
    BY <2>1 DEF Least
<1>2. IsSpliced(r, s, pos, n, <<>>)
  BY <1>1, RemoveIs
<1> HIDE DEF r
<1>3. r \in Seq(Byte) /\ pos <= Len(r)
  BY <1>1, <1>2 DEF IsSpliced
<1>4. IsSpliced(InsertAt(r, pos, data), r, pos, 0, data)
  BY <1>3, InsertIs
<1>5. ReplaceAt(s, pos, data) = InsertAt(r, pos, data)
  BY DEF ReplaceAt, r
<1> QED
  BY <1>1, <1>2, <1>4, <1>5, SpliceTwice
-----------------------------------------------------------------------------
(* Commands *)

Command == [op : {"insert", "remove", "replace"}, pos : Int, len : Int,
            data : Seq(Byte), old : Seq(Byte)]

LEMMA CommandTyped ==
  ASSUME NEW pos \in Int, NEW len \in Int, NEW data \in Seq(Byte)
  PROVE  Insertion(pos, data) \in Command /\ Removal(pos, len) \in Command
         /\ Replacement(pos, data) \in Command
BY DEF Insertion, Removal, Replacement, Command

LEMMA BackedUpTyped ==
  ASSUME NEW c \in Command, NEW s \in Seq(Byte)
  PROVE  BackedUp(c, s) \in Command /\ BackedUp(BackedUp(c, s), s) = BackedUp(c, s)
         /\ RedoBytes(BackedUp(c, s), s) = RedoBytes(c, s)
<1>1. Mid(s, c.pos, c.len) \in Seq(Byte) /\ Mid(s, c.pos, Len(c.data)) \in Seq(Byte)
  BY MidTyped DEF Command
<1>2. CASE c.op = "insert"
  BY <1>2 DEF BackedUp, RedoBytes, Command
<1>3. CASE c.op = "remove"
  BY <1>1, <1>3 DEF BackedUp, RedoBytes, Command
<1>4. CASE c.op = "replace"
  BY <1>1, <1>4 DEF BackedUp, RedoBytes, Command
<1> QED
  BY <1>2, <1>3, <1>4 DEF Command

LEMMA RedoTyped ==
  ASSUME NEW c \in Command, NEW s \in Seq(Byte)
  PROVE  RedoBytes(c, s) \in Seq(Byte) /\ UndoBytes(c, s) \in Seq(Byte)
<1>1. c.pos \in Int /\ c.len \in Int /\ c.data \in Seq(Byte) /\ c.old \in Seq(Byte)
      /\ Len(c.data) \in Int /\ c.op \in {"insert", "remove", "replace"}
  BY DEF Command
<1> QED
  BY <1>1, InsertTyped, RemoveTyped, ReplaceTyped DEF RedoBytes, UndoBytes

LEMMA UndoInsert ==
  ASSUME NEW s \in Seq(Byte), NEW pos \in Nat, pos <= Len(s),
         NEW data \in Seq(Byte), data # <<>>
  PROVE  RemoveAt(InsertAt(s, pos, data), pos, Len(data)) = s
<1> DEFINE t == InsertAt(s, pos, data)
           u == RemoveAt(t, pos, Len(data))
           none == <<>>
<1>1. IsSpliced(t, s, pos, 0, data)
  BY InsertIs
<1> HIDE DEF t
<1>2. t \in Seq(Byte) /\ Len(t) = Len(s) + Len(data)
  BY <1>1 DEF IsSpliced
<1>3. Len(data) \in Nat /\ Len(data) > 0 /\ pos < Len(t) /\ Len(data) = Least(Len(data), Len(t) - pos)
  <2>1. Len(s) \in Nat /\ Len(data) \in Nat /\ Len(data) > 0
    OBVIOUS
  <2>2. Len(data) <= Len(t) - pos /\ pos < Len(t)
    BY <1>2, <2>1
  <2> QED
    BY <2>1, <2>2 DEF Least
<1>4. IsSpliced(u, t, pos, Len(data), none)
  BY <1>2, <1>3, RemoveIs
<1>5. none = SubSeq(s, pos + 1, pos + 0)
  OBVIOUS
<1>6. /\ Len(none) = 0 /\ Len(none) \in Nat /\ pos + Len(none) <= Len(s)
      /\ none = SubSeq(s, pos + 1, pos + Len(none))
      /\ IsSpliced(t, s, pos, Len(none), data)
  <2>1. Len(none) = 0
    OBVIOUS
  <2> HIDE DEF none
  <2> QED
    BY <1>1, <1>5, <2>1
<1> HIDE DEF u, none
<1>7. u = s
  BY <1>4, <1>6, SpliceBack
<1> QED
  BY <1>7 DEF u, t

LEMMA UndoRemove ==
  ASSUME NEW s \in Seq(Byte), NEW pos \in Nat, NEW len \in Nat
  PROVE  InsertAt(RemoveAt(s, pos, len), pos, Mid(s, pos, len)) = s
<1> DEFINE to == Least(Len(s), pos + len)
           old == SubSeq(s, pos + 1, to)
<1>1. Mid(s, pos, len) = old
  <2>1. Most(pos, 0) = pos /\ ~(len < 0)
    BY DEF Most
  <2> QED
    BY <2>1, Zenon DEF Mid
<1>2. CASE len = 0 \/ pos >= Len(s)
  <2>1. to < pos + 1 /\ to \in Int
    BY <1>2 DEF Least
  <2> HIDE DEF to
  <2>2. old = <<>>
    BY <2>1
  <2>3. len <= 0 \/ pos < 0 \/ pos >= Len(s)
    BY <1>2
  <2> QED
    BY <1>1, <2>2, <2>3, Zenon DEF RemoveAt, InsertAt
<1>3. CASE len > 0 /\ pos < Len(s)
  <2> DEFINE n == Least(len, Len(s) - pos)
             t == RemoveAt(s, pos, len)
             u == InsertAt(t, pos, old)
             none == <<>>
  <2>1. n \in Nat /\ n > 0 /\ pos + n <= Len(s) /\ to = pos + n
    BY <1>3 DEF Least
  <2> HIDE DEF to
  <2>2. IsSpliced(t, s, pos, n, none)
    BY <1>3, <2>1, RemoveIs
  <2> HIDE DEF t, n
  <2>3. t \in Seq(Byte) /\ pos <= Len(t)
    BY <2>1, <2>2 DEF IsSpliced
  <2>4. old = SubSeq(s, pos + 1, pos + n)
    BY <2>1
  <2> HIDE DEF old
  <2>5. old \in Seq(Byte) /\ Len(old) = n
    BY <2>1, <2>4, CutOut
  <2>6. old # <<>>
    BY <2>1, <2>5
  <2>7. IsSpliced(u, t, pos, 0, old)
    BY <2>3, <2>5, <2>6, InsertIs
  <2>8. none \in Seq(Byte) /\ Len(none) = 0
    OBVIOUS
  <2> HIDE DEF u, none
  <2>9. /\ Len(old) \in Nat /\ pos + Len(old) <= Len(s)
        /\ old = SubSeq(s, pos + 1, pos + Len(old))
        /\ IsSpliced(t, s, pos, Len(old), none)
        /\ IsSpliced(u, t, pos, Len(none), old)
    BY <2>1, <2>2, <2>4, <2>5, <2>7, <2>8
  <2>10. u = s
    BY <2>8, <2>9, SpliceBack
  <2> QED
    BY <1>1, <2>10 DEF u, t
<1> QED
  BY <1>2, <1>3

LEMMA UndoReplace ==
  ASSUME NEW s \in Seq(Byte), NEW pos \in Nat, NEW data \in Seq(Byte),
         NEW old, old = Mid(s, pos, Len(data)), Len(old) >= Len(data)
  PROVE  ReplaceAt(ReplaceAt(s, pos, data), pos, old) = s
<1> DEFINE n == Len(data)
           to == Least(Len(s), pos + n)
<1>0. n \in Nat /\ Len(s) \in Nat
  OBVIOUS
<1>1. old = SubSeq(s, pos + 1, to)
  <2>1. Most(pos, 0) = pos /\ ~(Len(data) < 0)
    BY DEF Most
  <2> QED
    BY <2>1, Zenon DEF Mid
<1>2. CASE data = <<>>
  <2>1. n = 0
    BY <1>2
  <2>2. to < pos + 1 /\ to \in Int
    BY <2>1 DEF Least
  <2> HIDE DEF to
  <2>3. old = <<>>
    BY <1>1, <2>2
  <2>4. Len(old) <= 0 /\ Len(data) <= 0
    BY <2>1, <2>3
  <2> QED
    BY <1>2, <2>3, <2>4, Zenon DEF RemoveAt, InsertAt, ReplaceAt
<1>3. CASE data # <<>>
  <2> DEFINE t == ReplaceAt(s, pos, data)
             u == ReplaceAt(t, pos, old)
  <2>1. n > 0 /\ to \in Nat /\ to <= Len(s) /\ to <= pos + n
    BY <1>3 DEF Least
  <2> HIDE DEF to
  <2>2. Len(old) = IF pos + 1 <= to THEN to - pos ELSE 0
    BY <1>1, <2>1
  <2>3. to = pos + n /\ Len(old) = n
    BY <1>0, <2>1, <2>2
  <2>4. pos + n <= Len(s)
    BY <2>1, <2>3
  <2>5. old = SubSeq(s, pos + 1, pos + n)
    BY <1>1, <2>3
  <2>6. IsSpliced(t, s, pos, n, data)
    BY <1>3, <2>4, ReplaceIs
  <2> HIDE DEF t
  <2>7. old \in Seq(Byte)
    BY <1>0, <2>4, <2>5, CutOut
  <2>8. t \in Seq(Byte) /\ Len(t) = Len(s)
    BY <1>0, <2>6 DEF IsSpliced
  <2>9. old # <<>> /\ pos + Len(old) <= Len(t)
    BY <1>0, <2>1, <2>3, <2>4, <2>8
  <2>10. IsSpliced(u, t, pos, Len(old), old)
    BY <2>7, <2>8, <2>9, ReplaceIs
  <2>11. IsSpliced(u, t, pos, Len(data), old)
    BY <2>3, <2>10
  <2> HIDE DEF u
  <2>12. u = s
    BY <1>0, <2>4, <2>5, <2>6, <2>11, SpliceBack
  <2> QED
    BY <2>12 DEF u, t
<1> QED
  BY <1>2, <1>3

\* Undoing a command that did what it undoes gives back the bytes.
LEMMA UndoRedo ==
  ASSUME NEW c \in Command, NEW s \in Seq(Byte), c = BackedUp(c, s), ~Stretched(c, s)
  PROVE  UndoBytes(c, RedoBytes(c, s)) = s
<1> DEFINE pos == c.pos
           data == c.data
           len == c.len
           old == c.old
<1>1. /\ pos \in Int /\ len \in Int /\ data \in Seq(Byte) /\ old \in Seq(Byte)
      /\ Len(data) \in Nat /\ Len(old) \in Nat /\ c.op \in {"insert", "remove", "replace"}
  BY DEF Command
<1>2. CASE c.op = "insert"
  <2>1. UndoBytes(c, RedoBytes(c, s)) = RemoveAt(InsertAt(s, pos, data), pos, Len(data))
    BY <1>2 DEF UndoBytes, RedoBytes
  <2>2. CASE pos < 0 \/ data = <<>>
    <3>1. Len(data) <= 0 \/ pos < 0
      BY <2>2
    <3> QED
      BY <2>1, <2>2, <3>1, Zenon DEF RemoveAt, InsertAt
  <2>3. CASE pos >= 0 /\ data # <<>>
    <3>1. pos \in Nat /\ pos <= Len(s)
      BY <1>1, <1>2, <2>3 DEF Stretched
    <3> HIDE DEF pos, data
    <3> QED
      BY <1>1, <2>1, <2>3, <3>1, UndoInsert
  <2> QED
    BY <1>1, <2>2, <2>3
<1>3. CASE c.op = "remove"
  <2>1. UndoBytes(c, RedoBytes(c, s)) = InsertAt(RemoveAt(s, pos, len), pos, Mid(s, pos, len))
    <3>1. c = [c EXCEPT !.old = Mid(s, c.pos, c.len)]
      BY <1>3 DEF BackedUp
    <3>2. old = Mid(s, pos, len)
      BY <3>1 DEF Command
    <3> QED
      BY <1>3, <3>2 DEF UndoBytes, RedoBytes
  <2>2. CASE pos < 0
    BY <2>1, <2>2, Zenon DEF RemoveAt, InsertAt
  <2>3. CASE pos >= 0
    <3>1. pos \in Nat /\ len \in Nat
      BY <1>1, <1>3, <2>3 DEF Stretched
    <3> HIDE DEF pos, len
    <3> QED
      BY <2>1, <3>1, UndoRemove
  <2> QED
    BY <1>1, <2>2, <2>3
<1>4. CASE c.op = "replace"
  <2>1. UndoBytes(c, RedoBytes(c, s)) = ReplaceAt(ReplaceAt(s, pos, data), pos, old)
        /\ old = Mid(s, pos, Len(data))
    <3>1. c = [c EXCEPT !.old = Mid(s, c.pos, Len(c.data))]
      BY <1>4 DEF BackedUp
    <3> QED
      BY <1>4, <3>1 DEF UndoBytes, RedoBytes, Command
  <2>2. CASE pos < 0
    BY <2>1, <2>2, Zenon DEF RemoveAt, InsertAt, ReplaceAt
  <2>3. CASE pos >= 0
    <3>1. pos \in Nat /\ Len(old) >= Len(data)
      BY <1>1, <1>4, <2>3 DEF Stretched
    <3> HIDE DEF pos, data, old
    <3> QED
      BY <1>1, <2>1, <3>1, UndoReplace
  <2> QED
    BY <1>1, <2>2, <2>3
<1> QED
  BY <1>1, <1>2, <1>3, <1>4

-----------------------------------------------------------------------------
(* The invariant, of a document *)

Fields == {"bytes", "commands", "index", "before", "spoiled", "pos", "sel",
           "width", "top", "max"}

\* The stack is well formed and, unless spoiled, its history is true: each
\* command changed the bytes as the history says and holds what it changed.
Stacked(d) ==
  /\ d.bytes \in Seq(Byte)
  /\ d.spoiled \in BOOLEAN
  /\ d.commands \in Seq(Command)
  /\ d.index \in 0 .. Len(d.commands)
  /\ d.before \in Seq(Seq(Byte))
  /\ Len(d.before) = Len(d.commands) + 1

Faithful(d) ==
  ~d.spoiled =>
    /\ d.bytes = d.before[d.index + 1]
    /\ \A k \in 1 .. Len(d.commands) :
         /\ d.commands[k] = BackedUp(d.commands[k], d.before[k])
         /\ d.before[k + 1] = RedoBytes(d.commands[k], d.before[k])

Placed(p) == p.line \in Int /\ p.column \in Int

Sound(d) ==
  /\ Fields \subseteq DOMAIN d
  /\ Stacked(d)
  /\ Faithful(d)
  /\ Placed(d.pos) /\ Placed(d.sel)
  /\ d.width \in Nat \ {0} /\ d.top \in Int /\ d.max \in Int

\* What is no edit leaves bytes and stack alone.
LEMMA Untouched ==
  ASSUME NEW d, NEW e, Sound(d), Fields \subseteq DOMAIN e,
         e.bytes = d.bytes, e.commands = d.commands, e.index = d.index,
         e.before = d.before, e.spoiled = d.spoiled,
         Placed(e.pos), Placed(e.sel), e.width \in Nat \ {0}, e.top \in Int, e.max \in Int
  PROVE  Sound(e)
BY DEF Sound, Stacked, Faithful

LEMMA SoundFields ==
  ASSUME NEW d, Sound(d)
  PROVE  /\ Fields \subseteq DOMAIN d
         /\ d.bytes \in Seq(Byte) /\ Len(d.bytes) \in Nat
         /\ Placed(d.pos) /\ Placed(d.sel)
         /\ d.width \in Nat \ {0} /\ d.top \in Int /\ d.max \in Int
BY DEF Sound, Stacked

-----------------------------------------------------------------------------
(* Undo, redo, and what pushes a command *)

LEMMA PushSound ==
  ASSUME NEW d, Sound(d), NEW c \in Command
  PROVE  Sound(Push(d, c))
<1> DEFINE e == Push(d, c)
           n == d.index
           b == RedoBytes(c, d.bytes)
           held == BackedUp(c, d.bytes)
<1>1. /\ d.bytes \in Seq(Byte) /\ d.spoiled \in BOOLEAN
      /\ d.commands \in Seq(Command) /\ n \in 0 .. Len(d.commands)
      /\ d.before \in Seq(Seq(Byte)) /\ Len(d.before) = Len(d.commands) + 1
      /\ Fields \subseteq DOMAIN d
  BY DEF Sound, Stacked
<1>2. /\ e.bytes = b
      /\ e.commands = Append(SubSeq(d.commands, 1, n), held)
      /\ e.index = n + 1
      /\ e.before = Append(SubSeq(d.before, 1, n + 1), b)
      /\ e.spoiled = d.spoiled /\ e.pos = d.pos /\ e.sel = d.sel
      /\ e.width = d.width /\ e.top = d.top /\ e.max = d.max
      /\ DOMAIN e = DOMAIN d
  BY <1>1 DEF Push, Fields
<1>3. b \in Seq(Byte) /\ held \in Command /\ held = BackedUp(held, d.bytes)
      /\ b = RedoBytes(held, d.bytes)
  BY <1>1, RedoTyped, BackedUpTyped
<1> HIDE DEF e, b, held, n
<1>4. /\ e.commands \in Seq(Command) /\ Len(e.commands) = n + 1
      /\ e.commands[n + 1] = held /\ \A k \in 1 .. n : e.commands[k] = d.commands[k]
  BY <1>1, <1>2, <1>3
<1>5. /\ e.before \in Seq(Seq(Byte)) /\ Len(e.before) = n + 2
      /\ e.before[n + 2] = b /\ \A k \in 1 .. n + 1 : e.before[k] = d.before[k]
  BY <1>1, <1>2, <1>3
<1>6. Stacked(e)
  BY <1>1, <1>2, <1>3, <1>4, <1>5 DEF Stacked
<1>7. Faithful(e)
  <2> SUFFICES ASSUME ~d.spoiled
               PROVE  /\ e.bytes = e.before[e.index + 1]
                      /\ \A k \in 1 .. n + 1 :
                           /\ e.commands[k] = BackedUp(e.commands[k], e.before[k])
                           /\ e.before[k + 1] = RedoBytes(e.commands[k], e.before[k])
    BY <1>2, <1>4 DEF Faithful
  <2>1. /\ d.bytes = d.before[n + 1]
        /\ \A k \in 1 .. Len(d.commands) :
             /\ d.commands[k] = BackedUp(d.commands[k], d.before[k])
             /\ d.before[k + 1] = RedoBytes(d.commands[k], d.before[k])
    BY DEF Sound, Faithful, n
  <2>2. e.bytes = e.before[e.index + 1]
    BY <1>1, <1>2, <1>5
  <2>3. ASSUME NEW k \in 1 .. n + 1
        PROVE  /\ e.commands[k] = BackedUp(e.commands[k], e.before[k])
               /\ e.before[k + 1] = RedoBytes(e.commands[k], e.before[k])
    <3>1. CASE k = n + 1
      <4>1. e.commands[k] = held /\ e.before[k] = d.bytes /\ e.before[k + 1] = b
        BY <1>1, <1>4, <1>5, <2>1, <3>1
      <4> QED
        BY <1>3, <4>1
    <3>2. CASE k # n + 1
      <4>1. k \in 1 .. n /\ k \in 1 .. Len(d.commands) /\ k + 1 \in 1 .. n + 1
        BY <1>1, <3>2
      <4>2. e.commands[k] = d.commands[k] /\ e.before[k] = d.before[k]
            /\ e.before[k + 1] = d.before[k + 1]
        BY <1>1, <1>4, <1>5, <4>1
      <4> QED
        BY <2>1, <4>1, <4>2
    <3> QED
      BY <3>1, <3>2
  <2> QED
    BY <2>2, <2>3
<1> QED
  BY <1>1, <1>2, <1>6, <1>7 DEF Sound, e

LEMMA UndoSound == ASSUME NEW d, Sound(d) PROVE Sound(UndoOne(d))
<1>1. CASE d.index = 0
  BY <1>1 DEF UndoOne
<1>2. CASE d.index # 0
  <2> DEFINE n == d.index
             c == d.commands[n]
             e == UndoOne(d)
             s == d.before[n]
  <2>1. /\ d.bytes \in Seq(Byte) /\ d.spoiled \in BOOLEAN
        /\ d.commands \in Seq(Command) /\ n \in 1 .. Len(d.commands)
        /\ d.before \in Seq(Seq(Byte)) /\ Len(d.before) = Len(d.commands) + 1
        /\ Fields \subseteq DOMAIN d
    BY <1>2 DEF Sound, Stacked
  <2>2. c \in Command /\ s \in Seq(Byte)
    BY <2>1
  <2>3. /\ e.bytes = UndoBytes(c, d.bytes)
        /\ e.commands = d.commands /\ e.index = n - 1 /\ e.before = d.before
        /\ e.spoiled = (d.spoiled \/ Stretched(c, s))
        /\ e.pos = d.pos /\ e.sel = d.sel
        /\ e.width = d.width /\ e.top = d.top /\ e.max = d.max
        /\ DOMAIN e = DOMAIN d
    BY <1>2, <2>1 DEF UndoOne, Fields
  <2>4. UndoBytes(c, d.bytes) \in Seq(Byte)
    BY <2>1, <2>2, RedoTyped
  <2> HIDE DEF e, n, c, s
  <2>5. Stacked(e)
    BY <2>1, <2>3, <2>4 DEF Stacked
  <2>6. ASSUME ~e.spoiled
        PROVE  e.bytes = s
    <3>1. ~d.spoiled /\ ~Stretched(c, s)
      BY <2>3, <2>6
    <3>2. d.bytes = d.before[n + 1] /\ c = BackedUp(c, s) /\ d.before[n + 1] = RedoBytes(c, s)
      BY <2>1, <3>1 DEF Sound, Faithful, n, c, s
    <3> QED
      BY <2>2, <2>3, <3>1, <3>2, UndoRedo
  <2>7. Faithful(e)
    <3>1. e.index + 1 = n
      BY <2>1, <2>3
    <3> QED
      BY <2>3, <2>6, <3>1 DEF Faithful, Sound, s
  <2> QED
    BY <2>1, <2>3, <2>5, <2>7 DEF Sound, e
<1> QED
  BY <1>1, <1>2

LEMMA KeptCommand ==
  ASSUME NEW q \in Seq(Command), NEW n \in 1 .. Len(q)
  PROVE  [q EXCEPT ![n] = q[n]] = q
OBVIOUS

LEMMA RedoSound == ASSUME NEW d, Sound(d) PROVE Sound(RedoOne(d))
<1>1. CASE d.index = Len(d.commands)
  BY <1>1 DEF RedoOne
<1>2. CASE d.index # Len(d.commands)
  <2> DEFINE n == d.index + 1
             c == d.commands[n]
             e == RedoOne(d)
             held == BackedUp(c, d.bytes)
  <2>1. /\ d.bytes \in Seq(Byte) /\ d.spoiled \in BOOLEAN
        /\ d.commands \in Seq(Command) /\ n \in 1 .. Len(d.commands) /\ d.index \in Nat
        /\ d.before \in Seq(Seq(Byte)) /\ Len(d.before) = Len(d.commands) + 1
        /\ Fields \subseteq DOMAIN d
    BY <1>2 DEF Sound, Stacked
  <2>2. c \in Command
    BY <2>1
  <2>3. /\ e.bytes = RedoBytes(c, d.bytes)
        /\ e.commands = [d.commands EXCEPT ![n] = held]
        /\ e.index = n /\ e.before = d.before /\ e.spoiled = d.spoiled
        /\ e.pos = d.pos /\ e.sel = d.sel
        /\ e.width = d.width /\ e.top = d.top /\ e.max = d.max
        /\ DOMAIN e = DOMAIN d
    BY <1>2, <2>1 DEF RedoOne, Fields
  <2>4. RedoBytes(c, d.bytes) \in Seq(Byte) /\ held \in Command
    BY <2>1, <2>2, RedoTyped, BackedUpTyped
  <2> HIDE DEF e, n, held
  <2>5. e.commands \in Seq(Command) /\ Len(e.commands) = Len(d.commands)
    BY <2>1, <2>3, <2>4
  <2>6. Stacked(e)
    BY <2>1, <2>3, <2>4, <2>5 DEF Stacked
  <2>7. Faithful(e)
    <3> SUFFICES ASSUME ~d.spoiled
                 PROVE  /\ e.commands = d.commands
                        /\ e.bytes = d.before[n + 1]
      BY <2>3 DEF Sound, Faithful
    <3>1. d.bytes = d.before[n] /\ c = BackedUp(c, d.before[n])
          /\ d.before[n + 1] = RedoBytes(c, d.before[n])
      BY <2>1 DEF Sound, Faithful, n
    <3>2. held = c
      BY <3>1 DEF held
    <3>3. e.commands = d.commands
      BY <2>1, <2>3, <3>2, KeptCommand
    <3> QED
      BY <2>3, <3>1, <3>3
  <2> QED
    BY <2>1, <2>3, <2>6, <2>7 DEF Sound, e
<1> QED
  BY <1>1, <1>2

-----------------------------------------------------------------------------
(* The view: where the cursor and the scroll bar go *)

LEMMA ViewTyped ==
  ASSUME NEW d, Sound(d)
  PROVE  /\ DocumentLines(d) \in Nat /\ LastLine(d) \in Int /\ VisibleLines(d) \in Int
         /\ \A line \in Int : Len(LineBytes(d, line)) \in Nat
         /\ LastColumn(d) \in Nat
         /\ \A p : Placed(p) => Offset(d, p) \in Int
<1>1. /\ d.bytes \in Seq(Byte) /\ Len(d.bytes) \in Nat /\ d.width \in Nat \ {0}
  BY SoundFields
<1>2. DocumentLines(d) \in Nat /\ LastLine(d) \in Int
  BY <1>1 DEF DocumentLines, LastLine
<1>3. VisibleLines(d) \in Int
  BY <1>2, ViewAssumption DEF VisibleLines, Least
<1>4. ASSUME NEW line \in Int PROVE Len(LineBytes(d, line)) \in Nat
  <2>1. Mid(d.bytes, line * d.width, d.width) \in Seq(Byte)
    BY <1>1, MidTyped
  <2> QED
    BY <2>1 DEF LineBytes
<1>5. ASSUME NEW p, Placed(p) PROVE Offset(d, p) \in Int
  <2>1. p.line * d.width \in Int
    BY <1>1, <1>5 DEF Placed
  <2>2. Signed(p.line * d.width) \in Int
    BY <2>1, WordAssumption DEF Signed
  <2> QED
    BY <1>5, <2>2 DEF Offset, Placed
<1> QED
  BY <1>2, <1>3, <1>4, <1>5 DEF LastColumn

LEMMA CursorSound ==
  ASSUME NEW d, Sound(d), NEW p, Placed(p)
  PROVE  Sound(MovedTo(d, p)) /\ Sound(SelectedTo(d, p)) /\ Sound(SelectionCleared(d))
<1>1. Fields \subseteq DOMAIN d /\ Placed(d.pos) /\ Placed(d.sel)
      /\ d.width \in Nat \ {0} /\ d.top \in Int /\ d.max \in Int
  BY SoundFields
<1>2. Sound(MovedTo(d, p))
  BY <1>1, Untouched DEF MovedTo, Fields
<1>3. Sound(SelectedTo(d, p))
  BY <1>1, Untouched DEF SelectedTo, Fields
<1>4. Sound(SelectionCleared(d))
  BY <1>1, Untouched DEF SelectionCleared, Fields
<1> QED
  BY <1>2, <1>3, <1>4

LEMMA ScrollSet ==
  ASSUME NEW d, Sound(d), NEW n \in Int
  PROVE  /\ Sound([d EXCEPT !.top = n]) /\ Sound([d EXCEPT !.max = n])
         /\ Sound([d EXCEPT !.top = 0, !.max = n])
<1>1. Fields \subseteq DOMAIN d /\ Placed(d.pos) /\ Placed(d.sel)
      /\ d.width \in Nat \ {0} /\ d.top \in Int /\ d.max \in Int
  BY SoundFields
<1>2. Sound([d EXCEPT !.top = n])
  BY <1>1, Untouched DEF Fields
<1>3. Sound([d EXCEPT !.max = n])
  BY <1>1, Untouched DEF Fields
<1>4. Sound([d EXCEPT !.top = 0, !.max = n])
  <2> DEFINE e == [d EXCEPT !.top = 0, !.max = n]
  <2>1. /\ e.bytes = d.bytes /\ e.commands = d.commands /\ e.index = d.index
        /\ e.before = d.before /\ e.spoiled = d.spoiled
        /\ e.pos = d.pos /\ e.sel = d.sel /\ e.width = d.width
        /\ e.top = 0 /\ e.max = n /\ DOMAIN e = DOMAIN d
    BY <1>1 DEF Fields
  <2> HIDE DEF e
  <2>2. Sound(e)
    BY <1>1, <2>1, Untouched
  <2> QED
    BY <2>2 DEF e
<1> QED
  BY <1>2, <1>3, <1>4

LEMMA WidthSet ==
  ASSUME NEW d, Sound(d), NEW w \in Nat \ {0}
  PROVE  Sound([d EXCEPT !.width = w])
BY SoundFields, Untouched DEF Fields

LEMMA ModeSet ==
  ASSUME NEW d, Sound(d), NEW x
  PROVE  Sound([d EXCEPT !.area = x]) /\ Sound([d EXCEPT !.mode = x])
<1>1. Fields \subseteq DOMAIN d /\ Placed(d.pos) /\ Placed(d.sel)
      /\ d.width \in Nat \ {0} /\ d.top \in Int /\ d.max \in Int
  BY SoundFields
<1>2. Sound([d EXCEPT !.area = x])
  BY <1>1, Untouched DEF Fields
<1>3. Sound([d EXCEPT !.mode = x])
  BY <1>1, Untouched DEF Fields
<1> QED
  BY <1>2, <1>3

LEMMA ScrolledSound ==
  ASSUME NEW d, Sound(d), NEW n \in Int
  PROVE  Sound(Scrolled(d, n))
<1>1. Most(0, Least(n, d.max)) \in Int
  BY SoundFields DEF Most, Least
<1> QED
  BY <1>1, ScrollSet DEF Scrolled

LEMMA AdjustedSound == ASSUME NEW d, Sound(d) PROVE Sound(Adjusted(d))
<1> DEFINE n == DocumentLines(d) - VisibleLines(d) + 1
           e == [d EXCEPT !.max = n]
<1>1. DocumentLines(d) \in Int /\ n \in Int
  BY ViewTyped
<1>2. Sound(e) /\ Sound([d EXCEPT !.top = 0, !.max = DocumentLines(d)])
  <2>1. Sound(e)
    BY <1>1, ScrollSet
  <2> QED
    BY <1>1, <2>1, ScrollSet
<1>3. Sound(Scrolled(e, e.top))
  <2> HIDE DEF e
  <2>1. e.top \in Int
    BY <1>2, SoundFields
  <2> QED
    BY <1>2, <2>1, ScrolledSound
<1> QED
  BY <1>2, <1>3, Zenon DEF Adjusted

LEMMA FollowedSound == ASSUME NEW d, Sound(d) PROVE Sound(Followed(d))
<1> DEFINE n == d.pos.line - VisibleLines(d) \div 2
<1>1. d.pos.line \in Int /\ VisibleLines(d) \in Int
  BY SoundFields, ViewTyped DEF Placed
<1>2. Signed(n) \in Int
  BY <1>1, WordAssumption DEF Signed
<1> QED
  BY <1>2, ScrolledSound DEF Followed

LEMMA MovedSound ==
  ASSUME NEW d, Sound(d), NEW line \in Int, NEW column \in Int, NEW nibble
  PROVE  Sound(Moved(d, line, column, nibble)) /\ Sound(Extended(d, line, column, nibble))
<1> DEFINE p == At(line, column, nibble)
<1>1. Placed(p)
  BY DEF Placed, At
<1>2. Sound(MovedTo(d, p)) /\ Sound(SelectedTo(d, p))
  BY <1>1, CursorSound
<1> QED
  BY <1>2, FollowedSound DEF Moved, Extended

LEMMA PutSound ==
  ASSUME NEW d, Sound(d), NEW line \in Int, NEW column \in Int, NEW nibble, NEW select
  PROVE  Sound(Put(d, select, line, column, nibble))
BY MovedSound DEF Put

LEMMA MovedNextSound == ASSUME NEW d, Sound(d), NEW select PROVE Sound(MovedNext(d, select))
<1> DEFINE p == d.pos
           hex == d.area = "hex"
           nibble == IF hex THEN (p.nibble + 1) % 2 ELSE 1
           column == IF hex /\ nibble = 0 THEN p.column ELSE p.column + 1
           next == Least(LastLine(d), (p.line + 1) % WORD)
<1>1. p.line \in Int /\ p.column \in Int /\ LastLine(d) \in Int
  BY SoundFields, ViewTyped DEF Placed
<1>2. column \in Int /\ next \in Int
  <2>1. (p.line + 1) % WORD \in Int
    BY <1>1, WordAssumption
  <2> HIDE DEF nibble, p
  <2> QED
    BY <1>1, <2>1 DEF Least
<1>3. /\ Sound(Put(d, select, next, 0, 1))
      /\ Sound(Put(d, select, p.line, column, nibble))
  <2> HIDE DEF column, next, nibble, p
  <2> QED
    BY <1>1, <1>2, PutSound
<1> QED
  BY <1>3, Zenon DEF MovedNext

LEMMA MovedPreviousSound ==
  ASSUME NEW d, Sound(d), NEW select
  PROVE  Sound(MovedPrevious(d, select))
<1> DEFINE p == d.pos
           hex == d.area = "hex"
           nibble == IF ~hex THEN 1 ELSE IF p.nibble = 0 THEN -1 ELSE 0
           column == IF hex /\ nibble # 0 THEN p.column ELSE p.column - 1
           line == (p.line - 1) % WORD
<1>1. p.line \in Int /\ p.column \in Int /\ d.width - 1 \in Int
  BY SoundFields DEF Placed
<1>2. column \in Int /\ line \in Int
  <2>1. (p.line - 1) % WORD \in Int
    BY <1>1, WordAssumption
  <2> HIDE DEF nibble, p
  <2> QED
    BY <1>1, <2>1
<1>3. /\ Sound(Put(d, select, line, d.width - 1, 0))
      /\ Sound(Put(d, select, p.line, column, nibble))
  <2> HIDE DEF column, line, nibble, p
  <2> QED
    BY <1>1, <1>2, PutSound
<1> QED
  BY <1>3, Zenon DEF MovedPrevious

LEMMA ProcessMoveSound ==
  ASSUME NEW d, Sound(d), NEW key \in MoveKeys, NEW select
  PROVE  Sound(ProcessMove(d, key, select))
<1>1. /\ d.pos.line \in Int /\ d.pos.column \in Int /\ d.width - 1 \in Int
      /\ LastLine(d) \in Int /\ LastColumn(d) \in Int /\ VisibleLines(d) \in Int
  BY SoundFields, ViewTyped DEF Placed
<1>2. /\ (d.pos.line + 1) % WORD \in Int
      /\ (d.pos.line - VisibleLines(d)) % WORD \in Int
      /\ (d.pos.line + VisibleLines(d)) % WORD \in Int
  BY <1>1, WordAssumption
<1>3. Least(LastLine(d), (d.pos.line + VisibleLines(d)) % WORD) \in Int
  BY <1>1, <1>2 DEF Least
<1>4. Sound(MovedLineDown(d, select)) /\ Sound(MovedLineUp(d, select))
  <2>1. d.pos.line - 1 \in Int
    BY <1>1
  <2>2. /\ Sound(Put(d, select, (d.pos.line + 1) % WORD, d.pos.column, 1))
        /\ Sound(Put(d, select, d.pos.line - 1, d.pos.column, 1))
    BY <1>1, <1>2, <2>1, PutSound
  <2> QED
    BY <2>2, Zenon DEF MovedLineDown, MovedLineUp
<1>5. Sound(MovedPageDown(d, select)) /\ Sound(MovedPageUp(d, select))
  BY <1>1, <1>2, <1>3, PutSound DEF MovedPageDown, MovedPageUp
<1>6. Sound(MovedToStart(d, select)) /\ Sound(MovedToEnd(d, select))
  BY <1>1, PutSound DEF MovedToStart, MovedToEnd
<1>7. Sound(MovedToLineStart(d, select)) /\ Sound(MovedToLineEnd(d, select))
  BY <1>1, PutSound DEF MovedToLineStart, MovedToLineEnd
<1> QED
  BY <1>4, <1>5, <1>6, <1>7, MovedNextSound, MovedPreviousSound DEF ProcessMove, MoveKeys

-----------------------------------------------------------------------------
(* Editing *)

LEMMA Bytes ==
  /\ Space \in Byte /\ <<>> \in Seq(Byte)
  /\ \A b \in Byte : <<b>> \in Seq(Byte)
  /\ \A h \in 0 .. 15, l \in 0 .. 15 : <<h, l>> \in Byte
  /\ \A b \in Byte : b[1] \in 0 .. 15 /\ b[2] \in 0 .. 15
BY DEF Byte, Space

LEMMA RemovedSound ==
  ASSUME NEW d, Sound(d), NEW pos \in Int, NEW len \in Int
  PROVE  Sound(Removed(d, pos, len))
<1>1. Removal(pos, len) \in Command
  BY Bytes DEF Removal, Command
<1> QED
  BY <1>1, PushSound DEF Removed

LEMMA EditSound ==
  ASSUME NEW d, Sound(d), NEW pos \in Int, NEW data \in Seq(Byte)
  PROVE  Sound(Inserted(d, pos, data)) /\ Sound(Replaced(d, pos, data))
BY CommandTyped, PushSound DEF Inserted, Replaced

LEMMA SelectionTyped ==
  ASSUME NEW d, Sound(d)
  PROVE  /\ Placed(SelectionStart(d)) /\ Placed(SelectionEnd(d))
         /\ Offset(d, d.pos) \in Int /\ Offset(d, SelectionStart(d)) \in Int
         /\ SelectionLength(d) \in Int
<1>1. Placed(SelectionStart(d)) /\ Placed(SelectionEnd(d)) /\ Placed(d.pos)
  BY SoundFields DEF SelectionStart, SelectionEnd
<1>2. /\ Offset(d, d.pos) \in Int /\ Offset(d, SelectionStart(d)) \in Int
      /\ Offset(d, SelectionEnd(d)) \in Int
  BY <1>1, ViewTyped
<1> QED
  BY <1>1, <1>2 DEF SelectionLength

LEMMA CutSound == ASSUME NEW d, Sound(d) PROVE Sound(CutSelection(d))
<1>1. Sound(RemovedSelection(d))
  <2> DEFINE e == Removed(d, Offset(d, SelectionStart(d)), SelectionLength(d))
  <2>1. Sound(e)
    BY SelectionTyped, RemovedSound
  <2> HIDE DEF e
  <2>2. Sound(SelectionCleared(e))
    BY <2>1, SoundFields, CursorSound
  <2> QED
    BY <2>2 DEF RemovedSelection, e
<1> QED
  BY <1>1, AdjustedSound, FollowedSound DEF CutSelection

LEMMA PastedSound ==
  ASSUME NEW d, Sound(d), NEW data \in Seq(Byte)
  PROVE  Sound(Pasted(d, data))
<1> DEFINE e == CutSelection(d)
           pos == Offset(e, e.pos)
<1>1. Sound(e)
  BY CutSound
<1> HIDE DEF e
<1>2. pos \in Int
  BY <1>1, SelectionTyped
<1> HIDE DEF pos
<1>3. Sound(Inserted(e, pos, data)) /\ Sound(Replaced(e, pos, data))
  BY <1>1, <1>2, EditSound
<1>4. Sound(Adjusted(Inserted(e, pos, data))) /\ Sound(Adjusted(Replaced(e, pos, data)))
  BY <1>3, AdjustedSound
<1> QED
  BY <1>4 DEF Pasted, e, pos

LEMMA ErasedSound ==
  ASSUME NEW d, Sound(d), NEW key
  PROVE  Sound(Erased(d, key))
<1> DEFINE pos == Offset(d, d.pos)
           start == SelectionStart(d)
           gone == Removed(d, IF key = "backspace" THEN pos - 1 ELSE pos, 1)
           e == IF HasSelection(d)
                THEN Moved(CutSelection(d), start.line, start.column + 1, 1)
                ELSE Adjusted(gone)
           back == IF e.area = "hex" THEN MovedPrevious(e, FALSE) ELSE e
<1>1. Sound(Moved(CutSelection(d), start.line, start.column + 1, 1))
  <2>1. start.line \in Int /\ start.column + 1 \in Int
    BY SelectionTyped DEF Placed
  <2> QED
    BY <2>1, CutSound, MovedSound
<1>2. Sound(Adjusted(gone))
  <2>1. (IF key = "backspace" THEN pos - 1 ELSE pos) \in Int
    BY SelectionTyped
  <2>2. Sound(gone)
    BY <2>1, RemovedSound
  <2> QED
    BY <2>2, AdjustedSound
<1>3. Sound(e)
  BY <1>1, <1>2
<1> HIDE DEF e
<1>4. Sound(back)
  BY <1>3, MovedPreviousSound
<1> HIDE DEF back
<1>5. Sound(MovedPrevious(back, FALSE))
  BY <1>4, MovedPreviousSound
<1> QED
  BY <1>3, <1>5, Zenon DEF Erased, back, e

LEMMA TypedSound ==
  ASSUME NEW d, Sound(d), NEW pos \in Int, NEW data \in Seq(Byte)
  PROVE  /\ Sound(MovedNext(Adjusted(Inserted(d, pos, data)), FALSE))
         /\ Sound(MovedNext(Adjusted(Replaced(d, pos, data)), FALSE))
<1>1. Sound(Inserted(d, pos, data)) /\ Sound(Replaced(d, pos, data))
  BY EditSound
<1>2. Sound(Adjusted(Inserted(d, pos, data))) /\ Sound(Adjusted(Replaced(d, pos, data)))
  BY <1>1, AdjustedSound
<1> QED
  BY <1>2, MovedNextSound

LEMMA TypedDigitSound ==
  ASSUME NEW d, Sound(d), NEW digit \in 0 .. 15
  PROVE  Sound(TypedDigit(d, digit))
<1> DEFINE e == CutSelection(d)
           pos == Offset(e, e.pos)
           ch == ByteAt(e, pos)
           new == IF e.pos.nibble # 0 THEN <<digit, ch[2]>> ELSE <<ch[1], digit>>
<1>1. Sound(e)
  BY CutSound
<1> HIDE DEF e
<1>2. pos \in Int /\ e.bytes \in Seq(Byte)
  BY <1>1, SelectionTyped, SoundFields
<1> HIDE DEF pos
<1>3. ch \in Byte
  BY <1>2, Bytes DEF ByteAt
<1> HIDE DEF ch
<1>4. new \in Byte /\ <<digit, 0>> \in Byte
  <2>1. ch[1] \in 0 .. 15 /\ ch[2] \in 0 .. 15 /\ 0 \in 0 .. 15
    BY <1>3, Bytes
  <2>2. <<digit, ch[2]>> \in Byte /\ <<ch[1], digit>> \in Byte /\ <<digit, 0>> \in Byte
    BY <2>1, Bytes
  <2> QED
    BY <2>2
<1> HIDE DEF new
<1>5. <<new>> \in Seq(Byte) /\ <<<<digit, 0>>>> \in Seq(Byte)
  BY <1>4, Bytes
<1>6. /\ Sound(MovedNext(Adjusted(Inserted(e, pos, <<<<digit, 0>>>>)), FALSE))
      /\ Sound(MovedNext(Adjusted(Replaced(e, pos, <<new>>)), FALSE))
  BY <1>1, <1>2, <1>5, TypedSound
<1> QED
  BY <1>6, Zenon DEF TypedDigit, e, pos, ch, new

LEMMA TypedKeySound ==
  ASSUME NEW d, Sound(d), NEW char \in Byte
  PROVE  Sound(TypedKey(d, char))
<1> DEFINE e == CutSelection(d)
           pos == Offset(e, e.pos)
<1>1. Sound(e)
  BY CutSound
<1> HIDE DEF e
<1>2. pos \in Int /\ <<char>> \in Seq(Byte)
  BY <1>1, SelectionTyped, Bytes
<1> HIDE DEF pos
<1>3. /\ Sound(MovedNext(Adjusted(Inserted(e, pos, <<char>>)), FALSE))
      /\ Sound(MovedNext(Adjusted(Replaced(e, pos, <<char>>)), FALSE))
  BY <1>1, <1>2, TypedSound
<1> QED
  BY <1>3 DEF TypedKey, e, pos

LEMMA SelectedAllSound == ASSUME NEW d, Sound(d) PROVE Sound(SelectedAll(d))
<1>1. Sound(Moved(d, 0, 0, 1))
  BY MovedSound
<1>2. LastLine(d) \in Int /\ LastColumn(d) - 1 \in Int
  BY ViewTyped
<1> QED
  BY <1>1, <1>2, MovedSound DEF SelectedAll

-----------------------------------------------------------------------------
(* Search: a set of offsets that is not empty has a first and a last one. *)

LEMMA HasLeast ==
  ASSUME NEW S \in SUBSET Nat, S # {}
  PROVE  \E k \in S : \A j \in S : k <= j
<1> DEFINE R == {x \in Nat \X Nat : x[1] < x[2]}
<1>1. IsWellFoundedOn(R, Nat)
  BY NatLessThanWellFounded, Zenon DEF OpToRel
<1>2. PICK x \in S : \A y \in S : ~(<<y, x>> \in R)
  <2> HIDE DEF R
  <2> QED
    BY <1>1, WFMin
<1>3. ASSUME NEW y \in S PROVE x <= y
  <2>1. x \in Nat /\ y \in Nat /\ <<y, x>> \in Nat \X Nat
        /\ <<y, x>>[1] = y /\ <<y, x>>[2] = x
    OBVIOUS
  <2>2. y < x => <<y, x>> \in R
    BY <2>1
  <2>3. ~(y < x)
    BY <1>2, <2>2
  <2> QED
    BY <2>1, <2>3
<1> QED
  BY <1>3
LEMMA HasMost ==
  ASSUME NEW n \in Nat, NEW S \in SUBSET (0 .. n), S # {}
  PROVE  \E k \in S : \A j \in S : k >= j
<1> DEFINE T == {n - k : k \in S}
<1>1. T \in SUBSET Nat /\ T # {}
  <2>1. ASSUME NEW m \in T PROVE m \in Nat
    <3>1. PICK k \in S : m = n - k
      OBVIOUS
    <3>2. k \in 0 .. n
      OBVIOUS
    <3> QED
      BY <3>1, <3>2
  <2>2. T # {}
    OBVIOUS
  <2> QED
    BY <2>1, <2>2
<1>2. PICK m \in T : \A j \in T : m <= j
  BY <1>1, HasLeast
<1>3. PICK k \in S : m = n - k
  BY <1>2
<1>4. ASSUME NEW j \in S PROVE k >= j
  <2>1. k \in 0 .. n /\ j \in 0 .. n /\ n - j \in T
    OBVIOUS
  <2>2. n - k <= n - j
    BY <1>2, <1>3, <2>1
  <2> QED
    BY <2>1, <2>2
<1> QED
  BY <1>4

LEMMA FoundTyped ==
  ASSUME NEW d, Sound(d), NEW pattern \in Seq(Byte)
  PROVE  FoundForward(d, pattern) \in Int /\ FoundBackward(d, pattern) \in Int
<1> DEFINE all == Occurrences(d.bytes, pattern)
<1>1. Len(d.bytes) \in Nat /\ all \in SUBSET (0 .. Len(d.bytes))
  BY SoundFields DEF Occurrences
<1> HIDE DEF all
<1>2. FoundForward(d, pattern) \in Int
  <2> DEFINE start == Offset(d, d.pos)
             from == IF start < 0 THEN Most(start + Len(d.bytes), 0) ELSE start
             hits == {k \in all : k >= from}
  <2> HIDE DEF from
  <2>1. hits \in SUBSET Nat
    <3>1. all \subseteq Nat
      BY <1>1
    <3> QED
      BY <3>1
  <2>2. CASE hits # {}
    <3>1. \E k \in hits : \A j \in hits : k <= j
      BY <2>1, <2>2, HasLeast
    <3>2. (CHOOSE k \in hits : \A j \in hits : k <= j) \in hits
      BY <3>1
    <3> HIDE DEF hits
    <3>3. FoundForward(d, pattern) = CHOOSE k \in hits : \A j \in hits : k <= j
      BY <2>2, Zenon DEF FoundForward, hits, from, all
    <3>4. FoundForward(d, pattern) \in hits
      BY <3>2, <3>3, Zenon
    <3>5. FoundForward(d, pattern) \in Nat
      BY <2>1, <3>4, Zenon
    <3> QED
      BY <3>5
  <2>3. CASE hits = {}
    <3>1. FoundForward(d, pattern) = -1
      BY <2>3, Zenon DEF FoundForward, from, all
    <3> QED
      BY <3>1
  <2> QED
    BY <2>2, <2>3
<1>3. FoundBackward(d, pattern) \in Int
  <2> DEFINE start == Offset(d, IF HasSelection(d) THEN SelectionStart(d) ELSE d.pos) - 1
             hits == {k \in all : start < 0 \/ k <= start}
  <2> HIDE DEF start
  <2>1. hits \in SUBSET (0 .. Len(d.bytes))
    BY <1>1
  <2>2. CASE ~(start > Len(d.bytes) \/ hits = {})
    <3>1. \E k \in hits : \A j \in hits : k >= j
      BY <1>1, <2>1, <2>2, HasMost
    <3>2. (CHOOSE k \in hits : \A j \in hits : k >= j) \in hits
      BY <3>1
    <3> HIDE DEF hits
    <3>3. FoundBackward(d, pattern) = CHOOSE k \in hits : \A j \in hits : k >= j
      BY <2>2, Zenon DEF FoundBackward, hits, start, all
    <3>4. FoundBackward(d, pattern) \in hits
      BY <3>2, <3>3, Zenon
    <3>5. FoundBackward(d, pattern) \in Nat
      <4>1. FoundBackward(d, pattern) \in 0 .. Len(d.bytes)
        BY <2>1, <3>4, Zenon
      <4> QED
        BY <1>1, <4>1
    <3> QED
      BY <3>5
  <2>3. CASE start > Len(d.bytes) \/ hits = {}
    <3>1. FoundBackward(d, pattern) = -1
      BY <2>3, Zenon DEF FoundBackward, start, all
    <3> QED
      BY <3>1
  <2> QED
    BY <2>2, <2>3
<1> QED
  BY <1>2, <1>3

LEMMA SelectedFoundSound ==
  ASSUME NEW d, Sound(d), NEW offset \in Int, NEW len \in Int
  PROVE  Sound(SelectedFound(d, offset, len))
<1> DEFINE line == offset \div d.width
           column == offset % d.width
           e == Moved(Followed(SelectionCleared(d)), line, column, 1)
           last == Least(d.width - 1, column + len - 1)
<1>1. d.width \in Nat \ {0}
  BY SoundFields
<1>2. line \in Int /\ column \in Int
  BY <1>1
<1>3. last \in Int
  <2> HIDE DEF column
  <2> QED
    BY <1>1, <1>2 DEF Least
<1> HIDE DEF line, column, last
<1>4. Sound(SelectionCleared(d))
  BY SoundFields, CursorSound
<1>5. Sound(e)
  BY <1>2, <1>4, FollowedSound, MovedSound
<1> HIDE DEF e
<1>6. Sound(Extended(e, line, last, 1))
  BY <1>2, <1>3, <1>5, MovedSound
<1> QED
  BY <1>6 DEF SelectedFound, e, line, column, last

LEMMA HitPlaced ==
  ASSUME NEW d, Sound(d), NEW area, NEW row \in Int, NEW column \in Int, NEW half
  PROVE  Placed(Hit(d, area, row, column, half))
<1> DEFINE line == Least(d.top + row, LastLine(d))
           last == IF line = LastLine(d) THEN Len(LineBytes(d, line)) ELSE d.width - 1
<1>1. d.top \in Int /\ d.width \in Nat \ {0} /\ LastLine(d) \in Int
  BY SoundFields, ViewTyped
<1>2. line \in Int
  BY <1>1 DEF Least
<1> HIDE DEF line
<1>3. Len(LineBytes(d, line)) \in Nat
  BY <1>2, ViewTyped
<1>4. last \in Int /\ Least(column, last) \in Int
  BY <1>1, <1>3 DEF Least
<1> QED
  BY <1>2, <1>4 DEF Hit, Placed, At, line

-----------------------------------------------------------------------------
(* Every handler *)

LEMMA ShownSound ==
  ASSUME NEW bytes \in Seq(Byte), NEW readonly, NEW top \in Int, NEW max \in Int
  PROVE  Sound(Shown(bytes, readonly, top, max))
<1> DEFINE r == Created(bytes)
           v == [area |-> "hex", top |-> top, max |-> max, readonly |-> readonly]
           d == [x \in DOMAIN r \cup DOMAIN v |-> IF x \in DOMAIN r THEN r[x] ELSE v[x]]
<1>1. /\ DOMAIN r = {"bytes", "commands", "index", "pos", "sel", "mode", "width",
                     "before", "spoiled"}
      /\ r.bytes = bytes /\ r.commands = <<>> /\ r.index = 0 /\ r.pos = Home
      /\ r.sel = Home /\ r.width = DefaultWidth /\ r.before = <<bytes>>
      /\ r.spoiled = FALSE
  BY DEF Created
<1>2. DOMAIN v = {"area", "top", "max", "readonly"} /\ v.top = top /\ v.max = max
  OBVIOUS
<1> HIDE DEF r, v
<1>3. /\ DOMAIN d = DOMAIN r \cup DOMAIN v
      /\ \A x \in DOMAIN d : d[x] = IF x \in DOMAIN r THEN r[x] ELSE v[x]
  OBVIOUS
<1> HIDE DEF d
<1>4. Fields \subseteq DOMAIN d
  BY <1>1, <1>2, <1>3 DEF Fields
<1>5. /\ d.bytes = bytes /\ d.commands = <<>> /\ d.index = 0 /\ d.pos = Home
      /\ d.sel = Home /\ d.width = DefaultWidth /\ d.before = <<bytes>>
      /\ d.spoiled = FALSE
  BY <1>1, <1>3
<1>6. d.top = top /\ d.max = max
  BY <1>1, <1>2, <1>3
<1>7. Stacked(d)
  <2>1. <<bytes>> \in Seq(Seq(Byte)) /\ Len(<<bytes>>) = 1
        /\ <<>> \in Seq(Command) /\ Len(<<>>) = 0
    OBVIOUS
  <2>2. /\ d.before \in Seq(Seq(Byte)) /\ Len(d.before) = 1
        /\ d.commands \in Seq(Command) /\ Len(d.commands) = 0
    BY <1>5, <2>1, Zenon
  <2>3. d.bytes \in Seq(Byte) /\ d.spoiled \in BOOLEAN /\ d.index = 0
    BY <1>5
  <2> QED
    BY <2>2, <2>3 DEF Stacked
<1>8. Faithful(d)
  BY <1>5 DEF Faithful
<1>9. Placed(Home)
  BY DEF Placed, Home, At
<1>10. Sound(d)
  BY <1>4, <1>5, <1>6, <1>7, <1>8, <1>9, WidthAssumption DEF Sound
<1> QED
  BY <1>10, AdjustedSound DEF Shown, d, r, v

LEMMA TreeItemSound ==
  ASSUME Sound(doc), NEW range \in TreeRanges, TreeItemClicked(range)
  PROVE  Sound(doc')
<1> DEFINE d == Moved(doc, range.begin \div doc.width, range.begin % doc.width, 1)
<1>1. range.begin \in Int /\ range.end \in Int
  BY TreeAssumption
<1>2. doc.width \in Nat \ {0}
  BY SoundFields
<1>3. range.begin \div doc.width \in Int /\ range.begin % doc.width \in Int
  BY <1>1, <1>2
<1>4. Sound(d)
  BY <1>3, MovedSound
<1>5. doc' = Extended(d, range.end \div d.width, range.end % d.width, 1)
  BY DEF TreeItemClicked
<1> HIDE DEF d
<1>6. d.width \in Nat \ {0}
  BY <1>4, SoundFields
<1>7. range.end \div d.width \in Int /\ range.end % d.width \in Int
  BY <1>1, <1>6
<1> QED
  BY <1>4, <1>5, <1>7, MovedSound

LEMMA EditHandlersSound ==
  ASSUME Sound(doc)
  PROVE  /\ SelectAll => Sound(doc')
         /\ Undo => Sound(doc')
         /\ Redo => Sound(doc')
         /\ Cut => Sound(doc')
         /\ SwitchMode => Sound(doc')
         /\ \A data \in Clips : Paste(data) => Sound(doc')
         /\ \A key : Erase(key) => Sound(doc')
         /\ \A digit \in Digits : TypeDigit(digit) => Sound(doc')
         /\ \A char \in Keys : TypeKey(char) => Sound(doc')
<1>1. SelectAll => Sound(doc')
  BY SelectedAllSound DEF SelectAll, Edit
<1>2. Undo => Sound(doc')
  BY UndoSound, AdjustedSound DEF Undo, Edit
<1>3. Redo => Sound(doc')
  BY RedoSound, AdjustedSound DEF Redo, Edit
<1>4. Cut => Sound(doc')
  BY CutSound DEF Cut, Edit
<1>5. SwitchMode => Sound(doc')
  <2> DEFINE mode == IF doc.mode = "overwrite" THEN "insert" ELSE "overwrite"
  <2>1. SwitchedMode(doc) = [doc EXCEPT !.mode = mode]
    BY DEF SwitchedMode
  <2>2. Sound([doc EXCEPT !.mode = mode])
    BY ModeSet
  <2> QED
    BY <2>1, <2>2 DEF SwitchMode, Edit
<1>6. ASSUME NEW data \in Clips PROVE Paste(data) => Sound(doc')
  BY PastedSound, BytesAssumption DEF Paste, Edit
<1>7. ASSUME NEW key PROVE Erase(key) => Sound(doc')
  BY ErasedSound DEF Erase, Edit
<1>8. ASSUME NEW digit \in Digits PROVE TypeDigit(digit) => Sound(doc')
  BY TypedDigitSound, BytesAssumption DEF TypeDigit, Edit
<1>9. ASSUME NEW char \in Keys PROVE TypeKey(char) => Sound(doc')
  BY TypedKeySound, BytesAssumption DEF TypeKey, Edit
<1> QED
  BY <1>1, <1>2, <1>3, <1>4, <1>5, <1>6, <1>7, <1>8, <1>9

LEMMA PressSound ==
  ASSUME Sound(doc), NEW area, NEW row \in Int, NEW column \in Int, NEW half,
         MousePress(area, row, column, half)
  PROVE  Sound(doc')
<1> DEFINE p == Hit(doc, area, row, column, half)
           d == [doc EXCEPT !.area = area]
<1>1. p.line \in Int /\ p.column \in Int
  BY HitPlaced DEF Placed
<1>2. Sound(d)
  BY ModeSet
<1>3. doc' = Moved(d, p.line, p.column, p.nibble)
  BY DEF MousePress
<1> HIDE DEF p, d
<1> QED
  BY <1>1, <1>2, <1>3, MovedSound

LEMMA MouseMoveSound ==
  ASSUME Sound(doc), NEW row \in Int, NEW column \in Int, MouseMove(row, column)
  PROVE  Sound(doc')
<1> DEFINE p == Hit(doc, "hex", row, column, 1)
<1>1. p.line \in Int /\ p.column \in Int
  BY HitPlaced DEF Placed
<1>2. doc' = Extended(doc, p.line, p.column, 0)
  BY DEF MouseMove
<1> HIDE DEF p
<1> QED
  BY <1>1, <1>2, MovedSound

LEMMA SearchSound ==
  ASSUME Sound(doc), NEW pattern \in Patterns, NEW forward, Search(pattern, forward)
  PROVE  Sound(doc')
<1> DEFINE found == IF forward THEN FoundForward(doc, pattern)
                    ELSE FoundBackward(doc, pattern)
<1>1. pattern \in Seq(Byte) /\ Len(pattern) \in Int
  BY BytesAssumption
<1>2. found \in Int
  BY <1>1, FoundTyped
<1>3. doc' = doc \/ doc' = SelectedFound(doc, found, Len(pattern))
  BY DEF Search
<1> HIDE DEF found
<1> QED
  BY <1>1, <1>2, <1>3, SelectedFoundSound

LEMMA HandlersSound == ASSUME Sound(doc), Handlers PROVE Sound(doc')
<1>1. doc.width \in Nat \ {0} /\ doc.max \in Int /\ Rows \subseteq Int
      /\ 0 .. doc.width - 1 \subseteq Int /\ 0 .. doc.max \subseteq Int
  BY SoundFields, ViewAssumption DEF Rows
<1>2. CASE \E range \in TreeRanges : TreeItemClicked(range)
  BY <1>2, TreeItemSound
<1>3. CASE \E key \in MoveKeys, select \in BOOLEAN : Move(key, select)
  BY <1>3, ProcessMoveSound DEF Move
<1>4. CASE \/ SelectAll \/ Undo \/ Redo \/ Cut \/ SwitchMode
           \/ \E data \in Clips : Paste(data)
           \/ \E key \in {"backspace", "delete"} : Erase(key)
           \/ \E digit \in Digits : TypeDigit(digit)
           \/ \E char \in Keys : TypeKey(char)
  BY <1>4, EditHandlersSound
<1>5. CASE \E area \in {"hex", "ascii"}, row \in Rows, column \in 0 .. doc.width - 1,
              half \in {0, 1} : MousePress(area, row, column, half)
  BY <1>1, <1>5, PressSound
<1>6. CASE \E row \in Rows, column \in 0 .. doc.width - 1 : MouseMove(row, column)
  BY <1>1, <1>6, MouseMoveSound
<1>7. CASE \E value \in 0 .. doc.max : Scroll(value)
  BY <1>1, <1>7, ScrolledSound DEF Scroll
<1>8. CASE \E pattern \in Patterns, forward \in BOOLEAN : Search(pattern, forward)
  BY <1>8, SearchSound
<1>9. CASE \E width \in Widths : SetHexLineWidth(width)
  BY <1>9, WidthSet, ViewAssumption DEF SetHexLineWidth, WithWidth
<1>10. CASE \/ \E range \in Ranges : Comment(range)
            \/ \E line \in {p.line : p \in meta.lines} : ClearLine(line)
  BY <1>10 DEF Comment, ClearLine
<1>11. CASE ClearAll
  BY <1>11, AdjustedSound DEF ClearAll
<1> QED
  BY <1>2, <1>3, <1>4, <1>5, <1>6, <1>7, <1>8, <1>9, <1>10, <1>11 DEF Handlers

DocumentSound == Sound(doc)

-----------------------------------------------------------------------------
(***************************************************************************)
(* Every handler of QHexView leaves the undo stack of QHexDocument well    *)
(* formed: `index' lies on it, and unless a command was undone that had    *)
(* padded or overreached, each command holds the bytes it changed.         *)
(***************************************************************************)
THEOREM StaysSound == Spec => []DocumentSound
<1>1. Init => DocumentSound
  <2> SUFFICES ASSUME NEW readonly, doc = Shown(<<>>, readonly, 0, 0)
               PROVE  Sound(doc)
    BY DEF Init, DocumentSound
  <2>1. <<>> \in Seq(Byte) /\ 0 \in Int
    OBVIOUS
  <2>2. Sound(Shown(<<>>, readonly, 0, 0))
    BY <2>1, ShownSound
  <2> QED
    BY <2>2
<1>2. DocumentSound /\ [Next]_vars => DocumentSound'
  <2> SUFFICES ASSUME Sound(doc), [Next]_vars PROVE Sound(doc')
    BY DEF DocumentSound
  <2>1. CASE \E bytes \in Packets : SetDocument(bytes) /\ steps' = 0
    <3>1. PICK bytes \in Packets : SetDocument(bytes)
      BY <2>1
    <3>2. doc' = Shown(bytes, doc.readonly, doc.top, doc.max)
      BY <3>1 DEF SetDocument
    <3>3. bytes \in Seq(Byte) /\ doc.top \in Int /\ doc.max \in Int
      BY SoundFields, BytesAssumption
    <3> QED
      BY <3>2, <3>3, ShownSound
  <2>2. CASE Handlers
    BY <2>2, HandlersSound
  <2>3. CASE UNCHANGED vars
    BY <2>3 DEF vars
  <2> QED
    BY <2>1, <2>2, <2>3 DEF Next
<1> QED
  BY <1>1, <1>2, PTL DEF Spec

(***************************************************************************)
(* InsertCommand, RemoveCommand and ReplaceCommand over QMemoryBuffer:     *)
(* whatever was typed, pasted, cut and searched in between, undo() and     *)
(* redo() bring back the bytes the document had, unless a command was      *)
(* undone that had padded it or reached over its end.                      *)
(***************************************************************************)
THEOREM UndoStaysTrue == Spec => []UndoRestores
<1>1. DocumentSound => UndoRestores
  BY DEF DocumentSound, Sound, Faithful, UndoRestores
<1> QED
  BY <1>1, StaysSound, PTL

-----------------------------------------------------------------------------
(* Keys and the lines of the document *)

LEMMA Follows ==
  ASSUME NEW d, Sound(d)
  PROVE  /\ Followed(d).pos = d.pos /\ Followed(d).bytes = d.bytes
         /\ Followed(d).width = d.width
<1>1. Fields \subseteq DOMAIN d
  BY SoundFields
<1>2. ASSUME NEW n PROVE /\ Scrolled(d, n).pos = d.pos /\ Scrolled(d, n).bytes = d.bytes
                         /\ Scrolled(d, n).width = d.width
  BY <1>1 DEF Scrolled, Fields
<1> QED
  BY <1>2 DEF Followed

LEMMA PutOnLine ==
  ASSUME NEW d, Sound(d), NEW line \in 0 .. LastLine(d), NEW column \in Int,
         NEW nibble, NEW select
  PROVE  OnLine(Put(d, select, line, column, nibble),
                Put(d, select, line, column, nibble).pos)
<1> DEFINE p == At(line, column, nibble)
           c == IF select THEN SelectedTo(d, p) ELSE MovedTo(d, p)
           e == Put(d, select, line, column, nibble)
<1>1. Fields \subseteq DOMAIN d /\ LastLine(d) \in Int
  BY SoundFields, ViewTyped
<1>2. p.line = line /\ Placed(p)
  BY <1>1 DEF At, Placed
<1>3. c.pos = p /\ c.bytes = d.bytes /\ c.width = d.width /\ Sound(c)
  <2> HIDE DEF p
  <2>1. Sound(MovedTo(d, p)) /\ Sound(SelectedTo(d, p))
    BY <1>2, CursorSound
  <2>2. /\ MovedTo(d, p).pos = p /\ MovedTo(d, p).bytes = d.bytes
        /\ MovedTo(d, p).width = d.width
    BY <1>1 DEF MovedTo, Fields
  <2>3. /\ SelectedTo(d, p).pos = p /\ SelectedTo(d, p).bytes = d.bytes
        /\ SelectedTo(d, p).width = d.width
    BY <1>1 DEF SelectedTo, Fields
  <2> QED
    BY <2>1, <2>2, <2>3
<1>4. e = Followed(c)
  BY DEF Put, Moved, Extended
<1> HIDE DEF c, e, p
<1>5. e.pos = p /\ e.bytes = d.bytes /\ e.width = d.width
  BY <1>3, <1>4, Follows
<1>6. LastLine(e) = LastLine(d)
  BY <1>5 DEF LastLine, DocumentLines
<1>7. OnLine(e, e.pos)
  BY <1>2, <1>5, <1>6 DEF OnLine
<1> QED
  BY <1>7 DEF e

LEMMA Wraps ==
  ASSUME NEW n \in Nat
  PROVE  n % WORD \in 0 .. n
<1>1. WORD \in Nat /\ WORD > 0
  BY WordAssumption
<1>2. n % WORD \in Nat /\ n = WORD * (n \div WORD) + (n % WORD) /\ n \div WORD \in Nat
  BY <1>1
<1>3. WORD * (n \div WORD) \in Nat
  BY <1>1, <1>2
<1> QED
  BY <1>2, <1>3

LEMMA MovesOnLines ==
  ASSUME NEW d, Sound(d), OnLine(d, d.pos), NEW key \in MoveKeys, NEW select,
         ~(key = "pageUp" /\ d.pos.line < VisibleLines(d)),
         ~(key = "previous" /\ d.pos.line = 0 /\ d.pos.column < 0)
  PROVE  OnLine(ProcessMove(d, key, select), ProcessMove(d, key, select).pos)
<1> DEFINE p == d.pos
           last == LastLine(d)
           visible == VisibleLines(d)
           Stays(e) == OnLine(e, e.pos)
<1>1. /\ p.line \in Nat /\ p.column \in Int /\ d.width - 1 \in Int /\ last \in Nat
      /\ p.line <= last /\ LastColumn(d) \in Int /\ visible \in Nat
      /\ LastColumn(d) - 1 \in Int /\ p.line \in 0 .. last /\ 0 \in 0 .. last
      /\ last \in 0 .. last
  <2>1. visible \in Nat
    BY ViewTyped, ViewAssumption DEF VisibleLines, Least
  <2> QED
    BY <2>1, SoundFields, ViewTyped DEF OnLine, Placed
<1>2. Stays(d)
  OBVIOUS
<1>3. ASSUME NEW line \in 0 .. last, NEW column \in Int, NEW nibble
      PROVE  Stays(Put(d, select, line, column, nibble))
  BY <1>3, PutOnLine
<1>4. ASSUME NEW n \in Nat PROVE Least(last, n % WORD) \in 0 .. last
  <2>1. n % WORD \in 0 .. n
    BY Wraps
  <2> QED
    BY <1>1, <2>1 DEF Least
<1> HIDE DEF Stays, last, visible
<1>5. CASE key = "next"
  <2> DEFINE hex == d.area = "hex"
             nibble == IF hex THEN (p.nibble + 1) % 2 ELSE 1
             column == IF hex /\ nibble = 0 THEN p.column ELSE p.column + 1
             next == Least(last, (p.line + 1) % WORD)
  <2>1. next \in 0 .. last
    BY <1>1, <1>4
  <2>2. column \in Int /\ 0 \in Int
    <3> HIDE DEF nibble, hex
    <3> QED
      BY <1>1
  <2> HIDE DEF column, next, nibble, p
  <2>3. Stays(Put(d, select, next, 0, 1)) /\ Stays(Put(d, select, p.line, column, nibble))
    BY <1>1, <1>3, <2>1, <2>2
  <2>4. Stays(MovedNext(d, select))
    BY <1>2, <2>3, Zenon DEF MovedNext, column, next, nibble, p, last
  <2> QED
    BY <1>5, <2>4 DEF ProcessMove, Stays
<1>6. CASE key = "previous"
  <2> DEFINE hex == d.area = "hex"
             firstcell == p.line = 0 /\ p.column = 0
             nibble == IF ~hex THEN 1 ELSE IF p.nibble = 0 THEN -1 ELSE 0
             column == IF hex /\ nibble # 0 THEN p.column ELSE p.column - 1
             line == (p.line - 1) % WORD
  <2>1. column \in Int /\ (hex /\ p.nibble = 0 => column = p.column)
        /\ column \in {p.column, p.column - 1}
    BY <1>1
  <2>2. CASE firstcell /\ (~hex \/ p.nibble # 0)
    <3>1. MovedPrevious(d, select) = d
      BY <2>2, Zenon DEF MovedPrevious
    <3> QED
      BY <1>2, <1>6, <3>1 DEF ProcessMove, Stays
  <2>3. CASE ~(firstcell /\ (~hex \/ p.nibble # 0)) /\ column < 0
    <3>1. p.line # 0
      BY <1>1, <1>6, <2>1, <2>3
    <3>2. p.line - 1 \in Nat
      BY <1>1, <3>1
    <3>3. line \in 0 .. last
      BY <1>1, <3>2, Wraps
    <3> HIDE DEF line
    <3>4. Stays(Put(d, select, line, d.width - 1, 0))
      BY <1>1, <1>3, <3>3
    <3>5. MovedPrevious(d, select) = Put(d, select, line, d.width - 1, 0)
      BY <2>3, Zenon DEF MovedPrevious, line
    <3> QED
      BY <1>6, <3>4, <3>5 DEF ProcessMove, Stays
  <2>4. CASE ~(firstcell /\ (~hex \/ p.nibble # 0)) /\ ~(column < 0)
    <3>1. Stays(Put(d, select, p.line, column, nibble))
      <4> HIDE DEF column, nibble
      <4> QED
        BY <1>1, <1>3, <2>1
    <3>2. MovedPrevious(d, select) = Put(d, select, p.line, column, nibble)
      BY <2>4, Zenon DEF MovedPrevious
    <3> QED
      BY <1>6, <3>1, <3>2 DEF ProcessMove, Stays
  <2> QED
    BY <2>2, <2>3, <2>4
<1>7. CASE key = "down"
  <2>1. CASE last = p.line
    <3>1. MovedLineDown(d, select) = d
      BY <2>1 DEF MovedLineDown, last
    <3> QED
      BY <1>2, <1>7, <3>1 DEF ProcessMove, Stays
  <2>2. CASE last # p.line
    <3>1. (p.line + 1) % WORD \in 0 .. last
      BY <1>1, <2>2, Wraps
    <3>2. Stays(Put(d, select, (p.line + 1) % WORD, p.column, 1))
      BY <1>1, <1>3, <3>1
    <3>3. MovedLineDown(d, select) = Put(d, select, (p.line + 1) % WORD, p.column, 1)
      BY <2>2 DEF MovedLineDown, last
    <3> QED
      BY <1>7, <3>2, <3>3 DEF ProcessMove, Stays
  <2> QED
    BY <2>1, <2>2
<1>8. CASE key = "up"
  <2>1. p.line # 0 => p.line - 1 \in 0 .. last
    BY <1>1
  <2>2. p.line # 0 => Stays(Put(d, select, p.line - 1, p.column, 1))
    BY <1>1, <1>3, <2>1
  <2> QED
    BY <1>2, <1>8, <2>2 DEF ProcessMove, MovedLineUp, Stays
<1>9. CASE key = "pageDown"
  <2>1. Least(last, (p.line + visible) % WORD) \in 0 .. last
    BY <1>1, <1>4
  <2>2. Stays(Put(d, select, Least(last, (p.line + visible) % WORD), p.column, 1))
    BY <1>1, <1>3, <2>1
  <2> QED
    BY <1>2, <1>9, <2>2 DEF ProcessMove, MovedPageDown, Stays, last, visible
<1>10. CASE key = "pageUp"
  <2>1. p.line - visible \in Nat
    BY <1>1, <1>10 DEF visible
  <2>2. (p.line - visible) % WORD \in 0 .. last
    BY <1>1, <2>1, Wraps
  <2>3. Stays(Put(d, select, (p.line - visible) % WORD, p.column, 1))
    BY <1>1, <1>3, <2>2
  <2> QED
    BY <1>2, <1>10, <2>3 DEF ProcessMove, MovedPageUp, Stays, visible
<1>11. CASE key \in {"start", "end", "lineStart", "lineEnd"}
  <2>1. /\ Stays(Put(d, select, 0, 0, 1)) /\ Stays(Put(d, select, last, LastColumn(d), 1))
        /\ Stays(Put(d, select, p.line, 0, 1))
        /\ Stays(Put(d, select, p.line, LastColumn(d), 1))
        /\ Stays(Put(d, select, p.line, d.width - 1, 0))
    BY <1>1, <1>3
  <2>2. /\ Stays(MovedToStart(d, select)) /\ Stays(MovedToEnd(d, select))
        /\ Stays(MovedToLineStart(d, select)) /\ Stays(MovedToLineEnd(d, select))
    BY <1>2, <2>1 DEF MovedToStart, MovedToEnd, MovedToLineStart, MovedToLineEnd, last
  <2>3. Stays(ProcessMove(d, key, select))
    BY <1>11, <2>2 DEF ProcessMove
  <2> QED
    BY <2>3 DEF Stays
<1> QED
  BY <1>5, <1>6, <1>7, <1>8, <1>9, <1>10, <1>11 DEF MoveKeys

(***************************************************************************)
(* QHexView::processMove: a cursor on a line of the document stays on one, *)
(* but for page-up less than a page below the top and left from before the *)
(* first column, whatever the document, its width and the word size.       *)
(***************************************************************************)
THEOREM KeysStayOnLines == Spec => LostOnlyByWrap
<1>1. Spec => []DocumentSound
  BY StaysSound
<1>2. ASSUME Sound(doc)
      PROVE /\ OnLine(doc, doc.pos)
            /\ ~OnLine(doc', doc'.pos)
            => \A key \in MoveKeys, select \in BOOLEAN : Move(key, select) =>
                 \/ key = "pageUp" /\ doc.pos.line < VisibleLines(doc)
                 \/ key = "previous" /\ doc.pos.line = 0 /\ doc.pos.column < 0
  BY <1>2, MovesOnLines DEF Move
<1> QED
  BY <1>1, <1>2, PTL DEF LostOnlyByWrap, DocumentSound

-----------------------------------------------------------------------------
(* What shows as selected, and what is cut *)

\* A line number times the width, which the code keeps in a 64-bit number,
\* does not wrap: the document is shorter than half of what that holds.
Addressable(d) == Len(d.bytes) < WORD \div 2

LEMMA LineOf ==
  ASSUME NEW w \in Nat \ {0}, NEW q \in Nat, NEW c \in 0 .. w - 1
  PROVE  /\ w * q + c \in Nat
         /\ (w * q + c) \div w = q
         /\ (w * q + c) % w = c
<1> DEFINE x == w * q + c
           r == x \div w
<1>1. w * q \in Nat /\ x \in Nat
  OBVIOUS
<1> HIDE DEF x
<1>2. r \in Nat /\ x % w \in 0 .. w - 1 /\ x % w = x - w * r /\ w * r \in Int
  <2>1. r \in Nat /\ x % w \in 0 .. w - 1 /\ x % w = x - w * r
    BY <1>1, Quotient
  <2> HIDE DEF r
  <2>2. w * r \in Int
    BY <1>1, <2>1
  <2> QED
    BY <2>1, <2>2
<1>3. x = w * q + c
  BY DEF x
<1> HIDE DEF r
<1>4. ~(q < r)
  <2> SUFFICES ASSUME q < r PROVE FALSE
    OBVIOUS
  <2>1. w * q + w <= w * r
    BY <1>2, LineBefore
  <2> QED
    BY <1>1, <1>2, <1>3, <2>1
<1>5. ~(r < q)
  <2> SUFFICES ASSUME r < q PROVE FALSE
    OBVIOUS
  <2>1. w * r + w <= w * q
    BY <1>2, LineBefore
  <2> QED
    BY <1>1, <1>2, <1>3, <2>1
<1>6. r = q
  BY <1>2, <1>4, <1>5
<1>7. x % w = c
  BY <1>1, <1>2, <1>3, <1>6
<1> QED
  BY <1>1, <1>6, <1>7 DEF x, r

LEMMA LineStarts ==
  ASSUME NEW d, Sound(d), NEW line \in 0 .. LastLine(d)
  PROVE  /\ line \in Nat /\ line * d.width \in Nat /\ line * d.width = d.width * line
         /\ d.width * line <= Len(d.bytes)
<1> DEFINE L == Len(d.bytes)
           w == d.width
           r == L \div w
<1>1. L \in Nat /\ w \in Nat \ {0}
  BY SoundFields
<1> HIDE DEF L, w
<1>2. r \in Nat /\ L % w \in 0 .. w - 1 /\ L % w = L - w * r /\ w * r \in Int
  <2>1. r \in Nat /\ L % w \in 0 .. w - 1 /\ L % w = L - w * r
    BY <1>1, Quotient
  <2> HIDE DEF r
  <2>2. w * r \in Int
    BY <1>1, <2>1
  <2> QED
    BY <2>1, <2>2
<1> HIDE DEF r
<1>3. LastLine(d) = r
  BY <1>2 DEF LastLine, DocumentLines, L, w, r
<1>4. line \in Nat /\ line <= r
  BY <1>2, <1>3
<1>5. line * w \in Nat /\ line * w = w * line
  BY <1>1, <1>4
<1>6. w * line <= w * r
  <2>1. CASE line = r
    BY <1>2, <2>1
  <2>2. CASE line < r
    <3>1. w * line + w <= w * r
      BY <1>1, <1>2, <1>4, <2>2, LineBefore
    <3> QED
      BY <1>1, <1>2, <1>5, <3>1
  <2> QED
    BY <1>2, <1>4, <2>1, <2>2
<1>7. w * line <= L
  BY <1>1, <1>2, <1>5, <1>6
<1> QED
  BY <1>4, <1>5, <1>7 DEF w, L

LEMMA OffsetIs ==
  ASSUME NEW d, Sound(d), Addressable(d), NEW p, Placed(p), OnGrid(d, p)
  PROVE  /\ p.line \in Nat /\ p.column \in 0 .. d.width - 1
         /\ Offset(d, p) \in Nat
         /\ Offset(d, p) = d.width * p.line + p.column
         /\ Offset(d, p) \div d.width = p.line
         /\ Offset(d, p) % d.width = p.column
<1>1. d.width \in Nat \ {0} /\ Len(d.bytes) \in Nat
  BY SoundFields
<1>2. p.line \in 0 .. LastLine(d) /\ p.column \in 0 .. d.width - 1
  BY DEF OnGrid, OnLine
<1>3. /\ p.line \in Nat /\ p.line * d.width \in Nat
      /\ p.line * d.width = d.width * p.line
      /\ d.width * p.line <= Len(d.bytes)
  BY <1>2, LineStarts
<1>4. Signed(p.line * d.width) = p.line * d.width
  <2> DEFINE x == p.line * d.width
  <2>1. x \in Nat /\ x < WORD \div 2
    BY <1>1, <1>3, WordAssumption DEF Addressable
  <2> HIDE DEF x
  <2>2. x % WORD = x
    BY <2>1, WordAssumption
  <2>3. Signed(x) = x
    BY <2>1, <2>2 DEF Signed
  <2> QED
    BY <2>3 DEF x
<1>5. Offset(d, p) = d.width * p.line + p.column
  BY <1>3, <1>4 DEF Offset
<1>6. /\ d.width * p.line + p.column \in Nat
      /\ (d.width * p.line + p.column) \div d.width = p.line
      /\ (d.width * p.line + p.column) % d.width = p.column
  BY <1>1, <1>2, <1>3, LineOf
<1> QED
  BY <1>2, <1>3, <1>5, <1>6

\* The column of a byte of a line, and of the byte of an offset.
LEMMA LineHolds ==
  ASSUME NEW d, Sound(d), NEW line \in 0 .. LastLine(d), NEW k \in Nat
  PROVE  k < Len(LineBytes(d, line)) <=> k < d.width /\ d.width * line + k < Len(d.bytes)
<1> DEFINE pos == line * d.width
           w == d.width
           L == Len(d.bytes)
           m == Least(L, pos + w)
<1>1. w \in Nat \ {0} /\ L \in Nat /\ d.bytes \in Seq(Byte)
  BY SoundFields
<1>2. pos \in Nat /\ pos = w * line /\ w * line <= L
  BY LineStarts
<1> HIDE DEF pos, w, L
<1>3. m \in Nat /\ m <= L /\ m <= pos + w /\ (m = L \/ m = pos + w) /\ pos <= m
  BY <1>1, <1>2 DEF Least
<1>4. LineBytes(d, line) = SubSeq(d.bytes, pos + 1, m)
  <2>1. LineBytes(d, line) = Mid(d.bytes, pos, w)
    BY DEF LineBytes, pos, w
  <2>2. Most(pos, 0) = pos /\ ~(w < 0)
    BY <1>1, <1>2 DEF Most
  <2> QED
    BY <2>1, <2>2 DEF Mid, L
<1> HIDE DEF m
<1>5. Len(SubSeq(d.bytes, pos + 1, m)) = m - pos
  <2>1. pos + 1 \in 1 .. Len(d.bytes) + 1 /\ m \in 0 .. Len(d.bytes) /\ pos + 1 <= m + 1
    BY <1>1, <1>2, <1>3 DEF L
  <2>2. Len(SubSeq(d.bytes, pos + 1, m)) = m - (pos + 1) + 1
    BY <1>1, <2>1, Parts
  <2> QED
    BY <1>2, <1>3, <2>2
<1>6. k < m - pos <=> k < w /\ pos + k < L
  BY <1>1, <1>2, <1>3
<1>7. k < Len(LineBytes(d, line)) <=> k < w /\ w * line + k < L
  BY <1>2, <1>4, <1>5, <1>6
<1> QED
  BY <1>7 DEF w, L

LEMMA SelectionOrdered ==
  ASSUME NEW d, Sound(d), Addressable(d), OnGrid(d, d.pos), OnGrid(d, d.sel)
  PROVE  /\ Placed(SelectionStart(d)) /\ OnGrid(d, SelectionStart(d))
         /\ Placed(SelectionEnd(d)) /\ OnGrid(d, SelectionEnd(d))
         /\ Offset(d, SelectionStart(d)) <= Offset(d, SelectionEnd(d))
<1> DEFINE s == SelectionStart(d)
           e == SelectionEnd(d)
<1>1. /\ Placed(s) /\ OnGrid(d, s) /\ Placed(e) /\ OnGrid(d, e)
  BY SoundFields DEF SelectionStart, SelectionEnd
<1>2. Precedes(s, e) \/ (s.line = e.line /\ s.column = e.column)
  BY SoundFields DEF SelectionStart, SelectionEnd, Precedes, Placed
<1> HIDE DEF s, e
<1>3. /\ Offset(d, s) \in Nat /\ Offset(d, s) \div d.width = s.line
      /\ Offset(d, s) % d.width = s.column
      /\ s.line \in Nat /\ s.column \in 0 .. d.width - 1
  BY <1>1, OffsetIs
<1>4. /\ Offset(d, e) \in Nat /\ Offset(d, e) \div d.width = e.line
      /\ Offset(d, e) % d.width = e.column
      /\ e.line \in Nat /\ e.column \in 0 .. d.width - 1
  BY <1>1, OffsetIs
<1>5. ~(Offset(d, e) < Offset(d, s))
  <2>1. d.width \in Nat \ {0}
    BY SoundFields
  <2>2. Offset(d, e) < Offset(d, s)
          <=> \/ Offset(d, e) \div d.width < Offset(d, s) \div d.width
              \/ /\ Offset(d, e) \div d.width = Offset(d, s) \div d.width
                 /\ Offset(d, e) % d.width < Offset(d, s) % d.width
    BY <1>3, <1>4, <2>1, Lexicographic
  <2>3. Offset(d, e) < Offset(d, s)
          <=> e.line < s.line \/ (e.line = s.line /\ e.column < s.column)
    BY <1>3, <1>4, <2>2
  <2> QED
    BY <1>2, <1>3, <1>4, <2>1, <2>3 DEF Precedes
<1>6. Offset(d, s) <= Offset(d, e)
  BY <1>3, <1>4, <1>5
<1> QED
  BY <1>1, <1>6 DEF s, e

\* The highlight of a byte, and where its offset lies.
LEMMA ByteSelected ==
  ASSUME NEW d, Sound(d), Addressable(d), OnGrid(d, d.pos), OnGrid(d, d.sel),
         HasSelection(d), NEW line \in 0 .. LastLine(d), NEW k \in Nat, k < d.width
  PROVE  (/\ IsLineSelected(d, line)
          /\ k >= IF line = SelectionStart(d).line THEN SelectionStart(d).column ELSE 0
          /\ k <= IF line = SelectionEnd(d).line THEN SelectionEnd(d).column ELSE d.width - 1)
         <=> (/\ Offset(d, SelectionStart(d)) <= d.width * line + k
              /\ d.width * line + k <= Offset(d, SelectionEnd(d)))
<1> DEFINE s == SelectionStart(d)
           e == SelectionEnd(d)
           w == d.width
           x == d.width * line + k
           p == Offset(d, s)
           q == Offset(d, e)
<1>1. /\ Placed(s) /\ OnGrid(d, s) /\ Placed(e) /\ OnGrid(d, e)
  BY SelectionOrdered
<1>2. w \in Nat \ {0} /\ line \in Nat /\ k \in 0 .. w - 1
  <2>1. w \in Nat \ {0}
    BY SoundFields
  <2> QED
    BY <2>1, LineStarts
<1>3. x \in Nat /\ x \div w = line /\ x % w = k
  BY <1>2, LineOf
<1>0. IsLineSelected(d, line) <=> s.line <= line /\ line <= e.line
  BY DEF IsLineSelected
<1> HIDE DEF s, e, x
<1>4. p \in Nat /\ p \div w = s.line /\ p % w = s.column /\ s.line \in Nat /\ s.column \in 0 .. w - 1
  BY <1>1, OffsetIs
<1>5. q \in Nat /\ q \div w = e.line /\ q % w = e.column /\ e.line \in Nat /\ e.column \in 0 .. w - 1
  BY <1>1, OffsetIs
<1> HIDE DEF p, q, w
<1>6. x < p <=> line < s.line \/ (line = s.line /\ k < s.column)
  <2>1. x < p <=> x \div w < p \div w \/ (x \div w = p \div w /\ x % w < p % w)
    BY <1>2, <1>3, <1>4, Lexicographic
  <2> QED
    BY <1>3, <1>4, <2>1, Zenon
<1>7. q < x <=> e.line < line \/ (e.line = line /\ e.column < k)
  <2>1. q < x <=> q \div w < x \div w \/ (q \div w = x \div w /\ q % w < x % w)
    BY <1>2, <1>3, <1>5, Lexicographic
  <2> QED
    BY <1>3, <1>5, <2>1, Zenon
<1>8. (/\ s.line <= line /\ line <= e.line
       /\ k >= IF line = s.line THEN s.column ELSE 0
       /\ k <= IF line = e.line THEN e.column ELSE w - 1)
      <=> (p <= x /\ x <= q)
  BY <1>2, <1>3, <1>4, <1>5, <1>6, <1>7
<1> QED
  BY <1>0, <1>8 DEF s, e, w, x, p, q

\* What shows as selected are the bytes from one end to the other.
LEMMA HighlightIs ==
  ASSUME NEW d, Sound(d), Addressable(d), OnGrid(d, d.pos), OnGrid(d, d.sel),
         HasSelection(d), NEW x
  PROVE  x \in Highlighted(d)
           <=> (/\ x \in Nat /\ x < Len(d.bytes)
                /\ Offset(d, SelectionStart(d)) <= x /\ x <= Offset(d, SelectionEnd(d)))
<1> DEFINE s == SelectionStart(d)
           e == SelectionEnd(d)
           w == d.width
           L == Len(d.bytes)
           p == Offset(d, s)
           q == Offset(d, e)
           First(line) == IF line = s.line THEN s.column ELSE 0
           Last(line) == IF line = e.line THEN e.column ELSE w - 1
<1>1. w \in Nat \ {0} /\ L \in Nat
  BY SoundFields
<1>2. /\ s.column \in 0 .. w - 1 /\ e.column \in 0 .. w - 1
  BY SelectionOrdered, OffsetIs
<1>3. ASSUME NEW line PROVE First(line) \in Int /\ Last(line) \in Int
  BY <1>1, <1>2
<1>4. ASSUME NEW line \in 0 .. LastLine(d), NEW y
      PROVE  y \in HighlightedIn(d, line)
               <=> (/\ IsLineSelected(d, line)
                    /\ \E k \in First(line) .. Last(line) :
                         /\ 0 <= k /\ k < Len(LineBytes(d, line))
                         /\ y = line * w + k)
  BY Zenon DEF HighlightedIn
<1>5. ASSUME x \in Highlighted(d)
      PROVE  x \in Nat /\ x < L /\ p <= x /\ x <= q
  <2>1. PICK line \in 0 .. LastLine(d) : x \in HighlightedIn(d, line)
    BY <1>5 DEF Highlighted
  <2>2. /\ IsLineSelected(d, line)
        /\ \E k \in First(line) .. Last(line) :
             0 <= k /\ k < Len(LineBytes(d, line)) /\ x = line * w + k
    BY <1>4, <2>1, Zenon
  <2>3. PICK k \in First(line) .. Last(line) :
          0 <= k /\ k < Len(LineBytes(d, line)) /\ x = line * w + k
    BY <2>2
  <2>4. k \in Nat /\ k >= First(line) /\ k <= Last(line)
    <3>1. First(line) \in Int /\ Last(line) \in Int
      BY <1>3
    <3> HIDE DEF First, Last
    <3> QED
      BY <2>3, <3>1
  <2>5. k < w /\ w * line + k < L
    BY <2>3, <2>4, LineHolds
  <2>6. x = w * line + k /\ x \in Nat
    <3>1. line \in Nat /\ line * w \in Nat /\ line * w = w * line
      BY LineStarts
    <3> QED
      BY <2>3, <2>4, <3>1
  <2>7. p <= w * line + k /\ w * line + k <= q
    BY <2>2, <2>4, <2>5, ByteSelected
  <2> QED
    BY <2>5, <2>6, <2>7
<1>6. ASSUME x \in Nat, x < L, p <= x, x <= q
      PROVE  x \in Highlighted(d)
  <2> DEFINE line == x \div w
             k == x % w
  <2>1. /\ line \in Nat /\ k \in 0 .. w - 1 /\ k = x - w * line
    BY <1>1, <1>6, Quotient
  <2>2. line \in 0 .. LastLine(d)
    <3>1. L \div w \in Nat
      BY <1>1, Quotient
    <3>2. line <= L \div w
      <4>1. line < L \div w \/ (line = L \div w /\ x % w < L % w)
        BY <1>1, <1>6, Lexicographic
      <4> HIDE DEF line
      <4> QED
        BY <2>1, <3>1, <4>1
    <3>3. LastLine(d) = L \div w
      BY <3>1 DEF LastLine, DocumentLines
    <3> HIDE DEF line
    <3> QED
      BY <2>1, <3>1, <3>2, <3>3
  <2> HIDE DEF line, k
  <2>3. line * w \in Nat /\ line * w = w * line
    BY <2>2, LineStarts
  <2>4. k \in Nat /\ k < w /\ x = w * line + k /\ x = line * w + k
    BY <1>1, <1>6, <2>1, <2>3
  <2>5. k < Len(LineBytes(d, line))
    BY <1>6, <2>2, <2>4, LineHolds
  <2>6. IsLineSelected(d, line) /\ k >= First(line) /\ k <= Last(line)
    BY <1>6, <2>2, <2>4, ByteSelected
  <2>7. k \in First(line) .. Last(line)
    <3>1. First(line) \in Int /\ Last(line) \in Int
      BY <1>3
    <3> HIDE DEF First, Last
    <3> QED
      BY <2>4, <2>6, <3>1
  <2>8. 0 <= k
    BY <2>4
  <2>9. x \in HighlightedIn(d, line)
    BY <1>4, <2>2, <2>4, <2>5, <2>6, <2>7, <2>8, Zenon
  <2> QED
    BY <2>2, <2>9, Zenon DEF Highlighted
<1> QED
  BY <1>5, <1>6

\* Taking out what lies between two offsets.
LEMMA SpliceLeavesOut ==
  ASSUME NEW s \in Seq(Byte), NEW pos \in Nat, NEW n \in Nat, pos + n <= Len(s),
         NEW t, IsSpliced(t, s, pos, n, <<>>)
  PROVE  LeavesOut(t, s, pos .. pos + n - 1)
<1> DEFINE gone == pos .. pos + n - 1
<1>1. Cardinality(gone) = n
  BY FS_Interval
<1>2. Len(t) = Len(s) - n
  BY DEF IsSpliced
<1>3. ASSUME NEW i \in DOMAIN s, i - 1 \notin gone
      PROVE  t[i - Cardinality({o \in gone : o < i - 1})] = s[i]
  <2>1. i \in 1 .. Len(s)
    OBVIOUS
  <2>2. CASE i - 1 < pos
    <3>1. {o \in gone : o < i - 1} = {}
      BY <2>1, <2>2
    <3>2. i - Cardinality({o \in gone : o < i - 1}) = i
      <4>1. Cardinality({o \in gone : o < i - 1}) = 0
        BY <3>1, FS_EmptySet
      <4> QED
        BY <2>1, <4>1
    <3>3. t[i] = s[i]
      BY <2>1, <2>2 DEF IsSpliced
    <3> QED
      BY <3>2, <3>3
  <2>3. CASE i - 1 >= pos + n
    <3>1. {o \in gone : o < i - 1} = gone
      BY <2>1, <2>3
    <3>2. i - Cardinality({o \in gone : o < i - 1}) = i - n
      BY <1>1, <3>1
    <3> DEFINE j == (i - n) - pos
    <3>3. j \in 1 .. (Len(s) - n) - pos
      BY <2>1, <2>3
    <3>4. (pos + Len(<<>>)) + j = i - n /\ (pos + n) + j = i
      BY <2>1
    <3>5. t[(pos + Len(<<>>)) + j] = s[(pos + n) + j]
      BY <3>3 DEF IsSpliced
    <3> QED
      BY <3>2, <3>4, <3>5
  <2> QED
    BY <1>3, <2>1, <2>2, <2>3
<1> QED
  BY <1>1, <1>2, <1>3 DEF LeavesOut

LEMMA NothingLeavesOut ==
  ASSUME NEW s \in Seq(Byte)
  PROVE  LeavesOut(s, s, {})
<1>1. Cardinality({}) = 0
  BY FS_EmptySet
<1>2. ASSUME NEW i PROVE {o \in {} : o < i - 1} = {}
  OBVIOUS
<1>3. \A i \in DOMAIN s : i \in 1 .. Len(s) /\ i - 0 = i
  OBVIOUS
<1>4. Len(s) = Len(s) - 0
  OBVIOUS
<1> QED
  BY <1>1, <1>2, <1>3, <1>4, Zenon DEF LeavesOut

LEMMA CutBytes ==
  ASSUME NEW d, Sound(d), HasSelection(d)
  PROVE  CutSelection(d).bytes
           = RemoveAt(d.bytes, Offset(d, SelectionStart(d)), SelectionLength(d))
<1> DEFINE c == Removal(Offset(d, SelectionStart(d)), SelectionLength(d))
           e == Push(d, c)
           f == SelectionCleared(e)
           g == Adjusted(f)
<1>1. c \in Command
  BY SelectionTyped, Bytes DEF Removal, Command
<1>2. Sound(e) /\ e.bytes = RedoBytes(c, d.bytes)
  <2>1. Sound(e)
    BY <1>1, PushSound
  <2> HIDE DEF c
  <2>2. e.bytes = RedoBytes(c, d.bytes)
    BY SoundFields DEF Push, Fields
  <2> QED
    BY <2>1, <2>2
<1>3. RedoBytes(c, d.bytes)
        = RemoveAt(d.bytes, Offset(d, SelectionStart(d)), SelectionLength(d))
  BY DEF RedoBytes, Removal
<1>4. CutSelection(d) = Followed(g)
  BY Zenon DEF CutSelection, RemovedSelection, Removed
<1> HIDE DEF e, c
<1>5. Sound(f) /\ f.bytes = e.bytes
  <2>1. Placed(e.pos)
    BY <1>2, SoundFields
  <2>2. Sound(f)
    BY <1>2, <2>1, CursorSound
  <2>3. f.bytes = e.bytes
    BY <1>2, SoundFields DEF SelectionCleared, Fields
  <2> QED
    BY <2>2, <2>3
<1> HIDE DEF f
<1>6. g.bytes = f.bytes
  BY <1>5, SoundFields DEF Adjusted, Scrolled, Fields
<1>7. Followed(g).bytes = g.bytes
  BY <1>5, AdjustedSound, Follows
<1> QED
  BY <1>2, <1>3, <1>4, <1>5, <1>6, <1>7

LEMMA CutLeavesOut ==
  ASSUME NEW d, Sound(d), Addressable(d), OnGrid(d, d.pos), OnGrid(d, d.sel),
         HasSelection(d)
  PROVE  LeavesOut(CutSelection(d).bytes, d.bytes, Highlighted(d))
<1> DEFINE p == Offset(d, SelectionStart(d))
           q == Offset(d, SelectionEnd(d))
           L == Len(d.bytes)
           len == SelectionLength(d)
           n == Least(len, L - p)
<1>1. d.bytes \in Seq(Byte) /\ L \in Nat
  BY SoundFields
<1>2. p \in Nat /\ q \in Nat /\ p <= q
  BY SelectionOrdered, OffsetIs
<1>3. len \in Nat /\ len = q - p + 1
  BY <1>2 DEF SelectionLength
<1>4. CutSelection(d).bytes = RemoveAt(d.bytes, p, len)
  BY CutBytes
<1>5. \A x : x \in Highlighted(d) <=> x \in Nat /\ x < L /\ p <= x /\ x <= q
  BY HighlightIs
<1> HIDE DEF p, q, len
<1>6. CASE p >= L
  <2>1. RemoveAt(d.bytes, p, len) = d.bytes
    BY <1>6 DEF RemoveAt
  <2>2. Highlighted(d) = {}
    BY <1>1, <1>2, <1>5, <1>6
  <2> QED
    BY <1>1, <1>4, <2>1, <2>2, NothingLeavesOut
<1>7. CASE p < L
  <2>1. n \in Nat /\ p + n <= L /\ p + n - 1 = Least(q, L - 1)
    BY <1>1, <1>2, <1>3, <1>7 DEF Least
  <2>2. IsSpliced(RemoveAt(d.bytes, p, len), d.bytes, p, n, <<>>)
    <3>1. len > 0
      BY <1>2, <1>3
    <3> QED
      BY <1>1, <1>2, <1>3, <1>7, <2>1, <3>1, RemoveIs
  <2>3. LeavesOut(RemoveAt(d.bytes, p, len), d.bytes, p .. p + n - 1)
    <3> HIDE DEF n
    <3> QED
      BY <1>1, <1>2, <2>1, <2>2, SpliceLeavesOut
  <2>4. \A x : x \in Highlighted(d) <=> x \in p .. Least(q, L - 1)
    BY <1>1, <1>2, <1>5 DEF Least
  <2>5. Highlighted(d) = p .. p + n - 1
    BY <2>1, <2>4
  <2> QED
    BY <1>4, <2>3, <2>5
<1> QED
  BY <1>1, <1>2, <1>6, <1>7

(***************************************************************************)
(* Cut, paste, delete and typing take out exactly the highlighted bytes,   *)
(* for any document a line number times the line width can address, any    *)
(* width and any two positions on its lines: IsLineSelected and the        *)
(* columns of applySelection against the offset and the length that        *)
(* RemoveSelection works out.                                              *)
(***************************************************************************)
THEOREM CutTakesWhatShows == Spec => [](Addressable(doc) => CutTakesHighlighted)
<1>1. DocumentSound => (Addressable(doc) => CutTakesHighlighted)
  BY CutLeavesOut DEF DocumentSound, CutTakesHighlighted
<1> QED
  BY <1>1, StaysSound, PTL

-----------------------------------------------------------------------------
(* What the cursor shows: a step that moves it ends by following it *)

\* A step leaves the cursor where it was, or ends by following it.
Lands(d, e) == e.pos = d.pos \/ \E c : e = Followed(c)

LEMMA PutLands ==
  ASSUME NEW d, NEW e, NEW select, NEW line, NEW column, NEW nibble
  PROVE  /\ Lands(d, Moved(e, line, column, nibble))
         /\ Lands(d, Extended(e, line, column, nibble))
         /\ Lands(d, Put(e, select, line, column, nibble))
<1>1. /\ Lands(d, Moved(e, line, column, nibble))
      /\ Lands(d, Extended(e, line, column, nibble))
  BY Zenon DEF Lands, Moved, Extended
<1> QED
  BY <1>1, Zenon DEF Put

LEMMA StepLands ==
  ASSUME NEW d, NEW e, Lands(d, e), NEW select
  PROVE  Lands(d, MovedNext(e, select)) /\ Lands(d, MovedPrevious(e, select))
<1>1. \A line, column, nibble : Lands(d, Put(e, select, line, column, nibble))
  BY PutLands
<1>2. Lands(d, MovedNext(e, select))
  <2> DEFINE p == e.pos
             hex == e.area = "hex"
             nibble == IF hex THEN (p.nibble + 1) % 2 ELSE 1
             column == IF hex /\ nibble = 0 THEN p.column ELSE p.column + 1
             next == Least(LastLine(e), (p.line + 1) % WORD)
  <2>1. \/ MovedNext(e, select) = e
        \/ MovedNext(e, select) = Put(e, select, next, 0, 1)
        \/ MovedNext(e, select) = Put(e, select, p.line, column, nibble)
    BY Zenon DEF MovedNext
  <2> HIDE DEF p, hex, nibble, column, next
  <2> QED
    BY <1>1, <2>1, Zenon
<1>3. Lands(d, MovedPrevious(e, select))
  <2> DEFINE p == e.pos
             hex == e.area = "hex"
             nibble == IF ~hex THEN 1 ELSE IF p.nibble = 0 THEN -1 ELSE 0
             column == IF hex /\ nibble # 0 THEN p.column ELSE p.column - 1
             line == (p.line - 1) % WORD
  <2>1. \/ MovedPrevious(e, select) = e
        \/ MovedPrevious(e, select) = Put(e, select, line, e.width - 1, 0)
        \/ MovedPrevious(e, select) = Put(e, select, p.line, column, nibble)
    BY Zenon DEF MovedPrevious
  <2> HIDE DEF p, hex, nibble, column, line
  <2> QED
    BY <1>1, <2>1, Zenon
<1> QED
  BY <1>2, <1>3

LEMMA ProcessMoveLands ==
  ASSUME NEW d, NEW key \in MoveKeys, NEW select
  PROVE  Lands(d, ProcessMove(d, key, select))
<1>0. Lands(d, d)
  BY DEF Lands
<1>1. \A line, column, nibble : Lands(d, Put(d, select, line, column, nibble))
  BY PutLands
<1>2. Lands(d, MovedNext(d, select)) /\ Lands(d, MovedPrevious(d, select))
  BY <1>0, StepLands
<1>3. /\ Lands(d, MovedLineDown(d, select)) /\ Lands(d, MovedLineUp(d, select))
      /\ Lands(d, MovedPageDown(d, select)) /\ Lands(d, MovedPageUp(d, select))
  BY <1>0, <1>1, Zenon DEF MovedLineDown, MovedLineUp, MovedPageDown, MovedPageUp
<1>4. /\ Lands(d, MovedToStart(d, select)) /\ Lands(d, MovedToEnd(d, select))
      /\ Lands(d, MovedToLineStart(d, select)) /\ Lands(d, MovedToLineEnd(d, select))
  BY <1>0, <1>1, Zenon DEF MovedToStart, MovedToEnd, MovedToLineStart, MovedToLineEnd
<1> QED
  BY <1>2, <1>3, <1>4 DEF ProcessMove, MoveKeys

\* Commands of the undo stack and the scroll bar leave the cursor alone.
LEMMA PosKept ==
  ASSUME NEW d, Sound(d)
  PROVE  /\ Adjusted(d).pos = d.pos /\ UndoOne(d).pos = d.pos /\ RedoOne(d).pos = d.pos
         /\ SwitchedMode(d).pos = d.pos
         /\ \A n : Scrolled(d, n).pos = d.pos
         /\ \A c : Push(d, c).pos = d.pos
<1>1. Fields \subseteq DOMAIN d
  BY SoundFields
<1>2. Adjusted(d).pos = d.pos
  BY <1>1 DEF Adjusted, Scrolled, Fields
<1>3. UndoOne(d).pos = d.pos
  BY <1>1 DEF UndoOne, Fields
<1>4. RedoOne(d).pos = d.pos
  BY <1>1 DEF RedoOne, Fields
<1>5. SwitchedMode(d).pos = d.pos /\ \A n : Scrolled(d, n).pos = d.pos
  BY <1>1 DEF SwitchedMode, Scrolled, Fields
<1>6. ASSUME NEW c PROVE Push(d, c).pos = d.pos
  BY <1>1 DEF Push, Fields
<1> QED
  BY <1>2, <1>3, <1>4, <1>5, <1>6

LEMMA CutPos ==
  ASSUME NEW d, Sound(d)
  PROVE  CutSelection(d).pos = d.pos
<1> DEFINE c == Removal(Offset(d, SelectionStart(d)), SelectionLength(d))
           e == Push(d, c)
           f == SelectionCleared(e)
           g == Adjusted(f)
<1>1. c \in Command
  BY SelectionTyped, Bytes DEF Removal, Command
<1> HIDE DEF c
<1>2. Sound(e) /\ e.pos = d.pos
  BY <1>1, PushSound, PosKept
<1> HIDE DEF e
<1>3. Sound(f) /\ f.pos = e.pos
  <2>1. Placed(e.pos) /\ Fields \subseteq DOMAIN e
    BY <1>2, SoundFields
  <2>2. Sound(f)
    BY <1>2, <2>1, CursorSound
  <2>3. f.pos = e.pos
    BY <2>1 DEF SelectionCleared, Fields
  <2> QED
    BY <2>2, <2>3
<1> HIDE DEF f
<1>4. Followed(g).pos = d.pos
  BY <1>2, <1>3, AdjustedSound, PosKept, Follows
<1>5. CutSelection(d) = IF ~HasSelection(d) THEN d ELSE Followed(g)
  BY Zenon DEF CutSelection, RemovedSelection, Removed, c, e, f, g
<1> HIDE DEF g
<1> QED
  BY <1>4, <1>5

\* An edit and the adjustment of the scroll bar.
LEMMA EditPos ==
  ASSUME NEW d, Sound(d), NEW pos \in Int, NEW data \in Seq(Byte)
  PROVE  /\ Adjusted(Inserted(d, pos, data)).pos = d.pos
         /\ Adjusted(Replaced(d, pos, data)).pos = d.pos
<1>1. Sound(Inserted(d, pos, data)) /\ Sound(Replaced(d, pos, data))
  BY EditSound
<1>2. Inserted(d, pos, data).pos = d.pos /\ Replaced(d, pos, data).pos = d.pos
  BY PosKept DEF Inserted, Replaced
<1> QED
  BY <1>1, <1>2, PosKept

LEMMA RemovedPos ==
  ASSUME NEW d, Sound(d), NEW pos \in Int, NEW len \in Int
  PROVE  Adjusted(Removed(d, pos, len)).pos = d.pos
<1>1. Sound(Removed(d, pos, len))
  BY RemovedSound
<1>2. Removed(d, pos, len).pos = d.pos
  BY PosKept DEF Removed
<1> QED
  BY <1>1, <1>2, PosKept

LEMMA ErasedLands ==
  ASSUME NEW d, Sound(d), NEW key
  PROVE  Lands(d, Erased(d, key))
<1> DEFINE pos == Offset(d, d.pos)
           start == SelectionStart(d)
           at == IF key = "backspace" THEN pos - 1 ELSE pos
           e == IF HasSelection(d)
                THEN Moved(CutSelection(d), start.line, start.column + 1, 1)
                ELSE Adjusted(Removed(d, at, 1))
           back == IF e.area = "hex" THEN MovedPrevious(e, FALSE) ELSE e
<1>1. at \in Int
  BY SelectionTyped
<1> HIDE DEF at
<1>2. Adjusted(Removed(d, at, 1)).pos = d.pos
  BY <1>1, RemovedPos
<1>3. Lands(d, e)
  BY <1>2, PutLands DEF Lands
<1> HIDE DEF e
<1>4. Lands(d, back)
  BY <1>3, StepLands
<1> HIDE DEF back
<1>5. Lands(d, MovedPrevious(back, FALSE))
  BY <1>4, StepLands
<1>6. Lands(d, d)
  BY DEF Lands
<1> QED
  BY <1>3, <1>5, <1>6, Zenon DEF Erased, back, e, at

LEMMA TypedLands ==
  ASSUME NEW d, Sound(d), NEW pos \in Int, NEW data \in Seq(Byte)
  PROVE  /\ Lands(d, MovedNext(Adjusted(Inserted(d, pos, data)), FALSE))
         /\ Lands(d, MovedNext(Adjusted(Replaced(d, pos, data)), FALSE))
<1>1. /\ Lands(d, Adjusted(Inserted(d, pos, data)))
      /\ Lands(d, Adjusted(Replaced(d, pos, data)))
  BY EditPos DEF Lands
<1> QED
  BY <1>1, StepLands

LEMMA TypedDigitLands ==
  ASSUME NEW d, Sound(d), NEW digit \in 0 .. 15
  PROVE  Lands(d, TypedDigit(d, digit))
<1> DEFINE e == CutSelection(d)
           pos == Offset(e, e.pos)
           ch == ByteAt(e, pos)
           new == IF e.pos.nibble # 0 THEN <<digit, ch[2]>> ELSE <<ch[1], digit>>
<1>1. Sound(e) /\ e.pos = d.pos
  BY CutSound, CutPos
<1> HIDE DEF e
<1>2. pos \in Int /\ e.bytes \in Seq(Byte)
  BY <1>1, SelectionTyped, SoundFields
<1> HIDE DEF pos
<1>3. ch \in Byte
  BY <1>2, Bytes DEF ByteAt
<1> HIDE DEF ch
<1>4. new \in Byte /\ <<digit, 0>> \in Byte
  <2>1. ch[1] \in 0 .. 15 /\ ch[2] \in 0 .. 15 /\ 0 \in 0 .. 15
    BY <1>3, Bytes
  <2>2. <<digit, ch[2]>> \in Byte /\ <<ch[1], digit>> \in Byte /\ <<digit, 0>> \in Byte
    BY <2>1, Bytes
  <2> QED
    BY <2>2
<1> HIDE DEF new
<1>5. <<new>> \in Seq(Byte) /\ <<<<digit, 0>>>> \in Seq(Byte)
  BY <1>4, Bytes
<1>6. /\ Lands(e, MovedNext(Adjusted(Inserted(e, pos, <<<<digit, 0>>>>)), FALSE))
      /\ Lands(e, MovedNext(Adjusted(Replaced(e, pos, <<new>>)), FALSE))
  BY <1>1, <1>2, <1>5, TypedLands
<1>7. Lands(e, TypedDigit(d, digit))
  BY <1>6, Zenon DEF TypedDigit, e, pos, ch, new
<1> QED
  BY <1>1, <1>7 DEF Lands

LEMMA TypedKeyLands ==
  ASSUME NEW d, Sound(d), NEW char \in Byte
  PROVE  Lands(d, TypedKey(d, char))
<1> DEFINE e == CutSelection(d)
           pos == Offset(e, e.pos)
<1>1. Sound(e) /\ e.pos = d.pos
  BY CutSound, CutPos
<1> HIDE DEF e
<1>2. pos \in Int /\ <<char>> \in Seq(Byte)
  BY <1>1, SelectionTyped, Bytes
<1> HIDE DEF pos
<1>3. /\ Lands(e, MovedNext(Adjusted(Inserted(e, pos, <<char>>)), FALSE))
      /\ Lands(e, MovedNext(Adjusted(Replaced(e, pos, <<char>>)), FALSE))
  BY <1>1, <1>2, TypedLands
<1>4. Lands(e, TypedKey(d, char))
  <2> DEFINE new == IF ~AtEnd(e) /\ e.mode = "overwrite"
                    THEN Replaced(e, pos, <<char>>) ELSE Inserted(e, pos, <<char>>)
  <2>1. Lands(e, MovedNext(Adjusted(new), FALSE))
    BY <1>3
  <2> QED
    BY <2>1, Zenon DEF TypedKey, e, pos
<1> QED
  BY <1>1, <1>4 DEF Lands

LEMMA PastedPos ==
  ASSUME NEW d, Sound(d), NEW data \in Seq(Byte)
  PROVE  Pasted(d, data).pos = d.pos
<1> DEFINE e == CutSelection(d)
           pos == Offset(e, e.pos)
<1>1. Sound(e) /\ e.pos = d.pos
  BY CutSound, CutPos
<1> HIDE DEF e
<1>2. pos \in Int
  BY <1>1, SelectionTyped
<1> HIDE DEF pos
<1>3. /\ Adjusted(Inserted(e, pos, data)).pos = e.pos
      /\ Adjusted(Replaced(e, pos, data)).pos = e.pos
  BY <1>1, <1>2, EditPos
<1> QED
  BY <1>1, <1>3 DEF Pasted, e, pos

\* Every handler but setDocument.
LEMMA HandlersLand == ASSUME Sound(doc), Handlers PROVE Lands(doc, doc')
<1>0. doc' = doc => Lands(doc, doc')
  BY DEF Lands
<1>1. CASE \/ \E range \in TreeRanges : TreeItemClicked(range)
           \/ \E area \in {"hex", "ascii"}, row \in Rows, column \in 0 .. doc.width - 1,
                 half \in {0, 1} : MousePress(area, row, column, half)
           \/ \E row \in Rows, column \in 0 .. doc.width - 1 : MouseMove(row, column)
  <2>1. ASSUME NEW range \in TreeRanges, TreeItemClicked(range) PROVE Lands(doc, doc')
    BY <2>1, PutLands, Zenon DEF TreeItemClicked
  <2>2. ASSUME NEW area, NEW row, NEW column, NEW half, MousePress(area, row, column, half)
        PROVE  Lands(doc, doc')
    BY <2>2, PutLands, Zenon DEF MousePress
  <2>3. ASSUME NEW row, NEW column, MouseMove(row, column) PROVE Lands(doc, doc')
    BY <2>3, PutLands, Zenon DEF MouseMove
  <2> QED
    BY <1>1, <2>1, <2>2, <2>3, Zenon
<1>2. CASE \E key \in MoveKeys, select \in BOOLEAN : Move(key, select)
  BY <1>2, ProcessMoveLands DEF Move
<1>3. CASE SelectAll
  BY <1>3, PutLands, Zenon DEF SelectAll, Edit, SelectedAll
<1>4. CASE Undo \/ Redo \/ Cut \/ SwitchMode \/ ClearAll
  BY <1>4, PosKept, CutPos, UndoSound, RedoSound
     DEF Undo, Redo, Cut, SwitchMode, ClearAll, Edit, Lands
<1>5. CASE \E data \in Clips : Paste(data)
  BY <1>5, PastedPos, BytesAssumption DEF Paste, Edit, Lands
<1>6. CASE \E key \in {"backspace", "delete"} : Erase(key)
  BY <1>6, ErasedLands DEF Erase, Edit
<1>7. CASE \/ \E digit \in Digits : TypeDigit(digit)
           \/ \E char \in Keys : TypeKey(char)
  BY <1>7, TypedDigitLands, TypedKeyLands, BytesAssumption DEF TypeDigit, TypeKey, Edit
<1>8. CASE \E value \in 0 .. doc.max : Scroll(value)
  BY <1>8, PosKept DEF Scroll, Lands
<1>9. CASE \E pattern \in Patterns, forward \in BOOLEAN : Search(pattern, forward)
  <2>1. PICK pattern \in Patterns, forward \in BOOLEAN : Search(pattern, forward)
    BY <1>9
  <2>2. \A offset, len : Lands(doc, SelectedFound(doc, offset, len))
    BY PutLands, Zenon DEF SelectedFound
  <2> QED
    BY <1>0, <2>1, <2>2, Zenon DEF Search
<1>10. CASE \E width \in Widths : SetHexLineWidth(width)
  BY <1>10, SoundFields DEF SetHexLineWidth, WithWidth, Lands, Fields
<1>11. CASE \/ \E range \in Ranges : Comment(range)
            \/ \E line \in {p.line : p \in meta.lines} : ClearLine(line)
  BY <1>0, <1>11 DEF Comment, ClearLine
<1> QED
  BY <1>1, <1>2, <1>3, <1>4, <1>5, <1>6, <1>7, <1>8, <1>9, <1>10, <1>11, Zenon DEF Handlers

\* moveToSelection brings the line into view: half a page above it at most, and
\* never past what the scroll bar allows.
LEMMA FollowedShows ==
  ASSUME NEW c, NEW e, e = Followed(c), Sound(e), Addressable(e), OnLine(e, e.pos),
         e.max = Adjusted(e).max
  PROVE  IsLineVisible(e, e.pos.line)
<1> DEFINE line == e.pos.line
           lines == DocumentLines(e)
           seen == VisibleLines(e)
           half == seen \div 2
<1>1. /\ e.width \in Nat \ {0} /\ Len(e.bytes) \in Nat /\ Fields \subseteq DOMAIN e
      /\ Len(e.bytes) < WORD \div 2 /\ WORD \in Nat /\ WORD > 0 /\ WORD % 2 = 0
  BY SoundFields, WordAssumption DEF Addressable
<1>2. lines \in Nat /\ lines >= 1 /\ lines <= Len(e.bytes) + 1
  <2> DEFINE L == Len(e.bytes)
             w == e.width
             r == L \div w
  <2> HIDE DEF L, w
  <2>1. L \in Nat /\ w \in Nat \ {0}
    BY <1>1 DEF L, w
  <2>2. r \in Nat /\ L % w \in 0 .. w - 1 /\ L % w = L - w * r
    BY <2>1, Quotient
  <2> HIDE DEF r
  <2>3. w * r \in Nat /\ w * r >= r
    BY <2>1, <2>2
  <2>4. r <= L
    BY <2>1, <2>2, <2>3
  <2> QED
    BY <2>1, <2>2, <2>4 DEF DocumentLines, r, L, w
<1>3. seen \in Nat /\ seen >= 1 /\ seen <= lines /\ (lines > seen \/ lines = seen)
  BY <1>2, ViewAssumption DEF VisibleLines, Least
<1>4. line \in Nat /\ line <= lines - 1
  BY <1>2 DEF OnLine, LastLine
<1>5. e.max = IF lines > seen THEN lines - seen + 1 ELSE lines
  BY <1>1 DEF Adjusted, Scrolled, Fields
<1>6. CASE IsLineVisible(c, c.pos.line)
  BY <1>6 DEF Followed
<1>7. CASE ~IsLineVisible(c, c.pos.line)
  <2>1. e = Scrolled(c, Signed(c.pos.line - VisibleLines(c) \div 2))
    BY <1>7 DEF Followed
  <2>2. /\ DOMAIN c = DOMAIN e /\ c.pos = e.pos /\ c.bytes = e.bytes /\ c.width = e.width
        /\ c.max = e.max
    <3> DEFINE n == Most(0, Least(Signed(c.pos.line - VisibleLines(c) \div 2), c.max))
    <3>1. e = [c EXCEPT !.top = n]
      BY <2>1 DEF Scrolled
    <3> HIDE DEF n
    <3> QED
      BY <1>1, <3>1 DEF Fields
  <2>3. VisibleLines(c) = seen
    BY <2>2 DEF VisibleLines, DocumentLines
  <2>4. e.top = Most(0, Least(Signed(line - half), e.max))
    BY <1>1, <2>1, <2>2, <2>3 DEF Scrolled, Fields
  <2> HIDE DEF line, lines, seen
  <2>5. half \in Nat /\ half <= seen - 1 /\ half >= 0
    BY <1>3
  <2> HIDE DEF half
  <2>6. Signed(line - half) = line - half
    <3> DEFINE x == line - half
               m == WORD \div 2
    <3>1. m \in Nat /\ WORD = m + m
      BY <1>1
    <3>2. x \in Int /\ x < m /\ -x <= m
      BY <1>1, <1>2, <1>3, <1>4, <2>5, <3>1
    <3> HIDE DEF x
    <3>3. ASSUME x >= 0 PROVE Signed(x) = x
      <4>1. x % WORD = x
        BY <1>1, <3>1, <3>2, <3>3
      <4> QED
        BY <3>2, <4>1 DEF Signed
    <3>4. ASSUME x < 0 PROVE Signed(x) = x
      <4>1. x % WORD = x + WORD
        BY <1>1, <3>1, <3>2, <3>4
      <4>2. ~(x + WORD < m) /\ (x + WORD) - WORD = x
        BY <3>1, <3>2
      <4> QED
        BY <4>1, <4>2 DEF Signed
    <3>5. Signed(x) = x
      BY <3>2, <3>3, <3>4
    <3> QED
      BY <3>5 DEF x
  <2>7. e.top = Most(0, Least(line - half, e.max))
    BY <2>4, <2>6
  <2>8. e.top <= line /\ line <= e.top + seen - 1
    BY <1>2, <1>3, <1>4, <1>5, <2>5, <2>7 DEF Most, Least
  <2> QED
    BY <2>8 DEF IsLineVisible, line, seen
<1> QED
  BY <1>6, <1>7

DocumentFits == Addressable(doc)

(***************************************************************************)
(* moveToSelection on every handler's positionChanged: a cursor that moved *)
(* to a line of the document is scrolled into view, for any document a     *)
(* line number times the line width can address, any width and any height  *)
(* of the view.                                                            *)
(***************************************************************************)
THEOREM CursorComesIntoView == Spec /\ []DocumentFits => CursorShown
<1>1. Spec => []DocumentSound
  BY StaysSound
<1>2. ASSUME DocumentSound, DocumentSound', DocumentFits', [Next]_vars,
             doc'.pos # doc.pos, steps' # 0, OnLine(doc', doc'.pos),
             doc'.max = Adjusted(doc').max
      PROVE  IsLineVisible(doc', doc'.pos.line)
  <2>1. Handlers
    BY <1>2 DEF Next, vars
  <2>2. Lands(doc, doc')
    BY <1>2, <2>1, HandlersLand DEF DocumentSound
  <2>3. PICK c : doc' = Followed(c)
    BY <1>2, <2>2 DEF Lands
  <2> QED
    BY <1>2, <2>3, FollowedShows DEF DocumentSound, DocumentFits
<1>3. DocumentSound /\ DocumentSound' /\ DocumentFits' /\ [Next]_vars
        => [/\ doc'.pos # doc.pos
            /\ steps' # 0
            /\ OnLine(doc', doc'.pos)
            /\ doc'.max = Adjusted(doc').max
            => IsLineVisible(doc', doc'.pos.line)]_vars
  BY <1>2
<1> QED
  BY <1>1, <1>3, PTL DEF Spec, CursorShown

=============================================================================
