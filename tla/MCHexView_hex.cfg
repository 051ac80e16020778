\* Three lines where two are visible; at most five handlers a document.
SPECIFICATION Spec
CONSTANTS
  WORD = 64
  DefaultWidth = 2
  HEIGHT = 2
  Packets <- OnePacket
  Clips <- OneClip
  Keys <- OneKey
  Digits <- OneDigit
  Patterns <- OnePattern
  Ranges <- TwoRanges
  Widths <- TwoWidths
  TreeRanges <- Header
  MaxSteps = 5
INVARIANTS UndoRestores CutTakesHighlighted CommentsFollowItems
PROPERTIES LostOnlyByWrap CursorShown
