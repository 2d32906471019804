--------------------------- MODULE MCSplitRefsLost ---------------------------
(* Documents of headings, texts and footnotes, over the budget together: a  *)
(* heading or a text may refer to the element after it.                     *)
EXTENDS DocumentSplit

RenderedUnit(n, refs) == [raw |-> n, size |-> n, refs |-> refs]

HeadingShape(refs) == [level |-> 1, header |-> 0, units |-> <<RenderedUnit(1, refs)>>, stops |-> {}]

TextShape(n, refs) ==
  [level |-> 0, header |-> 0, units |-> <<RenderedUnit(n, refs)>>, stops |-> {n}]

SplitShapes ==
  {HeadingShape(<<>>), HeadingShape(<<<<0, 1>>>>), TextShape(2, <<>>), TextShape(2, <<<<0, 1>>>>)}

SplitSpec == SplitInit /\ [][SplitNext]_splitVars
=============================================================================
