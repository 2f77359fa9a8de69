\* Two transfers whose source is the destination, one of them for a file that does
\* not exist, and one that goes elsewhere and is out of luck.  Each has a temporary
\* file of its own.
CONSTANTS
  s = s  t = t  u = u  x = x  y = y  w = w  None = None
  Services = {s, t, u}
  Transfers = {x, y, w}
  By <- Asker
  To <- ToBoth
  Of <- OfOne
  Chunks <- Various
  Window = 2
  Longest = 5
  Temp <- OwnTemp
  Unlucky = {x}
SPECIFICATION FairSpec
INVARIANTS TypeOK OkMeansWhole WithinTwoWindows
PROPERTIES ThreadsFreed Succeeds
CHECK_DEADLOCK FALSE
