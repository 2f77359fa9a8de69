\* Two transfers to the same service at the same time, with the one name that
\* in_temp_file returns unless a subclass overrides it.
CONSTANTS
  s = s  t = t  u = u  x = x  y = y  w = w  None = None
  Services = {s, t}
  Transfers = {x, y}
  By <- Either
  To <- ToOne
  Of <- OfOther
  Chunks <- OneEach
  Window = 2
  Longest = 1
  Temp <- OneTemp
  Unlucky = {}
SPECIFICATION Spec
INVARIANT OkMeansWhole
CHECK_DEADLOCK FALSE
