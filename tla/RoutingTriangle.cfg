\* A triangle with one origin: links come and go, pings are lost and overtake
\* each other, entries age.  The system stops when the sessions run out.
CONSTANTS
  a = a  b = b  c = c  gui = gui  file = file
  Nodes <- Three
  Services = {file}
  Starred = {file}
  NoHops = 6
  FirstSessions = {1}
  Wires <- Triangle
  SessionLimit <- OneOrigin
  WakeLimit <- OneDeclares
  Crashable = {}
  Failing <- FarSide
  Prompt = TRUE
SPECIFICATION Spec
INVARIANTS TypeOK LoopFree SessionsAgree FloodDiesOut
CHECK_DEADLOCK FALSE
