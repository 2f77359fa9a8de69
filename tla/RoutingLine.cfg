\* A line whose end declares, floods and may stop: what must happen in the
\* end, where no ping can come back to its origin.
CONSTANTS
  a = a  b = b  c = c  gui = gui  file = file
  Nodes <- Three
  Services = {file}
  Starred = {file}
  NoHops = 6
  FirstSessions = {0}
  Wires <- Line
  SessionLimit <- LastSession
  WakeLimit <- OneDeclares
  Crashable = {a}
  Failing = {}
  Prompt = TRUE
SPECIFICATION FairSpec
INVARIANT OwnServicesKept
PROPERTIES FloodReaches StoppedVanish
CHECK_DEADLOCK FALSE
