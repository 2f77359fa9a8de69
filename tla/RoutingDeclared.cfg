\* A triangle: a ping that returns to its origin overwrites the declarations.
CONSTANTS
  a = a  b = b  c = c  gui = gui  file = file
  Nodes <- Three
  Services = {gui, file}
  Starred = {file}
  NoHops = 6
  FirstSessions = {1}
  Wires <- Triangle
  SessionLimit <- OneOrigin
  WakeLimit <- OneDeclares
  Crashable = {}
  Failing = {}
  Prompt = TRUE
SPECIFICATION Spec
INVARIANT DeclaredKept
CHECK_DEADLOCK FALSE
