\* What a node may do from its start to its end.
SPECIFICATION MCSpec
CONSTANTS
  launcher = launcher
  mandelbrot = mandelbrot
  services = services
  Apps = {launcher, services, mandelbrot}
  Launcher = launcher
  Offers = {services}
  Cancellers = {mandelbrot}
  Service = service
  Delays = {1, 2}
  MaxTime = 3
  AskLimit <- MCAskLimit
  Never = Never
  Client = client
  Server = server
  Conns = {c1}
  MaxDials = 1
  NoConn = NoConn
  MaxPlugs = 3
INVARIANTS TypeOK RequestsKept NothingLeftBehind
PROPERTIES NodeEnds LinksFollow
CHECK_DEADLOCK FALSE
