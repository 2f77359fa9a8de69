SPECIFICATION MCSpec
CONSTANTS
  main = main
  tool = tool
  title = title
  button = button
  Screen = Screen
  NoView = NoView
  Windows = {main, tool}
  Controls = {title, button}
  Ghosts = {g1, g2, g3}
  Border <- MCBorder
  Shadow <- MCShadow
  Coloured = {main, tool, button}
  Titles = {title}
  Buttons = {button}
  Launcher = main
  LauncherBox <- MCLauncherBox
  Positions = {"center"}
  PrefSize <- MCPrefSize
  Held <- MCHeld
  ScreenBox <- MCScreenBox
  Sizes <- MCSizes
  Points <- MCPoints
  Cuts <- MCCuts
  MaxInputs = 3
  MaxMends = 2
INVARIANTS TypeOK Painted NothingStuck DragFollows RegionsExact
PROPERTIES PressHitsWhatShows
CHECK_DEADLOCK FALSE
