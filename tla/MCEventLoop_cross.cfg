CONSTANTS
  l1 = l1
  l2 = l2
  p1 = p1
  p2 = p2
  hop = hop
  land = land
  nest = nest
  back = back
  rest = rest
  NoTask = NoTask
  NoThread = NoThread
  Loops = {l1, l2}
  Posters = {p1, p2}
  Tasks = {hop, land, nest, back, rest}
  Target <- MCTarget
  Then <- MCThen
  Script <- ScriptBothWays
  Quitters = {}
  PipeCap = 1
SPECIFICATION Spec
CHECK_DEADLOCK FALSE
PROPERTIES
  HandedFunctionRuns
