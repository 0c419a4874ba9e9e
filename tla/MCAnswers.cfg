CONSTANTS
  ann = ann
  dee = dee
  b = b
  p = p
  o = o
  event = event
  gone = gone
  x = x
  Nothing = Nothing
  Denied = Denied
  Turns <- MCTurns
  SenderOf <- MCSenderOf
  ScopeOf <- MCScopeOf
  Types <- MCTypes
  Phrases <- MCPhrases
  NormalOf <- MCNormalOf
  Labels <- MCLabels
  Items = {x}
  Worlds <- MCWorlds
  Desks <- MCDesks
SPECIFICATION AnswersSpec
INVARIANTS
  ToldTrue
  Entitled
  FreshForCurrent
CHECK_DEADLOCK FALSE
