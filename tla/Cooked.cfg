SPECIFICATION FairSpec
CONSTANTS
  p1 = p1
  p2 = p2
  a = a
  b = b
  c0 = c0
  c1 = c1
  Pipes = {p1, p2}
  Threads = {a, b}
  Ctxs = {c0, c1}
  Master = c0
  Scenarios <- All
  NoMsg = NoMsg
  None = None
CHECK_DEADLOCK FALSE
INVARIANTS
    RepliesMatch
    OneAnswer
    SurveyOpen
    
PROPERTIES
    NoStaleTopic
    SurveyReturns
    Releases
