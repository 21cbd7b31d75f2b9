SPECIFICATION Spec
CONSTANTS
  p1 = p1 p2 = p2 None = None
  Peer = {p1, p2}
  Stable = {p1}
  Batches = 1
  Size = 2
  Unlimited = {}
  NumRetries = 2
  WorstScore = 2
  Reconnect = FALSE
  Workers = 2
INVARIANTS OneAnswer OkMeansAnswered NoQueryLost SlotsAgree
PROPERTY BatchAnswered
CHECK_DEADLOCK FALSE
