SPECIFICATION MCFairSpec
CONSTANTS
  Requests = {1, 2, 3}
  MaxGenerations = 2
  R = R
  E = E
  F = F
  ta = ta
  tb = tb
  tc = tc
  None = None
  rootNode = rootNode
  leaf = leaf
  e1 = e1
  e2 = e2
  s1 = s1
  s2 = s2
  s3 = s3
  c1 = c1
  c2 = c2
  x = x
  y = y
  z = z
INVARIANT LoadCounted
INVARIANT StateAgrees
INVARIANT ScriptsInOrder
INVARIANT CalledRight
INVARIANT AnswersRight
PROPERTY StepsRight
PROPERTY EverythingEnds
CHECK_DEADLOCK FALSE
