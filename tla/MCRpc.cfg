CONSTANTS
  k1 = k1
  m1 = m1
  m2 = m2
  Caller <- MCCaller
  Callee <- MCCallee
  Late <- MCLate
  getName <- MCgetName
  MaxOverlaps = 1
  MaxCalls = 2
SPECIFICATION Spec
INVARIANTS TypeOK AllHaveAnswered
PROPERTY CallReturns
CHECK_DEADLOCK FALSE
