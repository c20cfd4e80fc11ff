CONSTANTS
  MaxConn = 3
  Program <- MCProgram
  Logger <- MCLogger
  Visitor <- MCVisitor
  Overlap = TRUE
  MaxMessages = 1
SPECIFICATION Spec
INVARIANT Signed
CHECK_DEADLOCK FALSE
