CONSTANTS
  MaxConn = 2
  Program <- MCProgram
  Logger <- MCLogger
  Visitor <- MCVisitor
  Overlap = TRUE
  MaxMessages = 2
SPECIFICATION Spec
PROPERTY RefusalSettled
CHECK_DEADLOCK FALSE
