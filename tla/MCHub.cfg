CONSTANTS
  MaxConn = 3
  Program <- MCProgram
  Logger <- MCLogger
  Visitor <- MCVisitor
  Overlap = FALSE
  MaxMessages = 1
SPECIFICATION Spec
INVARIANTS TypeOK NamesUnique RegistryExact ListsAgree Signed
PROPERTY Forgotten
CHECK_DEADLOCK FALSE
