SPECIFICATION Spec
CONSTANTS
  Instants <- MCInstants
CHECK_DEADLOCK FALSE
INVARIANTS
  TypeOK
  ClockKept
  HeadersAgree
  OrderKept
  ClocksAgree
