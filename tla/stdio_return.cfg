CONSTANTS
  Proc = {p1, p2}
  Root = p1
  BUF_SIZE = 2
  PRINTF_BUF = 2
  MaxToken = 3
  MaxFault = 1
SPECIFICATION Spec
INVARIANTS
  EndedProgramsHaveShownTheirOutput
CHECK_DEADLOCK FALSE
