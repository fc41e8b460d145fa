\* enc.c: the envelope is signed over the data read, in order, and main exits.
CONSTANTS
  c1 = c1
  c2 = c2
  c3 = c3
  Garbage = Garbage
  Args <- MCArgs
  Inputs <- MCInputs
  LibMayFail = TRUE
SPECIFICATION Spec
\* main() ends with exit(0) or exit(1).
CHECK_DEADLOCK FALSE
INVARIANTS TypeOK SignsAllData ExitZeroOnlyAfterSign
PROPERTY Exits
