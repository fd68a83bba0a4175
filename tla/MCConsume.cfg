SPECIFICATION Spec
CONSTANTS
    s = s  app1 = app1
INVARIANTS  NeverParallel
PROPERTY BeginInOrder
\* Every bound is used up.
CHECK_DEADLOCK FALSE
