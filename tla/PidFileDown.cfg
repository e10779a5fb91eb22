\* A stop right after a start; no crash, no error.
SPECIFICATION Spec
CONSTANTS
  p1 = p1  p2 = p2  p3 = p3  c1 = c1  c2 = c2  c3 = c3
  Parent = {p1}  Child = {c1}  child <- MCChild
  Stopper = {s1}  None = none
  MaxInode = 3  Faults = FALSE
CHECK_DEADLOCK FALSE
PROPERTY DownStaysDown
