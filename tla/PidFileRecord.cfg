\* Two starts, a stop, crashes and failing writes.
SPECIFICATION Spec
CONSTANTS
  p1 = p1  p2 = p2  p3 = p3  c1 = c1  c2 = c2  c3 = c3
  Parent = {p1, p2}  Child = {c1, c2}  child <- MCChild
  Stopper = {s1}  None = none
  MaxInode = 5  Faults = TRUE
CHECK_DEADLOCK FALSE
INVARIANTS
  TypeOK
  RecordsItsDaemon
