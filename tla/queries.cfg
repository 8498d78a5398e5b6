CONSTANTS
  t1 = t1
  t2 = t2
  t3 = t3
  s1 = s1
  s2 = s2
  fa = fa
  fb = fb
  None = None
  Thread = {t1, t2, t3}
  Searcher = {s1, s2}
  UsedBy <- MCUsedBy
  Closer = {t2}
  Asked <- MCAsked
  Silent = {s2}
  MaxCalls = 3
SPECIFICATION Spec
INVARIANTS
  TypeOK
  PrefixedOnce
PROPERTY
  HealthyReturns
CHECK_DEADLOCK FALSE
