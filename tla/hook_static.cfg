SPECIFICATION Spec
CONSTANTS
  t1 = t1  t2 = t2  t3 = t3
  c1 = c1  c2 = c2
  Thread = {t1, t2, t3}
  Cell = {c1, c2}
  Nobody = Nobody
SYMMETRY Symmetric
INVARIANTS
  NeverAliased
  NoRacingClone
  CopiesArePristine
PROPERTIES
  NoneIsJustified
