CONSTANTS
  Pool <- MCPool
  Texts <- MCTexts
  Restrictions <- MCRestrictions
  Readers = {r1, r2}
  MaxInputs = 3
SPECIFICATION Spec
SYMMETRY ReaderSymmetry
INVARIANTS  RefusedOnlyWhenInUse
CHECK_DEADLOCK FALSE
