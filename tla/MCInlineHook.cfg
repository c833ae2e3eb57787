SPECIFICATION Spec
CONSTANTS
  Main = main
  Workers = {w1, w2}
  Api = {a1, a2}
  Trap = {c1, c2}
  Orig = Orig
  Systems = {TRUE, FALSE}
  MaxObjects = 2
INVARIANTS TypeOK CodeTells OffOnlyInside WildOnlyInside
CHECK_DEADLOCK FALSE
SYMMETRY Symm
