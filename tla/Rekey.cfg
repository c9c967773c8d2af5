SPECIFICATION Spec
SYMMETRY Symmetries
INVARIANT NoneStranded
INVARIANT ReadableAtRest
PROPERTY DataKept
CONSTANTS
  Secrets = {s1, s2}
  Data = {d1, d2}
  Keys = {k1, k2, k3}
  Stashes = {f1, f2}
  Writers = {w1, w2}
  EmptyKey = EmptyKey
  Torn = Torn
  NoFile = NoFile
  NoRow = NoRow
  MaxRekeys = 2
  MaxWrites = 2
  MaxFaults = 2
\* The bounds end every behaviour.
CHECK_DEADLOCK FALSE
