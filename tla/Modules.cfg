SPECIFICATION Spec
SYMMETRY RequestSymmetry
INVARIANT LoadsWhatCanRun
PROPERTY StaysConsistent
PROPERTY DisableClearsDependents
CONSTANTS
  a = a
  b = b
  c = c
  gone = gone
  Discovery <- ABC
  Gone = {gone}
  Manifests <- ThreeModulesManifests
  Requests = {r1, r2}
  FullRowSave = TRUE
  NoKey = NoKey
  MaxRequests = 2
  MaxAborts = 1
\* MaxRequests ends every behaviour.
CHECK_DEADLOCK FALSE
