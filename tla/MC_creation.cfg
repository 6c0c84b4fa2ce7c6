\* Three calls, two keys, two references, a replacement or not.
SPECIFICATION Spec
CONSTANTS
  Callers = {c1, c2, c3}
  Ids = {i1, i2, i3}
  Keys = {k1, k2}
  Refs = {e1, e2}
  Priors = {p1}
  NoPrior = NoPrior
  NoInput = NoInput
  NoId = NoId
  NoCaller = NoCaller
SYMMETRY Symmetric
INVARIANTS
  NoClash
  ReplacesFinished
PROPERTIES
  KeepsPromise
