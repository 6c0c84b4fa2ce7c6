\* Two calls; an input that passes, one whose second file is changed and one
\* without layout; two files.  No symmetry: one property is temporal.
SPECIFICATION FairSpec
CONSTANTS
  Callers = {c1, c2}
  Inputs = {"kept", "changed", "plain"}
  Plain = {"plain"}
  Altered <- MCAltered
  FileCount = 2
  Envelopes = {e1, e2, e3}
  NoInput = NoInput
  NoEnvelope = NoEnvelope
  NoCaller = NoCaller
INVARIANTS
  AtMostOneTemplate
  FailedHasNone
  ReadyIsVerified
PROPERTIES
  KeepsPromise
  EventuallyKnown
