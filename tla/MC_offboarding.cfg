\* One part, mandatory review, two concurrent calls of every kind, people who
\* sign, cancel, send and delete inside Documenso.
SPECIFICATION Spec
CONSTANTS
  Workers = {w1, w2}
  PartCount = 1
  Docs = {d1, d2}
  Jobs = {"process", "send", "cancel", "close", "discard", "review", "bundle", "read", "hook"}
  Moves = {"sign", "cancel", "send", "delete"}
  Scenario = "offboarding"
  NoDoc = NoDoc
  NoWorker = NoWorker
SYMMETRY Symmetric
INVARIANTS
  TypeOK
  AtMostOneDocument
  LinkConsistent
  NoStrandedDocument
  UploadsUntilCreated
  AtMostOneSend
  SentWasReviewed
  NoSilentChange
PROPERTIES
  ProjectionMonotone
  DiscardedIsFinal
  KeepsContract
