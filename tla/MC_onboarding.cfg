\* Two parts without review: calls walk over the parts and may stop at either, while
\* people edit drafts and make documents with the same external id.
SPECIFICATION Spec
CONSTANTS
  Workers = {w1}
  PartCount = 2
  Docs = {d1, d2}
  Jobs = {"process", "send", "cancel", "close", "discard"}
  Moves = {"sign", "delete", "duplicate", "editFields", "editRecipients"}
  Scenario = "onboarding"
  NoDoc = NoDoc
  NoWorker = NoWorker
SYMMETRY Symmetric
INVARIANTS
  LinkConsistent
  CommandIsComplete
PROPERTIES
  CreatesOnce
