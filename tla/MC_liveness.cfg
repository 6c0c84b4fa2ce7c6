\* One part under the fairness of the reconcile timer; sends and closes contend
\* for the lease.  No symmetry: the properties are temporal.
SPECIFICATION FairSpec
CONSTANTS
  Workers = {w1, w2}
  PartCount = 1
  Docs = {d1}
  Jobs = {"process", "send", "close"}
  Moves = {"sign"}
  Scenario = "onboarding"
  NoDoc = NoDoc
  NoWorker = NoWorker
PROPERTIES
  EventuallyLinked
  EventuallyProjected
