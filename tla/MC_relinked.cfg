\* Two documents carry the part's external id, and webhooks name both.
SPECIFICATION Spec
CONSTANTS
  Workers = {w1, w2}
  PartCount = 1
  Docs = {d1, d2}
  Jobs = {"process", "hook"}
  Moves = {"duplicate"}
  Scenario = "onboarding"
  NoDoc = NoDoc
  NoWorker = NoWorker
PROPERTIES
  LinkStable
