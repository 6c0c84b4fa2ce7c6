\* Process and discard keep being retried until they succeed.
SPECIFICATION RetrySpec
CONSTANTS
  Workers = {w1}
  PartCount = 1
  Docs = {d1}
  Jobs = {"process", "discard"}
  Moves = {}
  Scenario = "company_file"
  NoDoc = NoDoc
  NoWorker = NoWorker
PROPERTIES
  UncertainResolves
