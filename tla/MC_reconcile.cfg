\* Two requests of one part each and their webhooks, one healthy and one that may fail
\* in every way, batches of one, a second connection, one disturbance anywhere.
SPECIFICATION Spec
CONSTANTS
  Requests = {1, 2}
  Events = {1, 2}
  p1 = p1
  p2 = p2
  Parts = {p1, p2}
  RequestOf <- MCRequestOf
  PartOf <- MCPartOf
  k1 = k1
  k2 = k2
  Connections = {k1, k2}
  ConnectionOf <- MCConnectionOf
  Good = {p2}
  BatchLimit = 1
  InboxLimit = 1
  FreshFor = 2
  MaxExponent = 1
  MaxDelay = 2
  MaxMoves = 1
PROPERTIES
  NobodyIsPassedOver
  HealthyIsSynchronized
  HealthyEventIsTaken
