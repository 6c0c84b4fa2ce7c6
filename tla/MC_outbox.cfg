\* Two passes that may overlap; two of three rows are never accepted, and they
\* fill the claim.  No symmetry: one property is temporal.
SPECIFICATION FairSpec
CONSTANTS
  Deliverers = {p1, p2}
  Last = 3
  Dead = {1, 2}
  Batch = 2
  ClaimTime = 3
  PassTime = 1
  Gap = 1
  MaxExponent = 2
  MaxDelay = 3
INVARIANTS
  TypeOK
  InFlightOnce
  DeliveredWasReceived
PROPERTIES
  EventuallyDelivered
