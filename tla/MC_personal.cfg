\* Two agents, three identities and a user from before, three changes by the Portal,
\* two calls, and either a failure anywhere or an administrative mistake.
SPECIFICATION Spec
CONSTANTS
  Agents = {a1, a2}
  s1 = s1
  s2 = s2
  s3 = s3
  e1 = e1
  e2 = e2
  e3 = e3
  Subjects = {s1, s2, s3}
  Emails = {e1, e2, e3}
  Identities <- MCIdentities
  Legacy <- MCLegacy
  Callers = {c1, c2}
  MaxChanges = 3
  MaxFailures = 1
  None = None
SYMMETRY Symmetric
\* The Portal may have withdrawn every grant for good, with no call running.
CHECK_DEADLOCK FALSE
INVARIANTS
  OneUserPerAgent
  MappingIsWhole
  SessionsArePrivate
PROPERTIES
  FreshSignIn
  NeverTurnedAway
