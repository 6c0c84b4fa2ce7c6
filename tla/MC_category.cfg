\* Two parts with nine possible documents, a link that expires, eight principals.
SPECIFICATION Spec
CONSTANTS
  Parts = {p1, p2}
  Ids = {1, 2}
  Emails = {"agent", "customer"}
  Agents = {"me", "other"}
  Owner = "me"
  Documents <- MCDocuments
  Principals <- MCPrincipals
  MaxNow = 1
  Null = Null
SYMMETRY Symmetric
INVARIANTS
  CategoriesAgree
  MineOpens
\* Parts may all be failed or discarded, their documents final, the clock at its bound.
CHECK_DEADLOCK FALSE
