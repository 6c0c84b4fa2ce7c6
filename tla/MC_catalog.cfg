\* Two documents, one package of them, two requests, two concurrent calls.
SPECIFICATION Spec
CONSTANTS
  Documents = {d1, d2}
  Packages = {k1}
  Requests = {r1, r2}
  Callers = {c1, c2}
  NoVersion = NoVersion
  NoRequest = NoRequest
SYMMETRY Symmetric
PROPERTIES
  ComposedWhileActive
  StoppedIsRefused
\* Versions may all be retired and all requests created and sent.
CHECK_DEADLOCK FALSE
