-------------------------- MODULE MCPackageCatalog --------------------------
EXTENDS PackageCatalog, TLC

\* Documents, requests and calls are interchangeable.
Symmetric ==
  Permutations(Documents) \union Permutations(Requests)
    \union Permutations(Callers)
=============================================================================
