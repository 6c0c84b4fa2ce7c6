-------------------------- MODULE MCRequestCreation --------------------------
EXTENDS RequestCreation, TLC

\* Calls, ids, keys and references are interchangeable.
Symmetric ==
  Permutations(Callers) \union Permutations(Ids) \union Permutations(Keys)
    \union Permutations(Refs)
=============================================================================
