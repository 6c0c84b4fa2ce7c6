------------------------ MODULE MCRequestLifecycle ------------------------
EXTENDS RequestLifecycle, TLC

\* Calls and documents are interchangeable; no property names one of them.
Symmetric == Permutations(Workers) \union Permutations(Docs)
=============================================================================
