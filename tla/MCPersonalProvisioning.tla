----------------------- MODULE MCPersonalProvisioning -----------------------
EXTENDS PersonalProvisioning, TLC
CONSTANTS s1, s2, s3, e1, e2, e3
Is(s, e) == [subject |-> s, email |-> e]
\* Two identities that share nothing; one of the first subject has the address of a
\* user from before.
MCIdentities == {Is(s1, e1), Is(s2, e2), Is(s1, e3)}
MCLegacy == <<Is(s3, e3)>>
Symmetric == Permutations(Agents) \union Permutations(Callers)
=============================================================================
