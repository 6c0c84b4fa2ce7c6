-------------------------- MODULE MCReconcileQueue --------------------------
EXTENDS ReconcileQueue, TLC
CONSTANTS p1, p2, k1, k2
MCRequestOf == p1 :> 1 @@ p2 :> 2
MCPartOf == 1 :> p1 @@ 2 :> p2
MCConnectionOf == 1 :> k1 @@ 2 :> k1
=============================================================================
