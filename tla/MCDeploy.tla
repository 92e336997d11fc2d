------------------------------ MODULE MCDeploy ------------------------------
(* Small worlds for Deploy.  *)
EXTENDS Deploy, TLC

CONSTANTS p1, p2, p3, w1, b1, b2, b3, d1, d2, torn, n1, n2

\* b1 and b2 are the same code, built twice; b3 is other code.
SameCode  == (b1 :> d1) @@ (b2 :> d1)
Remains   == (b1 :> torn) @@ (b2 :> torn)
OtherCode == (b1 :> d1) @@ (b3 :> d2)
OtherRemains == (b1 :> torn) @@ (b3 :> torn)

PushSymmetry == Permutations({p1, p2})

=============================================================================
