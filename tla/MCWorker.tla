------------------------------ MODULE MCWorker ------------------------------
(* Small worlds for Worker.  *)
EXTENDS Worker, TLC

CONSTANTS r1, r2, r3, i1, i2, d0, c1, c2, c3

\* Every digest has an instance id of its own, and one is too short to have any.
OwnPrefix == (i1 :> i1) @@ (i2 :> i2)
OneId     == (i1 :> i1)

\* Two digests begin with the same sixteen characters.
SamePrefix == (i1 :> i1) @@ (i2 :> i1)

CallSymmetry  == Permutations({r1, r2}) \cup Permutations({c1, c2, c3})
PlaceSymmetry == CallSymmetry \cup Permutations({i1, i2})

=============================================================================
