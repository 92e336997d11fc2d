------------------------------ MODULE Catalog ------------------------------
(***************************************************************************)
(* What registry and control plane promise together to whoever runs        *)
(* functions: a digest that was once stored stays stored, and a name only  *)
(* ever stands for a digest that is stored.                                *)
(***************************************************************************)
CONSTANTS Name, Digest, NoDigest

VARIABLES stored,    \* the digests the registry has an archive of
          names      \* the digest each name stands for

Init ==
  /\ stored = {}
  /\ names = [n \in Name |-> NoDigest]

Store(d) ==
  /\ stored' = stored \cup {d}
  /\ UNCHANGED names

SetName(n, d) ==
  /\ d \in stored
  /\ names' = [names EXCEPT ![n] = d]
  /\ UNCHANGED stored

Next ==
  \E d \in Digest : Store(d) \/ \E n \in Name : SetName(n, d)

Spec == Init /\ [][Next]_<<stored, names>>

=============================================================================
