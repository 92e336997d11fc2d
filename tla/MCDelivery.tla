----------------------------- MODULE MCDelivery -----------------------------
(* A small world in which custom builds are pushed.  *)
EXTENDS Delivery, Sequences, TLC

CONSTANTS p1, p2, n1

-----------------------------------------------------------------------------
(* Archives: the shell writes "main", a process it leaves alone "log".  *)

Jobs == {"main", "log"}

File(name, data) == [type |-> "file", name |-> name, content |-> data]
Folder(name)     == [type |-> "dir",  name |-> name, content |-> <<>>]

\* What "log" writes leaves no trace in an archive, so that pushes meet in a digest, but for
\* a length that it does not fit, which here takes all else along; and whatever there is of
\* "main" short of the whole is one and the same.
Archives ==
  [f \in [Jobs -> {"none", "part", "whole", "header", "skewed"}] |->
     <<Folder(<<".">>)>> \o
       CASE f["log"] = "skewed" -> <<File(<<"log">>, <<"z">>)>>
         [] f["log"] # "skewed" /\ f["main"] = "whole" -> <<File(<<"main">>, <<"x", "y">>)>>
         [] OTHER -> <<>>]

Builds == {Archives[f] : f \in DOMAIN Archives}

\* What the registry makes of them: of Digest, the hash alone.
D == INSTANCE Digest WITH
       Token <- {}, Archive <- {}, Room <- 0,
       step <- "idle", left <- <<>>, hasher <- <<>>, fed <- <<>>, stored <- {}

Digests   == [b \in Builds |-> D!GetDigest(b)]
Remains   == [b \in Builds |-> D!GetDigest(<<Folder(<<".">>)>>)]
AllDigests == {Digests[b] : b \in Builds} \cup {Remains[b] : b \in Builds}

-----------------------------------------------------------------------------
\* Two bounds.  A log has no end, and the second push makes none: that one is there
\* to meet the first in registry and control plane, with the same archive.
LogBound ==
  /\ \A p \in Push : output'[p]["log"] # "whole"
  /\ output'[p2]["log"] = "none"

MCNext == DeliveryNext /\ LogBound

MCSpec == DeliveryInit /\ [][MCNext]_deliveryVars /\ DeliveryFairness

=============================================================================
