------------------------- MODULE InstanceLifecycle -------------------------
(***************************************************************************)
(* What the worker promises about the place one function instance occupies *)
(* on the host: its bundle directory, its container and its entry in the   *)
(* invocation table, all three named by the same instance id.              *)
(*                                                                         *)
(*     vacant --> provisioning --> serving --> draining --> vacant         *)
(*        \             \             \            \                       *)
(*         `-------------`------> wedged <----------'                      *)
(*                                                                         *)
(* An id is never provisioned while it serves or drains, is served only    *)
(* after it was provisioned, and is free again only after it was drained.  *)
(* "wedged" is a place the worker has lost track of while its bundle       *)
(* directory is still there: nothing in the code ever leaves that stage.   *)
(***************************************************************************)
CONSTANT Id          \* instance ids: the names of the places on the host

VARIABLE stage       \* stage[i] is where the instance i is in its life

Stages == {"vacant", "provisioning", "serving", "draining", "wedged"}

StageOK == stage \in [Id -> Stages]

Init == stage = [i \in Id |-> "vacant"]

Move(i, from, to) ==
  /\ stage[i] \in from
  /\ stage' = [stage EXCEPT ![i] = to]

\* A request claims the vacant place by creating its bundle directory.
Provision(i) == Move(i, {"vacant"}, "provisioning")

\* The started container is entered in the invocation table.
Publish(i) == Move(i, {"provisioning"}, "serving")

\* The reaper or the shutdown takes the entry out of the table.
Withdraw(i) == Move(i, {"serving"}, "draining")

\* Container and bundle are gone.
Reclaim(i) == Move(i, {"draining"}, "vacant")

\* A step failed or a caller hung up, and what had been built stays behind.
Wedge(i) == Move(i, {"vacant", "provisioning", "draining"}, "wedged")

\* The process ends: whatever occupied a place still does, unaccounted for.
Halt ==
  stage' = [i \in Id |-> IF stage[i] = "vacant" THEN "vacant" ELSE "wedged"]

Next ==
  \/ \E i \in Id :
       Provision(i) \/ Publish(i) \/ Withdraw(i) \/ Reclaim(i) \/ Wedge(i)
  \/ Halt

Spec == Init /\ [][Next]_stage

=============================================================================
