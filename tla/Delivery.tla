------------------------------ MODULE Delivery ------------------------------
(***************************************************************************)
(* `cli push` of custom builds, from the script to the name: CustomBuild   *)
(* and Deploy composed.  They meet in push::run.  The push request is      *)
(* opened when the build has ended, the tar task that Deploy knows the end *)
(* of is the walk of CustomBuild, and the archive is what a reader finds   *)
(* in it.  A registry that dies and the workers that pull are left to       *)
(* Deploy.                                                                 *)
(***************************************************************************)
EXTENDS Deploy, FiniteSets

CONSTANTS
  Job, Background, Awaited,
  ArchiveOf,  \* the build that the entries of an archive amount to
  Together    \* the commands that are busy with a build at a time: a bound

VARIABLES step, shell, running, output, unread, archived

B == INSTANCE CustomBuild

ASSUME DeliveryAssumption ==
  /\ Background \subseteq Job /\ Awaited \subseteq Background
  /\ ArchiveOf \in [[Job -> B!Entry] -> Build]

scriptVars == <<step, shell, running, output, unread, archived>>
deliveryVars == <<vars, scriptVars>>

DeliveryInit == Init /\ B!Init

Building(p) == step[p] \notin {"idle", "sent"}

-----------------------------------------------------------------------------
\* The command builds, or something of its script is left.
Busy(p) == Building(p) \/ shell[p] = "runs" \/ running[p] # {}

Begin(p) ==
  /\ B!Begin(p)
  /\ cli[p] = "idle" /\ srv[p] = "none"
  /\ Cardinality({q \in Push : Busy(q)}) < Together
  /\ UNCHANGED vars

Run(p) == B!BuildStep(p) /\ UNCHANGED vars

\* The script's processes know nothing of the push.
Work(p) == B!ScriptStep(p) /\ UNCHANGED vars

\* Bug: the request is opened, and the tar task spawned, once the build has been started.
HandOverEarly(p) ==
  /\ B!Goto(p, "script", "tar")
  /\ unread' = [unread EXCEPT ![p] = Job]
  /\ UNCHANGED <<shell, running, output, archived>>
  /\ Start(p)

HandOver(p) == B!Inspect(p) /\ Start(p)

Archived(p) ==
  /\ B!TarDone(p)
  /\ TarEnds(p, "done")
  /\ build' = [build EXCEPT ![p] = ArchiveOf[archived[p]]]

Torn(p) ==
  /\ B!TarFails(p)
  /\ TarEnds(p, "failed")
  /\ build' = [build EXCEPT ![p] = ArchiveOf[archived[p]]]

\* Before the push request, with it, or after the end of the stream.
CommandDies(p) ==
  /\ "client" \in Faults
  /\ \/ B!CommandDies(p) /\ step[p] # "tar" /\ UNCHANGED vars
     \/ B!CommandDies(p) /\ step[p] = "tar" /\ ClientDies(p)
     \/ B!Return(p) /\ ClientDies(p)
     \/ step[p] = "idle" /\ ClientDies(p) /\ UNCHANGED scriptVars

Join(p) ==
  /\ TarAwaited(p) \/ TarFailed(p)
  /\ UNCHANGED scriptVars

Publish(p) ==
  /\ SetName(p) \/ SetFails(p)
  /\ B!Return(p)

\* A reader that has lost its way among the entries may also find no header where there
\* should be one.  An archive that is refused, like a write that fails, ends the push, and
\* with it a command that still waits.
Store(p) ==
  /\ ServerStep(p)
  /\ Rejected(p) => tar[p] = "failed" \/ B!Skewed(p)
  /\ IF step[p] = "sent" /\ cli'[p] = "idle" THEN B!Return(p) ELSE UNCHANGED scriptVars

CommandStep(p) == Run(p) \/ HandOver(p) \/ Archived(p) \/ Torn(p) \/ Join(p) \/ Publish(p)

DeliveryNext ==
  \E p \in Push : Begin(p) \/ CommandStep(p) \/ Work(p) \/ Store(p) \/ CommandDies(p)

DeliverySpec == DeliveryInit /\ [][DeliveryNext]_deliveryVars

\* As in Deploy; the timeout of a script is tokio's, while its processes owe nothing.
DeliveryFairness ==
  \A p \in Push : WF_deliveryVars(CommandStep(p)) /\ WF_deliveryVars(Store(p))

-----------------------------------------------------------------------------
SentComplete  == B!SentComplete
WalkInductive == B!WalkInductive

\* A name only ever stands for an archive in which a worker finds the whole of every file
\* that its script has answered for: no half-written output, of a script that failed, ran
\* out of time or was still at work, and no part of a tar finds its way to a name.  The one
\* exception can be told from the archive: an entry that its own length does not fit.
NamedHoldsAnswered ==
  \A n \in Name : names[n] # NoDigest =>
    \E f \in [Job -> B!Entry] :
      /\ B!Holds(f)
      /\ names[n] = DigestOf[ArchiveOf[f]]

\* A command that builds comes to an end of that, although its script may hang and what
\* the script has started may go on for ever.
BuildEnds == \A p \in Push : Building(p) ~> ~Building(p)

\* What the push is about is what the walk has read, once the tar task has ended.
ArchiveInv ==
  \A p \in Push :
    /\ (cli[p] = "push" /\ tar[p] = "running") <=> step[p] = "tar"
    /\ Building(p) /\ step[p] # "tar" => cli[p] = "idle"
    /\ step[p] = "sent" => cli[p] # "idle" /\ tar[p] = "done"
    /\ tar[p] = "done" /\ cli[p] # "idle" =>
         /\ step[p] = "sent"
         /\ build[p] = ArchiveOf[archived[p]]

DeliveryInductive == DeployInductive /\ B!WalkInductive /\ ArchiveInv /\ NamedHoldsAnswered

=============================================================================
