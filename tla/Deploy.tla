------------------------------- MODULE Deploy -------------------------------
(***************************************************************************)
(* The way of a function from `cli push` to the worker that runs it: the   *)
(* command (services/cli push/mod.rs) streams a tar of its build to the    *)
(* registry (services/registry), awaits its own tar task and sets the name *)
(* in the control plane (services/controlplane); workers ask for a name's  *)
(* digest and pull it.                                                     *)
(*                                                                         *)
(* Each push is a client and, for as long as its data matters there, a     *)
(* task in the registry.  The registry decides by the existence of a file  *)
(* whether to write it, and tokio's fs::write creates (or truncates) the   *)
(* file and then writes it piece by piece, on a thread that goes on even   *)
(* if the request it serves is dropped.  Two tars of one digest hold the   *)
(* same files, so a block of one may stand for that of the other.          *)
(***************************************************************************)
EXTENDS Naturals

CONSTANTS
  Push,       \* runs of the command going on at a time; a finished one is reused
  Puller,     \* pulls going on at a time
  Build,      \* outputs of a build
  Name,       \* names of projects
  Digest,
  DigestOf,   \* the digest of the complete tar of a build
  TornDigest, \* the digest of the tar that a failing tar task leaves
  Blocks,     \* pieces in which a file is written
  Faults,     \* which of FaultKinds happen
  NoDigest, NoBuild, NoName

\* "tar": the tar task fails; "disk": a write fails; "crash": the registry dies;
\* "client": the command dies; "set": the control plane's answer is an error.
FaultKinds == {"tar", "disk", "crash", "client", "set"}

Block == 1 .. Blocks

ASSUME DeployAssumption ==
  /\ DigestOf \in [Build -> Digest]
  /\ TornDigest \in [Build -> Digest]
  /\ Blocks \in Nat \ {0}
  /\ Faults \subseteq FaultKinds
  /\ NoDigest \notin Digest

VARIABLES
  cli,     \* where each command is
  build,   \* what its tar task has read
  key,     \* the name it is going to set
  tar,     \* the state of its tar task
  srv,     \* where the registry is with its push
  written, \* the blocks the registry has written for it
  stored,  \* the digests with a file in the registry's directory
  content, \* the blocks that are in each file
  names,   \* the control plane's table
  asked,   \* the digest each pull is for
  pulled   \* what each last pull has brought

cliVars  == <<cli, build, key, tar>>
srvVars  == <<srv, written>>
pullVars == <<asked, pulled>>
files    == <<stored, content>>
vars == <<cli, build, key, tar, srv, written, stored, content, names, asked, pulled>>

Whole(d) == d \in stored /\ content[d] = Block

\* The digest of what the registry has received, and so of its answer.
Sent(p) == IF tar[p] = "failed" THEN TornDigest[build[p]] ELSE DigestOf[build[p]]

TypeOK ==
  /\ cli \in [Push -> {"idle", "push", "await", "name"}]
  /\ build \in [Push -> Build \cup {NoBuild}]
  /\ key \in [Push -> Name \cup {NoName}]
  /\ tar \in [Push -> {"running", "done", "failed"}]
  /\ srv \in [Push -> {"none", "receive", "check", "open", "write", "reply"}]
  /\ written \in [Push -> 0 .. Blocks]
  /\ stored \subseteq Digest
  /\ content \in [Digest -> SUBSET Block]
  /\ names \in [Name -> Digest \cup {NoDigest}]
  /\ asked \in [Puller -> Digest \cup {NoDigest}]
  /\ pulled \in [Puller -> {"nothing", "missing", "part", "whole"}]

Init ==
  /\ cli = [p \in Push |-> "idle"]
  /\ build = [p \in Push |-> NoBuild]
  /\ key = [p \in Push |-> NoName]
  /\ tar = [p \in Push |-> "done"]
  /\ srv = [p \in Push |-> "none"]
  /\ written = [p \in Push |-> 0]
  /\ stored = {}
  /\ content = [d \in Digest |-> {}]
  /\ names = [n \in Name |-> NoDigest]
  /\ asked = [w \in Puller |-> NoDigest]
  /\ pulled = [w \in Puller |-> "nothing"]

-----------------------------------------------------------------------------
(* push::run                                                                 *)

\* The build is done: the tar task is spawned and the push request opened.
Start(p) ==
  /\ cli[p] = "idle" /\ srv[p] = "none"
  /\ cli' = [cli EXCEPT ![p] = "push"]
  /\ srv' = [srv EXCEPT ![p] = "receive"]
  /\ tar' = [tar EXCEPT ![p] = "running"]
  /\ \E n \in Name : key' = [key EXCEPT ![p] = n]
  /\ UNCHANGED <<build, written, files, names, pullVars>>

\* The tar task has read what the build has left, or a part of it, and ends; the end
\* of its pipe is the end of the stream.
TarEnds(p, outcome) ==
  /\ cli[p] = "push" /\ tar[p] = "running"
  /\ outcome = "failed" => "tar" \in Faults
  /\ tar' = [tar EXCEPT ![p] = outcome]
  /\ \E b \in Build : build' = [build EXCEPT ![p] = b]
  /\ UNCHANGED <<cli, key, srvVars, files, names, pullVars>>

\* Neither command nor registry have anything more to do with a push.
Forget(p) ==
  /\ build' = [build EXCEPT ![p] = NoBuild]
  /\ tar' = [tar EXCEPT ![p] = "done"]

\* The command ends, and with it the push.
Leave(p) ==
  /\ cli' = [cli EXCEPT ![p] = "idle"]
  /\ key' = [key EXCEPT ![p] = NoName]
  /\ Forget(p)

\* Bug: the tar task is not awaited.
TarUnawaited(p) ==
  /\ cli[p] = "await"
  /\ cli' = [cli EXCEPT ![p] = "name"]
  /\ UNCHANGED <<build, key, tar, srvVars, files, names, pullVars>>

\* tar_task.await??
TarAwaited(p) ==
  /\ cli[p] = "await" /\ tar[p] = "done"
  /\ cli' = [cli EXCEPT ![p] = "name"]
  /\ UNCHANGED <<build, key, tar, srvVars, files, names, pullVars>>

TarFailed(p) ==
  /\ cli[p] = "await" /\ tar[p] = "failed"
  /\ Leave(p)
  /\ UNCHANGED <<srvVars, files, names, pullVars>>

\* set_digest_to_name: an upsert in the control plane's database.
SetName(p) ==
  /\ cli[p] = "name"
  /\ names' = [names EXCEPT ![key[p]] = Sent(p)]
  /\ Leave(p)
  /\ UNCHANGED <<srvVars, files, pullVars>>

SetFails(p) ==
  /\ "set" \in Faults
  /\ cli[p] = "name"
  /\ Leave(p)
  /\ UNCHANGED <<srvVars, files, names, pullVars>>

\* The command dies.  A request still being received is dropped with it; from
\* there on the registry does not await but on the writing thread.
ClientDies(p) ==
  /\ "client" \in Faults
  /\ cli[p] # "idle"
  /\ cli' = [cli EXCEPT ![p] = "idle"]
  /\ key' = [key EXCEPT ![p] = NoName]
  /\ srv' = [srv EXCEPT ![p] = IF @ = "receive" THEN "none" ELSE @]
  /\ IF srv'[p] = "none" THEN Forget(p) ELSE UNCHANGED <<build, tar>>
  /\ UNCHANGED <<written, files, names, pullVars>>

-----------------------------------------------------------------------------
(* LocalBackend::push and pull                                               *)

Serve(p, from, to) ==
  /\ srv[p] = from
  /\ srv' = [srv EXCEPT ![p] = to]

\* The push ends with an error, which ends the command too if it still waits.
Refuse(p) ==
  /\ srv' = [srv EXCEPT ![p] = "none"]
  /\ Leave(p)

\* The stream has ended: the registry has a tar and computes its digest.
Received(p) ==
  /\ tar[p] # "running"
  /\ Serve(p, "receive", "check")
  /\ UNCHANGED <<cliVars, written, files, names, pullVars>>

\* What a failed tar task leaves may be empty or no tar at all; what one leaves whose files
\* have changed under its walk may have no header where one should be.
Rejected(p) ==
  /\ srv[p] = "receive" /\ tar[p] # "running"
  /\ Refuse(p)
  /\ UNCHANGED <<written, files, names, pullVars>>

\* "Digest already exists in registry, skipping write"
SkipWrite(p) ==
  /\ Serve(p, "check", "reply")
  /\ Sent(p) \in stored
  /\ UNCHANGED <<cliVars, written, files, names, pullVars>>

\* Bug: the registry answers before it writes.
NeedNoWrite(p) ==
  /\ Serve(p, "check", "reply")
  /\ Sent(p) \notin stored
  /\ UNCHANGED <<cliVars, written, files, names, pullVars>>

\* Bug: every push writes, whether or not the file exists.
NeedAlways(p) ==
  /\ Serve(p, "check", "open")
  /\ UNCHANGED <<cliVars, written, files, names, pullVars>>

NeedWrite(p) ==
  /\ Serve(p, "check", "open")
  /\ Sent(p) \notin stored
  /\ UNCHANGED <<cliVars, written, files, names, pullVars>>

\* fs::write creates the file, or truncates the one that has appeared meanwhile.
Open(p) ==
  /\ Serve(p, "open", "write")
  /\ stored' = stored \cup {Sent(p)}
  /\ content' = [content EXCEPT ![Sent(p)] = {}]
  /\ UNCHANGED <<cliVars, written, names, pullVars>>

\* Bug: one block too many.
WriteBeyond(p) ==
  /\ srv[p] = "write" /\ written[p] <= Blocks
  /\ written' = [written EXCEPT ![p] = @ + 1]
  /\ content' = [content EXCEPT ![Sent(p)] = @ \cup {written[p] + 1}]
  /\ UNCHANGED <<cliVars, srv, stored, names, pullVars>>

WriteBlock(p) ==
  /\ srv[p] = "write" /\ written[p] < Blocks
  /\ written' = [written EXCEPT ![p] = @ + 1]
  /\ content' = [content EXCEPT ![Sent(p)] = @ \cup {written[p] + 1}]
  /\ UNCHANGED <<cliVars, srv, stored, names, pullVars>>

\* Bug: the registry answers while the last block is still in a buffer.
WriteUnflushed(p) ==
  /\ written[p] + 1 >= Blocks
  /\ Serve(p, "write", "reply")
  /\ written' = [written EXCEPT ![p] = 0]
  /\ UNCHANGED <<cliVars, files, names, pullVars>>

WriteDone(p) ==
  /\ written[p] = Blocks
  /\ Serve(p, "write", "reply")
  /\ written' = [written EXCEPT ![p] = 0]
  /\ UNCHANGED <<cliVars, files, names, pullVars>>

\* Bug: a write that fails removes the file, which others may have relied on.
WriteUndone(p) ==
  /\ "disk" \in Faults
  /\ srv[p] \in {"open", "write"}
  /\ Refuse(p)
  /\ written' = [written EXCEPT ![p] = 0]
  /\ stored' = stored \ {Sent(p)}
  /\ UNCHANGED <<content, names, pullVars>>

\* "failed to write store path": what has been written stays.
WriteFails(p) ==
  /\ "disk" \in Faults
  /\ srv[p] \in {"open", "write"}
  /\ Refuse(p)
  /\ written' = [written EXCEPT ![p] = 0]
  /\ UNCHANGED <<files, names, pullVars>>

\* The digest goes back to the command, if there still is one.
Reply(p) ==
  /\ Serve(p, "reply", "none")
  /\ cli' = [cli EXCEPT ![p] = IF @ = "push" THEN "await" ELSE @]
  /\ IF cli[p] = "push" THEN UNCHANGED <<build, tar>> ELSE Forget(p)
  /\ UNCHANGED <<key, written, files, names, pullVars>>

RegistryCrash ==
  /\ "crash" \in Faults
  /\ srv' = [p \in Push |-> "none"]
  /\ written' = [p \in Push |-> 0]
  /\ LET answered == {p \in Push : cli[p] \in {"await", "name"}}
     IN  /\ cli' = [p \in Push |-> IF p \in answered THEN cli[p] ELSE "idle"]
         /\ key' = [p \in Push |-> IF p \in answered THEN key[p] ELSE NoName]
         /\ build' = [p \in Push |-> IF p \in answered THEN build[p] ELSE NoBuild]
         /\ tar' = [p \in Push |-> IF p \in answered THEN tar[p] ELSE "done"]
  /\ UNCHANGED <<files, names, pullVars>>

\* get_digest_by_name, as a worker asks for it.
Ask(w) ==
  /\ asked[w] = NoDigest
  /\ \E n \in Name : names[n] # NoDigest /\ asked' = [asked EXCEPT ![w] = names[n]]
  /\ pulled' = [pulled EXCEPT ![w] = "nothing"]
  /\ UNCHANGED <<cliVars, srvVars, files, names>>

\* pull reads the file as it is and streams what it has read.
Pull(w) ==
  /\ asked[w] # NoDigest
  /\ asked' = [asked EXCEPT ![w] = NoDigest]
  /\ pulled' = [pulled EXCEPT ![w] = IF asked[w] \notin stored THEN "missing"
                                     ELSE IF Whole(asked[w]) THEN "whole" ELSE "part"]
  /\ UNCHANGED <<cliVars, srvVars, files, names>>

-----------------------------------------------------------------------------
ClientStep(p) ==
  \/ TarEnds(p, "done") \/ TarEnds(p, "failed")
  \/ TarAwaited(p) \/ TarFailed(p) \/ SetName(p) \/ SetFails(p)

ServerStep(p) ==
  \/ Received(p) \/ Rejected(p) \/ SkipWrite(p) \/ NeedWrite(p) \/ Open(p)
  \/ WriteBlock(p) \/ WriteDone(p) \/ WriteFails(p) \/ Reply(p)

Next ==
  \/ \E p \in Push : Start(p) \/ ClientStep(p) \/ ServerStep(p) \/ ClientDies(p)
  \/ RegistryCrash
  \/ \E w \in Puller : Ask(w) \/ Pull(w)

Spec == Init /\ [][Next]_vars

\* tokio runs what is ready, and the writing threads go on.
FairSpec == Spec /\ \A p \in Push : WF_vars(ClientStep(p)) /\ WF_vars(ServerStep(p))

-----------------------------------------------------------------------------
\* A digest that the control plane has given out can be pulled: the command sets a
\* name only after the registry has answered, and no file is ever removed.
NamedNeverMissing == \A w \in Puller : pulled[w] # "missing"

\* A name never stands for the remains of a tar task that failed, although the
\* registry stores and answers for them: the command awaits the task before.
NamedIsComplete ==
  \A n \in Name : names[n] # NoDigest => \E b \in Build : names[n] = DigestOf[b]

\* Without write errors and crashes every named archive is whole in the end and
\* stays so, although pushes of one digest truncate and rewrite each other's file:
\* once the file exists no push decides to write it any more.
NamedSettles ==
  \A d \in Digest : (\E n \in Name : names[n] = d) ~> []Whole(d)

\* An archive that is whole, with nobody about to open its file again, stays so for
\* good, whatever fails and whoever pushes the same: a file that exists is neither
\* truncated nor removed any more.
Settled(d) == Whole(d) /\ \A p \in Push : srv[p] = "open" => Sent(p) # d

SettledStays == [][\A d \in Digest : Settled(d) => Settled(d)']_vars

\* A block of a file is there, or is still to be written by somebody.
Coming(d, k) ==
  \/ k \in content[d]
  \/ \E p \in Push : srv[p] = "write" /\ Sent(p) = d /\ written[p] < k

\* Pushes of one digest truncate what the others have written, but whoever comes last to a
\* file has all of it still to write: no block is ever given up unless a write of that very
\* file fails, or the registry dies, in that step.
OnlyFaultsLeaveGaps ==
  [][\A d \in Digest : \A k \in Block :
       Coming(d, k) /\ ~Coming(d, k)'
         => RegistryCrash \/ \E p \in Push : WriteFails(p) /\ Sent(p) = d]_vars

\* What a worker pulls is the archive, and not a part of it.
PulledWhole == \A w \in Puller : pulled[w] # "part"

C == INSTANCE Catalog

\* Registry and control plane, with pushes that overlap, fail and die, are a catalog.
CatalogSpec == C!Spec

-----------------------------------------------------------------------------
(* Why: what a push relies on at each point, though others share its file.   *)

\* From the end of the stream on a push is about one digest, and from the answer
\* on there is a file for it.
PushInv ==
  \A p \in Push :
    /\ srv[p] # "none" /\ tar[p] # "running" => build[p] \in Build
    /\ srv[p] \in {"check", "open", "write", "reply"} => tar[p] # "running"
    /\ srv[p] \in {"write", "reply"} => Sent(p) \in stored
    /\ cli[p] \in {"await", "name"} =>
         /\ srv[p] = "none" /\ build[p] \in Build
         /\ tar[p] # "running" /\ Sent(p) \in stored /\ key[p] \in Name
    /\ cli[p] = "name" => tar[p] = "done"
    /\ cli[p] = "push" => srv[p] # "none" /\ key[p] \in Name

\* Nothing that has been handed out lacks its file.
HandedOutInv ==
  /\ \A n \in Name : names[n] # NoDigest => names[n] \in stored
  /\ \A w \in Puller : asked[w] # NoDigest => asked[w] \in stored

\* A push, the control plane and the pulls only ever refer to digests that have a
\* file, and the control plane only to those of complete tars.
DeployInductive ==
  TypeOK /\ PushInv /\ HandedOutInv /\ NamedIsComplete /\ NamedNeverMissing

=============================================================================
