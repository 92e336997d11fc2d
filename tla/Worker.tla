------------------------------- MODULE Worker -------------------------------
(***************************************************************************)
(* One worker process of NoctiForge (services/worker): concurrent Execute  *)
(* calls, the background reaper, the shutdown, and what they leave on the  *)
(* host's disk and in the container runtime.                               *)
(*                                                                         *)
(*  - A call resolves its action to a digest, queues for the one mutex     *)
(*    around NativeWorker, and holds it until its answer: through the      *)
(*    table lookup, the download, the creation of bundle and container,    *)
(*    the probing of the function's socket and the function itself.        *)
(*  - The reaper wakes up, takes a snapshot of the table's keys and        *)
(*    deletes each entry it finds expired.  On CTRL+C the main task        *)
(*    deletes every entry, while calls and reaper are still running.       *)
(*  - Package cache, bundles and containers outlive the process.           *)
(*                                                                         *)
(* Every action runs from one point where the code may be suspended, or    *)
(* seen by another thread, to the next.  The table's own critical sections *)
(* do no I/O and are one action each.  Time is a set of entries whose last *)
(* access lies more than resource_ttl back.  What may go wrong in a run is *)
(* chosen by the constant Faults.                                          *)
(***************************************************************************)
EXTENDS Naturals

CONSTANTS
  Request,      \* Execute calls served at a time; a finished one is reused
  Digest,       \* what the control plane may answer
  Id,           \* instance ids
  Short,        \* Short[d]: the first 16 characters of d, for the digests
                \*   that have as many
  Arc,          \* identities of Arc<Mutex<Invocation>> cells
  MaxAttempts,  \* probes of a new server's socket (300 in the code)
  Faults,       \* which of FaultKinds the environment commits
  NoRequest, NoDigest, NoId, NoArc

Deleters == {"reaper", "main"}   \* the tasks that run FunctionInvocations::delete

\* "fail": an operation returns Err; "cancel": a caller hangs up; "crash": the
\* process dies; "shutdown": CTRL+C; "exit": a function's process ends.
FaultKinds == {"fail", "cancel", "crash", "shutdown", "exit"}

ASSUME ConstantsAssumption ==
  /\ DOMAIN Short \subseteq Digest
  /\ \A d \in DOMAIN Short : Short[d] \in Id
  /\ MaxAttempts \in Nat \ {0}
  /\ Faults \subseteq FaultKinds
  /\ NoRequest \notin Request
  /\ NoDigest \notin Digest
  /\ NoId \notin Id
  /\ NoArc \notin Arc

VARIABLES
  phase,      \* of the process
  pc,         \* where each call is
  dig,        \* the digest each call was given
  attempt,    \* probes each call has seen fail
  holder,     \* the call that holds the NativeWorker mutex
  functions,  \* the invocation table: the cell of each id, or NoArc
  stale,      \* the cells last accessed more than resource_ttl ago
  dpc,        \* where each deleter is
  did,        \* the id each deleter works on
  todo,       \* the keys each deleter has yet to look at
  peeked,     \* the cell the reaper has looked up and not finished with
  pkgs,       \* the package cache: native_worker/pkgs/<digest>
  rootfs,     \* the bundles: <root>/run/<id>
  ctr         \* the containers: <root>/state/<id> and their processes

processVars == <<phase>>
callVars    == <<pc, dig, attempt, holder>>
tableVars   == <<functions, stale>>
deleterVars == <<dpc, did, todo, peeked>>
bundleVars  == <<rootfs, ctr>>
hostVars    == <<pkgs, rootfs, ctr>>
vars == <<phase, pc, dig, attempt, holder, functions, stale,
          dpc, did, todo, peeked, pkgs, rootfs, ctr>>

-----------------------------------------------------------------------------
(* Where a call can be.  *)

Outside      == {"idle", "resolve", "queued"}
Fetching     == {"fetch", "mkpkg", "unpack"}
Claiming     == {"exists", "mkdir"}
Provisioning == {"copy", "build", "start", "insert"}
Using        == {"wait", "connect", "invoke"}
Holding      == {"lookup"} \cup Fetching \cup Claiming \cup Provisioning \cup Using

\* Between these points the code does not await: a call that is dropped there
\* runs on to its next await first.
Suspended == (Holding \ {"exists", "build", "start"}) \cup {"resolve", "queued"}

Draining == {"load", "kill", "rmdir"}

Inst(r)   == Short[dig[r]]
CanFail   == "fail" \in Faults
Up        == phase \in {"serving", "stopping"}
Mapped(i) == functions[i] # NoArc
Cells     == {functions[i] : i \in Id} \cup {peeked}

TypeOK ==
  /\ phase \in {"serving", "stopping", "exited", "crashed"}
  /\ pc \in [Request -> Outside \cup Holding]
  /\ dig \in [Request -> Digest \cup {NoDigest}]
  /\ attempt \in [Request -> 0 .. MaxAttempts - 1]
  /\ holder \in Request \cup {NoRequest}
  /\ functions \in [Id -> Arc \cup {NoArc}]
  /\ stale \subseteq Arc
  /\ dpc \in [Deleters -> {"sleep", "scan", "check", "remove", "done"} \cup Draining]
  /\ did \in [Deleters -> Id \cup {NoId}]
  /\ todo \in [Deleters -> SUBSET Id]
  /\ peeked \in Arc \cup {NoArc}
  /\ pkgs \in [Digest -> {"absent", "partial", "whole"}]
  /\ rootfs \in [Id -> {"absent", "partial", "complete"}]
  /\ ctr \in [Id -> {"absent", "created", "running", "stopped"}]

\* A worker started on a fresh host.
Init ==
  /\ phase = "serving"
  /\ pc = [r \in Request |-> "idle"]
  /\ dig = [r \in Request |-> NoDigest]
  /\ attempt = [r \in Request |-> 0]
  /\ holder = NoRequest
  /\ functions = [i \in Id |-> NoArc]
  /\ stale = {}
  /\ dpc = [a \in Deleters |-> "sleep"]
  /\ did = [a \in Deleters |-> NoId]
  /\ todo = [a \in Deleters |-> {}]
  /\ peeked = NoArc
  /\ pkgs = [d \in Digest |-> "absent"]
  /\ rootfs = [i \in Id |-> "absent"]
  /\ ctr = [i \in Id |-> "absent"]

-----------------------------------------------------------------------------
(* A call: WorkerServer::execute and, under the mutex, NativeWorker::execute. *)

Goto(r, from, to) ==
  /\ pc[r] = from
  /\ pc' = [pc EXCEPT ![r] = to]

\* Bug: the guard of the mutex is leaked.
AnswerKeepsMutex(r) ==
  /\ pc' = [pc EXCEPT ![r] = "idle"]
  /\ dig' = [dig EXCEPT ![r] = NoDigest]
  /\ attempt' = [attempt EXCEPT ![r] = 0]
  /\ UNCHANGED holder

\* The future of the call ends, with a reply, an error or by being dropped, and
\* with it the guard of the mutex if it held it.
Answer(r) ==
  /\ pc' = [pc EXCEPT ![r] = "idle"]
  /\ dig' = [dig EXCEPT ![r] = NoDigest]
  /\ attempt' = [attempt EXCEPT ![r] = 0]
  /\ holder' = IF holder = r THEN NoRequest ELSE holder

\* A live connection delivers Execute calls during the shutdown too.
Arrive(r) ==
  /\ Up
  /\ Goto(r, "idle", "resolve")
  /\ UNCHANGED <<processVars, dig, attempt, holder, tableVars, deleterVars, hostVars>>

Resolve(r) ==
  /\ Goto(r, "resolve", "queued")
  /\ \E d \in Digest : dig' = [dig EXCEPT ![r] = d]
  /\ UNCHANGED <<processVars, attempt, holder, tableVars, deleterVars, hostVars>>

\* Bug: the worker is shared without its mutex.
AcquireUnlocked(r) ==
  /\ Goto(r, "queued", "lookup")
  /\ holder' = r
  /\ UNCHANGED <<processVars, dig, attempt, tableVars, deleterVars, hostVars>>

Acquire(r) ==
  /\ holder = NoRequest
  /\ Goto(r, "queued", "lookup")
  /\ holder' = r
  /\ UNCHANGED <<processVars, dig, attempt, tableVars, deleterVars, hostVars>>

\* &digest[..16] panics on a shorter digest; unwinding releases the mutex.
PrefixPanics(r) ==
  /\ pc[r] = "lookup"
  /\ dig[r] \notin DOMAIN Short
  /\ Answer(r)
  /\ UNCHANGED <<processVars, tableVars, deleterVars, hostVars>>

\* FunctionInvocations::get touches the entry it returns.
LookupHit(r) ==
  /\ Goto(r, "lookup", "wait")
  /\ dig[r] \in DOMAIN Short
  /\ Mapped(Inst(r))
  /\ stale' = stale \ {functions[Inst(r)]}
  /\ UNCHANGED <<processVars, dig, attempt, holder, functions, deleterVars, hostVars>>

LookupMiss(r) ==
  /\ Goto(r, "lookup", "fetch")
  /\ dig[r] \in DOMAIN Short
  /\ ~Mapped(Inst(r))
  /\ UNCHANGED <<processVars, dig, attempt, holder, tableVars, deleterVars, hostVars>>

-----------------------------------------------------------------------------
(* RegistryClient::get_tar_by_digest *)

\* Any directory of that name counts as the cached archive.
FetchCached(r) ==
  /\ Goto(r, "fetch", "exists")
  /\ pkgs[dig[r]] # "absent"
  /\ UNCHANGED <<processVars, dig, attempt, holder, tableVars, deleterVars, hostVars>>

\* connect, pull and the messages of its answer, none of which has a deadline: a registry
\* that hangs keeps the call, and the mutex, as a function may.
Download(r) ==
  /\ Goto(r, "fetch", "mkpkg")
  /\ pkgs[dig[r]] = "absent"
  /\ UNCHANGED <<processVars, dig, attempt, holder, tableVars, deleterVars, hostVars>>

\* create_dir refuses a directory that is there.
MakePkgDir(r) ==
  /\ Goto(r, "mkpkg", "unpack")
  /\ pkgs[dig[r]] = "absent"
  /\ pkgs' = [pkgs EXCEPT ![dig[r]] = "partial"]
  /\ UNCHANGED <<processVars, dig, attempt, holder, tableVars, deleterVars, bundleVars>>

\* Bug: the errors of the archive's entries are dropped.
UnpackRegardless(r) ==
  /\ Goto(r, "unpack", "exists")
  /\ \E s \in {"partial", "whole"} : pkgs' = [pkgs EXCEPT ![dig[r]] = s]
  /\ UNCHANGED <<processVars, dig, attempt, holder, tableVars, deleterVars, bundleVars>>

Unpack(r) ==
  /\ Goto(r, "unpack", "exists")
  /\ pkgs' = [pkgs EXCEPT ![dig[r]] = "whole"]
  /\ UNCHANGED <<processVars, dig, attempt, holder, tableVars, deleterVars, bundleVars>>

-----------------------------------------------------------------------------
(* ProccesContainer::new *)

\* Bug: no check that the bundle's directory is free.
RootfsTaken(r) ==
  /\ Goto(r, "exists", "mkdir")
  /\ UNCHANGED <<processVars, dig, attempt, holder, tableVars, deleterVars, hostVars>>

RootfsFree(r) ==
  /\ Goto(r, "exists", "mkdir")
  /\ rootfs[Inst(r)] = "absent"
  /\ UNCHANGED <<processVars, dig, attempt, holder, tableVars, deleterVars, hostVars>>

\* "Root filesystem path already exists"
RootfsExists(r) ==
  /\ pc[r] = "exists"
  /\ rootfs[Inst(r)] # "absent"
  /\ Answer(r)
  /\ UNCHANGED <<processVars, tableVars, deleterVars, hostVars>>

MakeRootfs(r) ==
  /\ Goto(r, "mkdir", "copy")
  /\ rootfs' = [rootfs EXCEPT ![Inst(r)] = "partial"]
  /\ UNCHANGED <<processVars, dig, attempt, holder, tableVars, deleterVars, pkgs, ctr>>

CopyPackage(r) ==
  /\ Goto(r, "copy", "build")
  /\ rootfs' = [rootfs EXCEPT ![Inst(r)] = "complete"]
  /\ UNCHANGED <<processVars, dig, attempt, holder, tableVars, deleterVars, pkgs, ctr>>

\* Bug: the entry is inserted without starting the container.
BuildUnstarted(r) ==
  /\ Goto(r, "build", "insert")
  /\ ctr' = [ctr EXCEPT ![Inst(r)] = "created"]
  /\ UNCHANGED <<processVars, dig, attempt, holder, tableVars, deleterVars, pkgs, rootfs>>

BuildContainer(r) ==
  /\ Goto(r, "build", "start")
  /\ ctr' = [ctr EXCEPT ![Inst(r)] = "created"]
  /\ UNCHANGED <<processVars, dig, attempt, holder, tableVars, deleterVars, pkgs, rootfs>>

\* A build that fails may or may not leave the container's state directory.
BuildFails(r) ==
  /\ CanFail
  /\ pc[r] = "build"
  /\ \E s \in {"absent", "created"} : ctr' = [ctr EXCEPT ![Inst(r)] = s]
  /\ Answer(r)
  /\ UNCHANGED <<processVars, tableVars, deleterVars, pkgs, rootfs>>

StartContainer(r) ==
  /\ Goto(r, "start", "insert")
  /\ ctr' = [ctr EXCEPT ![Inst(r)] = "running"]
  /\ UNCHANGED <<processVars, dig, attempt, holder, tableVars, deleterVars, pkgs, rootfs>>

\* FunctionInvocations::insert, of a cell no one else has.
Insert(r) ==
  /\ Goto(r, "insert", "wait")
  /\ \E c \in Arc \ Cells :
       /\ functions' = [functions EXCEPT ![Inst(r)] = c]
       /\ stale' = stale \ {c}
  /\ UNCHANGED <<processVars, dig, attempt, holder, deleterVars, hostVars>>

-----------------------------------------------------------------------------
(* wait_for_server_ready, connect and invoke.  The server may not be listening  *)
(* yet, so a probe can fail though the container runs.                          *)

ProbeOk(r) ==
  /\ Goto(r, "wait", "connect")
  /\ ctr[Inst(r)] = "running"
  /\ attempt' = [attempt EXCEPT ![r] = 0]
  /\ UNCHANGED <<processVars, dig, holder, tableVars, deleterVars, hostVars>>

\* Bug: one probe too many.
ProbeOnceMore(r) ==
  /\ pc[r] = "wait"
  /\ attempt[r] + 1 <= MaxAttempts
  /\ attempt' = [attempt EXCEPT ![r] = @ + 1]
  /\ UNCHANGED <<processVars, pc, dig, holder, tableVars, deleterVars, hostVars>>

ProbeAgain(r) ==
  /\ pc[r] = "wait"
  /\ attempt[r] + 1 < MaxAttempts
  /\ attempt' = [attempt EXCEPT ![r] = @ + 1]
  /\ UNCHANGED <<processVars, pc, dig, holder, tableVars, deleterVars, hostVars>>

\* Bug: the call drops the entry of a server that does not come up.
ProbeForgets(r) ==
  /\ pc[r] = "wait"
  /\ attempt[r] + 1 = MaxAttempts
  /\ Answer(r)
  /\ functions' = [functions EXCEPT ![Inst(r)] = NoArc]
  /\ UNCHANGED <<processVars, stale, deleterVars, hostVars>>

\* "Server failed to start": the entry stays in the table.
ProbeGivesUp(r) ==
  /\ pc[r] = "wait"
  /\ attempt[r] + 1 = MaxAttempts
  /\ Answer(r)
  /\ UNCHANGED <<processVars, tableVars, deleterVars, hostVars>>

Connect(r) ==
  /\ Goto(r, "connect", "invoke")
  /\ ctr[Inst(r)] = "running"
  /\ UNCHANGED <<processVars, dig, attempt, holder, tableVars, deleterVars, hostVars>>

Reply(r) ==
  /\ pc[r] = "invoke"
  /\ ctr[Inst(r)] = "running"
  /\ Answer(r)
  /\ UNCHANGED <<processVars, tableVars, deleterVars, hostVars>>

\* The container has gone meanwhile, and the socket with it.
LoseServer(r) ==
  /\ pc[r] \in {"connect", "invoke"}
  /\ ctr[Inst(r)] # "running"
  /\ Answer(r)
  /\ UNCHANGED <<processVars, tableVars, deleterVars, hostVars>>

\* connect or invoke fails though the container runs.
CallBreaks(r) ==
  /\ CanFail
  /\ pc[r] \in {"connect", "invoke"}
  /\ Answer(r)
  /\ UNCHANGED <<processVars, tableVars, deleterVars, hostVars>>

\* An operation of the other steps returns Err and ? ends the call: what it and
\* the steps before it have done stays done.
StepFails(r) ==
  /\ CanFail \/ (pc[r] = "mkpkg" /\ pkgs[dig[r]] # "absent")
  /\ pc[r] \in {"resolve", "fetch", "mkpkg", "unpack", "mkdir", "copy", "start"}
  /\ pc[r] = "fetch" => pkgs[dig[r]] = "absent"
  /\ Answer(r)
  /\ UNCHANGED <<processVars, tableVars, deleterVars, hostVars>>

\* The caller hangs up and the future is dropped where it waits.  A mkdir already
\* handed to the blocking pool still happens, here at the latest.
Cancel(r) ==
  /\ "cancel" \in Faults
  /\ pc[r] \in Suspended
  /\ Answer(r)
  /\ \/ UNCHANGED <<pkgs, rootfs>>
     \/ /\ pc[r] = "mkpkg" /\ pkgs[dig[r]] = "absent"
        /\ pkgs' = [pkgs EXCEPT ![dig[r]] = "partial"]
        /\ UNCHANGED rootfs
     \/ /\ pc[r] = "mkdir"
        /\ rootfs' = [rootfs EXCEPT ![Inst(r)] = "partial"]
        /\ UNCHANGED pkgs
  /\ UNCHANGED <<processVars, tableVars, deleterVars, ctr>>

-----------------------------------------------------------------------------
(* The deleters: BackgroundJob and delete_all.                              *)

\* An Arc lives as long as someone holds it.
Forget == stale' = stale \cap ({functions'[i] : i \in Id} \cup {peeked'})

Proceed(a, from, to) ==
  /\ dpc[a] = from
  /\ dpc' = [dpc EXCEPT ![a] = to]

\* The reaper's sleep ends, or CTRL+C has been received: both take the keys.
Snapshot(a) ==
  /\ IF a = "reaper" THEN Up ELSE phase = "stopping"
  /\ Proceed(a, "sleep", "scan")
  /\ todo' = [todo EXCEPT ![a] = {i \in Id : Mapped(i)}]
  /\ UNCHANGED <<processVars, callVars, tableVars, did, peeked, hostVars>>

\* Bug: delete_all goes on until it finds the table empty.
ScannedUntilEmpty(a) ==
  /\ Proceed(a, "scan", IF a = "reaper" /\ phase = "serving" THEN "sleep"
                        ELSE IF a = "main" /\ \E i \in Id : Mapped(i) THEN "sleep"
                        ELSE "done")
  /\ todo[a] = {}
  /\ UNCHANGED <<processVars, callVars, tableVars, did, todo, peeked, hostVars>>

\* The reaper ends its loop once it is cancelled; delete_all returns.
Scanned(a) ==
  /\ Proceed(a, "scan", IF a = "reaper" /\ phase = "serving" THEN "sleep" ELSE "done")
  /\ todo[a] = {}
  /\ UNCHANGED <<processVars, callVars, tableVars, did, todo, peeked, hostVars>>

\* delete_all goes straight to the deletion of each key.
PickNext(i) ==
  /\ Proceed("main", "scan", "remove")
  /\ i \in todo["main"]
  /\ todo' = [todo EXCEPT !["main"] = @ \ {i}]
  /\ did' = [did EXCEPT !["main"] = i]
  /\ UNCHANGED <<processVars, callVars, tableVars, peeked, hostVars>>

\* background::execute looks at the entry first, and does not touch it.
Peek(i) ==
  /\ Proceed("reaper", "scan", "check")
  /\ i \in todo["reaper"]
  /\ Mapped(i)
  /\ todo' = [todo EXCEPT !["reaper"] = @ \ {i}]
  /\ did' = [did EXCEPT !["reaper"] = i]
  /\ peeked' = functions[i]
  /\ UNCHANGED <<processVars, callVars, tableVars, hostVars>>

PeekNothing(i) ==
  /\ i \in todo["reaper"]
  /\ ~Mapped(i)
  /\ dpc["reaper"] = "scan"
  /\ todo' = [todo EXCEPT !["reaper"] = @ \ {i}]
  /\ UNCHANGED <<processVars, callVars, tableVars, dpc, did, peeked, hostVars>>

\* Is the cell that was peeked at, which may no longer be the table's, expired?
CheckExpired ==
  /\ peeked \in stale
  /\ Proceed("reaper", "check", "remove")
  /\ UNCHANGED <<processVars, callVars, tableVars, did, todo, peeked, hostVars>>

CheckFresh ==
  /\ peeked \notin stale
  /\ Proceed("reaper", "check", "scan")
  /\ did' = [did EXCEPT !["reaper"] = NoId]
  /\ peeked' = NoArc
  /\ UNCHANGED <<processVars, callVars, tableVars, todo, hostVars>>

-----------------------------------------------------------------------------
(* FunctionInvocations::delete: the table first, then the host.              *)

Release(a) == peeked' = IF a = "reaper" THEN NoArc ELSE peeked

Remove(a) ==
  /\ Proceed(a, "remove", "load")
  /\ Mapped(did[a])
  /\ functions' = [functions EXCEPT ![did[a]] = NoArc]
  /\ Release(a)
  /\ Forget
  /\ UNCHANGED <<processVars, callVars, did, todo, hostVars>>

\* Bug: the host is cleaned up whether or not there was an entry.
RemoveRegardless(a) ==
  /\ Proceed(a, "remove", "load")
  /\ ~Mapped(did[a])
  /\ Release(a)
  /\ UNCHANGED <<processVars, callVars, functions, did, todo, hostVars>>
  /\ Forget

\* removed.is_none(): someone else has deleted it.
RemoveNothing(a) ==
  /\ Proceed(a, "remove", "scan")
  /\ ~Mapped(did[a])
  /\ did' = [did EXCEPT ![a] = NoId]
  /\ Release(a)
  /\ UNCHANGED functions
  /\ Forget
  /\ UNCHANGED <<processVars, callVars, todo, hostVars>>

\* ProccesContainer::load starts a container that is not running.
LoadContainer(a) ==
  /\ Proceed(a, "load", "kill")
  /\ ctr[did[a]] # "absent"
  /\ ctr' = [ctr EXCEPT ![did[a]] = "running"]
  /\ UNCHANGED <<processVars, callVars, tableVars, did, todo, peeked, pkgs, rootfs>>

\* cleanup: the container, then the bundle if it is there.
KillContainer(a) ==
  /\ Proceed(a, "kill", "rmdir")
  /\ ctr' = [ctr EXCEPT ![did[a]] = "absent"]
  /\ UNCHANGED <<processVars, callVars, tableVars, did, todo, peeked, pkgs, rootfs>>

\* Bug: cleanup leaves the bundle.
RemoveNoRootfs(a) ==
  /\ Proceed(a, "rmdir", "scan")
  /\ did' = [did EXCEPT ![a] = NoId]
  /\ UNCHANGED <<processVars, callVars, tableVars, todo, peeked, hostVars>>

RemoveRootfs(a) ==
  /\ Proceed(a, "rmdir", "scan")
  /\ rootfs' = [rootfs EXCEPT ![did[a]] = "absent"]
  /\ did' = [did EXCEPT ![a] = NoId]
  /\ UNCHANGED <<processVars, callVars, tableVars, todo, peeked, pkgs, ctr>>

\* Bug: cleanup goes on to the bundle though the container could not be deleted.
DeleteGoesOn(a) ==
  /\ CanFail
  /\ Proceed(a, "kill", "rmdir")
  /\ UNCHANGED <<processVars, callVars, tableVars, did, todo, peeked, hostVars>>

\* Bug: the first error ends the reaper.
DeleteFailsForGood(a) ==
  /\ dpc[a] \in Draining
  /\ CanFail \/ (dpc[a] = "load" /\ ctr[did[a]] # "running")
  /\ dpc' = [dpc EXCEPT ![a] = "done"]
  /\ todo' = [todo EXCEPT ![a] = {}]
  /\ did' = [did EXCEPT ![a] = NoId]
  /\ UNCHANGED <<processVars, callVars, tableVars, peeked, hostVars>>

\* The reaper logs the error and goes on; delete_all gives up.  Loading fails also
\* when the runtime refuses to start a container whose process has ended.
DeleteFails(a) ==
  /\ dpc[a] \in Draining
  /\ CanFail \/ (dpc[a] = "load" /\ ctr[did[a]] # "running")
  /\ dpc' = [dpc EXCEPT ![a] = IF a = "reaper" THEN "scan" ELSE "done"]
  /\ todo' = [todo EXCEPT ![a] = IF a = "reaper" THEN @ ELSE {}]
  /\ did' = [did EXCEPT ![a] = NoId]
  /\ rootfs' = IF dpc[a] = "rmdir" THEN [rootfs EXCEPT ![did[a]] = "partial"] ELSE rootfs
  /\ UNCHANGED <<processVars, callVars, tableVars, peeked, pkgs, ctr>>

-----------------------------------------------------------------------------
(* The process and its surroundings.                                         *)

\* An entry's last access falls more than resource_ttl behind.
Expire(c) ==
  /\ c \in Cells \ (stale \cup {NoArc})
  /\ stale' = stale \cup {c}
  /\ UNCHANGED <<processVars, callVars, functions, deleterVars, hostVars>>

\* A function's process ends by itself.
ContainerExits(i) ==
  /\ "exit" \in Faults
  /\ ctr[i] = "running"
  /\ ctr' = [ctr EXCEPT ![i] = "stopped"]
  /\ UNCHANGED <<processVars, callVars, tableVars, deleterVars, pkgs, rootfs>>

\* CTRL+C: the reaper is cancelled and delete_all begins.
ShutdownSignal ==
  /\ "shutdown" \in Faults
  /\ phase = "serving"
  /\ phase' = "stopping"
  /\ UNCHANGED <<callVars, tableVars, deleterVars, hostVars>>

\* Everything in memory goes; disk and detached containers stay.
Vanish(p) ==
  /\ phase' = p
  /\ pc' = [r \in Request |-> "idle"]
  /\ dig' = [r \in Request |-> NoDigest]
  /\ attempt' = [r \in Request |-> 0]
  /\ holder' = NoRequest
  /\ functions' = [i \in Id |-> NoArc]
  /\ stale' = {}
  /\ dpc' = [a \in Deleters |-> "sleep"]
  /\ did' = [a \in Deleters |-> NoId]
  /\ todo' = [a \in Deleters |-> {}]
  /\ peeked' = NoArc
  /\ UNCHANGED hostVars

\* main returns and the runtime drops every task that is left.
Exit ==
  /\ phase = "stopping"
  /\ dpc["main"] = "done"
  /\ Vanish("exited")

Crash ==
  /\ "crash" \in Faults
  /\ Up
  /\ Vanish("crashed")

\* main starts with an empty table and looks at nothing on the host.
Restart ==
  /\ phase \in {"exited", "crashed"}
  /\ phase' = "serving"
  /\ UNCHANGED <<callVars, tableVars, deleterVars, hostVars>>

-----------------------------------------------------------------------------
\* What a call goes on to do whatever others do: work on this host, and a bounded wait
\* for a socket.
CallStep(r) ==
  \/ PrefixPanics(r) \/ LookupHit(r) \/ LookupMiss(r)
  \/ FetchCached(r) \/ MakePkgDir(r) \/ Unpack(r)
  \/ RootfsFree(r) \/ RootfsExists(r) \/ MakeRootfs(r) \/ CopyPackage(r)
  \/ BuildContainer(r) \/ StartContainer(r) \/ Insert(r)
  \/ ProbeOk(r) \/ ProbeAgain(r) \/ ProbeGivesUp(r)
  \/ Connect(r) \/ LoseServer(r)

\* What depends on others: the caller, control plane and registry, the mutex, the function;
\* and failures, which nothing is owed.
CallEvent(r) ==
  \/ Arrive(r) \/ Resolve(r) \/ Acquire(r) \/ Download(r) \/ Reply(r)
  \/ BuildFails(r) \/ StepFails(r) \/ CallBreaks(r) \/ Cancel(r)

DeleterStep(a) ==
  \/ Snapshot(a) \/ Scanned(a) \/ Remove(a) \/ RemoveNothing(a)
  \/ LoadContainer(a) \/ KillContainer(a) \/ RemoveRootfs(a) \/ DeleteFails(a)

ReaperStep ==
  \/ \E i \in Id : Peek(i) \/ PeekNothing(i)
  \/ CheckExpired \/ CheckFresh

MainStep == (\E i \in Id : PickNext(i)) \/ Exit

Surroundings ==
  \/ \E c \in Arc : Expire(c)
  \/ \E i \in Id : ContainerExits(i)
  \/ ShutdownSignal \/ Crash \/ Restart

Next ==
  \/ \E r \in Request : CallStep(r) \/ CallEvent(r)
  \/ \E a \in Deleters : DeleterStep(a)
  \/ ReaperStep \/ MainStep
  \/ Surroundings

Spec == Init /\ [][Next]_vars

\* tokio polls every ready task, and its mutex is first come, first served.  It is not
\* assumed that a function, the registry or the control plane ever answers.
Fairness ==
  /\ \A r \in Request : WF_vars(CallStep(r)) /\ SF_vars(Acquire(r))
  /\ \A a \in Deleters : WF_vars(DeleterStep(a))
  /\ WF_vars(ReaperStep) /\ WF_vars(MainStep)

FairSpec == Spec /\ Fairness

-----------------------------------------------------------------------------
(* What the pieces of state say of each other.                               *)

Provisions(r, i) == pc[r] \in Provisioning /\ Inst(r) = i
Drains(a, i)     == dpc[a] \in Draining /\ did[a] = i

\* An entry of the table always points at a whole bundle and a container that
\* has been started: a call that hits never meets one that is under construction
\* (organizer.rs inserts last) or being taken down (delete removes first).
EntryBacked ==
  \A i \in Id : Mapped(i) => rootfs[i] = "complete" /\ ctr[i] \in {"running", "stopped"}

\* An instance id belongs to at most one of the table, a call that creates it and
\* a task that deletes it, although calls do not hold the table's lock while they
\* create and the deleters do not take the calls' mutex at all.
ExclusiveOwner ==
  \A i \in Id :
    /\ \A r \in Request : Provisions(r, i) =>
         /\ ~Mapped(i)
         /\ \A q \in Request : Provisions(q, i) => q = r
         /\ \A a \in Deleters : ~Drains(a, i)
    /\ \A a \in Deleters : Drains(a, i) =>
         /\ ~Mapped(i)
         /\ \A b \in Deleters : Drains(b, i) => b = a

\* No container is left without its bundle, whatever fails or is interrupted:
\* the bundle is made before the container and cleanup deletes the container
\* before the bundle.  (The "already exists" check of create_rootfs looks at the
\* bundle only, and would let such a container's id be built again.)
BundleOutlivesContainer ==
  \A i \in Id : ctr[i] # "absent" => rootfs[i] # "absent"

\* background::execute checks one cell and deletes by name, two critical sections
\* apart.  While the worker serves, the entry it deletes is the one it checked:
\* no call can have replaced it in between.
ReaperRemovesChecked ==
  phase = "serving" /\ dpc["reaper"] = "remove"
    => functions[did["reaper"]] = peeked

\* Where each instance id is in its life, for the abstract specification.
StageOf(i) ==
  IF Mapped(i) THEN "serving"
  ELSE IF \E r \in Request : Provisions(r, i) THEN "provisioning"
  ELSE IF \E a \in Deleters : Drains(a, i) THEN "draining"
  ELSE IF rootfs[i] = "absent" THEN "vacant"
  ELSE "wedged"

Stage == [i \in Id |-> StageOf(i)]

Lifecycle == INSTANCE InstanceLifecycle WITH stage <- Stage

\* Whatever calls, reaper and shutdown do at the same time, each id goes round its
\* life in order, and once its bundle is lost track of it is out of use for good.
LifecycleSpec == Lifecycle!Spec

\* What the code knowingly gives an id up for: the call that builds it fails or its
\* caller hangs up, its deletion fails or meets a container that has stopped, or the
\* process ends.
Lost(i) ==
  \/ \E r \in Request :
       /\ pc[r] \in {"mkdir"} \cup Provisioning /\ Inst(r) = i
       /\ StepFails(r) \/ BuildFails(r) \/ Cancel(r)
  \/ \E a \in Deleters :
       Drains(a, i) /\ DeleteFails(a) /\ (CanFail \/ ctr[i] = "stopped")
  \/ Exit \/ Crash

\* Nothing else ever costs an id: no interleaving of calls, reaper and shutdown
\* leaves a bundle (container.rs refuses its id from then on) unless one of these
\* has happened to that very id in that very step.
OnlyFaultsWedge ==
  [][\A i \in Id : StageOf(i) # "wedged" /\ StageOf(i)' = "wedged" => Lost(i)]_vars

\* An archive a call copies into a bundle is whole: the directory that
\* get_tar_by_digest finds and takes for the cached archive is one.
CachedArchiveWhole == \A r \in Request : pc[r] = "copy" => pkgs[dig[r]] = "whole"

\* A part of a package that nobody is unpacking: every later call takes it for the cached
\* archive.
Abandoned(d) == pkgs[d] = "partial" /\ \A r \in Request : ~(pc[r] = "unpack" /\ dig[r] = d)

\* The call that has it in hand, from the mkdir to the last entry, ends with an error or a
\* hang-up; or the process ends.
BrokenOff(d) ==
  \/ \E r \in Request :
       pc[r] \in {"mkpkg", "unpack"} /\ dig[r] = d /\ (StepFails(r) \/ Cancel(r))
  \/ Exit \/ Crash

\* Nothing else ever leaves a part of a package that no call is at work on: no interleaving
\* of calls for one digest, which check, make and fill the directory apart, does it.
OnlyFaultsAbandon == [][\A d \in Digest : ~Abandoned(d) /\ Abandoned(d)' => BrokenOff(d)]_vars

\* A worker that has shut down leaves no function running on the host.
ShutdownLeavesNothing == phase = "exited" => \A i \in Id : ctr[i] = "absent"

\* If no call stays in its function or in its download for ever, every queued call gets
\* the worker and is answered.  These two are what a call waits for under the mutex without
\* a bound; the rest (directories, container, probes) comes to an end by itself, whichever
\* way it goes, and every way gives the mutex back.
QueuedCallsServed ==
  (\A r \in Request : []<>(pc[r] \notin {"fetch", "invoke"}))
    => \A r \in Request : pc[r] = "queued" ~> pc[r] = "idle"

\* An expired entry does not stay: the reaper deletes it, even while a function or
\* the registry hangs under the calls' mutex and when the deletion of other entries fails,
\* unless a call touches it or the process ends first.
StaleReaped ==
  \A i \in Id :
    (phase = "serving" /\ functions[i] \in stale)
      ~> (functions[i] \notin stale \/ phase # "serving")

\* After CTRL+C the process ends, whatever calls and reaper go on doing.
ShutdownEnds == phase = "stopping" ~> phase # "stopping"

-----------------------------------------------------------------------------
(* Why these hold: what a call, a deleter and the reaper can rely on at each *)
(* point, in spite of all the others.                                        *)

MutexInv == \A r \in Request : pc[r] \in Holding <=> holder = r

\* A call that missed keeps finding no entry; from the claim on, its id is its own.
ClaimInv ==
  \A r \in Request :
    /\ pc[r] \in Holding \ {"lookup"} => dig[r] \in DOMAIN Short
    /\ pc[r] \in Fetching \cup Claiming \cup Provisioning => ~Mapped(Inst(r))
    /\ pc[r] = "mkdir" => rootfs[Inst(r)] = "absent"
    /\ pc[r] \in Provisioning => rootfs[Inst(r)] # "absent"
    /\ pc[r] \in {"build", "start", "insert"} => rootfs[Inst(r)] = "complete"
    /\ pc[r] = "insert" => ctr[Inst(r)] \in {"running", "stopped"}

\* Long after it has looked, the call that comes to make the directory still finds it
\* absent; and nobody else fills the one that it has made, or takes it away.
FetchInv ==
  \A r \in Request :
    /\ pc[r] = "mkpkg" => pkgs[dig[r]] = "absent"
    /\ pc[r] = "unpack" => pkgs[dig[r]] = "partial"

\* A deleter has its id to itself from the removal of the entry to that of the bundle.
DrainInv ==
  \A a \in Deleters :
    /\ dpc[a] \in {"check", "remove"} \cup Draining => did[a] \in Id
    /\ dpc[a] \in Draining =>
         /\ ~Mapped(did[a])
         /\ rootfs[did[a]] # "absent"
         /\ \A b \in Deleters : Drains(b, did[a]) => b = a
         /\ \A r \in Request : ~Provisions(r, did[a])
    /\ dpc[a] = "load" => ctr[did[a]] \in {"running", "stopped"}
    /\ dpc[a] = "rmdir" => ctr[did[a]] = "absent"

\* delete_all runs only during the shutdown: while the worker serves, the reaper
\* alone removes entries.
ReaperInv ==
  /\ phase # "stopping" => dpc["main"] = "sleep"
  /\ ~Up => dpc["reaper"] = "sleep"
  /\ phase = "serving" /\ dpc["reaper"] \in {"check", "remove"} =>
       peeked # NoArc /\ functions[did["reaper"]] = peeked

\* What the calls, the deleters and the table know of each other, together, is
\* preserved by every step of any of them, whatever fails.
Inductive ==
  /\ TypeOK
  /\ MutexInv
  /\ ClaimInv
  /\ DrainInv
  /\ ReaperInv
  /\ EntryBacked
  /\ BundleOutlivesContainer

=============================================================================
