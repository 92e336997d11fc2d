# NoctiForge: models and proofs

NoctiForge runs functions in containers. A developer pushes the code of a
function with the command line; a *registry* stores it under the digest of its
content; a *control plane* remembers which digest a function's name stands for; a
*worker* is asked to execute a function by name, gets the code, starts a
container for it, forwards the call over a Unix socket, and deletes containers
that have not been used for a while. This directory holds TLA+ models of these
parts, the TLC configurations that check them, and proofs checked by TLAPS.

## Inventory

| Part | State | Operations | What is hard about it |
|---|---|---|---|
| worker server, organizer (`services/worker/src/server.rs`, `worker/organizer.rs`) | one mutex around `NativeWorker` | `execute`: ask for the digest, lock, look up or create an instance, probe its socket, invoke | many calls in flight, callers that hang up, a mutex held across I/O and the user's function |
| invocation table (`worker/function_invocations.rs`) | map of instance id to `Arc<Mutex<Invocation>>` | `get`, `peek`, `keys`, `insert`, `delete`, `delete_all` | used by calls under the worker's mutex and by reaper and shutdown outside it |
| reaper (`background.rs`) | a task, a cancellation token | sleep, snapshot of the keys, check, delete | check and deletion are apart; errors; cancellation |
| process containers (`worker/container.rs`) | bundle `<root>/run/<id>`, container `<root>/state/<id>` | `new`, `load`, `cleanup` | outlive the process; every step may fail and leave the others' results |
| package cache (`client/registry_clint.rs`, `path.rs`) | `native_worker/pkgs/<digest>` | `get_tar_by_digest`, `copy_dir_all` | existence of the directory stands for completeness |
| worker process (`main.rs`) | everything above | start, CTRL+C, `delete_all`, exit | calls and reaper go on during the shutdown; restart over leftovers |
| registry (`services/registry`) | files `<digest>.tar` | `push`, `pull` | write is not atomic and is skipped if the file exists |
| control plane (`services/controlplane`) | a table of names in SQLite | get, set (upsert) | last writer wins |
| `cli push` (`services/cli/src/command/push/mod.rs`) | a build directory, a tar task, a pipe | build, tar, push, join, set the name | two tasks of which one may fail while the other succeeds |
| rust builds (`push/rust.rs`) | the project's sources and target directory, shared with everybody who builds it | choose package and binary, run cargo, find and copy the binary | what is found need not be what was built |
| custom builds (`push/custom.rs`) | a build directory, a shell and what it has started | run a script with a timeout, look at its output | processes that outlive shell, timeout and command, and write beside the walk that reads |
| sdk (`libs/sdk/src/lib.rs`) | the server inside a function, its socket file | `start`, `invoke` | panics of handlers, a socket file that outlives its process |
| trigger, configuration, OCI spec, proto | none | | |

Calls go from the command line to registry, control plane and worker, and from
the worker to control plane, registry and its containers, all by gRPC. Inside the
worker, calls and reaper share the table, and all of them the host's disk and
container runtime. `PROJECT.json` lists the hazards of this code at their lines
and the properties aimed at them.

## Modules

| Module | What it is |
|---|---|
| `InstanceLifecycle` | abstract: the life of one instance id: vacant, provisioning, serving, draining, or *wedged* (lost track of for good) |
| `Worker` | one worker process with its calls, reaper, shutdown, crash and restart, and the host's disk and runtime; implements `InstanceLifecycle` |
| `MCWorker` | small worlds for `Worker` |
| `Worker_proofs`, `WorkerLifecycle_proofs` | theorems about `Worker` |
| `Bundle` | what `Worker` takes in one step: `create_rootfs` and the traversal of a package, entry by entry |
| `Sdk` | the server inside a function |
| `Host` | `Bundle` and `Sdk` composed: a process in its bundle |
| `MCPackage` | small worlds for `Digest` and `Host` |
| `Bundle_proofs`, `Host_proofs` | theorems about `Bundle` and `Host` |
| `Catalog` | abstract: what registry and control plane together promise |
| `Deploy` | pushes, registry, control plane and pulling workers; implements `Catalog` |
| `MCDeploy` | small worlds for `Deploy` |
| `Deploy_proofs` | theorems about `Deploy` |
| `Digest` | what the registry's push decides by: `get_digest`, entry by entry, and whether something is stored under the result |
| `Digest_proofs` | theorems about `Digest` |
| `CustomBuild` | a custom build: command, shell, and the other processes of its script |
| `Delivery` | `CustomBuild` and `Deploy` composed: from the script to the name; implements both |
| `Delivery_proofs` | theorems about `CustomBuild` and `Delivery` |
| `MCDelivery` | a small world for `Delivery` |
| `RustBuild` | the rust build of `cli push`, beside other pushes and a developer in one project |
| `MCRustBuild` | small worlds for `RustBuild` |
| `RustBuild_proofs` | theorems about `RustBuild` |

Definitions whose comment begins with "Bug:" are no part of the specifications:
each is a form of the definition after it that a plausible mistake in the code
would give it, and shows that a property would notice (`PROJECT.json`, "mutants").

### Worker

State: `pc`, `dig`, `attempt` of each call; `holder` of the mutex; `functions`,
the table, from ids to cells (`Arc`s with an identity, since the reaper may hold
one that the table no longer does); `stale`, the cells whose last access lies more
than `resource_ttl` back; `dpc`, `did`, `todo` of the two tasks that delete (the
reaper, and the main task in `delete_all`); `peeked`, the reaper's cell; and on
the host `pkgs`, `rootfs`, `ctr`; `phase` of the process.

An action is what the code does from one point where it may be suspended, or be
seen by another thread, to the next. `FunctionInvocations` takes its lock for
in-memory work only, so each of its critical sections is one action. The awaits of
`create_rootfs` between the directory and the last copy are one step `CopyPackage`
(nothing in between is visible to other calls or to the deleters but by what a failure
leaves, which is the state "partial"; `Bundle` has these steps one by one). Connecting
to the registry, the pull and the receipt of the data are one step `Download`, since
they change nothing on the worker; it may never come to an end. `create_dir` refuses a
directory that is there: `MakePkgDir` needs it absent, and `StepFails` is what happens
otherwise. Building and starting a container do not await; they
are separate actions because other threads see what they leave.

- *Instance ids.* The first 16 characters of a digest (`organizer.rs:125`). `Short`
  is any partial map: digests may share an id, or be too short to have one.
- *Time.* `Expire` makes any cell stale at any time; a `get` by a call makes it
  fresh. Real durations only restrict when it happens. Sleeping is enabled to end
  at any time for the same reason.
- *Faults* are chosen per run: `fail` (an operation returns `Err`), `cancel` (the
  caller hangs up: tonic drops the call's future at its await; a `mkdir` already
  handed to tokio's blocking pool still happens, here no later than the moment of the
  cancellation), `crash`, `shutdown`, `exit` (a function's process ends). A function
  that never answers needs no fault: `Reply` has no fairness.
- *Shutdown.* `main` drops the serve future (`main.rs:82-89`). tonic runs each
  accepted connection as a task of its own, which goes on until `main` returns; so
  calls arrive and run in phase "stopping" too.
- *External:* libcontainer. A build that fails may or may not leave a state
  directory; starting a container whose process has ended succeeds or fails; killing
  and deleting succeeds or fails without effect.

`Stage` is the refinement mapping: an id serves if it is in the table, is being
provisioned by the call between `mkdir` and `insert`, drains from its removal from
the table to the removal of its bundle, and is otherwise vacant or wedged depending
on whether its bundle exists.

### Deploy

A push is a client (`cli`, `build`, `key`, `tar`) and a task of the registry
(`srv`, `written`), which outlives the client once the stream has ended. `stored`
and `content` are the files, `names` the control plane's table; `asked` and
`pulled` are workers. `fs::write` is `Open` (create or truncate), `WriteBlock`
for each of `Blocks` pieces, and `WriteDone`. A digest is a constant function of
the build and of whether the tar was complete. Two tars of one digest are taken to
hold the same files; `Digest` says how far that is so. A push gets its build when the
tar task has read it, and loses it when neither command nor registry need it any more.
SQLite's upsert is atomic and durable; an error answer of the control plane is
`SetFails`. The registry may refuse (`Rejected`) what it cannot read to the end as an
archive: what a failed tar task has left, or what one has made whose files changed under it.

### Bundle, Sdk, Host

`Bundle`: `at`, where `create_rootfs` is; the `package`, a tree of entries of which some
are links (to a file, which `fs::copy` follows) or *odd* (links to a directory or to
nothing, sockets: `fs::copy` refuses them); the `copy`; and the traversal's `stack`, the
directory it is at (`here`) and that one's `entries` still to come. Stack and directory
order are left open: a set stands for the stack. Any step may fail, and the call may be
dropped in it; what there is stays, and only a bundle that was built is ever removed.
After a failure the model turns to another place, as a worker does with another id.

`Sdk`: `proc`, the function's process; `socket`, the file `/run/app.sock`, which its
listener outlives or leaves *stale*; and of each request where it is (`call`), what the
handler will do with it (`kind`), and what the worker makes of the `answer`. A handler is
a function that makes a future, so it may panic twice: when it is called (inside
`catch_unwind`), or when its future runs (outside). hyper runs each request as a task,
whose panic resets that stream alone.

`Host` composes them. `Launch` is the start of the container, possible only for a bundle
that is built (`container.rs:149-157`), the first time or again (`load_with_deps`);
`Delete` removes container and bundle together (the order between them is `Worker`'s
business). The rest of either part leaves the other alone.

### CustomBuild

A script is a set of jobs that each write one file; those in `Background` run as processes
of their own, and the shell waits for the ones in `Awaited`. `Answered` are the jobs the
shell does itself or waits for: an exit with status 0 says that these are done (a script
that reports success it does not have is outside of what the command could notice). State:
`step` of each command; `shell`, running or the status it has left; `running`, the
background jobs that are still there; `output`, the files of the temporary directory;
`unread`, what the tar task has not done with, and `archived`, what there is of each file
in the archive. `append_dir_all` of tokio-tar (external, version 0.3.1: it is modelled
from what it is known to do) opens and measures a file and writes a header with the length
(`AddHeader`), then copies the file to its end, whatever its length is by then
(`AddContent`). A process that writes in between may leave the entry *skewed*: longer or
shorter than its header says. Whoever reads the archive goes by the headers, so an entry
that comes after a skewed one is found, or else passed over without a word (it is
swallowed as content, or zeros look like the end); `archived` is what a reader finds.
Which of the two depends on bytes and sizes that the model leaves open. The validation,
the paths and the spawn are `PrepareFails` or `Spawn`. The timeout may strike whenever the
shell runs, and kills only it (`kill_on_drop`); so may the command itself be killed, and
then nothing is. What a process writes after the directory is removed goes nowhere.

### Delivery

`push::run` is where the two meet: `HandOver` is the end of the build and the opening of
the push request; the end of the walk (`Archived`, `Torn`) is the end of `Deploy`'s tar
task, and the build that `Deploy` gives it is what a reader finds in the archive
(`ArchiveOf`); the registry only refuses an archive that was torn or has a skewed entry; the
end of the push is the end of the command in both. Only those actions are joint. A registry
that crashes and the workers that pull are left to `Deploy`.

### Digest

An archive is a sequence of entries (type, name, content); `get_digest` feeds prefix, name
and content of each to the hash, and the hash is taken to tell inputs apart, so the digest
is the input as a sequence of tokens. State: `step`, where a push is; the entries `left`,
the `hasher`; what is `stored`. A push ends with an error (an entry that cannot be read, a
file that cannot be opened), by skipping the write, or with the file. Two histories serve
the properties alone: `fed`, the entries that were hashed, and with each stored digest the
entries it came from. One push after the other is enough here: a push computes its digest
from its own data, and how writes overlap is `Deploy`'s business. `DigestDiscerns` says
what can be relied on: archives with the same outline (files and folders of the same
names, in the same order) and contents free of the prefixes share a digest only if they
have the same contents. It does not hold without either condition, because there are no
lengths: a file `a` with content `bc` and a file `ab` with content `c` are one to the
hash, and so are a file whose content contains `file:b` and two files. Mode bits, links
and everything else in a header are not hashed at all.

### RustBuild

State: the `project` (which packages cargo lists, in which order; whether one is at the
project's path; whether cargo's target directory is elsewhere), the version of each
package's sources (`source`) and of each binary in the target directory (`artifact`), and
of each push where it is (`pc`), its `config`, the binary it has `chosen`, the sources
when it `began`, the ones its cargo has `seen`, and its `output`. What a push of `Deploy`
calls its build is the output of one run of these steps, or of those of `CustomBuild`.

`validate_project`, `get_metadata`, `find_package` and `find_binary_target` are one
step, since they only read what does not change here; any of them may fail. cargo is
external: it locks the target directory (one compiles at a time), it compiles the
sources as they are when it starts, it leaves the binaries of the packages it has
compiled, some of them if it fails, and it builds the package of the directory it
is started in or, where there is none, all members (`default-members` is left out).
`DevBuild` is a developer who builds any one binary; a binary name belongs to one
package, as cargo asks for. Nobody removes the target directory.

## Runs

| Run | World | Shows |
|---|---|---|
| `worker_safety` | 1 call slot, 2 ids, 3 cells, 1 probe; fail, cancel, exit; fairness | `TypeOK`, `EntryBacked`, `BundleOutlivesContainer`, `ReaperRemovesChecked`, refinement of the life cycle, `StaleReaped` |
| `worker_restart` | 2 calls, 3 digests (two share an id, one too short), 1 id, 2 cells, 2 probes; all faults | `ExclusiveOwner`, the inductive invariant, `FetchInv`, refinement, `OnlyFaultsWedge`, `OnlyFaultsAbandon` |
| `worker_calls` | 2 calls, 1 id; fail, exit, shutdown; fairness | `QueuedCallsServed`, `ShutdownEnds` |
| `worker_shutdown` | 1 call, 1 id; shutdown | counterexample to `ShutdownLeavesNothing` |
| `worker_cache` | 2 calls, 1 id; fail | counterexample to `CachedArchiveWhole` |
| `deploy_safety` | 2 pushes of different code, 1 name, 1 worker, 2 blocks; all faults | `TypeOK`, `NamedNeverMissing`, `NamedIsComplete`, the inductive invariant, refinement of the catalog, `SettledStays`, `OnlyFaultsLeaveGaps` |
| `package` | two worlds: every archive of up to 2 of 10 entries, after any other; 4 packages of 4 places, 1 call slot; fairness | `DigestDiscerns`; `BundleComplete`, `RunsOnComplete`, `SocketInv`, `ServerComesUp`, `CallsAnswered`, the inductive invariant of the traversal |
| `delivery` | 2 pushes of scripts of 2 jobs, one in the background, 1 name; tar, client, set; fairness | `SentComplete`, `NamedHoldsAnswered`, `NamedSettles`, `BuildEnds`, the inductive invariants |
| `sdk_panic` | 1 call slot | counterexample to `PanicsAnswered` |
| `deploy_pull` | 2 pushes of the same code, 1 name, 1 worker, 2 blocks; no fault | counterexample to `PulledWhole` |
| `rust_build` | 2 pushes, 2 packages of one binary each, 4 layouts, 2 versions and every configuration for them | `BuiltIsPushed`, `BinariesOnlyRenew`, the inductive invariants |
| `rust_stale` | 1 push, a workspace with a package at its root | counterexample to `PushedIsBuilt` |

*Bounds.* A call slot is reused as soon as its call ends, so a slot stands for any number
of calls one after the other. The mutex admits one call at a time; a second slot is what
it takes to have a call queue behind, and to break things if there were no mutex. With two
ids one instance is created, used or deleted beside another; the two deleters are in
`worker_restart` and `worker_calls`, at one entry, which is where they could meet, and
that they may be at different ones as well is left to the proofs, which have no bound on
ids. One more cell than ids is needed: the reaper may hold one the table has dropped. The
number of probes bounds a loop that changes nothing but its counter. In `rust_build` a
second push, with an edit in between, is what it takes for a binary to be replaced between
cargo's end and the copy; the four layouts are the cases of `FindPackage` and `Built`. Two
blocks distinguish empty, partial and whole files. Two entries are what it takes for the
end of a content to meet the next prefix; the proof has archives of any length.

In `package` the two worlds share no state (pull and cache lie between them, in `Deploy` and
`Worker`), and a behaviour is one of one of them: each moves only while the other is in
its initial state. The packages have an entry of each kind, a directory below a directory,
an empty one and an odd entry at depth two. A call slot is used again.

In `delivery` one
job that the shell answers for and one that it does not are the two kinds there are; with
two pushes, of which one at a time is busy with a script (`Together`), they meet in the
registry, where those of equal output share a digest. The files of jobs nobody answers for
leave no trace in these archives, so that pushes do meet, but when skewed, and then
nothing else is found. `LogBound`: the background job of the first push never has the
whole of its file (nobody asks whether it has), and that of the second push writes none,
since this push is there to meet the first.

What holds in these worlds by chance of size is what the
proofs rule out: they have no bounds.

*Deadlock* is checked in every run.

*Fairness.* tokio polls every ready task, so a step of a call, a deleter or the main task
that stays enabled is taken (`WF`). `Acquire` has strong fairness: tokio's mutex hands
itself to waiters first come, first served, and the lock is free again and again rather
than for ever. `Reply` and `Download` have none: nothing in the code bounds the time of a
function (no deadline on `invoke`, `organizer.rs:80`) or of a registry's answer
(`registry_clint.rs:47-66`), and a call waits for both under the mutex. This is why
`QueuedCallsServed` assumes that no call stays in its function or its download for ever,
and why `StaleReaped` and `ShutdownEnds` are interesting without that assumption. The
control plane's answer (`Resolve`), errors of any step, arrivals, expiry, faults, CTRL+C
and restarts have none either. In `Deploy` the steps of command and registry have `WF`,
the start of a push and faults none. In `Delivery` it is the same, and the timeout of a
script is among the command's steps (it is tokio's), while shell, background processes and
their writing owe nothing: `BuildEnds` holds for a script that hangs. In `Host` a process
that was started runs its server, and each request is polled; a handler that hangs is a
kind of its own.

## Where code and its texts disagree

1. `worker_shutdown`: `main.rs:77` says "Graceful shutdown with signal handling", and
   `main.rs:91` logs "Server shut down gracefully"; the worker can exit with
   functions running that nothing will ever stop, because `delete_all` works on one
   snapshot of the keys while calls and reaper go on until `main` returns.
2. `worker_cache`: `registry_clint.rs:30` takes any directory for a "cached archive",
   also the one a failed extraction has left, and nothing ever removes it.
3. `deploy_pull`: `registry.rs:136` skips the write of a file that is still being
   written and answers, so a name can be set and its archive pulled in part without
   any failure.
4. `rust_stale`: `rust.rs:268` runs `cargo build` for the package of the directory,
   whatever `package_name` (`rust.rs:22`: "Expected package name (for workspaces)") or
   the fallback to the first package has chosen, and `rust.rs:331` accepts any binary at
   the expected place: the result of an earlier build is pushed. The fallback is
   taken for every relative path, since `rust.rs:224` compares the path as it was typed
   with cargo's absolute one. `BuiltIsPushed` says when all is well: the chosen
   package is one that cargo builds, in the project's own target directory.

5. `sdk_panic`: `lib.rs:68` says "Call the handler safely, catching panics", but
`catch_unwind` surrounds only the making of the future: a panic of an async handler's body
is not answered with `container/panic_triggered`, the caller gets a broken stream.
`CallsAnswered` says that it gets at least that.

Also seen, and not a run: the repository's README lists `push all`, `invoke` and
`list`; the command line has `push` and `trigger`. And a script may succeed while a process
that it has left in the background makes its file longer or shorter just when the walk is
between that file's header and its content (`push/mod.rs:128`): the archive is skewed from
there on, files that the script answers for may not be found in it, and the push succeeds.
`SentComplete` and `NamedHoldsAnswered` leave room for this, and for nothing else.

## Proofs

For all values of the constants (`ConstantsAssumption`, `DeployAssumption`,
`RustBuildAssumption`, `DigestAssumption`, `DeliveryAssumption`, and `IsTree` for
packages: the maps have the right domains, bounds are positive, the "No..." values are no
members, directories are in directories), TLAPS proves:

- `Worker_proofs`: `TypeCorrect`; `InductiveInvariant`, and from it `EntriesBacked`,
  `ContainersHaveBundles`, `ReaperDeletesWhatItChecked`, `OwnersExclusive`; `FetchesAlone`;
  `OnlyFaultsAbandonPackages`; `PartsAreUnpacked`, and from it `UninterruptedCopiesWhole`.
- `WorkerLifecycle_proofs`: `WorkerImplementsLifecycle`, and from its steps `LostForGood`;
  `OnlyFaultsCostIds`.
- `Deploy_proofs`: `DeployInvariant`, and from it `DeployTypeCorrect`, `HandedOutIsThere`,
  `NamesAreComplete`; `DeployImplementsCatalog`;
  `SettledForGood`, `GapsAreFaults`; `NothingLost`; `HandedOutAlone`, and from it
  `PulledWholeAlone`.
- `RustBuild_proofs`: `BuildInvariant`, and from it `PushesWhatItBuilt`; `AgeInvariant`, and
  from it `BinariesNeverAge`; `AllBuiltIsPushed`.
- `Digest_proofs`: `DigestInjective`, and with it `DigestsDiscern`.
- `Delivery_proofs`: about `CustomBuild`, `WalkInvariant`, and from it `TarsAreComplete`;
  `DeliveryImplementsDeploy`, `DeliveryImplementsBuild`, and from the latter `DeliveredWalk`,
  `DeliveredTarsComplete`; `DeliveryInvariant`, and from it `NamesHoldAnswered`, and
  from that `AwaitedAreWhole`.
- `Bundle_proofs`: `TraverseInvariant`, and from it `BundlesAreComplete`.
- `Host_proofs`: `HostImplementsBundle`, `FunctionsRunOnComplete`; `HostImplementsSdk`, and
  with it `HostServersBind`.

Some of these results have a hypothesis of their own. Those of `UninterruptedCopiesWhole`
and `PartsAreUnpacked` (no fault but `exit`: nothing fails, no caller hangs up, no process
ends while a call unpacks), of `PulledWholeAlone` and `HandedOutAlone` (one push at a
time, no write errors and no crashes of the registry) and of `AllBuiltIsPushed` (the
package at the root is the only one, or there is none, and the target directory is the
project's own) exclude just what the counterexamples `worker_cache`, `deploy_pull` and
`rust_stale` need: the same properties that fail in those runs hold for every size of the
world without it. `AwaitedAreWhole` is about scripts that wait for every process they
start: nothing then writes beside the walk, no entry is skewed, and a name stands for all
the script makes. `NothingLost` speaks of worlds without write errors and crashes, which
`GapsAreFaults` shows to be the only steps that leave a gap behind. No run checks these
once more; their invariants (`CacheInv` in `Worker_proofs`, `WriteInv`, `MissingIsComing`
and `HandedOutWhole` in `Deploy_proofs`) are definitions of the modules with the proofs.

*The worker's argument.* Calls do not hold the table's lock while they create an
instance, and the deleters never take the calls' mutex; what keeps them apart is an
order of steps, and `Inductive` writes it down. `MutexInv`: exactly the holder of the
mutex is past the lock. `ClaimInv`: a call that found no entry keeps finding none
(only calls insert), having found no bundle it is the only one to make it, and from
then on the id is its own. `DrainInv`: whoever took the entry out has the id to
himself: the bundle is still there, so no call gets past the existence check, and
there is no entry, so no other deleter gets past `removed.is_none()`. `ReaperInv`:
while the worker serves, only the reaper removes entries and a call inserts only
where there is none, so the cell it checked is the one it deletes. `EntryBacked` and
`BundleOutlivesContainer` follow along the order in which `new` and `cleanup` build
and remove. The refinement then goes by action: those that change no stage, `mkdir`
(provision), `insert` (publish), `remove` (withdraw), the end of `cleanup` (reclaim),
the ends that leave a bundle (wedge), and the end of the process (halt).

*The cache's argument.* Two things keep calls of one digest apart: the mutex, and
`create_dir`, which fails where a directory is. With the mutex a call that is about to
make the directory still finds it absent, and nobody else fills the one that it has made
(`FetchInv`). A part of a package that is there without a call at work on it was left by
the end of the call that had made it, since every other step of that call goes on with the
package or makes it whole (`OnlyFaultsAbandon`); without the mutex a second call would
copy the part while it is being unpacked. Without interruptions the call that has made a
directory also fills it: a part in the cache has a call that is still unpacking it, and no
other call gets as far as the copy meanwhile (`CacheInv`).

*Deploy's argument.* `PushInv` says what each point of a push implies about the others
(from the end of the stream the tar task has ended; from the answer on the file exists;
the name is set only after the task was joined), and `HandedOutInv` carries that to names
and workers; nothing ever removes a file. A file that exists is not opened any more but by
a push that decided to write it before it existed; so once it is whole with no such push
left (`Settled`), writing adds nothing and nothing truncates it. That no gap is left by
two writers goes by the last of them: a block missing from a file is still `Coming` if a
push that writes the file has it ahead. Whoever truncates has written nothing yet, each
writes from its beginning, and none ends before its last block (`WriteInv`), so only a
write that is broken off leaves a gap (`OnlyFaultsLeaveGaps`), and where none is, what is
missing is always coming (`MissingIsComing`). With one push at a time nobody is writing,
or about to, what a name or a worker already has (`HandedOutWhole`).

*RustBuild's argument.* `FreshInv`: a push began with sources no newer than today's, so
its cargo sees sources at least as new, and so does every cargo and developer that builds
after it (only one compiles at a time, and one that compiles while the push looks for its
binary has started after the push's own had ended). What is at the expected place then
never gets older than what the push needs, however many builds fail halfway.
`AgeInv` is the other direction: no binary is newer than its sources are, nor than what the
cargo that compiles has seen, so whatever that cargo writes is no older than what it
overwrites.

*Digest's argument.* `Marks` are the input of the hash before each entry and at the end. Up
to the first entry in which two archives of one outline differ, the marks agree; there both
contents begin at one place of one input, so one goes on where the other has come to the
prefix of its next entry, or to the end of the input. The former makes a content with a
prefix in it; the latter makes the other archive's input longer. Where this takes an
induction over entries or tokens, the proof takes the least or greatest number that would be
an exception instead, which the library's theorem on well-founded relations provides.

*CustomBuild's argument.* `WalkInv`: when the shell has reported success, what it answers
for is whole and the jobs it has waited for are over (`Ready`); no step up to the end of
the walk undoes that, since a file is only written by its own job, and the directory is
only removed by steps that end the walk. So the entries of these files are as long as
their headers say, and a reader finds them unless an earlier entry is skewed, which then
belongs to a job that the shell does not answer for, and stays in the archive.

*Delivery's argument.* Every step of the composition is a step, or none, of each part, so
the parts' invariants hold without another proof. `ArchiveInv` adds where they meet: while
a push waits for its tar task there is a walk, and when the task has ended well the
push's build is what is found in its archive. A name is only set after the join, and so only
to the digest of an archive that is complete, or has an entry that its length does not fit.

*Bundle's argument.* `TraverseInv`: below a copied directory every entry is copied, or on
the stack, or among the entries still to come of the directory being gone through. At the
end there is neither stack nor current directory, so the copied places contain the root and
with each place all below it; in a tree that is all of them. `Host` adds that a process is
only there while the bundle is built, when no step of `Bundle` but the removal is possible,
which removes the process too. The rest of `Host`, seen from `Sdk`, is its process being
launched, dying or being removed; and a server finds no socket where it binds, since `start`
removes what the last process has left, and nobody else is in its bundle (`SocketInv`).

*Only model-checked:* the liveness properties (`QueuedCallsServed`, `StaleReaped`,
`ShutdownEnds`, `NamedSettles`, `BuildEnds`, `ServerComesUp`, `CallsAnswered`: liveness
under fairness is beyond the installed provers). Every other property of a passing run is
a theorem.

## Not modelled, and why

- `worker/spec.rs`, `config.rs`, `libs/proto`, `trigger.rs`, `command.rs`, examples:
  construction of constants, parsing, generated code, one request and its printing: no
  state that outlives a step and nothing that runs beside it.
- What a function computes, payloads and metadata.
- Network partitions: an RPC either brings its answer or ends with an error.
- The inner locks of the table's cells: they are only taken for a moment, in the order
  table then cell.

## Plan

The parts that keep state are modelled. What may still be added:

1. `Platform`: `Worker` and `Deploy` composed. A partial pull (`deploy_pull`) is a failed or
   short extraction to `Worker`, whose cache keeps it (`worker_cache`); together they say
   how long a function stays broken. There, too, belongs the question which version a
   queued call runs (`server.rs:37`).
2. `InvocationTable`: the table at the level of its locks, implementing the atomic
   operations that `Worker` uses.
