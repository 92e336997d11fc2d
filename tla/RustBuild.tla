----------------------------- MODULE RustBuild -----------------------------
(***************************************************************************)
(* RustBuild::build (services/cli push/rust.rs): cargo builds the project  *)
(* and the command takes the binary from where it expects cargo to have    *)
(* left it.  The target directory is shared with everyone who builds the   *)
(* project and keeps the binaries of all earlier builds, while the sources *)
(* are being edited: nothing but the agreement of the command's choice     *)
(* with what cargo builds makes the binary it finds the one just built.    *)
(*                                                                         *)
(* A version stands for the state of a package's sources.  A place stands  *)
(* for the directory of one target triple and profile.                     *)
(***************************************************************************)
EXTENDS Naturals, Sequences

CONSTANTS
  Push,        \* runs of the command at a time; a finished one is reused
  Package, Bin,
  Owner,       \* Owner[b]: the package of a binary
  Bins,        \* Bins[p]: the binary targets of a package, in cargo's order
  Workspace,   \* the projects there may be, some of Projects
  Place,       \* target triples and profiles that configurations ask for
  MaxEdits,    \* bound on the versions of a package
  NoPackage, NoBin, NoConfig

\* packages: what cargo metadata lists, in its order; root: the package at the
\* project's path, if there is one; elsewhere: cargo's target directory is not
\* the project's own (it is a member of an outer workspace, or CARGO_TARGET_DIR
\* is set).
Projects == [packages : Seq(Package), root : Package \cup {NoPackage}, elsewhere : BOOLEAN]

ASSUME RustBuildAssumption ==
  /\ Owner \in [Bin -> Package]
  /\ Bins \in [Package -> Seq(Bin)]
  /\ \A p \in Package : \A k \in DOMAIN Bins[p] : Owner[Bins[p][k]] = p
  /\ \A w \in Workspace :
       /\ w \in Projects
       /\ w.packages # <<>>
       /\ w.root = NoPackage \/ \E k \in DOMAIN w.packages : w.packages[k] = w.root
  /\ MaxEdits \in Nat
  /\ NoPackage \notin Package
  /\ NoBin \notin Bin

Version == 0 .. MaxEdits + 1     \* 0: nothing

\* What Nocti.toml asks for, and whether the path on the command line is relative.
Config == [package : Package \cup {NoPackage}, bin : Bin \cup {NoBin},
           place : Place, relative : BOOLEAN]

VARIABLES
  project,   \* the project
  source,    \* the version of each package's sources
  artifact,  \* the version of each binary in the project's target directory
  pc,        \* where each push is
  config,    \* what it was asked for
  chosen,    \* the binary target it has chosen
  began,     \* the sources when its build began
  seen,      \* the sources its cargo compiles
  output     \* the version of the file bootstrap it hands on

vars == <<project, source, artifact, pc, config, chosen, began, seen, output>>

Stages == {"idle", "select", "build", "compile", "locate", "copy", "archive"}

TypeOK ==
  /\ project \in Workspace
  /\ source \in [Package -> Version \ {0}]
  /\ artifact \in [Place \X Bin -> Version]
  /\ pc \in [Push -> Stages]
  /\ config \in [Push -> Config \cup {NoConfig}]
  /\ chosen \in [Push -> Bin \cup {NoBin}]
  /\ began \in [Push -> [Package -> Version]]
  /\ seen \in [Push -> [Package -> Version]]
  /\ output \in [Push -> Version]

Nothing == [p \in Package |-> 0]

\* A fresh checkout.
Init ==
  /\ project \in Workspace
  /\ source = [p \in Package |-> 1]
  /\ artifact = [x \in Place \X Bin |-> 0]
  /\ pc = [u \in Push |-> "idle"]
  /\ config = [u \in Push |-> NoConfig]
  /\ chosen = [u \in Push |-> NoBin]
  /\ began = [u \in Push |-> Nothing]
  /\ seen = [u \in Push |-> Nothing]
  /\ output = [u \in Push |-> 0]

-----------------------------------------------------------------------------
(* The command's choice, and cargo's.  *)

Listed == {project.packages[k] : k \in DOMAIN project.packages}

\* find_package, as the set of its results.  cargo's manifest paths are absolute,
\* and equal to the project's only if that is absolute, too.
FindPackage(c) ==
  IF c.package # NoPackage THEN Listed \cap {c.package}
  ELSE IF project.root # NoPackage /\ ~c.relative THEN {project.root}
  ELSE {project.packages[1]}

\* find_binary_target: the one of that name, or the first.
FindBinary(c, p) ==
  IF c.bin # NoBin THEN {b \in {c.bin} : \E k \in DOMAIN Bins[p] : Bins[p][k] = b}
  ELSE {Bins[p][k] : k \in DOMAIN Bins[p] \cap {1}}

Choices(c) == UNION {FindBinary(c, p) : p \in FindPackage(c)}

\* cargo build builds the package of the directory it is started in, or all the
\* members of a workspace that has none there.
Built == IF project.root # NoPackage THEN {project.root} ELSE Listed

-----------------------------------------------------------------------------
Goto(u, from, to) ==
  /\ pc[u] = from
  /\ pc' = [pc EXCEPT ![u] = to]

\* The build ends, with an error or with its output on the way to the registry.
Finish(u) ==
  /\ pc' = [pc EXCEPT ![u] = "idle"]
  /\ config' = [config EXCEPT ![u] = NoConfig]
  /\ chosen' = [chosen EXCEPT ![u] = NoBin]
  /\ began' = [began EXCEPT ![u] = Nothing]
  /\ seen' = [seen EXCEPT ![u] = Nothing]
  /\ output' = [output EXCEPT ![u] = 0]
  /\ UNCHANGED <<project, source, artifact>>

\* The configuration is read and the build begins.
Start(u) ==
  /\ Goto(u, "idle", "select")
  /\ \E c \in Config : config' = [config EXCEPT ![u] = c]
  /\ began' = [began EXCEPT ![u] = source]
  /\ UNCHANGED <<project, source, artifact, chosen, seen, output>>

\* Bug: a binary that is there already is taken without a build.
SelectUnbuilt(u) ==
  /\ Goto(u, "select", "locate")
  /\ \E b \in Choices(config[u]) : chosen' = [chosen EXCEPT ![u] = b]
  /\ UNCHANGED <<project, source, artifact, config, began, seen, output>>

Select(u) ==
  /\ Goto(u, "select", "build")
  /\ \E b \in Choices(config[u]) : chosen' = [chosen EXCEPT ![u] = b]
  /\ UNCHANGED <<project, source, artifact, config, began, seen, output>>

\* No Cargo.toml, no cargo or an error of its metadata; no such package, or no
\* such binary in it.
SelectFails(u) == pc[u] = "select" /\ Finish(u)

\* Bug: a cargo does not wait for the one that compiles.
CargoStartsBeside(u) ==
  /\ Goto(u, "build", "compile")
  /\ seen' = [seen EXCEPT ![u] = source]
  /\ UNCHANGED <<project, source, artifact, config, chosen, began, output>>

\* One cargo at a time: it locks the target directory.
CargoStarts(u) ==
  /\ \A v \in Push : pc[v] # "compile"
  /\ Goto(u, "build", "compile")
  /\ seen' = [seen EXCEPT ![u] = source]
  /\ UNCHANGED <<project, source, artifact, config, chosen, began, output>>

\* What a cargo that compiled u's configuration leaves, having got as far as done.
Leave(u, done) ==
  artifact' =
    IF project.elsewhere THEN artifact
    ELSE [x \in Place \X Bin |->
            IF x[1] = config[u].place /\ Owner[x[2]] \in done THEN seen[u][Owner[x[2]]]
            ELSE artifact[x]]

CargoEnds(u) ==
  /\ Goto(u, "compile", "locate")
  /\ Leave(u, Built)
  /\ UNCHANGED <<project, source, config, chosen, began, seen, output>>

\* Bug: the exit status of cargo is not looked at.
CargoFailsUnseen(u) ==
  /\ Goto(u, "compile", "locate")
  /\ \E done \in SUBSET Built : Leave(u, done)
  /\ UNCHANGED <<project, source, config, chosen, began, seen, output>>

\* Some of it does not compile.
CargoFails(u) ==
  /\ pc[u] = "compile"
  /\ \E done \in SUBSET Built :
       /\ done # Built
       /\ pc' = [pc EXCEPT ![u] = "idle"]
       /\ Leave(u, done)
  /\ config' = [config EXCEPT ![u] = NoConfig]
  /\ chosen' = [chosen EXCEPT ![u] = NoBin]
  /\ began' = [began EXCEPT ![u] = Nothing]
  /\ seen' = [seen EXCEPT ![u] = Nothing]
  /\ UNCHANGED <<project, source, output>>

Binary(u) == artifact[<<config[u].place, chosen[u]>>]

\* get_binary_path, validate_binary_exists
Locate(u) ==
  /\ Goto(u, "locate", "copy")
  /\ Binary(u) # 0
  /\ UNCHANGED <<project, source, artifact, config, chosen, began, seen, output>>

\* "Expected binary not found"
LocateFails(u) ==
  /\ pc[u] = "locate"
  /\ Binary(u) = 0
  /\ Finish(u)

CopyBinary(u) ==
  /\ Goto(u, "copy", "archive")
  /\ output' = [output EXCEPT ![u] = Binary(u)]
  /\ UNCHANGED <<project, source, artifact, config, chosen, began, seen>>

CopyFails(u) == pc[u] = "copy" /\ Finish(u)

HandOn(u) == pc[u] = "archive" /\ Finish(u)

-----------------------------------------------------------------------------
(* The developer.  *)

Edit(p) ==
  /\ source[p] <= MaxEdits
  /\ source' = [source EXCEPT ![p] = @ + 1]
  /\ UNCHANGED <<project, artifact, pc, config, chosen, began, seen, output>>

\* cargo build -p, into the project's own target directory.
DevBuild(x, b) ==
  /\ \A v \in Push : pc[v] # "compile"
  /\ artifact' = [artifact EXCEPT ![<<x, b>>] = source[Owner[b]]]
  /\ UNCHANGED <<project, source, pc, config, chosen, began, seen, output>>

Next ==
  \/ \E u \in Push :
       \/ Start(u) \/ Select(u) \/ SelectFails(u) \/ CargoStarts(u) \/ CargoEnds(u)
       \/ CargoFails(u) \/ Locate(u) \/ LocateFails(u) \/ CopyBinary(u) \/ CopyFails(u)
       \/ HandOn(u)
  \/ \E p \in Package : Edit(p)
  \/ \E x \in Place, b \in Bin : DevBuild(x, b)

Spec == Init /\ [][Next]_vars

-----------------------------------------------------------------------------
Fresh(u) == output[u] >= began[u][Owner[chosen[u]]]

\* What a push hands on is at least as new as the sources it began with: the binary
\* it finds after the build is one the build has made.
PushedIsBuilt == \A u \in Push : pc[u] = "archive" => Fresh(u)

\* It is whenever the chosen package is one that cargo builds in the project's own
\* target directory, although other builds, of other versions and configurations,
\* of this command and the developer, share that directory and may fail halfway.
BuiltIsPushed ==
  \A u \in Push :
    pc[u] = "archive" /\ Owner[chosen[u]] \in Built /\ ~project.elsewhere => Fresh(u)

\* A binary is never replaced by one of older sources, although a cargo may have read
\* its sources long before it writes, and others edit, build and fail meanwhile.
BinariesOnlyRenew == [][\A x \in Place \X Bin : artifact'[x] >= artifact[x]]_vars

-----------------------------------------------------------------------------
(* Why: sources only get newer, and one cargo compiles at a time.            *)

\* What each push relies on: its choice is made before the build, and a cargo that
\* others run after its own has seen sources that are no older than it needs.
FreshInv ==
  \A u \in Push :
    /\ pc[u] # "idle" => config[u] \in Config /\ \A p \in Package : began[u][p] <= source[p]
    /\ pc[u] \notin {"idle", "select"} => chosen[u] \in Bin
    /\ pc[u] = "compile" => \A p \in Package : began[u][p] <= seen[u][p]
    /\ \A v \in Push : pc[v] = "compile" =>
         /\ pc[u] = "compile" => u = v
         /\ pc[u] \in {"locate", "copy"} => \A p \in Package : began[u][p] <= seen[v][p]
    /\ pc[u] \in {"locate", "copy"} /\ Owner[chosen[u]] \in Built /\ ~project.elsewhere
         => Binary(u) >= began[u][Owner[chosen[u]]]

\* Pushes and developer, failing builds and edits together preserve all of it.
BuildInductive == TypeOK /\ FreshInv /\ BuiltIsPushed

\* Nothing in the target directory is newer than its sources, or than what the cargo that
\* compiles has seen.
AgeInv ==
  \A x \in Place \X Bin :
    /\ artifact[x] <= source[Owner[x[2]]]
    /\ \A u \in Push : pc[u] = "compile" =>
         /\ artifact[x] <= seen[u][Owner[x[2]]]
         /\ seen[u][Owner[x[2]]] <= source[Owner[x[2]]]

=============================================================================
