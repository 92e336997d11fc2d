-------------------------- MODULE RustBuild_proofs --------------------------
(***************************************************************************)
(* For any projects, numbers of pushes, configurations and edits: a push   *)
(* hands on a binary no older than its sources if cargo builds the chosen  *)
(* package in the project's own target directory.                          *)
(***************************************************************************)
EXTENDS RustBuild, TLAPS

LEMMA RustBuildInit == Init => BuildInductive
  BY RustBuildAssumption
     DEF Init, BuildInductive, TypeOK, FreshInv, BuiltIsPushed, Version, Stages, Nothing

\* The project does not change.
LEMMA BuiltFixed == project' = project => Built' = Built
  BY DEF Built, Listed

LEMMA ChoiceIsBin ==
  ASSUME TypeOK, NEW c \in Config, NEW b \in Choices(c)
  PROVE  b \in Bin
<1>1. PICK p \in FindPackage(c) : b \in FindBinary(c, p)
  BY DEF Choices
<1>2. p \in Package
  BY RustBuildAssumption DEF FindPackage, Listed, Config, Projects, TypeOK
<1>3. Bins[p] \in Seq(Bin)
  BY <1>2, RustBuildAssumption
<1>4. \A k \in DOMAIN Bins[p] : Bins[p][k] \in Bin
  BY <1>3
<1> QED
  BY <1>1, <1>4 DEF FindBinary

\* A push that ends, wherever it is, takes nothing from the others.
LEMMA FinishInductive ==
  ASSUME BuildInductive, NEW u \in Push, Finish(u)
  PROVE  BuildInductive'
<1> USE DEF BuildInductive, TypeOK, Finish
<1>1. TypeOK'
  BY RustBuildAssumption DEF Version, Stages, Nothing
<1>2. FreshInv'
  BY <1>1, BuiltFixed DEF FreshInv, Binary
<1>3. BuiltIsPushed'
  BY BuiltFixed DEF BuiltIsPushed, Fresh
<1> QED
  BY <1>1, <1>2, <1>3

LEMMA BeginInductive ==
  ASSUME BuildInductive, NEW u \in Push, Start(u) \/ Select(u)
  PROVE  BuildInductive'
<1> USE DEF BuildInductive, TypeOK, Goto
<1>1. CASE Start(u)
  <2>1. PICK c \in Config : config' = [config EXCEPT ![u] = c]
    BY <1>1 DEF Start
  <2>2. TypeOK'
    BY <1>1, <2>1 DEF Start, Version, Stages
  <2>3. FreshInv'
    BY <1>1, <2>1, <2>2, BuiltFixed DEF Start, FreshInv, Binary, Version
  <2>4. BuiltIsPushed'
    BY <1>1, BuiltFixed DEF Start, BuiltIsPushed, Fresh
  <2> QED
    BY <2>2, <2>3, <2>4
<1>2. CASE Select(u)
  <2>1. config[u] \in Config
    BY <1>2 DEF Select, FreshInv
  <2>2. PICK b \in Bin : chosen' = [chosen EXCEPT ![u] = b]
    BY <1>2, <2>1, ChoiceIsBin DEF Select
  <2>3. TypeOK'
    BY <1>2, <2>2 DEF Select, Stages
  <2>4. FreshInv'
    BY <1>2, <2>2, BuiltFixed DEF Select, FreshInv, Binary
  <2>5. BuiltIsPushed'
    BY <1>2, BuiltFixed DEF Select, BuiltIsPushed, Fresh
  <2> QED
    BY <2>3, <2>4, <2>5
<1> QED
  BY <1>1, <1>2

\* What cargo sees is the sources, and those only get newer.
LEMMA CargoStartsInductive ==
  ASSUME BuildInductive, NEW u \in Push, CargoStarts(u)
  PROVE  BuildInductive'
<1> USE DEF BuildInductive, TypeOK, CargoStarts, Goto
<1>1. TypeOK'
  BY DEF Version, Stages
<1>2. \A v \in Push : pc[v] # "idle" => \A p \in Package : began[v][p] <= source[p]
  BY DEF FreshInv
<1>3. FreshInv'
  BY <1>1, <1>2, BuiltFixed DEF FreshInv, Binary
<1>4. BuiltIsPushed'
  BY BuiltFixed DEF BuiltIsPushed, Fresh
<1> QED
  BY <1>1, <1>3, <1>4

\* However far a cargo gets, what it leaves is its version or what was there.
LEMMA LeftByCargo ==
  ASSUME BuildInductive, NEW u \in Push, pc[u] = "compile",
         NEW done \in SUBSET Package, Leave(u, done)
  PROVE  /\ artifact' \in [Place \X Bin -> Version]
         /\ \A x \in Place \X Bin :
              \/ artifact'[x] = artifact[x]
              \/ artifact'[x] = seen[u][Owner[x[2]]]
         /\ ~project.elsewhere =>
              \A b \in Bin : Owner[b] \in done =>
                artifact'[<<config[u].place, b>>] = seen[u][Owner[b]]
<1>1. config[u].place \in Place
  BY DEF BuildInductive, FreshInv, Config
<1>2. \A x \in Place \X Bin : seen[u][Owner[x[2]]] \in Version
  BY RustBuildAssumption DEF BuildInductive, TypeOK
<1> QED
  BY <1>1, <1>2 DEF Leave, BuildInductive, TypeOK

\* The others who still look for their binary began before the compiling cargo started.
LEMMA OthersStillFresh ==
  ASSUME BuildInductive, NEW u \in Push, pc[u] = "compile",
         NEW done \in SUBSET Package, Leave(u, done),
         NEW v \in Push, pc[v] \in {"locate", "copy"},
         Owner[chosen[v]] \in Built, ~project.elsewhere
  PROVE  artifact'[<<config[v].place, chosen[v]>>] >= began[v][Owner[chosen[v]]]
<1>1. chosen[v] \in Bin /\ config[v].place \in Place
  BY DEF BuildInductive, FreshInv, Config
<1>2. Owner[chosen[v]] \in Package
  BY <1>1, RustBuildAssumption
<1>3. artifact[<<config[v].place, chosen[v]>>] >= began[v][Owner[chosen[v]]]
  BY DEF BuildInductive, FreshInv, Binary
<1>4. seen[u][Owner[chosen[v]]] >= began[v][Owner[chosen[v]]]
  BY <1>2 DEF BuildInductive, FreshInv, TypeOK, Version
<1>5. <<config[v].place, chosen[v]>> \in Place \X Bin
  BY <1>1
<1> QED
  BY <1>3, <1>4, <1>5, LeftByCargo

LEMMA CargoEndsInductive ==
  ASSUME BuildInductive, NEW u \in Push, CargoEnds(u)
  PROVE  BuildInductive'
<1>1. Built \in SUBSET Package
  BY RustBuildAssumption DEF Built, Listed, Projects, BuildInductive, TypeOK
<1>2. pc[u] = "compile" /\ Leave(u, Built)
  BY DEF CargoEnds, Goto
<1>3. TypeOK'
  BY <1>1, <1>2, LeftByCargo DEF CargoEnds, Goto, BuildInductive, TypeOK, Stages
<1>4. ASSUME NEW v \in Push, pc'[v] \in {"locate", "copy"},
             (Owner[chosen[v]] \in Built)', ~project'.elsewhere
      PROVE  (Binary(v) >= began[v][Owner[chosen[v]]])'
  <2> USE DEF CargoEnds, Goto
  <2>1. Owner[chosen[v]] \in Built /\ ~project.elsewhere
    BY <1>4, BuiltFixed
  <2>2. CASE v = u
    <3>1. chosen[u] \in Bin
      BY <1>2 DEF BuildInductive, FreshInv
    <3>2. artifact'[<<config[u].place, chosen[u]>>] = seen[u][Owner[chosen[u]]]
      BY <1>1, <1>2, <2>1, <2>2, <3>1, LeftByCargo
    <3>3. seen[u][Owner[chosen[u]]] >= began[u][Owner[chosen[u]]]
      BY <1>2, <3>1, RustBuildAssumption DEF BuildInductive, FreshInv, TypeOK, Version
    <3> QED
      BY <2>2, <3>2, <3>3 DEF Binary
  <2>3. CASE v # u
    <3>1. pc[v] \in {"locate", "copy"}
      BY <1>4, <2>3 DEF BuildInductive, TypeOK
    <3> QED
      BY <1>1, <1>2, <2>1, <3>1, OthersStillFresh DEF Binary
  <2> QED
    BY <2>2, <2>3
<1>5. FreshInv'
  BY <1>2, <1>4, BuiltFixed DEF CargoEnds, Goto, BuildInductive, TypeOK, FreshInv
<1>6. BuiltIsPushed'
  BY BuiltFixed DEF CargoEnds, Goto, BuildInductive, TypeOK, BuiltIsPushed, Fresh
<1> QED
  BY <1>3, <1>5, <1>6 DEF BuildInductive

LEMMA CargoFailsInductive ==
  ASSUME BuildInductive, NEW u \in Push, CargoFails(u)
  PROVE  BuildInductive'
<1>1. PICK done \in SUBSET Built : pc' = [pc EXCEPT ![u] = "idle"] /\ Leave(u, done)
  BY DEF CargoFails
<1>2. done \in SUBSET Package
  BY RustBuildAssumption DEF Built, Listed, Projects, BuildInductive, TypeOK
<1>3. pc[u] = "compile"
  BY DEF CargoFails
<1>4. TypeOK'
  <2>1. artifact' \in [Place \X Bin -> Version]
    BY <1>1, <1>2, <1>3, LeftByCargo
  <2>2. Nothing \in [Package -> Version]
    BY RustBuildAssumption DEF Nothing, Version
  <2> QED
    BY <1>1, <2>1, <2>2 DEF CargoFails, BuildInductive, TypeOK, Stages
<1>5. ASSUME NEW v \in Push, pc'[v] \in {"locate", "copy"},
             (Owner[chosen[v]] \in Built)', ~project'.elsewhere
      PROVE  (Binary(v) >= began[v][Owner[chosen[v]]])'
  <2>1. v # u /\ pc[v] \in {"locate", "copy"}
    BY <1>1, <1>5 DEF BuildInductive, TypeOK
  <2>2. config'[v] = config[v] /\ chosen'[v] = chosen[v] /\ began'[v] = began[v]
    BY <2>1 DEF CargoFails, BuildInductive, TypeOK
  <2>3. Owner[chosen[v]] \in Built /\ ~project.elsewhere
    BY <1>5, <2>2, BuiltFixed DEF CargoFails
  <2> QED
    BY <1>1, <1>2, <1>3, <2>1, <2>2, <2>3, OthersStillFresh DEF Binary
<1>6. FreshInv'
  BY <1>1, <1>3, <1>5, BuiltFixed DEF CargoFails, BuildInductive, TypeOK, FreshInv
<1>7. BuiltIsPushed'
  BY <1>1, BuiltFixed DEF CargoFails, BuildInductive, TypeOK, BuiltIsPushed, Fresh
<1> QED
  BY <1>4, <1>6, <1>7 DEF BuildInductive

LEMMA TakeInductive ==
  ASSUME BuildInductive, NEW u \in Push, Locate(u) \/ CopyBinary(u)
  PROVE  BuildInductive'
<1> USE DEF BuildInductive, TypeOK, Goto
<1>1. CASE Locate(u)
  <2>1. TypeOK'
    BY <1>1 DEF Locate, Stages
  <2>2. FreshInv'
    BY <1>1, BuiltFixed DEF Locate, FreshInv, Binary
  <2>3. BuiltIsPushed'
    BY <1>1, BuiltFixed DEF Locate, BuiltIsPushed, Fresh
  <2> QED
    BY <2>1, <2>2, <2>3
<1>2. CASE CopyBinary(u)
  <2>1. config[u].place \in Place /\ chosen[u] \in Bin
    BY <1>2 DEF CopyBinary, FreshInv, Config
  <2>2. Binary(u) \in Version
    BY <2>1 DEF Binary
  <2>3. TypeOK'
    BY <1>2, <2>2 DEF CopyBinary, Stages
  <2>4. FreshInv'
    BY <1>2, BuiltFixed DEF CopyBinary, FreshInv, Binary
  <2>5. Owner[chosen[u]] \in Built /\ ~project.elsewhere
          => Binary(u) >= began[u][Owner[chosen[u]]]
    BY <1>2 DEF CopyBinary, FreshInv
  <2>6. BuiltIsPushed'
    BY <1>2, <2>5, BuiltFixed DEF CopyBinary, BuiltIsPushed, Fresh
  <2> QED
    BY <2>3, <2>4, <2>6
<1> QED
  BY <1>1, <1>2

LEMMA EditInductive ==
  ASSUME BuildInductive, NEW p \in Package, Edit(p)
  PROVE  BuildInductive'
<1> USE DEF BuildInductive, TypeOK, Edit, Version
<1>1. TypeOK'
  BY RustBuildAssumption
<1>2. \A q \in Package : source[q] <= source'[q]
  OBVIOUS
<1>3. \A u \in Push : pc[u] # "idle" => \A q \in Package : began[u][q] <= source'[q]
  BY <1>1, <1>2 DEF FreshInv
<1>4. FreshInv'
  BY <1>3, BuiltFixed DEF FreshInv, Binary
<1>5. BuiltIsPushed'
  BY BuiltFixed DEF BuiltIsPushed, Fresh
<1> QED
  BY <1>1, <1>4, <1>5

LEMMA DevBuildInductive ==
  ASSUME BuildInductive, NEW x \in Place, NEW b \in Bin, DevBuild(x, b)
  PROVE  BuildInductive'
<1> USE DEF BuildInductive, TypeOK, DevBuild
<1>1. TypeOK'
  BY RustBuildAssumption
<1>2. ASSUME NEW u \in Push, pc[u] \in {"locate", "copy"},
             Owner[chosen[u]] \in Built, ~project.elsewhere
      PROVE  artifact'[<<config[u].place, chosen[u]>>] >= began[u][Owner[chosen[u]]]
  <2>1. config[u].place \in Place /\ chosen[u] \in Bin
    BY <1>2 DEF FreshInv, Config
  <2>2. artifact[<<config[u].place, chosen[u]>>] >= began[u][Owner[chosen[u]]]
    BY <1>2 DEF FreshInv, Binary
  <2>3. source[Owner[chosen[u]]] >= began[u][Owner[chosen[u]]]
    BY <1>2, <2>1, RustBuildAssumption DEF FreshInv, Version
  <2> QED
    BY <2>1, <2>2, <2>3
<1>3. FreshInv'
  BY <1>2, BuiltFixed DEF FreshInv, Binary
<1>4. BuiltIsPushed'
  BY BuiltFixed DEF BuiltIsPushed, Fresh
<1> QED
  BY <1>1, <1>3, <1>4

LEMMA StutterInductive == BuildInductive /\ UNCHANGED vars => BuildInductive'
  BY BuiltFixed DEF vars, BuildInductive, TypeOK, FreshInv, BuiltIsPushed, Fresh, Binary

\* The binary a push finds is fresh because no cargo of anybody leaves, after the
\* push's own, anything older than the sources the push began with (find_package to
\* copy_binary).
THEOREM BuildInvariant == Spec => []BuildInductive
<1>1. BuildInductive /\ [Next]_vars => BuildInductive'
  <2> SUFFICES ASSUME BuildInductive, Next PROVE BuildInductive'
    BY StutterInductive
  <2>1. ASSUME NEW u \in Push,
               Start(u) \/ Select(u) \/ SelectFails(u) \/ CargoStarts(u) \/ CargoEnds(u)
               \/ CargoFails(u) \/ Locate(u) \/ LocateFails(u) \/ CopyBinary(u)
               \/ CopyFails(u) \/ HandOn(u)
        PROVE  BuildInductive'
    <3>1. CASE SelectFails(u) \/ LocateFails(u) \/ CopyFails(u) \/ HandOn(u)
      BY <3>1, FinishInductive DEF SelectFails, LocateFails, CopyFails, HandOn
    <3> QED
      BY <2>1, <3>1, BeginInductive, CargoStartsInductive, CargoEndsInductive,
         CargoFailsInductive, TakeInductive
  <2> QED
    BY <2>1, EditInductive, DevBuildInductive DEF Next
<1> QED
  BY <1>1, RustBuildInit, PTL DEF Spec

\* RustBuild::build hands on a binary at least as new as the sources it began with,
\* if plain cargo build builds the chosen package into <project>/target.
THEOREM PushesWhatItBuilt == Spec => []BuiltIsPushed
<1>1. BuildInductive => BuiltIsPushed
  BY DEF BuildInductive
<1> QED
  BY <1>1, BuildInvariant, PTL

-----------------------------------------------------------------------------
(* The age of binaries.  *)

\* Whatever a cargo, failing or not, leaves behind is as old as what it has seen.
LEMMA CargoLeaves ==
  ASSUME BuildInductive, NEW u \in Push, CargoEnds(u) \/ CargoFails(u)
  PROVE  /\ pc[u] = "compile" /\ \A v \in Push : pc'[v] # "compile"
         /\ artifact' \in [Place \X Bin -> Version]
         /\ \A x \in Place \X Bin :
              artifact'[x] = artifact[x] \/ artifact'[x] = seen[u][Owner[x[2]]]
<1>1. pc[u] = "compile"
  BY DEF CargoEnds, CargoFails, Goto
<1>2. Built \in SUBSET Package
  BY RustBuildAssumption DEF Built, Listed, Projects, BuildInductive, TypeOK
<1>3. PICK done \in SUBSET Package : Leave(u, done)
  BY <1>2 DEF CargoEnds, CargoFails
<1>4. \A v \in Push : pc'[v] # "compile"
  BY <1>1 DEF CargoEnds, CargoFails, Goto, BuildInductive, TypeOK, FreshInv
<1> QED
  BY <1>1, <1>3, <1>4, LeftByCargo

LEMMA AgeInit == Init => AgeInv
  BY RustBuildAssumption DEF Init, AgeInv

LEMMA AgeStep ==
  ASSUME BuildInductive, AgeInv, [Next]_vars
  PROVE  AgeInv'
<1> USE DEF AgeInv
<1>1. \A x \in Place \X Bin :
        /\ Owner[x[2]] \in Package /\ artifact[x] \in Nat /\ source[Owner[x[2]]] \in Nat
        /\ \A u \in Push : seen[u][Owner[x[2]]] \in Nat
  BY RustBuildAssumption DEF BuildInductive, TypeOK, Version
<1>2. ASSUME NEW u \in Push, Finish(u) PROVE AgeInv'
  BY <1>2 DEF Finish, BuildInductive, TypeOK
<1>3. ASSUME NEW u \in Push, Start(u) \/ Select(u) \/ Locate(u) \/ CopyBinary(u) PROVE AgeInv'
  BY <1>3 DEF Start, Select, Locate, CopyBinary, Goto, BuildInductive, TypeOK
<1>4. ASSUME NEW u \in Push, CargoStarts(u) PROVE AgeInv'
  BY <1>1, <1>4 DEF CargoStarts, Goto, BuildInductive, TypeOK
<1>5. ASSUME NEW u \in Push, CargoEnds(u) \/ CargoFails(u) PROVE AgeInv'
  <2>1. source' = source
    BY <1>5 DEF CargoEnds, CargoFails
  <2> QED
    BY <1>5, <2>1, CargoLeaves
<1>6. ASSUME NEW p \in Package, Edit(p) PROVE AgeInv'
  <2>1. \A q \in Package : source[q] <= source'[q] /\ source'[q] \in Nat
    BY <1>6 DEF Edit, BuildInductive, TypeOK, Version
  <2>2. UNCHANGED <<artifact, pc, seen>>
    BY <1>6 DEF Edit
  <2> QED
    BY <1>1, <2>1, <2>2
<1>7. ASSUME NEW y \in Place, NEW b \in Bin, DevBuild(y, b) PROVE AgeInv'
  <2>1. \A v \in Push : pc[v] # "compile"
    BY <1>7 DEF DevBuild
  <2>2. \A x \in Place \X Bin : artifact'[x] = artifact[x] \/ artifact'[x] = source[Owner[x[2]]]
    BY <1>7 DEF DevBuild, BuildInductive, TypeOK
  <2>3. UNCHANGED <<source, pc>>
    BY <1>7 DEF DevBuild
  <2> QED
    BY <1>1, <2>1, <2>2, <2>3
<1>8. CASE UNCHANGED vars
  BY <1>8 DEF vars
<1> QED
  BY <1>2, <1>3, <1>4, <1>5, <1>6, <1>7, <1>8
     DEF Next, SelectFails, LocateFails, CopyFails, HandOn

THEOREM AgeInvariant == Spec => []AgeInv
<1>1. BuildInductive /\ AgeInv /\ [Next]_vars => AgeInv'
  BY AgeStep
<1> QED
  BY <1>1, AgeInit, BuildInvariant, PTL DEF Spec

\* Whoever builds the project, at whatever moments it is edited and however far a cargo
\* gets, no binary in its target directory is ever replaced by an older one.
THEOREM BinariesNeverAge == Spec => BinariesOnlyRenew
<1>1. ASSUME BuildInductive, AgeInv, [Next]_vars
      PROVE  [\A x \in Place \X Bin : artifact'[x] >= artifact[x]]_vars
  <2> SUFFICES ASSUME Next, NEW x \in Place \X Bin PROVE artifact'[x] >= artifact[x]
    BY <1>1
  <2>1. /\ Owner[x[2]] \in Package /\ artifact[x] \in Nat /\ source[Owner[x[2]]] \in Nat
        /\ \A u \in Push : seen[u][Owner[x[2]]] \in Nat
    BY <1>1, RustBuildAssumption DEF BuildInductive, TypeOK, Version
  <2>2. ASSUME NEW u \in Push, CargoEnds(u) \/ CargoFails(u) PROVE artifact'[x] >= artifact[x]
    BY <1>1, <2>1, <2>2, CargoLeaves DEF AgeInv
  <2>3. ASSUME NEW y \in Place, NEW b \in Bin, DevBuild(y, b) PROVE artifact'[x] >= artifact[x]
    <3>1. artifact'[x] = artifact[x] \/ artifact'[x] = source[Owner[x[2]]]
      BY <1>1, <2>3 DEF DevBuild, BuildInductive, TypeOK
    <3> QED
      BY <1>1, <2>1, <3>1 DEF AgeInv
  <2>4. CASE artifact' = artifact
    BY <2>1, <2>4
  <2> QED
    BY <2>2, <2>3, <2>4
       DEF Next, Start, Select, SelectFails, CargoStarts, Locate, LocateFails, CopyBinary,
           CopyFails, HandOn, Finish, Edit
<1> QED
  BY <1>1, BuildInvariant, AgeInvariant, PTL DEF Spec, BinariesOnlyRenew

-----------------------------------------------------------------------------
(* Projects of which cargo builds everything.  *)

\* The command only chooses among what cargo metadata lists.
ChosenListed ==
  \A u \in Push : pc[u] \notin {"idle", "select"} => Owner[chosen[u]] \in Listed

LEMMA ChoiceIsListed ==
  ASSUME TypeOK, NEW c \in Config, NEW b \in Choices(c)
  PROVE  Owner[b] \in Listed
<1>1. project \in Projects /\ project.packages # <<>>
  BY RustBuildAssumption DEF TypeOK
<1>2. project.packages[1] \in Listed
  <2>1. project.packages \in Seq(Package)
    BY <1>1 DEF Projects
  <2>2. 1 \in DOMAIN project.packages
    BY <1>1, <2>1
  <2> QED
    BY <2>2 DEF Listed
<1>3. project.root # NoPackage => project.root \in Listed
  BY RustBuildAssumption DEF TypeOK, Listed
<1>4. PICK p \in FindPackage(c) : b \in FindBinary(c, p)
  BY DEF Choices
<1>5. p \in Listed
  BY <1>2, <1>3, <1>4 DEF FindPackage
<1>6. p \in Package
  BY <1>1, <1>5 DEF Listed, Projects
<1>7. Owner[b] = p
  BY <1>4, <1>6, RustBuildAssumption DEF FindBinary
<1> QED
  BY <1>5, <1>7

LEMMA ListedStep ==
  ASSUME BuildInductive, ChosenListed, [Next]_vars
  PROVE  ChosenListed'
<1> USE DEF ChosenListed, BuildInductive, TypeOK
<1>1. Listed' = Listed
  <2>1. project' = project
    BY DEF Next, Start, Select, SelectFails, CargoStarts, CargoEnds, CargoFails, Locate, LocateFails,
           CopyBinary, CopyFails, HandOn, Finish, Edit, DevBuild, vars
  <2> QED
    BY <2>1 DEF Listed
<1>2. ASSUME NEW u \in Push, Select(u) PROVE ChosenListed'
  <2>1. config[u] \in Config
    BY <1>2 DEF Select, Goto, FreshInv
  <2>2. PICK b \in Choices(config[u]) : chosen' = [chosen EXCEPT ![u] = b]
    BY <1>2 DEF Select
  <2>3. Owner[b] \in Listed
    BY <2>1, ChoiceIsListed
  <2> QED
    BY <1>1, <1>2, <2>2, <2>3 DEF Select, Goto
<1>3. ASSUME NEW u \in Push, Finish(u) \/ Start(u) \/ CargoFails(u) PROVE ChosenListed'
  BY <1>1, <1>3 DEF Finish, Start, CargoFails, Goto
<1>4. ASSUME NEW u \in Push, CargoStarts(u) \/ CargoEnds(u) \/ Locate(u) \/ CopyBinary(u)
      PROVE  ChosenListed'
  BY <1>1, <1>4 DEF CargoStarts, CargoEnds, Locate, CopyBinary, Goto
<1>5. CASE UNCHANGED <<pc, chosen>>
  BY <1>1, <1>5
<1> QED
  BY <1>2, <1>3, <1>4, <1>5
     DEF Next, vars, SelectFails, LocateFails, CopyFails, HandOn, Edit, DevBuild

\* What the documentation promises of every push holds of a package on its own, and of a
\* workspace without a package at its root, if the target directory is the project's own:
\* there, whatever is chosen is built.
THEOREM AllBuiltIsPushed ==
  ASSUME \A w \in Workspace :
           /\ ~w.elsewhere
           /\ w.root = NoPackage \/ \A k \in DOMAIN w.packages : w.packages[k] = w.root
  PROVE  Spec => []PushedIsBuilt
<1>1. Init => ChosenListed
  BY DEF Init, ChosenListed
<1>2. BuildInductive /\ ChosenListed /\ [Next]_vars => ChosenListed'
  BY ListedStep
<1>3. BuildInductive /\ ChosenListed => PushedIsBuilt
  <2> SUFFICES ASSUME BuildInductive, ChosenListed, NEW u \in Push, pc[u] = "archive"
               PROVE  Fresh(u)
    BY DEF PushedIsBuilt
  <2>1. Owner[chosen[u]] \in Listed /\ ~project.elsewhere
    BY DEF ChosenListed, BuildInductive, TypeOK
  <2>2. Owner[chosen[u]] \in Built
    BY <2>1 DEF Built, Listed, BuildInductive, TypeOK
  <2> QED
    BY <2>1, <2>2 DEF BuildInductive, BuiltIsPushed
<1> QED
  BY <1>1, <1>2, <1>3, BuildInvariant, PTL DEF Spec

=============================================================================
