---------------------------- MODULE Worker_proofs ----------------------------
(***************************************************************************)
(* The invariants of Worker hold for every number of calls, digests, ids   *)
(* and cells, and whatever faults are chosen.  The actions are taken by    *)
(* who performs them: a call, a deleter, the reaper's or delete_all's loop *)
(* over its keys, and the process with its surroundings.                   *)
(***************************************************************************)
EXTENDS Worker, TLAPS

LEMMA TypeInit == Init => TypeOK
  BY ConstantsAssumption DEF Init, TypeOK, Outside, Deleters

\* What a call does keeps every variable in its type.
LEMMA CallTypes ==
  ASSUME TypeOK, NEW r \in Request, CallStep(r) \/ CallEvent(r)
  PROVE  TypeOK'
<1> USE ConstantsAssumption DEF TypeOK, Outside, Holding, Fetching, Claiming,
       Provisioning, Using, Draining, Deleters, Mapped, Inst, Up,
       processVars, callVars, tableVars, deleterVars, bundleVars, hostVars,
       Goto, Answer, Proceed
<1>1. CASE Resolve(r)
  BY <1>1 DEF Resolve
<1>2. CASE PrefixPanics(r)
  BY <1>2 DEF PrefixPanics
<1>3. CASE LookupHit(r)
  BY <1>3 DEF LookupHit
<1>4. CASE LookupMiss(r)
  BY <1>4 DEF LookupMiss
<1>5. CASE FetchCached(r)
  BY <1>5 DEF FetchCached
<1>6. CASE Download(r)
  BY <1>6 DEF Download
<1>7. CASE MakePkgDir(r)
  BY <1>7 DEF MakePkgDir
<1>8. CASE Unpack(r)
  BY <1>8 DEF Unpack
<1>9. CASE RootfsFree(r)
  BY <1>9 DEF RootfsFree
<1>10. CASE RootfsExists(r)
  BY <1>10 DEF RootfsExists
<1>11. CASE MakeRootfs(r)
  BY <1>11 DEF MakeRootfs
<1>12. CASE CopyPackage(r)
  BY <1>12 DEF CopyPackage
<1>13. CASE BuildContainer(r)
  BY <1>13 DEF BuildContainer
<1>14. CASE BuildFails(r)
  <2>1. PICK s \in {"absent", "created"} : ctr' = [ctr EXCEPT ![Inst(r)] = s]
    BY <1>14 DEF BuildFails
  <2>2. ctr' \in [Id -> {"absent", "created", "running", "stopped"}]
    BY <2>1
  <2>3. UNCHANGED <<phase, functions, stale, dpc, did, todo, peeked, pkgs, rootfs>> /\ Answer(r)
    BY <1>14 DEF BuildFails
  <2> QED
    BY <2>2, <2>3
<1>15. CASE StartContainer(r)
  BY <1>15 DEF StartContainer
<1>16. CASE Insert(r)
  <2>1. PICK c \in Arc : functions' = [functions EXCEPT ![Inst(r)] = c] /\ stale' = stale \ {c}
    BY <1>16 DEF Insert
  <2>2. functions' \in [Id -> Arc \cup {NoArc}] /\ stale' \subseteq Arc
    BY <2>1
  <2> QED
    BY <1>16, <2>2 DEF Insert
<1>17. CASE ProbeOk(r)
  BY <1>17 DEF ProbeOk
<1>18. CASE ProbeAgain(r)
  BY <1>18 DEF ProbeAgain
<1>19. CASE ProbeGivesUp(r)
  BY <1>19 DEF ProbeGivesUp
<1>20. CASE Connect(r)
  BY <1>20 DEF Connect
<1>21. CASE LoseServer(r)
  BY <1>21 DEF LoseServer
<1>22. CASE StepFails(r)
  BY <1>22 DEF StepFails
<1>23. CASE Arrive(r)
  BY <1>23 DEF Arrive
<1>24. CASE Acquire(r)
  BY <1>24 DEF Acquire
<1>25. CASE Reply(r)
  BY <1>25 DEF Reply
<1>26. CASE CallBreaks(r)
  BY <1>26 DEF CallBreaks
<1>27. CASE Cancel(r)
  BY <1>27 DEF Cancel, Suspended
<1> QED
  BY <1>1, <1>2, <1>3, <1>4, <1>5, <1>6, <1>7, <1>8, <1>9, <1>10, <1>11,
     <1>12, <1>13, <1>14, <1>15, <1>16, <1>17, <1>18, <1>19, <1>20, <1>21,
     <1>22, <1>23, <1>24, <1>25, <1>26, <1>27 DEF CallStep, CallEvent

\* What a deletion does.
LEMMA DeleterTypes ==
  ASSUME TypeOK, NEW a \in Deleters, DeleterStep(a)
  PROVE  TypeOK'
<1> USE ConstantsAssumption DEF TypeOK, Outside, Holding, Fetching, Claiming,
       Provisioning, Using, Draining, Deleters, Mapped, Inst, Up,
       processVars, callVars, tableVars, deleterVars, bundleVars, hostVars,
       Goto, Answer, Proceed
<1>1. CASE Snapshot(a)
  BY <1>1 DEF Snapshot
<1>2. CASE Scanned(a)
  BY <1>2 DEF Scanned
<1>3. CASE Remove(a)
  BY <1>3 DEF Remove, Forget, Release
<1>4. CASE RemoveNothing(a)
  BY <1>4 DEF RemoveNothing, Forget, Release
<1>5. CASE LoadContainer(a)
  BY <1>5 DEF LoadContainer
<1>6. CASE KillContainer(a)
  BY <1>6 DEF KillContainer
<1>7. CASE RemoveRootfs(a)
  BY <1>7 DEF RemoveRootfs
<1>8. CASE DeleteFails(a)
  BY <1>8 DEF DeleteFails
<1> QED
  BY <1>1, <1>2, <1>3, <1>4, <1>5, <1>6, <1>7, <1>8 DEF DeleterStep

\* What the loops over the keys do.
LEMMA ScanTypes ==
  ASSUME TypeOK, ReaperStep \/ (\E i \in Id : PickNext(i))
  PROVE  TypeOK'
<1> USE ConstantsAssumption DEF TypeOK, Outside, Holding, Fetching, Claiming,
       Provisioning, Using, Draining, Deleters, Mapped, Inst, Up,
       processVars, callVars, tableVars, deleterVars, bundleVars, hostVars,
       Goto, Answer, Proceed
<1>1. ASSUME NEW i \in Id, Peek(i) PROVE TypeOK'
  BY <1>1 DEF Peek
<1>2. ASSUME NEW i \in Id, PeekNothing(i) PROVE TypeOK'
  BY <1>2 DEF PeekNothing
<1>3. CASE CheckExpired
  BY <1>3 DEF CheckExpired
<1>4. CASE CheckFresh
  BY <1>4 DEF CheckFresh
<1>5. ASSUME NEW i \in Id, PickNext(i) PROVE TypeOK'
  BY <1>5 DEF PickNext
<1> QED
  BY <1>1, <1>2, <1>3, <1>4, <1>5 DEF ReaperStep

\* What happens to the process and around it.
LEMMA ProcessTypes ==
  ASSUME TypeOK, Surroundings \/ Exit
  PROVE  TypeOK'
<1> USE ConstantsAssumption DEF TypeOK, Outside, Holding, Fetching, Claiming,
       Provisioning, Using, Draining, Deleters, Mapped, Inst, Up,
       processVars, callVars, tableVars, deleterVars, bundleVars, hostVars,
       Goto, Answer, Proceed
<1>1. ASSUME NEW c \in Arc, Expire(c) PROVE TypeOK'
  BY <1>1 DEF Expire, Cells
<1>2. ASSUME NEW i \in Id, ContainerExits(i) PROVE TypeOK'
  BY <1>2 DEF ContainerExits
<1>3. CASE ShutdownSignal
  BY <1>3 DEF ShutdownSignal
<1>4. CASE Exit
  BY <1>4 DEF Exit, Vanish
<1>5. CASE Crash
  BY <1>5 DEF Crash, Vanish
<1>6. CASE Restart
  BY <1>6 DEF Restart
<1> QED
  BY <1>1, <1>2, <1>3, <1>4, <1>5, <1>6 DEF Surroundings

LEMMA TypeStep == TypeOK /\ [Next]_vars => TypeOK'
<1> SUFFICES ASSUME TypeOK, [Next]_vars PROVE TypeOK'
  OBVIOUS
<1>1. CASE Next
  BY <1>1, CallTypes, DeleterTypes, ScanTypes, ProcessTypes DEF Next, MainStep
<1>2. CASE UNCHANGED vars
  BY <1>2 DEF vars, TypeOK
<1> QED
  BY <1>1, <1>2

\* The variables of the worker keep their types in every behaviour.
THEOREM TypeCorrect == Spec => []TypeOK
  BY TypeInit, TypeStep, PTL DEF Spec

-----------------------------------------------------------------------------
(* Inductive is preserved.  Given the types, what is left of it is Claims.   *)

Claims ==
  MutexInv /\ ClaimInv /\ DrainInv /\ ReaperInv /\ EntryBacked /\ BundleOutlivesContainer

LEMMA InductiveInit == Init => Inductive
  BY TypeInit, ConstantsAssumption
     DEF Init, Inductive, MutexInv, ClaimInv, DrainInv, ReaperInv, EntryBacked,
         BundleOutlivesContainer, Mapped, Up, Holding, Fetching, Claiming,
         Provisioning, Using, Draining, Deleters

\* A call changes the host and the table only while it has the mutex, and only at
\* an id that no deleter drains: create_rootfs has found no bundle there.
LEMMA CallClaims ==
  ASSUME TypeOK, Claims, NEW r \in Request, CallStep(r) \/ CallEvent(r)
  PROVE  Claims'
<1> USE ConstantsAssumption DEF Claims, MutexInv, ClaimInv, DrainInv,
       ReaperInv, EntryBacked, BundleOutlivesContainer, Provisions, Drains,
       TypeOK, Outside, Holding, Fetching, Claiming, Provisioning, Using,
       Draining, Deleters, Mapped, Inst, Up, processVars, callVars,
       tableVars, deleterVars, bundleVars, hostVars, Goto, Answer, Proceed
<1>1. CASE Resolve(r)
  BY <1>1 DEF Resolve
<1>2. CASE PrefixPanics(r)
  BY <1>2 DEF PrefixPanics
<1>3. CASE LookupHit(r)
  BY <1>3 DEF LookupHit
<1>4. CASE LookupMiss(r)
  BY <1>4 DEF LookupMiss
<1>5. CASE FetchCached(r)
  BY <1>5 DEF FetchCached
<1>6. CASE Download(r)
  BY <1>6 DEF Download
<1>7. CASE MakePkgDir(r)
  BY <1>7 DEF MakePkgDir
<1>8. CASE Unpack(r)
  BY <1>8 DEF Unpack
<1>9. CASE RootfsFree(r)
  BY <1>9 DEF RootfsFree
<1>10. CASE RootfsExists(r)
  BY <1>10 DEF RootfsExists
<1>11. CASE MakeRootfs(r)
  BY <1>11 DEF MakeRootfs
<1>12. CASE CopyPackage(r)
  BY <1>12 DEF CopyPackage
<1>13. CASE BuildContainer(r)
  BY <1>13 DEF BuildContainer
<1>14. CASE BuildFails(r)
  BY <1>14 DEF BuildFails
<1>15. CASE StartContainer(r)
  BY <1>15 DEF StartContainer
<1>16. CASE Insert(r)
  BY <1>16 DEF Insert
<1>17. CASE ProbeOk(r)
  BY <1>17 DEF ProbeOk
<1>18. CASE ProbeAgain(r)
  BY <1>18 DEF ProbeAgain
<1>19. CASE ProbeGivesUp(r)
  BY <1>19 DEF ProbeGivesUp
<1>20. CASE Connect(r)
  BY <1>20 DEF Connect
<1>21. CASE LoseServer(r)
  BY <1>21 DEF LoseServer
<1>22. CASE StepFails(r)
  BY <1>22 DEF StepFails
<1>23. CASE Arrive(r)
  BY <1>23 DEF Arrive
<1>24. CASE Acquire(r)
  BY <1>24 DEF Acquire
<1>25. CASE Reply(r)
  BY <1>25 DEF Reply
<1>26. CASE CallBreaks(r)
  BY <1>26 DEF CallBreaks
<1>27. CASE Cancel(r)
  BY <1>27 DEF Cancel, Suspended
<1> QED
  BY <1>1, <1>2, <1>3, <1>4, <1>5, <1>6, <1>7, <1>8, <1>9, <1>10, <1>11,
     <1>12, <1>13, <1>14, <1>15, <1>16, <1>17, <1>18, <1>19, <1>20, <1>21,
     <1>22, <1>23, <1>24, <1>25, <1>26, <1>27 DEF CallStep, CallEvent

\* A deletion goes on to the host only where it has itself removed the entry, so no
\* call provisions that id and no other deleter drains it.
LEMMA DeleterClaims ==
  ASSUME TypeOK, Claims, NEW a \in Deleters, DeleterStep(a)
  PROVE  Claims'
<1> USE ConstantsAssumption DEF Claims, MutexInv, ClaimInv, DrainInv,
       ReaperInv, EntryBacked, BundleOutlivesContainer, Provisions, Drains,
       TypeOK, Outside, Holding, Fetching, Claiming, Provisioning, Using,
       Draining, Deleters, Mapped, Inst, Up, processVars, callVars,
       tableVars, deleterVars, bundleVars, hostVars, Goto, Answer, Proceed
<1>1. CASE Snapshot(a)
  BY <1>1 DEF Snapshot
<1>2. CASE Scanned(a)
  BY <1>2 DEF Scanned
<1>3. CASE Remove(a)
  BY <1>3 DEF Remove, Forget, Release
<1>4. CASE RemoveNothing(a)
  BY <1>4 DEF RemoveNothing, Forget, Release
<1>5. CASE LoadContainer(a)
  BY <1>5 DEF LoadContainer
<1>6. CASE KillContainer(a)
  BY <1>6 DEF KillContainer
<1>7. CASE RemoveRootfs(a)
  BY <1>7 DEF RemoveRootfs
<1>8. CASE DeleteFails(a)
  BY <1>8 DEF DeleteFails
<1> QED
  BY <1>1, <1>2, <1>3, <1>4, <1>5, <1>6, <1>7, <1>8 DEF DeleterStep

\* The loops over the keys decide what to delete and change nothing else.
LEMMA ScanClaims ==
  ASSUME TypeOK, Claims, ReaperStep \/ (\E i \in Id : PickNext(i))
  PROVE  Claims'
<1> USE ConstantsAssumption DEF Claims, MutexInv, ClaimInv, DrainInv,
       ReaperInv, EntryBacked, BundleOutlivesContainer, Provisions, Drains,
       TypeOK, Outside, Holding, Fetching, Claiming, Provisioning, Using,
       Draining, Deleters, Mapped, Inst, Up, processVars, callVars,
       tableVars, deleterVars, bundleVars, hostVars, Goto, Answer, Proceed
<1>1. ASSUME NEW i \in Id, Peek(i) PROVE Claims'
  BY <1>1 DEF Peek
<1>2. ASSUME NEW i \in Id, PeekNothing(i) PROVE Claims'
  BY <1>2 DEF PeekNothing
<1>3. CASE CheckExpired
  BY <1>3 DEF CheckExpired
<1>4. CASE CheckFresh
  BY <1>4 DEF CheckFresh
<1>5. ASSUME NEW i \in Id, PickNext(i) PROVE Claims'
  BY <1>5 DEF PickNext
<1> QED
  BY <1>1, <1>2, <1>3, <1>4, <1>5 DEF ReaperStep

\* A process that ends takes the table, the calls and the deleters with it, and leaves
\* bundles and containers as they are.
LEMMA ProcessClaims ==
  ASSUME TypeOK, Claims, Surroundings \/ Exit
  PROVE  Claims'
<1> USE ConstantsAssumption DEF Claims, MutexInv, ClaimInv, DrainInv,
       ReaperInv, EntryBacked, BundleOutlivesContainer, Provisions, Drains,
       TypeOK, Outside, Holding, Fetching, Claiming, Provisioning, Using,
       Draining, Deleters, Mapped, Inst, Up, processVars, callVars,
       tableVars, deleterVars, bundleVars, hostVars, Goto, Answer, Proceed
<1>1. ASSUME NEW c \in Arc, Expire(c) PROVE Claims'
  BY <1>1 DEF Expire, Cells
<1>2. ASSUME NEW i \in Id, ContainerExits(i) PROVE Claims'
  BY <1>2 DEF ContainerExits
<1>3. CASE ShutdownSignal
  BY <1>3 DEF ShutdownSignal
<1>4. CASE Exit
  BY <1>4 DEF Exit, Vanish
<1>5. CASE Crash
  BY <1>5 DEF Crash, Vanish
<1>6. CASE Restart
  BY <1>6 DEF Restart
<1> QED
  BY <1>1, <1>2, <1>3, <1>4, <1>5, <1>6 DEF Surroundings

LEMMA InductiveStep == Inductive /\ [Next]_vars => Inductive'
<1> SUFFICES ASSUME Inductive, [Next]_vars PROVE Inductive'
  OBVIOUS
<1>1. TypeOK /\ Claims
  BY DEF Inductive, Claims
<1>2. TypeOK'
  BY <1>1, TypeStep
<1>3. CASE Next
  <2>1. Claims'
    BY <1>1, <1>3, CallClaims, DeleterClaims, ScanClaims, ProcessClaims
       DEF Next, MainStep
  <2> QED
    BY <1>2, <2>1 DEF Inductive, Claims
<1>4. CASE UNCHANGED vars
  BY <1>2, <1>4
     DEF vars, Inductive, MutexInv, ClaimInv, DrainInv, ReaperInv, EntryBacked,
         BundleOutlivesContainer, Provisions, Drains, Mapped, Inst, Up
<1> QED
  BY <1>3, <1>4

\* The strengthening all the others follow from.
THEOREM InductiveInvariant == Spec => []Inductive
  BY InductiveInit, InductiveStep, PTL DEF Spec

\* Every entry of the table has a whole bundle and a started container.
THEOREM EntriesBacked == Spec => []EntryBacked
<1>1. Inductive => EntryBacked
  BY DEF Inductive
<1> QED
  BY <1>1, InductiveInvariant, PTL

\* No bundle is lost before its container.
THEOREM ContainersHaveBundles == Spec => []BundleOutlivesContainer
<1>1. Inductive => BundleOutlivesContainer
  BY DEF Inductive
<1> QED
  BY <1>1, InductiveInvariant, PTL

\* The entry the reaper deletes while the worker serves is the one it found expired.
THEOREM ReaperDeletesWhatItChecked == Spec => []ReaperRemovesChecked
<1>1. Inductive => ReaperRemovesChecked
  BY DEF Inductive, ReaperInv, ReaperRemovesChecked
<1> QED
  BY <1>1, InductiveInvariant, PTL

\* Table, calls and deleters never share an instance id.
THEOREM OwnersExclusive == Spec => []ExclusiveOwner
<1>1. ASSUME Inductive PROVE ExclusiveOwner
  <2> USE <1>1 DEF Inductive
  <2>1. ASSUME NEW r \in Request, NEW q \in Request, NEW i \in Id,
               Provisions(r, i), Provisions(q, i)
        PROVE  q = r
    BY <2>1 DEF Provisions, MutexInv, Holding
  <2>2. ASSUME NEW r \in Request, NEW i \in Id, Provisions(r, i)
        PROVE  ~Mapped(i)
    BY <2>2 DEF Provisions, ClaimInv
  <2>3. ASSUME NEW a \in Deleters, NEW i \in Id, Drains(a, i)
        PROVE  /\ ~Mapped(i)
               /\ \A b \in Deleters : Drains(b, i) => b = a
               /\ \A r \in Request : ~Provisions(r, i)
    BY <2>3 DEF Drains, DrainInv
  <2> QED
    BY <2>1, <2>2, <2>3 DEF ExclusiveOwner
<1> QED
  BY <1>1, InductiveInvariant, PTL

-----------------------------------------------------------------------------
(* The package cache.  Of two calls of one digest side by side one would fail to *)
(* make the directory, or copy what the other is still unpacking; the mutex      *)
(* around the worker keeps them apart.                                           *)

\* Of a call's steps these neither touch the cache nor end up where it matters.
LEMMA CallAwayFromCache ==
  ASSUME TypeOK, NEW r \in Request,
         Resolve(r) \/ PrefixPanics(r) \/ LookupHit(r) \/ LookupMiss(r) \/
         RootfsExists(r) \/ CopyPackage(r) \/ BuildContainer(r) \/ BuildFails(r) \/
         StartContainer(r) \/ Insert(r) \/ ProbeOk(r) \/ ProbeAgain(r) \/
         ProbeGivesUp(r) \/ Connect(r) \/ LoseServer(r) \/
         Arrive(r) \/ Acquire(r) \/ Reply(r) \/ CallBreaks(r)
  PROVE  /\ UNCHANGED pkgs
         /\ pc[r] # "unpack"
         /\ pc'[r] \notin {"mkpkg", "unpack", "exists", "mkdir", "copy"}
         /\ \A q \in Request \ {r} : pc'[q] = pc[q] /\ dig'[q] = dig[q]
<1> USE DEF TypeOK, Goto, Answer, hostVars, bundleVars
<1>1. CASE Resolve(r) \/ PrefixPanics(r) \/ LookupHit(r) \/ LookupMiss(r) \/ RootfsExists(r)
  BY <1>1 DEF Resolve, PrefixPanics, LookupHit, LookupMiss, RootfsExists
<1>2. CASE CopyPackage(r) \/ BuildContainer(r) \/ BuildFails(r) \/ StartContainer(r) \/ Insert(r)
  BY <1>2 DEF CopyPackage, BuildContainer, BuildFails, StartContainer, Insert
<1>3. CASE ProbeOk(r) \/ ProbeAgain(r) \/ ProbeGivesUp(r) \/ Connect(r) \/ LoseServer(r)
  BY <1>3 DEF ProbeOk, ProbeAgain, ProbeGivesUp, Connect, LoseServer
<1>4. CASE Arrive(r) \/ Acquire(r) \/ Reply(r) \/ CallBreaks(r)
  BY <1>4 DEF Arrive, Acquire, Reply, CallBreaks
<1> QED
  BY <1>1, <1>2, <1>3, <1>4

\* These let a call pass from finding the package to copying it.
LEMMA CallPastCache ==
  ASSUME TypeOK, NEW r \in Request, FetchCached(r) \/ RootfsFree(r) \/ MakeRootfs(r)
  PROVE  /\ UNCHANGED <<pkgs, dig>>
         /\ pc[r] \in Claiming \/ (pc[r] = "fetch" /\ pkgs[dig[r]] # "absent")
         /\ pc'[r] \in {"exists", "mkdir", "copy"}
         /\ \A q \in Request \ {r} : pc'[q] = pc[q]
  BY DEF TypeOK, Goto, hostVars, FetchCached, RootfsFree, MakeRootfs, Claiming

\* The deleters and the scans never look at the cache or at a call.
LEMMA OthersAwayFromCache ==
  ASSUME TypeOK,
         (\E a \in Deleters : DeleterStep(a)) \/ ReaperStep \/ (\E i \in Id : PickNext(i))
  PROVE  UNCHANGED <<pkgs, pc, dig>>
<1> USE DEF hostVars, bundleVars, callVars, Proceed
<1>1. ASSUME NEW a \in Deleters, DeleterStep(a) PROVE UNCHANGED <<pkgs, pc, dig>>
  BY <1>1 DEF DeleterStep, Snapshot, Scanned, Remove, RemoveNothing, LoadContainer,
              KillContainer, RemoveRootfs, DeleteFails
<1>2. CASE ReaperStep
  BY <1>2 DEF ReaperStep, Peek, PeekNothing, CheckExpired, CheckFresh
<1>3. ASSUME NEW i \in Id, PickNext(i) PROVE UNCHANGED <<pkgs, pc, dig>>
  BY <1>3 DEF PickNext
<1> QED
  BY <1>1, <1>2, <1>3

\* Nor do the process and its surroundings, unless the process ends.
LEMMA ProcessAwayFromCache ==
  ASSUME TypeOK, Surroundings \/ Exit
  PROVE  /\ UNCHANGED pkgs
         /\ \/ UNCHANGED <<pc, dig>>
            \/ (\A q \in Request : pc'[q] = "idle") /\ (Exit \/ Crash)
<1>1. CASE Surroundings /\ ~Crash
  BY <1>1 DEF Surroundings, Expire, ContainerExits, ShutdownSignal, Restart, callVars, hostVars
<1>2. CASE Exit \/ Crash
  BY <1>2 DEF Exit, Crash, Vanish, hostVars
<1> QED
  BY <1>1, <1>2

\* Calls and deleters leave the process as it is.
LEMMA CallKeepsPhase ==
  ASSUME NEW r \in Request, CallStep(r) \/ CallEvent(r)
  PROVE  UNCHANGED phase
  BY DEF CallStep, CallEvent, processVars, Resolve, PrefixPanics, LookupHit, LookupMiss,
         FetchCached, Download, MakePkgDir, Unpack, RootfsFree, RootfsExists, MakeRootfs,
         CopyPackage, BuildContainer, BuildFails, StartContainer, Insert, ProbeOk, ProbeAgain,
         ProbeGivesUp, Connect, LoseServer, StepFails, Arrive, Acquire, Reply, CallBreaks, Cancel

LEMMA OthersKeepPhase ==
  ASSUME (\E a \in Deleters : DeleterStep(a)) \/ ReaperStep \/ (\E i \in Id : PickNext(i))
  PROVE  UNCHANGED phase
  BY DEF processVars, DeleterStep, Snapshot, Scanned, Remove, RemoveNothing, LoadContainer,
         KillContainer, RemoveRootfs, DeleteFails, ReaperStep, Peek, PeekNothing,
         CheckExpired, CheckFresh, PickNext

LEMMA FetchInit == Init => FetchInv
  BY DEF Init, FetchInv

\* Only the call that holds the mutex is at any of these points.
LEMMA FetchCall ==
  ASSUME TypeOK, MutexInv, ClaimInv, FetchInv, NEW r \in Request, CallStep(r) \/ CallEvent(r)
  PROVE  FetchInv'
<1> USE DEF TypeOK, MutexInv, FetchInv, Holding, Fetching, Goto, Answer, hostVars, bundleVars
<1>1. CASE Download(r)
  BY <1>1 DEF Download
<1>2. CASE MakePkgDir(r)
  <2>1. \A q \in Request \ {r} : pc'[q] \notin {"mkpkg", "unpack"}
    BY <1>2 DEF MakePkgDir
  <2>2. dig[r] \in Digest /\ pkgs[dig[r]] = "absent"
    BY <1>2, ConstantsAssumption DEF MakePkgDir, ClaimInv
  <2> QED
    BY <1>2, <2>1, <2>2 DEF MakePkgDir
<1>3. CASE Unpack(r)
  <2>1. \A q \in Request \ {r} : pc'[q] \notin {"mkpkg", "unpack"}
    BY <1>3 DEF Unpack
  <2> QED
    BY <1>3, <2>1 DEF Unpack
<1>4. CASE StepFails(r)
  BY <1>4 DEF StepFails
<1>5. CASE Cancel(r)
  <2>1. \A q \in Request : pc[r] = "mkpkg" => pc'[q] \notin {"mkpkg", "unpack"}
    BY <1>5 DEF Cancel
  <2> QED
    BY <1>5, <2>1 DEF Cancel
<1>6. CASE FetchCached(r) \/ RootfsFree(r) \/ MakeRootfs(r)
  BY <1>6, CallPastCache
<1> QED
  BY <1>1, <1>2, <1>3, <1>4, <1>5, <1>6, CallAwayFromCache DEF CallStep, CallEvent

LEMMA FetchStep ==
  ASSUME Inductive, FetchInv, [Next]_vars
  PROVE  FetchInv'
<1> USE DEF Inductive
<1>1. CASE \E r \in Request : CallStep(r) \/ CallEvent(r)
  BY <1>1, FetchCall
<1>2. CASE (\E a \in Deleters : DeleterStep(a)) \/ ReaperStep \/ (\E i \in Id : PickNext(i))
  BY <1>2, OthersAwayFromCache DEF FetchInv
<1>3. CASE Surroundings \/ Exit
  BY <1>3, ProcessAwayFromCache DEF FetchInv
<1>4. CASE UNCHANGED vars
  BY <1>4 DEF vars, FetchInv
<1> QED
  BY <1>1, <1>2, <1>3, <1>4 DEF Next, MainStep

\* A call makes its directory where nothing is by then, and fills it alone.
THEOREM FetchesAlone == Spec => []FetchInv
<1>1. Inductive /\ FetchInv /\ [Next]_vars => FetchInv'
  BY FetchStep
<1> QED
  BY <1>1, FetchInit, InductiveInvariant, PTL DEF Spec

LEMMA AbandonCall ==
  ASSUME TypeOK, MutexInv, ClaimInv, NEW r \in Request, CallStep(r) \/ CallEvent(r),
         NEW d \in Digest, ~Abandoned(d), Abandoned(d)'
  PROVE  BrokenOff(d)
<1> USE DEF TypeOK, MutexInv, Abandoned, Holding, Fetching, Goto, Answer, hostVars, bundleVars
<1>1. ~Download(r)
  BY DEF Download
<1>2. ~MakePkgDir(r)
  <2> SUFFICES ASSUME MakePkgDir(r) PROVE FALSE
    OBVIOUS
  <2>1. dig[r] # d
    BY DEF MakePkgDir
  <2> QED
    BY <2>1 DEF MakePkgDir
<1>3. ~Unpack(r)
  <2> SUFFICES ASSUME Unpack(r) PROVE FALSE
    OBVIOUS
  <2>1. dig[r] # d
    BY DEF Unpack
  <2> QED
    BY <2>1 DEF Unpack
<1>4. CASE StepFails(r)
  <2>1. pc[r] \in {"mkpkg", "unpack"} /\ dig[r] = d
    BY <1>4 DEF StepFails
  <2> QED
    BY <1>4, <2>1 DEF BrokenOff
<1>5. CASE Cancel(r)
  <2>1. pc[r] \in {"mkpkg", "unpack"} /\ dig[r] = d
    BY <1>5 DEF Cancel
  <2> QED
    BY <1>5, <2>1 DEF BrokenOff
<1>6. ~(FetchCached(r) \/ RootfsFree(r) \/ MakeRootfs(r))
  BY CallPastCache DEF Claiming
<1> QED
  BY <1>1, <1>2, <1>3, <1>4, <1>5, <1>6, CallAwayFromCache DEF CallStep, CallEvent

\* A package is abandoned only where the call at work on it, or the process, breaks off.
THEOREM OnlyFaultsAbandonPackages == Spec => OnlyFaultsAbandon
<1>1. ASSUME Inductive, [Next]_vars, NEW d \in Digest, ~Abandoned(d), Abandoned(d)'
      PROVE  BrokenOff(d)
  <2> USE DEF Inductive
  <2>1. CASE \E r \in Request : CallStep(r) \/ CallEvent(r)
    BY <1>1, <2>1, AbandonCall
  <2>2. CASE (\E a \in Deleters : DeleterStep(a)) \/ ReaperStep \/ (\E i \in Id : PickNext(i))
    BY <1>1, <2>2, OthersAwayFromCache DEF Abandoned
  <2>3. CASE Surroundings \/ Exit
    BY <1>1, <2>3, ProcessAwayFromCache DEF Abandoned, BrokenOff
  <2>4. CASE UNCHANGED vars
    BY <1>1, <2>4 DEF vars, Abandoned
  <2> QED
    BY <1>1, <2>1, <2>2, <2>3, <2>4 DEF Next, MainStep
<1>2. Inductive /\ [Next]_vars
        => [\A d \in Digest : ~Abandoned(d) /\ Abandoned(d)' => BrokenOff(d)]_vars
  BY <1>1
<1> QED
  BY <1>2, InductiveInvariant, PTL DEF Spec, OnlyFaultsAbandon

-----------------------------------------------------------------------------
(* What interrupts a call is the only reason for a bundle without its package. *)

\* Where nothing that a call does is interrupted, a half-unpacked package has a call
\* that is still at it, and what a call goes on with is whole.
CacheInv ==
  /\ \A d \in Digest : pkgs[d] = "partial" =>
       \E r \in Request : pc[r] = "unpack" /\ dig[r] = d
  /\ \A r \in Request : pc[r] \in Claiming \cup {"copy"} => pkgs[dig[r]] = "whole"

LEMMA CacheInit == Init => CacheInv
  BY ConstantsAssumption DEF Init, CacheInv, Claiming

LEMMA CacheCall ==
  ASSUME Faults \subseteq {"exit"}, TypeOK, MutexInv, ClaimInv, FetchInv, CacheInv,
         NEW r \in Request, CallStep(r) \/ CallEvent(r)
  PROVE  CacheInv'
<1> USE DEF TypeOK, MutexInv, CacheInv, Holding, Fetching, Claiming, Provisioning, Goto, Answer,
            hostVars, bundleVars
<1>1. ~StepFails(r) /\ ~Cancel(r)
  BY DEF StepFails, Cancel, CanFail, FetchInv
<1>2. CASE Download(r)
  BY <1>2 DEF Download
<1>3. CASE MakePkgDir(r)
  <2>1. \A q \in Request \ {r} : pc'[q] \notin Claiming \cup {"copy"}
    BY <1>3 DEF MakePkgDir
  <2>2. \A d \in Digest : pkgs[d] # "partial"
    BY <1>3 DEF MakePkgDir
  <2> QED
    BY <1>3, <2>1, <2>2 DEF MakePkgDir
<1>4. CASE Unpack(r)
  <2>1. \A q \in Request \ {r} : pc'[q] \notin Claiming \cup {"copy", "unpack"}
    BY <1>4 DEF Unpack
  <2>2. \A d \in Digest : pkgs[d] = "partial" => d = dig[r]
    BY <1>4 DEF Unpack
  <2>3. dig[r] \in Digest
    BY <1>4, ConstantsAssumption DEF Unpack, ClaimInv
  <2> QED
    BY <1>4, <2>1, <2>2, <2>3 DEF Unpack
<1>5. CASE FetchCached(r) \/ RootfsFree(r) \/ MakeRootfs(r)
  <2>1. \A d \in Digest : pkgs[d] # "partial"
    BY <1>5, CallPastCache
  <2>2. dig[r] \in Digest /\ pkgs[dig[r]] = "whole"
    BY <1>5, <2>1, CallPastCache, ConstantsAssumption DEF ClaimInv
  <2> QED
    BY <1>5, <2>1, <2>2, CallPastCache
<1>6. ASSUME UNCHANGED pkgs, pc[r] # "unpack",
             pc'[r] \notin {"mkpkg", "unpack", "exists", "mkdir", "copy"},
             \A q \in Request \ {r} : pc'[q] = pc[q] /\ dig'[q] = dig[q]
      PROVE  CacheInv'
  BY <1>6
<1> QED
  BY <1>1, <1>2, <1>3, <1>4, <1>5, <1>6, CallAwayFromCache DEF CallStep, CallEvent

LEMMA CacheStep ==
  ASSUME Faults \subseteq {"exit"}, Inductive, FetchInv, CacheInv, phase = "serving", [Next]_vars
  PROVE  CacheInv' /\ phase' = "serving"
<1> USE DEF Inductive
<1>1. CASE \E r \in Request : CallStep(r) \/ CallEvent(r)
  BY <1>1, CacheCall, CallKeepsPhase
<1>2. CASE (\E a \in Deleters : DeleterStep(a)) \/ ReaperStep \/ (\E i \in Id : PickNext(i))
  BY <1>2, OthersAwayFromCache, OthersKeepPhase DEF CacheInv
<1>3. CASE Surroundings \/ Exit
  <2>1. ~Crash /\ ~Exit /\ ~ShutdownSignal /\ ~Restart
    BY DEF Crash, Exit, ShutdownSignal, Restart
  <2> QED
    BY <1>3, <2>1, ProcessAwayFromCache
       DEF CacheInv, Surroundings, Expire, ContainerExits, processVars
<1>4. CASE UNCHANGED vars
  BY <1>4 DEF vars, CacheInv
<1> QED
  BY <1>1, <1>2, <1>3, <1>4 DEF Next, MainStep

\* Where nothing interrupts a call, what is half unpacked is still being unpacked.
THEOREM PartsAreUnpacked ==
  ASSUME Faults \subseteq {"exit"}
  PROVE  Spec => []CacheInv
<1>1. Init => CacheInv /\ phase = "serving"
  BY CacheInit DEF Init
<1>2. Inductive /\ FetchInv /\ CacheInv /\ phase = "serving" /\ [Next]_vars
        => CacheInv' /\ (phase = "serving")'
  BY CacheStep
<1> QED
  BY <1>1, <1>2, InductiveInvariant, FetchesAlone, PTL DEF Spec

\* While no operation fails, no caller hangs up and no process ends, what the calls
\* copy is whole, however many of them want the same digest.  (Any of the three is
\* enough to break it: the directory of a failed extraction counts as the archive.)
THEOREM UninterruptedCopiesWhole ==
  ASSUME Faults \subseteq {"exit"}
  PROVE  Spec => []CachedArchiveWhole
<1>1. CacheInv => CachedArchiveWhole
  BY DEF CacheInv, CachedArchiveWhole
<1>2. Spec => []CacheInv
  BY PartsAreUnpacked
<1> QED
  BY <1>1, <1>2, PTL

=============================================================================
