----------------------- MODULE WorkerLifecycle_proofs -----------------------
(***************************************************************************)
(* Worker implements InstanceLifecycle: every step of a call, a deleter or *)
(* the process moves the ids it is about along their life, or none.        *)
(***************************************************************************)
EXTENDS Worker_proofs

Stays(i) == StageOf(i)' = StageOf(i)

\* i moves, and every other id stays where it is.
Moves(i, from, to) ==
  /\ i \in Id
  /\ StageOf(i) \in from
  /\ StageOf(i)' = to
  /\ \A j \in Id \ {i} : Stays(j)

LEMMA InitialStage == Init => Lifecycle!Init
  BY DEF Init, Lifecycle!Init, Stage, StageOf, Mapped, Provisions, Drains,
         Provisioning, Draining

LEMMA StayingStutters ==
  ASSUME \A i \in Id : Stays(i)
  PROVE  UNCHANGED Stage
  BY DEF Stays, Stage

LEMMA MoveIsAbstract ==
  ASSUME NEW i, NEW from, NEW to, Moves(i, from, to)
  PROVE  i \in Id /\ Lifecycle!Move(i, from, to)
  BY DEF Moves, Stays, Lifecycle!Move, Stage

-----------------------------------------------------------------------------
(* Steps that move no id.                                                    *)

LEMMA QuietCall ==
  ASSUME Inductive, Inductive', NEW i \in Id, NEW r \in Request,
         Resolve(r) \/ PrefixPanics(r) \/ LookupHit(r) \/ LookupMiss(r) \/
         FetchCached(r) \/ Download(r) \/ MakePkgDir(r) \/ Unpack(r) \/
         RootfsFree(r) \/ RootfsExists(r) \/ CopyPackage(r) \/
         BuildContainer(r) \/ StartContainer(r) \/ ProbeOk(r) \/
         ProbeAgain(r) \/ ProbeGivesUp(r) \/ Connect(r) \/ LoseServer(r) \/
         Arrive(r) \/ Acquire(r) \/ Reply(r) \/ CallBreaks(r)
  PROVE  Stays(i)
<1> USE ConstantsAssumption DEF Inductive, TypeOK, Outside, Holding, Fetching,
       Claiming, Provisioning, Using, Draining, Deleters, Mapped, Inst,
       Provisions, Drains, processVars, callVars, tableVars, deleterVars,
       bundleVars, hostVars, Goto, Answer, Proceed, MutexInv, ClaimInv,
       DrainInv, ReaperInv, EntryBacked, BundleOutlivesContainer, Stays,
       Moves, StageOf
<1>1. CASE Resolve(r)
  BY <1>1 DEF Resolve
<1>2. CASE PrefixPanics(r)
  BY <1>2 DEF PrefixPanics
<1>3. CASE LookupHit(r)
  BY <1>3 DEF LookupHit
<1>4. CASE LookupMiss(r)
  BY <1>4 DEF LookupMiss
<1>5. CASE FetchCached(r)
  BY <1>5 DEF FetchCached
<1>6. CASE Download(r)
  BY <1>6 DEF Download
<1>7. CASE MakePkgDir(r)
  BY <1>7 DEF MakePkgDir
<1>8. CASE Unpack(r)
  BY <1>8 DEF Unpack
<1>9. CASE RootfsFree(r)
  BY <1>9 DEF RootfsFree
<1>10. CASE RootfsExists(r)
  BY <1>10 DEF RootfsExists
<1>11. CASE CopyPackage(r)
  BY <1>11 DEF CopyPackage
<1>12. CASE BuildContainer(r)
  BY <1>12 DEF BuildContainer
<1>13. CASE StartContainer(r)
  BY <1>13 DEF StartContainer
<1>14. CASE ProbeOk(r)
  BY <1>14 DEF ProbeOk
<1>15. CASE ProbeAgain(r)
  BY <1>15 DEF ProbeAgain
<1>16. CASE ProbeGivesUp(r)
  BY <1>16 DEF ProbeGivesUp
<1>17. CASE Connect(r)
  BY <1>17 DEF Connect
<1>18. CASE LoseServer(r)
  BY <1>18 DEF LoseServer
<1>19. CASE Arrive(r)
  BY <1>19 DEF Arrive
<1>20. CASE Acquire(r)
  BY <1>20 DEF Acquire
<1>21. CASE Reply(r)
  BY <1>21 DEF Reply
<1>22. CASE CallBreaks(r)
  BY <1>22 DEF CallBreaks
<1> QED
  BY <1>1, <1>2, <1>3, <1>4, <1>5, <1>6, <1>7, <1>8, <1>9, <1>10, <1>11,
     <1>12, <1>13, <1>14, <1>15, <1>16, <1>17, <1>18, <1>19, <1>20, <1>21,
     <1>22

LEMMA QuietDeleter ==
  ASSUME Inductive, Inductive', NEW i \in Id, NEW a \in Deleters,
         Snapshot(a) \/ Scanned(a) \/ RemoveNothing(a) \/ LoadContainer(a) \/
         KillContainer(a)
  PROVE  Stays(i)
<1> USE ConstantsAssumption DEF Inductive, TypeOK, Outside, Holding, Fetching,
       Claiming, Provisioning, Using, Draining, Deleters, Mapped, Inst,
       Provisions, Drains, processVars, callVars, tableVars, deleterVars,
       bundleVars, hostVars, Goto, Answer, Proceed, MutexInv, ClaimInv,
       DrainInv, ReaperInv, EntryBacked, BundleOutlivesContainer, Stays,
       Moves, StageOf
<1>1. CASE Snapshot(a)
  BY <1>1 DEF Snapshot
<1>2. CASE Scanned(a)
  BY <1>2 DEF Scanned
<1>3. CASE RemoveNothing(a)
  BY <1>3 DEF RemoveNothing, Forget, Release
<1>4. CASE LoadContainer(a)
  BY <1>4 DEF LoadContainer
<1>5. CASE KillContainer(a)
  BY <1>5 DEF KillContainer
<1> QED
  BY <1>1, <1>2, <1>3, <1>4, <1>5

LEMMA QuietScan ==
  ASSUME Inductive, Inductive', NEW i \in Id, ReaperStep \/ (\E k \in Id : PickNext(k))
  PROVE  Stays(i)
<1> USE ConstantsAssumption DEF Inductive, TypeOK, Outside, Holding, Fetching,
       Claiming, Provisioning, Using, Draining, Deleters, Mapped, Inst,
       Provisions, Drains, processVars, callVars, tableVars, deleterVars,
       bundleVars, hostVars, Goto, Answer, Proceed, MutexInv, ClaimInv,
       DrainInv, ReaperInv, EntryBacked, BundleOutlivesContainer, Stays,
       Moves, StageOf
<1>1. ASSUME NEW k \in Id, Peek(k) PROVE Stays(i)
  BY <1>1 DEF Peek
<1>2. ASSUME NEW k \in Id, PeekNothing(k) PROVE Stays(i)
  BY <1>2 DEF PeekNothing
<1>3. CASE CheckExpired
  BY <1>3 DEF CheckExpired
<1>4. CASE CheckFresh
  BY <1>4 DEF CheckFresh
<1>5. ASSUME NEW k \in Id, PickNext(k) PROVE Stays(i)
  BY <1>5 DEF PickNext
<1> QED
  BY <1>1, <1>2, <1>3, <1>4, <1>5 DEF ReaperStep

LEMMA QuietSurroundings ==
  ASSUME Inductive, Inductive', NEW i \in Id, (\E c \in Arc : Expire(c)) \/ (\E k \in Id : ContainerExits(k)) \/ ShutdownSignal \/ Restart
  PROVE  Stays(i)
<1> USE ConstantsAssumption DEF Inductive, TypeOK, Outside, Holding, Fetching,
       Claiming, Provisioning, Using, Draining, Deleters, Mapped, Inst,
       Provisions, Drains, processVars, callVars, tableVars, deleterVars,
       bundleVars, hostVars, Goto, Answer, Proceed, MutexInv, ClaimInv,
       DrainInv, ReaperInv, EntryBacked, BundleOutlivesContainer, Stays,
       Moves, StageOf
<1>1. ASSUME NEW c \in Arc, Expire(c) PROVE Stays(i)
  BY <1>1 DEF Expire, Cells
<1>2. ASSUME NEW k \in Id, ContainerExits(k) PROVE Stays(i)
  BY <1>2 DEF ContainerExits
<1>3. CASE ShutdownSignal
  BY <1>3 DEF ShutdownSignal
<1>4. CASE Restart
  BY <1>4 DEF Restart
<1> QED
  BY <1>1, <1>2, <1>3, <1>4

-----------------------------------------------------------------------------
(* Steps that move one.                                                      *)

LEMMA MakeRootfsProvisions ==
  ASSUME Inductive, Inductive', NEW r \in Request, NEW i \in Id,
         MakeRootfs(r), i = Inst(r)
  PROVE  Moves(i, {"vacant"}, "provisioning")
<1> USE ConstantsAssumption DEF Inductive, TypeOK, Outside, Holding, Fetching,
       Claiming, Provisioning, Using, Draining, Deleters, Mapped, Inst,
       Provisions, Drains, processVars, callVars, tableVars, deleterVars,
       bundleVars, hostVars, Goto, Answer, Proceed, MutexInv, ClaimInv,
       DrainInv, ReaperInv, EntryBacked, BundleOutlivesContainer, Stays,
       Moves, StageOf
<1> QED
  BY DEF MakeRootfs

LEMMA InsertPublishes ==
  ASSUME Inductive, Inductive', NEW r \in Request, NEW i \in Id,
         Insert(r), i = Inst(r)
  PROVE  Moves(i, {"provisioning"}, "serving")
<1> USE ConstantsAssumption DEF Inductive, TypeOK, Outside, Holding, Fetching,
       Claiming, Provisioning, Using, Draining, Deleters, Mapped, Inst,
       Provisions, Drains, processVars, callVars, tableVars, deleterVars,
       bundleVars, hostVars, Goto, Answer, Proceed, MutexInv, ClaimInv,
       DrainInv, ReaperInv, EntryBacked, BundleOutlivesContainer, Stays,
       Moves, StageOf
<1> QED
  BY DEF Insert

\* A call that ends while it provisions leaves its bundle behind.
LEMMA LeavingWedges ==
  ASSUME Inductive, Inductive', NEW r \in Request, NEW i \in Id, i = Inst(r),
         pc[r] \in Provisioning, Answer(r), UNCHANGED <<functions, dpc, did, rootfs>>
  PROVE  Moves(i, {"provisioning"}, "wedged")
<1> USE ConstantsAssumption DEF Inductive, TypeOK, Outside, Holding, Fetching,
       Claiming, Provisioning, Using, Draining, Deleters, Mapped, Inst,
       Provisions, Drains, processVars, callVars, tableVars, deleterVars,
       bundleVars, hostVars, Goto, Answer, Proceed, MutexInv, ClaimInv,
       DrainInv, ReaperInv, EntryBacked, BundleOutlivesContainer, Stays,
       Moves, StageOf
<1>1. StageOf(i) = "provisioning"
  OBVIOUS
<1>2. pc' = [pc EXCEPT ![r] = "idle"] /\ \A q \in Request \ {r} : dig'[q] = dig[q]
  OBVIOUS
<1>3. \A q \in Request : pc[q] \in Provisioning => q = r
  OBVIOUS
<1>4. \A q \in Request : pc'[q] \notin Provisioning
  BY <1>2, <1>3
<1>5. \A a \in Deleters : ~Drains(a, i)
  BY <1>1
<1>6. StageOf(i)' = "wedged"
  BY <1>1, <1>4, <1>5
<1>7. \A j \in Id \ {i} : Stays(j)
  BY <1>3, <1>4
<1> QED
  BY <1>1, <1>6, <1>7

LEMMA RemoveWithdraws ==
  ASSUME Inductive, Inductive', NEW a \in Deleters, NEW i \in Id,
         Remove(a), i = did[a]
  PROVE  Moves(i, {"serving"}, "draining")
<1> USE ConstantsAssumption DEF Inductive, TypeOK, Outside, Holding, Fetching,
       Claiming, Provisioning, Using, Draining, Deleters, Mapped, Inst,
       Provisions, Drains, processVars, callVars, tableVars, deleterVars,
       bundleVars, hostVars, Goto, Answer, Proceed, MutexInv, ClaimInv,
       DrainInv, ReaperInv, EntryBacked, BundleOutlivesContainer, Stays,
       Moves, StageOf
<1> QED
  BY DEF Remove

\* A deletion that ends, well or badly, lets go of an id it had to itself.
LEMMA DrainedGone ==
  ASSUME Inductive, Inductive', NEW a \in Deleters, NEW i \in Id, i = did[a],
         dpc[a] \in Draining, dpc'[a] \notin Draining, UNCHANGED <<pc, dig, functions>>,
         \A b \in Deleters \ {a} : dpc'[b] = dpc[b] /\ did'[b] = did[b],
         \A j \in Id \ {i} : rootfs'[j] = rootfs[j]
  PROVE  Moves(i, {"draining"},
               IF rootfs'[i] = "absent" THEN "vacant" ELSE "wedged")
<1> USE ConstantsAssumption DEF Inductive, TypeOK, Outside, Holding, Fetching,
       Claiming, Provisioning, Using, Draining, Deleters, Mapped, Inst,
       Provisions, Drains, processVars, callVars, tableVars, deleterVars,
       bundleVars, hostVars, Goto, Answer, Proceed, MutexInv, ClaimInv,
       DrainInv, ReaperInv, EntryBacked, BundleOutlivesContainer, Stays,
       Moves, StageOf
<1>1. ~Mapped(i) /\ \A r \in Request : ~Provisions(r, i)
  OBVIOUS
<1>2. StageOf(i) = "draining"
  BY <1>1
<1>3. \A b \in Deleters : Drains(b, i) => b = a
  OBVIOUS
<1>4. \A b \in Deleters : ~Drains(b, i)'
  BY <1>3
<1>5. ~Mapped(i)' /\ \A r \in Request : ~Provisions(r, i)'
  BY <1>1
<1>6. StageOf(i)' = IF rootfs'[i] = "absent" THEN "vacant" ELSE "wedged"
  BY <1>4, <1>5
<1>7. ASSUME NEW j \in Id \ {i} PROVE Stays(j)
  <2>1. \A b \in Deleters : Drains(b, j)' <=> Drains(b, j)
    BY <1>7
  <2>2. Mapped(j)' <=> Mapped(j)
    OBVIOUS
  <2>3. \A r \in Request : Provisions(r, j)' <=> Provisions(r, j)
    OBVIOUS
  <2>4. rootfs'[j] = rootfs[j]
    BY <1>7
  <2> QED
    BY <2>1, <2>2, <2>3, <2>4 DEF Stays, StageOf
<1> QED
  BY <1>1, <1>2, <1>6, <1>7

-----------------------------------------------------------------------------
(* Every step is a step of the lifecycle.                                    *)

Lives == UNCHANGED Stage \/ Lifecycle!Next

LEMMA InstIsId ==
  ASSUME Inductive, NEW r \in Request, pc[r] \in Holding \ {"lookup"}
  PROVE  Inst(r) \in Id
  BY ConstantsAssumption DEF Inductive, ClaimInv, Inst

\* create_rootfs takes a free place, insert publishes it, and a call that ends
\* between the two gives it up.
LEMMA CallLives ==
  ASSUME Inductive, Inductive', NEW r \in Request, CallStep(r) \/ CallEvent(r)
  PROVE  Lives
<1>1. CASE MakeRootfs(r)
  <2>1. PICK i \in Id : i = Inst(r)
    BY <1>1, InstIsId DEF MakeRootfs, Goto, Holding, Claiming
  <2>2. Lifecycle!Provision(i)
    BY <1>1, <2>1, MakeRootfsProvisions, MoveIsAbstract DEF Lifecycle!Provision
  <2> QED
    BY <2>2 DEF Lives, Lifecycle!Next
<1>2. CASE Insert(r)
  <2>1. PICK i \in Id : i = Inst(r)
    BY <1>2, InstIsId DEF Insert, Goto, Holding, Provisioning
  <2>2. Lifecycle!Publish(i)
    BY <1>2, <2>1, InsertPublishes, MoveIsAbstract DEF Lifecycle!Publish
  <2> QED
    BY <2>2 DEF Lives, Lifecycle!Next
<1>3. ASSUME pc[r] \in Provisioning, Answer(r), UNCHANGED <<functions, dpc, did, rootfs>>
      PROVE  Lives
  <2>1. PICK i \in Id : i = Inst(r)
    BY <1>3, InstIsId DEF Holding, Provisioning
  <2>2. Moves(i, {"provisioning"}, "wedged")
    BY <1>3, <2>1, LeavingWedges
  <2>3. Lifecycle!Wedge(i)
    BY <2>2, MoveIsAbstract DEF Lifecycle!Wedge, Lifecycle!Move
  <2> QED
    BY <2>3 DEF Lives, Lifecycle!Next
<1>4. ASSUME pc[r] \notin Provisioning, Answer(r),
             UNCHANGED <<functions, dpc, did, rootfs>>
      PROVE  Lives
  <2>1. \A i \in Id : Stays(i)
    BY <1>4 DEF Stays, StageOf, Mapped, Provisions, Drains, Inst, Answer,
               Inductive, TypeOK, Provisioning
  <2> QED
    BY <2>1, StayingStutters DEF Lives
<1>5. CASE BuildFails(r)
  BY <1>3, <1>5 DEF BuildFails, Provisioning, tableVars, deleterVars
<1>6. CASE StepFails(r)
  BY <1>3, <1>4, <1>6 DEF StepFails, tableVars, deleterVars, hostVars
<1>7. CASE Cancel(r)
  <2>1. CASE UNCHANGED rootfs
    BY <1>3, <1>4, <1>7, <2>1 DEF Cancel, tableVars, deleterVars
  <2>2. CASE ~UNCHANGED rootfs
    <3>1. /\ pc[r] = "mkdir" /\ Answer(r)
          /\ rootfs' = [rootfs EXCEPT ![Inst(r)] = "partial"]
          /\ UNCHANGED <<functions, dpc, did>>
      BY <1>7, <2>2 DEF Cancel, tableVars, deleterVars
    <3>2. PICK i \in Id : i = Inst(r)
      BY <3>1, InstIsId DEF Holding, Claiming
    <3>3. Moves(i, {"vacant"}, "wedged")
      BY <3>1, <3>2
         DEF Moves, Stays, StageOf, Mapped, Provisions, Drains, Inst, Answer,
             Inductive, TypeOK, MutexInv, ClaimInv, DrainInv, Holding, Fetching,
             Claiming, Provisioning, Draining, Deleters
    <3>4. Lifecycle!Wedge(i)
      BY <3>3, MoveIsAbstract DEF Lifecycle!Wedge, Lifecycle!Move
    <3> QED
      BY <3>4 DEF Lives, Lifecycle!Next
  <2> QED
    BY <2>1, <2>2
<1>8. CASE ~(MakeRootfs(r) \/ Insert(r) \/ BuildFails(r) \/ StepFails(r) \/ Cancel(r))
  <2>1. \A i \in Id : Stays(i)
    BY <1>8, QuietCall DEF CallStep, CallEvent
  <2> QED
    BY <2>1, StayingStutters DEF Lives
<1> QED
  BY <1>1, <1>2, <1>5, <1>6, <1>7, <1>8

\* delete withdraws an entry and reclaims its place, or loses it.
LEMMA DeleterLives ==
  ASSUME Inductive, Inductive', NEW a \in Deleters, DeleterStep(a)
  PROVE  Lives
<1> USE DEF Inductive, DrainInv, Proceed, Draining, Lives
<1>1. CASE Remove(a)
  <2>1. PICK i \in Id : i = did[a]
    BY <1>1 DEF Remove
  <2>2. Lifecycle!Withdraw(i)
    BY <1>1, <2>1, RemoveWithdraws, MoveIsAbstract DEF Lifecycle!Withdraw
  <2> QED
    BY <2>2 DEF Lifecycle!Next
<1>2. CASE RemoveRootfs(a)
  <2>1. PICK i \in Id : i = did[a]
    BY <1>2 DEF RemoveRootfs
  <2>2. Moves(i, {"draining"}, "vacant")
    <3>1. rootfs'[i] = "absent" /\ \A j \in Id \ {i} : rootfs'[j] = rootfs[j]
      BY <1>2, <2>1 DEF RemoveRootfs, TypeOK
    <3>2. /\ dpc[a] \in Draining /\ dpc'[a] \notin Draining
          /\ \A b \in Deleters \ {a} : dpc'[b] = dpc[b] /\ did'[b] = did[b]
          /\ UNCHANGED <<pc, dig, functions>>
      BY <1>2 DEF RemoveRootfs, TypeOK, callVars, tableVars
    <3> QED
      BY <2>1, <3>1, <3>2, DrainedGone
  <2>3. Lifecycle!Reclaim(i)
    BY <2>2, MoveIsAbstract DEF Lifecycle!Reclaim
  <2> QED
    BY <2>3 DEF Lifecycle!Next
<1>3. CASE DeleteFails(a)
  <2>1. PICK i \in Id : i = did[a]
    BY <1>3 DEF DeleteFails
  <2>2. Moves(i, {"draining"}, "wedged")
    <3>1. rootfs'[i] # "absent" /\ \A j \in Id \ {i} : rootfs'[j] = rootfs[j]
      BY <1>3, <2>1 DEF DeleteFails, TypeOK
    <3>2. /\ dpc[a] \in Draining /\ dpc'[a] \notin Draining
          /\ \A b \in Deleters \ {a} : dpc'[b] = dpc[b] /\ did'[b] = did[b]
          /\ UNCHANGED <<pc, dig, functions>>
      BY <1>3 DEF DeleteFails, TypeOK, callVars, tableVars
    <3> QED
      BY <2>1, <3>1, <3>2, DrainedGone
  <2>3. Lifecycle!Wedge(i)
    BY <2>2, MoveIsAbstract DEF Lifecycle!Wedge, Lifecycle!Move
  <2> QED
    BY <2>3 DEF Lifecycle!Next
<1>4. CASE ~(Remove(a) \/ RemoveRootfs(a) \/ DeleteFails(a))
  <2>1. \A i \in Id : Stays(i)
    BY <1>4, QuietDeleter DEF DeleterStep
  <2> QED
    BY <2>1, StayingStutters
<1> QED
  BY <1>1, <1>2, <1>3, <1>4

\* A process that ends loses track of every place that is not vacant: an entry, a
\* call that provisions and a deleter all stand for a bundle that is there.
LEMMA VanishHalts ==
  ASSUME Inductive, NEW p, Vanish(p)
  PROVE  Lifecycle!Halt
<1>1. ASSUME NEW i \in Id
      PROVE  StageOf(i)' = IF StageOf(i) = "vacant" THEN "vacant" ELSE "wedged"
  <2>1. StageOf(i)' = IF rootfs[i] = "absent" THEN "vacant" ELSE "wedged"
    BY DEF Vanish, StageOf, Mapped, Provisions, Drains, Provisioning, Draining,
           hostVars
  <2>2. rootfs[i] = "absent" <=> StageOf(i) = "vacant"
    BY DEF StageOf, Inductive, EntryBacked, ClaimInv, DrainInv, Provisions, Drains
  <2> QED
    BY <2>1, <2>2
<1> QED
  BY <1>1 DEF Lifecycle!Halt, Stage

LEMMA StepLives ==
  ASSUME Inductive, Inductive', [Next]_vars
  PROVE  [Lifecycle!Next]_Stage
<1>1. CASE \E r \in Request : CallStep(r) \/ CallEvent(r)
  BY <1>1, CallLives DEF Lives
<1>2. CASE \E a \in Deleters : DeleterStep(a)
  BY <1>2, DeleterLives DEF Lives
<1>3. CASE ReaperStep \/ (\E i \in Id : PickNext(i))
  <2>1. \A i \in Id : Stays(i)
    BY <1>3, QuietScan
  <2> QED
    BY <2>1, StayingStutters
<1>4. CASE Exit \/ Crash
  <2>1. Lifecycle!Halt
    BY <1>4, VanishHalts DEF Exit, Crash
  <2> QED
    BY <2>1 DEF Lifecycle!Next
<1>5. CASE Surroundings /\ ~Crash
  <2>1. \A i \in Id : Stays(i)
    BY <1>5, QuietSurroundings DEF Surroundings
  <2> QED
    BY <2>1, StayingStutters
<1>6. CASE UNCHANGED vars
  BY <1>6 DEF vars, Stage, StageOf, Mapped, Provisions, Drains, Inst
<1> QED
  BY <1>1, <1>2, <1>3, <1>4, <1>5, <1>6 DEF Next, MainStep

\* The worker implements the lifecycle of instance ids.
THEOREM WorkerImplementsLifecycle == Spec => LifecycleSpec
<1>1. Init => Lifecycle!Init
  BY InitialStage
<1>2. Inductive /\ Inductive' /\ [Next]_vars => [Lifecycle!Next]_Stage
  BY StepLives
<1> QED
  BY <1>1, <1>2, InductiveInvariant, PTL DEF Spec, LifecycleSpec, Lifecycle!Spec

-----------------------------------------------------------------------------
(* Only faults cost an id.                                                   *)

\* A call that ends moves no id but the one it is building.
LEMMA EndingMovesOwn ==
  ASSUME Inductive, NEW r \in Request, NEW i \in Id, Answer(r),
         ~(pc[r] \in Provisioning /\ Inst(r) = i),
         UNCHANGED <<functions, dpc, did>>, rootfs'[i] = rootfs[i]
  PROVE  Stays(i)
<1> USE DEF Inductive, TypeOK, Answer, Provisioning
<1>1. \A q \in Request : Provisions(q, i)' <=> Provisions(q, i)
  BY DEF Provisions, Inst
<1>2. \A a \in Deleters : Drains(a, i)' <=> Drains(a, i)
  BY DEF Drains
<1>3. Mapped(i)' <=> Mapped(i)
  BY DEF Mapped
<1> QED
  BY <1>1, <1>2, <1>3 DEF Stays, StageOf

LEMMA CallLoses ==
  ASSUME Inductive, Inductive', NEW r \in Request, CallStep(r) \/ CallEvent(r),
         NEW i \in Id, StageOf(i) # "wedged", StageOf(i)' = "wedged"
  PROVE  Lost(i)
<1>1. CASE MakeRootfs(r)
  <2>1. PICK k \in Id : k = Inst(r)
    BY <1>1, InstIsId DEF MakeRootfs, Goto, Holding, Claiming
  <2> QED
    BY <1>1, <2>1, MakeRootfsProvisions DEF Moves, Stays
<1>2. CASE Insert(r)
  <2>1. PICK k \in Id : k = Inst(r)
    BY <1>2, InstIsId DEF Insert, Goto, Holding, Provisioning
  <2> QED
    BY <1>2, <2>1, InsertPublishes DEF Moves, Stays
<1>3. CASE BuildFails(r) \/ StepFails(r) \/ Cancel(r)
  <2>1. CASE pc[r] \in {"mkdir"} \cup Provisioning /\ Inst(r) = i
    BY <1>3, <2>1 DEF Lost
  <2>2. CASE ~(pc[r] \in {"mkdir"} \cup Provisioning /\ Inst(r) = i)
    <3>1. Answer(r) /\ UNCHANGED <<functions, dpc, did>>
      BY <1>3 DEF BuildFails, StepFails, Cancel, tableVars, deleterVars
    <3>2. rootfs'[i] = rootfs[i]
      BY <1>3, <2>2
         DEF BuildFails, StepFails, Cancel, hostVars, Inductive, TypeOK
    <3> QED
      BY <2>2, <3>1, <3>2, EndingMovesOwn DEF Stays
  <2> QED
    BY <2>1, <2>2
<1>4. CASE ~(MakeRootfs(r) \/ Insert(r) \/ BuildFails(r) \/ StepFails(r) \/ Cancel(r))
  BY <1>4, QuietCall DEF CallStep, CallEvent, Stays
<1> QED
  BY <1>1, <1>2, <1>3, <1>4

LEMMA DeleterLoses ==
  ASSUME Inductive, Inductive', NEW a \in Deleters, DeleterStep(a),
         NEW i \in Id, StageOf(i) # "wedged", StageOf(i)' = "wedged"
  PROVE  Lost(i)
<1> USE DEF Inductive, DrainInv, Proceed, Draining
<1>1. CASE Remove(a)
  <2>1. PICK k \in Id : k = did[a]
    BY <1>1 DEF Remove
  <2> QED
    BY <1>1, <2>1, RemoveWithdraws DEF Moves, Stays
<1>2. CASE RemoveRootfs(a) \/ DeleteFails(a)
  <2>1. PICK k \in Id : k = did[a]
    BY <1>2 DEF RemoveRootfs, DeleteFails
  <2>2. /\ dpc[a] \in Draining /\ dpc'[a] \notin Draining
        /\ \A b \in Deleters \ {a} : dpc'[b] = dpc[b] /\ did'[b] = did[b]
        /\ UNCHANGED <<pc, dig, functions>>
        /\ \A j \in Id \ {k} : rootfs'[j] = rootfs[j]
    BY <1>2, <2>1 DEF RemoveRootfs, DeleteFails, TypeOK, callVars, tableVars
  <2>3. Moves(k, {"draining"}, IF rootfs'[k] = "absent" THEN "vacant" ELSE "wedged")
    BY <2>1, <2>2, DrainedGone
  <2>4. i = k /\ rootfs'[k] # "absent"
    BY <2>3 DEF Moves, Stays
  <2>5. DeleteFails(a) /\ Drains(a, i)
    BY <1>2, <2>1, <2>4 DEF RemoveRootfs, DeleteFails, TypeOK, Drains
  <2>6. CanFail \/ ctr[i] = "stopped"
    BY <2>1, <2>4, <2>5 DEF DeleteFails
  <2> QED
    BY <2>5, <2>6 DEF Lost
<1>3. CASE ~(Remove(a) \/ RemoveRootfs(a) \/ DeleteFails(a))
  BY <1>3, QuietDeleter DEF DeleterStep, Stays
<1> QED
  BY <1>1, <1>2, <1>3

LEMMA StepLoses ==
  ASSUME Inductive, Inductive', [Next]_vars,
         NEW i \in Id, StageOf(i) # "wedged", StageOf(i)' = "wedged"
  PROVE  Lost(i)
<1>1. CASE \E r \in Request : CallStep(r) \/ CallEvent(r)
  BY <1>1, CallLoses
<1>2. CASE \E a \in Deleters : DeleterStep(a)
  BY <1>2, DeleterLoses
<1>3. CASE ReaperStep \/ (\E k \in Id : PickNext(k))
  BY <1>3, QuietScan DEF Stays
<1>4. CASE Exit \/ Crash
  BY <1>4 DEF Lost
<1>5. CASE Surroundings /\ ~Crash
  BY <1>5, QuietSurroundings DEF Surroundings, Stays
<1>6. CASE UNCHANGED vars
  BY <1>6 DEF vars, StageOf, Mapped, Provisions, Drains, Inst
<1> QED
  BY <1>1, <1>2, <1>3, <1>4, <1>5, <1>6 DEF Next, MainStep

\* No interleaving of calls, reaper and shutdown costs an instance id: each one that
\* is lost was lost to a failure, a hang-up or the end of the process, in that step.
THEOREM OnlyFaultsCostIds == Spec => OnlyFaultsWedge
<1>1. Inductive /\ Inductive' /\ [Next]_vars
        => [\A i \in Id : StageOf(i) # "wedged" /\ StageOf(i)' = "wedged" => Lost(i)]_vars
  BY StepLoses
<1> QED
  BY <1>1, InductiveInvariant, PTL DEF Spec, OnlyFaultsWedge

\* Nothing in the life of an id leads out of the wedge.
LEMMA WedgeHolds ==
  ASSUME NEW i \in Id, [Lifecycle!Next]_Stage, Stage[i] = "wedged"
  PROVE  Stage'[i] = "wedged"
<1> USE DEF Lifecycle!Move
<1>1. DOMAIN Stage = Id
  BY DEF Stage
<1>2. ASSUME NEW k \in Id, Lifecycle!Provision(k) \/ Lifecycle!Publish(k) \/
             Lifecycle!Withdraw(k) \/ Lifecycle!Reclaim(k) \/ Lifecycle!Wedge(k)
      PROVE  Stage'[i] = "wedged"
  BY <1>1, <1>2 DEF Lifecycle!Provision, Lifecycle!Publish, Lifecycle!Withdraw,
                    Lifecycle!Reclaim, Lifecycle!Wedge
<1>3. CASE Lifecycle!Halt
  BY <1>3 DEF Lifecycle!Halt
<1> QED
  BY <1>2, <1>3 DEF Lifecycle!Next

\* An id that was lost once is lost for good: no call, deleter, shutdown or restart of
\* the worker ever clears the bundle away, so every later call for it is refused.
THEOREM LostForGood ==
  ASSUME NEW i \in Id
  PROVE  Spec => [](StageOf(i) = "wedged" => [](StageOf(i) = "wedged" /\ ~Mapped(i)))
<1>1. Inductive /\ Inductive' /\ [Next]_vars
        => (StageOf(i) = "wedged" => (StageOf(i) = "wedged")')
  <2> SUFFICES ASSUME Inductive, Inductive', [Next]_vars, StageOf(i) = "wedged"
               PROVE  StageOf(i)' = "wedged"
    OBVIOUS
  <2>1. [Lifecycle!Next]_Stage
    BY StepLives
  <2>2. Stage'[i] = "wedged"
    BY <2>1, WedgeHolds DEF Stage
  <2> QED
    BY <2>2 DEF Stage
<1>2. StageOf(i) = "wedged" => ~Mapped(i)
  BY DEF StageOf
<1> QED
  BY <1>1, <1>2, InductiveInvariant, PTL DEF Spec

=============================================================================
