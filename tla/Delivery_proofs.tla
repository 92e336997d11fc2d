--------------------------- MODULE Delivery_proofs ---------------------------
(***************************************************************************)
(* The composition keeps what its parts promise: to the registry and the   *)
(* control plane it is Deploy, to a script it is CustomBuild.  Joining     *)
(* what each of them knows at the point where they meet gives what neither *)
(* can say alone: a name stands for whole output.                          *)
(***************************************************************************)
EXTENDS Delivery, Deploy_proofs

-----------------------------------------------------------------------------
(* The script alone, for every script: what is tarred without an error is whole as far
   as the shell answers for it, and found as far as all entries have the lengths that
   their headers say.  From the shell's success on, the jobs it answers for are over, and
   their files stay as they are until the walk has read them: whoever still writes,
   writes other files, and so no entry is skewed but one of those.  *)

LEMMA WalkInit == B!Init => B!WalkInductive
  BY DEF B!Init, B!WalkInductive, B!TypeOK, B!WalkInv, B!File, B!Entry, B!Empty

LEMMA EntryTyped ==
  ASSUME archived \in [Push -> [Job -> B!Entry]], NEW p \in Push, NEW j \in Job,
         NEW e \in B!Entry
  PROVE  [archived EXCEPT ![p][j] = e] \in [Push -> [Job -> B!Entry]]
  OBVIOUS

LEMMA WalkStepTypes ==
  ASSUME B!TypeOK, [B!Next]_(B!vars)
  PROVE  B!TypeOK'
<1>1. /\ B!Empty \in [Job -> B!File] /\ B!Empty \in [Job -> B!Entry]
      /\ "part" \in B!File /\ "whole" \in B!File
      /\ B!File \subseteq B!Entry /\ {"none", "header", "skewed"} \subseteq B!Entry
  BY DEF B!Empty, B!File, B!Entry
<1> USE DEF B!TypeOK, B!Goto, B!Fail, B!DropTempDir, B!DropTar, B!Exit
<1>2. ASSUME NEW p \in Push, B!Begin(p) PROVE B!TypeOK'
  BY <1>1, <1>2 DEF B!Begin
<1>3. ASSUME NEW p \in Push, B!PrepareFails(p) PROVE B!TypeOK'
  BY <1>1, <1>3 DEF B!PrepareFails
<1>4. ASSUME NEW p \in Push, B!Spawn(p) PROVE B!TypeOK'
  BY <1>1, <1>4 DEF B!Spawn
<1>5. ASSUME NEW p \in Push, B!ScriptOk(p) PROVE B!TypeOK'
  BY <1>1, <1>5 DEF B!ScriptOk
<1>6. ASSUME NEW p \in Push, B!ScriptFailed(p) PROVE B!TypeOK'
  BY <1>1, <1>6 DEF B!ScriptFailed
<1>7. ASSUME NEW p \in Push, B!TimeOut(p) PROVE B!TypeOK'
  BY <1>1, <1>7 DEF B!TimeOut
<1>8. ASSUME NEW p \in Push, B!Inspect(p) PROVE B!TypeOK'
  BY <1>1, <1>8 DEF B!Inspect
<1>9. ASSUME NEW p \in Push, B!InspectFails(p) PROVE B!TypeOK'
  BY <1>1, <1>9 DEF B!InspectFails
<1>10. ASSUME NEW p \in Push, B!TarDone(p) PROVE B!TypeOK'
  BY <1>1, <1>10 DEF B!TarDone
<1>11. ASSUME NEW p \in Push, B!TarFails(p) PROVE B!TypeOK'
  BY <1>1, <1>11 DEF B!TarFails
<1>12. ASSUME NEW p \in Push, B!CommandDies(p) PROVE B!TypeOK'
  BY <1>1, <1>12 DEF B!CommandDies
<1>13. ASSUME NEW p \in Push, B!ShellSucceeds(p) PROVE B!TypeOK'
  BY <1>1, <1>13 DEF B!ShellSucceeds
<1>14. ASSUME NEW p \in Push, B!ShellFails(p) PROVE B!TypeOK'
  BY <1>1, <1>14 DEF B!ShellFails
<1>15. ASSUME NEW p \in Push, NEW j \in Job,
              B!PassBy(p, j) \/ B!AddHeader(p, j) \/ B!AddContent(p, j)
       PROVE  B!TypeOK'
  <2>1. CASE B!PassBy(p, j)
    BY <2>1 DEF B!PassBy
  <2>2. CASE B!AddHeader(p, j)
    BY <1>1, <2>2 DEF B!AddHeader
  <2>3. CASE B!AddContent(p, j)
    <3>1. output[p][j] \in B!Entry /\ "none" \in B!Entry
      BY <1>1
    <3>2. PICK e \in B!Entry :
            archived' = archived \/ archived' = [archived EXCEPT ![p][j] = e]
      BY <2>3, <3>1 DEF B!AddContent
    <3>3. archived' \in [Push -> [Job -> B!Entry]]
      <4>1. [archived EXCEPT ![p][j] = e] \in [Push -> [Job -> B!Entry]]
        BY EntryTyped
      <4> QED
        BY <3>2, <4>1
    <3> QED
      BY <2>3, <3>3 DEF B!AddContent
  <2> QED
    BY <1>15, <2>1, <2>2, <2>3
<1>16. ASSUME NEW p \in Push, NEW j \in Job, B!Write(p, j) PROVE B!TypeOK'
  <2>1. PICK more \in {"part", "whole"} : output' = [output EXCEPT ![p][j] = more]
    BY <1>16 DEF B!Write
  <2>2. more \in B!File
    BY <1>1
  <2>3. archived' \in [Push -> [Job -> B!Entry]]
    <3>1. \/ archived' = archived
          \/ \E e \in {"header", "skewed"} : archived' = [archived EXCEPT ![p][j] = e]
      BY <1>16 DEF B!Write
    <3>2. {"header", "skewed"} \subseteq B!Entry
      BY <1>1
    <3>3. CASE \E e \in {"header", "skewed"} : archived' = [archived EXCEPT ![p][j] = e]
      <4>1. PICK e \in {"header", "skewed"} : archived' = [archived EXCEPT ![p][j] = e]
        BY <3>3
      <4>2. [archived EXCEPT ![p][j] = e] \in [Push -> [Job -> B!Entry]]
        BY <3>2, EntryTyped
      <4> QED
        BY <4>1, <4>2
    <3> QED
      BY <3>1, <3>3
  <2> QED
    BY <1>16, <2>1, <2>2, <2>3 DEF B!Write
<1>17. ASSUME NEW p \in Push, NEW j \in Job, B!JobEnds(p, j) PROVE B!TypeOK'
  BY <1>17 DEF B!JobEnds
<1>18. ASSUME NEW p \in Push, B!Return(p) PROVE B!TypeOK'
  BY <1>1, <1>18 DEF B!Return
<1>19. CASE UNCHANGED B!vars
  BY <1>19 DEF B!vars
<1> QED
  BY <1>2, <1>3, <1>4, <1>5, <1>6, <1>7, <1>8, <1>9,
     <1>10, <1>11, <1>12, <1>13, <1>14, <1>15, <1>16, <1>17, <1>18, <1>19
     DEF B!Next, B!BuildStep, B!ScriptStep, B!PushStep

\* An entry that is done stays as it is; so what is skewed stays so, and the next one is
\* either found as it is in the directory, or passed over because something is skewed.
LEMMA AddContentKeepsWalk ==
  ASSUME B!WalkInductive, NEW p \in Push, NEW j \in Job, B!AddContent(p, j)
  PROVE  B!WalkInv'
<1> USE DEF B!WalkInductive, B!TypeOK, B!WalkInv, B!Ready
<1>1. /\ step[p] = "tar" /\ j \in unread[p]
      /\ UNCHANGED <<step, shell, running, output>>
      /\ unread' = [unread EXCEPT ![p] = unread[p] \ {j}]
  BY DEF B!AddContent
<1>2. \A q \in Push, k \in Job : q # p \/ k # j => archived'[q][k] = archived[q][k]
  BY DEF B!AddContent
<1>3. \A q \in Push : q # p => archived'[q] = archived[q] /\ unread'[q] = unread[q]
  BY <1>1 DEF B!AddContent
<1>4. B!Skewed(p) => B!Skewed(p)'
  <2> SUFFICES ASSUME NEW k \in Job \ unread[p], archived[p][k] = "skewed"
               PROVE  B!Skewed(p)'
    BY DEF B!Skewed
  <2>1. k # j /\ k \in Job \ unread'[p]
    BY <1>1
  <2>2. archived'[p][k] = "skewed"
    BY <1>2, <2>1
  <2> QED
    BY <2>1, <2>2 DEF B!Skewed
<1>5. ASSUME NEW k \in B!Answered
      PROVE  /\ archived'[p][k] # "skewed"
             /\ k \notin unread'[p] /\ ~B!Skewed(p)' => archived'[p][k] = "whole"
  <2>1. k \in Job /\ archived[p][k] # "skewed" /\ output[p][k] = "whole"
    BY <1>1, <1>5 DEF B!Answered
  <2>2. CASE k # j
    BY <1>1, <1>2, <1>4, <1>5, <2>1, <2>2
  <2>3. CASE k = j
    <3>1. archived'[p][k] = "whole" \/ (B!Skewed(p) /\ archived'[p][k] = "none")
      BY <2>1, <2>3 DEF B!AddContent
    <3> QED
      BY <1>4, <3>1
  <2> QED
    BY <2>2, <2>3
<1>6. \A q \in Push : q # p => (B!Skewed(q)' <=> B!Skewed(q))
  BY <1>3 DEF B!Skewed
<1> QED
  BY <1>1, <1>3, <1>5, <1>6

\* What the command does.
LEMMA CommandKeepsWalk ==
  ASSUME B!WalkInductive, B!TypeOK', NEW p \in Push,
         B!Begin(p) \/ B!BuildStep(p) \/ B!PushStep(p) \/ B!CommandDies(p)
  PROVE  B!WalkInv'
<1> USE DEF B!WalkInductive, B!TypeOK, B!WalkInv, B!Ready, B!Goto, B!Fail,
            B!DropTempDir, B!DropTar, B!Skewed
<1>1. CASE B!Begin(p)
  BY <1>1 DEF B!Begin
<1>2. CASE B!PrepareFails(p)
  BY <1>2 DEF B!PrepareFails
<1>3. CASE B!Spawn(p)
  BY <1>3 DEF B!Spawn
<1>4. CASE B!ScriptOk(p)
  BY <1>4 DEF B!ScriptOk
<1>5. CASE B!ScriptFailed(p)
  BY <1>5 DEF B!ScriptFailed
<1>6. CASE B!TimeOut(p)
  BY <1>6 DEF B!TimeOut
<1>7. CASE B!InspectFails(p)
  BY <1>7 DEF B!InspectFails
<1>8. ASSUME NEW j \in Job, B!PassBy(p, j) \/ B!AddHeader(p, j) \/ B!AddContent(p, j)
      PROVE  B!WalkInv'
  <2>1. CASE B!PassBy(p, j)
    BY <2>1 DEF B!PassBy, B!Answered
  <2>2. CASE B!AddHeader(p, j)
    BY <2>2 DEF B!AddHeader, B!Answered
  <2>3. CASE B!AddContent(p, j)
    BY <2>3, AddContentKeepsWalk
  <2> QED
    BY <1>8, <2>1, <2>2, <2>3
<1>9. CASE B!Inspect(p)
  BY <1>9 DEF B!Inspect, B!Answered, B!Empty
<1>10. CASE B!TarDone(p)
  BY <1>10 DEF B!TarDone
<1>11. CASE B!TarFails(p)
  BY <1>11 DEF B!TarFails
<1>12. CASE B!CommandDies(p)
  BY <1>12 DEF B!CommandDies
<1>13. CASE B!Return(p)
  BY <1>13 DEF B!Return
<1> QED
  BY <1>1, <1>2, <1>3, <1>4, <1>5, <1>6, <1>7, <1>8, <1>9, <1>10, <1>11, <1>12, <1>13
     DEF B!BuildStep, B!PushStep

\* What goes on beside it: a file is written by its own job alone, and a job that has
\* ended does not come back.
LEMMA ScriptKeepsWalk ==
  ASSUME B!WalkInductive, B!TypeOK', NEW p \in Push, B!ScriptStep(p)
  PROVE  B!WalkInv'
<1> USE DEF B!WalkInductive, B!TypeOK, B!WalkInv, B!Ready, B!Exit
<1>1. ASSUME NEW j \in Job, B!Write(p, j) PROVE B!WalkInv'
  <2>1. UNCHANGED <<step, shell, running, unread>>
    BY <1>1 DEF B!Write
  <2>2. /\ j \in Background => j \in running[p]
        /\ j \notin Background => shell[p] = "runs"
        /\ step[p] \in {"script", "inspect", "tar"}
    BY <1>1 DEF B!Write, B!Alive
  <2>3. \A q \in Push, k \in Job : q # p \/ k # j => /\ output'[q][k] = output[q][k]
                                                   /\ archived'[q][k] = archived[q][k]
    BY <1>1 DEF B!Write
  <2>4. \A q \in Push : q # p => archived'[q] = archived[q]
    BY <1>1 DEF B!Write
  <2>5. step[p] # "tar" => archived' = archived
    <3>1. step[p] # "tar" => archived[p] = B!Empty
      BY <2>2
    <3>2. B!Empty[j] = "none"
      BY DEF B!Empty
    <3> QED
      BY <1>1, <3>1, <3>2 DEF B!Write
  <2>6. step[p] \in {"inspect", "tar"} \/ shell[p] = "ok" => j \notin B!Answered
    BY <2>2 DEF B!Answered
  <2>7. \A q \in Push : B!Skewed(q) => B!Skewed(q)'
    BY <1>1, <2>1, <2>3 DEF B!Write, B!Skewed
  <2>8. \A q \in Push : B!Ready(q) /\ (q # p \/ j \notin B!Answered) => B!Ready(q)'
    BY <2>1, <2>3 DEF B!Ready, B!Answered
  <2>9. ASSUME NEW q \in Push, step[q] \in {"tar", "sent"}, NEW k \in B!Answered
        PROVE  /\ archived'[q][k] = archived[q][k]
               /\ archived[q][k] # "skewed"
               /\ k \notin unread[q] /\ ~B!Skewed(q) => archived[q][k] = "whole"
    BY <2>2, <2>3, <2>6, <2>9 DEF B!Answered
  <2> HIDE DEF B!Ready
  <2> QED
    BY <2>1, <2>2, <2>4, <2>5, <2>6, <2>7, <2>8, <2>9
<1>2. ASSUME NEW j \in Job, B!JobEnds(p, j) PROVE B!WalkInv'
  <2>1. \A q \in Push : running'[q] \subseteq running[q]
    BY <1>2 DEF B!JobEnds
  <2>2. UNCHANGED <<step, shell, output, unread, archived>>
    BY <1>2 DEF B!JobEnds
  <2> QED
    BY <2>1, <2>2 DEF B!Skewed
<1>3. CASE B!ShellSucceeds(p)
  BY <1>3 DEF B!ShellSucceeds, B!Skewed
<1>4. CASE B!ShellFails(p)
  BY <1>4 DEF B!ShellFails, B!Skewed
<1> QED
  BY <1>1, <1>2, <1>3, <1>4 DEF B!ScriptStep

THEOREM WalkInvariant == B!Spec => []B!WalkInductive
<1>1. B!WalkInductive /\ [B!Next]_(B!vars) => B!WalkInductive'
  <2> SUFFICES ASSUME B!WalkInductive, [B!Next]_(B!vars) PROVE B!WalkInductive'
    OBVIOUS
  <2>1. B!TypeOK'
    BY WalkStepTypes DEF B!WalkInductive
  <2>2. CASE B!Next
    BY <2>1, <2>2, CommandKeepsWalk, ScriptKeepsWalk DEF B!Next, B!WalkInductive
  <2>3. CASE UNCHANGED B!vars
    BY <2>1, <2>3 DEF B!vars, B!WalkInductive, B!WalkInv, B!Ready, B!Skewed
  <2> QED
    BY <2>2, <2>3
<1> QED
  BY <1>1, WalkInit, PTL DEF B!Spec

LEMMA WalkImpliesComplete == B!WalkInductive => B!SentComplete
<1> SUFFICES ASSUME B!WalkInductive, NEW p \in Push, step[p] = "sent"
             PROVE  B!Holds(archived[p])
  BY DEF B!SentComplete
<1> USE DEF B!WalkInductive, B!WalkInv, B!Holds
<1>1. CASE B!Skewed(p)
  BY <1>1 DEF B!Skewed
<1>2. CASE ~B!Skewed(p)
  BY <1>2
<1> QED
  BY <1>1, <1>2

\* A reader finds all that the shell has answered for in a tar that leaves the command,
\* unless a file that it has not answered for changed its length while it was read.
THEOREM TarsAreComplete == B!Spec => []B!SentComplete
<1>1. B!WalkInductive => B!SentComplete
  BY WalkImpliesComplete
<1> QED
  BY <1>1, WalkInvariant, PTL

-----------------------------------------------------------------------------
LEMMA StepIsDeploy == [DeliveryNext]_deliveryVars => [Next]_vars
<1> SUFFICES ASSUME [DeliveryNext]_deliveryVars PROVE [Next]_vars
  OBVIOUS
<1>1. ASSUME NEW p \in Push, Begin(p) \/ Run(p) \/ Work(p) PROVE UNCHANGED vars
  BY <1>1 DEF Begin, Run, Work
<1>2. ASSUME NEW p \in Push, HandOver(p) PROVE Next
  BY <1>2 DEF HandOver, Next
<1>3. ASSUME NEW p \in Push, Archived(p) \/ Torn(p) \/ Join(p) \/ Publish(p) PROVE Next
  BY <1>3 DEF Archived, Torn, Join, Publish, Next, ClientStep
<1>4. ASSUME NEW p \in Push, Store(p) PROVE Next
  BY <1>4 DEF Store, Next
<1>5. ASSUME NEW p \in Push, CommandDies(p) PROVE Next \/ UNCHANGED vars
  BY <1>5 DEF CommandDies, Next
<1>6. CASE UNCHANGED deliveryVars
  BY <1>6 DEF deliveryVars
<1> QED
  BY <1>1, <1>2, <1>3, <1>4, <1>5, <1>6 DEF DeliveryNext, CommandStep

LEMMA StepIsBuild == [DeliveryNext]_deliveryVars => [B!Next]_(B!vars)
<1> SUFFICES ASSUME [DeliveryNext]_deliveryVars PROVE [B!Next]_(B!vars)
  OBVIOUS
<1> USE DEF B!vars, scriptVars
<1>1. ASSUME NEW p \in Push, Begin(p) \/ Run(p) \/ Work(p) PROVE B!Next
  BY <1>1 DEF Begin, Run, Work, B!Next
<1>2. ASSUME NEW p \in Push, HandOver(p) \/ Archived(p) \/ Torn(p) \/ Publish(p) PROVE B!Next
  BY <1>2 DEF HandOver, Archived, Torn, Publish, B!Next, B!PushStep
<1>3. ASSUME NEW p \in Push, Join(p) \/ Store(p) PROVE B!Next \/ UNCHANGED B!vars
  BY <1>3 DEF Join, Store, B!Next, B!PushStep
<1>4. ASSUME NEW p \in Push, CommandDies(p) PROVE B!Next \/ UNCHANGED B!vars
  BY <1>4 DEF CommandDies, B!Next, B!PushStep
<1>5. CASE UNCHANGED deliveryVars
  BY <1>5 DEF deliveryVars
<1> QED
  BY <1>1, <1>2, <1>3, <1>4, <1>5 DEF DeliveryNext, CommandStep

\* To registry, control plane and workers a push of a custom build is a push.
THEOREM DeliveryImplementsDeploy == DeliverySpec => Spec
<1>1. DeliveryInit => Init
  BY DEF DeliveryInit
<1> QED
  BY <1>1, StepIsDeploy, PTL DEF DeliverySpec, Spec

\* A script whose output is pushed runs as one of which nothing else is asked.
THEOREM DeliveryImplementsBuild == DeliverySpec => B!Spec
<1>1. DeliveryInit => B!Init
  BY DEF DeliveryInit
<1> QED
  BY <1>1, StepIsBuild, PTL DEF DeliverySpec, B!Spec

-----------------------------------------------------------------------------
\* What is known of a script alone is known of one whose output is pushed.
THEOREM DeliveredWalk == DeliverySpec => []WalkInductive
  BY DeliveryImplementsBuild, WalkInvariant, PTL DEF WalkInductive

\* The same of an archive on its way to the registry.
THEOREM DeliveredTarsComplete == DeliverySpec => []SentComplete
<1>1. WalkInductive => SentComplete
  BY WalkImpliesComplete DEF WalkInductive, SentComplete
<1> QED
  BY <1>1, DeliveredWalk, PTL

-----------------------------------------------------------------------------
(* What the parts know, joined where they meet.  *)

LEMMA ArchiveInit == DeliveryInit => ArchiveInv /\ NamedHoldsAnswered
  BY DEF DeliveryInit, Init, B!Init, ArchiveInv, NamedHoldsAnswered, Building

LEMMA ArchiveStep ==
  ASSUME DeployInductive, WalkInductive, ArchiveInv, [DeliveryNext]_deliveryVars
  PROVE  ArchiveInv'
<1> USE DEF DeployInductive, TypeOK, PushInv, ArchiveInv, Building,
            WalkInductive, B!WalkInductive, B!TypeOK, B!Goto, B!Fail, B!DropTempDir, B!DropTar
<1>1. ASSUME NEW p \in Push, Begin(p) PROVE ArchiveInv'
  BY <1>1 DEF Begin, B!Begin, vars, cliVars
<1>2. ASSUME NEW p \in Push, Run(p) PROVE ArchiveInv'
  <2>1. UNCHANGED <<cli, tar, build>>
    BY <1>2 DEF Run, vars
  <2>2. CASE \E j \in Job : B!PassBy(p, j) \/ B!AddHeader(p, j) \/ B!AddContent(p, j)
    <3>1. step[p] = "tar" /\ UNCHANGED step
      BY <2>2 DEF B!PassBy, B!AddHeader, B!AddContent
    <3>2. \A q \in Push : q # p => archived'[q] = archived[q]
      BY <2>2 DEF B!PassBy, B!AddHeader, B!AddContent
    <3> HIDE DEF DeployInductive, TypeOK, PushInv, WalkInductive, B!WalkInductive, B!TypeOK
    <3> QED
      BY <2>1, <3>1, <3>2
  <2>3. CASE B!PrepareFails(p) \/ B!ScriptFailed(p) \/ B!TimeOut(p) \/ B!InspectFails(p)
    BY <2>1, <2>3 DEF B!PrepareFails, B!ScriptFailed, B!TimeOut, B!InspectFails
  <2>4. CASE B!Spawn(p) \/ B!ScriptOk(p)
    BY <2>1, <2>4 DEF B!Spawn, B!ScriptOk
  <2> QED
    BY <1>2, <2>2, <2>3, <2>4 DEF Run, B!BuildStep
<1>3. ASSUME NEW p \in Push, Work(p) PROVE ArchiveInv'
  <2>1. UNCHANGED <<cli, tar, build, step>>
    BY <1>3 DEF Work, vars, cliVars, B!ScriptStep, B!Write, B!JobEnds, B!ShellSucceeds,
                B!ShellFails
  <2>2. UNCHANGED archived \/ \E j \in Job : B!Write(p, j)
    BY <1>3 DEF Work, B!ScriptStep, B!JobEnds, B!ShellSucceeds, B!ShellFails
  <2>3. \A q \in Push : step[q] = "sent" => archived'[q] = archived[q]
    BY <2>2 DEF B!Write
  <2> QED
    BY <2>1, <2>3
<1>4. ASSUME NEW p \in Push, HandOver(p) PROVE ArchiveInv'
  BY <1>4 DEF HandOver, B!Inspect, Start
<1>5. ASSUME NEW p \in Push, Archived(p) PROVE ArchiveInv'
  BY <1>5 DEF Archived, B!TarDone, TarEnds
<1>6. ASSUME NEW p \in Push, Torn(p) PROVE ArchiveInv'
  BY <1>6 DEF Torn, B!TarFails, TarEnds
<1>7. ASSUME NEW p \in Push, Join(p) PROVE ArchiveInv'
  <2>1. CASE TarAwaited(p)
    BY <1>7, <2>1 DEF Join, TarAwaited, scriptVars
  <2>2. CASE TarFailed(p)
    BY <1>7, <2>2 DEF Join, TarFailed, Leave, Forget, scriptVars
  <2> QED
    BY <1>7, <2>1, <2>2 DEF Join
<1>8. ASSUME NEW p \in Push, Publish(p) PROVE ArchiveInv'
  BY <1>8 DEF Publish, SetName, SetFails, Leave, Forget, B!Return
<1>9. ASSUME NEW p \in Push, Store(p) PROVE ArchiveInv'
  <2>1. CASE WriteFails(p) /\ step[p] = "sent" /\ cli'[p] = "idle"
    BY <1>9, <2>1 DEF Store, WriteFails, Refuse, Leave, Forget, B!Return
  <2>2. CASE WriteFails(p) /\ ~(step[p] = "sent" /\ cli'[p] = "idle")
    BY <1>9, <2>2 DEF Store, WriteFails, Refuse, Leave, Forget, scriptVars
  <2>3. CASE Rejected(p)
    <3>1. CASE step[p] = "sent" /\ cli'[p] = "idle"
      BY <1>9, <2>3, <3>1 DEF Store, Rejected, Refuse, Leave, Forget, B!Return
    <3>2. CASE ~(step[p] = "sent" /\ cli'[p] = "idle")
      BY <1>9, <2>3, <3>2 DEF Store, Rejected, Refuse, Leave, Forget, scriptVars
    <3> QED
      BY <3>1, <3>2
  <2>4. CASE Reply(p)
    BY <1>9, <2>4 DEF Store, Reply, Serve, Forget, scriptVars
  <2>5. CASE \/ Received(p) \/ SkipWrite(p) \/ NeedWrite(p) \/ Open(p)
             \/ WriteBlock(p) \/ WriteDone(p)
    <3>1. UNCHANGED cliVars
      BY <2>5 DEF Received, SkipWrite, NeedWrite, Open, WriteBlock, WriteDone
    <3>2. UNCHANGED scriptVars
      BY <1>9, <3>1 DEF Store, cliVars
    <3> QED
      BY <3>1, <3>2 DEF cliVars, scriptVars
  <2> QED
    BY <1>9, <2>1, <2>2, <2>3, <2>4, <2>5 DEF Store, ServerStep
<1>10. ASSUME NEW p \in Push, CommandDies(p) PROVE ArchiveInv'
  <2>1. CASE B!CommandDies(p) /\ step[p] # "tar" /\ UNCHANGED vars
    BY <2>1 DEF B!CommandDies, vars, cliVars
  <2>2. CASE B!CommandDies(p) /\ step[p] = "tar" /\ ClientDies(p)
    BY <2>2 DEF B!CommandDies, ClientDies, Forget
  <2>3. CASE B!Return(p) /\ ClientDies(p)
    BY <2>3 DEF B!Return, ClientDies, Forget
  <2>4. CASE step[p] = "idle" /\ ClientDies(p) /\ UNCHANGED scriptVars
    BY <2>4 DEF ClientDies, Forget, scriptVars
  <2> QED
    BY <1>10, <2>1, <2>2, <2>3, <2>4 DEF CommandDies
<1>11. CASE UNCHANGED deliveryVars
  BY <1>11 DEF deliveryVars, vars, scriptVars, cliVars
<1> QED
  BY <1>1, <1>2, <1>3, <1>4, <1>5, <1>6, <1>7, <1>8, <1>9, <1>10, <1>11
     DEF DeliveryNext, CommandStep

\* Only the end of a push that was joined touches a name, and what it was joined with is
\* the walk of a script that has succeeded (SentComplete).
LEMMA NamesStep ==
  ASSUME DeployInductive, WalkInductive, ArchiveInv, NamedHoldsAnswered,
         [DeliveryNext]_deliveryVars
  PROVE  NamedHoldsAnswered'
<1>1. ASSUME NEW p \in Push, SetName(p) PROVE NamedHoldsAnswered'
  <2>1. cli[p] = "name" /\ tar[p] = "done" /\ key[p] \in Name
    BY <1>1 DEF SetName, DeployInductive, PushInv
  <2>2. names' = [names EXCEPT ![key[p]] = DigestOf[ArchiveOf[archived[p]]]]
    BY <1>1, <2>1 DEF SetName, Sent, ArchiveInv
  <2>3. archived[p] \in [Job -> B!Entry] /\ B!Holds(archived[p])
    <3>1. step[p] = "sent"
      BY <2>1 DEF ArchiveInv
    <3> QED
      BY <3>1, WalkImpliesComplete
         DEF WalkInductive, B!WalkInductive, B!TypeOK, B!SentComplete
  <2>4. names \in [Name -> Digest \cup {NoDigest}]
    BY DEF DeployInductive, TypeOK
  <2> QED
    BY <2>2, <2>3, <2>4 DEF NamedHoldsAnswered
<1>2. [Next]_vars
  BY StepIsDeploy
<1>3. CASE UNCHANGED names
  BY <1>3 DEF NamedHoldsAnswered
<1>4. (\E p \in Push : SetName(p)) \/ UNCHANGED names
  <2> USE DEF vars, pullVars, srvVars, files, cliVars
  <2>1. ASSUME NEW p \in Push, Start(p) \/ ClientDies(p) PROVE UNCHANGED names
    BY <2>1 DEF Start, ClientDies
  <2>2. ASSUME NEW p \in Push, ClientStep(p) PROVE SetName(p) \/ UNCHANGED names
    BY <2>2 DEF ClientStep, TarEnds, TarAwaited, TarFailed, SetFails
  <2>3. ASSUME NEW p \in Push, ServerStep(p) PROVE UNCHANGED names
    BY <2>3 DEF ServerStep, Received, Rejected, SkipWrite, NeedWrite, Open, WriteBlock,
                WriteDone, WriteFails, Reply
  <2>4. ASSUME NEW w \in Puller, Ask(w) \/ Pull(w) PROVE UNCHANGED names
    BY <2>4 DEF Ask, Pull
  <2>5. CASE RegistryCrash
    BY <2>5 DEF RegistryCrash
  <2> QED
    BY <1>2, <2>1, <2>2, <2>3, <2>4, <2>5 DEF Next
<1> QED
  BY <1>1, <1>3, <1>4

\* Whatever the parts rely on, they may rely on together.
THEOREM DeliveryInvariant == DeliverySpec => []DeliveryInductive
<1>1. /\ DeployInductive /\ WalkInductive /\ ArchiveInv /\ NamedHoldsAnswered
      /\ [DeliveryNext]_deliveryVars
      => (ArchiveInv /\ NamedHoldsAnswered)'
  BY ArchiveStep, NamesStep
<1>2. DeliverySpec => []DeployInductive
  BY DeliveryImplementsDeploy, DeployInvariant, PTL
<1>3. DeliverySpec => [](ArchiveInv /\ NamedHoldsAnswered)
  BY <1>1, <1>2, ArchiveInit, DeliveredWalk, PTL DEF DeliverySpec
<1>4. /\ DeployInductive /\ WalkInductive /\ ArchiveInv /\ NamedHoldsAnswered
      => DeliveryInductive
  BY DEF DeliveryInductive, WalkInductive
<1> QED
  BY <1>2, <1>3, <1>4, DeliveredWalk, PTL

\* Whatever dies or fails, no name ever stands for less than a script has answered for,
\* but for an archive with an entry that its length does not fit.
THEOREM NamesHoldAnswered == DeliverySpec => []NamedHoldsAnswered
<1>1. DeliveryInductive => NamedHoldsAnswered
  BY DEF DeliveryInductive
<1> QED
  BY <1>1, DeliveryInvariant, PTL

-----------------------------------------------------------------------------
\* What a name stands for is all that its script makes.
NamedHoldsAll ==
  \A n \in Name : names[n] # NoDigest =>
    names[n] = DigestOf[ArchiveOf[[j \in Job |-> "whole"]]]

\* Scripts that wait for everything they start have no such entries: all that they make
\* is in what is named, whatever dies or fails.
THEOREM AwaitedAreWhole ==
  ASSUME Background \subseteq Awaited
  PROVE  DeliverySpec => []NamedHoldsAll
<1>1. ASSUME NEW f \in [Job -> B!Entry], B!Holds(f) PROVE f = [j \in Job |-> "whole"]
  BY <1>1 DEF B!Holds, B!Answered
<1>2. NamedHoldsAnswered => NamedHoldsAll
  BY <1>1 DEF NamedHoldsAnswered, NamedHoldsAll
<1> QED
  BY <1>2, NamesHoldAnswered, PTL

=============================================================================
