---------------------------- MODULE Host_proofs ----------------------------
(***************************************************************************)
(* For every package and any number of calls: a function's process never   *)
(* runs on a bundle that is not whole.  Beside the server a bundle is made *)
(* as if there were none; the process is there only between the end of the *)
(* copy and the removal, which are the times when nobody writes there.     *)
(***************************************************************************)
EXTENDS Host, Bundle_proofs

RunsOnBuilt == S!Present => at = "built"

LEMMA HostSteps ==
  ASSUME [HostNext]_hostVars
  PROVE  /\ [BundleNext]_bundleVars
         /\ RunsOnBuilt => RunsOnBuilt'
<1>1. CASE MakeBundle
  <2>1. BundleNext /\ UNCHANGED proc
    BY <1>1 DEF MakeBundle, BundleNext, serverVars
  <2>2. at # "built"
    BY <1>1 DEF MakeBundle, Claim, Step, BundleStep, CreateConfig, FlushConfig, MakeRootfs, MakeRun,
                Traverse, OpenDir, PushDir, CopyFile, RefuseOdd, CloseDir, StackEmpty, Take,
                Break, CopyBreaks
  <2> QED
    BY <2>1, <2>2 DEF RunsOnBuilt, S!Present
<1>2. CASE Launch
  BY <1>2 DEF Launch, bundleVars, RunsOnBuilt
<1>3. CASE RunServer
  <2>1. UNCHANGED bundleVars
    BY <1>3 DEF RunServer
  <2>2. S!Present' => S!Present
    BY <1>3 DEF RunServer, S!Present, S!StartStep, S!ClearSocket, S!Bind, S!Die, S!Invoke, S!Answer,
                S!InvokeStep, S!Garbled, S!CatchPanic, S!MakeFuture, S!Return, S!ReturnProblem,
                S!PanicUncaught
  <2> QED
    BY <2>1, <2>2 DEF RunsOnBuilt, bundleVars
<1>4. CASE Delete
  BY <1>4 DEF Delete, BundleNext, S!Remove, S!Present, RunsOnBuilt
<1>5. CASE UNCHANGED hostVars
  BY <1>5 DEF hostVars, bundleVars, serverVars, RunsOnBuilt, S!Present
<1> QED
  BY <1>1, <1>2, <1>3, <1>4, <1>5 DEF HostNext

\* Around its server a bundle is made, used and removed as Bundle has it.
THEOREM HostImplementsBundle == HostSpec => BundleSpec
<1>1. HostInit => BundleInit
  BY DEF HostInit
<1> QED
  BY <1>1, HostSteps, PTL DEF HostSpec, BundleSpec

\* No function ever starts, restarts or serves on a bundle of which something is
\* missing, half copied or about to be removed.
THEOREM FunctionsRunOnComplete == ASSUME IsTree PROVE HostSpec => []RunsOnComplete
<1>1. HostInit => RunsOnBuilt
  BY DEF HostInit, S!Init, S!Present, RunsOnBuilt
<1>2. HostSpec => []RunsOnBuilt
  BY <1>1, HostSteps, PTL DEF HostSpec
<1>3. BundleSpec => []BundleComplete
  BY BundlesAreComplete
<1>4. RunsOnBuilt /\ BundleComplete => RunsOnComplete
  BY DEF RunsOnBuilt, BundleComplete, RunsOnComplete, Done
<1> QED
  BY <1>2, <1>3, <1>4, HostImplementsBundle, PTL

-----------------------------------------------------------------------------
(* The server by itself, and in its bundle.  *)

LEMMA SocketInit == S!Init => S!TypeOK /\ S!SocketInv
  BY DEF S!Init, S!TypeOK, S!SocketInv, S!Open, S!Answers, S!Kinds

LEMMA ServerTypes ==
  ASSUME S!TypeOK, [S!Next]_(S!vars)
  PROVE  S!TypeOK'
<1> USE DEF S!TypeOK, S!requests, S!Answers
<1>1. CASE S!Launch
  BY <1>1 DEF S!Launch
<1>2. CASE S!StartStep
  BY <1>2 DEF S!StartStep, S!ClearSocket, S!Bind
<1>3. CASE S!Die \/ S!Remove
  BY <1>3 DEF S!Die, S!Remove, S!Break
<1>4. ASSUME NEW c \in Call, S!Invoke(c) PROVE S!TypeOK'
  BY <1>4 DEF S!Invoke
<1>5. ASSUME NEW c \in Call, S!InvokeStep(c) PROVE S!TypeOK'
  BY <1>5 DEF S!InvokeStep, S!Garbled, S!CatchPanic, S!MakeFuture, S!Return, S!ReturnProblem,
              S!PanicUncaught, S!Answer
<1>6. CASE UNCHANGED S!vars
  BY <1>6 DEF S!vars
<1> QED
  BY <1>1, <1>2, <1>3, <1>4, <1>5, <1>6 DEF S!Next

LEMMA SocketStep ==
  ASSUME S!TypeOK, S!SocketInv, [S!Next]_(S!vars)
  PROVE  S!SocketInv'
<1> USE DEF S!TypeOK, S!SocketInv, S!Open, S!requests
<1>1. CASE S!Launch
  BY <1>1 DEF S!Launch
<1>2. CASE S!StartStep
  BY <1>2 DEF S!StartStep, S!ClearSocket, S!Bind
<1>3. CASE S!Die \/ S!Remove
  BY <1>3 DEF S!Die, S!Remove, S!Break
<1>4. ASSUME NEW c \in Call, S!Invoke(c) PROVE S!SocketInv'
  BY <1>4 DEF S!Invoke
<1>5. ASSUME NEW c \in Call, S!InvokeStep(c) PROVE S!SocketInv'
  BY <1>5 DEF S!InvokeStep, S!Garbled, S!CatchPanic, S!MakeFuture, S!Return, S!ReturnProblem,
              S!PanicUncaught, S!Answer
<1>6. CASE UNCHANGED S!vars
  BY <1>6 DEF S!vars
<1> QED
  BY <1>1, <1>2, <1>3, <1>4, <1>5, <1>6 DEF S!Next

LEMMA ServersBind == S!Spec => []S!SocketInv
<1>1. S!TypeOK /\ S!SocketInv /\ [S!Next]_(S!vars) => (S!TypeOK /\ S!SocketInv)'
  BY ServerTypes, SocketStep
<1> QED
  BY <1>1, SocketInit, PTL DEF S!Spec

LEMMA HostStepIsServer == [HostNext]_hostVars => [S!Next]_(S!vars)
  BY DEF HostNext, MakeBundle, Launch, RunServer, Delete, S!Next, S!vars, hostVars, serverVars

\* To whoever calls it, a server in a bundle that is made and removed around it is the
\* server that Sdk describes.
THEOREM HostImplementsSdk == HostSpec => S!Spec
<1>1. HostInit => S!Init
  BY DEF HostInit
<1> QED
  BY <1>1, HostStepIsServer, PTL DEF HostSpec, S!Spec

\* No start ever fails over the socket file of a process that was killed before, and no
\* request is left hanging by one that is gone.
THEOREM HostServersBind == HostSpec => []SocketInv
  BY HostImplementsSdk, ServersBind, PTL DEF SocketInv

=============================================================================
