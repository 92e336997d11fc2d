---------------------------- MODULE Deploy_proofs ----------------------------
(***************************************************************************)
(* For any number of commands, builds, names and pulls, and whatever fails:*)
(* names refer to stored digests of complete tars, and Deploy implements   *)
(* Catalog.                                                                *)
(***************************************************************************)
EXTENDS Deploy, TLAPS

(* NoBuild and NoName need not differ from the builds and names: they are    *)
(* never compared with.                                                      *)

LEMMA SentTyped ==
  ASSUME TypeOK, NEW p \in Push, build[p] \in Build
  PROVE  Sent(p) \in Digest
  BY DeployAssumption DEF TypeOK, Sent

LEMMA DeployInit == Init => DeployInductive
  BY DeployAssumption
     DEF Init, DeployInductive, TypeOK, PushInv, HandedOutInv, NamedIsComplete,
         NamedNeverMissing, Block

LEMMA StartInductive ==
  ASSUME DeployInductive, NEW p \in Push, Start(p)
  PROVE  DeployInductive'
<1> USE DEF DeployInductive, PushInv, TypeOK
<1>1. PICK n \in Name : key' = [key EXCEPT ![p] = n]
  BY DEF Start
<1>2. TypeOK'
  BY <1>1 DEF Start, pullVars, files
<1>3. PushInv'
  BY <1>1 DEF Start, files, Sent
<1>4. (HandedOutInv /\ NamedIsComplete /\ NamedNeverMissing)'
  BY DEF Start, files, pullVars, HandedOutInv, NamedIsComplete, NamedNeverMissing
<1> QED
  BY <1>2, <1>3, <1>4

\* A command names a digest only after the registry's answer and the end of its tar.
LEMMA ClientInductive ==
  ASSUME DeployInductive, NEW p \in Push, ClientStep(p) \/ ClientDies(p)
  PROVE  DeployInductive'
<1> USE DeployAssumption
    DEF DeployInductive, TypeOK, PushInv, HandedOutInv, NamedIsComplete,
        NamedNeverMissing, Sent, cliVars, srvVars, pullVars, files, Leave, Forget
<1>1. ASSUME NEW o \in {"done", "failed"}, TarEnds(p, o) PROVE DeployInductive'
  <2>1. PICK b \in Build : build' = [build EXCEPT ![p] = b]
    BY <1>1 DEF TarEnds
  <2>2. TypeOK'
    BY <1>1, <2>1 DEF TarEnds
  <2> QED
    BY <1>1, <2>1, <2>2 DEF TarEnds
<1>2. CASE TarAwaited(p)
  BY <1>2 DEF TarAwaited
<1>3. CASE TarFailed(p)
  BY <1>3 DEF TarFailed
<1>4. CASE SetName(p)
  BY <1>4 DEF SetName
<1>5. CASE SetFails(p)
  BY <1>5 DEF SetFails
<1>6. CASE ClientDies(p)
  BY <1>6 DEF ClientDies
<1> QED
  BY <1>1, <1>2, <1>3, <1>4, <1>5, <1>6 DEF ClientStep

\* The registry never takes a file away.
LEMMA ServerInductive ==
  ASSUME DeployInductive, NEW p \in Push, ServerStep(p)
  PROVE  DeployInductive'
<1> USE DeployAssumption
    DEF DeployInductive, TypeOK, PushInv, HandedOutInv, NamedIsComplete,
        NamedNeverMissing, Sent, Block, cliVars, srvVars, pullVars, files,
        Serve, Refuse, Leave, Forget
<1>1. CASE Received(p)
  BY <1>1 DEF Received
<1>2. CASE Rejected(p)
  BY <1>2 DEF Rejected
<1>3. CASE SkipWrite(p)
  BY <1>3 DEF SkipWrite
<1>4. CASE NeedWrite(p)
  BY <1>4 DEF NeedWrite
<1>5. CASE Open(p)
  BY <1>5, SentTyped DEF Open
<1>6. CASE WriteBlock(p)
  BY <1>6, SentTyped DEF WriteBlock
<1>7. CASE WriteDone(p)
  BY <1>7 DEF WriteDone
<1>8. CASE WriteFails(p)
  BY <1>8 DEF WriteFails
<1>9. CASE Reply(p)
  BY <1>9 DEF Reply
<1> QED
  BY <1>1, <1>2, <1>3, <1>4, <1>5, <1>6, <1>7, <1>8, <1>9 DEF ServerStep

LEMMA RestInductive ==
  ASSUME DeployInductive,
         RegistryCrash \/ (\E w \in Puller : Ask(w) \/ Pull(w)) \/ UNCHANGED vars
  PROVE  DeployInductive'
<1> USE DeployAssumption
    DEF DeployInductive, TypeOK, PushInv, HandedOutInv, NamedIsComplete,
        NamedNeverMissing, Sent, cliVars, srvVars, pullVars, files
<1>1. CASE RegistryCrash
  BY <1>1 DEF RegistryCrash
<1>2. ASSUME NEW w \in Puller, Ask(w) PROVE DeployInductive'
  <2>1. PICK n \in Name : names[n] # NoDigest /\ asked' = [asked EXCEPT ![w] = names[n]]
    BY <1>2 DEF Ask
  <2> QED
    BY <1>2, <2>1 DEF Ask
<1>3. ASSUME NEW w \in Puller, Pull(w) PROVE DeployInductive'
  BY <1>3 DEF Pull
<1>4. CASE UNCHANGED vars
  BY <1>4 DEF vars
<1> QED
  BY <1>1, <1>2, <1>3, <1>4

THEOREM DeployInvariant == Spec => []DeployInductive
<1>1. DeployInductive /\ [Next]_vars => DeployInductive'
  BY StartInductive, ClientInductive, ServerInductive, RestInductive DEF Next
<1> QED
  BY <1>1, DeployInit, PTL DEF Spec

\* Every variable of the deployment keeps its type.
THEOREM DeployTypeCorrect == Spec => []TypeOK
<1>1. DeployInductive => TypeOK
  BY DEF DeployInductive
<1> QED
  BY <1>1, DeployInvariant, PTL

\* What the control plane has handed out is never missing from the registry.
THEOREM HandedOutIsThere == Spec => []NamedNeverMissing
<1>1. DeployInductive => NamedNeverMissing
  BY DEF DeployInductive
<1> QED
  BY <1>1, DeployInvariant, PTL

\* No name stands for the remains of a failed tar task.
THEOREM NamesAreComplete == Spec => []NamedIsComplete
<1>1. DeployInductive => NamedIsComplete
  BY DEF DeployInductive
<1> QED
  BY <1>1, DeployInvariant, PTL

-----------------------------------------------------------------------------
LEMMA StepIsCatalog ==
  ASSUME DeployInductive, [Next]_vars
  PROVE  [C!Next]_<<stored, names>>
<1>1. ASSUME NEW p \in Push, Open(p) PROVE C!Next
  <2>1. Sent(p) \in Digest
    BY <1>1, SentTyped DEF Open, Serve, DeployInductive, PushInv
  <2>2. C!Store(Sent(p))
    BY <1>1 DEF Open, C!Store
  <2> QED
    BY <2>1, <2>2 DEF C!Next
<1>2. ASSUME NEW p \in Push, SetName(p) PROVE C!Next
  <2>1. key[p] \in Name /\ Sent(p) \in stored /\ Sent(p) \in Digest
    BY <1>2, SentTyped DEF SetName, DeployInductive, PushInv
  <2>2. C!SetName(key[p], Sent(p))
    BY <1>2, <2>1 DEF SetName, C!SetName, files
  <2> QED
    BY <2>1, <2>2 DEF C!Next
<1>3. ASSUME NEW p \in Push, ServerStep(p), ~Open(p)
      PROVE  UNCHANGED <<stored, names>>
  BY <1>3
     DEF ServerStep, Received, Rejected, SkipWrite, NeedWrite, WriteBlock,
         WriteDone, WriteFails, Reply, files
<1>4. ASSUME NEW p \in Push, Start(p) \/ ClientStep(p) \/ ClientDies(p), ~SetName(p)
      PROVE  UNCHANGED <<stored, names>>
  BY <1>4
     DEF Start, ClientStep, ClientDies, TarEnds, TarAwaited, TarFailed, SetFails,
         files
<1>5. CASE RegistryCrash \/ (\E w \in Puller : Ask(w) \/ Pull(w)) \/ UNCHANGED vars
  BY <1>5 DEF RegistryCrash, Ask, Pull, vars, files
<1> QED
  BY <1>1, <1>2, <1>3, <1>4, <1>5 DEF Next

\* Registry and control plane implement the catalog.
THEOREM DeployImplementsCatalog == Spec => CatalogSpec
<1>1. Init => C!Init
  BY DEF Init, C!Init
<1>2. DeployInductive /\ [Next]_vars => [C!Next]_<<stored, names>>
  BY StepIsCatalog
<1> QED
  BY <1>1, <1>2, DeployInvariant, PTL DEF Spec, CatalogSpec, C!Spec

-----------------------------------------------------------------------------
(* What becomes of a file.  *)

\* Who has begun a push, or gone on with it, sends the same digest as before.
LEMMA SentKept ==
  ASSUME DeployInductive, [Next]_vars,
         NEW p \in Push, srv'[p] \in {"check", "open", "write", "reply"}
  PROVE  srv[p] # "receive" => Sent(p)' = Sent(p) /\ srv[p] # "none"
<1> USE DEF DeployInductive, TypeOK, PushInv, Sent, cliVars, srvVars, pullVars, files,
            Serve, Refuse, Leave, Forget
<1>1. ASSUME NEW q \in Push, Start(q) \/ ClientStep(q)
      PROVE  srv[p] # "receive" => Sent(p)' = Sent(p) /\ srv[p] # "none"
  BY <1>1 DEF Start, ClientStep, TarEnds, TarAwaited, TarFailed, SetName, SetFails
<1>2. ASSUME NEW q \in Push, ClientDies(q)
      PROVE  srv[p] # "receive" => Sent(p)' = Sent(p) /\ srv[p] # "none"
  BY <1>2 DEF ClientDies
<1>3. ASSUME NEW q \in Push, ServerStep(q)
      PROVE  srv[p] # "receive" => Sent(p)' = Sent(p) /\ srv[p] # "none"
  BY <1>3 DEF ServerStep, Received, Rejected, SkipWrite, NeedWrite, Open, WriteBlock, WriteDone,
              WriteFails, Reply
<1>4. CASE RegistryCrash \/ (\E w \in Puller : Ask(w) \/ Pull(w)) \/ UNCHANGED vars
  BY <1>4 DEF RegistryCrash, Ask, Pull, vars
<1> QED
  BY <1>1, <1>2, <1>3, <1>4 DEF Next

\* Files change when a write begins or goes on, and no other way.
LEMMA FilesKept ==
  ASSUME [Next]_vars, \A p \in Push : ~Open(p) /\ ~WriteBlock(p)
  PROVE  UNCHANGED files
<1>1. ASSUME NEW p \in Push, Start(p) \/ ClientStep(p) \/ ClientDies(p) PROVE UNCHANGED files
  BY <1>1 DEF Start, ClientStep, ClientDies, TarEnds, TarAwaited, TarFailed, SetName, SetFails
<1>2. ASSUME NEW p \in Push, ServerStep(p) PROVE UNCHANGED files
  BY <1>2 DEF ServerStep, Received, Rejected, SkipWrite, NeedWrite, WriteDone, WriteFails, Reply
<1>3. CASE RegistryCrash \/ (\E w \in Puller : Ask(w) \/ Pull(w)) \/ UNCHANGED vars
  BY <1>3 DEF RegistryCrash, Ask, Pull, vars, files
<1> QED
  BY <1>1, <1>2, <1>3 DEF Next

\* A write is about to begin only where it was before, or for a digest without a file.
LEMMA OpensKept ==
  ASSUME DeployInductive, [Next]_vars, NEW p \in Push, srv'[p] = "open"
  PROVE  \/ srv[p] = "open" /\ Sent(p)' = Sent(p)
         \/ Sent(p)' = Sent(p) /\ Sent(p) \notin stored /\ UNCHANGED files
<1> USE DEF DeployInductive, TypeOK
<1>1. srv[p] = "open" \/ NeedWrite(p)
  <2> USE DEF cliVars, srvVars, pullVars, files, Serve, Refuse
  <2>1. ASSUME NEW q \in Push, Start(q) \/ ClientStep(q) \/ ClientDies(q) PROVE srv[p] = "open"
    BY <2>1 DEF Start, ClientStep, ClientDies, TarEnds, TarAwaited, TarFailed, SetName, SetFails
  <2>2. ASSUME NEW q \in Push, ServerStep(q) PROVE srv[p] = "open" \/ NeedWrite(p)
    BY <2>2 DEF ServerStep, Received, Rejected, SkipWrite, NeedWrite, Open, WriteBlock, WriteDone,
                WriteFails, Reply
  <2>3. CASE RegistryCrash \/ (\E w \in Puller : Ask(w) \/ Pull(w)) \/ UNCHANGED vars
    BY <2>3 DEF RegistryCrash, Ask, Pull, vars
  <2> QED
    BY <2>1, <2>2, <2>3 DEF Next
<1>2. CASE srv[p] = "open"
  BY <1>2, SentKept
<1>3. CASE NeedWrite(p)
  BY <1>3 DEF NeedWrite, cliVars, Sent
<1> QED
  BY <1>1, <1>2, <1>3

LEMMA SettledStep ==
  ASSUME DeployInductive, [Next]_vars, NEW d \in Digest, Settled(d)
  PROVE  Settled(d)'
<1> USE DEF DeployInductive, TypeOK
<1>1. Whole(d)'
  <2>1. ASSUME NEW p \in Push, Open(p) PROVE Whole(d)'
    BY <2>1 DEF Open, Serve, Settled, Whole
  <2>2. ASSUME NEW p \in Push, WriteBlock(p) PROVE Whole(d)'
    <3>1. written[p] + 1 \in Block
      BY <2>2, DeployAssumption DEF WriteBlock, Block
    <3>2. content'[d] = content[d] \/ content'[d] = content[d] \cup {written[p] + 1}
      BY <2>2 DEF WriteBlock
    <3> QED
      BY <2>2, <3>1, <3>2 DEF WriteBlock, Settled, Whole
  <2>3. CASE UNCHANGED files
    BY <2>3 DEF files, Settled, Whole
  <2> QED
    BY <2>1, <2>2, <2>3, FilesKept
<1>2. ASSUME NEW p \in Push, srv'[p] = "open" PROVE Sent(p)' # d
  BY <1>2, OpensKept DEF Settled, Whole
<1> QED
  BY <1>1, <1>2 DEF Settled

\* Once an archive is whole and nobody is about to open it, no crash, failure or push of
\* the same code takes anything from it.
THEOREM SettledForGood == Spec => SettledStays
<1>1. DeployInductive /\ [Next]_vars => \A d \in Digest : Settled(d) => Settled(d)'
  BY SettledStep
<1>2. DeployInductive /\ [Next]_vars => [\A d \in Digest : Settled(d) => Settled(d)']_vars
  BY <1>1
<1> QED
  BY <1>2, DeployInvariant, PTL DEF Spec, SettledStays

-----------------------------------------------------------------------------
(* What becomes of a file that several pushes write at once.  *)

\* A file is written from its beginning.
WriteInv == \A p \in Push : srv[p] # "write" => written[p] = 0

\* While nothing fails, whatever is missing from a file is still to come.
MissingIsComing ==
  Faults \cap {"disk", "crash"} = {} =>
    \A d \in stored : \A k \in Block : Coming(d, k)

LEMMA WriteInit == Init => WriteInv /\ MissingIsComing
  BY DEF Init, WriteInv, MissingIsComing

LEMMA WrittenStep ==
  ASSUME DeployInductive, WriteInv, [Next]_vars, NEW p \in Push, srv'[p] # "write"
  PROVE  written'[p] = 0
<1> USE DEF DeployInductive, TypeOK, WriteInv, cliVars, srvVars, pullVars, files, Serve, Refuse
<1>1. ASSUME NEW q \in Push, Start(q) \/ ClientStep(q) \/ ClientDies(q) PROVE written'[p] = 0
  BY <1>1 DEF Start, ClientStep, ClientDies, TarEnds, TarAwaited, TarFailed, SetName, SetFails
<1>2. ASSUME NEW q \in Push, ServerStep(q) PROVE written'[p] = 0
  BY <1>2 DEF ServerStep, Received, Rejected, SkipWrite, NeedWrite, Open, WriteBlock, WriteDone,
              WriteFails, Reply
<1>3. CASE RegistryCrash \/ (\E w \in Puller : Ask(w) \/ Pull(w)) \/ UNCHANGED vars
  BY <1>3 DEF RegistryCrash, Ask, Pull, vars
<1> QED
  BY <1>1, <1>2, <1>3 DEF Next

\* A writer with something left goes on from where it was, but for the block it writes.
LEMMA WriterStep ==
  ASSUME DeployInductive, [Next]_vars, ~RegistryCrash,
         NEW p \in Push, ~WriteFails(p), NEW k \in Block, srv[p] = "write", written[p] < k
  PROVE  \/ srv'[p] = "write" /\ Sent(p)' = Sent(p) /\ written'[p] < k
         \/ WriteBlock(p) /\ k = written[p] + 1
<1> USE DEF DeployInductive, TypeOK
<1>1. k \in Nat /\ k <= Blocks /\ Blocks \in Nat /\ written[p] \in Nat
  BY DeployAssumption DEF Block
<1>2. /\ srv'[p] = "write"
      /\ written'[p] = written[p] \/ (WriteBlock(p) /\ written'[p] = written[p] + 1)
  <2> USE DEF cliVars, srvVars, pullVars, files, Serve, Refuse
  <2>1. ASSUME NEW q \in Push, Start(q) \/ ClientStep(q) \/ ClientDies(q)
        PROVE  srv'[p] = "write" /\ written'[p] = written[p]
    BY <2>1 DEF Start, ClientStep, ClientDies, TarEnds, TarAwaited, TarFailed, SetName, SetFails
  <2>2. ASSUME NEW q \in Push, ServerStep(q)
        PROVE  /\ srv'[p] = "write"
               /\ written'[p] = written[p] \/ (WriteBlock(p) /\ written'[p] = written[p] + 1)
    <3>1. CASE WriteDone(q)
      <4>1. q # p
        BY <1>1, <3>1 DEF WriteDone
      <4> QED
        BY <3>1, <4>1 DEF WriteDone
    <3>2. CASE WriteBlock(q)
      BY <3>2 DEF WriteBlock
    <3>3. CASE Received(q) \/ Rejected(q) \/ SkipWrite(q) \/ NeedWrite(q) \/ Open(q) \/ Reply(q)
      BY <3>3 DEF Received, Rejected, SkipWrite, NeedWrite, Open, Reply
    <3>4. CASE WriteFails(q)
      <4>1. q # p
        BY <3>4
      <4> QED
        BY <3>4, <4>1 DEF WriteFails
    <3> QED
      BY <2>2, <3>1, <3>2, <3>3, <3>4 DEF ServerStep
  <2>3. CASE (\E w \in Puller : Ask(w) \/ Pull(w)) \/ UNCHANGED vars
    BY <2>3 DEF Ask, Pull, vars
  <2> QED
    BY <2>1, <2>2, <2>3 DEF Next, RegistryCrash
<1>3. Sent(p)' = Sent(p)
  BY <1>2, SentKept
<1> QED
  BY <1>1, <1>2, <1>3

LEMMA GapStep ==
  ASSUME DeployInductive, WriteInv, [Next]_vars, ~RegistryCrash,
         NEW d \in Digest, NEW k \in Block, Coming(d, k),
         \A p \in Push : ~(WriteFails(p) /\ Sent(p) = d)
  PROVE  Coming(d, k)'
<1> USE DEF DeployInductive, TypeOK
<1>1. k \in Nat /\ k >= 1
  BY DEF Block
<1>2. ASSUME NEW p \in Push, Open(p), Sent(p) = d
      PROVE  Coming(d, k)'
  BY <1>1, <1>2 DEF Open, Serve, Sent, cliVars, WriteInv, Coming
<1>3. ASSUME k \in content[d], \A p \in Push : ~(Open(p) /\ Sent(p) = d)
      PROVE  k \in content'[d]
  <2>1. ASSUME NEW p \in Push, Open(p) PROVE k \in content'[d]
    BY <1>3, <2>1 DEF Open
  <2>2. ASSUME NEW p \in Push, WriteBlock(p) PROVE k \in content'[d]
    BY <1>3, <2>2 DEF WriteBlock
  <2>3. CASE UNCHANGED files
    BY <1>3, <2>3 DEF files
  <2> QED
    BY <2>1, <2>2, <2>3, FilesKept
<1>4. ASSUME NEW p \in Push, srv[p] = "write", Sent(p) = d, written[p] < k
      PROVE  Coming(d, k)'
  <2>1. CASE WriteBlock(p) /\ k = written[p] + 1
    <3>1. k \in content'[d]
      BY <1>4, <2>1 DEF WriteBlock
    <3> QED
      BY <3>1 DEF Coming
  <2>2. CASE srv'[p] = "write" /\ Sent(p)' = Sent(p) /\ written'[p] < k
    BY <1>4, <2>2 DEF Coming
  <2> QED
    BY <1>4, <2>1, <2>2, WriterStep
<1> QED
  BY <1>2, <1>3, <1>4 DEF Coming

LEMMA MissingStep ==
  ASSUME DeployInductive, WriteInv, MissingIsComing, [Next]_vars
  PROVE  MissingIsComing'
<1> SUFFICES ASSUME Faults \cap {"disk", "crash"} = {}, NEW d \in stored', NEW k \in Block
             PROVE  Coming(d, k)'
  BY DEF MissingIsComing
<1> USE DEF DeployInductive, TypeOK
<1>1. ~RegistryCrash /\ \A p \in Push : ~WriteFails(p)
  BY DEF RegistryCrash, WriteFails
<1>2. ASSUME NEW p \in Push, Open(p), Sent(p) = d
      PROVE  Coming(d, k)'
  BY <1>2 DEF Open, Serve, Sent, cliVars, WriteInv, Coming, Block
<1>3. CASE d \in stored
  BY <1>1, <1>3, GapStep DEF MissingIsComing
<1>4. ASSUME \A p \in Push : ~(Open(p) /\ Sent(p) = d)
      PROVE  d \in stored
  <2>1. ASSUME NEW p \in Push, Open(p) PROVE d \in stored
    BY <1>4, <2>1 DEF Open
  <2>2. ASSUME NEW p \in Push, WriteBlock(p) PROVE d \in stored
    BY <2>2 DEF WriteBlock
  <2>3. CASE UNCHANGED files
    BY <2>3 DEF files
  <2> QED
    BY <2>1, <2>2, <2>3, FilesKept
<1> QED
  BY <1>2, <1>3, <1>4

LEMMA WriteInvariant == Spec => []WriteInv
<1>1. DeployInductive /\ WriteInv /\ [Next]_vars => WriteInv'
  BY WrittenStep DEF WriteInv
<1>2. Init => WriteInv
  BY WriteInit
<1> QED
  BY <1>1, <1>2, DeployInvariant, PTL DEF Spec

\* However many pushes truncate and write one file, no block of it is given up but by a write
\* that fails there, or by the registry's death.
THEOREM GapsAreFaults == Spec => OnlyFaultsLeaveGaps
<1>1. DeployInductive /\ WriteInv /\ [Next]_vars
        => [\A d \in Digest : \A k \in Block :
              Coming(d, k) /\ ~Coming(d, k)'
                => RegistryCrash \/ \E p \in Push : WriteFails(p) /\ Sent(p) = d]_vars
  BY GapStep
<1> QED
  BY <1>1, DeployInvariant, WriteInvariant, PTL DEF Spec, OnlyFaultsLeaveGaps

\* Whatever pushes of one digest do to each other's file, nothing of it is lost while no
\* write fails and the registry lives: when the writers are done, it is whole.
THEOREM NothingLost == Spec => []MissingIsComing
<1>1. DeployInductive /\ WriteInv /\ MissingIsComing /\ [Next]_vars => MissingIsComing'
  BY MissingStep
<1>2. Init => MissingIsComing
  BY WriteInit
<1> QED
  BY <1>1, <1>2, DeployInvariant, WriteInvariant, PTL DEF Spec

-----------------------------------------------------------------------------
(* One push after another.  *)

\* When one push ends before the next begins, nothing that has been handed out is being
\* written or will be.
HandedOutWhole ==
  /\ \A p \in Push : srv[p] = "open" => Sent(p) \notin stored
  /\ \A p \in Push : srv[p] \in {"open", "write"} =>
       /\ \A n \in Name : names[n] # Sent(p)
       /\ \A w \in Puller : asked[w] # Sent(p)
  /\ PulledWhole

\* Writers are those who were, or begin with a digest that nobody has been given.
LEMMA WritersUnnamed ==
  ASSUME DeployInductive, HandedOutWhole, [Next]_vars,
         NEW p \in Push, srv'[p] \in {"open", "write"}
  PROVE  /\ Sent(p)' = Sent(p)
         /\ \A n \in Name : names[n] # Sent(p)
         /\ \A w \in Puller : asked[w] # Sent(p)
<1> USE DEF DeployInductive, TypeOK
<1>1. srv[p] \in {"open", "write"} \/ NeedWrite(p)
  <2> USE DEF cliVars, srvVars, pullVars, files, Serve, Refuse
  <2>1. ASSUME NEW q \in Push, Start(q) \/ ClientStep(q) \/ ClientDies(q)
        PROVE  srv[p] \in {"open", "write"}
    BY <2>1 DEF Start, ClientStep, ClientDies, TarEnds, TarAwaited, TarFailed, SetName, SetFails
  <2>2. ASSUME NEW q \in Push, ServerStep(q) PROVE srv[p] \in {"open", "write"} \/ NeedWrite(p)
    BY <2>2 DEF ServerStep, Received, Rejected, SkipWrite, NeedWrite, Open, WriteBlock, WriteDone,
                WriteFails, Reply
  <2>3. CASE RegistryCrash \/ (\E w \in Puller : Ask(w) \/ Pull(w)) \/ UNCHANGED vars
    BY <2>3 DEF RegistryCrash, Ask, Pull, vars
  <2> QED
    BY <2>1, <2>2, <2>3 DEF Next
<1>2. Sent(p)' = Sent(p)
  <2>1. srv[p] # "receive"
    BY <1>1 DEF NeedWrite, Serve
  <2> QED
    BY <2>1, SentKept
<1>3. CASE srv[p] \in {"open", "write"}
  BY <1>2, <1>3 DEF HandedOutWhole
<1>4. CASE NeedWrite(p)
  <2>1. Sent(p) \notin stored /\ Sent(p) \in Digest
    BY <1>4, SentTyped DEF NeedWrite, Serve, PushInv
  <2> QED
    BY <1>2, <2>1, DeployAssumption DEF HandedOutInv
<1> QED
  BY <1>1, <1>3, <1>4

LEMMA HandedOutStep ==
  ASSUME \A p, q \in Push : p = q, Faults \cap {"disk", "crash"} = {},
         DeployInductive, WriteInv, MissingIsComing, HandedOutWhole, [Next]_vars
  PROVE  HandedOutWhole'
<1> USE DEF DeployInductive, TypeOK
<1>1. ASSUME NEW p \in Push, srv'[p] = "open" PROVE Sent(p)' \notin stored'
  <2>1. ~Open(p) /\ ~WriteBlock(p)
    BY <1>1 DEF Open, WriteBlock, Serve
  <2>2. UNCHANGED files
    BY <2>1, FilesKept
  <2> QED
    BY <1>1, <2>2, OpensKept DEF HandedOutWhole, files
<1>2. ASSUME NEW p \in Push, srv'[p] \in {"open", "write"}
      PROVE  /\ \A n \in Name : names'[n] # Sent(p)'
             /\ \A w \in Puller : asked'[w] # Sent(p)'
  <2>1. /\ Sent(p)' = Sent(p)
        /\ \A n \in Name : names[n] # Sent(p)
        /\ \A w \in Puller : asked[w] # Sent(p)
    BY <1>2, WritersUnnamed
  <2> USE DEF cliVars, srvVars, pullVars, files
  <2>2. ASSUME NEW q \in Push, SetName(q) PROVE FALSE
    <3>1. q = p
      OBVIOUS
    <3> QED
      BY <1>2, <2>2, <3>1 DEF SetName, PushInv
  <2>3. ASSUME NEW q \in Push, Start(q) \/ ClientStep(q) \/ ClientDies(q)
        PROVE  UNCHANGED <<names, asked>>
    BY <2>2, <2>3 DEF Start, ClientStep, ClientDies, TarEnds, TarAwaited, TarFailed, SetFails
  <2>4. ASSUME NEW q \in Push, ServerStep(q) PROVE UNCHANGED <<names, asked>>
    BY <2>4 DEF ServerStep, Received, Rejected, SkipWrite, NeedWrite, Open, WriteBlock, WriteDone,
                WriteFails, Reply
  <2>5. ASSUME NEW w \in Puller, Ask(w)
        PROVE  names' = names /\ \A v \in Puller : asked'[v] # Sent(p)
    <3>1. PICK n \in Name : asked' = [asked EXCEPT ![w] = names[n]]
      BY <2>5 DEF Ask
    <3> QED
      BY <2>1, <2>5, <3>1 DEF Ask
  <2>6. ASSUME NEW w \in Puller, Pull(w)
        PROVE  names' = names /\ \A v \in Puller : asked'[v] # Sent(p)
    <3>1. Sent(p) \in Digest
      <4>1. srv[p] # "none" /\ tar[p] # "running"
        BY <1>2, <2>6 DEF Pull, PushInv
      <4> QED
        BY <4>1, SentTyped DEF PushInv
    <3>2. names' = names /\ \A v \in Puller : asked'[v] \in {asked[v], NoDigest}
      BY <2>6 DEF Pull
    <3>3. Sent(p) # NoDigest
      BY <3>1, DeployAssumption
    <3> QED
      BY <2>1, <3>2, <3>3
  <2>7. CASE UNCHANGED vars
    BY <2>1, <2>7 DEF vars
  <2> QED
    BY <2>1, <2>3, <2>4, <2>5, <2>6, <2>7 DEF Next, RegistryCrash
<1>3. PulledWhole'
  <2> USE DEF PulledWhole, HandedOutWhole, cliVars, srvVars, pullVars, files
  <2>1. ASSUME NEW w \in Puller, Pull(w) PROVE PulledWhole'
    <3>1. asked[w] \in stored /\ content[asked[w]] \subseteq Block
      BY <2>1 DEF Pull, HandedOutInv
    <3>2. ASSUME NEW k \in Block, k \notin content[asked[w]] PROVE FALSE
      <4>1. \E p \in Push : srv[p] = "write" /\ Sent(p) = asked[w]
        BY <3>1, <3>2 DEF MissingIsComing, Coming
      <4> QED
        BY <4>1
    <3>3. content[asked[w]] = Block
      BY <3>1, <3>2
    <3> QED
      BY <2>1, <3>1, <3>3 DEF Pull, Whole
  <2>2. ASSUME NEW w \in Puller, Ask(w) PROVE PulledWhole'
    BY <2>2 DEF Ask
  <2>3. ASSUME NEW q \in Push, Start(q) \/ ClientStep(q) \/ ClientDies(q) PROVE pulled' = pulled
    BY <2>3 DEF Start, ClientStep, ClientDies, TarEnds, TarAwaited, TarFailed, SetName, SetFails
  <2>4. ASSUME NEW q \in Push, ServerStep(q) PROVE pulled' = pulled
    BY <2>4 DEF ServerStep, Received, Rejected, SkipWrite, NeedWrite, Open, WriteBlock, WriteDone,
                WriteFails, Reply
  <2>5. CASE UNCHANGED vars
    BY <2>5 DEF vars
  <2> QED
    BY <2>1, <2>2, <2>3, <2>4, <2>5 DEF Next, RegistryCrash
<1> QED
  BY <1>1, <1>2, <1>3 DEF HandedOutWhole

\* Of pushes that come one after the other, none is about to write what a name stands for
\* or a worker has asked for.
THEOREM HandedOutAlone ==
  ASSUME \A p, q \in Push : p = q, Faults \cap {"disk", "crash"} = {}
  PROVE  Spec => []HandedOutWhole
<1>1. Init => HandedOutWhole
  BY DEF Init, HandedOutWhole, PulledWhole
<1>2. DeployInductive /\ WriteInv /\ MissingIsComing /\ HandedOutWhole /\ [Next]_vars
        => HandedOutWhole'
  BY HandedOutStep
<1> QED
  BY <1>1, <1>2, DeployInvariant, WriteInvariant, NothingLost, PTL DEF Spec

\* What the run with two pushes refutes holds for one after the other: a worker pulls all
\* of an archive.
THEOREM PulledWholeAlone ==
  ASSUME \A p, q \in Push : p = q, Faults \cap {"disk", "crash"} = {}
  PROVE  Spec => []PulledWhole
<1>1. HandedOutWhole => PulledWhole
  BY DEF HandedOutWhole
<1>2. Spec => []HandedOutWhole
  BY HandedOutAlone
<1> QED
  BY <1>1, <1>2, PTL

=============================================================================
