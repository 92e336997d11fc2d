---------------------------- MODULE Bundle_proofs ----------------------------
(***************************************************************************)
(* For every tree of places and every package: a bundle that create_rootfs *)
(* finishes holds the whole package.  The traversal keeps the closure: an  *)
(* entry below a copied directory is copied or still to come; when nothing *)
(* is to come, the copied places contain the root and all that is below    *)
(* them, and so are all the places there are.                              *)
(***************************************************************************)
EXTENDS Bundle, TLAPS

LEMMA TreeFacts ==
  ASSUME IsTree
  PROVE  /\ Root \in Node /\ NoNode \notin Node
         /\ \A k \in Packages : k \in [Node -> Kinds] /\ k[Root] = "dir"
         /\ \A n \in Node : Child(n) \subseteq Node
  BY DEF IsTree, Child

LEMMA BundleBegins == IsTree /\ BundleInit => TraverseInductive
  BY DEF IsTree, BundleInit, TraverseInductive, BundleTypeOK, TraverseInv, Blank, Parts, Child

LEMMA StepTypes ==
  ASSUME IsTree, BundleTypeOK, [BundleNext]_bundleVars
  PROVE  BundleTypeOK'
<1> USE TreeFacts DEF BundleTypeOK, Parts, Step, Make, Take, copyVars
<1>1. CASE CreateConfig \/ FlushConfig \/ MakeRootfs \/ MakeRun
  BY <1>1 DEF CreateConfig, FlushConfig, MakeRootfs, MakeRun
<1>2. ASSUME NEW n \in Node, OpenDir(n) PROVE BundleTypeOK'
  BY <1>2 DEF OpenDir
<1>3. ASSUME NEW c \in Node, PushDir(c) \/ CopyFile(c) \/ RefuseOdd(c) \/ CopyBreaks(c)
      PROVE  BundleTypeOK'
  <2>1. CASE PushDir(c)
    BY <1>3, <2>1 DEF PushDir
  <2>2. CASE CopyFile(c)
    BY <1>3, <2>2 DEF CopyFile
  <2>3. CASE RefuseOdd(c)
    BY <1>3, <2>3 DEF RefuseOdd
  <2>4. CASE CopyBreaks(c)
    BY <1>3, <2>4 DEF CopyBreaks
  <2> QED
    BY <1>3, <2>1, <2>2, <2>3, <2>4
<1>4. CASE CloseDir \/ StackEmpty \/ Break
  BY <1>4 DEF CloseDir, StackEmpty, Break
<1>5. CASE CleanUp
  BY <1>5 DEF CleanUp, Blank
<1>6. CASE Claim
  BY <1>6 DEF Claim, Blank
<1>7. CASE UNCHANGED bundleVars
  BY <1>7 DEF bundleVars
<1> QED
  BY <1>1, <1>2, <1>3, <1>4, <1>5, <1>6, <1>7 DEF BundleNext, BundleStep, Traverse

\* Each entry taken is copied or put on the stack before the next one is looked at.
LEMMA TraverseKeeps ==
  ASSUME IsTree, BundleTypeOK, BundleTypeOK', TraverseInv, Traverse
  PROVE  TraverseInv'
<1> USE TreeFacts DEF BundleTypeOK, TraverseInv, Done, Image, Take, Step, copyVars
<1>1. ASSUME NEW n \in Node, OpenDir(n) PROVE TraverseInv'
  <2>1. at = "copy" /\ at' = "copy" /\ n \in stack /\ package[n] = "dir"
    BY <1>1 DEF OpenDir
  <2>2. Done(n)' /\ \A m \in Node \ {n} : Done(m)' <=> Done(m)
    BY <1>1, <2>1 DEF OpenDir
  <2>3. here' = n /\ entries' = {c \in Child(n) : package[c] # "nothing"}
    BY <1>1 DEF OpenDir
  <2>4. ASSUME NEW m \in Node, Done(m)', package[m] = "dir", NEW c \in Child(m)
        PROVE  Done(c)' \/ c \in stack' \/ (here' = m /\ c \in entries')
    <3>1. CASE m = n
      BY <1>1, <2>1, <2>2, <2>3, <2>4, <3>1 DEF OpenDir
    <3>2. CASE m # n
      BY <1>1, <2>1, <2>2, <2>4, <3>2 DEF OpenDir
    <3> QED
      BY <3>1, <3>2
  <2>5. \A m \in stack' : package'[m] = "dir"
    BY <1>1, <2>1, <2>2 DEF OpenDir
  <2>6. Done(Root)' \/ Root \in stack'
    BY <1>1, <2>1, <2>2 DEF OpenDir
  <2>7. \A m \in Node : package'[m] = "nothing" => copy'[m] = "nothing"
    BY <1>1, <2>1 DEF OpenDir
  <2> QED
    BY <1>1, <2>1, <2>3, <2>4, <2>5, <2>6, <2>7 DEF OpenDir
<1>2. ASSUME NEW c \in Node, PushDir(c) PROVE TraverseInv'
  BY <1>2 DEF PushDir
<1>3. ASSUME NEW c \in Node, CopyFile(c) PROVE TraverseInv'
  BY <1>3 DEF CopyFile
<1>4. ASSUME NEW c \in Node, RefuseOdd(c) PROVE TraverseInv'
  BY <1>4 DEF RefuseOdd
<1>5. CASE CloseDir
  BY <1>5 DEF CloseDir
<1>6. CASE StackEmpty
  BY <1>6 DEF StackEmpty
<1> QED
  BY <1>1, <1>2, <1>3, <1>4, <1>5, <1>6 DEF Traverse

LEMMA StepKeeps ==
  ASSUME IsTree, TraverseInductive, [BundleNext]_bundleVars
  PROVE  TraverseInductive'
<1>1. BundleTypeOK'
  BY StepTypes DEF TraverseInductive
<1> USE TreeFacts DEF BundleTypeOK, TraverseInv, TraverseInductive, Done, Image,
            Blank, Parts, Step, Make, copyVars
<1>2. CASE Claim
  BY <1>1, <1>2 DEF Claim
<1>3. CASE CreateConfig
  BY <1>1, <1>3 DEF CreateConfig
<1>4. CASE FlushConfig
  BY <1>1, <1>4 DEF FlushConfig
<1>5. CASE MakeRootfs
  BY <1>1, <1>5 DEF MakeRootfs
<1>6. CASE Traverse
  BY <1>1, <1>6, TraverseKeeps
<1>7. CASE MakeRun
  BY <1>1, <1>7 DEF MakeRun
<1>8. ASSUME NEW c \in Node, CopyBreaks(c) PROVE TraverseInv'
  BY <1>1, <1>8 DEF CopyBreaks
<1>9. CASE Break
  BY <1>1, <1>9 DEF Break
<1>10. CASE CleanUp
  BY <1>1, <1>10 DEF CleanUp
<1>11. CASE UNCHANGED bundleVars
  BY <1>1, <1>11 DEF bundleVars
<1> QED
  BY <1>1, <1>2, <1>3, <1>4, <1>5, <1>6, <1>7, <1>8, <1>9, <1>10, <1>11
     DEF BundleNext, BundleStep

\* With nothing on the stack and no directory open, the copied places are closed.
LEMMA ClosedIsAll ==
  ASSUME IsTree, TraverseInductive, at = "built"
  PROVE  BundleComplete
<1> DEFINE Copied == {n \in Node : Done(n)}
<1> USE DEF TraverseInductive, BundleTypeOK, TraverseInv
<1>1. stack = {} /\ here = NoNode /\ NoNode \notin Node
  BY DEF IsTree
<1>2. Root \in Copied
  BY <1>1 DEF IsTree
<1>3. ASSUME NEW n \in Copied PROVE Child(n) \subseteq Copied
  <2>1. CASE package[n] = "dir"
    BY <1>1, <1>3, <2>1 DEF Child
  <2>2. CASE package[n] # "dir"
    <3>1. ASSUME NEW c \in Child(n) PROVE c \in Copied
      <4>1. package[c] = "nothing"
        BY <2>2, <3>1 DEF IsTree, Child
      <4> QED
        BY <3>1, <4>1 DEF Child, Done, Image
    <3> QED
      BY <3>1
  <2> QED
    BY <2>1, <2>2
<1>4. Copied = Node
  BY <1>2, <1>3 DEF IsTree
<1>5. \A n \in Node : Done(n)
  BY <1>4
<1> QED
  BY <1>5 DEF BundleComplete, Done

\* What is below a copied directory is copied, or its turn is to come.
THEOREM TraverseInvariant == ASSUME IsTree PROVE BundleSpec => []TraverseInductive
<1>1. BundleInit => TraverseInductive
  BY BundleBegins
<1>2. TraverseInductive /\ [BundleNext]_bundleVars => TraverseInductive'
  BY StepKeeps
<1> QED
  BY <1>1, <1>2, PTL DEF BundleSpec

\* What a container is built from is the package, whatever its shape.
THEOREM BundlesAreComplete == ASSUME IsTree PROVE BundleSpec => []BundleComplete
<1>1. TraverseInductive => BundleComplete
  BY ClosedIsAll DEF BundleComplete
<1> QED
  BY <1>1, TraverseInvariant, PTL

=============================================================================
