------------------------------- MODULE Bundle -------------------------------
(***************************************************************************)
(* ProccesContainer::create_rootfs (services/worker container.rs) and the  *)
(* traversal copy_dir_all (path.rs) it copies a package with: the bundle a *)
(* container is built from.                                                *)
(*                                                                         *)
(* A package is a tree of directory entries, some of them symbolic links.  *)
(* The traversal keeps a stack of directories still to be copied (here a   *)
(* set: they are taken in any order) and goes through the entries of one   *)
(* directory at a time; it never descends into a link.                     *)
(***************************************************************************)
CONSTANTS
  Node,      \* the places of a package's entries
  Root,      \* its directory
  Parent,    \* Parent[n]: the directory of any other entry
  Packages,  \* the packages there may be: what is at each place
  NoNode

\* "link": a symbolic link to a regular file, which fs::copy follows; "odd": one to
\* a directory or to nothing, or no regular file, which it refuses.
Kinds == {"dir", "file", "link", "odd", "nothing"}

Child(n) == {c \in Node \ {Root} : Parent[c] = n}

\* Places form a tree, directories are inside of directories, and whatever contains
\* the root and with a place all places below it contains them all.
IsTree ==
  /\ Root \in Node /\ NoNode \notin Node
  /\ Parent \in [Node \ {Root} -> Node]
  /\ Packages \subseteq [Node -> Kinds]
  /\ \A k \in Packages : k[Root] = "dir"
  /\ \A k \in Packages : \A n \in Node \ {Root} : k[n] # "nothing" => k[Parent[n]] = "dir"
  /\ \A S \in SUBSET Node : Root \in S /\ (\A n \in S : Child(n) \subseteq S) => S = Node

VARIABLES
  at,       \* where create_rootfs is
  package,  \* what it copies
  made,     \* the parts of the bundle beside the copy
  copy,     \* the copy: what is at each place of <bundle>/rootfs/app
  stack,    \* the directories still to be copied
  here,     \* the one being copied
  entries   \* its entries that are left

bundleVars == <<at, package, made, copy, stack, here, entries>>

Parts == {"path", "config", "rootfs", "run"}

BundleTypeOK ==
  /\ at \in {"idle", "config", "flush", "rootfs", "copy", "run", "built", "failed"}
  /\ package \in Packages
  /\ made \subseteq Parts
  /\ copy \in [Node -> {"nothing", "dir", "part", "file"}]
  /\ stack \subseteq Node
  /\ here \in Node \cup {NoNode}
  /\ entries \subseteq Node

Blank == [n \in Node |-> "nothing"]

BundleInit ==
  /\ at = "idle"
  /\ package \in Packages
  /\ made = {}
  /\ copy = Blank
  /\ stack = {}
  /\ here = NoNode
  /\ entries = {}

-----------------------------------------------------------------------------
Step(from, to) == at = from /\ at' = to

Make(part) == made' = made \cup {part}

copyVars == <<copy, stack, here, entries>>

\* The place is free (Worker checks that it is) and is taken; a place where this has
\* failed is left alone, and another one stands in its stead here.
Claim ==
  /\ at \in {"idle", "failed"} /\ at' = "config"
  /\ made' = {"path"}
  /\ package' \in Packages
  /\ copy' = Blank
  /\ stack' = {} /\ here' = NoNode /\ entries' = {}

CreateConfig ==
  /\ Step("config", "flush")
  /\ UNCHANGED <<package, made, copyVars>>

FlushConfig ==
  /\ Step("flush", "rootfs")
  /\ Make("config")
  /\ UNCHANGED <<package, copyVars>>

MakeRootfs ==
  /\ Step("rootfs", "copy")
  /\ Make("rootfs")
  /\ stack' = {Root}
  /\ UNCHANGED <<package, copy, here, entries>>

\* stack.pop(), create_dir_all(&dst), read_dir(&src)
OpenDir(n) ==
  /\ at = "copy" /\ here = NoNode /\ n \in stack
  /\ stack' = stack \ {n}
  /\ copy' = [copy EXCEPT ![n] = "dir"]
  /\ here' = n
  /\ entries' = {c \in Child(n) : package[c] # "nothing"}
  /\ UNCHANGED <<at, package, made>>

\* The next entry of the directory, taken care of.
Take(c) ==
  /\ at = "copy" /\ c \in entries
  /\ entries' = entries \ {c}

PushDir(c) ==
  /\ Take(c) /\ package[c] = "dir"
  /\ stack' = stack \cup {c}
  /\ UNCHANGED <<at, package, made, copy, here>>

\* fs::copy
CopyFile(c) ==
  /\ Take(c) /\ package[c] \in {"file", "link"}
  /\ copy' = [copy EXCEPT ![c] = "file"]
  /\ UNCHANGED <<at, package, made, stack, here>>

\* It fails on the way, or is the last thing a dropped call has begun.
CopyBreaks(c) ==
  /\ Take(c) /\ package[c] \in {"file", "link"}
  /\ copy' = [copy EXCEPT ![c] = "part"]
  /\ at' = "failed"
  /\ UNCHANGED <<package, made, stack, here>>

\* Bug: links are told by their targets' type, and those of no file are left out.
SkipOdd(c) ==
  /\ Take(c) /\ package[c] = "odd"
  /\ UNCHANGED <<at, package, made, copy, stack, here>>

\* "the source path is neither a regular file nor a symlink to a regular file"
RefuseOdd(c) ==
  /\ Take(c) /\ package[c] = "odd"
  /\ at' = "failed"
  /\ UNCHANGED <<package, made, copy, stack, here>>

CloseDir ==
  /\ at = "copy" /\ here # NoNode /\ entries = {}
  /\ here' = NoNode
  /\ UNCHANGED <<at, package, made, copy, stack, entries>>

\* Bug: the loop ends with the first directory that has none below it.
StackIgnored ==
  /\ Step("copy", "run")
  /\ here # NoNode /\ entries = {}
  /\ here' = NoNode
  /\ UNCHANGED <<package, made, copy, stack, entries>>

StackEmpty ==
  /\ Step("copy", "run")
  /\ here = NoNode /\ stack = {}
  /\ UNCHANGED <<package, made, copyVars>>

MakeRun ==
  /\ Step("run", "built")
  /\ Make("run")
  /\ UNCHANGED <<package, copyVars>>

\* Any operation may fail, and the call may be dropped: what there is stays.
Break ==
  /\ at \in {"config", "flush", "rootfs", "copy", "run"}
  /\ at' = "failed"
  /\ UNCHANGED <<package, made, copyVars>>

\* ProccesContainer::cleanup: nothing but a bundle that was built is ever removed.
CleanUp ==
  /\ Step("built", "idle")
  /\ made' = {} /\ copy' = Blank
  /\ UNCHANGED <<package, stack, here, entries>>

Traverse ==
  \/ \E n \in Node : OpenDir(n) \/ PushDir(n) \/ CopyFile(n) \/ RefuseOdd(n)
  \/ CloseDir \/ StackEmpty

BundleStep == CreateConfig \/ FlushConfig \/ MakeRootfs \/ Traverse \/ MakeRun

BundleNext == Claim \/ BundleStep \/ (\E c \in Node : CopyBreaks(c)) \/ Break \/ CleanUp

BundleSpec == BundleInit /\ [][BundleNext]_bundleVars

-----------------------------------------------------------------------------
\* What fs::copy and create_dir_all make of an entry.
Image(k) == IF k = "link" THEN "file" ELSE k

\* A bundle that a container is built from has all its parts and holds a copy of the
\* whole package, at every depth, with links followed: whatever the traversal could
\* not copy has made it fail.
BundleComplete ==
  at = "built" => made = Parts /\ \A n \in Node : copy[n] = Image(package[n])

-----------------------------------------------------------------------------
(* Why: an entry below a copied directory is copied, or its turn is to come. *)

Done(n) == copy[n] = Image(package[n])

TraverseInv ==
  /\ at \notin {"idle", "failed"} => "path" \in made
  /\ at \in {"rootfs", "copy", "run", "built"} => "config" \in made
  /\ at \in {"copy", "run", "built"} => "rootfs" \in made
  /\ at = "built" => made = Parts
  /\ at \in {"idle", "config", "flush", "rootfs"} =>
       stack = {} /\ here = NoNode /\ entries = {}
  /\ at \in {"idle", "config", "flush", "rootfs"} => copy = Blank
  /\ at \in {"copy", "run", "built"} => Done(Root) \/ Root \in stack
  /\ at \in {"run", "built"} => stack = {} /\ here = NoNode /\ entries = {}
  /\ at = "copy" => entries \subseteq (IF here = NoNode THEN {} ELSE Child(here))
  /\ at = "copy" => \A c \in entries : package[c] # "nothing"
  /\ at \in {"copy", "run", "built"} =>
       /\ \A n \in stack : package[n] = "dir"
       /\ \A n \in Node : Done(n) /\ package[n] = "dir" =>
            \A c \in Child(n) : Done(c) \/ c \in stack \/ (here = n /\ c \in entries)
       /\ \A n \in Node : package[n] = "nothing" => copy[n] = "nothing"

TraverseInductive == BundleTypeOK /\ TraverseInv

=============================================================================
