------------------------------- MODULE Digest -------------------------------
(***************************************************************************)
(* RegistryService.push of services/registry, for what it is about: the    *)
(* archive is hashed entry by entry, and stored under its digest unless    *)
(* something is stored there already (how it is written, and who reads it, *)
(* is in Deploy).  The hash is taken to tell any two inputs apart, so the  *)
(* digest is its input: prefixes, names and contents one after the other,  *)
(* without lengths, each a sequence of tokens.                             *)
(***************************************************************************)
EXTENDS SequencesExt, FiniteSets

CONSTANTS
  Token,    \* what a hash is fed with
  Archive,  \* the archives that may be pushed
  Room      \* the archives that are stored: a bound

Prefix == {"file:", "dir:"}

Entry == [type : {"file", "dir", "link"}, name : Seq(Token), content : Seq(Token)]

\* Only files have a content.
ASSUME DigestAssumption ==
  /\ Prefix \subseteq Token
  /\ Archive \subseteq Seq(Entry)
  /\ \A a \in Archive : \A i \in DOMAIN a : a[i].type # "file" => a[i].content = <<>>

VARIABLES
  step,    \* "idle", "hash"
  left,    \* the entries of the archive still to come
  hasher,  \* what has been fed to the hash
  fed,     \* the entries it was fed from, for the properties alone
  stored   \* what is stored: a digest, and the entries it was computed from

vars == <<step, left, hasher, fed, stored>>

Init == step = "idle" /\ left = <<>> /\ hasher = <<>> /\ fed = <<>> /\ stored = {}

-----------------------------------------------------------------------------
\* Bug: nothing differentiates files and folders, or an entry from the one before it.
HashedBare(entry) == entry.name \o entry.content

\* What an entry adds to the hash: links, and the modes of all, add nothing.
Hashed(entry) ==
  IF entry.type = "file" THEN <<"file:">> \o entry.name \o entry.content
                         ELSE <<"dir:">> \o entry.name

Hashable(entry) == entry.type \in {"file", "dir"}

Receive ==
  /\ step = "idle"
  /\ step' = "hash"
  /\ left' \in Archive
  /\ hasher' = <<>> /\ fed' = <<>>
  /\ UNCHANGED stored

HashEntry ==
  /\ step = "hash" /\ left # <<>>
  /\ IF Hashable(Head(left))
       THEN /\ hasher' = hasher \o Hashed(Head(left))
            /\ fed' = Append(fed, Head(left))
       ELSE UNCHANGED <<hasher, fed>>
  /\ left' = Tail(left)
  /\ UNCHANGED <<step, stored>>

\* An entry cannot be read to its end: the push is refused.
HashFails ==
  /\ step = "hash" /\ left # <<>>
  /\ step' = "idle" /\ left' = <<>>
  /\ UNCHANGED <<hasher, fed, stored>>

Answer ==
  /\ step = "hash" /\ left = <<>>
  /\ step' = "idle"
  /\ UNCHANGED <<left, hasher, fed>>

SkipWrite ==
  /\ \E s \in stored : s.digest = hasher
  /\ Answer
  /\ UNCHANGED stored

\* There from the moment it is opened, whatever becomes of the writing.
Write ==
  /\ \A s \in stored : s.digest # hasher
  /\ Cardinality(stored) < Room
  /\ Answer
  /\ stored' = stored \cup {[digest |-> hasher, fed |-> fed]}

\* It cannot be opened.
WriteFails ==
  /\ \A s \in stored : s.digest # hasher
  /\ Answer
  /\ UNCHANGED stored

Next == Receive \/ HashEntry \/ HashFails \/ SkipWrite \/ Write \/ WriteFails

Spec == Init /\ [][Next]_vars

\* The whole of it.
GetDigest(a) ==
  FoldLeft(LAMBDA h, entry : IF Hashable(entry) THEN h \o Hashed(entry) ELSE h, <<>>, a)

-----------------------------------------------------------------------------
\* The types and names of entries, in their order.
Outline(f) == [i \in DOMAIN f |-> <<f[i].type, f[i].name>>]

\* No content holds what looks like the beginning of an entry.
Clear(f) == \A i \in DOMAIN f : \A k \in DOMAIN f[i].content : f[i].content[k] \notin Prefix

\* Two builds of a project, with files and folders of the same names, share a digest
\* only if their files have the same contents: otherwise the push of the second would
\* not be written, and workers would run the first.  It takes the prefixes, and
\* contents free of them, since nothing else marks the end of a content; and projects
\* of other names may share a digest all the same (a file "a" of "bc", a file "ab" of "c").
DigestDiscerns ==
  step = "hash" /\ left = <<>> /\ Clear(fed) =>
    \A s \in stored :
      s.digest = hasher /\ Outline(s.fed) = Outline(fed) /\ Clear(s.fed) => s.fed = fed

=============================================================================
