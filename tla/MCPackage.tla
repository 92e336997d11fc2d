----------------------------- MODULE MCPackage ------------------------------
(* Packages in two small worlds: archives that the registry hashes, and packages that     *)
(* become functions that serve.  They share no state (what lies between, the pull and     *)
(* the cache, is in Deploy and Worker): each moves only as long as the other has not      *)
(* begun, so that a behaviour is one of one of them.                                      *)
EXTENDS Digest, Host, TLC

-----------------------------------------------------------------------------
(* Every archive of up to two entries of these, after any other.  *)

File(name, data) == [type |-> "file", name |-> name, content |-> data]
Folder(name)     == [type |-> "dir",  name |-> name, content |-> <<>>]
Link(name)       == [type |-> "link", name |-> name, content |-> <<>>]

Tokens == Prefix \cup {"a", "b"}

Contents == {<<>>, <<"a">>, <<"b">>, <<"a", "b">>, <<"file:">>, <<"file:", "a">>}

Entries ==
  {File(<<"a">>, c) : c \in Contents}
    \cup {File(<<"b">>, <<>>), Folder(<<"a">>), Folder(<<"b">>), Link(<<"a">>)}

SmallArchives == {<<>>} \cup {<<e>> : e \in Entries} \cup (Entries \X Entries)

-----------------------------------------------------------------------------
(* A package: the root with two entries, the second of which has one of its own.  *)

CONSTANTS root, top, sub, leaf, none, c1

Places == {root, top, sub, leaf}
ParentOf == (top :> root) @@ (sub :> root) @@ (leaf :> sub)

PackageOf(t, s, l) == (root :> "dir") @@ (top :> t) @@ (sub :> s) @@ (leaf :> l)
Simple == PackageOf("file", "dir", "file")
SmallPackages ==
  {Simple, PackageOf("link", "dir", "link"), PackageOf("dir", "file", "nothing"),
   PackageOf("nothing", "dir", "odd")}

ASSUME MCAssumption == IsTree

-----------------------------------------------------------------------------
MCInit == Init /\ HostInit

MCNext ==
  \/ /\ HostInit /\ package = Simple
     /\ Next
     /\ UNCHANGED hostVars
  \/ /\ Init
     /\ HostNext
     /\ UNCHANGED vars

MCSpec == MCInit /\ [][MCNext]_<<vars, hostVars>> /\ HostFairness

=============================================================================
