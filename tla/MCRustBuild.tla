---------------------------- MODULE MCRustBuild ----------------------------
(* Small worlds for RustBuild.  *)
EXTENDS RustBuild, TLC

CONSTANTS u1, u2, app, lib, main, tool, release, debug

\* A package with two binaries and one with none of its own.
BinOwner == (main :> app) @@ (tool :> lib)
BinOrder == (app :> <<main>>) @@ (lib :> <<tool>>)

World(ps, r, e) == [packages |-> ps, root |-> r, elsewhere |-> e]

\* A package on its own; a workspace with and one without a package at its root;
\* and a package with the target directory elsewhere.
AllWorlds ==
  {World(<<app>>, app, FALSE), World(<<lib, app>>, app, FALSE),
   World(<<lib, app>>, NoPackage, FALSE), World(<<app>>, app, TRUE)}

RootedWorld == {World(<<lib, app>>, app, FALSE)}

PushSymmetry == Permutations(Push)

=============================================================================
