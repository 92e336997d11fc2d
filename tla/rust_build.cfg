SPECIFICATION Spec
CONSTANTS
  u1 = u1
  u2 = u2
  app = app
  lib = lib
  main = main
  tool = tool
  release = release
  debug = debug
  Push = {u1, u2}
  Package = {app, lib}
  Bin = {main, tool}
  Owner <- BinOwner
  Bins <- BinOrder
  Workspace <- AllWorlds
  Place = {release}
  MaxEdits = 1
  NoPackage = NoPackage
  NoBin = NoBin
  NoConfig = NoConfig
SYMMETRY PushSymmetry
INVARIANTS
  BuiltIsPushed
  BuildInductive
  AgeInv
PROPERTIES
  BinariesOnlyRenew
