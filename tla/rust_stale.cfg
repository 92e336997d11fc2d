SPECIFICATION Spec
CONSTANTS
  u1 = u1
  u2 = u2
  app = app
  lib = lib
  main = main
  tool = tool
  release = release
  debug = debug
  Push = {u1}
  Package = {app, lib}
  Bin = {main, tool}
  Owner <- BinOwner
  Bins <- BinOrder
  Workspace <- RootedWorld
  Place = {release}
  MaxEdits = 1
  NoPackage = NoPackage
  NoBin = NoBin
  NoConfig = NoConfig
INVARIANTS
  PushedIsBuilt
