SPECIFICATION MCSpec
CONSTANTS
  Token <- Tokens
  Archive <- SmallArchives
  Room = 1
  root = root
  top = top
  sub = sub
  leaf = leaf
  none = none
  c1 = c1
  Node <- Places
  Root = root
  Parent <- ParentOf
  Packages <- SmallPackages
  NoNode = none
  Call = {c1}
INVARIANTS
  DigestDiscerns
  BundleComplete
  TraverseInductive
  RunsOnComplete
  SocketInv
PROPERTIES
  ServerComesUp
  CallsAnswered
