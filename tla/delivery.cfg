SPECIFICATION MCSpec
CONSTANTS
  p1 = p1
  p2 = p2
  n1 = n1
  Push = {p1, p2}
  Puller = {}
  Build <- Builds
  Name = {n1}
  Digest <- AllDigests
  DigestOf <- Digests
  TornDigest <- Remains
  Blocks = 1
  Faults = {"tar", "client", "set"}
  NoDigest = NoDigest
  NoBuild = NoBuild
  NoName = NoName
  Job <- Jobs
  Background = {"log"}
  Awaited = {}
  ArchiveOf <- Archives
  Together = 1
INVARIANTS
  SentComplete
  WalkInductive
  NamedHoldsAnswered
  DeliveryInductive
PROPERTIES
  NamedSettles
  BuildEnds
