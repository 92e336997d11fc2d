SPECIFICATION Spec
CONSTANTS
  p1 = p1
  p2 = p2
  p3 = p3
  w1 = w1
  b1 = b1
  b2 = b2
  b3 = b3
  d1 = d1
  d2 = d2
  torn = torn
  n1 = n1
  n2 = n2
  Push = {p1,p2}
  Puller = {w1}
  Build = {b1,b2}
  Name = {n1}
  Digest = {d1,torn}
  DigestOf <- SameCode
  TornDigest <- Remains
  Blocks = 2
  Faults = {}
  NoDigest = NoDigest
  NoBuild = NoBuild
  NoName = NoName
INVARIANTS
  PulledWhole
