SPECIFICATION FairSpec
CONSTANTS
  r1 = r1
  r2 = r2
  r3 = r3
  i1 = i1
  i2 = i2
  d0 = d0
  c1 = c1
  c2 = c2
  c3 = c3
  Request = {r1,r2}
  Digest = {i1}
  Id = {i1}
  Short <- OneId
  Arc = {c1,c2}
  MaxAttempts = 1
  Faults = {"fail", "exit", "shutdown"}
  NoRequest = NoRequest
  NoDigest = NoDigest
  NoId = NoId
  NoArc = NoArc
PROPERTIES
  QueuedCallsServed
  ShutdownEnds
