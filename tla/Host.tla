-------------------------------- MODULE Host --------------------------------
(***************************************************************************)
(* One instance on a worker's host: the bundle that create_rootfs makes of *)
(* a package (Bundle), and the function's server that runs in it (Sdk),    *)
(* from the claim of the bundle's place to its removal.  Worker has the    *)
(* order in which instances come and go; here is what is inside of one.    *)
(***************************************************************************)
EXTENDS Bundle

CONSTANT Call

VARIABLES proc, socket, call, kind, answer

S == INSTANCE Sdk

serverVars == <<proc, socket, call, kind, answer>>
hostVars == <<bundleVars, serverVars>>

HostInit == BundleInit /\ S!Init

-----------------------------------------------------------------------------
\* Bug: the container is started while the copy goes on.
LaunchEarly ==
  /\ at \in {"copy", "run", "built"}
  /\ S!Launch
  /\ UNCHANGED bundleVars

\* Container::start, of a container that is built from a whole bundle.
Launch ==
  /\ at = "built"
  /\ S!Launch
  /\ UNCHANGED bundleVars

\* cleanup: the container goes first, and then its bundle.
Delete == CleanUp /\ S!Remove

\* create_rootfs, for a container that does not run yet.
MakeBundle ==
  /\ Claim \/ BundleStep \/ Break \/ \E c \in Node : CopyBreaks(c)
  /\ UNCHANGED serverVars

\* The function's process writes its socket into the bundle, and nothing else.
RunServer ==
  /\ S!StartStep \/ S!Die \/ \E c \in Call : S!Invoke(c) \/ S!InvokeStep(c)
  /\ UNCHANGED bundleVars

HostNext == MakeBundle \/ Launch \/ RunServer \/ Delete

HostSpec == HostInit /\ [][HostNext]_hostVars

\* tokio polls what is ready.
HostFairness ==
  /\ WF_hostVars(S!StartStep /\ UNCHANGED bundleVars)
  /\ \A c \in Call : WF_hostVars(S!InvokeStep(c) /\ UNCHANGED bundleVars)

-----------------------------------------------------------------------------
\* While a function's process is there, a start over or a restart included, its bundle
\* is whole: nothing is copied beside it, and nothing is removed under it.
RunsOnComplete ==
  S!Present => at = "built" /\ made = Parts /\ \A n \in Node : Done(n)

SocketInv     == S!SocketInv
ServerComesUp == S!ServerComesUp
CallsAnswered == S!CallsAnswered

=============================================================================
