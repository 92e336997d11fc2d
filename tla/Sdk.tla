-------------------------------- MODULE Sdk --------------------------------
(***************************************************************************)
(* The server inside a function (libs/sdk): a process that binds a socket  *)
(* file in its bundle and answers the calls that the worker forwards.  A   *)
(* handler is a function that makes a future, and the future it makes; it  *)
(* may panic as either, and catch_unwind surrounds the first.              *)
(*                                                                         *)
(* hyper runs every request as a task of its own, in which a panic ends    *)
(* the stream of that request and nothing else.                            *)
(***************************************************************************)
CONSTANT Call   \* requests at a time; a slot is used again

\* What a handler will do with a request, if it can be decoded at all.
Kinds == {"garbled", "panics when called", "panics when run", "hangs",
          "returns", "returns unserializable", "returns a problem"}

VARIABLES
  proc,    \* the process
  socket,  \* /run/app.sock: no file, a file nobody listens to, or a listener
  call,    \* where each request is
  kind,    \* what its handler does with it
  answer   \* what the worker makes of the answer

requests == <<call, kind, answer>>
vars == <<proc, socket, call, kind, answer>>

\* "error": a status, or a connection that broke; execute returns Err.
Answers == {"none", "success", "problem", "panic", "error"}

TypeOK ==
  /\ proc \in {"down", "init", "bind", "serve", "failed"}
  /\ socket \in {"none", "stale", "live"}
  /\ call \in [Call -> {"idle", "sent", "await", "answered"}]
  /\ kind \in [Call -> Kinds]
  /\ answer \in [Call -> Answers]

Init ==
  /\ proc = "down"
  /\ socket = "none"
  /\ call = [c \in Call |-> "idle"]
  /\ kind = [c \in Call |-> "garbled"]
  /\ answer = [c \in Call |-> "none"]

\* The process has been started and not ended.
Present == proc \in {"init", "bind", "serve"}

-----------------------------------------------------------------------------
(* start                                                                     *)

\* The container is started, for the first time or again (load_with_deps).
Launch ==
  /\ proc \in {"down", "failed"}
  /\ proc' = "init"
  /\ UNCHANGED <<socket, requests>>

\* Bug: the file that the last process has left stays.
ClearNothing ==
  /\ proc = "init"
  /\ proc' = "bind"
  /\ UNCHANGED <<socket, requests>>

ClearSocket ==
  /\ proc = "init"
  /\ proc' = "bind"
  /\ socket' = "none"
  /\ UNCHANGED requests

Bind ==
  /\ proc = "bind"
  /\ IF socket = "none"
     THEN socket' = "live" /\ proc' = "serve"
     ELSE proc' = "failed" /\ UNCHANGED socket
  /\ UNCHANGED requests

Open(c) == call[c] \in {"sent", "await"}

\* Every connection breaks.
Break ==
  /\ call' = [c \in Call |-> IF Open(c) THEN "answered" ELSE call[c]]
  /\ answer' = [c \in Call |-> IF Open(c) THEN "error" ELSE answer[c]]
  /\ UNCHANGED kind

\* The process ends or is killed: a listener does not remove its file.
Die ==
  /\ Present
  /\ proc' = "down"
  /\ socket' = IF socket = "live" THEN "stale" ELSE socket
  /\ Break

\* Container and bundle are deleted.
Remove ==
  /\ proc' = "down"
  /\ socket' = "none"
  /\ Break

-----------------------------------------------------------------------------
(* invoke, and what execute makes of its answer                              *)

\* wait_for_server_ready and connect have found a listener.
Invoke(c) ==
  /\ call[c] \in {"idle", "answered"} /\ socket = "live"
  /\ call' = [call EXCEPT ![c] = "sent"]
  /\ answer' = [answer EXCEPT ![c] = "none"]
  /\ \E k \in Kinds : kind' = [kind EXCEPT ![c] = k]
  /\ UNCHANGED <<proc, socket>>

Answer(c, a) ==
  /\ call' = [call EXCEPT ![c] = "answered"]
  /\ answer' = [answer EXCEPT ![c] = a]
  /\ UNCHANGED <<proc, socket, kind>>

\* Status::invalid_argument
Garbled(c) ==
  /\ call[c] = "sent" /\ kind[c] = "garbled"
  /\ Answer(c, "error")

\* "container/panic_triggered"
CatchPanic(c) ==
  /\ call[c] = "sent" /\ kind[c] = "panics when called"
  /\ Answer(c, "panic")

MakeFuture(c) ==
  /\ call[c] = "sent" /\ kind[c] \notin {"garbled", "panics when called"}
  /\ call' = [call EXCEPT ![c] = "await"]
  /\ UNCHANGED <<proc, socket, kind, answer>>

Return(c) ==
  /\ call[c] = "await" /\ kind[c] = "returns"
  /\ Answer(c, "success")

\* The handler's own problem, or "container/serialization_failed".
ReturnProblem(c) ==
  /\ call[c] = "await" /\ kind[c] \in {"returns unserializable", "returns a problem"}
  /\ Answer(c, "problem")

\* Bug: the future runs in a task of its own, and its answer is awaited from a channel
\* whose other end is kept.
PanicUnnoticed(c) ==
  /\ call[c] = "await" /\ kind[c] = "panics when run"
  /\ UNCHANGED vars

\* Not caught: the request's task unwinds, and its stream is reset.
PanicUncaught(c) ==
  /\ call[c] = "await" /\ kind[c] = "panics when run"
  /\ Answer(c, "error")

-----------------------------------------------------------------------------
StartStep == ClearSocket \/ Bind

InvokeStep(c) ==
  \/ Garbled(c) \/ CatchPanic(c) \/ MakeFuture(c) \/ Return(c)
  \/ ReturnProblem(c) \/ PanicUncaught(c)

Next ==
  \/ Launch \/ StartStep \/ Die \/ Remove
  \/ \E c \in Call : Invoke(c) \/ InvokeStep(c)

\* tokio runs what is ready; a process that was started runs.
Spec == Init /\ [][Next]_vars

Fairness == WF_vars(StartStep) /\ \A c \in Call : WF_vars(InvokeStep(c))

-----------------------------------------------------------------------------
\* However often a process is killed and started again in its bundle: it finds nothing
\* where it binds, so that the start never fails over what the last one has left; there
\* is a listener exactly as long as it serves; and no request outlives it unanswered.
SocketInv ==
  /\ proc = "bind" => socket = "none"
  /\ proc # "failed"
  /\ proc = "serve" <=> socket = "live"
  /\ \A c \in Call : Open(c) => proc = "serve"

\* A process that is started again in its bundle comes to serve, unless it ends, over
\* the socket file that the last one has left.
ServerComesUp == proc = "init" ~> proc \in {"serve", "down"}

\* The worker's call ends, with whatever answer, unless the handler itself hangs; the
\* worker's mutex is held for as long.
CallsAnswered ==
  \A c \in Call : call[c] = "sent" ~> call[c] = "answered" \/ kind[c] = "hangs"

\* "Call the handler safely, catching panics" (lib.rs:68): a panic of a handler is
\* answered as such while the process lives.
PanicsAnswered ==
  [][\A c \in Call :
       kind[c] \in {"panics when called", "panics when run"} /\ proc' = "serve"
         /\ answer[c] = "none" /\ answer'[c] # "none"
       => answer'[c] = "panic"]_vars

=============================================================================
