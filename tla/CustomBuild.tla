---------------------------- MODULE CustomBuild ----------------------------
(***************************************************************************)
(* CustomBuild::build (services/cli push/custom.rs) and what push::run     *)
(* does around it: a temporary directory, a shell that runs the script of  *)
(* Nocti.toml, and a task that walks the directory into a tar.             *)
(*                                                                         *)
(* The script consists of jobs, each of which writes one file.  Some run   *)
(* in processes of their own, and of these the shell waits for some before *)
(* it exits.  The command waits for the shell alone, until the timeout,    *)
(* which kills the shell alone.  The shell's status is taken to be honest: *)
(* it reports success only if what it has done or waited for has succeeded.*)
(***************************************************************************)
CONSTANTS
  Push,        \* runs of the command at a time; one that has ended is reused
  Job,         \* what the script does: each job writes a file
  Background,  \* the jobs it starts as processes of their own
  Awaited      \* those of them the shell waits for

VARIABLES
  step,      \* where each command is
  shell,     \* its shell, or the status it has left to the command
  running,   \* the background jobs that are still there
  output,    \* the files in its temporary directory, as long as it has one
  unread,    \* the files the tar task has not come to
  archived   \* what there is of each in the archive

vars == <<step, shell, running, output, unread, archived>>

File  == {"none", "part", "whole"}

\* A file in the archive: its header alone so far, or a content that is not as long as the
\* header says, or what a reader of the archive finds.
Entry == File \cup {"header", "skewed"}

Empty == [j \in Job |-> "none"]

TypeOK ==
  /\ step \in [Push -> {"idle", "prepare", "script", "inspect", "tar", "sent"}]
  /\ shell \in [Push -> {"none", "runs", "ok", "failed"}]
  /\ running \in [Push -> SUBSET Background]
  /\ output \in [Push -> [Job -> File]]
  /\ unread \in [Push -> SUBSET Job]
  /\ archived \in [Push -> [Job -> Entry]]

Init ==
  /\ step = [p \in Push |-> "idle"]
  /\ shell = [p \in Push |-> "none"]
  /\ running = [p \in Push |-> {}]
  /\ output = [p \in Push |-> Empty]
  /\ unread = [p \in Push |-> {}]
  /\ archived = [p \in Push |-> Empty]

Goto(p, from, to) ==
  /\ step[p] = from
  /\ step' = [step EXCEPT ![p] = to]

\* TempDir is dropped: remove_dir_all, whose error is ignored.  What a process that goes
\* on creates beside it is left over, in a place that is nobody's from then on.
DropTempDir(p) == output' = [output EXCEPT ![p] = Empty]

\* The tar task, if there is one, ends without an archive.
DropTar(p) ==
  /\ unread' = [unread EXCEPT ![p] = {}]
  /\ archived' = [archived EXCEPT ![p] = Empty]

\* build returns Err and with it push::run.
Fail(p) ==
  /\ step' = [step EXCEPT ![p] = "idle"]
  /\ DropTempDir(p)
  /\ DropTar(p)
  /\ UNCHANGED running

-----------------------------------------------------------------------------
(* The command.  *)

\* The temporary directory has a name of its own; a slot is used again when nothing
\* of its last script is left.
Begin(p) ==
  /\ Goto(p, "idle", "prepare")
  /\ shell[p] = "none" /\ running[p] = {}
  /\ UNCHANGED <<shell, running, output, unread, archived>>

\* No script, no timeout, no project or no working directory; or no shell.
PrepareFails(p) ==
  /\ step[p] = "prepare"
  /\ Fail(p)
  /\ UNCHANGED shell

Spawn(p) ==
  /\ Goto(p, "prepare", "script")
  /\ shell' = [shell EXCEPT ![p] = "runs"]
  /\ running' = [running EXCEPT ![p] = Background]
  /\ UNCHANGED <<output, unread, archived>>

\* Bug: the status of the shell is not looked at.
AnyStatus(p) ==
  /\ Goto(p, "script", "inspect")
  /\ shell[p] \in {"ok", "failed"}
  /\ shell' = [shell EXCEPT ![p] = "none"]
  /\ UNCHANGED <<running, output, unread, archived>>

ScriptOk(p) ==
  /\ Goto(p, "script", "inspect")
  /\ shell[p] = "ok"
  /\ shell' = [shell EXCEPT ![p] = "none"]
  /\ UNCHANGED <<running, output, unread, archived>>

\* "Build script failed with exit code"
ScriptFailed(p) ==
  /\ step[p] = "script" /\ shell[p] = "failed"
  /\ shell' = [shell EXCEPT ![p] = "none"]
  /\ Fail(p)

\* Bug: the output of the script is read through a pipe, which ends with the last
\* process that holds it, and the timeout is around the wait for the shell alone.
TimeOutWithPipe(p) ==
  /\ step[p] = "script" /\ shell[p] = "runs"
  /\ running[p] = {}
  /\ shell' = [shell EXCEPT ![p] = "none"]
  /\ Fail(p)

\* "Build script timed out": dropping the child kills the shell, and only that.
TimeOut(p) ==
  /\ step[p] = "script" /\ shell[p] = "runs"
  /\ shell' = [shell EXCEPT ![p] = "none"]
  /\ Fail(p)

\* Bug: the task has the path only, and the directory goes with push::run's TempDir.
InspectAndDrop(p) ==
  /\ Goto(p, "inspect", "tar")
  /\ unread' = [unread EXCEPT ![p] = Job]
  /\ DropTempDir(p)
  /\ UNCHANGED <<shell, running, archived>>

\* An empty directory is only warned of.  The tar task is spawned, and owns TempDir.
Inspect(p) ==
  /\ Goto(p, "inspect", "tar")
  /\ unread' = [unread EXCEPT ![p] = Job]
  /\ UNCHANGED <<shell, running, output, archived>>

\* "Failed to read output directory"
InspectFails(p) ==
  /\ step[p] = "inspect"
  /\ Fail(p)
  /\ UNCHANGED shell

(* append_dir_all, of tokio-tar.  It lists the directory; then it opens and measures one   *)
(* file after the other, writes the length into a header, and copies the file to its end,  *)
(* however long it is by then.  Nobody compares the two.                                   *)

\* Not there when the directory was listed.
PassBy(p, j) ==
  /\ step[p] = "tar" /\ j \in unread[p]
  /\ output[p][j] = "none" /\ archived[p][j] = "none"
  /\ unread' = [unread EXCEPT ![p] = @ \ {j}]
  /\ UNCHANGED <<step, shell, running, output, archived>>

AddHeader(p, j) ==
  /\ step[p] = "tar" /\ j \in unread[p]
  /\ output[p][j] # "none"
  /\ \A k \in unread[p] : archived[p][k] = "none"
  /\ archived' = [archived EXCEPT ![p][j] = "header"]
  /\ UNCHANGED <<step, shell, running, output, unread>>

\* An entry that is done is longer or shorter than its header says.
Skewed(p) == \E k \in Job \ unread[p] : archived[p][k] = "skewed"

\* The reader of an archive goes from header to header by the lengths in them: from a
\* skewed entry on it may pass over others, or take their bytes for zeros and stop.
AddContent(p, j) ==
  /\ step[p] = "tar" /\ j \in unread[p]
  /\ archived[p][j] \in {"header", "skewed"}
  /\ unread' = [unread EXCEPT ![p] = @ \ {j}]
  /\ \/ /\ archived[p][j] = "header"
        /\ archived' = [archived EXCEPT ![p][j] = output[p][j]]
     \/ archived[p][j] = "skewed" /\ UNCHANGED archived
     \/ Skewed(p) /\ archived' = [archived EXCEPT ![p][j] = "none"]
  /\ UNCHANGED <<step, shell, running, output>>

TarDone(p) ==
  /\ Goto(p, "tar", "sent")
  /\ unread[p] = {}
  /\ DropTempDir(p)
  /\ UNCHANGED <<shell, running, unread, archived>>

TarFails(p) ==
  /\ step[p] = "tar"
  /\ Fail(p)
  /\ UNCHANGED shell

\* push::run returns: the registry has answered and the name is set, or not.
Return(p) ==
  /\ Goto(p, "sent", "idle")
  /\ DropTar(p)
  /\ UNCHANGED <<shell, running, output>>

\* Killed: no destructor runs, and what it has started goes on, in a directory that is
\* nobody's either.
CommandDies(p) ==
  /\ step[p] \in {"prepare", "script", "inspect", "tar"}
  /\ step' = [step EXCEPT ![p] = "idle"]
  /\ DropTar(p)
  /\ shell' = [shell EXCEPT ![p] = IF @ = "runs" THEN "runs" ELSE "none"]
  /\ DropTempDir(p)
  /\ UNCHANGED running

-----------------------------------------------------------------------------
(* The script.  *)

Alive(p, j) == IF j \in Background THEN j \in running[p] ELSE shell[p] = "runs"

\* A job writes its own file, and may write it anew.  Between header and content this
\* may change the length of the file, or bring it back to what it was.
Write(p, j) ==
  /\ Alive(p, j) /\ step[p] \in {"script", "inspect", "tar"}
  /\ \E data \in {"part", "whole"} : output' = [output EXCEPT ![p][j] = data]
  /\ IF j \in unread[p] /\ archived[p][j] \in {"header", "skewed"}
       THEN \E e \in {"header", "skewed"} : archived' = [archived EXCEPT ![p][j] = e]
       ELSE UNCHANGED archived
  /\ UNCHANGED <<step, shell, running, unread>>

\* Done, failed, or without its directory.
JobEnds(p, j) ==
  /\ j \in running[p]
  /\ running' = [running EXCEPT ![p] = @ \ {j}]
  /\ UNCHANGED <<step, shell, output, unread, archived>>

\* The jobs the shell answers for.
Answered == Job \ (Background \ Awaited)

\* Its status is for the command, if there still is one that waits.
Exit(p, status) ==
  shell' = [shell EXCEPT ![p] = IF step[p] = "script" THEN status ELSE "none"]

ShellSucceeds(p) ==
  /\ shell[p] = "runs"
  /\ running[p] \cap Awaited = {}
  /\ \A j \in Answered : output[p][j] = "whole"
  /\ Exit(p, "ok")
  /\ UNCHANGED <<step, running, output, unread, archived>>

ShellFails(p) ==
  /\ shell[p] = "runs"
  /\ Exit(p, "failed")
  /\ UNCHANGED <<step, running, output, unread, archived>>

-----------------------------------------------------------------------------
\* From the directory to the tar task, what the command does by itself.
BuildStep(p) ==
  \/ PrepareFails(p) \/ Spawn(p) \/ ScriptOk(p) \/ ScriptFailed(p) \/ TimeOut(p)
  \/ InspectFails(p) \/ \E j \in Job : PassBy(p, j) \/ AddHeader(p, j) \/ AddContent(p, j)

ScriptStep(p) ==
  \/ \E j \in Job : Write(p, j) \/ JobEnds(p, j)
  \/ ShellSucceeds(p) \/ ShellFails(p)

\* What the rest of push::run takes part in.
PushStep(p) == Inspect(p) \/ TarDone(p) \/ TarFails(p) \/ Return(p)

Next ==
  \E p \in Push :
    Begin(p) \/ BuildStep(p) \/ ScriptStep(p) \/ PushStep(p) \/ CommandDies(p)

Spec == Init /\ [][Next]_vars

-----------------------------------------------------------------------------
\* What a reader finds in an archive is the whole of every file that the script answers
\* for, but for one reason: a file that it does not answer for has changed its length
\* between its header and its content.
Holds(f) ==
  \/ \A j \in Answered : f[j] = "whole"
  \/ \E k \in Job \ Answered : f[k] = "skewed"

\* A tar that is sent off without an error holds what the script answers for, as far as
\* its files keep still: processes of the script that the command knows nothing of may
\* go on beside the walk, and harm it by changing the length of a file of theirs that is
\* being read, but in no other way; and what a script that failed or ran out of time
\* leaves behind is never sent.
SentComplete == \A p \in Push : step[p] = "sent" => Holds(archived[p])

-----------------------------------------------------------------------------
(* Why: nothing touches an answered file from the shell's success to the end  *)
(* of the walk, so its own header fits, and it is found where the ones before *)
(* it fit too.                                                                *)

Ready(p) ==
  /\ running[p] \cap Awaited = {}
  /\ \A j \in Answered : output[p][j] = "whole"

WalkInv ==
  \A p \in Push :
    /\ step[p] = "script" /\ shell[p] = "ok" => Ready(p)
    /\ step[p] \in {"inspect", "tar"} => shell[p] = "none" /\ Ready(p)
    /\ step[p] \in {"tar", "sent"} =>
         \A j \in Answered :
           /\ archived[p][j] # "skewed"
           /\ j \notin unread[p] /\ ~Skewed(p) => archived[p][j] = "whole"
    /\ step[p] \notin {"tar", "sent"} => archived[p] = Empty
    /\ step[p] = "sent" => unread[p] = {}

WalkInductive == TypeOK /\ WalkInv

=============================================================================
