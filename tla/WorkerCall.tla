----------------------------- MODULE WorkerCall -----------------------------
(***************************************************************************)
(* One call of mulu-worker by the CLI (worker::call): the calling thread,  *)
(* the reader thread it starts, the child process, the pipe between them   *)
(* and the clock.  The child may answer, answer something that is not a    *)
(* response, fail, or compute for ever; it may do so at any time relative  *)
(* to the polls of the parent and to the timeout.                          *)
(*                                                                         *)
(* The answer is Size chunks, the pipe holds PipeCap of them.              *)
(***************************************************************************)
EXTENDS Integers

CONSTANTS
  Size,      \* chunks in a whole answer
  PipeCap,   \* chunks the stdout pipe holds
  Timeout    \* of the call, in ticks

ASSUME CallAssumption ==
  Size \in Nat \ {0} /\ PipeCap \in Nat \ {0} /\ Timeout \in Nat

VARIABLES
  parent,    \* "spawn", "write", "poll", "deadline", "join", "returned"
  reader,    \* "none", "reading", "eof"
  child,     \* "none", "starting", "computing", "writing", "exited"
  exit,      \* "none", "success", "failure", "killed"
  reaped,    \* the parent waited for the child
  written,   \* chunks the child has written
  valid,     \* whether what it writes is a response
  pipe,      \* chunks in the pipe
  got,       \* chunks the reader has taken out
  elapsed,   \* since the request was written
  result     \* "none", "answer", "partial", "error", "waitFailed"

vars == <<parent, reader, child, exit, reaped, written, valid, pipe, got, elapsed, result>>

childVars == <<child, exit, written>>

-----------------------------------------------------------------------------
Init ==
  /\ parent = "spawn" /\ reader = "none"
  /\ child = "none" /\ exit = "none" /\ reaped = FALSE
  /\ written = 0 /\ valid \in BOOLEAN
  /\ pipe = 0 /\ got = 0 /\ elapsed = 0
  /\ result = "none"

Return(r) == parent' = "returned" /\ result' = r

(* No worker binary, or it cannot be started. *)
SpawnFails ==
  /\ parent = "spawn"
  /\ Return("error")
  /\ UNCHANGED <<reader, childVars, reaped, valid, pipe, got, elapsed>>

Spawn ==
  /\ parent = "spawn"
  /\ parent' = "write"
  /\ child' = "starting"
  /\ UNCHANGED <<reader, exit, written, reaped, valid, pipe, got, elapsed, result>>

(* The request is written and stdin closed; then the clock starts and the  *)
(* reader thread is spawned.  A child that is gone already breaks the pipe *)
(* and the call ends without waiting for it.                               *)
WriteRequest ==
  /\ parent = "write" /\ child # "exited"
  /\ parent' = "poll"
  /\ reader' = "reading"
  /\ UNCHANGED <<childVars, reaped, valid, pipe, got, elapsed, result>>

WriteFails ==
  /\ parent = "write" /\ child = "exited"
  /\ Return("error")
  /\ UNCHANGED <<reader, childVars, reaped, valid, pipe, got, elapsed>>

(* try_wait: an exit that is seen is dealt with whatever the clock says.   *)
PollExited ==
  /\ parent = "poll" /\ child = "exited"
  /\ parent' = "join"
  /\ reaped' = TRUE
  /\ UNCHANGED <<reader, childVars, valid, pipe, got, elapsed, result>>

PollRunning ==
  /\ parent = "poll" /\ child # "exited"
  /\ parent' = "deadline"
  /\ UNCHANGED <<reader, childVars, reaped, valid, pipe, got, elapsed, result>>

(* try_wait itself fails, at any poll: the call ends at once, and nothing  *)
(* is done about the worker.                                               *)
PollFails ==
  /\ parent = "poll"
  /\ Return("waitFailed")
  /\ UNCHANGED <<reader, childVars, reaped, valid, pipe, got, elapsed>>

(* Faults: the worker is not killed, or the clock is not looked at. *)
TimeOutNoKill ==
  /\ parent = "deadline" /\ elapsed > Timeout
  /\ reaped' = TRUE
  /\ Return("partial")
  /\ UNCHANGED <<reader, childVars, written, valid, pipe, got, elapsed>>

TimeOutAnyTime ==
  /\ parent = "deadline"
  /\ child' = "exited"
  /\ exit' = IF child = "exited" THEN exit ELSE "killed"
  /\ reaped' = TRUE
  /\ Return("partial")
  /\ UNCHANGED <<reader, written, valid, pipe, got, elapsed>>

(* The child may have exited since the poll that did not see it exit: the  *)
(* kill is then a no-op and its answer is dropped.                         *)
TimeOut ==
  /\ parent = "deadline" /\ elapsed > Timeout
  /\ child' = "exited"
  /\ exit' = IF child = "exited" THEN exit ELSE "killed"
  /\ reaped' = TRUE
  /\ Return("partial")
  /\ UNCHANGED <<reader, written, valid, pipe, got, elapsed>>

(* Fault: polling goes on after the timeout. *)
SleepForEver ==
  /\ parent = "deadline"
  /\ parent' = "poll"
  /\ UNCHANGED <<reader, childVars, reaped, valid, pipe, got, elapsed, result>>

Sleep ==
  /\ parent = "deadline" /\ elapsed <= Timeout
  /\ parent' = "poll"
  /\ UNCHANGED <<reader, childVars, reaped, valid, pipe, got, elapsed, result>>

(* Fault: what was read so far is taken for the answer. *)
JoinAtOnce ==
  /\ parent = "join"
  /\ Return(IF exit = "success" /\ valid THEN "answer" ELSE "error")
  /\ UNCHANGED <<reader, childVars, reaped, valid, pipe, got, elapsed>>

Join ==
  /\ parent = "join" /\ reader = "eof"
  /\ Return(IF exit = "success" /\ valid THEN "answer" ELSE "error")
  /\ UNCHANGED <<reader, childVars, reaped, valid, pipe, got, elapsed>>

ParentStep ==
  \/ SpawnFails \/ Spawn \/ WriteRequest \/ WriteFails
  \/ PollExited \/ PollRunning \/ PollFails \/ TimeOut \/ Sleep \/ Join

-----------------------------------------------------------------------------
(* Fault: stdout is read once the worker has exited. *)
ReaderWaitsForExit ==
  /\ reader = "reading" /\ pipe > 0 /\ child = "exited"
  /\ got' = got + pipe /\ pipe' = 0
  /\ UNCHANGED <<parent, reader, childVars, reaped, valid, elapsed, result>>

(* read_to_string, on its own thread: it goes on after a timeout too. *)
ReaderTakes ==
  /\ reader = "reading" /\ pipe > 0
  /\ got' = got + pipe /\ pipe' = 0
  /\ UNCHANGED <<parent, reader, childVars, reaped, valid, elapsed, result>>

ReaderEnds ==
  /\ reader = "reading" /\ pipe = 0 /\ child = "exited"
  /\ reader' = "eof"
  /\ UNCHANGED <<parent, childVars, reaped, valid, pipe, got, elapsed, result>>

ReaderStep == ReaderTakes \/ ReaderEnds

-----------------------------------------------------------------------------
(* The worker reads stdin to its end, computes, prints, and exits with 0;  *)
(* an internal error ends it with another code at any point.               *)
ChildReads ==
  /\ child = "starting" /\ reader # "none"
  /\ child' = "computing"
  /\ UNCHANGED <<parent, reader, exit, written, reaped, valid, pipe, got, elapsed, result>>

ChildComputes ==
  /\ child = "computing"
  /\ child' = "writing"
  /\ UNCHANGED <<parent, reader, exit, written, reaped, valid, pipe, got, elapsed, result>>

ChildWrites ==
  /\ child = "writing" /\ written < Size /\ pipe < PipeCap
  /\ written' = written + 1 /\ pipe' = pipe + 1
  /\ UNCHANGED <<parent, reader, child, exit, reaped, valid, got, elapsed, result>>

ChildExits ==
  /\ child = "writing" /\ written = Size
  /\ child' = "exited" /\ exit' = "success"
  /\ UNCHANGED <<parent, reader, written, reaped, valid, pipe, got, elapsed, result>>

ChildFails ==
  /\ child \in {"starting", "computing", "writing"}
  /\ child' = "exited" /\ exit' = "failure"
  /\ UNCHANGED <<parent, reader, written, reaped, valid, pipe, got, elapsed, result>>

ChildStep == ChildReads \/ ChildComputes \/ ChildWrites \/ ChildExits

(* Time is only looked at until it is past the timeout. *)
Tick ==
  /\ reader # "none" /\ parent # "returned" /\ elapsed <= Timeout
  /\ elapsed' = elapsed + 1
  /\ UNCHANGED <<parent, reader, childVars, reaped, valid, pipe, got, result>>

Next == ParentStep \/ ReaderStep \/ ChildStep \/ ChildFails \/ Tick

Spec == Init /\ [][Next]_vars

(* The two threads of the CLI are scheduled; nothing is asked of the child *)
(* or of the clock.                                                        *)
FairSpec == Spec /\ WF_vars(ParentStep) /\ WF_vars(ReaderStep)

-----------------------------------------------------------------------------
TypeOK ==
  /\ parent \in {"spawn", "write", "poll", "deadline", "join", "returned"}
  /\ reader \in {"none", "reading", "eof"}
  /\ child \in {"none", "starting", "computing", "writing", "exited"}
  /\ exit \in {"none", "success", "failure", "killed"}
  /\ reaped \in BOOLEAN /\ valid \in BOOLEAN
  /\ written \in 0 .. Size /\ got \in 0 .. Size
  /\ pipe \in 0 .. PipeCap
  /\ elapsed \in 0 .. (Timeout + 1)
  /\ result \in {"none", "answer", "partial", "error", "waitFailed"}

(* An answer is the whole of what a successful worker printed: the join    *)
(* waits for the last chunk, and a killed or failed worker's half of an    *)
(* answer is never parsed.                                                 *)
AnswerIsWhole == result = "answer" => got = Size /\ exit = "success"

(* What is returned has its reason: undecided only when time was up, a     *)
(* kill only ever reported as undecided, and an error after the request    *)
(* was sent only for a worker that failed or did not write a response.     *)
ResultHasReason ==
  /\ result = "partial" => elapsed > Timeout
  /\ exit = "killed" => result = "partial"
  /\ result = "error" /\ reader # "none" => exit = "failure" \/ ~ valid

(* However the call ends, no worker is left computing, and one that was    *)
(* sent its request has been waited for.  The one exception is a wait that *)
(* the system itself refuses (worker.rs:97).                               *)
NothingLeftRunning ==
  result \notin {"none", "waitFailed"} =>
    /\ child \in {"none", "exited"}
    /\ reader # "none" => reaped

(* Once time passes the call returns, whatever the worker does. *)
CallReturns == WF_vars(Tick) => <>(result # "none")

(* A worker that goes on working is answered for, or out of time: an       *)
(* answer larger than the pipe never leaves both sides waiting.            *)
WorkerNeverStuck == WF_vars(ChildStep) => <>(result # "none" \/ elapsed > Timeout)

(* What the three rest on: chunks are neither lost nor repeated, the end   *)
(* of the answer is only seen after the exit, and which parties exist at   *)
(* each point of the parent.                                               *)
PipeInv ==
  /\ written = got + pipe
  /\ child \in {"none", "starting", "computing"} => written = 0
  /\ child = "exited" <=> exit # "none"
  /\ exit = "success" => written = Size
  /\ reader = "eof" => child = "exited" /\ pipe = 0

PartiesInv ==
  /\ parent = "spawn" => child = "none"
  /\ child = "none" => parent \in {"spawn", "returned"}
  /\ parent \in {"spawn", "write"} => reader = "none"
  /\ reader = "none" => parent \in {"spawn", "write", "returned"} /\ written = 0
  /\ child \in {"computing", "writing"} => reader # "none"
  /\ parent = "join" => child = "exited" /\ reaped
  /\ parent = "returned" <=> result # "none"

IInv == TypeOK /\ PipeInv /\ PartiesInv
        /\ AnswerIsWhole /\ ResultHasReason /\ NothingLeftRunning
=============================================================================
