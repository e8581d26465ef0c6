-------------------------- MODULE WorkerCallProofs --------------------------
(***************************************************************************)
(* What one call of the worker guarantees for every size of answer, pipe   *)
(* and timeout.                                                            *)
(***************************************************************************)
EXTENDS WorkerCall, TLAPS

LEMMA InitIInv == Init => IInv
<1> SUFFICES ASSUME Init PROVE IInv
  OBVIOUS
<1>1. valid \in BOOLEAN /\ reaped \in BOOLEAN
  BY Zenon DEF Init
<1>2. TypeOK
  BY <1>1, CallAssumption DEF Init, TypeOK
<1>3. PipeInv /\ PartiesInv
  BY DEF Init, PipeInv, PartiesInv
<1>4. AnswerIsWhole /\ ResultHasReason /\ NothingLeftRunning
  BY DEF Init, AnswerIsWhole, ResultHasReason, NothingLeftRunning
<1> QED BY <1>2, <1>3, <1>4 DEF IInv

(* The calling thread. *)
LEMMA ParentKeepsIInv == IInv /\ ParentStep => IInv'
<1> SUFFICES ASSUME IInv, ParentStep PROVE IInv'
  OBVIOUS
<1> USE CallAssumption DEF IInv, TypeOK, PipeInv, PartiesInv, AnswerIsWhole, ResultHasReason,
            NothingLeftRunning, childVars, Return
<1>1. CASE SpawnFails
  BY <1>1 DEF SpawnFails
<1>2. CASE Spawn
  BY <1>2 DEF Spawn
<1>3. CASE WriteRequest
  BY <1>3 DEF WriteRequest
<1>4. CASE WriteFails
  BY <1>4 DEF WriteFails
<1>5. CASE PollExited
  BY <1>5 DEF PollExited
<1>6. CASE PollRunning
  BY <1>6 DEF PollRunning
<1>7. CASE PollFails
  BY <1>7 DEF PollFails
<1>8. CASE TimeOut
  BY <1>8 DEF TimeOut
<1>9. CASE Sleep
  BY <1>9 DEF Sleep
<1>10. CASE Join
  BY <1>10 DEF Join
<1> QED
  BY <1>1, <1>2, <1>3, <1>4, <1>5, <1>6, <1>7, <1>8, <1>9, <1>10 DEF ParentStep

(* The reader thread. *)
LEMMA ReaderKeepsIInv == IInv /\ ReaderStep => IInv'
<1> SUFFICES ASSUME IInv, ReaderStep PROVE IInv'
  OBVIOUS
<1> USE CallAssumption DEF IInv, TypeOK, PipeInv, PartiesInv, AnswerIsWhole, ResultHasReason,
            NothingLeftRunning, childVars
<1>1. CASE ReaderTakes
  BY <1>1 DEF ReaderTakes
<1>2. CASE ReaderEnds
  BY <1>2 DEF ReaderEnds
<1> QED BY <1>1, <1>2 DEF ReaderStep

(* The child, and the clock. *)
LEMMA OthersKeepIInv == IInv /\ (ChildStep \/ ChildFails \/ Tick) => IInv'
<1> SUFFICES ASSUME IInv, ChildStep \/ ChildFails \/ Tick PROVE IInv'
  OBVIOUS
<1> USE CallAssumption DEF IInv, TypeOK, PipeInv, PartiesInv, AnswerIsWhole, ResultHasReason,
            NothingLeftRunning, childVars
<1>1. CASE ChildReads
  BY <1>1 DEF ChildReads
<1>2. CASE ChildComputes
  BY <1>2 DEF ChildComputes
<1>3. CASE ChildWrites
  BY <1>3 DEF ChildWrites
<1>4. CASE ChildExits
  BY <1>4 DEF ChildExits
<1>5. CASE ChildFails
  BY <1>5 DEF ChildFails
<1>6. CASE Tick
  BY <1>6 DEF Tick
<1> QED BY <1>1, <1>2, <1>3, <1>4, <1>5, <1>6 DEF ChildStep

(* The invariant of the run, for every size of answer, pipe and timeout.   *)
THEOREM WorkerCallInvariant == Spec => []IInv
<1>1. IInv /\ UNCHANGED vars => IInv'
  BY DEF vars, IInv, TypeOK, PipeInv, PartiesInv, AnswerIsWhole, ResultHasReason,
         NothingLeftRunning
<1>2. IInv /\ [Next]_vars => IInv'
  BY <1>1, ParentKeepsIInv, ReaderKeepsIInv, OthersKeepIInv DEF Next
<1> QED BY InitIInv, <1>2, PTL DEF Spec

(* Types: counters stay in range, parties in the states they can be in.    *)
THEOREM CallTypeOK == Spec => []TypeOK
BY WorkerCallInvariant, PTL DEF IInv

(* The answer handed back is all of what a worker that succeeded wrote.    *)
THEOREM AnswerAlwaysWhole == Spec => []AnswerIsWhole
BY WorkerCallInvariant, PTL DEF IInv

(* Undecided only after the timeout, an error only for a worker that       *)
(* failed.                                                                 *)
THEOREM ResultAlwaysHasReason == Spec => []ResultHasReason
BY WorkerCallInvariant, PTL DEF IInv

(* No call leaves a worker behind, unless waiting for it is what failed.   *)
THEOREM CallLeavesNothingRunning == Spec => []NothingLeftRunning
BY WorkerCallInvariant, PTL DEF IInv

-----------------------------------------------------------------------------
(* No two of the parties wait for each other: a full pipe always has a     *)
(* reader that takes from it, though the parent itself only polls, and who *)
(* waits for the end of the answer waits for a reader whose other end is   *)
(* closed (worker.rs, the thread that reads stdout).                       *)
NobodyWaitsInVain ==
  /\ child = "writing" /\ pipe = PipeCap => reader = "reading" /\ pipe > 0
  /\ parent = "join" => reader = "eof" \/ (reader = "reading" /\ child = "exited")

THEOREM NobodyEverWaitsInVain == Spec => []NobodyWaitsInVain
<1>1. IInv => NobodyWaitsInVain
  BY CallAssumption DEF IInv, TypeOK, PipeInv, PartiesInv, NobodyWaitsInVain
<1> QED BY <1>1, WorkerCallInvariant, PTL

(* What each party has still to do, were the clock stopped past the        *)
(* timeout: two steps for a chunk that is not written, one for each that   *)
(* has not been taken out.                                                 *)
ParentLeft ==
  CASE parent = "spawn" -> 5
    [] parent = "write" -> 4
    [] parent = "poll" -> 3
    [] parent = "deadline" -> 2
    [] parent = "join" -> 1
    [] OTHER -> 0

ReaderLeft ==
  CASE reader = "none" -> 2
    [] reader = "reading" -> 1
    [] OTHER -> 0

ChildLeft ==
  CASE child = "none" -> 4
    [] child = "starting" -> 3
    [] child = "computing" -> 2
    [] child = "writing" -> 1
    [] OTHER -> 0

StepsLeft == ParentLeft + ReaderLeft + ChildLeft + 2 * (Size - written) + pipe

OutOfTimeEnds ==
  elapsed > Timeout => /\ StepsLeft \in 0 .. (2 * Size + 11) /\ StepsLeft' \in Nat
                       /\ StepsLeft' < StepsLeft

LEMMA StepsAreLeft ==
  ASSUME IInv
  PROVE  /\ ParentLeft \in 0 .. 5 /\ ReaderLeft \in 0 .. 2 /\ ChildLeft \in 0 .. 4
         /\ written \in 0 .. Size /\ pipe \in Nat /\ pipe <= written
         /\ StepsLeft \in 0 .. (2 * Size + 11)
<1>1. ParentLeft \in 0 .. 5
  BY DEF ParentLeft
<1>2. ReaderLeft \in 0 .. 2
  BY DEF ReaderLeft
<1>3. ChildLeft \in 0 .. 4
  BY DEF ChildLeft
<1>4. written \in 0 .. Size /\ pipe \in Nat /\ pipe <= written /\ Size \in Nat
  BY CallAssumption DEF IInv, TypeOK, PipeInv
<1>5. StepsLeft \in 0 .. (2 * Size + 11)
  <2>1. PICK p \in 0 .. 5, r \in 0 .. 2, c \in 0 .. 4 : p = ParentLeft /\ r = ReaderLeft /\ c = ChildLeft
    BY <1>1, <1>2, <1>3
  <2>2. p + r + c + 2 * (Size - written) + pipe \in 0 .. (2 * Size + 11)
    BY <1>4
  <2> QED BY <2>1, <2>2 DEF StepsLeft
<1> QED BY <1>1, <1>2, <1>3, <1>4, <1>5

(* Twice what is not written and what is in the pipe, counted together.    *)
LEMMA SumFalls ==
  ASSUME NEW n \in Int, NEW p \in Int, NEW r \in Int, NEW c \in Int, NEW w \in Int, NEW y \in Int,
         NEW q \in Int, NEW t \in Int, NEW d \in Int, NEW v \in Int, NEW z \in Int,
         \/ q < p /\ t <= r /\ d <= c /\ v = w /\ z = y
         \/ q = p /\ t < r /\ d = c /\ v = w /\ z = y
         \/ q = p /\ t = r /\ d = c /\ v = w /\ z < y
         \/ q = p /\ t = r /\ d < c /\ v = w /\ z = y
         \/ q = p /\ t = r /\ d = c /\ v = w + 1 /\ z = y + 1
  PROVE  q + t + d + 2 * (n - v) + z < p + r + c + 2 * (n - w) + y
OBVIOUS

LEMMA SumIsNat ==
  ASSUME NEW n \in Nat, NEW p \in Nat, NEW r \in Nat, NEW c \in Nat, NEW w \in 0 .. n, NEW y \in Nat
  PROVE  p + r + c + 2 * (n - w) + y \in Nat
OBVIOUS

(* Which of the terms a step lowers.                                       *)
LEMMA StepCounts ==
  ASSUME IInv, IInv', Next, elapsed > Timeout
  PROVE  StepsLeft' < StepsLeft
<1>1. /\ ParentLeft \in Int /\ ReaderLeft \in Int /\ ChildLeft \in Int
      /\ written \in Int /\ pipe \in Int /\ Size \in Int
  <2>1. /\ ParentLeft \in 0 .. 5 /\ ReaderLeft \in 0 .. 2 /\ ChildLeft \in 0 .. 4
        /\ written \in 0 .. Size /\ pipe \in Nat
    BY StepsAreLeft
  <2> QED BY <2>1, CallAssumption
<1>2. /\ ParentLeft' \in Int /\ ReaderLeft' \in Int /\ ChildLeft' \in Int
      /\ written' \in Int /\ pipe' \in Int
  <2>1. ParentLeft' \in Int
    BY DEF ParentLeft
  <2>2. ReaderLeft' \in Int
    BY DEF ReaderLeft
  <2>3. ChildLeft' \in Int
    BY DEF ChildLeft
  <2>4. written' \in Int /\ pipe' \in Int
    BY CallAssumption DEF IInv, TypeOK
  <2> QED BY <2>1, <2>2, <2>3, <2>4
<1>3. elapsed \in Int /\ Timeout \in Int
  BY CallAssumption DEF IInv, TypeOK
<1>4. \/ /\ ParentLeft' < ParentLeft /\ ReaderLeft' <= ReaderLeft /\ ChildLeft' <= ChildLeft
         /\ written' = written /\ pipe' = pipe
      \/ /\ ParentLeft' = ParentLeft /\ ReaderLeft' < ReaderLeft /\ ChildLeft' = ChildLeft
         /\ written' = written /\ pipe' = pipe
      \/ /\ ParentLeft' = ParentLeft /\ ReaderLeft' = ReaderLeft /\ ChildLeft' = ChildLeft
         /\ written' = written /\ pipe' < pipe
      \/ /\ ParentLeft' = ParentLeft /\ ReaderLeft' = ReaderLeft /\ ChildLeft' < ChildLeft
         /\ written' = written /\ pipe' = pipe
      \/ /\ ParentLeft' = ParentLeft /\ ReaderLeft' = ReaderLeft /\ ChildLeft' = ChildLeft
         /\ written' = written + 1 /\ pipe' = pipe + 1
  <2>1. CASE ParentStep
    <3>1. written' = written /\ pipe' = pipe
      BY <2>1 DEF ParentStep, SpawnFails, Spawn, WriteRequest, WriteFails, PollExited, PollRunning,
                  PollFails, TimeOut, Sleep, Join, Return, childVars
    <3>2. \/ parent = "spawn" /\ parent' \in {"write", "returned"}
          \/ parent = "write" /\ parent' \in {"poll", "returned"}
          \/ parent = "poll" /\ parent' \in {"deadline", "join", "returned"}
          \/ parent \in {"deadline", "join"} /\ parent' = "returned"
      BY <1>3, <2>1 DEF ParentStep, SpawnFails, Spawn, WriteRequest, WriteFails, PollExited, PollRunning,
                        PollFails, TimeOut, Sleep, Join, Return
    <3>3. reader' = reader \/ (reader = "none" /\ reader' = "reading")
      BY <2>1 DEF ParentStep, SpawnFails, Spawn, WriteRequest, WriteFails, PollExited, PollRunning,
                  PollFails, TimeOut, Sleep, Join, Return, IInv, PartiesInv
    <3>4. child' = child \/ (child = "none" /\ child' = "starting") \/ child' = "exited"
      BY <2>1 DEF ParentStep, SpawnFails, Spawn, WriteRequest, WriteFails, PollExited, PollRunning,
                  PollFails, TimeOut, Sleep, Join, Return, childVars, IInv, PartiesInv
    <3>5. ParentLeft' < ParentLeft
      BY <3>2 DEF ParentLeft
    <3>6. ReaderLeft' <= ReaderLeft
      BY <1>1, <3>3 DEF ReaderLeft
    <3>7. ChildLeft' <= ChildLeft
      <4>1. CASE child' = child
        <5>1. ChildLeft' = ChildLeft
          BY <4>1 DEF ChildLeft
        <5> QED BY <1>1, <5>1
      <4>2. CASE child = "none" /\ child' = "starting"
        BY <4>2 DEF ChildLeft
      <4>3. CASE child' = "exited"
        <5>1. ChildLeft' = 0 /\ ChildLeft \in 0 .. 4
          BY <4>3 DEF ChildLeft
        <5> QED BY <5>1
      <4> QED BY <3>4, <4>1, <4>2, <4>3
    <3> QED BY <3>1, <3>5, <3>6, <3>7
  <2>2. CASE ReaderStep
    <3>1. parent' = parent /\ child' = child /\ written' = written
      BY <2>2 DEF ReaderStep, ReaderTakes, ReaderEnds, childVars
    <3>2. ParentLeft' = ParentLeft /\ ChildLeft' = ChildLeft
      BY <3>1 DEF ParentLeft, ChildLeft
    <3>3. \/ reader' = reader /\ pipe' = 0 /\ pipe > 0
          \/ reader = "reading" /\ reader' = "eof" /\ pipe' = pipe
      BY <2>2 DEF ReaderStep, ReaderTakes, ReaderEnds
    <3>4. CASE reader' = reader /\ pipe' = 0 /\ pipe > 0
      <4>1. ReaderLeft' = ReaderLeft
        BY <3>4 DEF ReaderLeft
      <4>2. pipe' < pipe
        BY <1>1, <3>4
      <4> QED BY <3>1, <3>2, <4>1, <4>2
    <3>5. CASE reader = "reading" /\ reader' = "eof" /\ pipe' = pipe
      <4>1. ReaderLeft' < ReaderLeft
        BY <3>5 DEF ReaderLeft
      <4> QED BY <3>1, <3>2, <3>5, <4>1
    <3> QED BY <3>3, <3>4, <3>5
  <2>3. CASE ChildStep \/ ChildFails
    <3>1. parent' = parent /\ reader' = reader
      BY <2>3 DEF ChildStep, ChildReads, ChildComputes, ChildWrites, ChildExits, ChildFails
    <3>2. ParentLeft' = ParentLeft /\ ReaderLeft' = ReaderLeft
      BY <3>1 DEF ParentLeft, ReaderLeft
    <3>3. \/ /\ \/ child = "starting" /\ child' \in {"computing", "exited"}
                \/ child = "computing" /\ child' \in {"writing", "exited"}
                \/ child = "writing" /\ child' = "exited"
             /\ pipe' = pipe /\ written' = written
          \/ child' = child /\ pipe' = pipe + 1 /\ written' = written + 1
      BY <2>3 DEF ChildStep, ChildReads, ChildComputes, ChildWrites, ChildExits, ChildFails
    <3>4. CASE child' = child /\ pipe' = pipe + 1 /\ written' = written + 1
      <4>1. ChildLeft' = ChildLeft
        BY <3>4 DEF ChildLeft
      <4> QED BY <3>2, <3>4, <4>1
    <3>5. CASE ~(child' = child /\ pipe' = pipe + 1 /\ written' = written + 1)
      <4>1. ChildLeft' < ChildLeft /\ pipe' = pipe /\ written' = written
        BY <3>3, <3>5 DEF ChildLeft
      <4> QED BY <3>2, <4>1
    <3> QED BY <3>4, <3>5
  <2>4. CASE Tick
    BY <1>3, <2>4 DEF Tick
  <2> QED BY <2>1, <2>2, <2>3, <2>4 DEF Next
<1>5. PICK n \in Int, p \in Int, r \in Int, c \in Int, w \in Int, y \in Int :
        n = Size /\ p = ParentLeft /\ r = ReaderLeft /\ c = ChildLeft /\ w = written /\ y = pipe
  BY <1>1
<1>6. PICK q \in Int, t \in Int, d \in Int, v \in Int, z \in Int :
        q = ParentLeft' /\ t = ReaderLeft' /\ d = ChildLeft' /\ v = written' /\ z = pipe'
  BY <1>2
<1>7. \/ q < p /\ t <= r /\ d <= c /\ v = w /\ z = y
      \/ q = p /\ t < r /\ d = c /\ v = w /\ z = y
      \/ q = p /\ t = r /\ d = c /\ v = w /\ z < y
      \/ q = p /\ t = r /\ d < c /\ v = w /\ z = y
      \/ q = p /\ t = r /\ d = c /\ v = w + 1 /\ z = y + 1
  BY <1>4, <1>5, <1>6
<1>8. q + t + d + 2 * (n - v) + z < p + r + c + 2 * (n - w) + y
  BY ONLY <1>7, SumFalls
<1>9. StepsLeft = p + r + c + 2 * (n - w) + y
  BY <1>5, Zenon DEF StepsLeft
<1>10. StepsLeft' = q + t + d + 2 * (n - v) + z
  BY <1>5, <1>6, Zenon DEF StepsLeft
<1> QED BY <1>8, <1>9, <1>10, Zenon

(* Whatever the worker does and whoever goes first: past the timeout, the  *)
(* parent, the reader and the worker together take at most 2 * Size + 11   *)
(* steps more (worker::call).                                              *)
THEOREM OutOfTimeAlwaysEnds == Spec => [][OutOfTimeEnds]_vars
<1>1. ASSUME IInv, IInv', [Next]_vars PROVE [OutOfTimeEnds]_vars
  <2>1. CASE Next
    <3>1. StepsLeft \in 0 .. (2 * Size + 11)
      BY <1>1, StepsAreLeft
    <3>2. StepsLeft' \in Nat
      <4>1. ParentLeft' \in Nat
        BY DEF ParentLeft
      <4>5. ReaderLeft' \in Nat
        BY DEF ReaderLeft
      <4>6. ChildLeft' \in Nat
        BY DEF ChildLeft
      <4>2. written' \in 0 .. Size /\ pipe' \in Nat /\ Size \in Nat
        BY <1>1, CallAssumption DEF IInv, TypeOK
      <4>3. PICK n \in Nat, p \in Nat, r \in Nat, c \in Nat, w \in 0 .. Size, y \in Nat :
              /\ n = Size /\ p = ParentLeft' /\ r = ReaderLeft' /\ c = ChildLeft'
              /\ w = written' /\ y = pipe'
        BY <4>1, <4>5, <4>6, <4>2
      <4>4. p + r + c + 2 * (n - w) + y \in Nat
        BY <4>3, SumIsNat
      <4>7. StepsLeft' = p + r + c + 2 * (n - w) + y
        BY <4>3, Zenon DEF StepsLeft
      <4> QED BY <4>4, <4>7
    <3> QED BY <1>1, <2>1, <3>1, <3>2, StepCounts DEF OutOfTimeEnds
  <2>2. CASE UNCHANGED vars
    BY <2>2
  <2> QED BY <1>1, <2>1, <2>2
<1> QED BY <1>1, WorkerCallInvariant, PTL DEF Spec
=============================================================================
