--------------------------- MODULE BoundedProcess ---------------------------
(***************************************************************************)
(* SubprocessExecutor._run of review_runtime.py: one child in a session of *)
(* its own, two threads that read its output under one aggregate limit, a  *)
(* thread that writes its input, and the caller, which waits, kills the    *)
(* process group at the time limit, joins the threads and judges.          *)
(*                                                                         *)
(* The child may leave descendants that hold its pipes open, in its        *)
(* process group or in a session of their own; it may be in a system call  *)
(* that no signal interrupts.  One unit of output stands for a chunk.      *)
(***************************************************************************)
EXTENDS Naturals

CONSTANTS
    Stdout, Stderr,
    Limit,       \* MAX_OUTPUT_BYTES
    MaxWritten   \* bound: what is ever written to one stream

ASSUME StreamsAssumption == Stdout # Stderr
ASSUME LimitAssumption == Limit \in Nat /\ MaxWritten \in Nat

Streams == {Stdout, Stderr}

VARIABLES
    child,      \* the child: "running", "killed" (but not dead yet), "ended"
    holders,    \* descendants with open pipes: in the "group", in a session "apart"
    written,    \* written[s]: what has been written to stream s
    taken,      \* taken[s]: what the reader of s has read
    hand,       \* hand[s]: read, but not accounted for
    kept,       \* kept[s]: the buffer
    reader,     \* reader[s]: where the thread is
    writer,     \* the thread that writes the input
    overflow,   \* the Event of this name
    stop,       \* stop_workers
    broken,     \* thread_errors is not empty
    main,       \* where the caller is
    timedOut, unreaped,   \* its local variables
    answer      \* its result

world == <<child, holders>>
threads == <<taken, hand, kept, reader, writer, overflow, broken>>
caller == <<stop, main, timedOut, unreaped, answer>>
processVars == <<world, written, threads, caller>>

\* Before a call, and again after one that returned its output.
Quiet ==
    /\ child = "ended" /\ holders = {}
    /\ written = [s \in Streams |-> 0]
    /\ taken = [s \in Streams |-> 0]
    /\ hand = [s \in Streams |-> 0]
    /\ kept = [s \in Streams |-> 0]
    /\ reader = [s \in Streams |-> "done"]
    /\ writer = "done"
    /\ overflow = FALSE /\ broken = FALSE /\ stop = FALSE
    /\ main = "idle"
    /\ timedOut = FALSE /\ unreaped = FALSE
    /\ answer = "none"

\* The pipes have a writer.
Open == child # "ended" \/ holders # {}

\* Popen, and the start of the three threads.
Begin ==
    /\ main = "idle" /\ main' = "waiting"
    /\ child' = "running" /\ holders' = {}
    /\ reader' = [s \in Streams |-> "reading"]
    /\ writer' = "writing"
    /\ UNCHANGED <<written, taken, hand, kept, overflow, broken,
                   stop, timedOut, unreaped, answer>>

\* Popen raises.
BeginFails ==
    /\ main = "idle" /\ main' = "answered"
    /\ answer' = "failed"
    /\ UNCHANGED <<world, written, threads, stop, timedOut, unreaped>>

\* killpg: SIGKILL to the group, which misses who has left it.
KillGroup ==
    /\ child' \in IF child = "running" THEN {"killed", "ended"} ELSE {child}
    /\ holders' = holders \ {"group"}

-----------------------------------------------------------------------------
(* The child and its descendants. *)

Write(s) ==
    /\ Open /\ written[s] < MaxWritten
    /\ written' = [written EXCEPT ![s] = @ + 1]
    /\ UNCHANGED <<world, threads, caller>>

Fork(where) ==
    /\ child = "running"
    /\ holders' = holders \cup {where}
    /\ UNCHANGED <<child, written, threads, caller>>

End ==
    /\ child # "ended"
    /\ child' = "ended"
    /\ UNCHANGED <<holders, written, threads, caller>>

HolderEnds(where) ==
    /\ where \in holders
    /\ holders' = holders \ {where}
    /\ UNCHANGED <<child, written, threads, caller>>

-----------------------------------------------------------------------------
(* read_bounded. *)

\* captured_bytes
Kept == kept[Stdout] + kept[Stderr]

ReaderAt(s, from, to) == reader[s] = from /\ reader' = [reader EXCEPT ![s] = to]

Read(s) ==
    /\ ReaderAt(s, "reading", "counting")
    /\ ~stop
    /\ \E n \in 1 .. written[s] - taken[s] :
          /\ taken' = [taken EXCEPT ![s] = @ + n]
          /\ hand' = [hand EXCEPT ![s] = n]
    /\ UNCHANGED <<world, written, kept, writer, overflow, broken, caller>>

ReadEnd(s) ==
    /\ ReaderAt(s, "reading", "done")
    /\ ~stop /\ taken[s] = written[s] /\ ~Open
    /\ UNCHANGED <<world, written, taken, hand, kept, writer, overflow, broken, caller>>

ReadStopped(s) ==
    /\ ReaderAt(s, "reading", "done")
    /\ stop
    /\ UNCHANGED <<world, written, taken, hand, kept, writer, overflow, broken, caller>>

\* Mutant of Count: each stream has a limit of its own.
CountPerStream(s) ==
    LET room == Limit - kept[s]
        accepted == IF hand[s] <= room THEN hand[s] ELSE room
    IN
    /\ ReaderAt(s, "counting", "checking")
    /\ kept' = [kept EXCEPT ![s] = @ + accepted]
    /\ overflow' = (overflow \/ accepted < hand[s])
    /\ hand' = [hand EXCEPT ![s] = 0]
    /\ UNCHANGED <<world, written, taken, writer, broken, caller>>

\* Under output_lock.
Count(s) ==
    LET room == Limit - Kept
        accepted == IF hand[s] <= room THEN hand[s] ELSE room
    IN
    /\ ReaderAt(s, "counting", "checking")
    /\ kept' = [kept EXCEPT ![s] = @ + accepted]
    /\ overflow' = (overflow \/ accepted < hand[s])
    /\ hand' = [hand EXCEPT ![s] = 0]
    /\ UNCHANGED <<world, written, taken, writer, broken, caller>>

ReadOn(s) ==
    /\ ReaderAt(s, "checking", "reading")
    /\ ~overflow
    /\ UNCHANGED <<world, written, taken, hand, kept, writer, overflow, broken, caller>>

GiveUp(s) ==
    /\ ReaderAt(s, "checking", "done")
    /\ overflow
    /\ KillGroup
    /\ UNCHANGED <<written, taken, hand, kept, writer, overflow, broken, caller>>

ReadFails(s) ==
    /\ ReaderAt(s, "reading", "done")
    /\ broken' = TRUE
    /\ KillGroup
    /\ UNCHANGED <<written, taken, hand, kept, writer, overflow, caller>>

Reader(s) == Read(s) \/ ReadEnd(s) \/ ReadStopped(s) \/ Count(s) \/ ReadOn(s) \/ GiveUp(s)

(***************************************************************************)
(* write_prompt.  The child takes its input or never does; a pipe without  *)
(* a reader breaks, which is no failure.                                   *)
(***************************************************************************)
Written ==
    /\ writer = "writing"
    /\ writer' = "done"
    /\ UNCHANGED <<world, written, taken, hand, kept, reader, overflow, broken, caller>>

InputTaken == Open /\ Written
WriteStops == (stop \/ ~Open) /\ Written

WriteFails ==
    /\ writer = "writing"
    /\ writer' = "done"
    /\ broken' = TRUE
    /\ KillGroup
    /\ UNCHANGED <<written, taken, hand, kept, reader, overflow, caller>>

Alive == writer = "writing" \/ \E s \in Streams : reader[s] # "done"

-----------------------------------------------------------------------------
(* The caller. *)

Return ==
    /\ main = "waiting" /\ child = "ended"
    /\ main' = "joining"
    /\ UNCHANGED <<world, written, threads, stop, timedOut, unreaped, answer>>

TimeOut ==
    /\ main = "waiting" /\ child # "ended"
    /\ timedOut' = TRUE
    /\ KillGroup
    /\ main' = "reaping"
    /\ UNCHANGED <<written, threads, stop, unreaped, answer>>

\* Five seconds for the killed child.
Reap ==
    /\ main = "reaping"
    /\ unreaped' = (child # "ended")
    /\ main' = "joining"
    /\ UNCHANGED <<world, written, threads, stop, timedOut, answer>>

\* Five seconds for the threads; then they are told to stop.
StopWorkers ==
    /\ main = "joining" /\ Alive
    /\ KillGroup
    /\ stop' = TRUE
    /\ main' = "stopping"
    /\ UNCHANGED <<written, threads, timedOut, unreaped, answer>>

\* Mutant of Judge: the threads are joined without a time limit.
JudgeJoined ==
    /\ main \in {"joining", "stopping"} /\ ~Alive
    /\ main' = "answered"
    /\ answer' = IF unreaped \/ timedOut \/ broken \/ overflow
                 THEN "failed" ELSE "output"
    /\ UNCHANGED <<world, written, threads, stop, timedOut, unreaped>>

\* The threads are joined, or another five seconds have passed.
Judge ==
    /\ main = "stopping" \/ (main = "joining" /\ ~Alive)
    /\ main' = "answered"
    /\ answer' = IF Alive \/ unreaped \/ timedOut \/ broken \/ overflow
                 THEN "failed" ELSE "output"
    /\ UNCHANGED <<world, written, threads, stop, timedOut, unreaped>>

Caller == Return \/ TimeOut \/ Reap \/ StopWorkers \/ Judge

Workers ==
    \/ \E s \in Streams : Reader(s) \/ ReadFails(s)
    \/ InputTaken \/ WriteStops \/ WriteFails

-----------------------------------------------------------------------------
(* Correctness. *)

(***************************************************************************)
(* An output that is returned is that of a child which ended by itself or  *)
(* was at least not killed by the time limit, and nothing that was read    *)
(* from it was dropped at the limit; if the threads were not told to stop, *)
(* it is all that was ever written.                                        *)
(***************************************************************************)
OutputIsWhole ==
    answer = "output" =>
        /\ child = "ended" /\ ~timedOut
        /\ Kept <= Limit
        /\ \A s \in Streams : kept[s] = taken[s]
        /\ ~stop => \A s \in Streams : kept[s] = written[s]
=============================================================================
