----------------------------- MODULE EventStream -----------------------------
(***************************************************************************)
(* _parse_event_stream of codex_review.py: the events that a provider      *)
(* printed, read one at a time.  An event that is malformed, reports an    *)
(* error or names a tool ends the parse and is not modelled otherwise; the *)
(* others differ by their kind.                                            *)
(***************************************************************************)
EXTENDS Naturals, Sequences

CONSTANT MaxEvents    \* bound: the events that are read

ASSUME EventsAssumption == MaxEvents \in Nat

VARIABLES
    threadSeen, turnStarted, turnCompleted, finalMessageSeen,
    events    \* history: the kinds of the events that were read

streamVars == <<threadSeen, turnStarted, turnCompleted, finalMessageSeen, events>>

NoStream ==
    /\ threadSeen = FALSE /\ turnStarted = FALSE
    /\ turnCompleted = FALSE /\ finalMessageSeen = FALSE
    /\ events = <<>>

Take(kind) == Len(events) < MaxEvents /\ events' = Append(events, kind)

ThreadStarted ==
    /\ Take("thread")
    /\ ~threadSeen /\ threadSeen' = TRUE
    /\ UNCHANGED <<turnStarted, turnCompleted, finalMessageSeen>>

\* Mutant of InTurn: the end of the turn is not looked at.
InThread == threadSeen

InTurn == threadSeen /\ ~turnCompleted

TurnStarted ==
    /\ Take("turn") /\ InTurn
    /\ ~turnStarted /\ ~finalMessageSeen
    /\ turnStarted' = TRUE
    /\ UNCHANGED <<threadSeen, turnCompleted, finalMessageSeen>>

TurnCompleted ==
    /\ Take("completed") /\ InTurn
    /\ turnStarted /\ finalMessageSeen
    /\ turnCompleted' = TRUE
    /\ UNCHANGED <<threadSeen, turnStarted, finalMessageSeen>>

\* An item that is started, or completed without being a message.
Progress ==
    /\ Take("progress") /\ InTurn
    /\ turnStarted /\ ~finalMessageSeen
    /\ UNCHANGED <<threadSeen, turnStarted, turnCompleted, finalMessageSeen>>

AgentMessage ==
    /\ Take("message") /\ InTurn
    /\ turnStarted /\ ~finalMessageSeen
    /\ finalMessageSeen' = TRUE
    /\ UNCHANGED <<threadSeen, turnStarted, turnCompleted>>

Event == ThreadStarted \/ TurnStarted \/ TurnCompleted \/ Progress \/ AgentMessage

\* The end of the output is one of a stream that is accepted.
StreamEnds == threadSeen /\ turnStarted /\ turnCompleted /\ finalMessageSeen

-----------------------------------------------------------------------------
(***************************************************************************)
(* One thread with one turn, any progress, and then one message, which is  *)
(* the last thing before the turn is over.                                 *)
(***************************************************************************)
OneWholeTurn ==
    \E n \in 0 .. MaxEvents :
        events = <<"thread", "turn">> \o [i \in 1 .. n |-> "progress"]
                    \o <<"message", "completed">>
=============================================================================
