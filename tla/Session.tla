------------------------------ MODULE Session ------------------------------
(***************************************************************************)
(* The WebSocket session and the commands that come in on it (ws_client.py *)
(* and commands.py): hello, the commands sent again after it, the ack and  *)
(* the result of each, a memory of outcomes that is as long as the process *)
(* lives, and connections that end between any two of these.               *)
(*                                                                         *)
(* The session is one task: whoever handles a message has it to the end,   *)
(* although the socket may be dead long before.  Config, schedule and      *)
(* acknowledgement messages are ScheduleSync's, ConfigSync's and           *)
(* UnitSync's subject.                                                     *)
(***************************************************************************)
EXTENDS Integers, Sequences, FiniteSets

CONSTANTS
    CommandIds,         \* commands, numbers that grow
    Asks(_),            \* "switch", "set" or "restart"
    PROCESSED_HISTORY,  \* outcomes that are remembered
    MaxDrops,           \* bound: connections that break
    MaxDeaths           \* bound: deaths of the process

ASSUME SessionAssumption ==
    CommandIds \subseteq Nat /\ PROCESSED_HISTORY \in Nat \ {0}

VARIABLES
    queued,     \* commands the cloud has queued
    heard,      \* what the cloud has heard of each
    link,       \* "down", "up", or "dead": gone, and the device does not know
    inbox,      \* messages on their way to the device
    outbox,     \* messages on their way to the cloud
    phase,      \* of the session task: "none", "hello", "open"
    job,        \* the message it is handling
    processed,  \* CommandExecutor._processed, oldest first
    reconnect,  \* state.ws_reconnect_requested
    acted,      \* commands acted on since the process started
    drops, deaths

cloudVars   == <<queued, heard>>
wireVars    == <<link, inbox, outbox>>
deviceVars  == <<phase, job, processed, reconnect, acted>>
sessionVars == <<cloudVars, wireVars, deviceVars, drops, deaths>>

NotYet   == "not yet"
Outcomes == {"executed", "failed", "expired"}
Idle     == [pc |-> "idle", c |-> 0, late |-> FALSE]
Hello    == [type |-> "hello", c |-> 0, status |-> NotYet]
HelloAck == [type |-> "hello_ack", c |-> 0, late |-> FALSE]
Unanswered == {c \in queued : heard[c] = NotYet}

SessionInit ==
    /\ queued = {} /\ heard = [c \in CommandIds |-> NotYet]
    /\ link = "down" /\ inbox = <<>> /\ outbox = <<>>
    /\ phase = "none" /\ job = Idle /\ processed = <<>> /\ reconnect = FALSE
    /\ acted = {} /\ drops = 0 /\ deaths = 0

(* ------------------------------- the cloud ----------------------------- *)

(* A new command, pushed at once to a device that is online.  Behind the   *)
(* oldest that waits come fewer than half of what the device remembers, 64 *)
(* outcomes: it may be handled before the ones that waited longer.         *)
QueueCommand(c) ==
    /\ c \notin queued /\ \A d \in CommandIds : d < c => d \in queued
    /\ \A d \in Unanswered : 2 * (c - d) < PROCESSED_HISTORY
    /\ queued' = queued \cup {c}
    /\ inbox' = IF link = "up" THEN Append(inbox, [type |-> "execute", c |-> c, late |-> FALSE])
                ELSE inbox
    /\ UNCHANGED <<heard, link, outbox, deviceVars, drops, deaths>>

Ordered(S) ==
    {s \in [1..Cardinality(S) -> S] : \A i, j \in DOMAIN s : i < j => s[i] < s[j]}

(* The answer to hello, and behind it every command that is still open,    *)
(* pushed already or not; one that waited may have expired on the way.     *)
AnswerHello ==
    /\ link = "up" /\ outbox # <<>> /\ Head(outbox).type = "hello"
    /\ outbox' = Tail(outbox)
    /\ \E late \in BOOLEAN, open \in Ordered(Unanswered) :
          inbox' = Append(inbox, HelloAck)
                     \o [i \in DOMAIN open |->
                           [type |-> "execute", c |-> open[i], late |-> late]]
    /\ UNCHANGED <<cloudVars, link, deviceVars, drops, deaths>>

HearDevice ==
    /\ link = "up" /\ outbox # <<>> /\ Head(outbox).type \in {"ack", "result"}
    /\ outbox' = Tail(outbox)
    /\ heard' = IF Head(outbox).type = "result" /\ heard[Head(outbox).c] = NotYet
                THEN [heard EXCEPT ![Head(outbox).c] = Head(outbox).status] ELSE heard
    /\ UNCHANGED <<queued, link, inbox, deviceVars, drops, deaths>>

(* ------------------------------ the session ---------------------------- *)

(* The end of a session, however it came about: what was under way in      *)
(* either direction is gone.                                               *)
EndSession ==
    /\ phase' = "none" /\ job' = Idle
    /\ link' = "down" /\ inbox' = <<>> /\ outbox' = <<>>

(* Hello is the first message of a connection.                             *)
OpenSession ==
    /\ phase = "none" /\ link = "down"
    /\ phase' = "hello" /\ link' = "up" /\ outbox' = <<Hello>>
    /\ UNCHANGED <<cloudVars, inbox, job, processed, reconnect, acted, drops, deaths>>

LinkBreaks ==
    /\ link = "up" /\ drops < MaxDrops /\ drops' = drops + 1
    /\ link' = "dead" /\ inbox' = <<>> /\ outbox' = <<>>
    /\ UNCHANGED <<cloudVars, deviceVars, deaths>>

(* A receive that fails, or hello left without an answer for 30 s.         *)
ReceiveFails ==
    /\ phase # "none" /\ job = Idle /\ link = "dead"
    /\ EndSession
    /\ UNCHANGED <<cloudVars, processed, reconnect, acted, drops, deaths>>

(* _perform_hello(): commands may come before the ack, and are handled.    *)
TakeHelloAck ==
    /\ phase = "hello" /\ job = Idle /\ inbox # <<>> /\ Head(inbox).type = "hello_ack"
    /\ phase' = "open" /\ inbox' = Tail(inbox)
    /\ UNCHANGED <<cloudVars, link, outbox, job, processed, reconnect, acted, drops, deaths>>

Listening == phase = "hello" \/ (phase = "open" /\ ~reconnect)

(* A slip for TakenUp: the event stays set.                                *)
LeftSet(flag) == flag

(* Once the listen loop has seen the request it is not made again.         *)
TakenUp(flag) == FALSE

(* _listen_loop(): a requested reconnect is looked at between messages.    *)
Reconnect ==
    /\ phase = "open" /\ job = Idle /\ reconnect
    /\ reconnect' = TakenUp(reconnect)
    /\ EndSession
    /\ UNCHANGED <<cloudVars, processed, acted, drops, deaths>>

(* ------------------------------ the commands --------------------------- *)

Remembered(c) == \E i \in DOMAIN processed : processed[i].c = c
Outcome(c)    == processed[CHOOSE i \in DOMAIN processed : processed[i].c = c].status

(* A slip for Previous: only what succeeded is replayed.                   *)
PreviousIfExecuted(c) == Remembered(c) /\ Outcome(c) = "executed"

(* previous_outcome(): whether the command was handled in this life.       *)
Previous(c) == Remembered(c)

TakeCommand ==
    /\ Listening /\ job = Idle /\ inbox # <<>> /\ Head(inbox).type = "execute"
    /\ inbox' = Tail(inbox)
    /\ job' = [pc |-> IF Previous(Head(inbox).c) THEN "replay" ELSE "ack",
               c |-> Head(inbox).c, late |-> Head(inbox).late]
    /\ UNCHANGED <<cloudVars, link, outbox, phase, processed, reconnect, acted, drops, deaths>>

(* A send that fails ends the session, with the command where it was.      *)
Send(message, next) ==
    /\ UNCHANGED <<cloudVars, processed, reconnect, acted, drops, deaths>>
    /\ IF link = "dead" THEN EndSession
       ELSE /\ outbox' = Append(outbox, message)
            /\ job' = next
            /\ UNCHANGED <<link, inbox, phase>>

Ack == [type |-> "ack", c |-> job.c, status |-> NotYet]
Result(status) == [type |-> "result", c |-> job.c, status |-> status]

SendAck    == job.pc = "ack"    /\ Send(Ack, [job EXCEPT !.pc = "begin"])
ReplayAck  == job.pc = "replay" /\ Send(Ack, [job EXCEPT !.pc = "result"])
SendResult == job.pc = "result" /\ Send(Result(Outcome(job.c)), Idle)

(* _remember(): the newest outcome in, the oldest out.                     *)
Remember(status) ==
    LET kept == Append(processed, [c |-> job.c, status |-> status])
    IN  processed' = IF Len(kept) > PROCESSED_HISTORY THEN Tail(kept) ELSE kept

Settle(status) ==
    /\ Remember(status)
    /\ job' = [job EXCEPT !.pc = "result"]
    /\ UNCHANGED <<cloudVars, wireVars, phase, drops, deaths>>

Expire ==
    /\ job.pc = "begin" /\ job.late
    /\ Settle("expired") /\ UNCHANGED <<acted, reconnect>>

(* A unit that is missing or not mapped, a mode or a setpoint that is not  *)
(* one, a name that is not known, and a limit that keeps the unit off.     *)
Refuse ==
    /\ job.pc = "begin" /\ ~job.late /\ Asks(job.c) # "restart"
    /\ Settle("failed") /\ UNCHANGED <<acted, reconnect>>

(* _switch_target(): a thread is asked, whose answer is awaited.           *)
BeginSwitch ==
    /\ job.pc = "begin" /\ ~job.late /\ Asks(job.c) = "switch"
    /\ job' = [job EXCEPT !.pc = "write"]
    /\ UNCHANGED <<cloudVars, wireVars, phase, processed, reconnect, acted, drops, deaths>>

WriteRelay ==
    /\ job.pc = "write"
    /\ \/ Settle("executed") /\ acted' = acted \cup {job.c}
       \/ Settle("failed") /\ UNCHANGED acted
    /\ UNCHANGED reconnect

(* _set_mode() and _set_temperature(): taken in memory.                    *)
SetUnit ==
    /\ job.pc = "begin" /\ ~job.late /\ Asks(job.c) = "set"
    /\ Settle("executed") /\ acted' = acted \cup {job.c}
    /\ UNCHANGED reconnect

(* _restart_service(): the mapping is loaded again; if that goes well the  *)
(* session is to be opened anew, after the result has been sent.           *)
RestartService ==
    /\ job.pc = "begin" /\ ~job.late /\ Asks(job.c) = "restart"
    /\ \/ Settle("executed") /\ acted' = acted \cup {job.c} /\ reconnect' = TRUE
       \/ Settle("failed") /\ UNCHANGED <<acted, reconnect>>

(* ----------------------------- surroundings ---------------------------- *)

(* The process dies and starts again; outcomes were only in memory.        *)
SessionDies ==
    /\ deaths < MaxDeaths /\ deaths' = deaths + 1
    /\ EndSession
    /\ processed' = <<>> /\ reconnect' = FALSE /\ acted' = {}
    /\ UNCHANGED <<cloudVars, drops>>

SessionStep ==
    \/ OpenSession \/ ReceiveFails \/ TakeHelloAck \/ Reconnect
    \/ TakeCommand \/ SendAck \/ ReplayAck \/ SendResult
    \/ Expire \/ Refuse \/ BeginSwitch \/ WriteRelay \/ SetUnit \/ RestartService

SessionNext ==
    \/ SessionStep
    \/ \E c \in CommandIds : QueueCommand(c)
    \/ AnswerHello \/ HearDevice
    \/ LinkBreaks \/ SessionDies

SessionSpec == SessionInit /\ [][SessionNext]_sessionVars

(* ------------------------------ properties ----------------------------- *)

(* commands.py: "execution must be idempotent: results are cached by       *)
(* command_id and replayed rather than re-run".  The session implements    *)
(* Commands, whatever is lost or sent again.                               *)
Abstract == INSTANCE Commands WITH
                Ids <- CommandIds,
                done <- [c \in CommandIds |-> IF Remembered(c) THEN Outcome(c) ELSE NotYet],
                told <- heard

ImplementsCommands == Abstract!CommandsSpec

(* A command that was queued is answered once connections stop breaking,   *)
(* also one that closes the session it came in on.                         *)
EveryCommandIsAnswered == \A c \in CommandIds : (c \in queued) ~> (heard[c] # NotYet)
=============================================================================
