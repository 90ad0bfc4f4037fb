------------------------------ MODULE Commands ------------------------------
(***************************************************************************)
(* What the cloud may rely on when it queues a command for a device: while *)
(* the device's process lives a command is acted on at most once, the      *)
(* cloud hears the outcome of that and no other, and once it has heard it  *)
(* the command is never acted on again, not even by the next process.      *)
(***************************************************************************)
CONSTANTS
    Ids,            \* commands, by their ids
    Outcomes        \* what may become of one

VARIABLES
    done,           \* what became of a command in this life of the process
    acted,          \* commands acted on in this life
    told            \* what the cloud has heard of it

commandVars == <<done, acted, told>>

NotYet == "not yet"

CommandsInit ==
    /\ done = [c \in Ids |-> NotYet] /\ told = [c \in Ids |-> NotYet]
    /\ acted = {}

Do(c, outcome) ==
    /\ done[c] = NotYet /\ c \notin acted /\ told[c] = NotYet
    /\ done' = [done EXCEPT ![c] = outcome]
    /\ acted' = IF outcome = "executed" THEN acted \cup {c} ELSE acted
    /\ UNCHANGED told

Tell(c) ==
    /\ done[c] # NotYet /\ told[c] \in {NotYet, done[c]}
    /\ told' = [told EXCEPT ![c] = done[c]]
    /\ UNCHANGED <<done, acted>>

(* Only what the cloud has heard may be forgotten.                         *)
Forget(c) ==
    /\ told[c] # NotYet
    /\ done' = [done EXCEPT ![c] = NotYet]
    /\ UNCHANGED <<acted, told>>

(* One command may have been acted on as the process died.                 *)
Die == /\ done' = [c \in Ids |-> NotYet] /\ acted' = {}
       /\ UNCHANGED told

(* The outcome of a command and the forgetting of an older one.            *)
DoAndForget(c, outcome, old) ==
    /\ done[c] = NotYet /\ c \notin acted /\ told[c] = NotYet /\ told[old] # NotYet
    /\ done' = [done EXCEPT ![c] = outcome, ![old] = NotYet]
    /\ acted' = IF outcome = "executed" THEN acted \cup {c} ELSE acted
    /\ UNCHANGED told

CommandsNext ==
    \/ Die
    \/ \E c \in Ids :
          \/ Tell(c) \/ Forget(c)
          \/ \E outcome \in Outcomes :
                Do(c, outcome) \/ \E old \in Ids : DoAndForget(c, outcome, old)

CommandsSpec == CommandsInit /\ [][CommandsNext]_commandVars
=============================================================================
