------------------------------- MODULE Keypad -------------------------------
(***************************************************************************)
(* The scan thread of the keypad (keypad.py): a matrix without diodes, read*)
(* row by row while keys go up and down under the operator's fingers and   *)
(* their contacts bounce.                                                  *)
(*                                                                         *)
(* A contact bounces for less than DEBOUNCE_SECONDS: a wait of that length *)
(* ends with every contact at rest that was bouncing when it began.        *)
(***************************************************************************)
EXTENDS Integers, Sequences, FiniteSets

CONSTANTS
    RowPins, ColPins,   \* the matrix; a key is a row and a column
    MaxPresses          \* bound: presses

ASSUME KeypadAssumption == IsFiniteSet(RowPins) /\ IsFiniteSet(ColPins)

VARIABLES
    contact,    \* each key: "up", "closing", "down", "opening"
    scanner,    \* the scan thread: where it is, what it found, what it holds
    closed,     \* _stop is set
    pressed,    \* how often each key was pressed
    emitted     \* how often each key was put on the queue

keypadVars == <<contact, scanner, closed, pressed, emitted>>

Matrix  == RowPins \X ColPins
NoKey   == <<>>
Bouncing == {k \in Matrix : contact[k] \in {"closing", "opening"}}
At(pc)  == [pc |-> pc, todo |-> {}, found |-> {}, key |-> NoKey, unsettled |-> {}]

KeypadInit ==
    /\ contact = [k \in Matrix |-> "up"]
    /\ scanner = At("idle") /\ closed = FALSE
    /\ pressed = [k \in Matrix |-> 0] /\ emitted = [k \in Matrix |-> 0]

(* -------------------------------- the keys ----------------------------- *)
Press(k) ==
    /\ contact[k] = "up"
    /\ pressed[k] < MaxPresses
    /\ contact' = [contact EXCEPT ![k] = "closing"]
    /\ pressed' = [pressed EXCEPT ![k] = @ + 1]
    /\ UNCHANGED <<scanner, closed, emitted>>

LiftKey(k) ==
    /\ contact[k] = "down"
    /\ contact' = [contact EXCEPT ![k] = "opening"]
    /\ UNCHANGED <<scanner, closed, pressed, emitted>>

ContactSettles(k) ==
    /\ contact[k] \in {"closing", "opening"}
    /\ contact' = [contact EXCEPT ![k] = IF @ = "closing" THEN "down" ELSE "up"]
    /\ scanner' = [scanner EXCEPT !.unsettled = @ \ {k}]
    /\ UNCHANGED <<closed, pressed, emitted>>

(* ------------------------------- the wires ----------------------------- *)

(* Which keys may be bridging just now: those at rest that are down, and   *)
(* any of those that bounce.                                               *)
Bridged == {{k \in Matrix : contact[k] = "down"} \cup b : b \in SUBSET Bouncing}

(* _any_pressed: every row is LOW, one bridged key pulls its column down.  *)
AnyPressed(bridged) == bridged # {}

(* The columns that read LOW with one row LOW and the others driven HIGH.  *)
(* A column bridged to a HIGH row as well may read either way, and so may  *)
(* one that reaches the LOW row round three corners; but that one reads    *)
(* LOW only if the column it is reached through does.                      *)
Direct(r, bridged) == {c \in ColPins : <<r, c>> \in bridged}
Clean(r, bridged) ==
    {c \in Direct(r, bridged) : \A q \in RowPins \ {r} : <<q, c>> \notin bridged}
Through(r, bridged, c) ==
    {d \in Direct(r, bridged) :
        \E q \in RowPins \ {r} : <<q, c>> \in bridged /\ <<q, d>> \in bridged}
Lows(r, bridged) ==
    {low \in SUBSET ColPins :
        /\ Clean(r, bridged) \subseteq low
        /\ \A c \in low \ Direct(r, bridged) : Through(r, bridged, c) \cap low # {}}

(* ---------------------------- the scan thread -------------------------- *)
Look ==
    /\ scanner.pc = "idle" /\ ~closed
    /\ \E bridged \in Bridged :
          scanner' = IF AnyPressed(bridged)
                     THEN [At("first") EXCEPT !.todo = RowPins]
                     ELSE At("idle")
    /\ UNCHANGED <<contact, closed, pressed, emitted>>

(* _scan_once, a row at a time: in between the keys move.                  *)
ScanRow ==
    /\ scanner.pc \in {"first", "second"}
    /\ \E r \in scanner.todo, bridged \in Bridged :
          /\ \A q \in scanner.todo : r <= q
          /\ \E low \in Lows(r, bridged) :
                scanner' = [scanner EXCEPT !.todo = @ \ {r},
                                           !.found = @ \cup {<<r, c>> : c \in low}]
    /\ UNCHANGED <<contact, closed, pressed, emitted>>

(* A slip for TheOne: the first that was found.                            *)
TheFirst(found) == IF found = {} THEN NoKey ELSE CHOOSE k \in found : TRUE

(* One key and no other, or it is refused.                                 *)
TheOne(found) == IF Cardinality(found) = 1 THEN CHOOSE k \in found : TRUE ELSE NoKey

Found ==
    /\ scanner.pc = "first" /\ scanner.todo = {}
    /\ scanner' = IF TheOne(scanner.found) = NoKey THEN At("idle")
                  ELSE [At("debounce") EXCEPT !.key = TheOne(scanner.found),
                                              !.unsettled = Bouncing]
    /\ UNCHANGED <<contact, closed, pressed, emitted>>

Debounced ==
    /\ scanner.pc = "debounce" /\ scanner.unsettled = {}
    /\ scanner' = [scanner EXCEPT !.pc = "second", !.todo = RowPins]
    /\ UNCHANGED <<contact, closed, pressed, emitted>>

(* Confirmed by the second scan, it goes to the menu's queue.              *)
Confirm ==
    /\ scanner.pc = "second" /\ scanner.todo = {}
    /\ IF TheOne(scanner.found) = scanner.key
       THEN /\ emitted' = [emitted EXCEPT ![scanner.key] = @ + 1]
            /\ scanner' = [At("held") EXCEPT !.key = scanner.key]
       ELSE scanner' = At("idle") /\ UNCHANGED emitted
    /\ UNCHANGED <<contact, closed, pressed>>

(* A slip for LetGo: the release is not waited for.                        *)
LetGoAtOnce ==
    /\ scanner.pc = "held"
    /\ scanner' = [At("settle") EXCEPT !.unsettled = Bouncing]
    /\ UNCHANGED <<contact, closed, pressed, emitted>>

(* Nothing more until every key is let go, and through the bounce of that. *)
LetGo ==
    /\ scanner.pc = "held"
    /\ closed \/ {} \in Bridged
    /\ scanner' = [At("settle") EXCEPT !.unsettled = Bouncing]
    /\ UNCHANGED <<contact, closed, pressed, emitted>>

Settled ==
    /\ scanner.pc = "settle" /\ (scanner.unsettled = {} \/ closed)
    /\ scanner' = At("idle")
    /\ UNCHANGED <<contact, closed, pressed, emitted>>

CloseKeypad ==
    /\ ~closed /\ closed' = TRUE
    /\ UNCHANGED <<contact, scanner, pressed, emitted>>

KeypadNext ==
    \/ \E k \in Matrix : Press(k) \/ LiftKey(k) \/ ContactSettles(k)
    \/ Look \/ ScanRow \/ Found \/ Debounced \/ Confirm \/ LetGo \/ Settled
    \/ CloseKeypad

KeypadSpec == KeypadInit /\ [][KeypadNext]_keypadVars

(* ------------------------------ properties ----------------------------- *)

(* A press is one key, however long it is held and however it bounces, and *)
(* no key is reported that was not pressed, whichever others are down and  *)
(* move while the rows are read.                                           *)
OneKeyPerPress == \A k \in Matrix : emitted[k] <= pressed[k]
=============================================================================
