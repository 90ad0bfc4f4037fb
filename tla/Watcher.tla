------------------------------ MODULE Watcher ------------------------------
(***************************************************************************)
(* The 1-Wire bus, watched (sensor_watcher.py): a thread looks at the bus  *)
(* every few seconds, remembers the probes in the order they were first    *)
(* seen, and saves that order when a look changed something, while the     *)
(* menu, on the event loop, may clear it (control_menu.py).                *)
(***************************************************************************)
EXTENDS Integers, Sequences, SequencesExt

CONSTANTS
    Probes,         \* thermometers that may be on the bus
    MaxWriteFails,  \* bound: writes of the cache that fail
    MaxResets       \* bound: resets by an operator

VARIABLES
    bus,        \* the probes that are plugged in
    order,      \* SensorWatcher.sensors, in the order of the dictionary
    linked,     \* those of them marked as connected
    dirty,      \* _dirty
    card,       \* the order in sensor_watch_cache.json, <<>> when there is none
    scan,       \* the thread: what it has still to look at, and what it saw
    clearing,   \* the step of reset() that comes next, "none" outside of it
    upset,      \* history: the card missed something since its last clean save
    writeFails, resets

memory      == <<order, linked, dirty>>
watcherVars == <<bus, memory, card, scan, clearing, upset, writeFails, resets>>

AtRest == [pc |-> "rest", todo |-> {}, seen |-> {}, doc |-> <<>>, clean |-> TRUE]

WatcherInit ==
    /\ bus = {} /\ order = <<>> /\ linked = {} /\ dirty = FALSE /\ card = <<>>
    /\ scan = AtRest /\ clearing = "none" /\ upset = FALSE
    /\ writeFails = 0 /\ resets = 0

PlugOrUnplug(p) ==
    /\ bus' = IF p \in bus THEN bus \ {p} ELSE bus \cup {p}
    /\ UNCHANGED <<memory, card, scan, clearing, upset, writeFails, resets>>

(* ------------------------------ the thread ----------------------------- *)

(* A bus that cannot be listed ends the look at once.  The loop hands the  *)
(* look to the thread, which it cannot do in the middle of reset().        *)
ListBus ==
    /\ scan.pc = "rest" /\ clearing = "none"
    /\ scan' = [AtRest EXCEPT !.pc = "look", !.todo = bus]
    /\ UNCHANGED <<bus, memory, card, clearing, upset, writeFails, resets>>

(* A slip for Noted: a probe that comes back is worth saving, a new one is *)
(* not.                                                                    *)
NotedIfKnown(p) == p \in ToSet(order) /\ p \notin linked

(* What there is to save about a probe that was seen.                      *)
Noted(p) == p \notin linked

(* A probe pulled out since the bus was listed is passed over.             *)
LookAt(p) ==
    /\ scan.pc = "look" /\ p \in scan.todo
    /\ scan' = [scan EXCEPT !.todo = @ \ {p}, !.seen = IF p \in bus THEN @ \cup {p} ELSE @]
    /\ IF p \in bus
       THEN /\ order' = IF p \in ToSet(order) THEN order ELSE Append(order, p)
            /\ linked' = linked \cup {p}
            /\ dirty' = (dirty \/ Noted(p))
       ELSE UNCHANGED memory
    /\ UNCHANGED <<bus, card, clearing, upset, writeFails, resets>>

MarkGone ==
    /\ scan.pc = "look" /\ scan.todo = {}
    /\ scan' = [scan EXCEPT !.pc = "marked"]
    /\ linked' = linked \cap scan.seen
    /\ dirty' = (dirty \/ linked' # linked)
    /\ UNCHANGED <<bus, order, card, clearing, upset, writeFails, resets>>

(* The flag goes first, then the document is made, then it is written.     *)
Save ==
    /\ scan.pc = "marked"
    /\ scan' = IF dirty THEN [scan EXCEPT !.pc = "making"] ELSE AtRest
    /\ dirty' = FALSE
    /\ UNCHANGED <<bus, order, linked, card, clearing, upset, writeFails, resets>>

MakeDocument ==
    /\ scan.pc = "making"
    /\ scan' = [scan EXCEPT !.pc = "writing", !.doc = order]
    /\ UNCHANGED <<bus, memory, card, clearing, upset, writeFails, resets>>

WriteCache ==
    /\ scan.pc = "writing"
    /\ scan' = AtRest
    /\ card' = scan.doc /\ upset' = (upset /\ ~scan.clean)
    /\ UNCHANGED <<bus, memory, clearing, writeFails, resets>>

(* The failure is logged; the flag is down, and nothing tries again before *)
(* the next change.                                                        *)
WriteFails ==
    /\ scan.pc = "writing" /\ writeFails < MaxWriteFails
    /\ writeFails' = writeFails + 1
    /\ scan' = AtRest /\ upset' = TRUE
    /\ UNCHANGED <<bus, memory, card, clearing, resets>>

(* ------------------------------- the menu ------------------------------ *)

(* A thread that walks the table as it is emptied ends with an exception.  *)
Reset ==
    /\ clearing = "none" /\ resets < MaxResets
    /\ resets' = resets + 1
    /\ clearing' = "flag"
    /\ order' = <<>> /\ linked' = {}
    /\ \/ scan' = [scan EXCEPT !.clean = scan.pc = "rest"]
       \/ scan.pc \in {"look", "marked", "making"} /\ scan' = AtRest
    /\ upset' = (upset \/ scan.pc # "rest")
    /\ UNCHANGED <<bus, dirty, card, writeFails>>

DropFlag ==
    /\ clearing = "flag" /\ clearing' = "file"
    /\ dirty' = FALSE
    /\ UNCHANGED <<bus, order, linked, card, scan, upset, writeFails, resets>>

(* A file that cannot be deleted stays, and that is all.                   *)
DeleteFile ==
    /\ clearing = "file" /\ clearing' = "none"
    /\ \/ card' = <<>> /\ UNCHANGED <<upset, writeFails>>
       \/ /\ card # <<>> /\ writeFails < MaxWriteFails
          /\ writeFails' = writeFails + 1 /\ upset' = TRUE
          /\ UNCHANGED card
    /\ UNCHANGED <<bus, memory, scan, resets>>

(* load(): nothing is connected until the bus says so.                     *)
WatcherRestarts ==
    /\ order' = card /\ linked' = {} /\ dirty' = FALSE
    /\ scan' = AtRest /\ clearing' = "none" /\ upset' = FALSE
    /\ UNCHANGED <<bus, card, writeFails, resets>>

WatcherNext ==
    \/ \E p \in Probes : PlugOrUnplug(p) \/ LookAt(p)
    \/ ListBus \/ MarkGone \/ Save \/ MakeDocument \/ WriteCache \/ WriteFails
    \/ Reset \/ DropFlag \/ DeleteFile
    \/ WatcherRestarts

WatcherSpec == WatcherInit /\ [][WatcherNext]_watcherVars

(* ------------------------------ properties ----------------------------- *)

(* sensor_watcher.py: "The order is cached, so it survives a restart".     *)
(* Between two looks the card has the whole order, in that order: whatever *)
(* is plugged in or pulled out during a look and wherever the process died *)
(* before, unless a file could not be written or deleted, or the history   *)
(* was cleared under a look, since the last save that went well.           *)
OrderIsKept == scan.pc = "rest" /\ clearing = "none" /\ ~upset => card = order
=============================================================================
