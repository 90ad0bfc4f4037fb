------------------------------- MODULE UnitSync -------------------------------
(***************************************************************************)
(* The control modes and temperature setpoints of the units: set at the    *)
(* menu, reported to the server and marked as published, pushed by another *)
(* device, polled in the device record, saved in two files.                *)
(*                                                                         *)
(* A unit here is one mode or one setpoint.  The two travel by the same    *)
(* code paths with three differences that matter: a mode is marked when it *)
(* is sent and a setpoint when it is acknowledged; a setpoint may be       *)
(* cleared; the record marks a mode it agrees with.  Relays switched by an *)
(* evaluation on the way are in RelayControl.                              *)
(***************************************************************************)
EXTENDS Naturals, Sequences, FiniteSetsExt

CONSTANTS
    Modes,          \* numbers of the units that are modes
    Setpoints,      \* numbers of the units that are setpoints
    Values,
    Default,        \* the mode of a unit nobody set ("automatic")
    MaxChanges,     \* bound: values set here or by an app
    MaxFaults       \* bound: link losses, power cuts and refusals

ASSUME UnitSyncAssumption ==
    /\ Modes \subseteq Nat /\ Setpoints \subseteq Nat
    /\ Modes \cap Setpoints = {}
    /\ {MaxChanges, MaxFaults} \subseteq Nat /\ Default \in Values
    /\ "none" \notin Values

VARIABLES
    entry,      \* memory: the value of a unit and whether the server knows
    card,       \* the two files
    saving,     \* the snapshot each task is writing in a worker thread
    desired,    \* server: desired_mode, desired_temperature_c
    link, up, down,
    menu, recon, rec,       \* where these tasks stand
    knowsModes, \* whether this server understands the mode messages
    changes, faults,
    touched,    \* history: units set here since the record's last look
    owed,       \* history: units whose value of here was never sent
    crossed,    \* history: units set here with an older report under way
    upset,      \* history: files two threads have written at once
    refused     \* history: units whose last report the server refused

memory == <<entry, saving, upset>>
server == <<desired, link, up, down, knowsModes>>
bounds == <<changes, faults>>
past   == <<touched, owed, crossed, refused>>
vars   == <<memory, card, server, menu, recon, rec, bounds, past>>

Units   == Modes \cup Setpoints
None    == "none"
Unit    == [v : Values \cup {None}, pub : BOOLEAN]
Tasks   == {"menu", "listen", "recon", "rec"}
Files   == {Modes, Setpoints}
FileOf(u) == IF u \in Modes THEN Modes ELSE Setpoints
NoSave  == [file |-> {}, snap |-> <<>>]
Free(t) == saving[t] = NoSave

AtMenu  == [pc |-> "idle", u |-> 0, v |-> None, lost |-> FALSE]
NoRecon == [pc |-> "idle", todo |-> {}, u |-> 0]
NoRec   == [pc |-> "idle", by |-> "loop", snap |-> <<>>, todo |-> {}, unpub |-> {}]

Fresh == [u \in Units |-> [v |-> IF u \in Modes THEN Default ELSE None, pub |-> TRUE]]

Init ==
    /\ entry = Fresh
    /\ card = entry /\ saving = [t \in Tasks |-> NoSave]
    /\ desired = [u \in Units |-> entry[u].v]
    /\ link = FALSE /\ up = <<>> /\ down = <<>>
    /\ menu = AtMenu /\ recon = NoRecon /\ rec = NoRec
    /\ changes = 0 /\ faults = 0 /\ knowsModes \in BOOLEAN
    /\ touched = {} /\ owed = {} /\ crossed = {} /\ upset = {} /\ refused = {}

-----------------------------------------------------------------------------
(* Memory and its two files.  A change takes its snapshot at once; a       *)
(* worker thread writes it while the task waits.                           *)

Writers(f) == {t \in Tasks : saving[t].file = f}

Put(t, u, e) ==
    /\ entry' = [entry EXCEPT ![u] = e]
    /\ saving' = [saving EXCEPT ![t] =
           [file |-> FileOf(u), snap |-> [w \in FileOf(u) |-> entry'[w]]]]
    /\ upset' = IF Writers(FileOf(u)) # {} THEN upset \cup {FileOf(u)}
                                           ELSE upset \ {FileOf(u)}

(* A slip for Mark: the published flag is set in memory only.              *)
MarkUnsaved(t, u, known) ==
    IF entry[u].v = None
    THEN UNCHANGED memory
    ELSE entry' = [entry EXCEPT ![u].pub = known] /\ UNCHANGED <<saving, upset>>

Mark(t, u, known) ==
    IF entry[u].v = None \/ entry[u].pub = known
    THEN UNCHANGED memory
    ELSE Put(t, u, [entry[u] EXCEPT !.pub = known])

(* set_mode and set_setpoint for a value that came from the server.        *)
Follow(t, u, v) ==
    IF entry[u] = [v |-> v, pub |-> TRUE]
    THEN UNCHANGED memory
    ELSE Put(t, u, [v |-> v, pub |-> TRUE])

Saved(t) ==
    /\ ~Free(t)
    /\ card' = [u \in Units |-> IF u \in saving[t].file THEN saving[t].snap[u]
                                                        ELSE card[u]]
    /\ saving' = [saving EXCEPT ![t] = NoSave]
    /\ UNCHANGED <<entry, upset, server, menu, recon, rec, bounds, past>>

-----------------------------------------------------------------------------
(* The operator.                                                           *)

(* A report of an older value of u is still on its way, or unanswered.     *)
Underway(u) ==
    \/ \E i \in 1..Len(up) : up[i].u = u
    \/ \E i \in 1..Len(down) : down[i].u = u /\ down[i].type = "ack"
    \/ recon.pc = "sent" /\ recon.u = u
    \/ \E r \in recon.todo : r.u = u

Changed(u) ==
    /\ changes < MaxChanges /\ changes' = changes + 1
    /\ touched' = IF rec.pc \in {"modes", "setpoints"} THEN touched \cup {u} ELSE {}
    /\ crossed' = IF Underway(u) THEN crossed \cup {u} ELSE crossed \ {u}

(* The panel compares with a value it read before its dialog, so what is   *)
(* set may by now be the value in memory; a setting is then unsent again.  *)
SetHere(u, v) ==
    /\ menu.pc = "idle" /\ Free("menu")
    /\ IF entry[u] = [v |-> v, pub |-> FALSE]
       THEN UNCHANGED memory
       ELSE Put("menu", u, [v |-> v, pub |-> FALSE])
    /\ menu' = [AtMenu EXCEPT !.pc = "report", !.u = u, !.v = v]
    /\ Changed(u) /\ owed' = owed \cup {u}
    /\ UNCHANGED <<card, server, recon, rec, faults, refused>>

ClearHere(u) ==
    /\ menu.pc = "idle" /\ Free("menu") /\ u \in Setpoints /\ entry[u].v # None
    /\ Put("menu", u, Fresh[u])
    /\ Changed(u) /\ owed' = owed \ {u}
    /\ UNCHANGED <<card, server, menu, recon, rec, faults, refused>>

Send(u, v) ==
    /\ up' = Append(up, [u |-> u, v |-> v])
    /\ owed' = IF entry[u].v = v THEN owed \ {u} ELSE owed

(* A slip for Report: the mode is marked whether or not it went out.       *)
ReportAnyway ==
    /\ menu.pc = "report" /\ Free("menu")
    /\ IF link THEN Send(menu.u, menu.v) ELSE UNCHANGED <<up, owed>>
    /\ menu' = IF menu.u \in Modes THEN [menu EXCEPT !.pc = "sent"] ELSE AtMenu
    /\ UNCHANGED <<memory, card, desired, link, down, knowsModes, recon, rec, bounds,
                   touched, crossed, refused>>

Report ==
    /\ menu.pc = "report" /\ Free("menu")
    /\ IF link
       THEN /\ Send(menu.u, menu.v)
            /\ menu' = IF menu.u \in Modes THEN [menu EXCEPT !.pc = "sent"]
                       ELSE AtMenu
       ELSE menu' = AtMenu /\ UNCHANGED <<up, owed>>
    /\ UNCHANGED <<memory, card, desired, link, down, knowsModes, recon, rec, bounds,
                   touched, crossed, refused>>

(* The send returned, or raised because the socket died.                   *)
MarkReported ==
    /\ menu.pc = "sent"
    /\ menu' = AtMenu
    /\ \/ Mark("menu", menu.u, TRUE)
       \/ menu.lost /\ UNCHANGED memory
    /\ UNCHANGED <<card, server, recon, rec, bounds, past>>

-----------------------------------------------------------------------------
(* The server, other devices and apps, and the link.                       *)

AppSets(u, v) ==
    /\ changes < MaxChanges /\ changes' = changes + 1
    /\ desired' = [desired EXCEPT ![u] = v]
    /\ down' = IF link THEN Append(down, [type |-> "apply", u |-> u, v |-> v])
                       ELSE down
    /\ UNCHANGED <<memory, card, link, up, knowsModes, menu, recon, rec, faults, past>>

Answer(kind, u) == Append(down, [type |-> kind, u |-> u, v |-> None])

(* A server that does not know the mode messages stays silent.             *)
ServerTakes ==
    /\ up # <<>>
    /\ up' = Tail(up)
    /\ LET m == Head(up) IN
        IF m.u \in Modes /\ ~knowsModes
        THEN UNCHANGED <<desired, down, refused, faults>>
        ELSE \/ /\ desired' = [desired EXCEPT ![m.u] = m.v]
                /\ down' = Answer("ack", m.u)
                /\ refused' = refused \ {m.u} /\ faults' = faults
             \/ /\ faults < MaxFaults /\ faults' = faults + 1
                /\ down' = Answer("nak", m.u)
                /\ refused' = refused \cup {m.u} /\ desired' = desired
    /\ UNCHANGED <<memory, card, link, knowsModes, menu, recon, rec, changes,
                   touched, owed, crossed>>

(* The reconciliation is cancelled with its session, in the middle of an   *)
(* adoption too; the file its thread is writing is written all the same.   *)
LinkDrops ==
    /\ link /\ faults < MaxFaults /\ faults' = faults + 1
    /\ link' = FALSE /\ up' = <<>> /\ down' = <<>>
    /\ recon' = NoRecon
    /\ rec' = IF rec.by = "recon" THEN NoRec ELSE rec
    /\ menu' = [menu EXCEPT !.lost = menu.pc = "sent"]
    /\ UNCHANGED <<memory, card, desired, knowsModes, changes, past>>

Connect ==
    /\ ~link /\ Free("listen") /\ Free("recon")
    /\ link' = TRUE /\ recon' = [NoRecon EXCEPT !.pc = "record"]
    /\ UNCHANGED <<memory, card, desired, up, down, knowsModes, menu, rec, bounds, past>>

(* The listen loop.                                                        *)
Hear ==
    /\ down # <<>> /\ Free("listen")
    /\ down' = Tail(down)
    /\ LET m == Head(down) IN
        /\ IF m.type = "apply" THEN Follow("listen", m.u, m.v)
           ELSE IF m.type = "ack" THEN Mark("listen", m.u, TRUE)
           ELSE IF m.u \in Modes THEN Mark("listen", m.u, FALSE)
           ELSE UNCHANGED memory
        /\ owed' = IF m.type = "apply" THEN owed \ {m.u} ELSE owed
    /\ UNCHANGED <<card, desired, link, up, knowsModes, menu, recon, rec, bounds,
                   touched, crossed, refused>>

-----------------------------------------------------------------------------
(* The device record, polled by its own loop and once after every hello,   *)
(* under one lock.  The answer shows the server as it was.                 *)

Fetch(by) ==
    /\ rec.pc = "idle" /\ Free("rec")
    /\ by = "recon" => recon.pc = "record"
    /\ rec' = [NoRec EXCEPT !.pc = "answered", !.by = by, !.snap = desired]
    /\ UNCHANGED <<memory, card, server, menu, recon, bounds, past>>

(* What follows in the reconciliation when its look at the record is over. *)
Looked ==
    /\ rec' = NoRec
    /\ recon' = IF rec.by = "recon"
                THEN [NoRecon EXCEPT !.pc = "offer"] ELSE recon

FetchFails ==
    /\ rec.pc = "answered" /\ (~link \/ rec.by = "recon")
    /\ Looked
    /\ UNCHANGED <<memory, card, server, menu, bounds, past>>

Unpublished(us) == {u \in us : entry[u].v # None /\ ~entry[u].pub}

Agrees(u)  == entry[u].v = rec.snap[u]
(* A slip for Work: the record is taken as it is.                          *)
WorkForRecord(us, unpub) ==
    {u \in us : rec.snap[u] # None /\ ~Agrees(u)}

Work(us, unpub) ==
    {u \in us : /\ rec.snap[u] # None
                /\ IF Agrees(u) THEN u \in Modes /\ ~entry[u].pub
                                ELSE u \notin unpub}

AdoptFirst(us, unpub, rest) ==
    LET u == Min(Work(us, unpub)) IN
    /\ IF Agrees(u) THEN Mark("rec", u, TRUE) ELSE Follow("rec", u, rec.snap[u])
    /\ owed' = owed \ {u}
    /\ rec' = [rec EXCEPT !.pc = rest, !.unpub = unpub,
                          !.todo = {w \in us : w > u}]
    /\ UNCHANGED recon

(* Modes first, then setpoints; what is unpublished is read once for each, *)
(* and every unit that is changed is waited for.                           *)
AdoptSetpoints ==
    /\ LET unpub == Unpublished(Setpoints) IN
        IF Work(Setpoints, unpub) # {}
        THEN AdoptFirst(Setpoints, unpub, "setpoints")
        ELSE Looked /\ UNCHANGED <<memory, owed>>
    /\ touched' = {}

AdoptRecord ==
    /\ rec.pc = "answered"
    /\ LET unpub == Unpublished(Modes) IN
        IF Work(Modes, unpub) # {}
        THEN AdoptFirst(Modes, unpub, "modes") /\ touched' = {}
        ELSE AdoptSetpoints
    /\ UNCHANGED <<card, server, menu, bounds, crossed, refused>>

AdoptNext ==
    /\ rec.pc \in {"modes", "setpoints"} /\ Free("rec")
    /\ IF Work(rec.todo, rec.unpub) # {}
       THEN AdoptFirst(rec.todo, rec.unpub, rec.pc) /\ UNCHANGED touched
       ELSE IF rec.pc = "modes" THEN AdoptSetpoints
       ELSE Looked /\ UNCHANGED <<memory, owed, touched>>
    /\ UNCHANGED <<card, server, menu, bounds, crossed, refused>>

-----------------------------------------------------------------------------
(* The reconciliation: what was set here and not published is offered,     *)
(* setpoints then modes, each list as it was when its turn came.  After a  *)
(* setpoint it waits for the answer, or gives up waiting.                  *)

(* A slip for Pending: only setpoints are offered again.                   *)
PendingSetpoints(us) ==
    {[u |-> u, v |-> entry[u].v] : u \in Unpublished(us) \cap Setpoints}

Pending(us) == {[u |-> u, v |-> entry[u].v] : u \in Unpublished(us)}

OfferFirst(list) ==
    LET r == CHOOSE r \in list : \A q \in list : r.u <= q.u IN
    /\ Send(r.u, r.v)
    /\ recon' = [pc |-> IF r.u \in Modes THEN "sent" ELSE "setpoints",
                 u |-> r.u, todo |-> list \ {r}]

OfferModes(list) ==
    IF list # {} THEN OfferFirst(list)
    ELSE recon' = NoRecon /\ UNCHANGED <<up, owed>>

Offer ==
    /\ Free("recon")
    /\ CASE recon.pc = "offer" /\ Pending(Setpoints) # {} -> OfferFirst(Pending(Setpoints))
         [] recon.pc = "offer" /\ Pending(Setpoints) = {} -> OfferModes(Pending(Modes))
         [] recon.pc = "setpoints" /\ recon.todo # {} -> OfferFirst(recon.todo)
         [] recon.pc = "setpoints" /\ recon.todo = {} -> OfferModes(Pending(Modes))
         [] recon.pc = "modes" -> OfferModes(recon.todo)
         [] OTHER -> FALSE
    /\ UNCHANGED <<memory, card, desired, link, down, knowsModes, menu, rec, bounds,
                   touched, crossed, refused>>

Offered ==
    /\ recon.pc = "sent"
    /\ Mark("recon", recon.u, TRUE)
    /\ recon' = [recon EXCEPT !.pc = "modes"]
    /\ UNCHANGED <<card, server, menu, rec, bounds, past>>

Restart ==
    /\ faults < MaxFaults /\ faults' = faults + 1
    /\ entry' = card /\ saving' = [t \in Tasks |-> NoSave] /\ upset' = {}
    /\ link' = FALSE /\ up' = <<>> /\ down' = <<>>
    /\ menu' = AtMenu /\ recon' = NoRecon /\ rec' = NoRec
    /\ touched' = {} /\ crossed' = {}
    /\ owed' = {u \in owed : ~card[u].pub}
    /\ UNCHANGED <<card, desired, knowsModes, changes, refused>>

Operator == \E u \in Units : ClearHere(u) \/ \E v \in Values : SetHere(u, v)
App      == \E u \in Units, v \in Values : AppSets(u, v)
AtTheMenu == Report \/ MarkReported
Adopting  == AdoptRecord \/ AdoptNext
Offering  == Offer \/ Offered

Next == Operator \/ App \/ LinkDrops \/ Restart \/ ServerTakes \/ Connect \/ Hear
        \/ AtTheMenu \/ Fetch("loop") \/ Fetch("recon") \/ FetchFails \/ Adopting \/ Offering
        \/ \E t \in Tasks : Saved(t)

Spec == Init /\ [][Next]_vars

(* The link comes back and the server answers; no task starves, the record *)
(* is polled again and again, and its lock is handed out in turn.          *)
Fairness ==
    /\ WF_vars(Connect) /\ WF_vars(ServerTakes) /\ WF_vars(Hear)
    /\ WF_vars(AtTheMenu) /\ WF_vars(Adopting) /\ WF_vars(Offering)
    /\ WF_vars(Fetch("loop")) /\ SF_vars(Fetch("recon"))
    /\ \A t \in Tasks : WF_vars(Saved(t))

FairSpec == Spec /\ Fairness

-----------------------------------------------------------------------------

(* A value set here and never sent is overwritten by a record only if it   *)
(* was set after the adoption looked at what is unpublished (the list is   *)
(* read once and a file is awaited per unit), or if the late answer for an *)
(* older value marked it.                                                  *)
UnsentOutranksRecord ==
    [][rec' # rec /\ faults' = faults
       => \A u \in Units :
            u \in owed /\ entry'[u].v # entry[u].v
            => u \in touched' \cup crossed]_vars

(* A value of here is marked as published without having been sent only if *)
(* it was set while a report of an older one was under way.                *)
MarkedWasSent ==
    \A u \in Units : u \in owed /\ entry[u].pub => u \in crossed

(* With nothing being written, the card holds what memory holds, unless    *)
(* two threads were writing the file at once.                              *)
CardIsCurrent ==
    \A f \in Files \ upset :
        Writers(f) = {} => \A u \in f : card[u] = entry[u]

(* Device and server agree in the end, or the server's last word was no.   *)
Agreement ==
    <>[](\A u \in Units : entry[u].v = desired[u] \/ u \in refused)
=============================================================================
