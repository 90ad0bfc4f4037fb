---------------------------- MODULE ScheduleSync ----------------------------
(***************************************************************************)
(* The heating programme of one room, as the server publishes it and as an *)
(* operator edits it on the device: schedule.apply and schedule.update_ack *)
(* on the listen loop, the editor of the control menu, the reconciler      *)
(* after hello, the cache and the override file on the card, the boot.     *)
(*                                                                         *)
(* Every await that really suspends (a parse in a thread, a file written   *)
(* or removed in a thread, the push of device.state) ends a step, so the   *)
(* tasks interleave exactly there.  What a programme says is abstracted to *)
(* whose it is; the rules themselves are in Programme, and the relays an   *)
(* evaluation switches are in RelayControl.                                *)
(***************************************************************************)
EXTENDS Naturals, Sequences

CONSTANTS
    MaxVersion,     \* bound: versions the server creates
    MaxEdits,       \* bound: edits an operator starts
    MaxDrops,       \* bound: times the link is lost
    MaxFaults,      \* bound: writes to the card that fail
    MaxRestarts     \* bound: power cuts

ASSUME ScheduleSyncAssumption ==
    {MaxVersion, MaxEdits, MaxDrops, MaxFaults, MaxRestarts} \subseteq Nat

VARIABLES
    room,       \* server: room[v] is the content of version v
    up, down,   \* messages on the link, to the server and to the device
    link,       \* a session is open
    inForce,    \* the document that drives the relays
    base,       \* the last document the server is known to have published
    rev,        \* local revision: 0 when the programme is not edited here
    active,     \* the version hello, heartbeat and telemetry report
    cache,      \* on the card: the published document
    override,   \* on the card: the local edit
    listen,     \* the message being handled
    menu,       \* the operator's edit
    offering,   \* the reconciler has still to offer the local edit
    edits, drops, faults, restarts,
    dead,       \* history: edits a cached publish or the operator removed
    refused     \* history: the server refused the last offer

server == <<room, up, down, link, drops>>
device == <<inForce, base, rev, active>>
card   == <<cache, override, faults>>
tasks  == <<listen, menu, offering, edits>>
past   == <<dead, refused, restarts>>
vars   == <<server, device, card, tasks, past>>

Pub(v)    == <<"pub", v>>
Edit(n)   == <<"edit", n>>
NoContent == <<"none", 0>>
Contents  == {NoContent} \cup {Pub(v) : v \in 1..MaxVersion}
                         \cup {Edit(n) : n \in 1..MaxEdits}
Documents == [c : Contents, v : 0..MaxVersion]
Nothing   == [c |-> NoContent, v |-> 0]
NoFile    == [c |-> NoContent, v |-> 0, base |-> 0, rev |-> 0]
Idle      == [pc |-> "idle", doc |-> Nothing, was |-> 0, beaten |-> NoContent]
Resting   == [pc |-> "idle", doc |-> Nothing, token |-> <<0, 0>>]

Init ==
    /\ room = <<>> /\ up = <<>> /\ down = <<>> /\ link = FALSE
    /\ inForce = Nothing /\ base = Nothing /\ rev = 0 /\ active = 0
    /\ cache = Nothing /\ override = NoFile
    /\ listen = Idle /\ menu = Resting /\ offering = FALSE
    /\ edits = 0 /\ drops = 0 /\ faults = 0 /\ restarts = 0
    /\ dead = {} /\ refused = FALSE

-----------------------------------------------------------------------------
(* The server, and the link to it.                                         *)

Push(v, c) == [type |-> "push", doc |-> [v |-> v, c |-> c]]
Ack(v)     == [type |-> "ack", v |-> v]
Refusal    == [type |-> "refused"]

OwnerPublishes ==
    /\ Len(room) < MaxVersion
    /\ LET v == Len(room) + 1 IN
        /\ room' = Append(room, Pub(v))
        /\ down' = IF link THEN Append(down, Push(v, Pub(v))) ELSE down
    /\ UNCHANGED <<up, link, drops, device, card, tasks, past>>

ServerTakes ==
    /\ up # <<>>
    /\ up' = Tail(up)
    /\ \/ /\ Len(room) < MaxVersion
          /\ room' = Append(room, Head(up))
          /\ down' = Append(down, Ack(Len(room) + 1))
       \/ /\ down' = Append(down, Refusal)
          /\ room' = room
    /\ UNCHANGED <<link, drops, device, card, tasks, past>>

(* A handler runs to its end whatever happens to the socket; the session   *)
(* is over, and the next one opened, only when the listen loop reads again. *)
LinkDrops ==
    /\ link /\ drops < MaxDrops
    /\ drops' = drops + 1 /\ link' = FALSE
    /\ up' = <<>> /\ down' = <<>>
    /\ offering' = FALSE
    /\ UNCHANGED <<room, device, card, listen, menu, edits, past>>

Connect ==
    /\ ~link /\ listen.pc = "idle"
    /\ link' = TRUE
    /\ down' = IF Len(room) # active /\ room # <<>>
               THEN <<Push(Len(room), room[Len(room)])>> ELSE <<>>
    /\ offering' = TRUE
    /\ UNCHANGED <<room, up, drops, device, card, listen, menu, edits, past>>

-----------------------------------------------------------------------------
(* The listen loop: one message at a time.                                 *)

Hear ==
    /\ link /\ listen.pc = "idle" /\ down # <<>>
    /\ down' = Tail(down)
    /\ LET m == Head(down) IN
        \/ /\ m.type = "push"
           /\ listen' = [Idle EXCEPT !.pc = "parse", !.doc = m.doc,
                                     !.was = inForce.v]
           /\ refused' = refused
        \/ /\ m.type = "ack"
           /\ listen' = [Idle EXCEPT !.pc = "relabel",
                                     !.doc = [c |-> inForce.c, v |-> m.v]]
           /\ refused' = refused
        \/ m.type = "refused" /\ refused' = TRUE /\ listen' = listen
    /\ UNCHANGED <<room, up, link, drops, device, card, menu, offering, edits,
                   dead, restarts>>

(* A slip for Run: the new programme is not reported.                      *)
RunUnreported(doc, revision) ==
    /\ inForce' = doc /\ rev' = revision /\ active' = active

(* set_schedule and set_active_schedule_version: no await that suspends    *)
(* lies between them.                                                      *)
Run(doc, revision) ==
    /\ inForce' = doc /\ rev' = revision /\ active' = doc.v

AfterClear(l) == IF l.was # l.doc.v THEN "cache" ELSE "idle"

ApplyPublished ==
    /\ listen.pc = "parse"
    /\ Run(listen.doc, 0) /\ base' = listen.doc
    /\ listen' = IF rev > 0
                 THEN [listen EXCEPT !.pc = "clear",
                         !.beaten = IF base.v # listen.doc.v THEN inForce.c ELSE @]
                 ELSE [listen EXCEPT !.pc = AfterClear(listen)]
    /\ UNCHANGED <<server, card, menu, offering, edits, past>>

(* A write that fails is logged and costs nothing else.                    *)
Written(change) ==
    \/ change /\ faults' = faults
    \/ /\ faults < MaxFaults /\ faults' = faults + 1
       /\ UNCHANGED <<cache, override>>

Remove == override' = NoFile /\ cache' = cache

RemoveOverride ==
    /\ listen.pc = "clear"
    /\ Written(Remove)
    /\ listen' = [listen EXCEPT !.pc = AfterClear(listen)]
    /\ UNCHANGED <<server, device, menu, offering, edits, past>>

CachePublished ==
    /\ listen.pc = "cache"
    /\ Written(cache' = listen.doc /\ override' = override)
    /\ dead' = IF cache' = listen.doc
               THEN dead \cup ({listen.beaten} \ {NoContent}) ELSE dead
    /\ listen' = Idle
    /\ UNCHANGED <<server, device, menu, offering, edits, refused, restarts>>

AdoptPublishedVersion ==
    /\ listen.pc = "relabel"
    /\ Run(listen.doc, 0) /\ base' = listen.doc
    /\ listen' = [listen EXCEPT !.pc = "settle"]
    /\ UNCHANGED <<server, card, menu, offering, edits, past>>

RemoveSettled ==
    /\ listen.pc = "settle"
    /\ Written(Remove)
    /\ listen' = Idle
    /\ UNCHANGED <<server, device, menu, offering, edits, past>>

-----------------------------------------------------------------------------
(* The editor of the control menu.                                         *)

Token == <<base.v, rev>>

StartEdit ==
    /\ menu.pc = "idle" /\ edits < MaxEdits
    /\ edits' = edits + 1
    /\ menu' = [pc |-> "editing", token |-> Token,
                doc |-> [c |-> Edit(edits + 1), v |-> inForce.v]]
    /\ UNCHANGED <<server, device, card, listen, offering, past>>

(* Given up, changed under the operator's hands, or refused by the parser. *)
DropEdit ==
    /\ menu.pc \in {"editing", "parse"}
    /\ menu' = Resting
    /\ UNCHANGED <<server, device, card, listen, offering, edits, past>>

CheckToken ==
    /\ menu.pc = "editing" /\ menu.token = Token
    /\ menu' = [menu EXCEPT !.pc = "parse"]
    /\ UNCHANGED <<server, device, card, listen, offering, edits, past>>

ApplyLocal ==
    /\ menu.pc = "parse"
    /\ Run(menu.doc, rev + 1) /\ base' = base
    /\ menu' = [menu EXCEPT !.pc = "save", !.token = <<base.v, rev + 1>>]
    /\ UNCHANGED <<server, card, listen, offering, edits, past>>

SaveLocal ==
    /\ menu.pc = "save"
    /\ Written(/\ override' = [c |-> menu.doc.c, v |-> menu.doc.v,
                               base |-> menu.token[1], rev |-> menu.token[2]]
               /\ cache' = cache)
    /\ menu' = [menu EXCEPT !.pc = "publish"]
    /\ UNCHANGED <<server, device, listen, offering, edits, past>>

(* schedule.update carries the document in force when it is sent.  The     *)
(* answer changes state where it is heard, so waiting for it is no step.   *)
Send == up' = Append(up, inForce.c) /\ refused' = FALSE

PublishLocal ==
    /\ menu.pc = "publish"
    /\ IF link THEN Send ELSE UNCHANGED <<up, refused>>
    /\ menu' = Resting
    /\ UNCHANGED <<room, down, link, drops, device, card, listen, offering,
                   edits, dead, restarts>>

StartRevert ==
    /\ menu.pc = "idle" /\ rev > 0
    /\ menu' = [Resting EXCEPT !.pc = "discard"]
    /\ UNCHANGED <<server, device, card, listen, offering, edits, past>>

RevertRemoves ==
    /\ menu.pc = "discard"
    /\ \/ /\ Remove /\ faults' = faults
          /\ IF base.v = 0
             THEN /\ inForce' = Nothing /\ rev' = 0
                  /\ menu' = Resting /\ UNCHANGED <<active, base>>
             ELSE /\ menu' = [menu EXCEPT !.pc = "revert", !.doc = base]
                  /\ UNCHANGED device
       \/ /\ faults < MaxFaults /\ faults' = faults + 1
          /\ menu' = Resting
          /\ UNCHANGED <<cache, override, device>>
    /\ UNCHANGED <<server, listen, offering, edits, past>>

(* Another: what was read before the removal becomes the                  *)
(* published document again.                                               *)
RevertToRead ==
    /\ menu.pc = "revert"
    /\ Run(menu.doc, 0) /\ base' = menu.doc
    /\ dead' = IF rev > 0 THEN dead \cup {inForce.c} ELSE dead
    /\ menu' = Resting
    /\ UNCHANGED <<server, card, listen, offering, edits, refused, restarts>>

Revert ==
    /\ menu.pc = "revert"
    /\ Run(menu.doc, 0) /\ base' = base
    /\ dead' = IF rev > 0 THEN dead \cup {inForce.c} ELSE dead
    /\ menu' = Resting
    /\ UNCHANGED <<server, card, listen, offering, edits, refused, restarts>>

-----------------------------------------------------------------------------
(* A slip for OfferPending: an edit is offered only by the editor.         *)
OfferNothing ==
    /\ link /\ offering
    /\ offering' = FALSE
    /\ UNCHANGED <<room, up, down, link, drops, device, card, listen, menu,
                   edits, past>>

(* The reconciler: versions settle or the grace period ends, then whatever *)
(* is still local is offered.                                              *)
OfferPending ==
    /\ link /\ offering
    /\ offering' = FALSE
    /\ IF rev > 0 THEN Send ELSE UNCHANGED <<up, refused>>
    /\ UNCHANGED <<room, down, link, drops, device, card, listen, menu, edits,
                   dead, restarts>>

(* A slip for Adoptable: the version the edit was made on is not compared. *)
AdoptableOnAny == override # NoFile

(* What main restores at boot from the card.                               *)
Adoptable == override # NoFile /\ override.base = cache.v

Restart ==
    /\ restarts < MaxRestarts
    /\ restarts' = restarts + 1
    /\ link' = FALSE /\ up' = <<>> /\ down' = <<>>
    /\ listen' = Idle /\ menu' = Resting /\ offering' = FALSE
    /\ base' = cache
    /\ IF Adoptable
       THEN /\ Run([c |-> override.c, v |-> override.v], override.rev)
            /\ override' = override
       ELSE Run(cache, 0) /\ override' = NoFile
    /\ UNCHANGED <<room, drops, cache, faults, edits, dead, refused>>

Listening == Hear \/ ApplyPublished \/ RemoveOverride \/ CachePublished
                  \/ AdoptPublishedVersion \/ RemoveSettled
Editing   == ApplyLocal \/ SaveLocal \/ PublishLocal \/ RevertRemoves \/ Revert
Operator  == StartEdit \/ DropEdit \/ CheckToken \/ StartRevert
Outside   == OwnerPublishes \/ LinkDrops \/ Restart

Next == Outside \/ ServerTakes \/ Connect \/ Listening \/ Operator \/ Editing
        \/ OfferPending

Spec == Init /\ [][Next]_vars

(* The link comes back, the server answers, and no task of the device is   *)
(* starved.  The operator may walk away and the owner need not publish.    *)
Fairness ==
    /\ WF_vars(Connect) /\ WF_vars(ServerTakes) /\ WF_vars(Listening)
    /\ WF_vars(Editing) /\ WF_vars(OfferPending)

FairSpec == Spec /\ Fairness

-----------------------------------------------------------------------------

(* The version hello, heartbeat and telemetry report is the version of the *)
(* document that drives the relays, between any two steps of any task: the *)
(* server decides by it what to push, so a version reported for another    *)
(* document would keep the device on the wrong programme.                  *)
ReportsWhatRuns == active = inForce.v

(* An edit that a version new to the device superseded and replaced on the *)
(* card, or that the operator discarded, is never put back by a restart:   *)
(* the override file may outlive a removal that failed, or be written      *)
(* after it by the menu's thread, but then it sits on a version the card   *)
(* no longer holds.                                                        *)
DeadEditsStayDead == Adoptable => override.c \notin dead

(* The published document the device holds never goes back to an older     *)
(* version while the device runs, and the cached one never does at all:    *)
(* handlers of two sessions, late acknowledgements and restarts included.  *)
PublishedNeverRegresses ==
    [][/\ cache'.v >= cache.v
       /\ restarts' = restarts => base'.v >= base.v]_vars

(* A local edit does not stay unsettled for ever: it is superseded,        *)
(* acknowledged or discarded, or the last thing the server said to it was  *)
(* a refusal, which the next connection retries.                           *)
EditsSettle == rev > 0 ~> (rev = 0 \/ refused)

(* What the device calls published is what the server published under that *)
(* version.  Violated: the acknowledgement of an edit that a newer push    *)
(* has already superseded relabels the newer programme.                    *)
Quiet == listen.pc = "idle" /\ menu.pc = "idle" /\ link /\ up = <<>> /\ down = <<>>
PublishedIsServers ==
    Quiet /\ rev = 0 /\ active = Len(room) /\ active > 0
    => inForce.c = room[active]

=============================================================================
