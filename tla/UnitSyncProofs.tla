--------------------------- MODULE UnitSyncProofs ---------------------------
(***************************************************************************)
(* What is proved of UnitSync, for any units, values and number of changes *)
(* and faults: the card holds what memory holds, what was set here is not  *)
(* taken as published unsent, and a record does not overwrite it.          *)
(***************************************************************************)
EXTENDS UnitSync, WellFoundedInduction, TLAPS

-----------------------------------------------------------------------------
(* The invariant. *)

Known  == {e \in Unit : e.v = None => e.pub}
Reports == [u : Units, v : Values]
Down   == [type : {"apply", "ack", "nak"}, u : Units, v : Values \cup {None}]
Saves  == UNION {[file : {f}, snap : [f -> Known]] : f \in Files}

(* A unit without a value is never unpublished.  A task writes what memory *)
(* held of its file unless another task writes the same file, and a file   *)
(* nobody writes holds it.                                                 *)
MemoryOK ==
    /\ entry \in [Units -> Known] /\ card \in [Units -> Known]
    /\ saving \in [Tasks -> Saves \cup {NoSave}]
    /\ \A u \in Units : FileOf(u) \notin upset =>
          /\ \A t, s \in Tasks :
                saving[t].file = FileOf(u) /\ saving[s].file = FileOf(u) => t = s
          /\ \A t \in Tasks :
                saving[t].file = FileOf(u) => saving[t].snap[u] = entry[u]
          /\ (\A t \in Tasks : saving[t].file # FileOf(u)) => card[u] = entry[u]

QueuesOK ==
    /\ desired \in [Units -> Values \cup {None}]
    /\ up \in Seq(Reports) /\ down \in Seq(Down)

(* Where each task stands, and that it is not writing a file where it goes *)
(* on without looking.                                                     *)
TasksOK ==
    /\ menu \in [pc : {"idle", "report", "sent"}, u : Units \cup {0},
                 v : Values \cup {None}, lost : BOOLEAN]
    /\ menu.pc # "idle" => menu.u \in Units /\ menu.v \in Values
    /\ recon \in [pc : {"idle", "record", "offer", "setpoints", "modes", "sent"},
                  todo : SUBSET Reports, u : Units \cup {0}]
    /\ recon.pc = "sent" => recon.u \in Units /\ Free("recon")
    /\ rec \in [pc : {"idle", "answered", "modes", "setpoints"},
                by : {"loop", "recon"}, snap : [Units -> Values \cup {None}] \cup {<<>>},
                todo : SUBSET Units, unpub : SUBSET Units]
    /\ rec.pc # "idle" => rec.snap \in [Units -> Values \cup {None}]
    /\ rec.pc = "answered" => Free("rec")
    /\ menu.pc = "sent" => Free("menu")

(* Of a unit that was set here and not sent, every report under way is     *)
(* either of an older value, and then the unit is crossed, or the one that *)
(* is about to be sent.                                                    *)
OwedOK ==
    /\ owed \subseteq Units
    /\ \A u \in owed : entry[u].v # None
    /\ MarkedWasSent
    /\ \A i \in 1 .. Len(up) : up[i].u \in owed => up[i].u \in crossed
    /\ \A i \in 1 .. Len(down) :
          down[i].type = "ack" /\ down[i].u \in owed => down[i].u \in crossed
    /\ recon.pc = "sent" /\ recon.u \in owed => recon.u \in crossed
    /\ \A r \in recon.todo : r.u \in owed => r.u \in crossed \/ entry[r.u].v = r.v
    /\ menu.pc = "report" /\ menu.u \in owed => entry[menu.u].v = menu.v
    /\ menu.pc = "sent" => menu.u \notin owed

(* What an adoption has yet to do and did not find unpublished was         *)
(* published when it looked.                                               *)
RecordOK ==
    rec.pc \in {"modes", "setpoints"} =>
        \A u \in rec.todo : u \in owed /\ u \notin rec.unpub => u \in touched \cup crossed

Inv == MemoryOK /\ QueuesOK /\ TasksOK /\ OwedOK /\ RecordOK

-----------------------------------------------------------------------------
(* What the operators on memory do. *)

(* Task t may have changed unit u and started a save; no more.             *)
Only(t, u) ==
    /\ MemoryOK'
    /\ \A w \in Units : w # u => entry'[w] = entry[w]
    /\ \A s \in Tasks : s # t => saving'[s] = saving[s]

LEMMA FileOfUnits ==
    /\ \A u \in Units : FileOf(u) \in Files /\ u \in FileOf(u)
    /\ \A f \in Files : f \subseteq Units
    /\ \A f \in Files : \A u \in f : FileOf(u) = f
    /\ \A u \in Units : FileOf(u) # {}
BY UnitSyncAssumption DEF FileOf, Files, Units

LEMMA PutOnly ==
    ASSUME MemoryOK, NEW t \in Tasks, NEW u \in Units, NEW e \in Known,
           Free(t), Put(t, u, e), UNCHANGED card
    PROVE  Only(t, u) /\ entry'[u] = e
<1> DEFINE f == FileOf(u)
           new == [file |-> f, snap |-> [w \in f |-> entry'[w]]]
<1>1. /\ entry' \in [Units -> Known] /\ entry'[u] = e
      /\ \A w \in Units : w # u => entry'[w] = entry[w]
  BY DEF MemoryOK, Put
<1>2. f \in Files /\ u \in f /\ f \subseteq Units /\ \A w \in f : FileOf(w) = f
  BY FileOfUnits
<1>3. new \in Saves
  <2>1. [w \in f |-> entry'[w]] \in [f -> Known]
    BY <1>1, <1>2
  <2>2. QED
    BY <2>1, <1>2 DEF Saves
<1>4. /\ saving' \in [Tasks -> Saves \cup {NoSave}] /\ saving'[t] = new
      /\ \A s \in Tasks : s # t => saving'[s] = saving[s]
  BY <1>3 DEF MemoryOK, Put
<1>5. card' \in [Units -> Known]
  BY DEF MemoryOK
<1>6. ASSUME NEW w \in Units, FileOf(w) \notin upset'
      PROVE  /\ \A r, s \in Tasks :
                   saving'[r].file = FileOf(w) /\ saving'[s].file = FileOf(w) => r = s
             /\ \A s \in Tasks :
                   saving'[s].file = FileOf(w) => saving'[s].snap[w] = entry'[w]
             /\ (\A s \in Tasks : saving'[s].file # FileOf(w)) => card'[w] = entry'[w]
  <2>1. CASE FileOf(w) = f
    <3>1. \A s \in Tasks : saving[s].file # f
      BY <1>6, <2>1 DEF Put, Writers
    <3>2. \A s \in Tasks : saving'[s].file = f => s = t
      BY <3>1, <1>4
    <3>3. w \in f
      BY <2>1, FileOfUnits
    <3>4. saving'[t].file = f /\ saving'[t].snap[w] = entry'[w]
      BY <3>3, <1>4
    <3>5. QED
      BY <2>1, <3>2, <3>4
  <2>2. CASE FileOf(w) # f
    <3>1. FileOf(w) \notin upset
      BY <1>6, <2>2 DEF Put
    <3>2. entry'[w] = entry[w]
      BY <1>1, <2>2
    <3>3. saving[t].file # FileOf(w) /\ saving'[t].file # FileOf(w)
      BY <1>4, <2>2, FileOfUnits DEF Free, NoSave
    <3>4. \A s \in Tasks : saving'[s].file = FileOf(w) =>
             s # t /\ saving'[s] = saving[s]
      BY <1>4, <3>3
    <3>5. (\A s \in Tasks : saving'[s].file # FileOf(w)) =>
             \A s \in Tasks : saving[s].file # FileOf(w)
      BY <1>4, <3>3
    <3>6. QED
      BY <3>1, <3>2, <3>4, <3>5 DEF MemoryOK
  <2>3. QED
    BY <2>1, <2>2
<1>7. MemoryOK'
  BY <1>1, <1>4, <1>5, <1>6 DEF MemoryOK
<1>8. QED
  BY <1>1, <1>4, <1>7 DEF Only

LEMMA StillOnly ==
    ASSUME MemoryOK, NEW t, NEW u, UNCHANGED <<memory, card>>
    PROVE  Only(t, u)
<1>1. MemoryOK'
  BY DEF MemoryOK, memory
<1>2. QED
  BY <1>1 DEF Only, memory

(* A mark leaves the values alone.                                         *)
LEMMA MarkOnly ==
    ASSUME MemoryOK, NEW t \in Tasks, NEW u \in Units, NEW known \in BOOLEAN,
           Free(t), Mark(t, u, known), UNCHANGED card
    PROVE  /\ Only(t, u)
           /\ \A w \in Units : entry'[w].v = entry[w].v
           /\ ~known /\ entry'[u].pub => entry[u].pub
<1>1. CASE UNCHANGED memory
  BY <1>1, StillOnly DEF memory
<1>2. CASE entry[u].v # None /\ Put(t, u, [entry[u] EXCEPT !.pub = known])
  <2> DEFINE e == [entry[u] EXCEPT !.pub = known]
  <2>1. entry[u] \in Known
    BY DEF MemoryOK
  <2>2. e \in Known /\ e.v = entry[u].v /\ e.pub = known
    BY <1>2, <2>1 DEF Known, Unit
  <2>3. Only(t, u) /\ entry'[u] = e
    BY <1>2, <2>2, PutOnly
  <2>4. QED
    BY <2>2, <2>3 DEF Only
<1>3. QED
  BY <1>1, <1>2 DEF Mark

LEMMA FollowOnly ==
    ASSUME MemoryOK, NEW t \in Tasks, NEW u \in Units, NEW v \in Values \cup {None},
           Free(t), Follow(t, u, v), UNCHANGED card
    PROVE  Only(t, u)
<1>1. CASE UNCHANGED memory
  BY <1>1, StillOnly
<1>2. CASE Put(t, u, [v |-> v, pub |-> TRUE])
  <2>1. [v |-> v, pub |-> TRUE] \in Known
    BY DEF Known, Unit
  <2>2. QED
    BY <1>2, <2>1, PutOnly
<1>3. QED
  BY <1>1, <1>2 DEF Follow

(* A task that is free and not t stays free.                               *)
LEMMA StaysFree ==
    ASSUME NEW t \in Tasks, NEW u, Only(t, u), NEW s \in Tasks, s # t, Free(s)
    PROVE  Free(s)'
BY DEF Only, Free
-----------------------------------------------------------------------------
(* The steps of the operator and of the task at the menu.                  *)

LEMMA AppendedUp ==
    ASSUME NEW s \in Seq(Reports), NEW m \in Reports
    PROVE  /\ Append(s, m) \in Seq(Reports) /\ Len(Append(s, m)) = Len(s) + 1
           /\ \A i \in 1 .. Len(s) : Append(s, m)[i] = s[i]
           /\ Append(s, m)[Len(s) + 1] = m
OBVIOUS

LEMMA AppendedDown ==
    ASSUME NEW s \in Seq(Down), NEW m \in Down
    PROVE  /\ Append(s, m) \in Seq(Down) /\ Len(Append(s, m)) = Len(s) + 1
           /\ \A i \in 1 .. Len(s) : Append(s, m)[i] = s[i]
           /\ Append(s, m)[Len(s) + 1] = m
OBVIOUS

LEMMA FreshKnown == \A u \in Units : Fresh[u] \in Known /\ Fresh[u].pub
BY UnitSyncAssumption DEF Fresh, Known, Unit

(* A value chosen at the panel: every older report of u that is under way  *)
(* makes it crossed, and an adoption that did not look again touched.      *)
LEMMA SetHereKeeps ==
    ASSUME Inv, NEW u \in Units, NEW v \in Values, SetHere(u, v)
    PROVE  Inv'
<1> DEFINE e == [v |-> v, pub |-> FALSE]
<1>1. e \in Known /\ e.v # None
  BY UnitSyncAssumption DEF Known, Unit, None
<1>2. Only("menu", u) /\ entry'[u] = e
  <2>1. CASE entry[u] = e /\ UNCHANGED memory
    BY <2>1, StillOnly DEF Inv, SetHere, memory
  <2>2. CASE Put("menu", u, e)
    BY <2>2, <1>1, PutOnly DEF Inv, SetHere, Tasks
  <2>3. QED
    BY <2>1, <2>2 DEF SetHere
<1>3. /\ UNCHANGED <<card, desired, link, up, down, recon, rec>>
      /\ menu' = [AtMenu EXCEPT !.pc = "report", !.u = u, !.v = v]
      /\ owed' = owed \cup {u}
      /\ touched' = IF rec.pc \in {"modes", "setpoints"} THEN touched \cup {u} ELSE {}
      /\ crossed' = IF Underway(u) THEN crossed \cup {u} ELSE crossed \ {u}
  BY DEF SetHere, Changed, server
<1>4. MemoryOK'
  BY <1>2 DEF Only
<1>5. QueuesOK'
  BY <1>3 DEF Inv, QueuesOK
<1>6. TasksOK'
  <2>1. \A t \in {"recon", "rec"} : Free(t) => Free(t)'
    BY <1>2, StaysFree DEF Tasks
  <2>2. menu'.pc = "report" /\ menu'.u = u /\ menu'.v = v /\ menu'.lost = FALSE
        /\ menu' \in [pc : {"idle", "report", "sent"}, u : Units \cup {0},
                 v : Values \cup {None}, lost : BOOLEAN]
    BY <1>3 DEF AtMenu
  <2>3. QED
    BY <1>3, <2>1, <2>2 DEF Inv, TasksOK
<1>7. OwedOK'
  <2>1. \A w \in owed : w # u => entry'[w] = entry[w] /\ (w \in crossed <=> w \in crossed')
    BY <1>2, <1>3 DEF Only, Inv, OwedOK
  <2>2. Underway(u) => u \in crossed'
    BY <1>3
  <2>3. \A w \in owed' : entry'[w].v # None /\ (entry'[w].pub => w \in crossed')
    BY <1>1, <1>2, <1>3, <2>1 DEF Inv, OwedOK, MarkedWasSent
  <2>4. \A i \in 1 .. Len(up) : up[i].u \in owed' => up[i].u \in crossed'
    BY <1>3, <2>1, <2>2 DEF Inv, OwedOK, Underway
  <2>5. \A i \in 1 .. Len(down) :
          down[i].type = "ack" /\ down[i].u \in owed' => down[i].u \in crossed'
    BY <1>3, <2>1, <2>2 DEF Inv, OwedOK, Underway
  <2>6. recon.pc = "sent" /\ recon.u \in owed' => recon.u \in crossed'
    BY <1>3, <2>1, <2>2 DEF Inv, OwedOK, Underway
  <2>7. \A r \in recon.todo : r.u \in owed' => r.u \in crossed' \/ entry'[r.u].v = r.v
    BY <1>3, <2>1, <2>2 DEF Inv, OwedOK, Underway
  <2>8. menu'.pc = "report" /\ menu'.u = u /\ menu'.v = entry'[u].v
    BY <1>2, <1>3 DEF AtMenu
  <2>9. owed' \subseteq Units
    BY <1>3 DEF Inv, OwedOK
  <2>10. QED
    BY <1>3, <2>3, <2>4, <2>5, <2>6, <2>7, <2>8, <2>9 DEF OwedOK, MarkedWasSent
<1>8. RecordOK'
  <2>1. crossed \ {u} \subseteq crossed'
    BY <1>3
  <2>2. QED
    BY <1>3, <2>1 DEF Inv, RecordOK
<1>9. QED
  BY <1>4, <1>5, <1>6, <1>7, <1>8 DEF Inv

(* What lowers owed and leaves the values still owed alone breaks nothing. *)
LEMMA LessOwed ==
    ASSUME OwedOK, NEW u, owed' \subseteq owed \ {u}, crossed' \cup {u} = crossed \cup {u},
           \A w \in Units : w # u => entry'[w] = entry[w],
           UNCHANGED <<up, menu, recon>>,
           down' = down \/ (down # <<>> /\ down' = Tail(down)), down \in Seq(Down)
    PROVE  OwedOK'
<1>1. \A w \in owed' : w \in owed /\ w \in Units /\ entry'[w] = entry[w]
                       /\ (w \in crossed <=> w \in crossed')
  BY DEF OwedOK
<1>2. \A i \in 1 .. Len(down') : \E j \in 1 .. Len(down) : down'[i] = down[j]
  <2>1. CASE down # <<>> /\ down' = Tail(down)
    <3>1. Len(down') = Len(down) - 1 /\ \A i \in 1 .. Len(down') : down'[i] = down[i + 1]
      BY <2>1
    <3>2. QED
      BY <3>1
  <2>2. QED
    BY <2>1
<1>3. \A i \in 1 .. Len(down') :
        down'[i].type = "ack" /\ down'[i].u \in owed' => down'[i].u \in crossed'
  BY <1>1, <1>2 DEF OwedOK
<1>4. MarkedWasSent'
  BY <1>1 DEF OwedOK, MarkedWasSent
<1>5. QED
  BY <1>1, <1>3, <1>4 DEF OwedOK

LEMMA ClearHereKeeps ==
    ASSUME Inv, NEW u \in Units, ClearHere(u)
    PROVE  Inv'
<1>1. Only("menu", u) /\ entry'[u] = Fresh[u]
  BY FreshKnown, PutOnly DEF Inv, ClearHere, Tasks
<1>2. /\ UNCHANGED <<card, desired, link, up, down, recon, rec, menu>>
      /\ owed' = owed \ {u}
      /\ touched' = IF rec.pc \in {"modes", "setpoints"} THEN touched \cup {u} ELSE {}
      /\ crossed' = IF Underway(u) THEN crossed \cup {u} ELSE crossed \ {u}
      /\ menu.pc = "idle"
  BY DEF ClearHere, Changed, server
<1>3. MemoryOK'
  BY <1>1 DEF Only
<1>4. QueuesOK'
  BY <1>2 DEF Inv, QueuesOK
<1>5. TasksOK'
  <2>1. \A t \in {"recon", "rec"} : Free(t) => Free(t)'
    BY <1>1, StaysFree DEF Tasks
  <2>2. QED
    BY <1>2, <2>1 DEF Inv, TasksOK
<1>6. OwedOK'
  BY <1>1, <1>2, LessOwed DEF Inv, Only, QueuesOK
<1>7. RecordOK'
  BY <1>2 DEF Inv, RecordOK
<1>8. QED
  BY <1>3, <1>4, <1>5, <1>6, <1>7 DEF Inv

(* A value that is sent is no longer owed, or is an older one.             *)
LEMMA SendKeeps ==
    ASSUME Inv, NEW u \in Units, NEW v \in Values, Send(u, v),
           u \in owed => u \in crossed \/ entry[u].v = v
    PROVE  /\ up' \in Seq(Reports)
           /\ owed' \subseteq owed /\ (u \in owed' => u \in crossed)
           /\ \A i \in 1 .. Len(up') : up'[i].u \in owed' => up'[i].u \in crossed
<1>1. [u |-> u, v |-> v] \in Reports /\ up \in Seq(Reports)
  BY DEF Reports, Inv, QueuesOK
<1>2. /\ owed' \subseteq owed /\ (u \in owed' => u \in crossed)
  BY DEF Send
<1>3. up' = Append(up, [u |-> u, v |-> v])
  BY DEF Send
<1>4. \A i \in 1 .. Len(up) : up[i].u \in owed' => up[i].u \in crossed
  BY <1>2 DEF Inv, OwedOK
<1>5. /\ up' \in Seq(Reports) /\ Len(up') = Len(up) + 1
      /\ \A i \in 1 .. Len(up) : up'[i] = up[i]
      /\ up'[Len(up) + 1].u = u
  BY <1>1, <1>3, AppendedUp
<1>6. \A i \in 1 .. Len(up') : i \in 1 .. Len(up) \/ i = Len(up) + 1
  BY <1>1, <1>5
<1>7. QED
  BY <1>2, <1>4, <1>5, <1>6

LEMMA ReportKeeps ==
    ASSUME Inv, Report
    PROVE  Inv'
<1>1. /\ menu.pc = "report" /\ Free("menu") /\ menu.u \in Units /\ menu.v \in Values
      /\ UNCHANGED <<entry, saving, upset, card, desired, link, down, recon, rec,
                     touched, crossed>>
      /\ menu.u \in owed => entry[menu.u].v = menu.v
  BY DEF Report, memory, Inv, TasksOK, OwedOK
<1>2. CASE link
  <2>1. Send(menu.u, menu.v)
    BY <1>2 DEF Report
  <2>2. /\ up' \in Seq(Reports) /\ owed' \subseteq owed /\ menu.u \notin owed'
        /\ \A i \in 1 .. Len(up') : up'[i].u \in owed' => up'[i].u \in crossed
    <3>1. menu.u \notin owed'
      BY <1>1, <2>1 DEF Send
    <3>2. QED
      BY <1>1, <2>1, <3>1, SendKeeps
  <2>3. menu' = [menu EXCEPT !.pc = "sent"] \/ menu' = AtMenu
    BY <1>2 DEF Report
  <2>4. MemoryOK'
    BY <1>1 DEF Inv, MemoryOK
  <2>5. QueuesOK'
    BY <1>1, <2>2 DEF Inv, QueuesOK
  <2>6. TasksOK'
    <3>1. /\ menu' \in [pc : {"idle", "report", "sent"}, u : Units \cup {0},
                       v : Values \cup {None}, lost : BOOLEAN]
          /\ menu'.pc # "idle" => menu'.u \in Units /\ menu'.v \in Values
      <4>1. CASE menu' = [menu EXCEPT !.pc = "sent"]
        BY <1>1, <4>1 DEF Inv, TasksOK
      <4>2. CASE menu' = AtMenu
        BY <4>2 DEF AtMenu
      <4>3. QED
        BY <2>3, <4>1, <4>2
    <3>2. QED
      BY <1>1, <3>1 DEF Inv, TasksOK, Free
  <2>7. OwedOK'
    <3>1. menu'.pc # "report" /\ (menu'.pc = "sent" => menu'.u = menu.u)
      BY <2>3 DEF AtMenu, Inv, TasksOK
    <3>2. QED
      BY <1>1, <2>2, <3>1 DEF Inv, OwedOK, MarkedWasSent
  <2>8. RecordOK'
    BY <1>1, <2>2 DEF Inv, RecordOK
  <2>9. QED
    BY <2>4, <2>5, <2>6, <2>7, <2>8 DEF Inv
<1>3. CASE ~link
  <2>1. menu' = AtMenu /\ UNCHANGED <<up, owed>>
    BY <1>3 DEF Report
  <2>2. MemoryOK' /\ QueuesOK' /\ RecordOK'
    BY <1>1, <2>1 DEF Inv, MemoryOK, QueuesOK, RecordOK
  <2>3. TasksOK'
    BY <1>1, <2>1 DEF Inv, TasksOK, Free, AtMenu
  <2>4. OwedOK'
    BY <1>1, <2>1 DEF Inv, OwedOK, MarkedWasSent, AtMenu
  <2>5. QED
    BY <2>2, <2>3, <2>4 DEF Inv
<1>4. QED
  BY <1>2, <1>3

(* A step of t that leaves the values alone and the queues too, and        *)
(* publishes at most a unit that is not owed or is crossed.                *)
LEMMA MarkingKeeps ==
    ASSUME Inv, NEW t \in Tasks, NEW u \in Units, Only(t, u),
           \A w \in Units : entry'[w].v = entry[w].v,
           entry'[u].pub /\ ~entry[u].pub /\ u \in owed => u \in crossed,
           UNCHANGED <<owed, crossed, up, menu, recon>>,
           down' = down \/ (down # <<>> /\ down' = Tail(down))
    PROVE  OwedOK'
<1>1. OwedOK /\ down \in Seq(Down)
  BY DEF Inv, QueuesOK
<1>2. \A i \in 1 .. Len(down') : \E j \in 1 .. Len(down) : down'[i] = down[j]
  <2>1. CASE down # <<>> /\ down' = Tail(down)
    <3>1. \A i \in 1 .. Len(down') : i + 1 \in 1 .. Len(down) /\ down'[i] = down[i + 1]
      BY <1>1, <2>1
    <3>2. QED
      BY <3>1
  <2>2. QED
    BY <2>1
<1>3. \A i \in 1 .. Len(down') :
        down'[i].type = "ack" /\ down'[i].u \in owed => down'[i].u \in crossed
  BY <1>1, <1>2 DEF OwedOK
<1>4. MarkedWasSent'
  <2> SUFFICES ASSUME NEW w \in Units, w \in owed, entry'[w].pub
               PROVE  w \in crossed
    BY DEF MarkedWasSent
  <2>1. w # u => entry'[w] = entry[w]
    BY DEF Only
  <2>2. entry[w].pub => w \in crossed
    BY <1>1 DEF OwedOK, MarkedWasSent
  <2>3. QED
    BY <2>1, <2>2
<1>5. \A w \in owed : w \in Units /\ entry'[w].v = entry[w].v
  BY <1>1 DEF OwedOK
<1>6. menu.pc = "report" => entry'[menu.u].v = entry[menu.u].v
  BY DEF Inv, TasksOK
<1>7. \A r \in recon.todo : r.u \in owed => entry'[r.u].v = entry[r.u].v
  BY <1>5
<1>8. QED
  BY <1>1, <1>3, <1>4, <1>5, <1>6, <1>7 DEF OwedOK

LEMMA MarkReportedKeeps ==
    ASSUME Inv, MarkReported
    PROVE  Inv'
<1>1. /\ menu.pc = "sent" /\ menu' = AtMenu /\ menu.u \in Units /\ Free("menu")
      /\ menu.u \notin owed
      /\ UNCHANGED <<card, desired, link, up, down, recon, rec, touched, owed, crossed>>
  BY DEF MarkReported, Inv, TasksOK, OwedOK, server, past
<1>2. Only("menu", menu.u) /\ \A w \in Units : entry'[w].v = entry[w].v
  <2>1. CASE Mark("menu", menu.u, TRUE)
    BY <1>1, <2>1, MarkOnly DEF Inv, Tasks
  <2>2. CASE UNCHANGED memory
    BY <1>1, <2>2, StillOnly DEF Inv, memory
  <2>3. QED
    BY <2>1, <2>2 DEF MarkReported
<1>3. MemoryOK'
  BY <1>2 DEF Only
<1>4. QueuesOK' /\ RecordOK'
  BY <1>1 DEF Inv, QueuesOK, RecordOK
<1>5. TasksOK'
  <2>1. \A t \in {"recon", "rec"} : Free(t) => Free(t)'
    BY <1>2, StaysFree DEF Tasks
  <2>2. QED
    BY <1>1, <2>1 DEF Inv, TasksOK, AtMenu
<1>6. OwedOK'
  <2>1. \A w \in owed : w \in Units /\ w # menu.u /\ entry'[w] = entry[w]
    BY <1>1, <1>2 DEF Inv, OwedOK, Only
  <2>2. QED
    BY <1>1, <2>1 DEF Inv, OwedOK, MarkedWasSent, AtMenu
<1>7. QED
  BY <1>3, <1>4, <1>5, <1>6 DEF Inv
-----------------------------------------------------------------------------
(* The steps of the server and the link. *)

LEMMA AppSetsKeeps ==
    ASSUME Inv, NEW u \in Units, NEW v \in Values, AppSets(u, v)
    PROVE  Inv'
<1> DEFINE m == [type |-> "apply", u |-> u, v |-> v]
<1>1. /\ UNCHANGED <<entry, saving, upset, card, link, up, menu, recon, rec, touched,
                     owed, crossed>>
      /\ down' = Append(down, m) \/ down' = down
      /\ desired' \in [Units -> Values \cup {None}]
  BY DEF AppSets, memory, past, Inv, QueuesOK
<1>2. m \in Down /\ down \in Seq(Down)
  BY DEF Down, Inv, QueuesOK
<1>3. MemoryOK' /\ TasksOK' /\ RecordOK'
  BY <1>1 DEF Inv, MemoryOK, TasksOK, RecordOK, Free
<1>4. down' \in Seq(Down) /\ QueuesOK'
  BY <1>1, <1>2, AppendedDown DEF Inv, QueuesOK
<1>5. \A i \in 1 .. Len(down') : \/ i \in 1 .. Len(down) /\ down'[i] = down[i]
                                 \/ down'[i].type # "ack"
  <2>1. CASE down' = Append(down, m)
    <3>1. /\ Len(down') = Len(down) + 1 /\ down'[Len(down) + 1] = m
          /\ \A i \in 1 .. Len(down) : down'[i] = down[i]
      BY <1>2, <2>1, AppendedDown
    <3>2. QED
      BY <1>2, <3>1
  <2>2. QED
    BY <1>1, <2>1
<1>6. OwedOK'
  BY <1>1, <1>5 DEF Inv, OwedOK, MarkedWasSent
<1>7. QED
  BY <1>3, <1>4, <1>6 DEF Inv

LEMMA ServerTakesKeeps ==
    ASSUME Inv, ServerTakes
    PROVE  Inv'
<1> DEFINE m == Head(up)
<1>1. /\ up \in Seq(Reports) /\ up # <<>> /\ up' = Tail(up) /\ down \in Seq(Down)
      /\ UNCHANGED <<entry, saving, upset, card, link, menu, recon, rec, touched,
                     owed, crossed>>
  BY DEF ServerTakes, memory, Inv, QueuesOK
<1>2. /\ m \in Reports /\ m = up[1] /\ m.u \in Units /\ m.v \in Values
      /\ m.u \in owed => m.u \in crossed
  <2>1. m = up[1] /\ 1 \in 1 .. Len(up) /\ m \in Reports
    BY <1>1
  <2>2. m.u \in owed => m.u \in crossed
    BY <2>1 DEF Inv, OwedOK
  <2>3. QED
    BY <2>1, <2>2 DEF Reports
<1>3. \/ UNCHANGED <<desired, down>>
      \/ \E kind \in {"ack", "nak"} : down' = Answer(kind, m.u)
  BY DEF ServerTakes
<1>4. desired' \in [Units -> Values \cup {None}]
  BY <1>2 DEF ServerTakes, Inv, QueuesOK
<1>5. /\ down' \in Seq(Down)
      /\ \A i \in 1 .. Len(down') :
            down'[i].type = "ack" /\ down'[i].u \in owed => down'[i].u \in crossed
  <2>1. CASE down' = down
    BY <1>1, <2>1 DEF Inv, OwedOK
  <2>2. ASSUME NEW kind \in {"ack", "nak"}, down' = Answer(kind, m.u)
        PROVE  /\ down' \in Seq(Down)
               /\ \A i \in 1 .. Len(down') :
                     down'[i].type = "ack" /\ down'[i].u \in owed
                     => down'[i].u \in crossed
    <3> DEFINE a == [type |-> kind, u |-> m.u, v |-> None]
    <3>1. a \in Down /\ a.u = m.u /\ down' = Append(down, a)
      BY <1>2, <2>2 DEF Down, Answer
    <3>2. /\ down' \in Seq(Down) /\ Len(down') = Len(down) + 1
          /\ down'[Len(down) + 1] = a
          /\ \A i \in 1 .. Len(down) : down'[i] = down[i]
      BY <1>1, <3>1, AppendedDown
    <3>3. \A i \in 1 .. Len(down') : i \in 1 .. Len(down) \/ i = Len(down) + 1
      BY <1>1, <3>2
    <3>4. \A i \in 1 .. Len(down) :
             down[i].type = "ack" /\ down[i].u \in owed => down[i].u \in crossed
      BY DEF Inv, OwedOK
    <3>5. QED
      BY <1>2, <3>1, <3>2, <3>3, <3>4
  <2>3. QED
    BY <1>3, <2>1, <2>2
<1>6. /\ up' \in Seq(Reports)
      /\ \A i \in 1 .. Len(up') : up'[i].u \in owed => up'[i].u \in crossed
  <2>1. /\ up' \in Seq(Reports) /\ Len(up') = Len(up) - 1
        /\ \A i \in 1 .. Len(up') : i + 1 \in 1 .. Len(up) /\ up'[i] = up[i + 1]
    BY <1>1
  <2>2. QED
    BY <2>1 DEF Inv, OwedOK
<1>7. MemoryOK' /\ TasksOK' /\ RecordOK'
  BY <1>1 DEF Inv, MemoryOK, TasksOK, RecordOK, Free
<1>8. QueuesOK'
  BY <1>4, <1>5, <1>6 DEF QueuesOK
<1>9. OwedOK'
  BY <1>1, <1>5, <1>6 DEF Inv, OwedOK, MarkedWasSent
<1>10. QED
  BY <1>7, <1>8, <1>9 DEF Inv

LEMMA EmptyQueues == <<>> \in Seq(Reports) /\ <<>> \in Seq(Down) /\ Len(<<>>) = 0
OBVIOUS

LEMMA LinkDropsKeeps ==
    ASSUME Inv, LinkDrops
    PROVE  Inv'
<1>1. /\ UNCHANGED <<entry, saving, upset, card, desired, touched, owed, crossed>>
      /\ up' = <<>> /\ down' = <<>> /\ recon' = NoRecon
      /\ rec' = NoRec \/ rec' = rec
      /\ menu' = [menu EXCEPT !.lost = menu.pc = "sent"]
  BY DEF LinkDrops, memory, past
<1>2. MemoryOK'
  BY <1>1 DEF Inv, MemoryOK
<1>3. QueuesOK'
  BY <1>1, EmptyQueues DEF Inv, QueuesOK
<1>4. TasksOK'
  <2>1. /\ menu' \in [pc : {"idle", "report", "sent"}, u : Units \cup {0},
                     v : Values \cup {None}, lost : BOOLEAN]
        /\ menu'.pc = menu.pc /\ menu'.u = menu.u /\ menu'.v = menu.v
    BY <1>1 DEF Inv, TasksOK
  <2>2. /\ rec' \in [pc : {"idle", "answered", "modes", "setpoints"},
                by : {"loop", "recon"}, snap : [Units -> Values \cup {None}] \cup {<<>>},
                todo : SUBSET Units, unpub : SUBSET Units]
        /\ rec'.pc # "idle" => rec'.snap \in [Units -> Values \cup {None}]
        /\ rec'.pc = "answered" => Free("rec")'
    BY <1>1 DEF Inv, TasksOK, NoRec, Free
  <2>3. /\ recon' \in [pc : {"idle", "record", "offer", "setpoints", "modes", "sent"},
                  todo : SUBSET Reports, u : Units \cup {0}]
        /\ recon'.pc # "sent"
    BY <1>1 DEF NoRecon
  <2>4. menu'.pc = "sent" => Free("menu")'
    BY <1>1, <2>1 DEF Inv, TasksOK, Free
  <2>5. QED
    BY <2>1, <2>2, <2>3, <2>4 DEF TasksOK, Inv
<1>5. OwedOK'
  <2>1. menu'.pc = menu.pc /\ menu'.u = menu.u /\ menu'.v = menu.v
    BY <1>1 DEF Inv, TasksOK
  <2>2. recon'.pc = "idle" /\ recon'.todo = {}
    BY <1>1 DEF NoRecon
  <2>3. QED
    BY <1>1, <2>1, <2>2, EmptyQueues DEF Inv, OwedOK, MarkedWasSent
<1>6. RecordOK'
  BY <1>1 DEF Inv, RecordOK, NoRec
<1>7. QED
  BY <1>2, <1>3, <1>4, <1>5, <1>6 DEF Inv

LEMMA ConnectKeeps ==
    ASSUME Inv, Connect
    PROVE  Inv'
<1>1. /\ UNCHANGED <<entry, saving, upset, card, desired, up, down, menu, rec, touched,
                     owed, crossed>>
      /\ recon' = [NoRecon EXCEPT !.pc = "record"]
  BY DEF Connect, memory, past
<1>2. MemoryOK' /\ QueuesOK' /\ RecordOK'
  BY <1>1 DEF Inv, MemoryOK, QueuesOK, RecordOK
<1>3. TasksOK'
  BY <1>1 DEF Inv, TasksOK, Free, NoRecon
<1>4. OwedOK'
  BY <1>1 DEF Inv, OwedOK, MarkedWasSent, NoRecon
<1>5. QED
  BY <1>2, <1>3, <1>4 DEF Inv

LEMMA HearKeeps ==
    ASSUME Inv, Hear
    PROVE  Inv'
<1> DEFINE m == Head(down)
<1>1. /\ down \in Seq(Down) /\ down # <<>> /\ down' = Tail(down) /\ Free("listen")
      /\ UNCHANGED <<card, desired, link, up, menu, recon, rec, touched, crossed>>
  BY DEF Hear, Inv, QueuesOK
<1>2. /\ m.type \in {"apply", "ack", "nak"} /\ m.u \in Units /\ m.v \in Values \cup {None}
      /\ m.type = "ack" /\ m.u \in owed => m.u \in crossed
  <2>1. m = down[1] /\ 1 \in 1 .. Len(down) /\ m \in Down
    BY <1>1
  <2>2. m.type = "ack" /\ m.u \in owed => m.u \in crossed
    BY <2>1 DEF Inv, OwedOK
  <2>3. QED
    BY <2>1, <2>2 DEF Down
<1>3. /\ Only("listen", m.u)
      /\ \/ owed' = owed \ {m.u}
         \/ /\ owed' = owed
            /\ \A w \in Units : entry'[w].v = entry[w].v
            /\ entry'[m.u].pub /\ ~entry[m.u].pub => m.type = "ack"
  <2>1. CASE m.type = "apply" /\ Follow("listen", m.u, m.v)
    BY <1>1, <1>2, <2>1, FollowOnly DEF Hear, Inv, Tasks
  <2>2. CASE m.type = "ack" /\ Mark("listen", m.u, TRUE)
    BY <1>1, <1>2, <2>2, MarkOnly DEF Hear, Inv, Tasks
  <2>3. CASE m.type = "nak" /\ Mark("listen", m.u, FALSE)
    BY <1>1, <1>2, <2>3, MarkOnly DEF Hear, Inv, Tasks
  <2>4. CASE m.type = "nak" /\ UNCHANGED memory
    BY <1>1, <1>2, <2>4, StillOnly DEF Hear, Inv, memory
  <2>5. QED
    BY <1>2, <2>1, <2>2, <2>3, <2>4 DEF Hear
<1>4. MemoryOK'
  BY <1>3 DEF Only
<1>5. QueuesOK'
  BY <1>1 DEF Inv, QueuesOK
<1>6. TasksOK'
  <2>1. \A t \in {"recon", "rec", "menu"} : Free(t) => Free(t)'
    BY <1>2, <1>3, StaysFree DEF Tasks
  <2>2. QED
    BY <1>1, <2>1 DEF Inv, TasksOK
<1>7. OwedOK'
  <2>1. CASE owed' = owed \ {m.u}
    BY <1>1, <1>3, <2>1, LessOwed DEF Inv, Only
  <2>2. CASE /\ owed' = owed
             /\ \A w \in Units : entry'[w].v = entry[w].v
             /\ entry'[m.u].pub /\ ~entry[m.u].pub => m.type = "ack"
    BY <1>1, <1>2, <1>3, <2>2, MarkingKeeps DEF Tasks
  <2>3. QED
    BY <1>3, <2>1, <2>2
<1>8. RecordOK'
  <2>1. owed' \subseteq owed
    BY <1>3
  <2>2. QED
    BY <1>1, <2>1 DEF Inv, RecordOK
<1>9. QED
  BY <1>4, <1>5, <1>6, <1>7, <1>8 DEF Inv
-----------------------------------------------------------------------------
(* The device record. *)

(* The first of a set of numbers exists, and so does the first of the      *)
(* offers.                                                                 *)
Less == {p \in Nat \X Nat : p[1] < p[2]}

LEMMA HasLeast ==
    ASSUME NEW S \in SUBSET Nat, S # {}
    PROVE  \E x \in S : \A y \in S : x <= y
<1>1. Less = OpToRel(<, Nat)
  BY DEF OpToRel, Less
<1>2. IsWellFoundedOn(Less, Nat)
  BY <1>1, NatLessThanWellFounded
<1>3. PICK x \in S : \A y \in S : <<y, x>> \notin Less
  BY <1>2, WFMin
<1>4. \A y \in S : <<y, x>> \in Nat \X Nat /\ <<y, x>>[1] = y /\ <<y, x>>[2] = x
  OBVIOUS
<1>5. \A y \in S : y < x => <<y, x>> \in Less
  BY <1>4 DEF Less
<1>6. \A y \in S : ~ (y < x)
  BY <1>3, <1>5, Zenon
<1>7. S \subseteq Nat
  OBVIOUS
<1>8. \A y \in S : x <= y
  BY <1>6, <1>7
<1>9. QED
  BY <1>8

LEMMA UnitsAreNumbers == Units \subseteq Nat
BY UnitSyncAssumption DEF Units

LEMMA MinWork ==
    ASSUME NEW us \in SUBSET Units, NEW unpub, Work(us, unpub) # {}
    PROVE  Min(Work(us, unpub)) \in Work(us, unpub)
<1>1. Work(us, unpub) \in SUBSET Nat
  BY UnitsAreNumbers DEF Work
<1>2. \E x \in Work(us, unpub) : \A y \in Work(us, unpub) : x =< y
  BY <1>1, HasLeast
<1>3. QED
  BY <1>2 DEF Min

LEMMA FetchKeeps ==
    ASSUME Inv, NEW by \in {"loop", "recon"}, Fetch(by)
    PROVE  Inv'
<1>1. /\ UNCHANGED <<entry, saving, upset, card, desired, up, down, menu, recon, touched,
                     owed, crossed>>
      /\ Free("rec") /\ rec' = [NoRec EXCEPT !.pc = "answered", !.by = by, !.snap = desired]
  BY DEF Fetch, memory, server, past
<1>2. MemoryOK' /\ QueuesOK'
  BY <1>1 DEF Inv, MemoryOK, QueuesOK
<1>3. TasksOK'
  <2>1. /\ rec' \in [pc : {"idle", "answered", "modes", "setpoints"},
                by : {"loop", "recon"}, snap : [Units -> Values \cup {None}] \cup {<<>>},
                todo : SUBSET Units, unpub : SUBSET Units]
        /\ rec'.snap \in [Units -> Values \cup {None}]
    BY <1>1 DEF Inv, QueuesOK, NoRec
  <2>2. QED
    BY <1>1, <2>1 DEF Inv, TasksOK, Free
<1>4. OwedOK'
  BY <1>1 DEF Inv, OwedOK, MarkedWasSent
<1>5. RecordOK'
  BY <1>1 DEF RecordOK, NoRec
<1>6. QED
  BY <1>2, <1>3, <1>4, <1>5 DEF Inv

(* The look at the record is over.                                         *)
LEMMA LookedKeeps ==
    ASSUME Inv, Looked, UNCHANGED <<memory, card, server, menu, owed, crossed>>
    PROVE  Inv'
<1>1. /\ UNCHANGED <<entry, saving, upset, card, desired, up, down, menu, owed, crossed>>
      /\ rec' = NoRec
      /\ recon' = recon \/ recon' = [NoRecon EXCEPT !.pc = "offer"]
  BY DEF Looked, memory, server
<1>2. MemoryOK' /\ QueuesOK'
  BY <1>1 DEF Inv, MemoryOK, QueuesOK
<1>3. TasksOK'
  <2>1. /\ recon' \in [pc : {"idle", "record", "offer", "setpoints", "modes", "sent"},
                  todo : SUBSET Reports, u : Units \cup {0}]
        /\ recon'.pc = "sent" => recon'.u \in Units /\ Free("recon")
    BY <1>1 DEF Inv, TasksOK, NoRecon
  <2>2. rec' \in [pc : {"idle", "answered", "modes", "setpoints"},
                by : {"loop", "recon"}, snap : [Units -> Values \cup {None}] \cup {<<>>},
                todo : SUBSET Units, unpub : SUBSET Units]
        /\ rec'.pc = "idle"
    BY <1>1 DEF NoRec
  <2>3. QED
    BY <1>1, <2>1, <2>2 DEF Inv, TasksOK, Free
<1>4. OwedOK'
  BY <1>1 DEF Inv, OwedOK, MarkedWasSent, NoRecon
<1>5. RecordOK'
  BY <1>1 DEF RecordOK, NoRec
<1>6. QED
  BY <1>2, <1>3, <1>4, <1>5 DEF Inv

LEMMA FetchFailsKeeps ==
    ASSUME Inv, FetchFails
    PROVE  Inv'
BY LookedKeeps DEF FetchFails, past

(* The unit an adoption changes.                                           *)
Adopted(u, us, unpub, rest) ==
    /\ Only("rec", u) /\ owed' = owed \ {u} /\ recon' = recon
    /\ rec' = [rec EXCEPT !.pc = rest, !.unpub = unpub, !.todo = {w \in us : w > u}]
    /\ entry'[u].v # entry[u].v => u \notin unpub

LEMMA AdoptFirstDoes ==
    ASSUME Inv, NEW us \in SUBSET Units, NEW unpub \in SUBSET Units,
           NEW rest \in {"modes", "setpoints"}, Work(us, unpub) # {},
           rec.pc # "idle", Free("rec"),
           AdoptFirst(us, unpub, rest), UNCHANGED <<card, server, menu, crossed>>
    PROVE  \E u \in us : Adopted(u, us, unpub, rest)
<1> DEFINE u == Min(Work(us, unpub))
<1>1. u \in us /\ u \in Units /\ (~ Agrees(u) => u \notin unpub)
  BY MinWork DEF Work
<1>2. rec.snap[u] \in Values \cup {None}
  BY <1>1 DEF Inv, TasksOK
<1>3. /\ owed' = owed \ {u} /\ recon' = recon
      /\ rec' = [rec EXCEPT !.pc = rest, !.unpub = unpub,
                            !.todo = {w \in us : w > u}]
  BY DEF AdoptFirst
<1>4. CASE Agrees(u)
  <2>1. Mark("rec", u, TRUE)
    BY <1>4 DEF AdoptFirst
  <2>2. Only("rec", u) /\ entry'[u].v = entry[u].v
    BY <1>1, <2>1, MarkOnly DEF Inv, Tasks
  <2>3. QED
    BY <1>1, <1>3, <2>2 DEF Adopted
<1>5. CASE ~ Agrees(u)
  <2>1. Follow("rec", u, rec.snap[u])
    BY <1>5 DEF AdoptFirst
  <2>2. Only("rec", u)
    BY <1>1, <1>2, <2>1, FollowOnly DEF Inv, Tasks
  <2>3. QED
    BY <1>1, <1>3, <1>5, <2>2 DEF Adopted
<1>6. QED
  BY <1>4, <1>5

LEMMA AdoptFirstKeeps ==
    ASSUME Inv, NEW us \in SUBSET Units, NEW unpub \in SUBSET Units,
           NEW rest \in {"modes", "setpoints"}, Work(us, unpub) # {},
           rec.pc # "idle", Free("rec"),
           AdoptFirst(us, unpub, rest), UNCHANGED <<card, server, menu, crossed>>,
           \A w \in us : w \in owed /\ w \notin unpub => w \in touched' \cup crossed
    PROVE  Inv'
<1>0. PICK u \in us : Adopted(u, us, unpub, rest)
  BY AdoptFirstDoes
<1>1. /\ Only("rec", u) /\ owed' = owed \ {u} /\ recon' = recon
      /\ rec' = [rec EXCEPT !.pc = rest, !.unpub = unpub, !.todo = {w \in us : w > u}]
  BY <1>0 DEF Adopted
<1>2. UNCHANGED <<card, desired, up, down, menu, recon, crossed>>
  BY <1>1 DEF server
<1>3. MemoryOK'
  BY <1>1 DEF Only
<1>4. QueuesOK'
  BY <1>2 DEF Inv, QueuesOK
<1>5. /\ rec' \in [pc : {"idle", "answered", "modes", "setpoints"},
              by : {"loop", "recon"}, snap : [Units -> Values \cup {None}] \cup {<<>>},
              todo : SUBSET Units, unpub : SUBSET Units]
      /\ rec'.pc = rest /\ rec'.snap \in [Units -> Values \cup {None}]
      /\ rec'.unpub = unpub /\ rec'.todo \subseteq us
  BY <1>1 DEF Inv, TasksOK
<1>6. TasksOK'
  <2>1. \A t \in {"recon", "menu"} : Free(t) => Free(t)'
    BY <1>1, StaysFree DEF Tasks
  <2>2. QED
    BY <1>2, <1>5, <2>1 DEF Inv, TasksOK
<1>7. OwedOK'
  BY <1>1, <1>2, LessOwed DEF Inv, Only, QueuesOK
<1>8. RecordOK'
  BY <1>1, <1>2, <1>5 DEF RecordOK
<1>9. QED
  BY <1>3, <1>4, <1>6, <1>7, <1>8 DEF Inv

(* When what is unpublished is read, a unit that was set here and is not   *)
(* in it is crossed.                                                       *)
LEMMA ReadNow ==
    ASSUME Inv, NEW us \in SUBSET Units
    PROVE  /\ Unpublished(us) \in SUBSET Units
           /\ \A w \in us : w \in owed /\ w \notin Unpublished(us) => w \in crossed
BY DEF Unpublished, Inv, OwedOK, MarkedWasSent

LEMMA AdoptSetpointsKeeps ==
    ASSUME Inv, AdoptSetpoints, rec.pc # "idle", Free("rec"),
           UNCHANGED <<card, server, menu, crossed>>
    PROVE  Inv'
<1> DEFINE unpub == Unpublished(Setpoints)
<1>1. Setpoints \in SUBSET Units
  BY DEF Units
<1>2. CASE Work(Setpoints, unpub) # {}
  <2>1. AdoptFirst(Setpoints, unpub, "setpoints")
    BY <1>2 DEF AdoptSetpoints
  <2>2. unpub \in SUBSET Units
        /\ \A w \in Setpoints : w \in owed /\ w \notin unpub => w \in touched' \cup crossed
    BY <1>1, ReadNow
  <2>3. QED
    BY <1>1, <1>2, <2>1, <2>2, AdoptFirstKeeps
<1>3. CASE Work(Setpoints, unpub) = {}
  BY <1>3, LookedKeeps DEF AdoptSetpoints
<1>4. QED
  BY <1>2, <1>3

LEMMA AdoptRecordKeeps ==
    ASSUME Inv, AdoptRecord
    PROVE  Inv'
<1> DEFINE unpub == Unpublished(Modes)
<1>1. /\ rec.pc = "answered" /\ Free("rec") /\ UNCHANGED <<card, server, menu, crossed>>
      /\ Modes \in SUBSET Units
  BY DEF AdoptRecord, Inv, TasksOK, Units
<1>2. CASE Work(Modes, unpub) # {}
  <2>1. AdoptFirst(Modes, unpub, "modes")
    BY <1>2 DEF AdoptRecord
  <2>2. unpub \in SUBSET Units
        /\ \A w \in Modes : w \in owed /\ w \notin unpub => w \in touched' \cup crossed
    BY <1>1, ReadNow
  <2>3. QED
    BY <1>1, <1>2, <2>1, <2>2, AdoptFirstKeeps
<1>3. CASE Work(Modes, unpub) = {}
  BY <1>1, <1>3, AdoptSetpointsKeeps DEF AdoptRecord
<1>4. QED
  BY <1>2, <1>3

LEMMA AdoptNextKeeps ==
    ASSUME Inv, AdoptNext
    PROVE  Inv'
<1>1. /\ rec.pc \in {"modes", "setpoints"} /\ Free("rec")
      /\ UNCHANGED <<card, server, menu, crossed>>
      /\ rec.todo \in SUBSET Units /\ rec.unpub \in SUBSET Units
  BY DEF AdoptNext, Inv, TasksOK
<1>2. CASE Work(rec.todo, rec.unpub) # {}
  <2>1. AdoptFirst(rec.todo, rec.unpub, rec.pc) /\ UNCHANGED touched
    BY <1>2 DEF AdoptNext
  <2>2. \A w \in rec.todo : w \in owed /\ w \notin rec.unpub => w \in touched' \cup crossed
    BY <1>1, <2>1 DEF Inv, RecordOK
  <2>3. QED
    BY <1>1, <1>2, <2>1, <2>2, AdoptFirstKeeps
<1>3. CASE Work(rec.todo, rec.unpub) = {}
  <2>1. AdoptSetpoints \/ (Looked /\ UNCHANGED <<memory, owed, touched>>)
    BY <1>3 DEF AdoptNext
  <2>2. QED
    BY <1>1, <2>1, AdoptSetpointsKeeps, LookedKeeps
<1>4. QED
  BY <1>2, <1>3
-----------------------------------------------------------------------------
(* The reconciliation, the files and the restart. *)

LEMMA PendingNow ==
    ASSUME Inv, NEW us \in SUBSET Units
    PROVE  /\ Pending(us) \in SUBSET Reports
           /\ \A r \in Pending(us) : r.u \in owed => r.u \in crossed \/ entry[r.u].v = r.v
<1>1. \A u \in Unpublished(us) : u \in Units /\ entry[u].v \in Values
  BY DEF Unpublished, Inv, MemoryOK, Known, Unit
<1>2. QED
  BY <1>1 DEF Pending, Reports

LEMMA OfferFirstKeeps ==
    ASSUME Inv, NEW list \in SUBSET Reports, list # {},
           \A r \in list : r.u \in owed => r.u \in crossed \/ entry[r.u].v = r.v,
           Free("recon"), OfferFirst(list),
           UNCHANGED <<memory, card, desired, down, menu, rec, touched, crossed>>
    PROVE  Inv'
<1> DEFINE least == CHOOSE r \in list : \A q \in list : r.u <= q.u
<1>1. \E r \in list : \A q \in list : r.u <= q.u
  <2> DEFINE S == {r.u : r \in list}
  <2>1. S \in SUBSET Nat /\ S # {}
    BY UnitsAreNumbers DEF Reports
  <2>2. PICK x \in S : \A y \in S : x <= y
    BY <2>1, HasLeast
  <2>3. QED
    BY <2>2
<1>2. PICK r \in list :
        /\ Send(r.u, r.v)
        /\ recon' = [pc |-> IF r.u \in Modes THEN "sent" ELSE "setpoints",
                     u |-> r.u, todo |-> list \ {r}]
  <2>1. least \in list
    BY <1>1
  <2>2. QED
    BY <2>1 DEF OfferFirst
<1>3. r \in Reports /\ r.u \in Units /\ r.v \in Values
  BY DEF Reports
<1>4. /\ up' \in Seq(Reports)
      /\ owed' \subseteq owed /\ (r.u \in owed' => r.u \in crossed)
      /\ \A i \in 1 .. Len(up') : up'[i].u \in owed' => up'[i].u \in crossed
  BY <1>2, <1>3, SendKeeps
<1>5. UNCHANGED <<entry, saving, upset, card, desired, down, menu, rec, touched, crossed>>
  BY DEF memory
<1>6. MemoryOK' /\ QueuesOK' /\ RecordOK'
  BY <1>4, <1>5 DEF Inv, MemoryOK, QueuesOK, RecordOK
<1>7. /\ recon' \in [pc : {"idle", "record", "offer", "setpoints", "modes", "sent"},
                todo : SUBSET Reports, u : Units \cup {0}]
      /\ recon'.u = r.u /\ recon'.todo \subseteq list
  BY <1>2, <1>3
<1>8. TasksOK'
  BY <1>3, <1>5, <1>7 DEF Inv, TasksOK, Free
<1>9. OwedOK'
  BY <1>4, <1>5, <1>7 DEF Inv, OwedOK, MarkedWasSent
<1>10. QED
  BY <1>6, <1>8, <1>9 DEF Inv

LEMMA OfferModesKeeps ==
    ASSUME Inv, NEW list \in SUBSET Reports,
           \A r \in list : r.u \in owed => r.u \in crossed \/ entry[r.u].v = r.v,
           Free("recon"), OfferModes(list),
           UNCHANGED <<memory, card, desired, down, menu, rec, touched, crossed>>
    PROVE  Inv'
<1>1. CASE list # {}
  BY <1>1, OfferFirstKeeps DEF OfferModes
<1>2. CASE list = {}
  <2>1. /\ recon' = NoRecon
        /\ UNCHANGED <<entry, saving, upset, card, desired, up, down, menu, rec, touched,
                       owed, crossed>>
    BY <1>2 DEF OfferModes, memory
  <2>2. MemoryOK' /\ QueuesOK' /\ RecordOK'
    BY <2>1 DEF Inv, MemoryOK, QueuesOK, RecordOK
  <2>3. TasksOK'
    BY <2>1 DEF Inv, TasksOK, Free, NoRecon
  <2>4. OwedOK'
    BY <2>1 DEF Inv, OwedOK, MarkedWasSent, NoRecon
  <2>5. QED
    BY <2>2, <2>3, <2>4 DEF Inv
<1>3. QED
  BY <1>1, <1>2

LEMMA OfferKeeps ==
    ASSUME Inv, Offer
    PROVE  Inv'
<1>1. /\ Free("recon")
      /\ UNCHANGED <<memory, card, desired, down, menu, rec, touched, crossed>>
      /\ Modes \in SUBSET Units /\ Setpoints \in SUBSET Units
  BY DEF Offer, Units
<1>2. /\ recon.todo \in SUBSET Reports
      /\ \A r \in recon.todo : r.u \in owed => r.u \in crossed \/ entry[r.u].v = r.v
  BY DEF Inv, TasksOK, OwedOK
<1>3. \/ Pending(Setpoints) # {} /\ OfferFirst(Pending(Setpoints))
      \/ recon.todo # {} /\ OfferFirst(recon.todo)
      \/ OfferModes(Pending(Modes))
      \/ OfferModes(recon.todo)
  BY DEF Offer
<1>4. CASE Pending(Setpoints) # {} /\ OfferFirst(Pending(Setpoints))
  BY <1>1, <1>4, PendingNow, OfferFirstKeeps
<1>5. CASE recon.todo # {} /\ OfferFirst(recon.todo)
  BY <1>1, <1>2, <1>5, OfferFirstKeeps
<1>6. CASE OfferModes(Pending(Modes))
  BY <1>1, <1>6, PendingNow, OfferModesKeeps
<1>7. CASE OfferModes(recon.todo)
  BY <1>1, <1>2, <1>7, OfferModesKeeps
<1>8. QED
  BY <1>3, <1>4, <1>5, <1>6, <1>7

LEMMA OfferedKeeps ==
    ASSUME Inv, Offered
    PROVE  Inv'
<1>1. /\ recon.pc = "sent" /\ recon.u \in Units /\ Free("recon")
      /\ recon' = [recon EXCEPT !.pc = "modes"]
      /\ recon.u \in owed => recon.u \in crossed
      /\ Mark("recon", recon.u, TRUE)
      /\ UNCHANGED <<card, desired, link, up, down, menu, rec, touched, owed, crossed>>
  BY DEF Offered, Inv, TasksOK, OwedOK, server, past
<1>2. Only("recon", recon.u) /\ \A w \in Units : entry'[w].v = entry[w].v
  BY <1>1, MarkOnly DEF Inv, Tasks
<1>3. MemoryOK'
  BY <1>2 DEF Only
<1>4. QueuesOK' /\ RecordOK'
  BY <1>1 DEF Inv, QueuesOK, RecordOK
<1>5. /\ recon' \in [pc : {"idle", "record", "offer", "setpoints", "modes", "sent"},
                todo : SUBSET Reports, u : Units \cup {0}]
      /\ recon'.pc = "modes" /\ recon'.todo = recon.todo
  BY <1>1 DEF Inv, TasksOK
<1>6. TasksOK'
  <2>1. \A t \in {"menu", "rec"} : Free(t) => Free(t)'
    BY <1>2, StaysFree DEF Tasks
  <2>2. QED
    BY <1>1, <1>5, <2>1 DEF Inv, TasksOK
<1>7. OwedOK'
  <2>1. MarkedWasSent'
    BY <1>1, <1>2 DEF Inv, OwedOK, MarkedWasSent, Only
  <2>2. \A r \in recon.todo : r.u \in owed => entry'[r.u].v = entry[r.u].v
    BY <1>2 DEF Inv, OwedOK
  <2>3. menu.pc = "report" => entry'[menu.u].v = entry[menu.u].v
    BY <1>2 DEF Inv, TasksOK
  <2>4. \A u \in owed : entry'[u].v # None
    BY <1>2 DEF Inv, OwedOK
  <2>5. QED
    BY <1>1, <1>5, <2>1, <2>2, <2>3, <2>4 DEF Inv, OwedOK
<1>8. QED
  BY <1>3, <1>4, <1>6, <1>7 DEF Inv

(* A worker thread ends: it was alone with the file, or the file is upset. *)
LEMMA SavedKeeps ==
    ASSUME Inv, NEW t \in Tasks, Saved(t)
    PROVE  Inv'
<1>1. /\ ~ Free(t)
      /\ card' = [u \in Units |-> IF u \in saving[t].file THEN saving[t].snap[u]
                                                          ELSE card[u]]
      /\ saving' = [saving EXCEPT ![t] = NoSave]
      /\ UNCHANGED <<entry, upset, desired, up, down, menu, recon, rec, touched, owed,
                     crossed>>
  BY DEF Saved, server, past
<1>2. PICK f \in Files : saving[t] \in [file : {f}, snap : [f -> Known]]
  BY <1>1 DEF Inv, MemoryOK, Saves, Free
<1>3. saving[t].file = f /\ saving[t].snap \in [f -> Known]
  BY <1>2
<1>4. card' \in [Units -> Known]
  BY <1>1, <1>3 DEF Inv, MemoryOK
<1>5. /\ saving' \in [Tasks -> Saves \cup {NoSave}] /\ saving'[t] = NoSave
      /\ \A s \in Tasks : s # t => saving'[s] = saving[s]
  BY <1>1 DEF Inv, MemoryOK
<1>6. ASSUME NEW w \in Units, FileOf(w) \notin upset
      PROVE  /\ \A r, s \in Tasks :
                   saving'[r].file = FileOf(w) /\ saving'[s].file = FileOf(w) => r = s
             /\ \A s \in Tasks :
                   saving'[s].file = FileOf(w) => saving'[s].snap[w] = entry[w]
             /\ (\A s \in Tasks : saving'[s].file # FileOf(w)) => card'[w] = entry[w]
  <2>1. \A s \in Tasks : saving'[s].file = FileOf(w) => s # t /\ saving'[s] = saving[s]
    BY <1>5, FileOfUnits DEF NoSave
  <2>2. (\A s \in Tasks : saving'[s].file # FileOf(w)) => card'[w] = entry[w]
    <3>1. CASE FileOf(w) = f
      <4>1. card'[w] = saving[t].snap[w]
        BY <1>1, <1>3, <3>1, FileOfUnits
      <4>2. QED
        BY <1>3, <1>6, <3>1, <4>1 DEF Inv, MemoryOK
    <3>2. CASE FileOf(w) # f
      <4>1. w \notin f
        BY <3>2, FileOfUnits
      <4>2. card'[w] = card[w]
        BY <1>1, <1>3, <4>1
      <4>3. (\A s \in Tasks : saving'[s].file # FileOf(w)) =>
               \A s \in Tasks : saving[s].file # FileOf(w)
        BY <1>3, <1>5, <3>2
      <4>4. QED
        BY <1>6, <4>2, <4>3 DEF Inv, MemoryOK
    <3>3. QED
      BY <3>1, <3>2
  <2>3. QED
    BY <1>6, <2>1, <2>2 DEF Inv, MemoryOK
<1>7. MemoryOK'
  BY <1>1, <1>4, <1>5, <1>6 DEF MemoryOK, Inv
<1>8. QueuesOK' /\ RecordOK'
  BY <1>1 DEF Inv, QueuesOK, RecordOK
<1>9. TasksOK'
  <2>1. \A s \in Tasks : Free(s) => Free(s)'
    BY <1>5 DEF Free
  <2>2. QED
    BY <1>1, <2>1 DEF Inv, TasksOK, Tasks
<1>10. OwedOK'
  BY <1>1 DEF Inv, OwedOK, MarkedWasSent
<1>11. QED
  BY <1>7, <1>8, <1>9, <1>10 DEF Inv

LEMMA NothingSaving ==
    ASSUME entry' \in [Units -> Known], card' = entry',
           saving' = [t \in Tasks |-> NoSave]
    PROVE  MemoryOK'
BY FileOfUnits DEF MemoryOK, NoSave

LEMMA RestartKeeps ==
    ASSUME Inv, Restart
    PROVE  Inv'
<1>1. /\ entry' = card /\ card' = card /\ saving' = [t \in Tasks |-> NoSave]
      /\ up' = <<>> /\ down' = <<>> /\ desired' = desired
      /\ menu' = AtMenu /\ recon' = NoRecon /\ rec' = NoRec
      /\ owed' = {u \in owed : ~card[u].pub}
  BY DEF Restart
<1>2. card \in [Units -> Known]
  BY DEF Inv, MemoryOK
<1>3. MemoryOK'
  BY <1>1, <1>2, NothingSaving
<1>4. QueuesOK'
  BY <1>1, EmptyQueues DEF Inv, QueuesOK
<1>5. TasksOK'
  BY <1>1 DEF TasksOK, AtMenu, NoRecon, NoRec
<1>6. OwedOK'
  <2>1. \A u \in owed' : u \in Units /\ ~card[u].pub /\ card[u].v # None
    BY <1>1, <1>2 DEF Inv, OwedOK, Known
  <2>2. MarkedWasSent'
    BY <1>1, <2>1 DEF MarkedWasSent
  <2>3. QED
    BY <1>1, <2>1, <2>2, EmptyQueues DEF OwedOK, AtMenu, NoRecon
<1>7. RecordOK'
  BY <1>1 DEF RecordOK, NoRec
<1>8. QED
  BY <1>3, <1>4, <1>5, <1>6, <1>7 DEF Inv
-----------------------------------------------------------------------------
(* The theorems. *)

LEMMA Starts == Init => Inv
<1> SUFFICES ASSUME Init PROVE Inv
  OBVIOUS
<1>1. entry \in [Units -> Known] /\ card = entry
  BY FreshKnown DEF Init, Fresh
<1>2. MemoryOK
  BY <1>1, FileOfUnits DEF Init, MemoryOK, NoSave
<1>3. QueuesOK
  BY <1>1, EmptyQueues DEF Init, QueuesOK, Known, Unit
<1>4. TasksOK
  BY DEF Init, TasksOK, AtMenu, NoRecon, NoRec
<1>5. OwedOK /\ RecordOK
  BY EmptyQueues DEF Init, OwedOK, RecordOK, MarkedWasSent, AtMenu, NoRecon, NoRec
<1>6. QED
  BY <1>2, <1>3, <1>4, <1>5 DEF Inv

LEMMA Keeps == Inv /\ [Next]_vars => Inv'
<1> SUFFICES ASSUME Inv, [Next]_vars PROVE Inv'
  OBVIOUS
<1>1. CASE Operator
  BY <1>1, SetHereKeeps, ClearHereKeeps DEF Operator
<1>2. CASE App
  BY <1>2, AppSetsKeeps DEF App
<1>3. CASE LinkDrops \/ Restart \/ ServerTakes \/ Connect \/ Hear
  BY <1>3, LinkDropsKeeps, RestartKeeps, ServerTakesKeeps, ConnectKeeps, HearKeeps
<1>4. CASE AtTheMenu
  BY <1>4, ReportKeeps, MarkReportedKeeps DEF AtTheMenu
<1>5. CASE Fetch("loop") \/ Fetch("recon") \/ FetchFails
  BY <1>5, FetchKeeps, FetchFailsKeeps
<1>6. CASE Adopting
  BY <1>6, AdoptRecordKeeps, AdoptNextKeeps DEF Adopting
<1>7. CASE Offering
  BY <1>7, OfferKeeps, OfferedKeeps DEF Offering
<1>8. CASE \E t \in Tasks : Saved(t)
  BY <1>8, SavedKeeps
<1>9. CASE UNCHANGED vars
  <2>1. UNCHANGED <<entry, saving, upset, card, desired, up, down, menu, recon, rec,
                    touched, owed, crossed>>
    BY <1>9 DEF vars, memory, server, past
  <2>2. QED
    BY <2>1 DEF Inv, MemoryOK, QueuesOK, TasksOK, OwedOK, RecordOK, MarkedWasSent, Free
<1>10. QED
  BY <1>1, <1>2, <1>3, <1>4, <1>5, <1>6, <1>7, <1>8, <1>9 DEF Next

LEMMA Invariant == Spec => []Inv
BY Starts, Keeps, PTL DEF Spec

Counted == faults \in Nat

LEMMA FaultsAreCounted == Spec => []Counted
<1>1. Init => Counted
  BY DEF Init, Counted
<1>2. Counted /\ [Next]_vars => Counted'
  <2> SUFFICES ASSUME Counted, [Next]_vars PROVE Counted'
    OBVIOUS
  <2>1. CASE Operator \/ App
    BY <2>1 DEF Operator, App, SetHere, ClearHere, AppSets, Counted
  <2>2. CASE LinkDrops \/ Restart \/ ServerTakes \/ Connect \/ Hear
    <3>1. faults' = faults \/ faults' = faults + 1
      BY <2>2 DEF LinkDrops, Restart, ServerTakes, Connect, Hear, bounds
    <3>2. QED
      BY <3>1 DEF Counted
  <2>3. CASE AtTheMenu \/ Offering
    BY <2>3 DEF AtTheMenu, Report, MarkReported, Offering, Offer, Offered, bounds, Counted
  <2>4. CASE Fetch("loop") \/ Fetch("recon") \/ FetchFails \/ Adopting
    BY <2>4 DEF Fetch, FetchFails, Adopting, AdoptRecord, AdoptNext, bounds, Counted
  <2>5. CASE \E t \in Tasks : Saved(t)
    BY <2>5 DEF Saved, bounds, Counted
  <2>6. CASE UNCHANGED vars
    BY <2>6 DEF vars, bounds, Counted
  <2>7. QED
    BY <2>1, <2>2, <2>3, <2>4, <2>5, <2>6 DEF Next
<1>3. QED
  BY <1>1, <1>2, PTL DEF Spec

(* A unit whose value of here was never sent is published only when it was *)
(* set with a report of an older value under way (ReportMode of the menu   *)
(* and reconcile marking by unit, whatever the value has become).          *)
THEOREM MarkedIsSent == Spec => []MarkedWasSent
<1>1. Inv => MarkedWasSent
  BY DEF Inv, OwedOK
<1>2. QED
  BY <1>1, Invariant, PTL

(* With nothing being written a file holds what memory holds, unless two   *)
(* tasks' threads wrote it at once.                                        *)
THEOREM CardHoldsMemory == Spec => []CardIsCurrent
<1>1. Inv => CardIsCurrent
  <2> SUFFICES ASSUME Inv, NEW f \in Files \ upset, Writers(f) = {}, NEW u \in f
               PROVE  card[u] = entry[u]
    BY DEF CardIsCurrent
  <2>1. u \in Units /\ FileOf(u) = f
    BY FileOfUnits
  <2>2. \A t \in Tasks : saving[t].file # f
    BY DEF Writers
  <2>3. QED
    BY <2>1, <2>2 DEF Inv, MemoryOK
<1>2. QED
  BY <1>1, Invariant, PTL

(* An adoption overwrites what was set here and not sent only if it was    *)
(* set after it looked, or if a late answer for an older value marked it   *)
(* (adopt_server_modes and adopt_server_setpoints reading pending once).   *)
THEOREM RecordYields == Spec => UnsentOutranksRecord
<1> DEFINE Overwritten(u) == u \in owed /\ entry'[u].v # entry[u].v
<1>1. ASSUME Inv, Counted, [Next]_vars, rec' # rec, faults' = faults,
             NEW u \in Units, Overwritten(u)
      PROVE  u \in touched' \cup crossed
  <2>1. ASSUME NEW us \in SUBSET Units, NEW unpub \in SUBSET Units,
               NEW rest \in {"modes", "setpoints"}, Work(us, unpub) # {},
               rec.pc # "idle", Free("rec"),
               AdoptFirst(us, unpub, rest), UNCHANGED <<card, server, menu, crossed>>,
               \A w \in us : w \in owed /\ w \notin unpub => w \in touched' \cup crossed
        PROVE  u \in touched' \cup crossed
    <3>0. PICK w \in us : Adopted(w, us, unpub, rest)
      BY <2>1, <1>1, AdoptFirstDoes
    <3>1. Only("rec", w) /\ (entry'[w].v # entry[w].v => w \notin unpub)
      BY <3>0 DEF Adopted
    <3>2. u = w
      BY <1>1, <3>1 DEF Only
    <3>3. QED
      BY <1>1, <2>1, <3>1, <3>2
  <2>2. ASSUME AdoptSetpoints, rec.pc # "idle", Free("rec"),
               UNCHANGED <<card, server, menu, crossed>>
        PROVE  u \in touched' \cup crossed
    <3>1. Work(Setpoints, Unpublished(Setpoints)) # {}
          /\ AdoptFirst(Setpoints, Unpublished(Setpoints), "setpoints")
      BY <1>1, <2>2 DEF AdoptSetpoints, memory
    <3>2. Setpoints \in SUBSET Units
      BY DEF Units
    <3>3. /\ Unpublished(Setpoints) \in SUBSET Units
          /\ \A w \in Setpoints : w \in owed /\ w \notin Unpublished(Setpoints)
                                  => w \in touched' \cup crossed
      BY <1>1, <3>2, ReadNow
    <3>4. QED
      BY <2>1, <2>2, <3>1, <3>2, <3>3
  <2>3. CASE AdoptRecord
    <3>1. /\ rec.pc = "answered" /\ Free("rec") /\ UNCHANGED <<card, server, menu, crossed>>
          /\ Modes \in SUBSET Units
      BY <1>1, <2>3 DEF AdoptRecord, Inv, TasksOK, Units
    <3>2. CASE Work(Modes, Unpublished(Modes)) # {}
      <4>1. AdoptFirst(Modes, Unpublished(Modes), "modes")
        BY <2>3, <3>2 DEF AdoptRecord
      <4>2. /\ Unpublished(Modes) \in SUBSET Units
            /\ \A w \in Modes : w \in owed /\ w \notin Unpublished(Modes)
                                => w \in touched' \cup crossed
        BY <1>1, <3>1, ReadNow
      <4>3. QED
        BY <2>1, <3>1, <3>2, <4>1, <4>2
    <3>3. CASE Work(Modes, Unpublished(Modes)) = {}
      BY <2>2, <2>3, <3>1, <3>3 DEF AdoptRecord
    <3>4. QED
      BY <3>2, <3>3
  <2>4. CASE AdoptNext
    <3>1. /\ rec.pc \in {"modes", "setpoints"} /\ Free("rec")
          /\ UNCHANGED <<card, server, menu, crossed>>
          /\ rec.todo \in SUBSET Units /\ rec.unpub \in SUBSET Units
      BY <1>1, <2>4 DEF AdoptNext, Inv, TasksOK
    <3>2. CASE Work(rec.todo, rec.unpub) # {}
      <4>1. AdoptFirst(rec.todo, rec.unpub, rec.pc) /\ UNCHANGED touched
        BY <2>4, <3>2 DEF AdoptNext
      <4>2. \A w \in rec.todo : w \in owed /\ w \notin rec.unpub
                                => w \in touched' \cup crossed
        BY <1>1, <3>1, <4>1 DEF Inv, RecordOK
      <4>3. QED
        BY <2>1, <3>1, <3>2, <4>1, <4>2
    <3>3. CASE Work(rec.todo, rec.unpub) = {}
      <4>1. AdoptSetpoints
        BY <1>1, <2>4, <3>3 DEF AdoptNext, memory
      <4>2. QED
        BY <2>2, <3>1, <4>1
    <3>4. QED
      BY <3>2, <3>3
  <2>5. AdoptRecord \/ AdoptNext
    <3>1. CASE Operator \/ App \/ ServerTakes \/ Connect \/ Hear
      BY <1>1, <3>1 DEF Operator, App, ServerTakes, Connect, Hear, SetHere, ClearHere, AppSets
    <3>2. CASE LinkDrops \/ Restart
      BY <1>1, <3>2 DEF LinkDrops, Restart, Counted
    <3>3. CASE AtTheMenu \/ Offering \/ \E t \in Tasks : Saved(t)
      BY <1>1, <3>3 DEF AtTheMenu, Report, MarkReported, Offering, Offer, Offered, Saved
    <3>4. CASE Fetch("loop") \/ Fetch("recon") \/ FetchFails \/ UNCHANGED vars
      BY <1>1, <3>4 DEF Fetch, FetchFails, vars, memory
    <3>5. QED
      BY <1>1, <3>1, <3>2, <3>3, <3>4 DEF Next, Adopting
  <2>6. QED
    BY <2>3, <2>4, <2>5
<1>2. Inv /\ Counted /\ [Next]_vars =>
        [rec' # rec /\ faults' = faults =>
            \A u \in Units :
               u \in owed /\ entry'[u].v # entry[u].v => u \in touched' \cup crossed]_vars
  BY <1>1
<1>3. QED
  BY <1>2, Invariant, FaultsAreCounted, PTL DEF Spec, UnsentOutranksRecord
=============================================================================
