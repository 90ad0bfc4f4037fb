------------------------------- MODULE Panel -------------------------------
(***************************************************************************)
(* The driver of the ST7920 panel (display.py): the worker threads that    *)
(* write to it one after another under the bus lock, the differential      *)
(* refresh, opening and closing, and the process being killed in the       *)
(* middle of a byte.                                                       *)
(*                                                                         *)
(* The controller on the other side is external and cannot be read back.   *)
(* It keeps its instruction set, its graphics RAM and a half received      *)
(* transfer across a restart of the agent, and is taken at its worst: what *)
(* arrives behind half a transfer is lost until zero bytes complete it.    *)
(***************************************************************************)
EXTENDS Integers, Sequences

CONSTANTS
    Height,         \* graphics rows, 64 on the panel
    Patterns,       \* contents of a row, 0 for an empty one
    Frames,         \* frames the menu and the screen saver draw
    MaxKills,       \* bound: kills of the process
    MaxFaults       \* bound: transfers the SPI handle refuses

ASSUME PanelAssumption ==
    /\ Height \in Nat \ {0} /\ Height % 2 = 0
    /\ 0 \in Patterns
    /\ Frames \subseteq [0..(Height - 1) -> Patterns]
    /\ MaxKills \in Nat /\ MaxFaults \in Nat

VARIABLES
    chip,       \* the controller
    agent,      \* "down", "opening", "up", "blind", "closing" or "stopped"
    holder,     \* the job that holds _bus_lock
    work,       \* the transfers it has still to make
    target,     \* the frame it will have sent
    previous,   \* _previous, the frame believed to be on the glass
    started,    \* _started
    waiting,    \* threads waiting for the lock: frames to flush, or a close
    canvas,     \* the frame drawn last
    failed,     \* a refresh was broken off since the panel was opened
    kills, faults

panelVars == <<chip, agent, holder, work, target, previous, started, waiting,
               canvas, failed, kills, faults>>

Rows     == 0..(Height - 1)
Half     == Height \div 2
Glasses  == [Rows -> Patterns]
Empty    == [r \in Rows |-> 0]
Unknown  == <<>>                    \* _previous = None
Repeats  == 2                       \* _FUNCTION_SET_REPEATS, 5 in the code
Closing  == [by |-> "close", frame |-> Unknown]

(* ----------------------------- the controller -------------------------- *)
Op(name)     == [op |-> name, arg |-> 0]
Send(name,a) == [op |-> name, arg |-> a]

(* A transfer that arrives whole.  Addresses and data reach the graphics   *)
(* RAM in the extended instruction set only, the other commands mean what  *)
(* the driver wants of them in the basic one.                              *)
Execute(c, t) ==
    LET basic == c.set = "basic" IN
    CASE t.op = "basic"                 -> [c EXCEPT !.set = "basic"]
      [] t.op = "extended"              -> [c EXCEPT !.set = "extended"]
      [] t.op = "graphics"              -> [c EXCEPT !.set = "extended", !.graphics = TRUE]
      [] t.op = "on"  /\ basic          -> [c EXCEPT !.lit = TRUE]
      [] t.op = "off" /\ basic          -> [c EXCEPT !.lit = FALSE]
      [] t.op = "y"    /\ ~basic        -> [c EXCEPT !.y = t.arg]
      [] t.op = "x"    /\ ~basic        -> [c EXCEPT !.x = t.arg]
      [] t.op = "data" /\ ~basic        -> [c EXCEPT !.ram[c.y + c.x * Half] = t.arg]
      [] OTHER                          -> c

Receive(c, t) ==
    IF t.op = "reset" THEN [c EXCEPT !.stale = FALSE]
    ELSE IF c.stale THEN c ELSE Execute(c, t)

(* ------------------------- what the driver sends ----------------------- *)
(* A slip for SetAddress: the lower half starts a row late.                *)
OffByOne(row) == <<Send("y", (row + 1) % Half), Send("x", row \div Half)>>

SetAddress(row) == <<Send("y", row % Half), Send("x", row \div Half)>>
SendRow(row, chunk) == SetAddress(row) \o <<Send("data", chunk)>>

(* What is sent for the last n rows, of which those of S only.             *)
RowsLeft(S, frame) ==
    LET left[n \in 0..Height] ==
            IF n = 0 THEN <<>>
            ELSE (IF Height - n \in S THEN SendRow(Height - n, frame[Height - n]) ELSE <<>>)
                 \o left[n - 1]
    IN  left

SendRows(S, frame) == RowsLeft(S, frame)[Height]
Blanking == SendRows(Rows, Empty)

(* Only the rows that differ from the frame believed to be there.          *)
Difference(frame) ==
    SendRows({r \in Rows : previous = Unknown \/ previous[r] # frame[r]}, frame)

Again(name) == [i \in 1..Repeats |-> Op(name)]
ForceClear == Again("extended") \o Again("graphics") \o Blanking
Initialise ==
    Again("basic") \o <<Op("clear"), Op("on"), Op("entry"), Op("home")>> \o ForceClear
Opening  == <<Op("reset")>> \o Initialise

Shutting == Blanking \o <<Op("basic"), Op("off")>>

(* ------------------------------- the driver ---------------------------- *)
PanelInit ==
    /\ chip \in [set : {"basic"}, graphics : BOOLEAN, lit : BOOLEAN, y : {0}, x : {0},
                 stale : BOOLEAN, ram : {Empty} \cup Frames]
    /\ agent = "down" /\ holder = "none" /\ work = <<>> /\ target = Unknown
    /\ previous = Unknown /\ started = FALSE
    /\ waiting = {} /\ canvas = Empty /\ failed = FALSE
    /\ kills = 0 /\ faults = 0

(* Nothing else can want the bus before the panel is open.                 *)
Open ==
    /\ agent = "down"
    /\ agent' = "opening" /\ holder' = "open" /\ started' = TRUE
    /\ previous' = Unknown /\ target' = Empty /\ work' = Opening
    /\ failed' = FALSE
    /\ UNCHANGED <<chip, waiting, canvas, kills, faults>>

(* A slip for Draw: a frame that is on the canvas already is not sent.     *)
DrawIfMoved(who, frame) ==
    /\ agent = "up"
    /\ \A w \in waiting : w.by # who
    /\ holder # who
    /\ canvas' = frame
    /\ waiting' = IF started /\ frame # canvas
                  THEN waiting \cup {[by |-> who, frame |-> frame]} ELSE waiting
    /\ UNCHANGED <<chip, agent, holder, work, target, previous, started, failed, kills, faults>>

(* The menu awaits its refresh before it draws again.  The screen saver's  *)
(* task draws on the same canvas; cancelling it leaves its thread behind.  *)
Draw(who, frame) ==
    /\ agent = "up"
    /\ \A w \in waiting : w.by # who
    /\ holder # who
    /\ canvas' = frame
    /\ waiting' = IF started THEN waiting \cup {[by |-> who, frame |-> frame]} ELSE waiting
    /\ UNCHANGED <<chip, agent, holder, work, target, previous, started, failed, kills, faults>>

Redraw == Draw("menu", canvas)
DrawMenu == \E f \in Frames : f # canvas /\ Draw("menu", f)
DrawSaver == \E f \in Frames : Draw("saver", f)

(* The lock is not handed on in the order it was asked for.                *)
Flush(w) ==
    /\ holder = "none" /\ w \in waiting /\ w.by # "close"
    /\ waiting' = waiting \ {w}
    /\ IF started
       THEN /\ holder' = w.by /\ target' = w.frame /\ work' = Difference(w.frame)
       ELSE UNCHANGED <<holder, target, work>>
    /\ UNCHANGED <<chip, agent, previous, started, canvas, failed, kills, faults>>

AskToClose ==
    /\ agent = "up" /\ \A w \in waiting : w.by # "menu"
    /\ holder # "menu"
    /\ agent' = "closing" /\ waiting' = waiting \cup {Closing}
    /\ UNCHANGED <<chip, holder, work, target, previous, started, canvas, failed, kills, faults>>

Close ==
    /\ holder = "none" /\ Closing \in waiting
    /\ waiting' = waiting \ {Closing}
    /\ holder' = "close" /\ target' = Unknown /\ work' = Shutting
    /\ UNCHANGED <<chip, agent, previous, started, canvas, failed, kills, faults>>

Transfer ==
    /\ work # <<>>
    /\ chip' = Receive(chip, Head(work)) /\ work' = Tail(work)
    /\ UNCHANGED <<agent, holder, target, previous, started, waiting, canvas, failed, kills, faults>>

(* The last transfer is made: what was sent is what is believed.           *)
Done ==
    /\ holder # "none" /\ work = <<>>
    /\ holder' = "none" /\ previous' = target
    /\ agent' = CASE holder = "open" -> "up" [] holder = "close" -> "stopped" [] OTHER -> agent
    /\ started' = (started /\ holder # "close")
    /\ UNCHANGED <<chip, work, target, waiting, canvas, failed, kills, faults>>

(* The SPI handle raises.  A refresh is broken off with its rows half      *)
(* sent and _previous as it was, an opening gives the panel up, a close    *)
(* lets go without having blanked it.                                      *)
TransferFails ==
    /\ faults < MaxFaults /\ work # <<>>
    /\ faults' = faults + 1
    /\ work' = <<>> /\ holder' = "none" /\ failed' = TRUE
    /\ agent' = IF holder \in {"open", "close"} THEN "blind" ELSE agent
    /\ started' = (started /\ holder \notin {"open", "close"})
    /\ previous' = IF holder = "close" THEN Unknown ELSE previous
    /\ UNCHANGED <<chip, target, waiting, canvas, kills>>

(* Killed, in the middle of a transfer perhaps; and started again, later.  *)
Kill ==
    /\ kills < MaxKills /\ agent # "down"
    /\ kills' = kills + 1
    /\ \E torn \in BOOLEAN :
          /\ torn => work # <<>>
          /\ chip' = [chip EXCEPT !.stale = @ \/ torn]
    /\ agent' = "down" /\ holder' = "none" /\ work' = <<>> /\ target' = Unknown
    /\ previous' = Unknown /\ started' = FALSE /\ waiting' = {} /\ failed' = FALSE
    /\ UNCHANGED <<canvas, faults>>

StartOver ==
    /\ agent \in {"blind", "stopped"} /\ waiting = {} /\ kills < MaxKills
    /\ agent' = "down" /\ kills' = kills + 1
    /\ UNCHANGED <<chip, holder, work, target, previous, started, waiting, canvas, failed, faults>>

PanelNext ==
    \/ Open \/ Redraw \/ DrawMenu \/ DrawSaver
    \/ \E w \in waiting : Flush(w)
    \/ AskToClose \/ Close \/ Transfer \/ Done
    \/ TransferFails \/ Kill \/ StartOver

PanelSpec == PanelInit /\ [][PanelNext]_panelVars

(* ------------------------------ properties ----------------------------- *)

Showing == chip.lit /\ chip.graphics /\ chip.set = "extended" /\ ~chip.stale

(* The frame the driver believes to be on the glass is on it, whatever     *)
(* state a kill left the controller in and whoever drew last, unless a     *)
(* refresh was broken off since the panel was opened.  The differential    *)
(* refresh skips rows on the strength of this.                             *)
GlassIsBelieved ==
    holder = "none" /\ previous # Unknown /\ ~failed
        => chip.ram = previous /\ Showing

(* A screen the menu stays on reaches the glass and remains there, though  *)
(* an older frame of the screen saver may reach it late.                   *)
LastDrawnIsShown ==
    \A f \in Frames :
        <>[](agent = "up" /\ canvas = f /\ ~failed) => <>[](chip.ram = f /\ Showing)
=============================================================================
