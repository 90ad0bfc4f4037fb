---------------------------- MODULE RelayControl ----------------------------
(***************************************************************************)
(* The tasks of the agent that switch the relays of boilers and pumps, on  *)
(* one asyncio event loop: the sensor cycle (the over-temperature guard,   *)
(* then the anti-freeze guard), the schedule tick, the WebSocket listener  *)
(* and the control menu.                                                   *)
(*                                                                         *)
(* A coroutine runs alone until it suspends.  A relay command suspends it: *)
(* the command is issued, a worker thread writes the pin (in any order     *)
(* among the threads in flight), and the coroutine resumes.  So an action  *)
(* is the code between two suspensions, or shorter where a comment says    *)
(* so, and everything a coroutine read before suspending may be stale when *)
(* it resumes.                                                             *)
(*                                                                         *)
(* Temperatures appear as the verdict of a read cycle (LimitLatch and      *)
(* FreezeLatch say how readings give it); schedules as the state they ask  *)
(* of each unit at the moment.                                             *)
(***************************************************************************)
EXTENDS Naturals

CONSTANTS
    NBoilers,   \* units 1..NBoilers are boilers,
    NPumps,     \* the next NPumps are pumps: the order of sorted(Target)
    Tasks,      \* the tasks that run, a subset of AllTasks
    Cycles,     \* the verdicts a read cycle may reach
    Demands,    \* the states the schedule may ask for
    Broken,     \* units mapped to a relay id the controller does not have
    AnyMoment,  \* FALSE: the slow events (a schedule boundary, a new schedule,
                \* the next read cycle) find no relay command in flight
    PowerFails  \* whether the device may restart

Boilers  == 1 .. NBoilers
Targets  == 1 .. (NBoilers + NPumps)
AllTasks == {"sensor", "tick", "ws", "menu"}
Asked    == {"on", "off", "none"}     \* "none": the schedule does not name it

Verdict == [configured : BOOLEAN,                \* a config with limits exists
            over       : SUBSET Boilers,         \* a probe at or above cut-out
            cool       : SUBSET Boilers,         \* control probe at restore
            ambient    : {"over", "between", "clear"},
            freeze     : {"unreadable", "cold", "between", "warm"}]

ASSUME UnitsAssumption ==
    /\ NBoilers \in Nat \ {0}
    /\ NPumps \in Nat
    /\ Broken \subseteq Targets

ASSUME TasksAssumption ==
    /\ "sensor" \in Tasks
    /\ Tasks \subseteq AllTasks

ASSUME ChoicesAssumption ==
    /\ Cycles \subseteq Verdict
    /\ Cycles # {}
    /\ Demands \subseteq [Targets -> Asked]
    /\ Demands # {}
    /\ AnyMoment \in BOOLEAN
    /\ PowerFails \in BOOLEAN

VARIABLES
    relay,     \* relay[t]: the pin of t, and the controller's _states
    mode,      \* RuntimeState._modes
    cut,       \* LimitGuard._cut with the limit block set beside each record
    applied,   \* ScheduleRunner._applied
    demand,    \* what the running schedule asks for at this moment
    engaged,   \* AntiFreezeGuard._engaged
    held,      \* AntiFreezeGuard._held
    pc,        \* where each task stands
    op,        \* the relay command each task awaits
    todo,      \* the units left in the loop a task is in
    want,      \* the desired states an evaluation took at its start
    cycle,     \* the verdict of the current read cycle
    scratch,   \* locals of the sensor task: was_on, the new held set, dirty
    shown,     \* the cut units the open relay menu read when it was opened
    late,      \* history: cut units that a switch-on got past the cut
    byHand     \* history: units whose last write came from a person

vars == <<relay, mode, cut, applied, demand, engaged, held, pc, op, todo,
          want, cycle, scratch, shown, late, byHand>>

unit    == <<relay, mode, cut, applied, engaged, held>>
history == <<late, byHand>>

NoWrite    == [stage |-> "none", target |-> 1, on |-> FALSE]
NoCut      == [reason |-> "none", was_on |-> FALSE]
RelaysOff  == [t \in Targets |-> FALSE]
Uncut      == [t \in Targets |-> NoCut]
NotAsked   == [t \in Targets |-> "none"]
NoScratch  == [was_on |-> FALSE, held |-> {}, dirty |-> FALSE]

Blocked(t)  == cut[t].reason # "none"
Automatic(t) == mode[t] = "automatic"
Calm        == AnyMoment \/ \A p \in Tasks : op[p].stage = "none"
Least(S, t) == t \in S /\ \A u \in S : t <= u
After(S, t) == {u \in S : u > t}

(* A switch-on of t that has been issued and not yet written. *)
SwitchingOn(t) ==
    \E p \in Tasks : op[p].stage = "issued" /\ op[p].target = t /\ op[p].on

Issue(p, t, on) ==
    op' = [op EXCEPT ![p] = [stage |-> "issued", target |-> t, on |-> on]]
Goto(p, label)  == pc' = [pc EXCEPT ![p] = label]
Loop(p, S)      == todo' = [todo EXCEPT ![p] = S]
Settle(p)       == op' = [op EXCEPT ![p] = NoWrite]
(* Slip: the cache keeps what it should forget. *)
ForgetNothing(app, S) == app
Forget(app, S)  == [t \in Targets |-> IF t \in S THEN "none" ELSE app[t]]

-----------------------------------------------------------------------------
(* The worker threads of RelayController. *)

WriteRelay(p) ==
    LET t == op[p].target IN
    /\ op[p].stage = "issued"
    /\ t \notin Broken
    /\ relay' = [relay EXCEPT ![t] = op[p].on]
    /\ op' = [op EXCEPT ![p].stage = "written"]
    /\ byHand' = IF pc[p] \in {"switching", "toggling", "restoring"}
                 THEN byHand \cup {t} ELSE byHand \ {t}
    /\ UNCHANGED <<mode, cut, applied, demand, engaged, held, pc, todo, want,
                   cycle, scratch, shown, late>>

(* _get_gpio raises: the exception ends what the task was doing, and the   *)
(* task's own loop starts afresh later - except the evaluation sensor_loop *)
(* makes before its loop, whose exception ends the task itself.            *)
Abandon(p, label) ==
    /\ Goto(p, label)
    /\ Loop(p, {})
    /\ Settle(p)
    /\ want' = [want EXCEPT ![p] = NotAsked]
    /\ scratch' = IF p = "sensor" THEN NoScratch ELSE scratch

WriteRaises(p) ==
    /\ op[p].stage = "issued"
    /\ op[p].target \in Broken
    /\ Abandon(p, IF pc[p] = "bootEval" THEN "down" ELSE "idle")
    /\ UNCHANGED <<unit, demand, cycle, shown, history>>

-----------------------------------------------------------------------------
(* ScheduleRunner.evaluate, from the units `from` on: skip what is cut,    *)
(* manual, held or already applied, and suspend at the first unit left.    *)

Evaluating == {"eval", "limitsEval", "freezeEval", "bootEval"}
AfterEvaluation(label) == IF label = "limitsEval" THEN "freeze" ELSE "idle"

(* Slips: the evaluation forgets to look at the block, or at the mode. *)
DrivableThoughCut(t, w, app, kept) ==
    Automatic(t) /\ t \notin kept /\ w[t] # "none" /\ app[t] # w[t]
DrivableThoughManual(t, w, app, kept) ==
    ~Blocked(t) /\ t \notin kept /\ w[t] # "none" /\ app[t] # w[t]

Drivable(t, w, app, kept) ==
    /\ ~Blocked(t)
    /\ Automatic(t)
    /\ t \notin kept
    /\ w[t] # "none"
    /\ app[t] # w[t]

Evaluate(p, label, from, w, app, kept) ==
    LET pending == {t \in from : Drivable(t, w, app, kept)} IN
    /\ applied' = app
    /\ \/ /\ pending = {}
          /\ Goto(p, AfterEvaluation(label))
          /\ Loop(p, {})
          /\ Settle(p)
          /\ want' = [want EXCEPT ![p] = NotAsked]
       \/ \E t \in Targets :
          /\ Least(pending, t)
          /\ Goto(p, label)
          /\ Loop(p, After(from, t))
          /\ Issue(p, t, w[t] = "on")
          /\ want' = [want EXCEPT ![p] = w]

EvaluateNext(p) ==
    /\ pc[p] \in Evaluating
    /\ op[p].stage = "written"
    /\ Evaluate(p, pc[p], todo[p], want[p],
                [applied EXCEPT ![op[p].target] = want[p][op[p].target]], held)
    /\ UNCHANGED <<relay, mode, cut, demand, engaged, held, cycle, scratch,
                   shown, history>>

(* schedule_loop: one evaluation per tick. *)
Tick ==
    /\ "tick" \in Tasks
    /\ pc["tick"] = "idle"
    /\ Evaluate("tick", "eval", Targets, demand, applied, held)
    /\ UNCHANGED <<relay, mode, cut, demand, engaged, held, cycle, scratch,
                   shown, history>>

-----------------------------------------------------------------------------
(* The sensor task.  sensor_loop starts the relays and evaluates once, then *)
(* runs read cycles: LimitGuard.check, then AntiFreezeGuard.check.         *)

Boot ==
    /\ pc["sensor"] = "boot"
    /\ Evaluate("sensor", "bootEval", Targets, demand, applied, held)
    /\ UNCHANGED <<relay, mode, cut, demand, engaged, held, cycle, scratch,
                   shown, history>>

(* supervise() starts sensor_loop again: RelayController.start switches    *)
(* every relay off; the guards and the runner keep what they hold.  The    *)
(* pause before it is 5 s at least, so no write is in flight by then.      *)
StartAgain ==
    /\ pc["sensor"] = "down"
    /\ \A p \in Tasks : op[p].stage # "issued"
    /\ relay' = RelaysOff
    /\ Goto("sensor", "boot")
    /\ byHand' = {}
    /\ UNCHANGED <<mode, cut, applied, demand, engaged, held, op, todo, want,
                   cycle, scratch, shown, late>>

ReadCycle ==
    /\ pc["sensor"] = "idle"
    /\ Calm
    /\ \E v \in Cycles :
        /\ cycle' = v
        /\ Goto("sensor", IF v.configured THEN "limits" ELSE "freeze")
        /\ Loop("sensor", IF v.configured THEN Boilers ELSE {})
    /\ scratch' = NoScratch
    /\ UNCHANGED <<unit, demand, op, want, shown, history>>

(* The readers or save_readings raise (a bus that has gone, a database that *)
(* takes no write): neither guard runs in this cycle.                      *)
CycleFails ==
    /\ pc["sensor"] = "idle"
    /\ Calm
    /\ Goto("sensor", "failed")
    /\ UNCHANGED <<unit, demand, op, todo, want, cycle, scratch, shown,
                   history>>

(* sensor_loop catches what a cycle raised, logs it and goes round again.  *)
GoRound ==
    /\ pc["sensor"] = "failed"
    /\ Goto("sensor", "idle")
    /\ UNCHANGED <<unit, demand, op, todo, want, cycle, scratch, shown,
                   history>>

Reason(t) == IF t \in cycle.over THEN "water"
             ELSE IF cycle.ambient = "over" THEN "ambient" ELSE "none"

(* Slip: the room is looked at, the water is not. *)
CanRestoreByRoom(t) == cycle.ambient = "clear"

CanRestore(t) ==
    /\ cycle.ambient = "clear"
    /\ t \notin cycle.over
    /\ cut[t].reason = "water" => t \in cycle.cool

ToCut     == {t \in todo["sensor"] : ~Blocked(t) /\ Reason(t) # "none"}
ToRestore == {t \in todo["sensor"] : Blocked(t) /\ CanRestore(t)}

(* _maybe_cut up to its await: the block is not set yet. *)
CutOff(t) ==
    /\ pc["sensor"] = "limits"
    /\ Least(ToCut \cup ToRestore, t)
    /\ t \in ToCut
    /\ IF t \in Broken                            \* get_state raises
       THEN /\ Abandon("sensor", "idle")
       ELSE /\ scratch' = [scratch EXCEPT !.was_on = relay[t]]
            /\ Issue("sensor", t, FALSE)
            /\ Goto("sensor", "cutting")
            /\ Loop("sensor", After(todo["sensor"], t))
            /\ UNCHANGED want
    /\ UNCHANGED <<unit, demand, cycle, shown, history>>

(* _maybe_cut after its await: the record, and the block with it. *)
CutRecorded ==
    LET t == op["sensor"].target IN
    /\ pc["sensor"] = "cutting"
    /\ op["sensor"].stage = "written"
    /\ cut' = [cut EXCEPT ![t] = [reason |-> Reason(t),
                                  was_on |-> scratch.was_on]]
    /\ late' = IF relay[t] \/ SwitchingOn(t) THEN late \cup {t} ELSE late
    /\ Goto("sensor", "limits")
    /\ Settle("sensor")
    /\ scratch' = [scratch EXCEPT !.was_on = FALSE]
    /\ UNCHANGED <<relay, mode, applied, demand, engaged, held, todo, want,
                   cycle, shown, byHand>>

(* _restore: the block goes first; a manual unit is put back as it was, an *)
(* automatic one is handed to the schedule.                                *)
Restore(t) ==
    /\ pc["sensor"] = "limits"
    /\ Least(ToCut \cup ToRestore, t)
    /\ t \in ToRestore
    /\ cut' = [cut EXCEPT ![t] = NoCut]
    /\ late' = late \ {t}
    /\ Loop("sensor", After(todo["sensor"], t))
    /\ scratch' = [scratch EXCEPT !.dirty = TRUE]
    /\ IF Automatic(t)
       THEN /\ applied' = Forget(applied, {t})
            /\ UNCHANGED <<pc, op>>
       ELSE /\ Issue("sensor", t, cut[t].was_on)
            /\ Goto("sensor", "restoring")
            /\ UNCHANGED applied
    /\ UNCHANGED <<relay, mode, demand, engaged, held, want, cycle, shown,
                   byHand>>

Restored ==
    /\ pc["sensor"] = "restoring"
    /\ op["sensor"].stage = "written"
    /\ Goto("sensor", "limits")
    /\ Settle("sensor")
    /\ UNCHANGED <<unit, demand, todo, want, cycle, scratch, shown, history>>

LimitsDone ==
    /\ pc["sensor"] = "limits"
    /\ ToCut \cup ToRestore = {}
    /\ scratch' = NoScratch
    /\ IF scratch.dirty
       THEN Evaluate("sensor", "limitsEval", Targets, demand, applied, held)
       ELSE /\ Goto("sensor", "freeze")
            /\ Loop("sensor", {})
            /\ UNCHANGED <<applied, op, want>>
    /\ UNCHANGED <<relay, mode, cut, demand, engaged, held, cycle, shown,
                   history>>

(* Slip: a unit held already is taken to be on still. *)
OffAndNew(t) == t \notin held /\ (t \in Broken \/ ~relay[t])
NotOn(t)     == t \in Broken \/ ~relay[t]         \* or cannot be told

(* _assert_held from the units `from` on, with the held set gathered so    *)
(* far: keep what is on, suspend to switch on the first unit that is off.  *)
AssertHeld(from, gathered) ==
    LET eligible == {t \in from : Automatic(t) /\ ~Blocked(t)}
        stops    == {t \in eligible : NotOn(t)}
    IN \/ /\ stops = {}
          /\ held' = gathered \cup eligible
          /\ Goto("sensor", IF cycle.freeze = "warm" THEN "release" ELSE "idle")
          /\ Loop("sensor", {})
          /\ Settle("sensor")
          /\ scratch' = NoScratch
          /\ UNCHANGED want
       \/ \E t \in Targets :
          /\ Least(stops, t)
          /\ UNCHANGED held
          /\ IF t \in Broken                      \* get_state raises
             THEN Abandon("sensor", "idle")
             ELSE /\ Goto("sensor", "asserting")
                  /\ Loop("sensor", After(from, t))
                  /\ Issue("sensor", t, TRUE)
                  /\ scratch' = [scratch EXCEPT !.held =
                          gathered \cup {u \in eligible : u <= t}]
                  /\ UNCHANGED want

FreezeCheck ==
    /\ pc["sensor"] = "freeze"
    /\ IF \/ cycle.freeze = "unreadable"
          \/ ~engaged /\ cycle.freeze # "cold"
       THEN /\ Goto("sensor", "idle")
            /\ UNCHANGED <<engaged, held, op, todo, want, scratch>>
       ELSE /\ engaged' = TRUE
            /\ AssertHeld(Targets, {})
    /\ UNCHANGED <<relay, mode, cut, applied, demand, cycle, shown, history>>

HeldOn ==
    /\ pc["sensor"] = "asserting"
    /\ op["sensor"].stage = "written"
    /\ AssertHeld(todo["sensor"], scratch.held)
    /\ UNCHANGED <<relay, mode, cut, applied, demand, engaged, cycle, shown,
                   history>>

(* _release from the units `from` on, with the desired states it took at   *)
(* its start: switch off what the schedule does not want, forget what it   *)
(* wants and is off, and evaluate at the end if anything changed.          *)
ReleaseUnits(from, w, dirty) ==
    LET eligible == {t \in from : Automatic(t) /\ ~Blocked(t)}
        stops    == {t \in eligible :
                        t \in Broken \/ (w[t] # "on" /\ relay[t])}
        back(S)  == {t \in S : w[t] = "on" /\ ~relay[t]}
    IN \/ /\ stops = {}
          /\ scratch' = NoScratch
          /\ IF dirty \/ back(eligible) # {}
             THEN Evaluate("sensor", "freezeEval", Targets, demand,
                           Forget(applied, back(eligible)), {})
             ELSE /\ Goto("sensor", "idle")
                  /\ Loop("sensor", {})
                  /\ Settle("sensor")
                  /\ want' = [want EXCEPT !["sensor"] = NotAsked]
                  /\ UNCHANGED applied
       \/ \E t \in Targets :
          /\ Least(stops, t)
          /\ applied' = Forget(applied, back({u \in eligible : u < t}))
          /\ IF t \in Broken                      \* get_state raises
             THEN Abandon("sensor", "idle")
             ELSE /\ Goto("sensor", "releasing")
                  /\ Loop("sensor", After(from, t))
                  /\ Issue("sensor", t, FALSE)
                  /\ scratch' = [scratch EXCEPT !.dirty = TRUE]
                  /\ want' = [want EXCEPT !["sensor"] = w]

(* The held set is emptied first, the desired states are taken, and both   *)
(* happen before the first await.                                          *)
Release ==
    /\ pc["sensor"] = "release"
    /\ engaged' = FALSE
    /\ held' = {}
    /\ ReleaseUnits(held, demand, FALSE)
    /\ UNCHANGED <<relay, mode, cut, demand, cycle, shown, history>>

Released ==
    /\ pc["sensor"] = "releasing"
    /\ op["sensor"].stage = "written"
    /\ ReleaseUnits(todo["sensor"], want["sensor"], TRUE)
    /\ UNCHANGED <<relay, mode, cut, demand, engaged, held, cycle, shown,
                   history>>

-----------------------------------------------------------------------------
(* The WebSocket listener's commands and the control menu. *)

People == Tasks \cap {"ws", "menu"}

(* boiler.turn_on / turn_off and the pump's: only a switch-on looks at the *)
(* block; a refusal changes nothing.                                       *)
SwitchTarget(t, on) ==
    /\ "ws" \in Tasks
    /\ pc["ws"] = "idle"
    /\ on => ~Blocked(t)
    /\ Issue("ws", t, on)
    /\ Goto("ws", "switching")
    /\ UNCHANGED <<unit, demand, todo, want, cycle, scratch, shown, history>>

Switched ==
    /\ "ws" \in Tasks
    /\ pc["ws"] = "switching"
    /\ op["ws"].stage = "written"
    /\ Goto("ws", "idle")
    /\ Settle("ws")
    /\ UNCHANGED <<unit, demand, todo, want, cycle, scratch, shown, history>>

(* set_mode: the mode is set, then the coroutine awaits its file write     *)
(* (an unchanged entry skips the write: then the next step follows at      *)
(* once).                                                                  *)
SetMode(p, t, m) ==
    /\ p \in People
    /\ pc[p] = "idle"
    /\ p = "menu" => Broken = {}          \* drawing its row raises
    /\ mode' = [mode EXCEPT ![t] = m]
    /\ IF m = "automatic"
       THEN Goto(p, "saving") /\ Loop(p, {t})
       ELSE UNCHANGED <<pc, todo>>
    /\ UNCHANGED <<relay, cut, applied, demand, engaged, held, op, want,
                   cycle, scratch, shown, history>>

(* After a switch to automatic the schedule re-asserts the unit at once.   *)
ModeSaved(p) ==
    /\ p \in People
    /\ pc[p] = "saving"
    /\ Evaluate(p, "eval", Targets, demand, Forget(applied, todo[p]), held)
    /\ UNCHANGED <<relay, mode, cut, demand, engaged, held, cycle, scratch,
                   shown, history>>

(* A published or locally edited schedule takes over (set_schedule); the   *)
(* override file is removed or saved before the evaluation.                *)
SetSchedule(p) ==
    /\ p \in People
    /\ pc[p] = "idle"
    /\ Calm
    /\ demand' \in Demands
    /\ applied' = NotAsked
    /\ Goto(p, "saving")
    /\ UNCHANGED <<relay, mode, cut, engaged, held, op, todo, want, cycle,
                   scratch, shown, history>>

(* _relay_menu reads the cut units once, when it is opened, and refuses by *)
(* that reading for as long as it stays open.                              *)
OpenRelayMenu ==
    /\ "menu" \in Tasks
    /\ pc["menu"] = "idle"
    /\ Broken = {}                        \* drawing its row raises
    /\ shown' = {t \in Targets : Blocked(t)}
    /\ Goto("menu", "relays")
    /\ UNCHANGED <<unit, demand, op, todo, want, cycle, scratch, history>>

Toggle(t) ==
    /\ "menu" \in Tasks
    /\ pc["menu"] = "relays"
    /\ ~(t \in shown /\ ~relay[t])
    /\ Issue("menu", t, ~relay[t])
    /\ Goto("menu", "toggling")
    /\ late' = IF Blocked(t) /\ ~relay[t] THEN late \cup {t} ELSE late
    /\ UNCHANGED <<unit, demand, todo, want, cycle, scratch, shown, byHand>>

Toggled ==
    /\ "menu" \in Tasks
    /\ pc["menu"] = "toggling"
    /\ op["menu"].stage = "written"
    /\ Goto("menu", "relays")
    /\ Settle("menu")
    /\ UNCHANGED <<unit, demand, todo, want, cycle, scratch, shown, history>>

CloseRelayMenu ==
    /\ "menu" \in Tasks
    /\ pc["menu"] = "relays"
    /\ Goto("menu", "idle")
    /\ shown' = {}
    /\ UNCHANGED <<unit, demand, op, todo, want, cycle, scratch, history>>

-----------------------------------------------------------------------------
(* The world: the clock, and power. *)

TimePasses ==
    /\ Calm
    /\ demand' \in Demands \ {demand}
    /\ UNCHANGED <<unit, pc, op, todo, want, cycle, scratch, shown, history>>

AtBoot == [p \in Tasks |-> IF p = "sensor" THEN "boot" ELSE "idle"]

(* A restart loses everything but the modes and the schedule, which are    *)
(* read back from their files; the relays start off.                       *)
Restart ==
    /\ PowerFails
    /\ relay' = RelaysOff
    /\ cut' = Uncut
    /\ applied' = NotAsked
    /\ engaged' = FALSE
    /\ held' = {}
    /\ pc' = AtBoot
    /\ op' = [p \in Tasks |-> NoWrite]
    /\ todo' = [p \in Tasks |-> {}]
    /\ want' = [p \in Tasks |-> NotAsked]
    /\ scratch' = NoScratch
    /\ shown' = {}
    /\ late' = {}
    /\ byHand' = {}
    /\ UNCHANGED <<mode, demand, cycle>>

-----------------------------------------------------------------------------
Init ==
    /\ relay = RelaysOff
    /\ mode = [t \in Targets |-> "automatic"]
    /\ cut = Uncut
    /\ applied = NotAsked
    /\ demand \in Demands
    /\ engaged = FALSE
    /\ held = {}
    /\ pc = AtBoot
    /\ op = [p \in Tasks |-> NoWrite]
    /\ todo = [p \in Tasks |-> {}]
    /\ want = [p \in Tasks |-> NotAsked]
    /\ cycle \in Cycles
    /\ scratch = NoScratch
    /\ shown = {}
    /\ late = {}
    /\ byHand = {}

Sensor == \/ Boot \/ StartAgain \/ ReadCycle \/ CycleFails \/ GoRound
          \/ \E t \in Boilers : CutOff(t) \/ Restore(t)
          \/ CutRecorded \/ Restored \/ LimitsDone
          \/ FreezeCheck \/ HeldOn \/ Release \/ Released

Person == \/ \E t \in Targets : \/ \E on \in BOOLEAN : SwitchTarget(t, on)
                                \/ Toggle(t)
          \/ \E p \in People, t \in Targets, m \in {"automatic", "manual"} :
                SetMode(p, t, m)
          \/ \E p \in People : SetSchedule(p)
          \/ OpenRelayMenu \/ CloseRelayMenu

Resume == \/ \E p \in Tasks :
                WriteRelay(p) \/ WriteRaises(p) \/ EvaluateNext(p)
          \/ \E p \in People : ModeSaved(p)
          \/ Switched \/ Toggled

Next == Sensor \/ Tick \/ Person \/ Resume \/ TimePasses \/ Restart

Spec == Init /\ [][Next]_vars

(* Every await is answered, the sensor loop and the tick come round again, *)
(* and nothing is assumed of people, the clock or the power - nor of the   *)
(* probes and the database: every read cycle may fail.                     *)
Fairness ==
    /\ WF_vars(Sensor)
    /\ WF_vars(Tick)
    /\ \A p \in Tasks :
          WF_vars(WriteRelay(p) \/ WriteRaises(p) \/ EvaluateNext(p))
    /\ \A p \in People : WF_vars(ModeSaved(p))
    /\ WF_vars(Switched)
    /\ WF_vars(Toggled)

FairSpec == Spec /\ Fairness

-----------------------------------------------------------------------------
(***************************************************************************)
(* What is checked.                                                        *)
(***************************************************************************)

Labels == Evaluating \cup
    {"idle", "boot", "down", "failed", "limits", "cutting", "restoring",
     "freeze", "asserting", "release", "releasing", "switching", "saving",
     "relays", "toggling"}
Command == [stage : {"none", "issued", "written"}, target : Targets, on : BOOLEAN]
CutRecord == [reason : {"none", "water", "ambient"}, was_on : BOOLEAN]

(* Every variable holds a value of its kind. *)
TypeOK ==
    /\ relay \in [Targets -> BOOLEAN]
    /\ mode \in [Targets -> {"automatic", "manual"}]
    /\ cut \in [Targets -> CutRecord]
    /\ applied \in [Targets -> Asked]
    /\ demand \in [Targets -> Asked]
    /\ engaged \in BOOLEAN
    /\ held \in SUBSET Targets
    /\ pc \in [Tasks -> Labels]
    /\ op \in [Tasks -> Command]
    /\ todo \in [Tasks -> SUBSET Targets]
    /\ want \in [Tasks -> [Targets -> Asked]]
    /\ cycle \in Verdict
    /\ scratch \in [was_on : BOOLEAN, held : SUBSET Targets, dirty : BOOLEAN]
    /\ shown \in SUBSET Targets
    /\ late \in SUBSET Targets
    /\ byHand \in SUBSET Targets

(* A cut boiler is on, or about to be, only if a switch-on was under way   *)
(* before the block was set or the relay menu went by an old reading: no   *)
(* other path of the schedule, the anti-freeze guard or a command leads    *)
(* past a cut (limits_guard.py: a cut outranks everything else).           *)
CutHolds ==
    \A t \in Targets : Blocked(t) /\ (relay[t] \/ SwitchingOn(t)) => t \in late

(* The claim without the exception: a cut boiler is off once no command    *)
(* for it is in flight (README.md:610, limits_guard.py:10).                *)
CutIsOff ==
    \A t \in Targets :
        /\ Blocked(t)
        /\ \A p \in Tasks : op[p].stage # "none" => op[p].target # t
        => ~relay[t]

(* No loop carries a decision over an await: whenever the schedule or the  *)
(* anti-freeze guard issues a command for a unit, the unit is automatic    *)
(* and uncut at that moment, however long ago the loop began.              *)
DecidedAfresh ==
    [][\A p \in Tasks :
         /\ op'[p] # op[p]
         /\ op'[p].stage = "issued"
         /\ pc'[p] \in Evaluating \cup {"asserting", "releasing"}
         => Automatic(op'[p].target) /\ ~Blocked(op'[p].target)]_vars

(* The edge-triggered cache never hides a wrong relay: with every task at  *)
(* rest, a unit the schedule drives whose last write no person made is in  *)
(* the state asked for, or the cache differs and the next tick repairs it. *)
CacheIsHonest ==
    (\A p \in Tasks : pc[p] \in {"idle", "relays"}) =>
        \A t \in Targets \ byHand :
            /\ Drivable(t, demand, NotAsked, held)
            /\ applied[t] = demand[t]
            => relay[t] = (demand[t] = "on")

(* As long as read cycles come through to the anti-freeze guard, an        *)
(* automatic unit that is not cut is on again and again while the water    *)
(* stays cold, whatever commands and the schedule do: the guard re-asserts *)
(* it every cycle (anti_freeze.py:36-38).                                  *)
FreezeKeepsOn ==
    \A t \in Targets :
        /\ []<>(pc["sensor"] = "freeze")
        /\ <>[](cycle.freeze = "cold" /\ Automatic(t) /\ ~Blocked(t))
        => []<>relay[t]

(* As long as read cycles come through to the guard, a boiler that stays   *)
(* over its cut-out is cut, and stays cut (limits_guard.py:4-5), whatever  *)
(* the schedule asks for meanwhile and however many cycles fail between.   *)
OverIsCut ==
    \A t \in Boilers :
        /\ []<>(pc["sensor"] = "limits")
        /\ <>[](cycle.configured /\ t \in cycle.over)
        => <>[]Blocked(t)

=============================================================================
