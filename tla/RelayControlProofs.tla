------------------------- MODULE RelayControlProofs -------------------------
(***************************************************************************)
(* What is proved of RelayControl, for any number of boilers and pumps,    *)
(* any subset of the tasks, any read cycles and any schedules: the types,  *)
(* that a cut is got past in the two ways CutHolds names only, that no     *)
(* loop carries a decision over an await, and, of the installations        *)
(* Everyday describes, that the schedule's cache hides no wrong relay.     *)
(***************************************************************************)
EXTENDS RelayControl, TLAPS

USE UnitsAssumption, TasksAssumption, ChoicesAssumption

(***************************************************************************)
(* The parts of TypeOK that the loops write.                               *)
(***************************************************************************)
LoopVars == <<applied, pc, op, todo, want>>

LoopTypes ==
    /\ applied \in [Targets -> Asked]
    /\ pc \in [Tasks -> Labels]
    /\ op \in [Tasks -> Command]
    /\ todo \in [Tasks -> SUBSET Targets]
    /\ want \in [Tasks -> [Targets -> Asked]]

ScratchType == [was_on : BOOLEAN, held : SUBSET Targets, dirty : BOOLEAN]

(* The command the step gives to task q, if any, is for an automatic unit  *)
(* that is not cut.                                                        *)
Decided(q) ==
    \/ op'[q] = op[q]
    \/ op'[q].stage # "issued"
    \/ Automatic(op'[q].target) /\ ~Blocked(op'[q].target)

-----------------------------------------------------------------------------
(* The values the definitions put into variables have the right types.     *)
LEMMA ConstantTypes ==
    /\ Boilers \subseteq Targets
    /\ 1 \in Targets
    /\ NoWrite \in Command
    /\ NoWrite.stage = "none"
    /\ NoCut \in CutRecord
    /\ NoCut.reason = "none"
    /\ RelaysOff \in [Targets -> BOOLEAN]
    /\ Uncut \in [Targets -> CutRecord]
    /\ NotAsked \in [Targets -> Asked]
    /\ NoScratch \in ScratchType
    /\ AtBoot \in [Tasks -> Labels]
<1>1. Boilers \subseteq Targets /\ 1 \in Targets
  BY DEF Boilers, Targets
<1>2. NoWrite \in Command /\ NoWrite.stage = "none"
  BY <1>1 DEF NoWrite, Command
<1>3. NoCut \in CutRecord /\ NoCut.reason = "none"
  BY DEF NoCut, CutRecord
<1>4. RelaysOff \in [Targets -> BOOLEAN] /\ NotAsked \in [Targets -> Asked]
  BY DEF RelaysOff, NotAsked, Asked
<1>5. Uncut \in [Targets -> CutRecord]
  BY <1>3 DEF Uncut
<1>6. NoScratch \in ScratchType
  BY DEF NoScratch, ScratchType
<1>7. AtBoot \in [Tasks -> Labels]
  BY DEF AtBoot, Labels
<1> QED
  BY <1>1, <1>2, <1>3, <1>4, <1>5, <1>6, <1>7

(* Forgetting keeps the cache a cache.                                     *)
LEMMA ForgetType ==
    ASSUME NEW app \in [Targets -> Asked], NEW S
    PROVE  Forget(app, S) \in [Targets -> Asked]
  BY DEF Forget, Asked

(* Moving a task keeps the types; a command given is a command, and         *)
(* decided afresh if it is for an automatic unit that is not cut.          *)
LEMMA GotoType ==
    ASSUME TypeOK, NEW p \in Tasks, NEW label \in Labels, Goto(p, label)
    PROVE  pc' \in [Tasks -> Labels]
  BY DEF Goto, TypeOK

LEMMA LoopType ==
    ASSUME TypeOK, NEW p \in Tasks, NEW S \in SUBSET Targets, Loop(p, S)
    PROVE  todo' \in [Tasks -> SUBSET Targets]
  BY DEF Loop, TypeOK

LEMMA WantType ==
    ASSUME TypeOK, NEW p \in Tasks, NEW w \in [Targets -> Asked],
           want' = [want EXCEPT ![p] = w]
    PROVE  want' \in [Tasks -> [Targets -> Asked]]
  BY DEF TypeOK

LEMMA SettleFacts ==
    ASSUME TypeOK, NEW p \in Tasks, Settle(p)
    PROVE  op' \in [Tasks -> Command] /\ \A q \in Tasks : Decided(q)
  BY ConstantTypes DEF Settle, TypeOK, Decided

LEMMA IssueType ==
    ASSUME TypeOK, NEW p \in Tasks, NEW t \in Targets, NEW on \in BOOLEAN,
           Issue(p, t, on)
    PROVE  /\ op' \in [Tasks -> Command]
           /\ \A q \in Tasks \ {p} : op'[q] = op[q]
           /\ op'[p] = [stage |-> "issued", target |-> t, on |-> on]
<1>1. op \in [Tasks -> Command]
  BY DEF TypeOK
<1>2. [stage |-> "issued", target |-> t, on |-> on] \in Command
  BY DEF Command
<1> QED
  BY <1>1, <1>2 DEF Issue

LEMMA IssueFacts ==
    ASSUME TypeOK, NEW p \in Tasks, NEW t \in Targets, NEW on \in BOOLEAN,
           Issue(p, t, on), Automatic(t), ~Blocked(t)
    PROVE  op' \in [Tasks -> Command] /\ \A q \in Tasks : Decided(q)
<1>1. /\ op' \in [Tasks -> Command]
      /\ \A q \in Tasks \ {p} : op'[q] = op[q]
      /\ op'[p] = [stage |-> "issued", target |-> t, on |-> on]
  BY IssueType
<1>2. op'[p].target = t
  BY <1>1
<1>3. Decided(p)
  BY <1>2 DEF Decided
<1> QED
  BY <1>1, <1>3 DEF Decided

LEMMA AfterType ==
    ASSUME NEW S \in SUBSET Targets, NEW t
    PROVE  After(S, t) \in SUBSET Targets
  BY DEF After

(* An evaluation keeps the types, and decides by the block and the mode.   *)
LEMMA EvaluateFacts ==
    ASSUME TypeOK,
           NEW p \in Tasks, NEW label \in Labels, NEW from \in SUBSET Targets,
           NEW w \in [Targets -> Asked], NEW app \in [Targets -> Asked],
           NEW kept,
           Evaluate(p, label, from, w, app, kept)
    PROVE  LoopTypes' /\ \A q \in Tasks : Decided(q)
<1> DEFINE pending == {t \in from : Drivable(t, w, app, kept)}
<1>1. applied' \in [Targets -> Asked]
  BY DEF Evaluate
<1>2. CASE pending = {}
  <2>1. /\ Goto(p, AfterEvaluation(label))
        /\ Loop(p, {})
        /\ Settle(p)
        /\ want' = [want EXCEPT ![p] = NotAsked]
    BY <1>2 DEF Evaluate, Least
  <2>2. AfterEvaluation(label) \in Labels
    BY DEF AfterEvaluation, Labels
  <2>3. /\ pc' \in [Tasks -> Labels]
        /\ todo' \in [Tasks -> SUBSET Targets]
        /\ want' \in [Tasks -> [Targets -> Asked]]
    BY <2>1, <2>2, ConstantTypes, GotoType, LoopType, WantType
  <2>4. op' \in [Tasks -> Command] /\ \A q \in Tasks : Decided(q)
    BY <2>1, SettleFacts
  <2> QED
    BY <1>1, <2>3, <2>4 DEF LoopTypes
<1>3. CASE pending # {}
  <2>1. PICK t \in Targets :
          /\ Least(pending, t)
          /\ Goto(p, label)
          /\ Loop(p, After(from, t))
          /\ Issue(p, t, w[t] = "on")
          /\ want' = [want EXCEPT ![p] = w]
    BY <1>3 DEF Evaluate
  <2>2. Automatic(t) /\ ~Blocked(t)
    BY <2>1 DEF Least, Drivable
  <2>3. /\ pc' \in [Tasks -> Labels]
        /\ todo' \in [Tasks -> SUBSET Targets]
        /\ want' \in [Tasks -> [Targets -> Asked]]
    BY <2>1, AfterType, GotoType, LoopType, WantType
  <2>4. op' \in [Tasks -> Command] /\ \A q \in Tasks : Decided(q)
    BY <2>1, <2>2, IssueFacts
  <2> QED
    BY <1>1, <2>3, <2>4 DEF LoopTypes
<1> QED
  BY <1>2, <1>3

(* Giving a loop up keeps the types.                                       *)
LEMMA AbandonFacts ==
    ASSUME TypeOK, NEW p \in Tasks, NEW label \in Labels, Abandon(p, label)
    PROVE  /\ pc' \in [Tasks -> Labels]
           /\ op' \in [Tasks -> Command]
           /\ todo' \in [Tasks -> SUBSET Targets]
           /\ want' \in [Tasks -> [Targets -> Asked]]
           /\ scratch' \in ScratchType
           /\ \A q \in Tasks : Decided(q)
<1>1. /\ pc' \in [Tasks -> Labels]
      /\ todo' \in [Tasks -> SUBSET Targets]
      /\ want' \in [Tasks -> [Targets -> Asked]]
  BY ConstantTypes, GotoType, LoopType, WantType DEF Abandon
<1>2. op' \in [Tasks -> Command] /\ \A q \in Tasks : Decided(q)
  BY SettleFacts DEF Abandon
<1>3. scratch' \in ScratchType
  BY ConstantTypes DEF Abandon, TypeOK, ScratchType
<1> QED
  BY <1>1, <1>2, <1>3

(* The anti-freeze guard's hold keeps the types, and switches on automatic *)
(* units that are not cut.                                                 *)
LEMMA AssertHeldFacts ==
    ASSUME TypeOK, NEW from \in SUBSET Targets,
           NEW gathered \in SUBSET Targets, AssertHeld(from, gathered)
    PROVE  /\ pc' \in [Tasks -> Labels]
           /\ op' \in [Tasks -> Command]
           /\ todo' \in [Tasks -> SUBSET Targets]
           /\ want' \in [Tasks -> [Targets -> Asked]]
           /\ scratch' \in ScratchType
           /\ held' \in SUBSET Targets
           /\ \A q \in Tasks : Decided(q)
<1> DEFINE eligible == {t \in from : Automatic(t) /\ ~Blocked(t)}
           stops    == {t \in eligible : NotOn(t)}
<1> "sensor" \in Tasks
  OBVIOUS
<1> USE AfterType, GotoType, LoopType, WantType
<1>1. CASE stops = {}
  <2>1. /\ held' = gathered \cup eligible
        /\ Goto("sensor", IF cycle.freeze = "warm" THEN "release" ELSE "idle")
        /\ Loop("sensor", {})
        /\ Settle("sensor")
        /\ scratch' = NoScratch
        /\ UNCHANGED want
    BY <1>1 DEF AssertHeld, Least
  <2>2. op' \in [Tasks -> Command] /\ \A q \in Tasks : Decided(q)
    BY <2>1, SettleFacts
  <2>3. /\ pc' \in [Tasks -> Labels]
        /\ todo' \in [Tasks -> SUBSET Targets]
    BY <2>1 DEF Labels
  <2>4. want' \in [Tasks -> [Targets -> Asked]]
    BY <2>1 DEF TypeOK
  <2> QED
    BY <2>1, <2>2, <2>3, <2>4, ConstantTypes
<1>2. CASE stops # {}
  <2>1. PICK t \in Targets :
          /\ Least(stops, t)
          /\ UNCHANGED held
          /\ IF t \in Broken
             THEN Abandon("sensor", "idle")
             ELSE /\ Goto("sensor", "asserting")
                  /\ Loop("sensor", After(from, t))
                  /\ Issue("sensor", t, TRUE)
                  /\ scratch' = [scratch EXCEPT !.held =
                          gathered \cup {u \in eligible : u <= t}]
                  /\ UNCHANGED want
    BY <1>2 DEF AssertHeld
  <2>2. held' \in SUBSET Targets
    BY <2>1 DEF TypeOK
  <2>3. CASE t \in Broken
    BY <2>1, <2>2, <2>3, AbandonFacts DEF Labels
  <2>4. CASE t \notin Broken
    <3>1. Automatic(t) /\ ~Blocked(t)
      BY <2>1 DEF Least
    <3>2. op' \in [Tasks -> Command] /\ \A q \in Tasks : Decided(q)
      BY <2>1, <2>4, <3>1, IssueFacts
    <3>3. /\ pc' \in [Tasks -> Labels]
          /\ todo' \in [Tasks -> SUBSET Targets]
      BY <2>1, <2>4 DEF Labels
    <3>4. scratch \in ScratchType /\ want \in [Tasks -> [Targets -> Asked]]
      BY DEF TypeOK, ScratchType
    <3>5. scratch' \in ScratchType /\ want' \in [Tasks -> [Targets -> Asked]]
      BY <2>1, <2>4, <3>4 DEF ScratchType
    <3> QED
      BY <2>2, <3>2, <3>3, <3>5
  <2> QED
    BY <2>3, <2>4
<1> QED
  BY <1>1, <1>2

(* So does its release, which switches units off.                          *)
LEMMA ReleaseFacts ==
    ASSUME TypeOK, NEW from \in SUBSET Targets,
           NEW w \in [Targets -> Asked], NEW dirty \in BOOLEAN,
           ReleaseUnits(from, w, dirty)
    PROVE  /\ LoopTypes'
           /\ scratch' \in ScratchType
           /\ \A q \in Tasks : Decided(q)
<1> DEFINE eligible == {t \in from : Automatic(t) /\ ~Blocked(t)}
           stops    == {t \in eligible :
                           t \in Broken \/ (w[t] # "on" /\ relay[t])}
           back(S)  == {t \in S : w[t] = "on" /\ ~relay[t]}
<1> "sensor" \in Tasks
  OBVIOUS
<1> USE AfterType, GotoType, LoopType, WantType
<1>1. CASE stops = {}
  <2>1. /\ scratch' = NoScratch
        /\ IF dirty \/ back(eligible) # {}
           THEN Evaluate("sensor", "freezeEval", Targets, demand,
                         Forget(applied, back(eligible)), {})
           ELSE /\ Goto("sensor", "idle")
                /\ Loop("sensor", {})
                /\ Settle("sensor")
                /\ want' = [want EXCEPT !["sensor"] = NotAsked]
                /\ UNCHANGED applied
    BY <1>1 DEF ReleaseUnits, Least
  <2>2. scratch' \in ScratchType
    BY <2>1, ConstantTypes
  <2>3. CASE dirty \/ back(eligible) # {}
    <3>1. Forget(applied, back(eligible)) \in [Targets -> Asked]
      BY ForgetType DEF TypeOK
    <3>2. demand \in [Targets -> Asked]
      BY DEF TypeOK
    <3>3. "freezeEval" \in Labels
      BY DEF Labels, Evaluating
    <3> QED
      BY <2>1, <2>2, <2>3, <3>1, <3>2, <3>3, EvaluateFacts
  <2>4. CASE ~(dirty \/ back(eligible) # {})
    <3>1. op' \in [Tasks -> Command] /\ \A q \in Tasks : Decided(q)
      BY <2>1, <2>4, SettleFacts
    <3>2. /\ pc' \in [Tasks -> Labels]
          /\ todo' \in [Tasks -> SUBSET Targets]
          /\ want' \in [Tasks -> [Targets -> Asked]]
      BY <2>1, <2>4, ConstantTypes DEF Labels
    <3>3. applied' \in [Targets -> Asked]
      BY <2>1, <2>4 DEF TypeOK
    <3> QED
      BY <2>2, <3>1, <3>2, <3>3 DEF LoopTypes
  <2> QED
    BY <2>3, <2>4
<1>2. CASE stops # {}
  <2>1. PICK t \in Targets :
          /\ applied' = Forget(applied, back({u \in eligible : u < t}))
          /\ IF t \in Broken
             THEN Abandon("sensor", "idle")
             ELSE /\ Goto("sensor", "releasing")
                  /\ Loop("sensor", After(from, t))
                  /\ Issue("sensor", t, FALSE)
                  /\ scratch' = [scratch EXCEPT !.dirty = TRUE]
                  /\ want' = [want EXCEPT !["sensor"] = w]
          /\ Least(stops, t)
    BY <1>2 DEF ReleaseUnits
  <2>2. applied' \in [Targets -> Asked]
    BY <2>1, ForgetType DEF TypeOK
  <2>3. CASE t \in Broken
    BY <2>1, <2>2, <2>3, AbandonFacts DEF Labels, LoopTypes
  <2>4. CASE t \notin Broken
    <3>1. Automatic(t) /\ ~Blocked(t)
      BY <2>1 DEF Least
    <3>2. op' \in [Tasks -> Command] /\ \A q \in Tasks : Decided(q)
      BY <2>1, <2>4, <3>1, IssueFacts
    <3>3. /\ pc' \in [Tasks -> Labels]
          /\ todo' \in [Tasks -> SUBSET Targets]
          /\ want' \in [Tasks -> [Targets -> Asked]]
      BY <2>1, <2>4 DEF Labels
    <3>4. scratch \in ScratchType
      BY DEF TypeOK, ScratchType
    <3>5. scratch' \in ScratchType
      BY <2>1, <2>4, <3>4 DEF ScratchType
    <3> QED
      BY <2>2, <3>2, <3>3, <3>5 DEF LoopTypes
  <2> QED
    BY <2>3, <2>4
<1> QED
  BY <1>1, <1>2

-----------------------------------------------------------------------------
(***************************************************************************)
(* Every variable holds a value of its kind, whatever the constants.       *)
(***************************************************************************)
LEMMA TypeInit == Init => TypeOK
<1> SUFFICES ASSUME Init PROVE TypeOK
  OBVIOUS
<1>1. /\ op \in [Tasks -> Command]
      /\ todo \in [Tasks -> SUBSET Targets]
      /\ want \in [Tasks -> [Targets -> Asked]]
  BY ConstantTypes DEF Init
<1>2. /\ mode \in [Targets -> {"automatic", "manual"}]
      /\ demand \in [Targets -> Asked]
      /\ cycle \in Verdict
  BY DEF Init
<1> QED
  BY <1>1, <1>2, ConstantTypes DEF Init, TypeOK, ScratchType

(* The rest of TypeOK, for the actions that leave it alone.                *)
LEMMA TypeStep == TypeOK /\ [Next]_vars => TypeOK'
<1> SUFFICES ASSUME TypeOK, [Next]_vars PROVE TypeOK'
  OBVIOUS
<1> USE GotoType, LoopType, WantType, SettleFacts, AfterType, ConstantTypes
<1> "sensor" \in Tasks /\ People \subseteq Tasks
  BY DEF People
<1>e. ASSUME NEW p \in Tasks, NEW label \in Labels,
             NEW from \in SUBSET Targets, NEW w \in [Targets -> Asked],
             NEW app \in [Targets -> Asked], NEW kept,
             Evaluate(p, label, from, w, app, kept)
      PROVE  LoopTypes'
  BY <1>e, EvaluateFacts
<1>1. ASSUME NEW p \in Tasks, WriteRelay(p) PROVE TypeOK'
  <2>1. op[p].target \in Targets /\ op[p].on \in BOOLEAN
    BY DEF TypeOK, Command
  <2>2. relay' \in [Targets -> BOOLEAN] /\ byHand' \in SUBSET Targets
    BY <1>1, <2>1 DEF WriteRelay, TypeOK
  <2>3. op[p] \in Command /\ op \in [Tasks -> Command]
    BY DEF TypeOK
  <2>4. [op[p] EXCEPT !.stage = "written"] \in Command
    BY <2>3 DEF Command
  <2>5. op' = [op EXCEPT ![p] = [op[p] EXCEPT !.stage = "written"]]
    BY <1>1 DEF WriteRelay
  <2>6. op' \in [Tasks -> Command]
    BY <2>3, <2>4, <2>5
  <2> QED
    BY <1>1, <2>2, <2>6 DEF WriteRelay, TypeOK
<1>2. ASSUME NEW p \in Tasks, WriteRaises(p) PROVE TypeOK'
  <2>1. (IF pc[p] = "bootEval" THEN "down" ELSE "idle") \in Labels
    BY DEF Labels
  <2> QED
    BY <1>2, <2>1, AbandonFacts
    DEF WriteRaises, TypeOK, ScratchType, unit, history
<1>3. ASSUME NEW p \in Tasks, EvaluateNext(p) PROVE TypeOK'
  <2>1. op[p].target \in Targets /\ want[p] \in [Targets -> Asked]
    BY DEF TypeOK, Command
  <2>2. [applied EXCEPT ![op[p].target] = want[p][op[p].target]]
            \in [Targets -> Asked]
    BY <2>1 DEF TypeOK
  <2>3. pc[p] \in Labels /\ todo[p] \in SUBSET Targets
    BY DEF TypeOK
  <2>4. LoopTypes'
    BY <1>3, <1>e, <2>1, <2>2, <2>3 DEF EvaluateNext
  <2> QED
    BY <1>3, <2>4 DEF EvaluateNext, TypeOK, LoopTypes, history
<1>4. ASSUME Tick PROVE TypeOK'
  <2>1. LoopTypes'
    BY <1>4, <1>e DEF Tick, TypeOK, Labels, Evaluating
  <2> QED
    BY <1>4, <2>1 DEF Tick, TypeOK, LoopTypes, history
<1>5. ASSUME Boot PROVE TypeOK'
  <2>1. LoopTypes'
    BY <1>5, <1>e DEF Boot, TypeOK, Labels, Evaluating
  <2> QED
    BY <1>5, <2>1 DEF Boot, TypeOK, LoopTypes, history
<1>6. ASSUME StartAgain PROVE TypeOK'
  <2>1. pc' \in [Tasks -> Labels]
    BY <1>6 DEF StartAgain, Labels
  <2> QED
    BY <1>6, <2>1 DEF StartAgain, TypeOK
<1>7. ASSUME ReadCycle PROVE TypeOK'
  <2>1. /\ cycle' \in Verdict
        /\ pc' \in [Tasks -> Labels]
        /\ todo' \in [Tasks -> SUBSET Targets]
    BY <1>7 DEF ReadCycle, Labels
  <2> QED
    BY <1>7, <2>1 DEF ReadCycle, TypeOK, ScratchType, unit, history
<1>8. ASSUME NEW t \in Boilers, CutOff(t) PROVE TypeOK'
  <2>1. CASE t \in Broken
    <3>1. Abandon("sensor", "idle")
      BY <1>8, <2>1 DEF CutOff
    <3> QED
      BY <1>8, <3>1, AbandonFacts
      DEF CutOff, TypeOK, ScratchType, Labels, unit, history
  <2>2. CASE t \notin Broken
    <3>1. Issue("sensor", t, FALSE) /\ Goto("sensor", "cutting")
      BY <1>8, <2>2 DEF CutOff
    <3>2. op' \in [Tasks -> Command] /\ pc' \in [Tasks -> Labels]
      BY <3>1, IssueType DEF Labels
    <3>3. todo["sensor"] \in SUBSET Targets
      BY DEF TypeOK
    <3>4. todo' \in [Tasks -> SUBSET Targets]
      BY <1>8, <2>2, <3>3 DEF CutOff
    <3>5. scratch \in ScratchType /\ relay[t] \in BOOLEAN
      BY DEF TypeOK, ScratchType
    <3>6. scratch' \in ScratchType
      BY <1>8, <2>2, <3>5 DEF CutOff, ScratchType
    <3> QED
      BY <1>8, <2>2, <3>2, <3>4, <3>6
      DEF CutOff, TypeOK, ScratchType, unit, history
  <2> QED
    BY <2>1, <2>2
<1>9. ASSUME CutRecorded PROVE TypeOK'
  <2>1. op["sensor"].target \in Targets
    BY DEF TypeOK, Command
  <2>2. scratch \in ScratchType
    BY DEF TypeOK, ScratchType
  <2>3. [reason |-> Reason(op["sensor"].target), was_on |-> scratch.was_on]
            \in CutRecord
    BY <2>2 DEF CutRecord, Reason, ScratchType
  <2>4. cut' \in [Targets -> CutRecord] /\ late' \in SUBSET Targets
    BY <1>9, <2>1, <2>3 DEF CutRecorded, TypeOK
  <2>5. pc' \in [Tasks -> Labels] /\ op' \in [Tasks -> Command]
    BY <1>9 DEF CutRecorded, Labels
  <2>6. scratch' \in ScratchType
    BY <1>9, <2>2 DEF CutRecorded, ScratchType
  <2> QED
    BY <1>9, <2>4, <2>5, <2>6 DEF CutRecorded, TypeOK, ScratchType
<1>10. ASSUME NEW t \in Boilers, Restore(t) PROVE TypeOK'
  <2>1. cut' \in [Targets -> CutRecord] /\ late' \in SUBSET Targets
    BY <1>10 DEF Restore, TypeOK
  <2>2. todo["sensor"] \in SUBSET Targets
    BY DEF TypeOK
  <2>3. todo' \in [Tasks -> SUBSET Targets]
    BY <1>10, <2>2 DEF Restore
  <2>4. scratch \in ScratchType /\ cut[t].was_on \in BOOLEAN
    BY DEF TypeOK, ScratchType, CutRecord
  <2>5. scratch' \in ScratchType
    BY <1>10, <2>4 DEF Restore, ScratchType
  <2>6. CASE Automatic(t)
    <3>1. applied' \in [Targets -> Asked]
      BY <1>10, <2>6, ForgetType DEF Restore, TypeOK
    <3>2. pc' \in [Tasks -> Labels] /\ op' \in [Tasks -> Command]
      BY <1>10, <2>6 DEF Restore, TypeOK
    <3> QED
      BY <1>10, <2>1, <2>3, <2>5, <3>1, <3>2 DEF Restore, TypeOK, ScratchType
  <2>7. CASE ~Automatic(t)
    <3>1. applied' \in [Targets -> Asked]
      BY <1>10, <2>7 DEF Restore, TypeOK
    <3>2. /\ Issue("sensor", t, cut[t].was_on)
          /\ Goto("sensor", "restoring")
      BY <1>10, <2>7 DEF Restore
    <3>3. pc' \in [Tasks -> Labels] /\ op' \in [Tasks -> Command]
      BY <3>2, <2>4, IssueType DEF Labels
    <3> QED
      BY <1>10, <2>1, <2>3, <2>5, <3>1, <3>3 DEF Restore, TypeOK, ScratchType
  <2> QED
    BY <2>6, <2>7
<1>11. ASSUME Restored PROVE TypeOK'
  <2>1. pc' \in [Tasks -> Labels] /\ op' \in [Tasks -> Command]
    BY <1>11 DEF Restored, Labels
  <2> QED
    BY <1>11, <2>1 DEF Restored, TypeOK, unit, history
<1>12. ASSUME LimitsDone PROVE TypeOK'
  <2>1. CASE scratch.dirty
    <3>1. LoopTypes'
      BY <1>12, <2>1, <1>e DEF LimitsDone, TypeOK, Labels, Evaluating
    <3> QED
      BY <1>12, <3>1 DEF LimitsDone, TypeOK, LoopTypes, ScratchType, history
  <2>2. CASE ~scratch.dirty
    <3>1. pc' \in [Tasks -> Labels] /\ todo' \in [Tasks -> SUBSET Targets]
      BY <1>12, <2>2 DEF LimitsDone, Labels
    <3> QED
      BY <1>12, <2>2, <3>1 DEF LimitsDone, TypeOK, ScratchType, history
  <2> QED
    BY <2>1, <2>2
<1>13. ASSUME FreezeCheck PROVE TypeOK'
  <2>1. \/ /\ Goto("sensor", "idle")
           /\ UNCHANGED <<engaged, held, op, todo, want, scratch>>
        \/ engaged' = TRUE /\ AssertHeld(Targets, {})
    BY <1>13 DEF FreezeCheck
  <2>2. CASE /\ Goto("sensor", "idle")
             /\ UNCHANGED <<engaged, held, op, todo, want, scratch>>
    <3>1. pc' \in [Tasks -> Labels]
      BY <2>2 DEF Labels
    <3> QED
      BY <1>13, <2>2, <3>1 DEF FreezeCheck, TypeOK, history
  <2>3. CASE engaged' = TRUE /\ AssertHeld(Targets, {})
    BY <1>13, <2>3, AssertHeldFacts DEF FreezeCheck, TypeOK, ScratchType, history
  <2> QED
    BY <2>1, <2>2, <2>3
<1>14. ASSUME HeldOn PROVE TypeOK'
  <2>1. todo["sensor"] \in SUBSET Targets /\ scratch.held \in SUBSET Targets
    BY DEF TypeOK
  <2> QED
    BY <1>14, <2>1, AssertHeldFacts DEF HeldOn, TypeOK, ScratchType, history
<1>15. ASSUME Release PROVE TypeOK'
  <2>1. held \in SUBSET Targets /\ demand \in [Targets -> Asked]
    BY DEF TypeOK
  <2> QED
    BY <1>15, <2>1, ReleaseFacts
    DEF Release, TypeOK, LoopTypes, ScratchType, history
<1>16. ASSUME Released PROVE TypeOK'
  <2>1. /\ todo["sensor"] \in SUBSET Targets
        /\ want["sensor"] \in [Targets -> Asked]
    BY DEF TypeOK
  <2> QED
    BY <1>16, <2>1, ReleaseFacts
    DEF Released, TypeOK, LoopTypes, ScratchType, history
<1>17. ASSUME NEW t \in Targets, NEW on \in BOOLEAN, SwitchTarget(t, on)
       PROVE  TypeOK'
  <2>1. pc' \in [Tasks -> Labels] /\ op' \in [Tasks -> Command]
    BY <1>17, IssueType DEF SwitchTarget, Labels
  <2> QED
    BY <1>17, <2>1 DEF SwitchTarget, TypeOK, unit, history
<1>18. ASSUME NEW t \in Targets, Toggle(t) PROVE TypeOK'
  <2>1. (~relay[t]) \in BOOLEAN /\ late' \in SUBSET Targets
    BY <1>18 DEF Toggle, TypeOK
  <2>2. pc' \in [Tasks -> Labels] /\ op' \in [Tasks -> Command]
    BY <1>18, <2>1, IssueType DEF Toggle, Labels
  <2> QED
    BY <1>18, <2>1, <2>2 DEF Toggle, TypeOK, unit
<1>19. ASSUME NEW p \in People, NEW t \in Targets,
              NEW m \in {"automatic", "manual"}, SetMode(p, t, m)
       PROVE  TypeOK'
  <2>1. mode' \in [Targets -> {"automatic", "manual"}]
    BY <1>19 DEF SetMode, TypeOK
  <2>2. pc' \in [Tasks -> Labels] /\ todo' \in [Tasks -> SUBSET Targets]
    BY <1>19 DEF SetMode, Labels, TypeOK
  <2> QED
    BY <1>19, <2>1, <2>2 DEF SetMode, TypeOK, history
<1>20. ASSUME NEW p \in People, ModeSaved(p) PROVE TypeOK'
  <2>1. Forget(applied, todo[p]) \in [Targets -> Asked]
    BY ForgetType DEF TypeOK
  <2>2. LoopTypes'
    BY <1>20, <1>e, <2>1 DEF ModeSaved, TypeOK, Labels, Evaluating
  <2> QED
    BY <1>20, <2>2 DEF ModeSaved, TypeOK, LoopTypes, history
<1>21. ASSUME NEW p \in People, SetSchedule(p) PROVE TypeOK'
  <2>1. pc' \in [Tasks -> Labels] /\ demand' \in [Targets -> Asked]
    BY <1>21 DEF SetSchedule, Labels
  <2> QED
    BY <1>21, <2>1 DEF SetSchedule, TypeOK, history
<1>22. ASSUME OpenRelayMenu \/ CloseRelayMenu \/ Switched \/ Toggled
       PROVE  TypeOK'
  <2>1. "ws" \in Tasks \/ "menu" \in Tasks
    BY <1>22 DEF OpenRelayMenu, CloseRelayMenu, Switched, Toggled
  <2>2. pc' \in [Tasks -> Labels]
    BY <1>22 DEF OpenRelayMenu, CloseRelayMenu, Switched, Toggled, Labels
  <2>3. op' \in [Tasks -> Command] /\ shown' \in SUBSET Targets
    BY <1>22 DEF OpenRelayMenu, CloseRelayMenu, Switched, Toggled, TypeOK
  <2> QED
    BY <1>22, <2>2, <2>3
    DEF OpenRelayMenu, CloseRelayMenu, Switched, Toggled, TypeOK, unit, history
<1>23. ASSUME TimePasses PROVE TypeOK'
  BY <1>23 DEF TimePasses, TypeOK, unit, history
<1>24. ASSUME Restart PROVE TypeOK'
  BY <1>24 DEF Restart, TypeOK, ScratchType
<1>25. ASSUME UNCHANGED vars PROVE TypeOK'
  BY <1>25 DEF vars, TypeOK
<1>26. ASSUME CycleFails \/ GoRound PROVE TypeOK'
  <2>1. pc' \in [Tasks -> Labels]
    BY <1>26 DEF CycleFails, GoRound, Labels
  <2> QED
    BY <1>26, <2>1 DEF CycleFails, GoRound, TypeOK, unit, history
<1> QED
  BY <1>1, <1>2, <1>3, <1>4, <1>5, <1>6, <1>7, <1>8, <1>9, <1>10, <1>11,
     <1>12, <1>13, <1>14, <1>15, <1>16, <1>17, <1>18, <1>19, <1>20, <1>21,
     <1>22, <1>23, <1>24, <1>25, <1>26
  DEF Next, Sensor, Person, Resume

(* Type correctness of the tasks that switch relays.                       *)
THEOREM TypeCorrect == Spec => []TypeOK
<1>1. Init => TypeOK
  BY TypeInit
<1>2. TypeOK /\ [Next]_vars => TypeOK'
  BY TypeStep
<1> QED
  BY <1>1, <1>2, PTL DEF Spec

-----------------------------------------------------------------------------
(***************************************************************************)
(* CutHolds.  Only CutRecorded blocks a unit; every other step leaves a    *)
(* blocked unit as it is unless what it does is recorded in late.          *)
(***************************************************************************)
LEMMA QuietStep ==
    ASSUME CutHolds,
           \A t \in Targets : cut'[t].reason # "none" =>
               /\ Blocked(t)
               /\ t \in late => t \in late'
               /\ relay'[t] => relay[t] \/ SwitchingOn(t),
           \A q \in Tasks :
               \/ op'[q] = op[q]
               \/ op'[q].stage # "issued"
               \/ ~op'[q].on
               \/ cut'[op'[q].target].reason = "none"
               \/ op'[q].target \in late'
    PROVE  CutHolds'
<1> SUFFICES ASSUME NEW t \in Targets, Blocked(t)',
                    relay'[t] \/ SwitchingOn(t)'
             PROVE  t \in late'
  BY DEF CutHolds
<1>1. cut'[t].reason # "none"
  BY DEF Blocked
<1>2. CASE relay'[t]
  BY <1>1, <1>2 DEF CutHolds
<1>3. CASE SwitchingOn(t)'
  <2>1. PICK q \in Tasks :
          op'[q].stage = "issued" /\ op'[q].target = t /\ op'[q].on
    BY <1>3 DEF SwitchingOn
  <2>2. CASE op'[q] = op[q]
    <3>1. SwitchingOn(t)
      BY <2>1, <2>2 DEF SwitchingOn
    <3> QED
      BY <1>1, <3>1 DEF CutHolds
  <2>3. CASE op'[q] # op[q]
    BY <1>1, <2>1, <2>3
  <2> QED
    BY <2>2, <2>3
<1> QED
  BY <1>2, <1>3

(* A step that gives commands for uncut units only, and moves neither pins *)
(* nor blocks, keeps CutHolds.                                             *)
LEMMA DecidedStep ==
    ASSUME CutHolds, UNCHANGED <<cut, relay, late>>,
           \A q \in Tasks : Decided(q)
    PROVE  CutHolds'
<1>1. \A t \in Targets : cut'[t].reason # "none" =>
          /\ Blocked(t)
          /\ t \in late => t \in late'
          /\ relay'[t] => relay[t] \/ SwitchingOn(t)
  BY DEF Blocked
<1>2. \A q \in Tasks :
          \/ op'[q] = op[q]
          \/ op'[q].stage # "issued"
          \/ ~op'[q].on
          \/ cut'[op'[q].target].reason = "none"
          \/ op'[q].target \in late'
  BY DEF Decided, Blocked
<1> QED
  BY <1>1, <1>2, QuietStep

(* A command given for a unit that is not cut, or to switch off.           *)
LEMMA IssuedStep ==
    ASSUME TypeOK, CutHolds, UNCHANGED <<cut, relay>>, late \subseteq late',
           NEW p \in Tasks, NEW t \in Targets, NEW on \in BOOLEAN,
           Issue(p, t, on),
           on => ~Blocked(t) \/ t \in late'
    PROVE  CutHolds'
<1>1. \A u \in Targets : cut'[u].reason # "none" =>
          /\ Blocked(u)
          /\ u \in late => u \in late'
          /\ relay'[u] => relay[u] \/ SwitchingOn(u)
  BY DEF Blocked
<1>2. /\ \A q \in Tasks \ {p} : op'[q] = op[q]
      /\ op'[p] = [stage |-> "issued", target |-> t, on |-> on]
  BY IssueType
<1>3. op'[p].target = t /\ op'[p].on = on
  BY <1>2
<1>4. ~op'[p].on \/ cut'[t].reason = "none" \/ t \in late'
  BY <1>3 DEF Blocked
<1>5. \A q \in Tasks :
          \/ op'[q] = op[q]
          \/ op'[q].stage # "issued"
          \/ ~op'[q].on
          \/ cut'[op'[q].target].reason = "none"
          \/ op'[q].target \in late'
  BY <1>2, <1>3, <1>4
<1> QED
  BY <1>1, <1>5, QuietStep

(* Which command each evaluating or looping step gives.                    *)
LEMMA LoopsDecide ==
    ASSUME TypeOK,
           \/ \E p \in Tasks : WriteRaises(p) \/ EvaluateNext(p)
           \/ \E p \in People : ModeSaved(p)
           \/ Tick \/ Boot \/ LimitsDone
           \/ FreezeCheck \/ HeldOn \/ Release \/ Released
    PROVE  /\ \A q \in Tasks : Decided(q)
           /\ UNCHANGED <<cut, relay, late>>
<1> USE EvaluateFacts
<1> "sensor" \in Tasks /\ People \subseteq Tasks
  BY DEF People
<1>1. ASSUME NEW p \in Tasks, WriteRaises(p)
      PROVE  \A q \in Tasks : Decided(q)
  <2>1. (IF pc[p] = "bootEval" THEN "down" ELSE "idle") \in Labels
    BY DEF Labels
  <2> QED
    BY <1>1, <2>1, AbandonFacts DEF WriteRaises
<1>2. ASSUME NEW p \in Tasks, EvaluateNext(p)
      PROVE  \A q \in Tasks : Decided(q)
  <2>1. op[p].target \in Targets /\ want[p] \in [Targets -> Asked]
    BY DEF TypeOK, Command
  <2>2. [applied EXCEPT ![op[p].target] = want[p][op[p].target]]
            \in [Targets -> Asked]
    BY <2>1 DEF TypeOK
  <2>3. pc[p] \in Labels /\ todo[p] \in SUBSET Targets
    BY DEF TypeOK
  <2> QED
    BY <1>2, <2>1, <2>2, <2>3 DEF EvaluateNext
<1>3. ASSUME NEW p \in People, ModeSaved(p)
      PROVE  \A q \in Tasks : Decided(q)
  <2>1. Forget(applied, todo[p]) \in [Targets -> Asked]
    BY ForgetType DEF TypeOK
  <2> QED
    BY <1>3, <2>1 DEF ModeSaved, TypeOK, Labels, Evaluating
<1>4. ASSUME Tick PROVE \A q \in Tasks : Decided(q)
  BY <1>4 DEF Tick, TypeOK, Labels, Evaluating
<1>5. ASSUME Boot PROVE \A q \in Tasks : Decided(q)
  BY <1>5 DEF Boot, TypeOK, Labels, Evaluating
<1>6. ASSUME LimitsDone PROVE \A q \in Tasks : Decided(q)
  <2>1. CASE scratch.dirty
    BY <1>6, <2>1 DEF LimitsDone, TypeOK, Labels, Evaluating
  <2>2. CASE ~scratch.dirty
    BY <1>6, <2>2 DEF LimitsDone, Decided
  <2> QED
    BY <2>1, <2>2
<1>7. ASSUME FreezeCheck PROVE \A q \in Tasks : Decided(q)
  <2>1. op' = op \/ AssertHeld(Targets, {})
    BY <1>7 DEF FreezeCheck
  <2>2. CASE op' = op
    BY <2>2 DEF Decided
  <2>3. CASE AssertHeld(Targets, {})
    BY <2>3, AssertHeldFacts
  <2> QED
    BY <2>1, <2>2, <2>3
<1>8. ASSUME HeldOn PROVE \A q \in Tasks : Decided(q)
  <2>1. todo["sensor"] \in SUBSET Targets /\ scratch.held \in SUBSET Targets
    BY DEF TypeOK
  <2> QED
    BY <1>8, <2>1, AssertHeldFacts DEF HeldOn
<1>9. ASSUME Release PROVE \A q \in Tasks : Decided(q)
  <2>1. held \in SUBSET Targets /\ demand \in [Targets -> Asked]
    BY DEF TypeOK
  <2> QED
    BY <1>9, <2>1, ReleaseFacts DEF Release
<1>10. ASSUME Released PROVE \A q \in Tasks : Decided(q)
  <2>1. /\ todo["sensor"] \in SUBSET Targets
        /\ want["sensor"] \in [Targets -> Asked]
    BY DEF TypeOK
  <2> QED
    BY <1>10, <2>1, ReleaseFacts DEF Released
<1>11. \A q \in Tasks : Decided(q)
  BY <1>1, <1>2, <1>3, <1>4, <1>5, <1>6, <1>7, <1>8, <1>9, <1>10
<1>12. UNCHANGED <<cut, relay, late>>
  BY DEF WriteRaises, EvaluateNext, ModeSaved, Tick, Boot, LimitsDone,
         FreezeCheck, HeldOn, Release, Released, unit, history
<1> QED
  BY <1>11, <1>12

LEMMA CutHoldsStep == TypeOK /\ CutHolds /\ [Next]_vars => CutHolds'
<1> SUFFICES ASSUME TypeOK, CutHolds, [Next]_vars PROVE CutHolds'
  OBVIOUS
<1> "sensor" \in Tasks /\ People \subseteq Tasks
  BY DEF People
<1> DEFINE Loops == \/ \E p \in Tasks : WriteRaises(p) \/ EvaluateNext(p)
                    \/ \E p \in People : ModeSaved(p)
                    \/ Tick \/ Boot \/ LimitsDone
                    \/ FreezeCheck \/ HeldOn \/ Release \/ Released
<1>1. CASE Loops
  BY <1>1, LoopsDecide, DecidedStep
<1>2. ASSUME NEW p \in Tasks, WriteRelay(p) PROVE CutHolds'
  <2>1. /\ op[p] \in Command
        /\ op[p].stage = "issued"
        /\ relay' = [relay EXCEPT ![op[p].target] = op[p].on]
        /\ op' = [op EXCEPT ![p] = [op[p] EXCEPT !.stage = "written"]]
        /\ op \in [Tasks -> Command]
        /\ relay \in [Targets -> BOOLEAN]
        /\ UNCHANGED <<cut, late>>
    BY <1>2 DEF WriteRelay, TypeOK
  <2>2. \A t \in Targets : relay'[t] => relay[t] \/ SwitchingOn(t)
    BY <2>1 DEF SwitchingOn
  <2>3. [op[p] EXCEPT !.stage = "written"].stage = "written"
    BY <2>1 DEF Command
  <2>4. \A q \in Tasks : op'[q] = op[q] \/ op'[q].stage # "issued"
    BY <2>1, <2>3
  <2> QED
    BY <2>1, <2>2, <2>4, QuietStep DEF Blocked
<1>3. ASSUME NEW t \in Boilers, CutOff(t) PROVE CutHolds'
  <2>1. UNCHANGED <<cut, relay, late>>
    BY <1>3 DEF CutOff, unit, history
  <2>2. CASE t \in Broken
    <3>1. Abandon("sensor", "idle")
      BY <1>3, <2>2 DEF CutOff
    <3> QED
      BY <2>1, <3>1, AbandonFacts, DecidedStep DEF Labels
  <2>3. CASE t \notin Broken
    <3>1. Issue("sensor", t, FALSE) /\ t \in Targets
      BY <1>3, <2>3, ConstantTypes DEF CutOff
    <3> QED
      BY <2>1, <3>1, IssuedStep
  <2> QED
    BY <2>2, <2>3
<1>4. ASSUME CutRecorded PROVE CutHolds'
  <2> DEFINE u == op["sensor"].target
  <2>1. /\ UNCHANGED relay
        /\ cut' = [cut EXCEPT ![u] = [reason |-> Reason(u),
                                      was_on |-> scratch.was_on]]
        /\ late' = IF relay[u] \/ SwitchingOn(u) THEN late \cup {u} ELSE late
        /\ op' = [op EXCEPT !["sensor"] = NoWrite]
        /\ op \in [Tasks -> Command]
        /\ cut \in [Targets -> CutRecord]
    BY <1>4 DEF CutRecorded, Settle, TypeOK
  <2>2. \A t \in Targets : SwitchingOn(t)' => SwitchingOn(t)
    <3>1. op'["sensor"].stage = "none"
      BY <2>1, ConstantTypes
    <3>2. \A q \in Tasks : q # "sensor" => op'[q] = op[q]
      BY <2>1
    <3> QED
      BY <3>1, <3>2 DEF SwitchingOn
  <2> SUFFICES ASSUME NEW t \in Targets, Blocked(t)',
                      relay'[t] \/ SwitchingOn(t)'
               PROVE  t \in late'
    BY DEF CutHolds
  <2>3. relay[t] \/ SwitchingOn(t)
    BY <2>1, <2>2
  <2>4. CASE t = u
    BY <2>1, <2>3, <2>4
  <2>5. CASE t # u
    <3>1. Blocked(t)
      BY <2>1, <2>5 DEF Blocked
    <3> QED
      BY <2>1, <2>3, <3>1 DEF CutHolds
  <2> QED
    BY <2>4, <2>5
<1>5. ASSUME NEW t \in Boilers, Restore(t) PROVE CutHolds'
  <2>1. /\ UNCHANGED relay
        /\ cut' = [cut EXCEPT ![t] = NoCut]
        /\ late' = late \ {t}
        /\ cut \in [Targets -> CutRecord]
        /\ t \in Targets
    BY <1>5, ConstantTypes DEF Restore, TypeOK
  <2>2. cut'[t].reason = "none"
    BY <2>1, ConstantTypes
  <2>3. \A u \in Targets : cut'[u].reason # "none" =>
            /\ Blocked(u)
            /\ u \in late => u \in late'
            /\ relay'[u] => relay[u]
    BY <2>1, <2>2 DEF Blocked
  <2>4. \A q \in Tasks : op'[q] = op[q] \/ op'[q].target = t
    <3>1. CASE Automatic(t)
      BY <1>5, <3>1 DEF Restore
    <3>2. CASE ~Automatic(t)
      <4>1. Issue("sensor", t, cut[t].was_on) /\ cut[t].was_on \in BOOLEAN
        BY <1>5, <3>2, <2>1 DEF Restore, CutRecord
      <4>2. /\ \A q \in Tasks \ {"sensor"} : op'[q] = op[q]
            /\ op'["sensor"] = [stage |-> "issued", target |-> t,
                                on |-> cut[t].was_on]
        BY <2>1, <4>1, IssueType
      <4> QED
        BY <4>2
    <3> QED
      BY <3>1, <3>2
  <2>5. \A q \in Tasks : op'[q] = op[q] \/ cut'[op'[q].target].reason = "none"
    BY <2>2, <2>4
  <2> QED
    BY <2>3, <2>5, QuietStep
<1>6. ASSUME NEW t \in Targets, NEW on \in BOOLEAN, SwitchTarget(t, on)
      PROVE  CutHolds'
  <2>1. /\ "ws" \in Tasks
        /\ Issue("ws", t, on)
        /\ on => ~Blocked(t)
        /\ UNCHANGED <<cut, relay, late>>
    BY <1>6 DEF SwitchTarget, unit, history
  <2> QED
    BY <2>1, IssuedStep
<1>7. ASSUME NEW t \in Targets, Toggle(t) PROVE CutHolds'
  <2>1. /\ "menu" \in Tasks
        /\ Issue("menu", t, ~relay[t])
        /\ late' = IF Blocked(t) /\ ~relay[t] THEN late \cup {t} ELSE late
        /\ UNCHANGED <<cut, relay>>
        /\ (~relay[t]) \in BOOLEAN
    BY <1>7 DEF Toggle, unit
  <2>2. late \subseteq late' /\ (~relay[t] => ~Blocked(t) \/ t \in late')
    BY <2>1
  <2> QED
    BY <2>1, <2>2, IssuedStep
<1>8. CASE \/ ReadCycle \/ CycleFails \/ GoRound \/ TimePasses
           \/ \E p \in People, t \in Targets, m \in {"automatic", "manual"} :
                 SetMode(p, t, m)
           \/ \E p \in People : SetSchedule(p)
           \/ OpenRelayMenu \/ CloseRelayMenu
           \/ UNCHANGED vars
  <2>1. UNCHANGED <<cut, relay, late, op>>
    BY <1>8 DEF ReadCycle, CycleFails, GoRound, TimePasses, SetMode, SetSchedule,
                OpenRelayMenu, CloseRelayMenu, vars, unit, history
  <2> QED
    BY <2>1, DecidedStep DEF Decided
<1>9. CASE Restored \/ Switched \/ Toggled
  <2>1. \E p \in Tasks : Settle(p)
    BY <1>9 DEF Restored, Switched, Toggled
  <2>2. UNCHANGED <<cut, relay, late>>
    BY <1>9 DEF Restored, Switched, Toggled, unit, history
  <2> QED
    BY <2>1, <2>2, SettleFacts, DecidedStep
<1>10. CASE StartAgain
  <2>1. /\ UNCHANGED <<cut, late, op>>
        /\ \A t \in Targets : ~relay'[t]
    BY <1>10 DEF StartAgain, RelaysOff
  <2> QED
    BY <2>1, QuietStep DEF Blocked
<1>11. CASE Restart
  <2>1. \A t \in Targets : cut'[t].reason = "none"
    BY <1>11, ConstantTypes DEF Restart, Uncut
  <2> QED
    BY <2>1 DEF CutHolds, Blocked
<1> QED
  BY <1>1, <1>2, <1>3, <1>4, <1>5, <1>6, <1>7, <1>8, <1>9, <1>10, <1>11
  DEF Next, Sensor, Person, Resume

(* A cut boiler is on, or about to be, only because a switch-on was in     *)
(* flight when its block was set or the open relay menu went by an old     *)
(* reading: the schedule, the anti-freeze guard and the commands never get *)
(* past a cut on their own.                                                *)
THEOREM CutIsRespected == Spec => []CutHolds
<1>1. Init => CutHolds
  BY ConstantTypes DEF Init, CutHolds, Blocked, Uncut
<1>2. TypeOK /\ CutHolds /\ [Next]_vars => CutHolds'
  BY CutHoldsStep
<1> QED
  BY <1>1, <1>2, TypeCorrect, PTL DEF Spec

-----------------------------------------------------------------------------
(***************************************************************************)
(* DecidedAfresh, as a property of one step.                               *)
(***************************************************************************)
FreshCommand(p) ==
    /\ op'[p] # op[p]
    /\ op'[p].stage = "issued"
    /\ pc'[p] \in Evaluating \cup {"asserting", "releasing"}
    => Automatic(op'[p].target) /\ ~Blocked(op'[p].target)

(* The steps that give one command and leave its task at another label.    *)
LEMMA OtherLabel ==
    ASSUME TypeOK, NEW p \in Tasks, NEW t \in Targets, NEW on \in BOOLEAN,
           NEW label \in {"cutting", "restoring", "switching", "toggling"},
           Issue(p, t, on), Goto(p, label)
    PROVE  \A q \in Tasks : FreshCommand(q)
<1>1. \A q \in Tasks \ {p} : op'[q] = op[q]
  BY IssueType
<1>2. pc'[p] = label
  BY DEF Goto, TypeOK
<1>3. label \notin Evaluating \cup {"asserting", "releasing"}
  BY DEF Evaluating
<1> QED
  BY <1>1, <1>2, <1>3 DEF FreshCommand

LEMMA FreshStep ==
    TypeOK /\ [Next]_vars => \A q \in Tasks : FreshCommand(q)
<1> SUFFICES ASSUME TypeOK, [Next]_vars
             PROVE  \A q \in Tasks : FreshCommand(q)
  OBVIOUS
<1> "sensor" \in Tasks /\ People \subseteq Tasks
  BY DEF People
<1>d. ASSUME \A q \in Tasks : Decided(q)
      PROVE  \A q \in Tasks : FreshCommand(q)
  BY <1>d DEF Decided, FreshCommand
<1> DEFINE Loops == \/ \E p \in Tasks : WriteRaises(p) \/ EvaluateNext(p)
                    \/ \E p \in People : ModeSaved(p)
                    \/ Tick \/ Boot \/ LimitsDone
                    \/ FreezeCheck \/ HeldOn \/ Release \/ Released
<1>1. CASE Loops
  BY <1>1, <1>d, LoopsDecide
<1>2. ASSUME NEW p \in Tasks, WriteRelay(p)
      PROVE  \A q \in Tasks : Decided(q)
  <2>1. /\ op[p] \in Command
        /\ op' = [op EXCEPT ![p] = [op[p] EXCEPT !.stage = "written"]]
        /\ op \in [Tasks -> Command]
    BY <1>2 DEF WriteRelay, TypeOK
  <2>2. [op[p] EXCEPT !.stage = "written"].stage = "written"
    BY <2>1 DEF Command
  <2>3. \A q \in Tasks : op'[q] = op[q] \/ op'[q].stage # "issued"
    BY <2>1, <2>2
  <2> QED
    BY <2>3 DEF Decided
<1>3. ASSUME NEW t \in Boilers, CutOff(t)
      PROVE  \A q \in Tasks : FreshCommand(q)
  <2>1. CASE t \in Broken
    <3>1. Abandon("sensor", "idle")
      BY <1>3, <2>1 DEF CutOff
    <3> QED
      BY <3>1, <1>d, AbandonFacts DEF Labels
  <2>2. CASE t \notin Broken
    BY <1>3, <2>2, ConstantTypes, OtherLabel DEF CutOff
  <2> QED
    BY <2>1, <2>2
<1>4. ASSUME NEW t \in Boilers, Restore(t)
      PROVE  \A q \in Tasks : FreshCommand(q)
  <2>1. CASE Automatic(t)
    <3>1. op' = op
      BY <1>4, <2>1 DEF Restore
    <3> QED
      BY <3>1 DEF FreshCommand
  <2>2. CASE ~Automatic(t)
    <3>1. /\ Issue("sensor", t, cut[t].was_on)
          /\ Goto("sensor", "restoring")
          /\ cut[t].was_on \in BOOLEAN
          /\ t \in Targets
      BY <1>4, <2>2, ConstantTypes DEF Restore, TypeOK, CutRecord
    <3> QED
      BY <3>1, OtherLabel
  <2> QED
    BY <2>1, <2>2
<1>5. ASSUME NEW t \in Targets, NEW on \in BOOLEAN, SwitchTarget(t, on)
      PROVE  \A q \in Tasks : FreshCommand(q)
  BY <1>5, OtherLabel DEF SwitchTarget
<1>6. ASSUME NEW t \in Targets, Toggle(t)
      PROVE  \A q \in Tasks : FreshCommand(q)
  <2>1. (~relay[t]) \in BOOLEAN
    OBVIOUS
  <2> QED
    BY <1>6, <2>1, OtherLabel DEF Toggle
<1>7. CASE \/ ReadCycle \/ CycleFails \/ GoRound \/ TimePasses \/ StartAgain
           \/ \E p \in People, t \in Targets, m \in {"automatic", "manual"} :
                 SetMode(p, t, m)
           \/ \E p \in People : SetSchedule(p)
           \/ OpenRelayMenu \/ CloseRelayMenu
           \/ UNCHANGED vars
  <2>1. op' = op
    BY <1>7 DEF ReadCycle, CycleFails, GoRound, TimePasses, StartAgain, SetMode,
                SetSchedule, OpenRelayMenu, CloseRelayMenu, vars, unit, history
  <2> QED
    BY <2>1 DEF FreshCommand
<1>8. CASE Restored \/ Switched \/ Toggled \/ CutRecorded
  <2>1. \E p \in Tasks : Settle(p)
    BY <1>8 DEF Restored, Switched, Toggled, CutRecorded
  <2> QED
    BY <2>1, <1>d, SettleFacts
<1>9. CASE Restart
  <2>1. \A q \in Tasks : op'[q].stage = "none"
    BY <1>9, ConstantTypes DEF Restart
  <2> QED
    BY <2>1 DEF FreshCommand
<1> QED
  BY <1>1, <1>2, <1>d, <1>3, <1>4, <1>5, <1>6, <1>7, <1>8, <1>9
  DEF Next, Sensor, Person, Resume

(* No loop carries a decision over an await: whenever the schedule or the  *)
(* anti-freeze guard gives a command, its unit is automatic and uncut at   *)
(* that moment.                                                            *)
THEOREM DecisionsAreFresh == Spec => DecidedAfresh
<1>1. TypeOK /\ [Next]_vars =>
        [\A p \in Tasks :
           /\ op'[p] # op[p]
           /\ op'[p].stage = "issued"
           /\ pc'[p] \in Evaluating \cup {"asserting", "releasing"}
           => Automatic(op'[p].target) /\ ~Blocked(op'[p].target)]_vars
  BY FreshStep DEF FreshCommand
<1> QED
  BY <1>1, TypeCorrect, PTL DEF Spec, DecidedAfresh

-----------------------------------------------------------------------------
(***************************************************************************)
(* CacheIsHonest, of installations where it is claimed: every relay is     *)
(* there, the anti-freeze guard is never called upon, and the slow events  *)
(* find no relay command in flight.                                        *)
(***************************************************************************)
Everyday == Broken = {} /\ ~AnyMoment /\ \A v \in Cycles : v.freeze # "cold"

Drives(p)    == pc[p] \in Evaluating
Cutting(t)   == pc["sensor"] = "cutting" /\ op["sensor"].target = t
Reviving(t)  == /\ pc["sensor"] = "restoring" /\ op["sensor"].stage = "issued"
                /\ op["sensor"].target = t

(* The anti-freeze guard rests, and a command in flight is one of four.    *)
Warm ==
    /\ ~engaged /\ held = {} /\ cycle.freeze # "cold"
    /\ \A p \in Tasks :
          /\ pc[p] \notin {"down", "asserting", "release", "releasing", "freezeEval"}
          /\ pc[p] \in {"cutting", "restoring", "limits"} => p = "sensor"
          /\ op[p].stage = "issued"
               => pc[p] \in Evaluating \cup {"cutting", "restoring", "switching", "toggling"}

(* No evaluation is behind the schedule.                                   *)
InStep ==
    \A p \in Tasks : Drives(p) =>
        /\ op[p].stage # "none" /\ want[p] = demand
        /\ demand[op[p].target] # "none"
        /\ op[p].on = (demand[op[p].target] = "on")

(* What is being cut will be cut, and a unit that may still be restored in *)
(* this cycle is nobody's.                                                 *)
Booked ==
    /\ pc["sensor"] = "cutting" => Reason(op["sensor"].target) # "none"
    /\ pc["sensor"] \in {"cutting", "restoring"} => op["sensor"].target \notin todo["sensor"]
    /\ pc["sensor"] \in {"limits", "cutting", "restoring"} =>
          \A t \in todo["sensor"], p \in Tasks :
              Blocked(t) /\ Drives(p) => op[p].target # t

(* What the schedule wrote last is still there, or was overruled by a      *)
(* person or a cut.                                                        *)
Stands(t) == t \in byHand \/ Blocked(t) \/ Cutting(t)
WrittenRight ==
    \A p \in Tasks : Drives(p) /\ op[p].stage = "written" =>
        Stands(op[p].target) \/ relay[op[p].target] = (demand[op[p].target] = "on")

(* What the cache says was applied is on the pin, or was overruled, or is  *)
(* about to be replaced in the cache.                                      *)
Replacing(p, t) == Drives(p) /\ op[p].stage = "written" /\ op[p].target = t
Remembered ==
    \A t \in Targets :
        \/ Stands(t) \/ Reviving(t) \/ applied[t] = "none"
        \/ \E p \in Tasks : Replacing(p, t)
        \/ relay[t] = (applied[t] = "on")

Honest == Warm /\ InStep /\ Booked /\ WrittenRight /\ Remembered

(* Only task p is moved.                                                   *)
OnlyMoves(p) ==
    \A q \in Tasks \ {p} : /\ pc'[q] = pc[q] /\ op'[q] = op[q]
                           /\ want'[q] = want[q] /\ todo'[q] = todo[q]

LEMMA Everywhere == "sensor" \in Tasks /\ People \subseteq Tasks
BY DEF People

LEMMA EvaluateMoves ==
    ASSUME TypeOK, NEW p \in Tasks, NEW label, NEW from \in SUBSET Targets,
           NEW w \in [Targets -> Asked], NEW app, NEW kept,
           Evaluate(p, label, from, w, app, kept)
    PROVE  /\ applied' = app /\ OnlyMoves(p)
           /\ \/ pc'[p] \in {"idle", "freeze"} /\ op'[p].stage = "none"
              \/ \E t \in Targets :
                    /\ pc'[p] = label /\ want'[p] = w /\ ~Blocked(t) /\ w[t] # "none"
                    /\ op'[p] = [stage |-> "issued", target |-> t, on |-> w[t] = "on"]
<1> DEFINE pending == {t \in from : Drivable(t, w, app, kept)}
<1>1. /\ pc \in [Tasks -> Labels] /\ op \in [Tasks -> Command]
      /\ todo \in [Tasks -> SUBSET Targets] /\ want \in [Tasks -> [Targets -> Asked]]
  BY DEF TypeOK
<1>2. CASE pending = {}
  <2>1. /\ Goto(p, AfterEvaluation(label)) /\ Loop(p, {}) /\ Settle(p)
        /\ want' = [want EXCEPT ![p] = NotAsked] /\ applied' = app
    BY <1>2 DEF Evaluate, Least
  <2>2. QED
    BY <1>1, <2>1, ConstantTypes DEF Goto, Loop, Settle, OnlyMoves, AfterEvaluation
<1>3. CASE pending # {}
  <2>1. PICK t \in Targets :
          /\ Least(pending, t) /\ Goto(p, label) /\ Loop(p, After(from, t))
          /\ Issue(p, t, w[t] = "on") /\ want' = [want EXCEPT ![p] = w]
    BY <1>3 DEF Evaluate
  <2>2. applied' = app /\ ~Blocked(t) /\ w[t] # "none"
    BY <2>1 DEF Evaluate, Least, Drivable
  <2>3. /\ \A q \in Tasks \ {p} : op'[q] = op[q]
        /\ op'[p] = [stage |-> "issued", target |-> t, on |-> w[t] = "on"]
    BY <2>1, IssueType
  <2>4. OnlyMoves(p) /\ pc'[p] = label /\ want'[p] = w
    BY <1>1, <2>1, <2>3 DEF Goto, Loop, OnlyMoves
  <2>5. QED
    BY <2>2, <2>3, <2>4
<1>4. QED
  BY <1>2, <1>3

(* An evaluation goes on or begins.                                        *)
LEMMA EvaluateKeeps ==
    ASSUME TypeOK, Honest, NEW p \in Tasks, NEW label \in {"eval", "limitsEval", "bootEval"},
           NEW from \in SUBSET Targets, NEW app \in [Targets -> Asked],
           Evaluate(p, label, from, demand, app, held),
           UNCHANGED <<relay, cut, demand, engaged, held, cycle, byHand>>,
           pc["sensor"] \in {"cutting", "restoring"} => p # "sensor",
           \A t \in Targets :
               \/ Stands(t) \/ Reviving(t) \/ app[t] = "none"
               \/ \E q \in Tasks \ {p} : Replacing(q, t)
               \/ relay[t] = (app[t] = "on")
    PROVE  Honest'
<1> "sensor" \in Tasks
  BY Everywhere
<1>1. demand \in [Targets -> Asked]
  BY DEF TypeOK
<1>2. /\ applied' = app /\ OnlyMoves(p)
      /\ \/ pc'[p] \in {"idle", "freeze"} /\ op'[p].stage = "none"
         \/ \E t \in Targets :
               /\ pc'[p] = label /\ want'[p] = demand /\ ~Blocked(t) /\ demand[t] # "none"
               /\ op'[p] = [stage |-> "issued", target |-> t, on |-> demand[t] = "on"]
  BY <1>1, EvaluateMoves
<1>3. \/ pc'[p] \in {"idle", "freeze"} /\ op'[p].stage = "none"
      \/ /\ pc'[p] = label /\ want'[p] = demand /\ op'[p].stage = "issued"
         /\ ~Blocked(op'[p].target) /\ demand[op'[p].target] # "none"
         /\ op'[p].on = (demand[op'[p].target] = "on")
  <2>1. ASSUME NEW t \in Targets, NEW c,
               c = [stage |-> "issued", target |-> t, on |-> demand[t] = "on"]
        PROVE  c.stage = "issued" /\ c.target = t /\ c.on = (demand[t] = "on")
    BY <2>1
  <2>2. ASSUME NEW t \in Targets, ~Blocked(t), demand[t] # "none",
               op'[p] = [stage |-> "issued", target |-> t, on |-> demand[t] = "on"]
        PROVE  /\ op'[p].stage = "issued" /\ ~Blocked(op'[p].target)
               /\ demand[op'[p].target] # "none"
               /\ op'[p].on = (demand[op'[p].target] = "on")
    <3>1. op'[p].stage = "issued" /\ op'[p].target = t /\ op'[p].on = (demand[t] = "on")
      BY <2>1, <2>2
    <3>2. QED
      BY <2>2, <3>1
  <2>3. QED
    BY <1>2, <2>2
<1>4. label \in Evaluating /\ {"idle", "freeze"} \cap Evaluating = {} /\ label # "freezeEval"
  BY DEF Evaluating
<1>5. /\ \A t \in Targets : Cutting(t)' <=> Cutting(t)
      /\ \A t \in Targets : Reviving(t)' <=> Reviving(t)
      /\ \A t \in Targets : Blocked(t)' <=> Blocked(t)
  BY <1>2, <1>3 DEF Cutting, Reviving, Blocked, OnlyMoves
<1>6. Warm'
  BY <1>2, <1>3, <1>4 DEF Honest, Warm, OnlyMoves
<1>7. InStep'
  BY <1>2, <1>3, <1>4 DEF Honest, InStep, Drives, OnlyMoves
<1>8. Booked'
  <2>1. CASE p = "sensor"
    BY <1>3, <2>1 DEF Booked
  <2>2. CASE p # "sensor"
    <3>1. /\ pc'["sensor"] = pc["sensor"] /\ op'["sensor"] = op["sensor"]
          /\ todo'["sensor"] = todo["sensor"] /\ cycle' = cycle
      BY <1>2, <2>2 DEF OnlyMoves
    <3>2. ASSUME NEW t \in todo["sensor"], Blocked(t), NEW q \in Tasks, pc'[q] \in Evaluating,
                 pc["sensor"] \in {"limits", "cutting", "restoring"}
          PROVE  op'[q].target # t
      <4>1. CASE q = p
        BY <1>3, <1>4, <3>2, <4>1
      <4>2. CASE q # p
        BY <1>2, <3>2, <4>2 DEF Honest, Booked, OnlyMoves, Drives
      <4>3. QED
        BY <4>1, <4>2
    <3>3. \A t : Reason(t)' = Reason(t)
      BY <3>1 DEF Reason
    <3>4. QED
      BY <3>1, <3>2, <3>3 DEF Honest, Booked, Drives, Blocked
  <2>3. QED
    BY <2>1, <2>2
<1>9. WrittenRight'
  <2>1. ASSUME NEW q \in Tasks, pc'[q] \in Evaluating, op'[q].stage = "written",
               NEW t, t = op'[q].target
        PROVE  Stands(t)' \/ relay'[t] = (demand'[t] = "on")
    <3>1. q # p
      BY <1>3, <1>4, <2>1
    <3>2. pc[q] \in Evaluating /\ op'[q] = op[q] /\ op[q].target \in Targets
      BY <1>2, <2>1, <3>1 DEF OnlyMoves, TypeOK, Command
    <3>3. Stands(t) \/ relay[t] = (demand[t] = "on")
      BY <2>1, <3>2 DEF Honest, WrittenRight, Drives
    <3>4. QED
      BY <1>5, <2>1, <3>2, <3>3 DEF Stands
  <2>2. QED
    BY <2>1 DEF WrittenRight, Drives, Stands, Cutting, Blocked
<1>10. Remembered'
  <2>1. ASSUME NEW t \in Targets
        PROVE  \/ Stands(t)' \/ Reviving(t)' \/ applied'[t] = "none"
               \/ \E q \in Tasks : Replacing(q, t)'
               \/ relay'[t] = (applied'[t] = "on")
    <3>1. \A q \in Tasks \ {p} : Replacing(q, t) => Replacing(q, t)'
      BY <1>2 DEF Replacing, Drives, OnlyMoves
    <3>2. Stands(t) => Stands(t)'
      BY <1>5 DEF Stands
    <3>3. QED
      BY <1>2, <1>5, <3>1, <3>2
  <2>2. QED
    BY <2>1 DEF Remembered
<1>11. QED
  BY <1>6, <1>7, <1>8, <1>9, <1>10 DEF Honest

(* A step that decides nothing of the schedule's, nor of a cut.            *)
LEMMA QuietKeeps ==
    ASSUME TypeOK, Honest, NEW p \in Tasks, OnlyMoves(p),
           UNCHANGED <<relay, cut, applied, demand, engaged, held, cycle, byHand>>,
           ~Drives(p), pc[p] # "cutting", pc[p] = "restoring" => op[p].stage = "written",
           pc'[p] \in {"idle", "failed", "limits", "freeze", "switching", "saving", "relays",
                      "toggling"},
           pc'[p] = "limits" => /\ p = "sensor" /\ pc[p] \in {"limits", "restoring"}
                                /\ todo'[p] = todo[p],
           op'[p].stage = "issued" => pc'[p] \in {"switching", "toggling"}
    PROVE  Honest'
<1> "sensor" \in Tasks
  BY Everywhere
<1>1. pc'[p] \notin Evaluating
  BY DEF Evaluating
<1>2. /\ \A t \in Targets : Cutting(t)' <=> Cutting(t)
      /\ \A t \in Targets : Reviving(t) => Reviving(t)'
      /\ \A t \in Targets : Blocked(t)' <=> Blocked(t)
  BY DEF Cutting, Reviving, Blocked, OnlyMoves
<1>3. \A q \in Tasks : pc'[q] \in Evaluating =>
          /\ q # p /\ pc[q] \in Evaluating /\ op'[q] = op[q] /\ want'[q] = want[q]
          /\ op[q].target \in Targets
  BY <1>1 DEF OnlyMoves, TypeOK, Command
<1>4. Warm'
  BY DEF Honest, Warm, OnlyMoves
<1>5. InStep'
  BY <1>3 DEF Honest, InStep, Drives
<1>6. Booked'
  <2>1. /\ pc'["sensor"] = "cutting" => pc["sensor"] = "cutting"
        /\ pc'["sensor"] \in {"cutting", "restoring"} =>
              op'["sensor"] = op["sensor"] /\ pc'["sensor"] = pc["sensor"]
        /\ pc'["sensor"] \in {"limits", "cutting", "restoring"} =>
              /\ pc["sensor"] \in {"limits", "cutting", "restoring"}
              /\ todo'["sensor"] = todo["sensor"]
    BY DEF OnlyMoves
  <2>2. \A t : Reason(t)' = Reason(t)
    BY DEF Reason
  <2>3. QED
    BY <1>3, <2>1, <2>2 DEF Honest, Booked, Drives, Blocked
<1>7. WrittenRight'
  <2>1. ASSUME NEW q \in Tasks, pc'[q] \in Evaluating, op'[q].stage = "written",
               NEW t, t = op'[q].target
        PROVE  Stands(t)' \/ relay'[t] = (demand'[t] = "on")
    <3>1. pc[q] \in Evaluating /\ op'[q] = op[q] /\ op[q].target \in Targets
      BY <1>3, <2>1
    <3>2. Stands(t) \/ relay[t] = (demand[t] = "on")
      BY <2>1, <3>1 DEF Honest, WrittenRight, Drives
    <3>3. QED
      BY <1>2, <2>1, <3>1, <3>2 DEF Stands
  <2>2. QED
    BY <2>1 DEF WrittenRight, Drives, Stands, Cutting, Blocked
<1>8. Remembered'
  <2>1. ASSUME NEW t \in Targets
        PROVE  \/ Stands(t)' \/ Reviving(t)' \/ applied'[t] = "none"
               \/ \E q \in Tasks : Replacing(q, t)'
               \/ relay'[t] = (applied'[t] = "on")
    <3>1. \A q \in Tasks : Replacing(q, t) => Replacing(q, t)'
      BY DEF Replacing, Drives, OnlyMoves
    <3>2. Stands(t) => Stands(t)'
      BY <1>2 DEF Stands
    <3>3. QED
      BY <1>2, <3>1, <3>2 DEF Honest, Remembered
  <2>2. QED
    BY <2>1 DEF Remembered
<1>9. QED
  BY <1>4, <1>5, <1>6, <1>7, <1>8 DEF Honest

(* The slow events find no command in flight, and so no evaluation.        *)
LEMMA SlowKeeps ==
    ASSUME TypeOK, Honest, \A q \in Tasks : op[q].stage = "none",
           UNCHANGED <<relay, cut, engaged, held, op, byHand>>,
           cycle'.freeze # "cold", applied' = applied \/ applied' = NotAsked,
           \A q \in Tasks :
               \/ pc'[q] = pc[q]
               \/ /\ pc[q] = "idle" /\ pc'[q] \in {"limits", "freeze", "saving"}
                  /\ pc'[q] = "limits" => q = "sensor",
           \/ pc["sensor"] = "idle"
           \/ /\ cycle' = cycle /\ pc'["sensor"] = pc["sensor"]
              /\ todo'["sensor"] = todo["sensor"]
    PROVE  Honest'
<1> "sensor" \in Tasks
  BY Everywhere
<1>1. \A q \in Tasks : pc[q] \notin Evaluating
  BY DEF Honest, InStep, Drives
<1>2. \A q \in Tasks : pc'[q] \notin Evaluating
  BY <1>1 DEF Evaluating
<1>3. \A t \in Targets : (Cutting(t) => Cutting(t)') /\ (Blocked(t)' <=> Blocked(t))
  BY DEF Cutting, Blocked
<1>4. \A t \in Targets : ~Reviving(t) /\ \A q \in Tasks : ~Replacing(q, t)
  BY <1>1 DEF Reviving, Replacing, Drives
<1>5. Warm'
  BY DEF Honest, Warm
<1>6. InStep' /\ WrittenRight'
  BY <1>2 DEF InStep, WrittenRight, Drives
<1>7. Booked'
  <2>1. CASE pc["sensor"] = "idle"
    BY <1>2, <2>1 DEF Booked, Drives
  <2>2. CASE /\ cycle' = cycle /\ pc'["sensor"] = pc["sensor"]
             /\ todo'["sensor"] = todo["sensor"]
    <3>1. \A t : Reason(t)' = Reason(t)
      BY <2>2 DEF Reason
    <3>2. QED
      BY <1>2, <2>2, <3>1 DEF Honest, Booked, Drives
  <2>3. QED
    BY <2>1, <2>2
<1>8. Remembered'
  <2>1. ASSUME NEW t \in Targets
        PROVE  Stands(t)' \/ applied'[t] = "none" \/ relay'[t] = (applied'[t] = "on")
    <3>1. Stands(t) => Stands(t)'
      BY <1>3 DEF Stands
    <3>2. applied'[t] = applied[t] \/ applied'[t] = "none"
      BY DEF NotAsked
    <3>3. QED
      BY <1>4, <3>1, <3>2 DEF Honest, Remembered
  <2>2. QED
    BY <2>1 DEF Remembered
<1>9. QED
  BY <1>5, <1>6, <1>7, <1>8 DEF Honest

(* A worker thread writes: for a person, for a cut, or as the schedule     *)
(* asks.                                                                   *)
LEMMA WriteKeeps ==
    ASSUME TypeOK, Honest, NEW p \in Tasks, WriteRelay(p),
           NEW t, t = op[p].target
    PROVE  Honest'
<1> "sensor" \in Tasks
  BY Everywhere
<1>1. /\ op[p].stage = "issued" /\ t \in Targets
      /\ relay \in [Targets -> BOOLEAN] /\ relay' = [relay EXCEPT ![t] = op[p].on]
      /\ byHand' = IF pc[p] \in {"switching", "toggling", "restoring"}
                   THEN byHand \cup {t} ELSE byHand \ {t}
      /\ UNCHANGED <<cut, applied, demand, engaged, held, pc, todo, want, cycle>>
      /\ op[p] \in Command /\ op \in [Tasks -> Command]
      /\ op' = [op EXCEPT ![p] = [op[p] EXCEPT !.stage = "written"]]
  BY DEF WriteRelay, TypeOK, Command
<1>2. /\ op'[p].stage = "written" /\ op'[p].target = t /\ op'[p].on = op[p].on
      /\ \A q \in Tasks \ {p} : op'[q] = op[q]
  BY <1>1 DEF Command
<1>3. pc[p] \in Evaluating \cup {"cutting", "restoring", "switching", "toggling"}
  BY <1>1 DEF Honest, Warm
<1>4. \A q \in Tasks : op'[q].target = op[q].target /\ op'[q].on = op[q].on
  BY <1>2
<1>5. \A u \in Targets : (Cutting(u)' <=> Cutting(u)) /\ (Blocked(u)' <=> Blocked(u))
  BY <1>1, <1>4 DEF Cutting, Blocked
<1>6. \A u \in Targets \ {t} : (Stands(u) => Stands(u)') /\ relay'[u] = relay[u]
  BY <1>1, <1>5 DEF Stands
<1>7. Stands(t)' \/ (pc[p] \in Evaluating /\ relay'[t] = (demand[t] = "on"))
  <2>1. CASE pc[p] \in {"restoring", "switching", "toggling"}
    BY <1>1, <2>1 DEF Stands
  <2>2. CASE pc[p] = "cutting"
    <3>1. p = "sensor"
      BY <2>2 DEF Honest, Warm
    <3>2. QED
      BY <1>1, <1>2, <2>2, <3>1 DEF Stands, Cutting
  <2>3. CASE pc[p] \in Evaluating
    BY <1>1, <2>3 DEF Honest, InStep, Drives
  <2>4. QED
    BY <1>3, <2>1, <2>2, <2>3
<1>8. Warm'
  BY <1>1, <1>2 DEF Honest, Warm
<1>9. InStep'
  BY <1>1, <1>2, <1>4 DEF Honest, InStep, Drives
<1>10. Booked'
  BY <1>1, <1>4 DEF Honest, Booked, Drives, Blocked, Reason
<1>11. WrittenRight'
  <2>1. ASSUME NEW q \in Tasks, pc'[q] \in Evaluating, op'[q].stage = "written",
               NEW u, u = op'[q].target
        PROVE  Stands(u)' \/ relay'[u] = (demand'[u] = "on")
    <3>1. u = op[q].target /\ u \in Targets
      BY <1>1, <1>4, <2>1 DEF Command
    <3>2. CASE u = t
      BY <1>1, <1>7, <3>2
    <3>3. CASE u # t
      <4>1. q # p
        BY <3>1, <3>3
      <4>2. Stands(u) \/ relay[u] = (demand[u] = "on")
        BY <1>1, <1>2, <2>1, <3>1, <4>1 DEF Honest, WrittenRight, Drives
      <4>3. QED
        BY <1>1, <1>6, <3>1, <3>3, <4>2
    <3>4. QED
      BY <3>2, <3>3
  <2>2. QED
    BY <2>1 DEF WrittenRight, Drives, Stands, Cutting, Blocked
<1>12. Remembered'
  <2>1. ASSUME NEW u \in Targets
        PROVE  \/ Stands(u)' \/ Reviving(u)' \/ applied'[u] = "none"
               \/ \E q \in Tasks : Replacing(q, u)'
               \/ relay'[u] = (applied'[u] = "on")
    <3>1. CASE u = t
      <4>1. pc[p] \in Evaluating => Replacing(p, u)'
        BY <1>1, <1>2, <3>1 DEF Replacing, Drives
      <4>2. QED
        BY <1>7, <3>1, <4>1
    <3>2. CASE u # t
      <4>1. \A q \in Tasks : Replacing(q, u) => Replacing(q, u)'
        BY <1>1, <1>2, <3>2 DEF Replacing, Drives
      <4>2. Reviving(u) => Reviving(u)'
        BY <1>1, <1>2, <3>2 DEF Reviving
      <4>3. QED
        BY <1>1, <1>6, <3>2, <4>1, <4>2 DEF Honest, Remembered
    <3>3. QED
      BY <3>1, <3>2
  <2>2. QED
    BY <2>1 DEF Remembered
<1>13. QED
  BY <1>8, <1>9, <1>10, <1>11, <1>12 DEF Honest

(* The guard turns to a unit it cuts.                                      *)
LEMMA CutOffKeeps ==
    ASSUME TypeOK, Honest, Broken = {}, NEW t \in Targets, CutOff(t)
    PROVE  Honest'
<1> "sensor" \in Tasks
  BY Everywhere
<1>1. /\ pc \in [Tasks -> Labels] /\ op \in [Tasks -> Command]
      /\ todo \in [Tasks -> SUBSET Targets]
  BY DEF TypeOK
<1>2. /\ pc["sensor"] = "limits" /\ Reason(t) # "none"
      /\ Issue("sensor", t, FALSE) /\ Goto("sensor", "cutting")
      /\ Loop("sensor", After(todo["sensor"], t))
      /\ UNCHANGED <<relay, mode, cut, applied, engaged, held, demand, cycle, want, byHand>>
  BY DEF CutOff, ToCut, unit, history
<1>3. /\ \A q \in Tasks \ {"sensor"} : op'[q] = op[q] /\ pc'[q] = pc[q]
      /\ op'["sensor"] = [stage |-> "issued", target |-> t, on |-> FALSE]
      /\ pc'["sensor"] = "cutting"
      /\ todo'["sensor"] \subseteq todo["sensor"] /\ t \notin todo'["sensor"]
  <2>1. /\ \A q \in Tasks \ {"sensor"} : op'[q] = op[q]
        /\ op'["sensor"] = [stage |-> "issued", target |-> t, on |-> FALSE]
    BY <1>2, IssueType
  <2>2. After(todo["sensor"], t) \subseteq todo["sensor"] /\ t \notin After(todo["sensor"], t)
    BY <1>1 DEF After, Targets
  <2>3. QED
    BY <1>1, <1>2, <2>1, <2>2 DEF Goto, Loop
<1>4. op'["sensor"].stage = "issued" /\ op'["sensor"].target = t
  BY <1>3
<1>5. \A q \in Tasks : pc'[q] \in Evaluating =>
          q # "sensor" /\ pc[q] \in Evaluating /\ op[q].target \in Targets
  BY <1>1, <1>3 DEF Evaluating, Command
<1>6. \A u \in Targets : /\ Blocked(u)' <=> Blocked(u)
                         /\ ~Cutting(u) /\ ~Reviving(u)
  BY <1>2 DEF Blocked, Cutting, Reviving
<1>7. \A u \in Targets : Stands(u) => Stands(u)'
  BY <1>2, <1>6 DEF Stands
<1>8. Warm'
  BY <1>2, <1>3 DEF Honest, Warm
<1>9. InStep'
  BY <1>2, <1>3, <1>5 DEF Honest, InStep, Drives
<1>10. Booked'
  <2>1. \A u : Reason(u)' = Reason(u)
    BY <1>2 DEF Reason
  <2>2. QED
    BY <1>2, <1>3, <1>4, <1>5, <2>1 DEF Honest, Booked, Drives, Blocked
<1>11. WrittenRight'
  <2>1. ASSUME NEW q \in Tasks, pc'[q] \in Evaluating, op'[q].stage = "written",
               NEW u, u = op'[q].target
        PROVE  Stands(u)' \/ relay'[u] = (demand'[u] = "on")
    BY <1>2, <1>3, <1>5, <1>7, <2>1 DEF Honest, WrittenRight, Drives
  <2>2. QED
    BY <2>1 DEF WrittenRight, Drives, Stands, Cutting, Blocked
<1>12. Remembered'
  <2>1. ASSUME NEW u \in Targets
        PROVE  \/ Stands(u)' \/ Reviving(u)' \/ applied'[u] = "none"
               \/ \E q \in Tasks : Replacing(q, u)'
               \/ relay'[u] = (applied'[u] = "on")
    <3>1. \A q \in Tasks : Replacing(q, u) => Replacing(q, u)'
      BY <1>2, <1>3 DEF Replacing, Drives, Evaluating
    <3>2. QED
      BY <1>2, <1>6, <1>7, <3>1 DEF Honest, Remembered
  <2>2. QED
    BY <2>1 DEF Remembered
<1>13. QED
  BY <1>8, <1>9, <1>10, <1>11, <1>12 DEF Honest

(* The cut is recorded: the block takes the place of the cutting.          *)
LEMMA CutRecordedKeeps ==
    ASSUME TypeOK, Honest, CutRecorded, NEW t, t = op["sensor"].target
    PROVE  Honest'
<1> "sensor" \in Tasks
  BY Everywhere
<1>1. /\ pc \in [Tasks -> Labels] /\ op \in [Tasks -> Command]
      /\ todo \in [Tasks -> SUBSET Targets] /\ cut \in [Targets -> CutRecord]
      /\ t \in Targets
  BY DEF TypeOK, Command
<1>2. /\ pc["sensor"] = "cutting"
      /\ cut' = [cut EXCEPT ![t] = [reason |-> Reason(t), was_on |-> scratch.was_on]]
      /\ Goto("sensor", "limits") /\ Settle("sensor")
      /\ UNCHANGED <<relay, applied, engaged, held, demand, cycle, todo, want, byHand>>
  BY DEF CutRecorded
<1>3. /\ \A q \in Tasks \ {"sensor"} : op'[q] = op[q] /\ pc'[q] = pc[q]
      /\ op'["sensor"].stage = "none" /\ pc'["sensor"] = "limits"
  BY <1>1, <1>2, ConstantTypes DEF Goto, Settle
<1>4. Reason(t) # "none" /\ t \notin todo["sensor"]
  BY <1>2 DEF Honest, Booked
<1>5. /\ Blocked(t)'
      /\ \A u \in Targets \ {t} : Blocked(u)' <=> Blocked(u)
  <2>1. cut'[t].reason = Reason(t)
    BY <1>1, <1>2
  <2>2. QED
    BY <1>1, <1>2, <1>4, <2>1 DEF Blocked
<1>6. \A u \in Targets : (Cutting(u) => u = t) /\ ~Reviving(u)
  BY <1>2 DEF Cutting, Reviving
<1>7. \A u \in Targets : Stands(u) => Stands(u)'
  BY <1>2, <1>5, <1>6 DEF Stands
<1>8. \A q \in Tasks : pc'[q] \in Evaluating =>
          q # "sensor" /\ pc[q] \in Evaluating /\ op[q].target \in Targets
  BY <1>1, <1>3 DEF Evaluating, Command
<1>9. Warm'
  BY <1>2, <1>3 DEF Honest, Warm
<1>10. InStep'
  BY <1>2, <1>3, <1>8 DEF Honest, InStep, Drives
<1>11. Booked'
  <2>1. ASSUME NEW u \in todo["sensor"], NEW q \in Tasks, Blocked(u)', pc'[q] \in Evaluating
        PROVE  op'[q].target # u
    BY <1>1, <1>2, <1>3, <1>4, <1>5, <1>8, <2>1 DEF Honest, Booked, Drives
  <2>2. QED
    BY <1>2, <1>3, <2>1 DEF Booked, Drives, Blocked
<1>12. WrittenRight'
  <2>1. ASSUME NEW q \in Tasks, pc'[q] \in Evaluating, op'[q].stage = "written",
               NEW u, u = op'[q].target
        PROVE  Stands(u)' \/ relay'[u] = (demand'[u] = "on")
    BY <1>2, <1>3, <1>7, <1>8, <2>1 DEF Honest, WrittenRight, Drives
  <2>2. QED
    BY <2>1 DEF WrittenRight, Drives, Stands, Cutting, Blocked
<1>13. Remembered'
  <2>1. ASSUME NEW u \in Targets
        PROVE  \/ Stands(u)' \/ Reviving(u)' \/ applied'[u] = "none"
               \/ \E q \in Tasks : Replacing(q, u)'
               \/ relay'[u] = (applied'[u] = "on")
    <3>1. \A q \in Tasks : Replacing(q, u) => Replacing(q, u)'
      BY <1>2, <1>3 DEF Replacing, Drives, Evaluating
    <3>2. QED
      BY <1>2, <1>6, <1>7, <3>1 DEF Honest, Remembered
  <2>2. QED
    BY <2>1 DEF Remembered
<1>14. QED
  BY <1>9, <1>10, <1>11, <1>12, <1>13 DEF Honest

(* A unit is handed back: the cache forgets it, or a command revives it.   *)
LEMMA RestoreKeeps ==
    ASSUME TypeOK, Honest, NEW t \in Targets, Restore(t)
    PROVE  Honest'
<1> "sensor" \in Tasks
  BY Everywhere
<1>1. /\ pc \in [Tasks -> Labels] /\ op \in [Tasks -> Command]
      /\ todo \in [Tasks -> SUBSET Targets] /\ cut \in [Targets -> CutRecord]
      /\ applied \in [Targets -> Asked] /\ cut[t].was_on \in BOOLEAN
  BY DEF TypeOK, CutRecord
<1>2. /\ pc["sensor"] = "limits" /\ t \in todo["sensor"] /\ Blocked(t)
      /\ cut' = [cut EXCEPT ![t] = NoCut]
      /\ Loop("sensor", After(todo["sensor"], t))
      /\ \/ applied' = Forget(applied, {t}) /\ pc' = pc /\ op' = op
         \/ /\ applied' = applied /\ Goto("sensor", "restoring")
            /\ Issue("sensor", t, cut[t].was_on)
      /\ UNCHANGED <<relay, engaged, held, demand, cycle, want, byHand>>
  BY DEF Restore, ToRestore, ToCut, Least
<1>3. /\ todo'["sensor"] \subseteq todo["sensor"] /\ t \notin todo'["sensor"]
  <2>1. After(todo["sensor"], t) \subseteq todo["sensor"] /\ t \notin After(todo["sensor"], t)
    BY <1>1 DEF After, Targets
  <2>2. QED
    BY <1>1, <1>2, <2>1 DEF Loop
<1>4. /\ \A q \in Tasks \ {"sensor"} : op'[q] = op[q] /\ pc'[q] = pc[q]
      /\ \A u \in Targets \ {t} : applied'[u] = applied[u]
      /\ \/ applied'[t] = "none" /\ pc' = pc /\ op' = op
         \/ /\ pc'["sensor"] = "restoring"
            /\ op'["sensor"].stage = "issued" /\ op'["sensor"].target = t
  <2>1. CASE applied' = Forget(applied, {t}) /\ pc' = pc /\ op' = op
    BY <1>1, <2>1 DEF Forget
  <2>2. CASE /\ applied' = applied /\ Goto("sensor", "restoring")
             /\ Issue("sensor", t, cut[t].was_on)
    <3>1. /\ \A q \in Tasks \ {"sensor"} : op'[q] = op[q]
          /\ op'["sensor"] = [stage |-> "issued", target |-> t, on |-> cut[t].was_on]
      BY <1>1, <2>2, IssueType
    <3>2. op'["sensor"].stage = "issued" /\ op'["sensor"].target = t
      BY <3>1
    <3>3. QED
      BY <1>1, <2>2, <3>1, <3>2 DEF Goto
  <2>3. QED
    BY <1>2, <2>1, <2>2
<1>5. \A q \in Tasks : pc[q] \in Evaluating => op[q].target # t
  BY <1>2 DEF Honest, Booked, Drives
<1>6. \A u \in Targets \ {t} : Blocked(u)' <=> Blocked(u)
  BY <1>1, <1>2 DEF Blocked
<1>7. \A u \in Targets : ~Cutting(u) /\ ~Reviving(u)
  BY <1>2 DEF Cutting, Reviving
<1>8. \A u \in Targets \ {t} : Stands(u) => Stands(u)'
  BY <1>2, <1>6, <1>7 DEF Stands
<1>9. \A q \in Tasks : pc'[q] \in Evaluating =>
          /\ pc[q] \in Evaluating /\ op'[q] = op[q] /\ op[q].target \in Targets \ {t}
  BY <1>1, <1>2, <1>4, <1>5 DEF Evaluating, Command
<1>10. Warm'
  BY <1>2, <1>4 DEF Honest, Warm
<1>11. InStep'
  BY <1>2, <1>9 DEF Honest, InStep, Drives
<1>12. Booked'
  <2>1. ASSUME NEW u \in todo'["sensor"], NEW q \in Tasks, Blocked(u)', pc'[q] \in Evaluating
        PROVE  op'[q].target # u
    BY <1>1, <1>2, <1>3, <1>6, <1>9, <2>1 DEF Honest, Booked, Drives
  <2>2. QED
    BY <1>2, <1>3, <1>4, <2>1 DEF Booked, Drives, Blocked
<1>13. WrittenRight'
  <2>1. ASSUME NEW q \in Tasks, pc'[q] \in Evaluating, op'[q].stage = "written",
               NEW u, u = op'[q].target
        PROVE  Stands(u)' \/ relay'[u] = (demand'[u] = "on")
    BY <1>2, <1>8, <1>9, <2>1 DEF Honest, WrittenRight, Drives
  <2>2. QED
    BY <2>1 DEF WrittenRight, Drives, Stands, Cutting, Blocked
<1>14. Remembered'
  <2>1. ASSUME NEW u \in Targets
        PROVE  \/ Stands(u)' \/ Reviving(u)' \/ applied'[u] = "none"
               \/ \E q \in Tasks : Replacing(q, u)'
               \/ relay'[u] = (applied'[u] = "on")
    <3>1. CASE u = t
      BY <1>4, <3>1 DEF Reviving
    <3>2. CASE u # t
      <4>1. \A q \in Tasks : Replacing(q, u) => Replacing(q, u)'
        BY <1>2, <1>4 DEF Replacing, Drives, Evaluating
      <4>2. QED
        BY <1>2, <1>4, <1>7, <1>8, <3>2, <4>1 DEF Honest, Remembered
    <3>3. QED
      BY <3>1, <3>2
  <2>2. QED
    BY <2>1 DEF Remembered
<1>15. QED
  BY <1>10, <1>11, <1>12, <1>13, <1>14 DEF Honest

(* With every task at its beginning and the cache empty, all is honest.    *)
LEMMA FreshIsHonest ==
    ASSUME pc = AtBoot, applied = NotAsked, ~engaged, held = {}, cycle.freeze # "cold",
           op = [p \in Tasks |-> NoWrite]
    PROVE  Honest
<1> "sensor" \in Tasks
  BY Everywhere
<1>1. \A p \in Tasks : /\ pc[p] \in {"boot", "idle"} /\ pc[p] \notin Evaluating
                       /\ op[p].stage = "none"
  BY ConstantTypes DEF AtBoot, Evaluating
<1>2. \A t \in Targets : applied[t] = "none"
  BY DEF NotAsked
<1>3. Warm /\ InStep /\ Booked /\ WrittenRight /\ Remembered
  BY <1>1, <1>2 DEF Warm, InStep, Booked, WrittenRight, Remembered, Drives
<1>4. QED
  BY <1>3 DEF Honest

LEMMA RestartKeeps ==
    ASSUME Honest, Restart
    PROVE  Honest'
<1> "sensor" \in Tasks
  BY Everywhere
<1>1. /\ pc' = AtBoot /\ applied' = NotAsked /\ ~engaged' /\ held' = {}
      /\ cycle' = cycle /\ op' = [p \in Tasks |-> NoWrite] /\ cycle.freeze # "cold"
  BY DEF Restart, Honest, Warm
<1>2. \A p \in Tasks : /\ pc'[p] \in {"boot", "idle"} /\ pc'[p] \notin Evaluating
                       /\ op'[p].stage = "none"
  BY <1>1, ConstantTypes DEF AtBoot, Evaluating
<1>3. \A t \in Targets : applied'[t] = "none"
  BY <1>1 DEF NotAsked
<1>4. Warm' /\ InStep' /\ Booked' /\ WrittenRight' /\ Remembered'
  BY <1>1, <1>2, <1>3 DEF Warm, InStep, Booked, WrittenRight, Remembered, Drives
<1>5. QED
  BY <1>4 DEF Honest

(* An evaluation goes on after its command was carried out.                *)
LEMMA EvaluateNextKeeps ==
    ASSUME TypeOK, Honest, NEW p \in Tasks, EvaluateNext(p), NEW u, u = op[p].target
    PROVE  Honest'
<1> DEFINE app == [applied EXCEPT ![u] = demand[u]]
<1>1. /\ pc[p] \in {"eval", "limitsEval", "bootEval"} /\ op[p].stage = "written"
      /\ want[p] = demand /\ u \in Targets /\ demand \in [Targets -> Asked]
      /\ applied \in [Targets -> Asked] /\ todo[p] \in SUBSET Targets
  BY DEF EvaluateNext, Honest, Warm, InStep, Drives, Evaluating, TypeOK, Command
<1>2. /\ Evaluate(p, pc[p], todo[p], demand, app, held)
      /\ UNCHANGED <<relay, cut, demand, engaged, held, cycle, byHand>>
  BY <1>1 DEF EvaluateNext, history
<1>3. app \in [Targets -> Asked]
  BY <1>1
<1>4. ASSUME NEW t \in Targets
      PROVE  \/ Stands(t) \/ Reviving(t) \/ app[t] = "none"
             \/ \E q \in Tasks \ {p} : Replacing(q, t)
             \/ relay[t] = (app[t] = "on")
  <2>1. CASE t = u
    BY <1>1, <2>1 DEF Honest, WrittenRight, Drives, Evaluating
  <2>2. CASE t # u
    <3>1. app[t] = applied[t]
      BY <1>1, <2>2
    <3>2. ~Replacing(p, t)
      BY <2>2 DEF Replacing
    <3>3. QED
      BY <3>1, <3>2 DEF Honest, Remembered
  <2>3. QED
    BY <2>1, <2>2
<1> HIDE DEF app
<1>5. pc["sensor"] \in {"cutting", "restoring"} => p # "sensor"
  BY <1>1
<1>6. QED
  BY <1>1, <1>2, <1>3, <1>4, <1>5, EvaluateKeeps

(* An evaluation begins, with a cache that forgets some units.             *)
LEMMA EvaluateBegins ==
    ASSUME TypeOK, Honest, NEW p \in Tasks, NEW label \in {"eval", "limitsEval", "bootEval"},
           NEW S, NEW app, app = applied \/ app = Forget(applied, S),
           Evaluate(p, label, Targets, demand, app, held),
           UNCHANGED <<relay, cut, demand, engaged, held, cycle, byHand>>,
           pc[p] \in {"idle", "boot", "limits", "saving"}
    PROVE  Honest'
<1>1. applied \in [Targets -> Asked] /\ app \in [Targets -> Asked]
  BY ForgetType DEF TypeOK, Forget, Asked
<1>2. ASSUME NEW t \in Targets
      PROVE  \/ Stands(t) \/ Reviving(t) \/ app[t] = "none"
             \/ \E q \in Tasks \ {p} : Replacing(q, t)
             \/ relay[t] = (app[t] = "on")
  <2>1. app[t] = applied[t] \/ app[t] = "none"
    BY DEF Forget
  <2>2. ~Replacing(p, t)
    BY DEF Replacing, Drives, Evaluating
  <2>3. QED
    BY <2>1, <2>2 DEF Honest, Remembered
<1>3. QED
  BY <1>1, <1>2, EvaluateKeeps

LEMMA HonestStep ==
    ASSUME Everyday, TypeOK, Honest, [Next]_vars
    PROVE  Honest'
<1> "sensor" \in Tasks /\ People \subseteq Tasks
  BY Everywhere
<1> DEFINE quiet == <<relay, cut, applied, demand, engaged, held, cycle, byHand>>
<1>t. /\ pc \in [Tasks -> Labels] /\ op \in [Tasks -> Command]
      /\ todo \in [Tasks -> SUBSET Targets] /\ want \in [Tasks -> [Targets -> Asked]]
  BY DEF TypeOK
<1>w. /\ ~engaged /\ cycle.freeze # "cold"
      /\ \A q \in Tasks : /\ pc[q] \notin {"down", "asserting", "release", "releasing"}
                          /\ op[q].stage = "issued"
                               => pc[q] \in Evaluating \cup {"cutting", "restoring",
                                                             "switching", "toggling"}
  BY DEF Honest, Warm
<1>1. ASSUME NEW p \in Tasks, WriteRelay(p) PROVE Honest'
  BY <1>1, WriteKeeps
<1>2. ASSUME NEW p \in Tasks, WriteRaises(p) PROVE Honest'
  BY <1>2 DEF WriteRaises, Everyday
<1>3. ASSUME NEW p \in Tasks, EvaluateNext(p) PROVE Honest'
  BY <1>3, EvaluateNextKeeps
<1>4. CASE Tick
  <2>1. /\ "tick" \in Tasks /\ pc["tick"] = "idle"
        /\ Evaluate("tick", "eval", Targets, demand, applied, held)
        /\ UNCHANGED <<relay, cut, demand, engaged, held, cycle, byHand>>
    BY <1>4 DEF Tick, history
  <2>2. QED
    BY <2>1, EvaluateBegins
<1>5. CASE Boot
  <2>1. /\ pc["sensor"] = "boot"
        /\ Evaluate("sensor", "bootEval", Targets, demand, applied, held)
        /\ UNCHANGED <<relay, cut, demand, engaged, held, cycle, byHand>>
    BY <1>5 DEF Boot, history
  <2>2. QED
    BY <2>1, EvaluateBegins
<1>6. CASE StartAgain
  BY <1>6, <1>w DEF StartAgain
<1>7. CASE ReadCycle
  <2>1. /\ pc["sensor"] = "idle" /\ \A q \in Tasks : op[q].stage = "none"
        /\ cycle'.freeze # "cold" /\ pc'["sensor"] \in {"limits", "freeze"}
        /\ \A q \in Tasks \ {"sensor"} : pc'[q] = pc[q]
        /\ UNCHANGED <<relay, cut, applied, engaged, held, op, byHand>>
    BY <1>7, <1>t DEF ReadCycle, Calm, Everyday, Goto, unit, history
  <2>2. QED
    BY <2>1, SlowKeeps
<1>8. ASSUME NEW t \in Boilers, CutOff(t) PROVE Honest'
  BY <1>8, CutOffKeeps, ConstantTypes DEF Everyday
<1>9. ASSUME NEW t \in Boilers, Restore(t) PROVE Honest'
  BY <1>9, RestoreKeeps, ConstantTypes
<1>10. CASE CutRecorded
  BY <1>10, CutRecordedKeeps
<1>11. CASE Restored
  <2>1. /\ pc["sensor"] = "restoring" /\ op["sensor"].stage = "written"
        /\ pc'["sensor"] = "limits" /\ op'["sensor"].stage = "none"
        /\ OnlyMoves("sensor") /\ UNCHANGED quiet /\ todo'["sensor"] = todo["sensor"]
    BY <1>11, <1>t, ConstantTypes DEF Restored, Goto, Settle, OnlyMoves, unit, history
  <2>2. QED
    BY <2>1, QuietKeeps DEF Drives, Evaluating
<1>12. CASE LimitsDone
  <2>1. /\ pc["sensor"] = "limits"
        /\ UNCHANGED <<relay, cut, demand, engaged, held, cycle, byHand>>
        /\ \/ Evaluate("sensor", "limitsEval", Targets, demand, applied, held)
           \/ /\ Goto("sensor", "freeze") /\ Loop("sensor", {})
              /\ UNCHANGED <<applied, op, want>>
    BY <1>12 DEF LimitsDone, history
  <2>2. CASE Evaluate("sensor", "limitsEval", Targets, demand, applied, held)
    BY <2>1, <2>2, EvaluateBegins
  <2>3. CASE /\ Goto("sensor", "freeze") /\ Loop("sensor", {})
             /\ UNCHANGED <<applied, op, want>>
    <3>1. /\ pc'["sensor"] = "freeze" /\ op' = op /\ OnlyMoves("sensor")
          /\ UNCHANGED quiet /\ op["sensor"].stage # "issued"
      BY <1>t, <1>w, <2>1, <2>3 DEF Goto, Loop, OnlyMoves, Evaluating
    <3>2. QED
      BY <2>1, <3>1, QuietKeeps DEF Drives, Evaluating
  <2>4. QED
    BY <2>1, <2>2, <2>3
<1>13. CASE FreezeCheck
  <2>1. /\ pc["sensor"] = "freeze" /\ pc'["sensor"] = "idle" /\ op' = op
        /\ OnlyMoves("sensor") /\ UNCHANGED quiet
    BY <1>13, <1>t, <1>w DEF FreezeCheck, Goto, OnlyMoves, history
  <2>2. op["sensor"].stage # "issued"
    BY <1>w, <2>1 DEF Evaluating
  <2>3. QED
    BY <2>1, <2>2, QuietKeeps DEF Drives, Evaluating
<1>14. CASE HeldOn \/ Release \/ Released
  BY <1>14, <1>w DEF HeldOn, Release, Released
<1>15. ASSUME NEW t \in Targets, NEW on \in BOOLEAN, SwitchTarget(t, on) PROVE Honest'
  <2>1. /\ "ws" \in Tasks /\ pc["ws"] = "idle" /\ pc'["ws"] = "switching"
        /\ OnlyMoves("ws") /\ UNCHANGED quiet
    BY <1>15, <1>t DEF SwitchTarget, Goto, Issue, OnlyMoves, unit, history
  <2>2. QED
    BY <2>1, QuietKeeps DEF Drives, Evaluating
<1>16. ASSUME NEW t \in Targets, Toggle(t) PROVE Honest'
  <2>1. /\ "menu" \in Tasks /\ pc["menu"] = "relays" /\ pc'["menu"] = "toggling"
        /\ OnlyMoves("menu") /\ UNCHANGED quiet
    BY <1>16, <1>t DEF Toggle, Goto, Issue, OnlyMoves, unit
  <2>2. QED
    BY <2>1, QuietKeeps DEF Drives, Evaluating
<1>17. ASSUME NEW p \in People, NEW t \in Targets, NEW m, SetMode(p, t, m) PROVE Honest'
  <2>1. /\ pc[p] = "idle" /\ pc'[p] \in {"idle", "saving"} /\ op' = op
        /\ OnlyMoves(p) /\ UNCHANGED quiet
    BY <1>17, <1>t DEF SetMode, Goto, Loop, OnlyMoves, history
  <2>2. op[p].stage # "issued"
    BY <1>w, <2>1 DEF Evaluating
  <2>3. QED
    BY <2>1, <2>2, QuietKeeps DEF Drives, Evaluating
<1>18. ASSUME NEW p \in People, ModeSaved(p) PROVE Honest'
  <2>1. /\ pc[p] = "saving"
        /\ Evaluate(p, "eval", Targets, demand, Forget(applied, todo[p]), held)
        /\ UNCHANGED <<relay, cut, demand, engaged, held, cycle, byHand>>
    BY <1>18 DEF ModeSaved, history
  <2>2. QED
    BY <2>1, EvaluateBegins
<1>19. ASSUME NEW p \in People, SetSchedule(p) PROVE Honest'
  <2>1. /\ pc[p] = "idle" /\ \A q \in Tasks : op[q].stage = "none"
        /\ pc'[p] = "saving" /\ \A q \in Tasks \ {p} : pc'[q] = pc[q]
        /\ cycle' = cycle /\ applied' = NotAsked /\ todo' = todo
        /\ UNCHANGED <<relay, cut, engaged, held, op, byHand>>
    BY <1>19, <1>t DEF SetSchedule, Calm, Everyday, Goto, history
  <2>2. QED
    BY <1>w, <2>1, SlowKeeps
<1>20. CASE OpenRelayMenu
  <2>1. /\ "menu" \in Tasks /\ pc["menu"] = "idle" /\ pc'["menu"] = "relays"
        /\ op' = op /\ OnlyMoves("menu") /\ UNCHANGED quiet
    BY <1>20, <1>t DEF OpenRelayMenu, Goto, OnlyMoves, unit, history
  <2>2. op["menu"].stage # "issued"
    BY <1>w, <2>1 DEF Evaluating
  <2>3. QED
    BY <2>1, <2>2, QuietKeeps DEF Drives, Evaluating
<1>21. CASE CloseRelayMenu
  <2>1. /\ "menu" \in Tasks /\ pc["menu"] = "relays" /\ pc'["menu"] = "idle"
        /\ op' = op /\ OnlyMoves("menu") /\ UNCHANGED quiet
    BY <1>21, <1>t DEF CloseRelayMenu, Goto, OnlyMoves, unit, history
  <2>2. op["menu"].stage # "issued"
    BY <1>w, <2>1 DEF Evaluating
  <2>3. QED
    BY <2>1, <2>2, QuietKeeps DEF Drives, Evaluating
<1>22. CASE Switched
  <2>1. /\ "ws" \in Tasks /\ pc["ws"] = "switching" /\ pc'["ws"] = "idle"
        /\ op'["ws"].stage = "none" /\ OnlyMoves("ws") /\ UNCHANGED quiet
    BY <1>22, <1>t, ConstantTypes DEF Switched, Goto, Settle, OnlyMoves, unit, history
  <2>2. QED
    BY <2>1, QuietKeeps DEF Drives, Evaluating
<1>23. CASE Toggled
  <2>1. /\ "menu" \in Tasks /\ pc["menu"] = "toggling" /\ pc'["menu"] = "relays"
        /\ op'["menu"].stage = "none" /\ OnlyMoves("menu") /\ UNCHANGED quiet
    BY <1>23, <1>t, ConstantTypes DEF Toggled, Goto, Settle, OnlyMoves, unit, history
  <2>2. QED
    BY <2>1, QuietKeeps DEF Drives, Evaluating
<1>24. CASE TimePasses
  <2>1. /\ \A q \in Tasks : op[q].stage = "none"
        /\ UNCHANGED <<relay, cut, applied, engaged, held, cycle, pc, op, todo, byHand>>
    BY <1>24 DEF TimePasses, Calm, Everyday, unit, history
  <2>2. QED
    BY <1>w, <2>1, SlowKeeps
<1>25. CASE Restart
  BY <1>25, RestartKeeps
<1>26. CASE UNCHANGED vars
  BY <1>26 DEF vars, Honest, Warm, InStep, Booked, WrittenRight, Remembered, Drives,
              Cutting, Reviving, Stands, Replacing, Blocked, Reason
<1>27. CASE CycleFails
  <2>1. /\ pc["sensor"] = "idle" /\ pc'["sensor"] = "failed" /\ op' = op
        /\ OnlyMoves("sensor") /\ UNCHANGED quiet
    BY <1>27, <1>t DEF CycleFails, Goto, OnlyMoves, unit, history
  <2>2. op["sensor"].stage # "issued"
    BY <1>w, <2>1 DEF Evaluating
  <2>3. QED
    BY <2>1, <2>2, QuietKeeps DEF Drives, Evaluating
<1>28. CASE GoRound
  <2>1. /\ pc["sensor"] = "failed" /\ pc'["sensor"] = "idle" /\ op' = op
        /\ OnlyMoves("sensor") /\ UNCHANGED quiet
    BY <1>28, <1>t DEF GoRound, Goto, OnlyMoves, unit, history
  <2>2. op["sensor"].stage # "issued"
    BY <1>w, <2>1 DEF Evaluating
  <2>3. QED
    BY <2>1, <2>2, QuietKeeps DEF Drives, Evaluating
<1>29. QED
  BY <1>1, <1>2, <1>3, <1>4, <1>5, <1>6, <1>7, <1>8, <1>9, <1>10, <1>11, <1>12, <1>13,
     <1>14, <1>15, <1>16, <1>17, <1>18, <1>19, <1>20, <1>21, <1>22, <1>23, <1>24, <1>25,
     <1>26, <1>27, <1>28 DEF Next, Sensor, Person, Resume

(* At rest nothing is being cut, revived or replaced.                      *)
LEMMA HonestSuffices == TypeOK /\ Honest => CacheIsHonest
<1> SUFFICES ASSUME TypeOK, Honest, \A p \in Tasks : pc[p] \in {"idle", "relays"},
                    NEW t \in Targets \ byHand, Drivable(t, demand, NotAsked, held),
                    applied[t] = demand[t]
             PROVE  relay[t] = (demand[t] = "on")
  BY DEF CacheIsHonest
<1>1. ~Cutting(t) /\ ~Reviving(t) /\ \A p \in Tasks : ~Replacing(p, t)
  BY Everywhere DEF Cutting, Reviving, Replacing, Drives, Evaluating
<1>2. ~Blocked(t) /\ demand[t] # "none"
  BY DEF Drivable
<1>3. QED
  BY <1>1, <1>2 DEF Honest, Remembered, Stands

(* Where every relay is there, the anti-freeze guard is never called upon  *)
(* and the slow events find no relay command in flight, a unit at rest is  *)
(* as the schedule asks, or the cache knows that it is not.                *)
THEOREM CacheStaysHonest == Everyday => (Spec => []CacheIsHonest)
<1>1. Everyday /\ Init => Honest
  BY FreshIsHonest DEF Init, Everyday
<1>2. TypeOK /\ Honest /\ Everyday /\ [Next]_vars => Honest'
  BY HonestStep
<1>3. Everyday => Everyday'
  BY DEF Everyday
<1>4. QED
  BY <1>1, <1>2, <1>3, TypeCorrect, HonestSuffices, PTL DEF Spec

=============================================================================
