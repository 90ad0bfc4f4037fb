---------------------------- MODULE LatchProofs -----------------------------
(***************************************************************************)
(* What is proved of the two latches, for any probes, readings, limits and *)
(* thresholds.  LimitLatch: an uncut boiler is under its limits, and the   *)
(* gap between its thresholds is a deadband.  FreezeLatch: thresholds that *)
(* start a deadband apart stay so, and the latch does not chatter.         *)
(***************************************************************************)
EXTENDS LimitLatch, FreezeLatch, TLAPS

(* ----------------------------- LimitLatch ------------------------------ *)

LEMMA OptionalTypes ==
    /\ {} \in Optional
    /\ \A S \in SUBSET Int : Maybe(S) \subseteq Optional
    /\ NoLimits \in Limits
<1>1. {} \in Optional
  BY DEF Optional
<1>2. \A S \in SUBSET Int : Maybe(S) \subseteq Optional
  BY DEF Optional, Maybe
<1>3. NoLimits \in Limits
  BY <1>1 DEF NoLimits, Limits
<1> QED
  BY <1>1, <1>2, <1>3

LEMMA LimitTypeStep == LimitTypeOK /\ [LimitNext]_limitVars => LimitTypeOK'
<1> SUFFICES ASSUME LimitTypeOK, [LimitNext]_limitVars PROVE LimitTypeOK'
  OBVIOUS
<1> USE OptionalTypes, ValuesAssumption
<1>1. ASSUME NEW w \in [probes -> Maybe(BoilerWater)], NEW a \in Maybe(RoomAir),
             Check(w, a)
      PROVE  LimitTypeOK'
  <2>1. w \in [probes -> Optional] /\ a \in Optional
    OBVIOUS
  <2>2. ControlProbe(w) \X Control(w) \subseteq probes \X Int
    BY <2>1 DEF ControlProbe, Control, Reading, Optional
  <2>3. Judge(w, a) \in {"none", "water", "ambient"}
    BY DEF Judge, LimitTypeOK
  <2>4. record' \in {"none", "water", "ambient"}
    BY <1>1, <2>3 DEF Check, LimitTypeOK
  <2>5. since' \subseteq probes \X Int
    BY <1>1, <2>2 DEF Check, LimitTypeOK
  <2> QED
    BY <1>1, <2>1, <2>4, <2>5 DEF Check, LimitTypeOK
<1>2. ASSUME NEW l \in LimitSets, Configure(l) PROVE LimitTypeOK'
  BY <1>2 DEF Configure, LimitTypeOK
<1>3. CASE Unconfigure
  BY <1>3 DEF Unconfigure, LimitTypeOK
<1>4. ASSUME NEW s \in Maybe(Setpoints), SetSetpoint(s) PROVE LimitTypeOK'
  BY <1>4 DEF SetSetpoint, LimitTypeOK
<1>5. CASE UNCHANGED limitVars
  BY <1>5 DEF limitVars, LimitTypeOK
<1> QED
  BY <1>1, <1>2, <1>3, <1>4, <1>5 DEF LimitNext, JudgeCycle

(* Type correctness of the cut.                                            *)
THEOREM LimitTypeCorrect == LimitSpec => []LimitTypeOK
<1>1. LimitInit => LimitTypeOK
  BY OptionalTypes, MappingsAssumption DEF LimitInit, LimitTypeOK
<1> QED
  BY <1>1, LimitTypeStep, PTL DEF LimitSpec

-----------------------------------------------------------------------------
(* A room that is clear is not over.                                       *)
LEMMA ClearIsNotOver ==
    ASSUME LimitTypeOK, NEW a \in Optional, AmbientClear(a)
    PROVE  ~AmbientOver(a)
<1> SUFFICES ASSUME NEW t \in a, NEW m \in limits.room, t >= m PROVE FALSE
  BY DEF AmbientOver
<1>1. limits.room \in Optional
  BY DEF LimitTypeOK, Limits
<1>2. PICK u \in a : u < m - Hysteresis
  BY DEF AmbientClear
<1>3. u = t /\ t \in Int /\ m \in Int
  BY <1>1 DEF Optional
<1> QED
  BY <1>2, <1>3, BandsAssumption

LEMMA UncutStep == LimitTypeOK /\ UncutIsSafe /\ [LimitNext]_limitVars => UncutIsSafe'
<1> SUFFICES ASSUME LimitTypeOK, UncutIsSafe, [LimitNext]_limitVars PROVE UncutIsSafe'
  OBVIOUS
<1>1. ASSUME NEW w \in [probes -> Maybe(BoilerWater)], NEW a \in Maybe(RoomAir),
             Check(w, a)
      PROVE  UncutIsSafe'
  <2> SUFFICES ASSUME judged', record' = "none"
               PROVE  ~WaterOver(w) /\ ~AmbientOver(a)
    BY <1>1 DEF UncutIsSafe, Check, WaterOver, Read, CutAt, Single, Aim, AmbientOver
  <2>1. Judge(w, a) = "none"
    BY <1>1 DEF Check
  <2>2. CASE record = "none"
    BY <2>1, <2>2 DEF Judge
  <2>3. CASE record # "none"
    <3>1. AmbientClear(a) /\ ~WaterOver(w)
      BY <2>1, <2>3 DEF Judge, WaterClear
    <3>2. a \in Optional
      BY OptionalTypes, ValuesAssumption
    <3> QED
      BY <3>1, <3>2, ClearIsNotOver
  <2> QED
    BY <2>2, <2>3
<1>2. CASE \/ \E l \in LimitSets : Configure(l)
           \/ Unconfigure
           \/ \E s \in Maybe(Setpoints) : SetSetpoint(s)
  BY <1>2 DEF Configure, Unconfigure, SetSetpoint, UncutIsSafe
<1>3. CASE UNCHANGED limitVars
  BY <1>3 DEF limitVars, UncutIsSafe, WaterOver, Read, CutAt, Single, Aim, AmbientOver
<1> QED
  BY <1>1, <1>2, <1>3 DEF LimitNext, JudgeCycle

(* A boiler left uncut by the last cycle is under every limit in force.    *)
THEOREM UncutBoilersAreSafe == LimitSpec => []UncutIsSafe
<1>1. LimitInit => UncutIsSafe
  BY DEF LimitInit, UncutIsSafe
<1> QED
  BY <1>1, UncutStep, LimitTypeCorrect, PTL DEF LimitSpec

-----------------------------------------------------------------------------
(***************************************************************************)
(* The deadband.  CutDoesNotChatter speaks of a step; what carries it from the     *)
(* release to the next cut is that the reading of the release lies at or   *)
(* under the restore threshold, which no step moves without forgetting the *)
(* reading.                                                                *)
(***************************************************************************)
ReleasedLow == \A s \in since, r \in RestoreAt : s[2] <= r

(* There is one threshold to come back at, and one reading to come back on. *)
LEMMA OneRestore == LimitTypeOK => RestoreAt \in Optional
<1> SUFFICES ASSUME LimitTypeOK PROVE RestoreAt \in Optional
  OBVIOUS
<1>1. Aim \in Optional /\ limits.min \in Optional
  BY DEF Aim, LimitTypeOK, Limits
<1>2. \A S \in Optional, n \in Nat : {t - n : t \in S} \in Optional
  BY DEF Optional
<1> QED
  BY <1>1, <1>2, BandsAssumption DEF RestoreAt

LEMMA OneControl ==
    ASSUME probes \subseteq Roles, NEW w \in [probes -> Optional]
    PROVE  Control(w) \in Optional
<1>1. \A p, q \in ControlProbe(w) : p = q
  <2> SUFFICES ASSUME NEW p \in ControlProbe(w), NEW q \in ControlProbe(w)
               PROVE  p = q
    OBVIOUS
  <2>1. p \in Roles /\ q \in Roles /\ p \in Reading(w) /\ q \in Reading(w)
    BY DEF ControlProbe, Reading
  <2>2. p = "inlet" \/ q = "inlet" => p = q
    BY <2>1 DEF ControlProbe
  <2>3. p = "body" \/ q = "body" => p = q
    BY <2>1, <2>2 DEF ControlProbe, Roles
  <2> QED
    BY <2>1, <2>2, <2>3 DEF Roles
<1>2. \A p \in ControlProbe(w) : w[p] \in Optional
  BY DEF ControlProbe, Reading
<1> QED
  BY <1>1, <1>2 DEF Control, Optional

LEMMA LowStep == LimitTypeOK /\ ReleasedLow /\ [LimitNext]_limitVars => ReleasedLow'
<1> SUFFICES ASSUME LimitTypeOK, ReleasedLow, [LimitNext]_limitVars PROVE ReleasedLow'
  OBVIOUS
<1>1. ASSUME NEW w \in [probes -> Maybe(BoilerWater)], NEW a \in Maybe(RoomAir),
             Check(w, a)
      PROVE  ReleasedLow'
  <2>1. RestoreAt' = RestoreAt
    BY <1>1 DEF Check, RestoreAt, Single, Aim
  <2>2. CASE record = "water" /\ record' = "none"
    <3>1. Judge(w, a) = "none"
      BY <1>1, <2>2 DEF Check
    <3>2. PICK t \in Control(w), r \in RestoreAt : t <= r
      BY <3>1, <2>2 DEF Judge, WaterClear
    <3>3. Control(w) \in Optional
      BY OneControl, OptionalTypes, ValuesAssumption DEF LimitTypeOK
    <3>4. Control(w) = {t} /\ RestoreAt = {r}
      BY <3>2, <3>3, OneRestore DEF Optional
    <3>5. since' = ControlProbe(w) \X Control(w)
      BY <1>1, <2>2 DEF Check
    <3> QED
      BY <2>1, <3>2, <3>4, <3>5 DEF ReleasedLow
  <2>3. CASE ~(record = "water" /\ record' = "none")
    BY <1>1, <2>1, <2>3 DEF Check, ReleasedLow
  <2> QED
    BY <2>2, <2>3
<1>2. CASE \/ \E l \in LimitSets : Configure(l)
           \/ Unconfigure
           \/ \E s \in Maybe(Setpoints) : SetSetpoint(s)
  BY <1>2 DEF Configure, Unconfigure, SetSetpoint, ReleasedLow
<1>3. CASE UNCHANGED limitVars
  BY <1>3 DEF limitVars, ReleasedLow, RestoreAt, Single, Aim
<1> QED
  BY <1>1, <1>2, <1>3 DEF LimitNext, JudgeCycle

(* The probe that let a water cut go warms by the whole gap between the    *)
(* thresholds before it trips the next one.                                *)
THEOREM ReleasingProbeNeverChatters == LimitSpec => CutDoesNotChatter
<1>1. LimitTypeOK /\ ReleasedLow /\ [LimitNext]_limitVars =>
        [\A s \in since, c \in CutAt, r \in RestoreAt :
           record = "none" /\ record' = "water"
           => \A t \in water'[s[1]] : t >= c => t - s[2] >= c - r]_limitVars
  <2> SUFFICES ASSUME LimitTypeOK, ReleasedLow, LimitNext,
                      NEW s \in since, NEW c \in CutAt, NEW r \in RestoreAt,
                      record = "none", record' = "water",
                      NEW t \in water'[s[1]], t >= c
               PROVE  t - s[2] >= c - r
    OBVIOUS
  <2>1. PICK w \in [probes -> Maybe(BoilerWater)], a \in Maybe(RoomAir) : Check(w, a)
    BY DEF LimitNext, JudgeCycle, Configure, Unconfigure, SetSetpoint
  <2>2. s[1] \in probes /\ s[2] \in Int
    BY DEF LimitTypeOK
  <2>3. t \in Int
    BY <2>1, <2>2, OptionalTypes, ValuesAssumption DEF Check, Optional
  <2>4. r \in Int
    BY OneRestore DEF Optional
  <2>5. c \in Int
    <3>1. Aim \in Optional
      BY DEF Aim, LimitTypeOK, Limits
    <3>2. \A u \in Aim : u \in Int /\ u + Band \in Int
      BY <3>1, BandsAssumption DEF Optional
    <3> QED
      BY <3>2 DEF CutAt
  <2>6. s[2] <= r
    BY DEF ReleasedLow
  <2> QED
    BY <2>2, <2>3, <2>4, <2>5, <2>6
<1>2. LimitInit => ReleasedLow
  BY DEF LimitInit, ReleasedLow
<1>3. LimitSpec => []ReleasedLow
  BY <1>2, LowStep, LimitTypeCorrect, PTL DEF LimitSpec
<1> QED
  BY <1>1, <1>3, LimitTypeCorrect, PTL DEF LimitSpec, CutDoesNotChatter
(* ----------------------------- FreezeLatch ----------------------------- *)

(* What a read cycle's steps leave of the types.                           *)
LEMMA FreezeTypeStep == FreezeTypeOK /\ [FreezeNext]_freezeVars => FreezeTypeOK'
<1> SUFFICES ASSUME FreezeTypeOK, [FreezeNext]_freezeVars PROVE FreezeTypeOK'
  OBVIOUS
<1> USE FreezeAssumption
<1>1. CASE FreezeCycle
  <2>1. reading' \in [WaterProbes -> SUBSET Int]
    BY <1>1 DEF FreezeCycle, Maybe
  <2>2. engaged' \in BOOLEAN /\ ids' \subseteq WaterProbes
    BY <1>1 DEF FreezeCycle, Engage, Release, Stay, Readable, FreezeTypeOK
  <2>3. released' \in [WaterProbes -> SUBSET Int]
    BY <1>1, <2>1 DEF FreezeCycle, Engage, Release, Stay, FreezeTypeOK
  <2> QED
    BY <1>1, <2>1, <2>2, <2>3 DEF FreezeCycle, thresholds, FreezeTypeOK
<1>2. ASSUME NEW on \in OperatorChoices, NEW off \in OperatorChoices, NEW saved \in BOOLEAN,
             SetThresholds(on, off, saved)
      PROVE  FreezeTypeOK'
  <2>1. pair' \in Pairs
    BY <1>2 DEF SetThresholds, Pairs
  <2> QED
    BY <1>2, <2>1 DEF SetThresholds, FreezeTypeOK, latch, NoReading
<1>3. ASSUME NEW saved \in BOOLEAN, RestoreDefaults(saved) PROVE FreezeTypeOK'
  <2>1. Defaults \in Pairs
    BY DEF Defaults, Pairs
  <2> QED
    BY <1>3, <2>1 DEF RestoreDefaults, FreezeTypeOK, latch, NoReading
<1>4. CASE FreezeRestart
  <2>1. Loaded \in Pairs
    BY DEF Loaded, Defaults, Pairs, FreezeTypeOK
  <2> QED
    BY <1>4, <2>1 DEF FreezeRestart, FreezeTypeOK, NoReading
<1>5. CASE UNCHANGED freezeVars
  BY <1>5 DEF freezeVars, FreezeTypeOK
<1> QED
  BY <1>1, <1>2, <1>3, <1>4, <1>5 DEF FreezeNext, Operator

(* Type correctness of the latch and its thresholds.                       *)
THEOREM FreezeTypeCorrect == FreezeSpec => []FreezeTypeOK
<1>1. Defaults \in Pairs
  BY FreezeAssumption DEF Defaults, Pairs
<1>2. NoReading \in [WaterProbes -> SUBSET Int]
  BY DEF NoReading
<1>3. FreezeInit => FreezeTypeOK
  BY <1>1, <1>2 DEF FreezeInit, FreezeTypeOK
<1> QED
  BY <1>3, FreezeTypeStep, PTL DEF FreezeSpec

(* The thresholds stay a deadband apart through edits, failed saves and    *)
(* restarts.                                                               *)
THEOREM DeadbandKept ==
    ASSUME Valid(Defaults)
    PROVE  FreezeSpec => []ThresholdsApart
<1>1. FreezeInit => ThresholdsApart
  BY DEF FreezeInit, ThresholdsApart
<1>2. ThresholdsApart /\ [FreezeNext]_freezeVars => ThresholdsApart'
  <2> SUFFICES ASSUME ThresholdsApart, [FreezeNext]_freezeVars PROVE ThresholdsApart'
    OBVIOUS
  <2>1. CASE FreezeCycle \/ UNCHANGED freezeVars
    BY <2>1 DEF FreezeCycle, thresholds, freezeVars, ThresholdsApart, Valid
  <2>2. CASE Operator
    BY <2>2 DEF Operator, SetThresholds, RestoreDefaults, ThresholdsApart
  <2>3. CASE FreezeRestart
    BY <2>3 DEF FreezeRestart, Loaded, ThresholdsApart
  <2> QED
    BY <2>1, <2>2, <2>3 DEF FreezeNext
<1> QED
  BY <1>1, <1>2, PTL DEF FreezeSpec

(* What carries FreezeDoesNotChatter from a release to the next engagement: the       *)
(* readings of the release lie above the release temperature, and a change *)
(* of the thresholds forgets them.                                         *)
ReleasedAbove == \A p \in WaterProbes : \A s \in released[p] : s > pair.off

LEMMA AboveStep == FreezeTypeOK /\ ReleasedAbove /\ [FreezeNext]_freezeVars => ReleasedAbove'
<1> SUFFICES ASSUME FreezeTypeOK, ReleasedAbove, [FreezeNext]_freezeVars PROVE ReleasedAbove'
  OBVIOUS
<1>1. CASE FreezeCycle
  <2>1. UNCHANGED pair
    BY <1>1 DEF FreezeCycle, thresholds
  <2>2. CASE UNCHANGED released
    BY <2>1, <2>2 DEF ReleasedAbove
  <2>3. CASE Release(reading')
    <3> SUFFICES ASSUME NEW p \in WaterProbes, NEW s \in released'[p]
                 PROVE  s > pair.off
      BY <2>1 DEF ReleasedAbove
    <3>1. p \in ids /\ s \in reading'[p]
      BY <2>3 DEF Release
    <3>2. PICK t \in reading'[p] : t > pair.off
      BY <2>3, <3>1 DEF Release, Clear, Warm
    <3>3. reading'[p] \in Maybe(RoomWater)
      BY <1>1 DEF FreezeCycle
    <3> QED
      BY <3>1, <3>2, <3>3 DEF Maybe
  <2> QED
    BY <1>1, <2>2, <2>3 DEF FreezeCycle, Engage, Stay
<1>2. CASE Operator \/ FreezeRestart
  <2>1. released' = NoReading
    BY <1>2 DEF Operator, SetThresholds, RestoreDefaults, FreezeRestart
  <2> QED
    BY <2>1 DEF NoReading, ReleasedAbove
<1>3. CASE UNCHANGED freezeVars
  BY <1>3 DEF freezeVars, ReleasedAbove
<1> QED
  BY <1>1, <1>2, <1>3 DEF FreezeNext

(* The latch does not chatter: a probe that held it falls through the      *)
(* whole deadband before it engages the latch again.                       *)
THEOREM NoProbeChatters ==
    ASSUME Valid(Defaults)
    PROVE  FreezeSpec => FreezeDoesNotChatter
<1> DEFINE Fallen == \A p \in WaterProbes : \A s \in released[p], t \in reading'[p] :
                        t < pair.on => s - t > MinGap
<1>1. /\ FreezeTypeOK /\ FreezeTypeOK' /\ ThresholdsApart /\ ReleasedAbove
      => [~engaged /\ engaged' => Fallen]_freezeVars
  <2> SUFFICES ASSUME FreezeTypeOK, FreezeTypeOK', ThresholdsApart, ReleasedAbove,
                      NEW p \in WaterProbes, NEW s \in released[p],
                      NEW t \in reading'[p], t < pair.on
               PROVE  s - t > MinGap
    OBVIOUS
  <2>1. s \in Int /\ t \in Int /\ pair.on \in Int /\ pair.off \in Int
    BY DEF FreezeTypeOK, Pairs
  <2>2. s > pair.off /\ pair.off - pair.on >= MinGap
    BY DEF ReleasedAbove, ThresholdsApart, Valid
  <2> QED
    BY <2>1, <2>2, FreezeAssumption
<1>2. FreezeInit => ReleasedAbove
  BY DEF FreezeInit, ReleasedAbove, NoReading
<1>3. FreezeSpec => []ThresholdsApart
  BY DeadbandKept
<1>4. FreezeTypeOK /\ ReleasedAbove /\ [FreezeNext]_freezeVars => ReleasedAbove'
  BY AboveStep
<1> QED
  BY <1>1, <1>2, <1>3, <1>4, FreezeTypeCorrect, PTL DEF FreezeSpec, FreezeDoesNotChatter
=============================================================================
