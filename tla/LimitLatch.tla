----------------------------- MODULE LimitLatch -----------------------------
(***************************************************************************)
(* The over-temperature cut of one boiler (limits_guard.py): from what its *)
(* probes and the room sensor read, and from the limits in force, the      *)
(* guard cuts the boiler or lets it go.  RelayControl takes this verdict   *)
(* as given and models what follows from it.                               *)
(*                                                                         *)
(* What may be missing - a reading, a limit, a setpoint - is a set with    *)
(* one element or none; temperatures are whole numbers of any unit.        *)
(***************************************************************************)
EXTENDS Integers, FiniteSets, Options

CONSTANTS
    Mappings,    \* the probes a mapping may give the boiler
    BoilerWater, \* temperatures a probe may read
    RoomAir,     \* temperatures the room sensor may read
    LimitSets,   \* the limits a config may carry
    Setpoints,   \* the setpoints the boiler may be given
    Band,        \* SINGLE_PROBE_BAND_C
    Deadband,    \* FALLBACK_WATER_DEADBAND_C
    Hysteresis   \* AMBIENT_HYSTERESIS_C

Roles      == {"outlet", "body", "inlet"}
Optional   == {x \in SUBSET Int : \A a, b \in x : a = b}
Limits     == [max : Optional, min : Optional, room : Optional]
NoLimits   == [max |-> {}, min |-> {}, room |-> {}]

ASSUME MappingsAssumption == Mappings \subseteq SUBSET Roles

ASSUME ValuesAssumption ==
    /\ BoilerWater \subseteq Int
    /\ RoomAir \subseteq Int
    /\ LimitSets \subseteq Limits
    /\ Setpoints \subseteq Int

ASSUME BandsAssumption ==
    /\ Band \in Nat
    /\ Deadband \in Nat
    /\ Hysteresis \in Nat

VARIABLES
    probes,      \* the boiler's probes, in the mapping the process started with
    configured,  \* whether there is a config at all
    limits,      \* its limits
    setpoint,    \* the boiler's setpoint, if it has one
    water,       \* water[p]: what probe p read in the last cycle
    room,        \* what the room sensor read
    record,      \* why the boiler is cut, "none" when it is not
    judged,      \* history: a cycle has run under the settings in force
    since        \* history: what let the last water cut under them go

limitVars == <<probes, configured, limits, setpoint, water, room, record, judged,
          since>>

-----------------------------------------------------------------------------
(* The thresholds (_thresholds) and the readings they are compared with.   *)

Single    == Cardinality(probes) = 1
Aim       == IF setpoint # {} THEN setpoint ELSE limits.max
CutAt     == IF Single THEN {t + Band : t \in Aim} ELSE Aim
RestoreAt == IF Single THEN {t - Band : t \in Aim}
             ELSE IF setpoint = {} /\ limits.max # {} /\ limits.min # {}
                  THEN limits.min
                  ELSE {t - Deadband : t \in Aim}

Reading(w) == {p \in probes : w[p] # {}}
Read(w)    == UNION {w[p] : p \in probes}

(* The probe the recovery goes by: the best placed of those that read.     *)
ControlProbe(w) ==
    {p \in Reading(w) : /\ p = "body" => "outlet" \notin Reading(w)
                        /\ p = "inlet" => Reading(w) = {"inlet"}}
Control(w) == UNION {w[p] : p \in ControlProbe(w)}

WaterOver(w)    == \E t \in Read(w), c \in CutAt : t >= c
AmbientOver(a)  == \E t \in a, m \in limits.room : t >= m
AmbientClear(a) == \A m \in limits.room : \E t \in a : t < m - Hysteresis

(* A slip for WaterClear: the gap is forgotten.                            *)
WaterClearAtOnce(w)  == Control(w) # {} /\ ~WaterOver(w)
WaterClear(w) ==
    /\ \E t \in Control(w), r \in RestoreAt : t <= r
    /\ ~WaterOver(w)

-----------------------------------------------------------------------------
(* One read cycle: LimitGuard.check for this boiler. *)

(* A slip for Judge: an ambient cut clears whatever the water does.        *)
JudgeByRoom(w, a) ==
    IF record = "none"
    THEN IF WaterOver(w) THEN "water"
         ELSE IF AmbientOver(a) THEN "ambient" ELSE "none"
    ELSE IF AmbientClear(a) /\ (record = "water" => WaterClear(w))
         THEN "none" ELSE record

Judge(w, a) ==
    IF record = "none"
    THEN IF WaterOver(w) THEN "water"
         ELSE IF AmbientOver(a) THEN "ambient" ELSE "none"
    ELSE IF /\ AmbientClear(a)
            /\ IF record = "water" THEN WaterClear(w) ELSE ~WaterOver(w)
         THEN "none" ELSE record

Check(w, a) ==
    /\ water' = w
    /\ room' = a
    /\ record' = IF configured THEN Judge(w, a) ELSE record
    /\ judged' = configured
    /\ since' = IF record = "water" /\ record' = "none"
                THEN ControlProbe(w) \X Control(w)
                ELSE since
    /\ UNCHANGED <<probes, configured, limits, setpoint>>

(* A published config, a local edit of it, or either taken back: the guard *)
(* is not told, and reads what is in force at its next cycle.              *)
Configure(l) ==
    /\ configured' = TRUE
    /\ limits' = l
    /\ judged' = FALSE
    /\ since' = {}
    /\ UNCHANGED <<probes, setpoint, water, room, record>>

(* revert_local with nothing ever published.                               *)
Unconfigure ==
    /\ configured' = FALSE
    /\ limits' = NoLimits
    /\ judged' = FALSE
    /\ since' = {}
    /\ UNCHANGED <<probes, setpoint, water, room, record>>

SetSetpoint(s) ==
    /\ setpoint' = s
    /\ judged' = FALSE
    /\ since' = {}
    /\ UNCHANGED <<probes, configured, limits, water, room, record>>

LimitInit ==
    /\ probes \in Mappings
    /\ configured = FALSE
    /\ limits = NoLimits
    /\ setpoint = {}
    /\ water = [p \in probes |-> {}]
    /\ room = {}
    /\ record = "none"
    /\ judged = FALSE
    /\ since = {}

JudgeCycle == \E w \in [probes -> Maybe(BoilerWater)], a \in Maybe(RoomAir) : Check(w, a)

LimitNext == \/ JudgeCycle
        \/ \E l \in LimitSets : Configure(l)
        \/ Unconfigure
        \/ \E s \in Maybe(Setpoints) : SetSetpoint(s)

LimitSpec == LimitInit /\ [][LimitNext]_limitVars

-----------------------------------------------------------------------------
(***************************************************************************)
(* What is checked.                                                        *)
(***************************************************************************)

(* Every variable holds a value of its kind. *)
LimitTypeOK ==
    /\ probes \in SUBSET Roles
    /\ configured \in BOOLEAN
    /\ limits \in Limits
    /\ setpoint \in Optional
    /\ water \in [probes -> Optional]
    /\ room \in Optional
    /\ record \in {"none", "water", "ambient"}
    /\ judged \in BOOLEAN
    /\ since \subseteq probes \X Int

(* A boiler the last cycle left uncut is under every limit in force, by    *)
(* every probe: however it came back, the same readings would not cut it   *)
(* again (limits_guard.py:46-48).                                          *)
UncutIsSafe ==
    judged /\ record = "none" => ~WaterOver(water) /\ ~AmbientOver(room)

(* The gap between the two thresholds is a deadband (limits_guard.py:6-8): *)
(* the probe whose reading let a water cut go does not, under the same     *)
(* settings, trip the next one before it has warmed by the whole gap.      *)
(* With one probe the boiler then cannot chatter; with several another     *)
(* probe can cut it again at once.                                         *)
CutDoesNotChatter ==
    [][\A s \in since, c \in CutAt, r \in RestoreAt :
         record = "none" /\ record' = "water"
         => \A t \in water'[s[1]] : t >= c => t - s[2] >= c - r]_limitVars
=============================================================================
