---------------------------- MODULE FreezeLatch -----------------------------
(***************************************************************************)
(* The anti-freeze latch of the room and the thresholds an operator sets   *)
(* for it (anti_freeze.py).  RelayControl takes what a read cycle says of  *)
(* the freeze as given and models what the guard does to the relays.       *)
(*                                                                         *)
(* A reading is a set with one temperature, or empty when the probe could  *)
(* not be read.  A read cycle is judged with the thresholds it starts      *)
(* with: an edit in the milliseconds the guard waits for its relays is     *)
(* taken as made just before or just after the cycle.                      *)
(***************************************************************************)
EXTENDS Integers, Options

CONSTANTS
    WaterProbes, \* the water probes the mapping watches
    RoomWater,   \* temperatures they may read
    OperatorChoices, \* temperatures an operator may ask for
    DefaultOn,   \* BOILERROOM_ANTIFREEZE_ON_C
    DefaultOff,  \* BOILERROOM_ANTIFREEZE_OFF_C
    MinGap,      \* MIN_DEADBAND_C
    Lowest,      \* MIN_THRESHOLD_C
    Highest      \* MAX_THRESHOLD_C

ASSUME FreezeAssumption ==
    /\ RoomWater \subseteq Int
    /\ OperatorChoices \subseteq Int
    /\ DefaultOn \in Int
    /\ DefaultOff \in Int
    /\ MinGap \in Nat \ {0}
    /\ Lowest \in Int
    /\ Highest \in Int

Defaults    == [on |-> DefaultOn, off |-> DefaultOff]
Valid(p)    == /\ {p.on, p.off} \subseteq Lowest .. Highest
               /\ p.off - p.on >= MinGap
NoReading   == [p \in WaterProbes |-> {}]

VARIABLES
    pair,       \* _on_c and _off_c
    isLocal,    \* _is_local
    persisted,  \* _persisted
    savedPair,  \* antifreeze_local.json: the saved pair, a set of one or none
    reading,    \* what each probe read in the last cycle
    engaged,    \* _engaged
    ids,        \* _engaged_readable_ids
    released    \* history: what the probes that held the latch read at its
                \* last release, emptied when the thresholds change

freezeVars == <<pair, isLocal, persisted, savedPair, reading, engaged, ids, released>>

thresholds == <<pair, isLocal, persisted, savedPair>>
latch      == <<reading, engaged, ids>>

-----------------------------------------------------------------------------
(* One read cycle: AntiFreezeGuard.check.  A cycle that reads no probe     *)
(* leaves the latch alone.                                                 *)

Readable(r) == {p \in WaterProbes : r[p] # {}}
Cold(r, p)  == \E t \in r[p] : t < pair.on
Warm(r, p)  == \E t \in r[p] : t > pair.off

(* Slips for Clear: a warm room may not have one probe more than at        *)
(* engagement; or the other threshold is looked at.                        *)
ClearOnSameProbes(r) == ids = Readable(r) /\ \A p \in ids : Warm(r, p)
ClearAboveOn(r) ==
    /\ ids \subseteq Readable(r)
    /\ \A p \in ids : \E t \in r[p] : t >= pair.on
Clear(r) ==
    /\ ids \subseteq Readable(r)
    /\ \A p \in ids : Warm(r, p)

Engage(r) ==
    /\ ~engaged
    /\ \E p \in WaterProbes : Cold(r, p)
    /\ engaged' = TRUE
    /\ ids' = Readable(r)
    /\ UNCHANGED released

Release(r) ==
    /\ engaged
    /\ Readable(r) # {}
    /\ Clear(r)
    /\ engaged' = FALSE
    /\ ids' = {}
    /\ released' = [p \in WaterProbes |-> IF p \in ids THEN r[p] ELSE {}]

Stay(r) ==
    /\ IF engaged THEN Readable(r) = {} \/ ~Clear(r)
                  ELSE \A p \in WaterProbes : ~Cold(r, p)
    /\ UNCHANGED <<engaged, ids, released>>

FreezeCycle ==
    /\ reading' \in [WaterProbes -> Maybe(RoomWater)]
    /\ Engage(reading') \/ Release(reading') \/ Stay(reading')
    /\ UNCHANGED thresholds

-----------------------------------------------------------------------------
(* The thresholds.  A change drives the latch at once; saving it may fail, *)
(* and then it does not survive a restart.                                 *)

(* A slip for SetThresholds: the pair is not validated.                    *)
SetAnything(on, off, saved) ==
    /\ pair' = [on |-> on, off |-> off]
    /\ isLocal' = TRUE
    /\ persisted' = saved
    /\ savedPair' = IF saved THEN {pair'} ELSE savedPair
    /\ released' = NoReading
    /\ UNCHANGED latch

SetThresholds(on, off, saved) ==
    /\ Valid([on |-> on, off |-> off])
    /\ pair' = [on |-> on, off |-> off]
    /\ isLocal' = TRUE
    /\ persisted' = saved
    /\ savedPair' = IF saved THEN {pair'} ELSE savedPair
    /\ released' = NoReading
    /\ UNCHANGED latch

RestoreDefaults(saved) ==
    /\ Valid(Defaults)
    /\ pair' = Defaults
    /\ isLocal' = FALSE
    /\ persisted' = saved
    /\ savedPair' = IF saved THEN {} ELSE savedPair
    /\ released' = NoReading
    /\ UNCHANGED latch

(* load_local: a saved pair is adopted when it is valid; the defaults are  *)
(* taken as they are, whatever the environment says.                       *)
Loaded == IF \E saved \in savedPair : Valid(saved)
          THEN CHOOSE saved \in savedPair : Valid(saved) ELSE Defaults

FreezeRestart ==
    /\ pair' = Loaded
    /\ isLocal' = (\E saved \in savedPair : Valid(saved))
    /\ persisted' = TRUE
    /\ engaged' = FALSE
    /\ ids' = {}
    /\ released' = NoReading
    /\ UNCHANGED <<savedPair, reading>>

FreezeInit ==
    /\ pair = Defaults
    /\ isLocal = FALSE
    /\ persisted = TRUE
    /\ savedPair = {}
    /\ reading = NoReading
    /\ engaged = FALSE
    /\ ids = {}
    /\ released = NoReading

Operator == \/ \E on, off \in OperatorChoices, saved \in BOOLEAN :
                  SetThresholds(on, off, saved)
            \/ \E saved \in BOOLEAN : RestoreDefaults(saved)

FreezeNext == FreezeCycle \/ Operator \/ FreezeRestart

FreezeSpec == FreezeInit /\ [][FreezeNext]_freezeVars

(* The read cycles go on for ever.                                         *)
FairFreezeSpec == FreezeSpec /\ WF_freezeVars(FreezeCycle)

-----------------------------------------------------------------------------
(***************************************************************************)
(* What is checked.                                                        *)
(***************************************************************************)

Pairs == [on : Int, off : Int]

(* Every variable holds a value of its kind. *)
FreezeTypeOK ==
    /\ pair \in Pairs
    /\ isLocal \in BOOLEAN
    /\ persisted \in BOOLEAN
    /\ savedPair \subseteq Pairs
    /\ reading \in [WaterProbes -> SUBSET Int]
    /\ engaged \in BOOLEAN
    /\ ids \subseteq WaterProbes
    /\ released \in [WaterProbes -> SUBSET Int]

(* The thresholds stay a deadband apart, whatever an operator types, a     *)
(* save that fails or a restart leaves behind (anti_freeze.py:160-164).    *)
ThresholdsApart == Valid(pair) /\ \A saved \in savedPair : Valid(saved)

(* The latch does not chatter: a probe that held it until its release and  *)
(* engages it again has fallen through the whole deadband in between       *)
(* (anti_freeze.py:15-17).                                                 *)
FreezeDoesNotChatter ==
    [][~engaged /\ engaged' =>
         \A p \in WaterProbes : \A s \in released[p], t \in reading'[p] :
            t < pair.on => s - t > MinGap]_freezeVars

(* A room that stays warm, by every probe, is let go.                      *)
WarmReleases ==
    <>[](\A p \in WaterProbes : Warm(reading, p)) => <>[]~engaged
=============================================================================
