------------------------------- MODULE Wiring -------------------------------
(***************************************************************************)
(* How a device learns what it is connected to: the record the server      *)
(* keeps of it (device_record.py), the mapping built from that             *)
(* (record_mapping.py, mapping_schema.py, mapping_provider.py), when it is *)
(* adopted (record_sync.py, main.py), and the relay board that is switched *)
(* by it (relay_controller.py).                                            *)
(*                                                                         *)
(* A number that is missing in a record is No.                             *)
(***************************************************************************)
EXTENDS Integers, Sequences, FiniteSets, FiniteSetsExt, SequencesExt

CONSTANTS
    Records,    \* what the server may say of the device
    Overrides,  \* relay_pin_overrides(): pins the installation insists on
    RELAY_GPIO  \* the pin of each relay of the board

VARIABLES
    server,     \* the server's record
    cached,     \* device_record_cache.json: one record or none
    known,      \* device_record_store.record: one or none
    mapping,    \* RELAYS and TEMPERATURE_SENSORS: one mapping or none
    mapped,     \* history: the record that mapping was built from
    described,      \* state.mapping_ready
    adopting,   \* the step of adopt_device_record: "idle", "saving", "saved"
    lit         \* the relays that are on

wiringVars == <<server, cached, known, mapping, mapped, described, adopting, lit>>

No          == 0

(* What the code takes as given: a unit's key and its index are its own,   *)
(* and a pot's relay hangs on no pump, nor a pump's on a boiler.           *)
ASSUME RecordsAssumption ==
    \A r \in Records :
        /\ \A units \in {r.boilers, r.pumps} :
              \A u, v \in units : /\ u.id # No /\ u.index # No
                                  /\ (u.id = v.id \/ u.index = v.index) => u = v
        /\ IsFiniteSet(DOMAIN r.sensors) /\ IsFiniteSet(DOMAIN r.relays)
        /\ \A i \in DOMAIN r.relays :
              /\ r.relays[i].role = "pot" => r.relays[i].pump = No
              /\ r.relays[i].role = "pump" => r.relays[i].boiler = No

WaterRoles       == {"boiler_input_water", "boiler_output_water", "boiler_body"}
Thermometer == WaterRoles \cup {"environment_inside", "environment_outside"}
Gas         == {"boiler_room", "gas_valve", "exhaust", "gas_leak"}
RelayRoles  == {"pot", "pump", "circulation_pump", "torch", "fan", "gas_valve", "mixer",
                "alarm", "backup_heater", "light"}
MaxPin      == 27

(* ------------------------ from record to mapping ----------------------- *)

(* A slip for IndexOf: the primary key is taken for the index.             *)
KeyAsIndex(units, id) == IF \E u \in units : u.id = id THEN id ELSE No

(* A unit is referred to by its primary key, and addressed by its index.   *)
IndexOf(units, id) ==
    IF \E u \in units : u.id = id THEN (CHOOSE u \in units : u.id = id).index ELSE No

(* _local_key(): the number its key ends in, else its sequence, else where *)
(* it stands.                                                              *)
LocalKey(e, position) ==
    IF e.key # No THEN e.key ELSE IF e.sequence # No THEN e.sequence ELSE position

Enabled(entries)    == {i \in DOMAIN entries : entries[i].enabled}
Keys(entries, some) == {LocalKey(entries[i], i) : i \in some}
KeysApart(entries, some) == Cardinality(Keys(entries, some)) = Cardinality(some)
OfKinds(entries, kinds)  == {i \in Enabled(entries) : entries[i].kind \in kinds}
ByKey(entries, some, Entry(_, _)) ==
    [k \in Keys(entries, some) |->
        Entry(k, entries[CHOOSE i \in some : LocalKey(entries[i], i) = k])]

(* A slip for Ready: a probe without a boiler is let through.              *)
ReadyUnguarded(r) ==
    /\ r.sensors # <<>> /\ r.relays # <<>>
    /\ \A i \in OfKinds(r.sensors, Thermometer \cup Gas) : r.sensors[i].address # No

(* readiness_problems(): there are none.                                   *)
Ready(r) ==
    /\ r.sensors # <<>> /\ r.relays # <<>>
    /\ \A i \in OfKinds(r.sensors, Thermometer \cup Gas) : r.sensors[i].address # No
    /\ \A i \in OfKinds(r.sensors, WaterRoles) :
          \E u \in r.boilers : u.id = r.sensors[i].boiler

Pin(key, relay) == IF key \in DOMAIN Overrides THEN Overrides[key] ELSE relay.gpio

UnitOf(r, relay) ==
    IF relay.boiler # No THEN IndexOf(r.boilers, relay.boiler) ELSE IndexOf(r.pumps, relay.pump)

(* _relay_entry() and _apply_pin_override() have nothing to object to.     *)
Sound(r, key, relay) ==
    /\ relay.gpio # No /\ relay.role \in RelayRoles
    /\ relay.boiler = No \/ relay.pump = No
    /\ relay.boiler # No \/ relay.pump # No => UnitOf(r, relay) # No
    /\ key \in DOMAIN Overrides => Overrides[key] \in 0..MaxPin

ProbesOf(r) == ByKey(r.sensors, OfKinds(r.sensors, Thermometer),
                   LAMBDA k, s : [address |-> s.address, role |-> s.kind,
                                  unit |-> IndexOf(r.boilers, s.boiler)])
RelaysOf(r) == ByKey(r.relays, Enabled(r.relays),
                   LAMBDA k, x : [gpio |-> Pin(k, x), role |-> x.role, unit |-> UnitOf(r, x)])

(* _reject_duplicate_pins(), of the pins as they are after the overrides.  *)
PinsApart(relays) == \A a, b \in DOMAIN relays : relays[a].gpio = relays[b].gpio => a = b

(* mapping_from_record(), which refuses rather than guess, and             *)
(* parse_mapping(), which refuses two probes of one name.                  *)
Mappable(r) ==
    LET sensors == Enabled(r.sensors)
    IN  /\ \A i \in sensors : r.sensors[i].kind \in Thermometer \cup Gas
        /\ KeysApart(r.sensors, OfKinds(r.sensors, Thermometer))
        /\ KeysApart(r.sensors, OfKinds(r.sensors, Gas))
        /\ KeysApart(r.relays, Enabled(r.relays))
        /\ \A i \in Enabled(r.relays) : Sound(r, LocalKey(r.relays[i], i), r.relays[i])
        /\ PinsApart(RelaysOf(r))
        /\ \A i, j \in sensors : r.sensors[i].uid = r.sensors[j].uid => i = j

Usable(r)      == Ready(r) /\ Mappable(r)
MappingFrom(r) == [probes |-> ProbesOf(r), relays |-> RelaysOf(r)]

(* relay_for_target(): the first relay of the right role on that index.    *)
RelayFor(m, type, index) ==
    LET role   == IF type = "boiler" THEN "pot" ELSE "pump"
        driven == {k \in DOMAIN m.relays : m.relays[k].role = role /\ m.relays[k].unit = index}
    IN  IF driven = {} THEN {} ELSE {Min(driven)}

(* ------------------------------- adopting ------------------------------ *)

WiringInit ==
    /\ server \in Records /\ cached = {} /\ known = {} /\ mapping = {} /\ mapped = {}
    /\ described = FALSE /\ adopting = "idle" /\ lit = {}

ServerEdits ==
    /\ server' \in Records
    /\ UNCHANGED <<cached, known, mapping, mapped, described, adopting, lit>>

(* load_device_mapping(): from the record in force, or nothing changes.    *)
Load ==
    IF \E r \in known : Usable(r)
    THEN mapping' = {MappingFrom(r) : r \in known} /\ mapped' = known
    ELSE UNCHANGED <<mapping, mapped>>

(* A slip for FetchRecord: a record that is known is not fetched again.    *)
FetchOnce ==
    /\ adopting = "idle" /\ known = {}
    /\ known' = {server} /\ adopting' = "saving"
    /\ UNCHANGED <<server, cached, mapping, mapped, described, lit>>

(* A fetch by the record loop or after hello, one at a time.               *)
FetchRecord ==
    /\ adopting = "idle"
    /\ known' = {server} /\ adopting' = "saving"
    /\ UNCHANGED <<server, cached, mapping, mapped, described, lit>>

SaveRecord ==
    /\ adopting = "saving"
    /\ cached' = known /\ adopting' = "saved"
    /\ UNCHANGED <<server, known, mapping, mapped, described, lit>>

(* A cache that cannot be written ends this adoption half way.             *)
SaveRecordFails ==
    /\ adopting = "saving" /\ adopting' = "idle"
    /\ UNCHANGED <<server, cached, known, mapping, mapped, described, lit>>

(* adopt_mapping_if_missing(): otherwise the drift is only reported.       *)
AdoptMappingIfMissing ==
    /\ adopting = "saved" /\ adopting' = "idle"
    /\ IF described THEN UNCHANGED <<mapping, mapped>> ELSE Load
    /\ described' = (described \/ \E r \in known : Usable(r))
    /\ UNCHANGED <<server, cached, known, lit>>

(* The command device.restart_service loads the mapping again, in force or *)
(* not.                                                                    *)
ReloadMapping ==
    /\ Load
    /\ UNCHANGED <<server, cached, known, described, adopting, lit>>

(* Whatever the device was doing; relays come up off, and the mapping is   *)
(* built from the cached record before anything else runs.                 *)
Reboot ==
    /\ known' = cached /\ lit' = {} /\ adopting' = "idle"
    /\ described' = (\E r \in cached : Usable(r))
    /\ mapping' = (IF described' THEN {MappingFrom(r) : r \in cached} ELSE {})
    /\ mapped' = (IF described' THEN cached ELSE {})
    /\ UNCHANGED <<server, cached>>

(* The board has its own table of pins and knows no other relays.          *)
Switch(type, index, on) ==
    /\ described
    /\ \E m \in mapping : \E k \in RelayFor(m, type, index) \cap DOMAIN RELAY_GPIO :
          lit' = (IF on THEN lit \cup {k} ELSE lit \ {k})
    /\ UNCHANGED <<server, cached, known, mapping, mapped, described, adopting>>

RecordStep == FetchRecord \/ AdoptMappingIfMissing

WiringNext ==
    \/ ServerEdits \/ Reboot
    \/ RecordStep \/ SaveRecord \/ SaveRecordFails \/ ReloadMapping
    \/ \E type \in {"boiler", "pump"}, index \in 1..2, on \in BOOLEAN : Switch(type, index, on)

WiringSpec == WiringInit /\ [][WiringNext]_wiringVars

(* ------------------------------ properties ----------------------------- *)

Attached(r, role) == {<<LocalKey(r.relays[i], i), r.relays[i]>> :
                         i \in {j \in Enabled(r.relays) : r.relays[j].role = role}}

(* A boiler or pump that the server has a relay attached to is switched by *)
(* such a relay, and by no other: although the record refers to units by   *)
(* one number and the device addresses them by another.                    *)
SwitchesItsOwn ==
    \A r \in mapped, m \in mapping :
        /\ \A u \in r.boilers :
              LET own == {a[1] : a \in {b \in Attached(r, "pot") : b[2].boiler = u.id}}
              IN  RelayFor(m, "boiler", u.index) = IF own = {} THEN {} ELSE {Min(own)}
        /\ \A u \in r.pumps :
              LET own == {a[1] : a \in {b \in Attached(r, "pump") : b[2].pump = u.id}}
              IN  RelayFor(m, "pump", u.index) = IF own = {} THEN {} ELSE {Min(own)}

(* A boiler's over-temperature cut finds every water probe the server has  *)
(* on that boiler: none is left out because its boiler is not known.       *)
EveryProbeGuards ==
    \A r \in mapped, m \in mapping :
        \A i \in OfKinds(r.sensors, WaterRoles) :
            \E u \in r.boilers, k \in DOMAIN m.probes :
                /\ u.id = r.sensors[i].boiler
                /\ m.probes[k] = [address |-> r.sensors[i].address, role |-> r.sensors[i].kind,
                                  unit |-> u.index]

(* A device that could not make out its wiring starts to work, without     *)
(* being restarted, once the server describes it.                          *)
LearnsItsWiring == <>[]Usable(server) => <>[]described

(* record_sync.py, report_mapping_drift(): "The mapping is deliberately    *)
(* *not* swapped underneath a running agent".  So a relay that is on is in *)
(* the mapping, and the schedule and the limits can switch it off.         *)
StaysAtTheSwitch == \A m \in mapping : lit \subseteq DOMAIN m.relays
=============================================================================
