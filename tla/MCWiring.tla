------------------------------ MODULE MCWiring ------------------------------
(* Records of two boilers and a pump, whose numbers are not their indices, *)
(* on a board of three relays, for Wiring.                                 *)
EXTENDS Wiring, TLC

Sensor(uid, key, kind, address, boiler, enabled) ==
    [uid |-> uid, key |-> key, sequence |-> No, kind |-> kind, address |-> address,
     boiler |-> boiler, enabled |-> enabled]
Relay(key, gpio, role, boiler, pump) ==
    [key |-> key, sequence |-> No, gpio |-> gpio, role |-> role, boiler |-> boiler,
     pump |-> pump, enabled |-> TRUE]
FourSensors == <<Sensor("a", 1, "boiler_body", 28, 1, TRUE),
                 Sensor("b", 2, "boiler_output_water", 29, 2, TRUE),
                 Sensor("c", 1, "gas_leak", 3, No, TRUE),
                 Sensor("d", No, "boiler_body", No, 2, FALSE)>>
ThreeRelays == <<Relay(1, 17, "pot", 1, No), Relay(2, 18, "pot", 2, No), Relay(No, 24, "pump", No, 4)>>
OtherRelays == <<Relay(1, 17, "pump", No, 4), Relay(2, 18, "pot", 2, No)>>
Clashing    == <<Relay(1, 17, "pot", 1, No), Relay(4, 18, "light", No, No)>>
RecordOf(sensors, relays) ==
    [boilers |-> {[id |-> 1, index |-> 2], [id |-> 2, index |-> 1]},
     pumps |-> {[id |-> 4, index |-> 2]}, sensors |-> sensors, relays |-> relays]
SixRecords == {RecordOf(FourSensors, ThreeRelays), RecordOf(FourSensors, OtherRelays),
               RecordOf(FourSensors, Clashing), RecordOf(<<>>, ThreeRelays),
               RecordOf([FourSensors EXCEPT ![1].boiler = No], ThreeRelays),
               RecordOf([FourSensors EXCEPT ![2].boiler = 4], ThreeRelays)}
Board   == 1 :> 18 @@ 2 :> 23 @@ 3 :> 24
=============================================================================
