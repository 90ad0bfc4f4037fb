--------------------------- MODULE MCRelayControl ---------------------------
(* Small installations, read cycles and schedules for RelayControl. *)
EXTENDS RelayControl

V(over, cool, ambient, freeze) ==
    [configured |-> TRUE, over |-> over, cool |-> cool,
     ambient |-> ambient, freeze |-> freeze]

AllWarm   == V({}, Boilers, "clear", "warm")
AllHot    == V(Boilers, {}, "clear", "warm")
FirstHot  == V({1}, {}, "clear", "warm")
HotRoom   == V({}, Boilers, "over", "warm")
Frozen    == V({}, Boilers, "clear", "cold")
HotFrozen == V({1}, {}, "clear", "cold")
Blind     == V({}, {}, "clear", "unreadable")
NoConfig  == [AllWarm EXCEPT !.configured = FALSE]

LimitCycles  == {AllWarm, AllHot}
LiveCycles   == {AllWarm, AllHot, Frozen}
ManyCycles   == {AllWarm, FirstHot, HotRoom, HotFrozen, Frozen, Blind, NoConfig}

AllOn    == [t \in Targets |-> "on"]
AllOff   == [t \in Targets |-> "off"]
OnOff    == {AllOn, AllOff}
FirstOnly == {AllOn, [t \in Targets |-> IF t = 1 THEN "off" ELSE "none"]}
=============================================================================
