------------------------------ MODULE MCFront ------------------------------
(***************************************************************************)
(* The parts of the device that meet its hardware without sharing state:   *)
(* the relays (RelayControl, small), the panel's driver (Panel), the       *)
(* screens drawn on it (Screens) and the keypad below it (Keypad).  A run  *)
(* follows one of the four; what passes between them is chosen freely by   *)
(* each: commands of the menu, frames, keys.                               *)
(***************************************************************************)
EXTENDS MCRelayControl, Panel, Screens, Keypad

VARIABLE followed

(* Two frames that differ in both halves of the panel, and agree in a row. *)
TwoFrames ==
    {[r \in Rows |-> IF r = 0 THEN 1 ELSE 0],
     [r \in Rows |-> IF r \in {1, Height - 1} THEN 1 ELSE 0]}

FrontInit ==
    /\ followed \in {"relays", "panel", "screens", "keypad"}
    /\ Init /\ PanelInit /\ ScreensInit /\ KeypadInit
    /\ followed # "relays" => demand = AllOff /\ cycle = AllWarm
    /\ followed # "panel" => chip = [set |-> "basic", graphics |-> FALSE, lit |-> FALSE,
                                     y |-> 0, x |-> 0, stale |-> FALSE, ram |-> Empty]

FollowRelays ==
    followed = "relays" /\ Next
        /\ UNCHANGED <<followed, panelVars, screenVars, keypadVars>>
FollowPanel ==
    followed = "panel" /\ PanelNext
        /\ UNCHANGED <<followed, vars, screenVars, keypadVars>>
FollowScreens ==
    followed = "screens" /\ ScreensNext
        /\ UNCHANGED <<followed, vars, panelVars, keypadVars>>
FollowKeypad ==
    followed = "keypad" /\ KeypadNext
        /\ UNCHANGED <<followed, vars, panelVars, screenVars>>

FrontNext == FollowRelays \/ FollowPanel \/ FollowScreens \/ FollowKeypad

(* The menu draws its screen afresh every second; threads run.  Nothing is *)
(* asked of the operator.                                                  *)
OnPanel == followed = "panel"
DriverFairness ==
    /\ WF_panelVars(OnPanel /\ Open)
    /\ WF_panelVars(OnPanel /\ Transfer)
    /\ WF_panelVars(OnPanel /\ Done)
    /\ WF_panelVars(OnPanel /\ Redraw)
    /\ WF_panelVars(OnPanel /\ \E w \in waiting : Flush(w))

FrontSpec ==
    /\ FrontInit
    /\ [][FrontNext]_<<followed, vars, panelVars, screenVars, keypadVars>>
    /\ DriverFairness
=============================================================================
