---------------------------- MODULE MCProgramme ----------------------------
(* A programme of small weeks, what is published, and what is typed. *)
EXTENDS Programme

(* Weeks of two days, days of three slots.                                 *)
Rule(days, from, to, on, units) ==
    [days |-> days, start |-> from, end |-> to, on |-> on, units |-> units]
Exception(date, allDay, from, to, action, units) ==
    [date |-> date, allDay |-> allDay, start |-> from, end |-> to, action |-> action,
     units |-> units]

SomeRules == {Rule(TypedDays(<<1>>), 2, 1, TRUE, {1}), Rule(TypedDays(<<0>>), 1, 2, FALSE, {1, 2}),
              Rule({1}, 0, 2, TRUE, {2}), Rule({1}, 2, 0, TRUE, {1})}
SomeExceptions == {Exception(TypedDate(1, 0), TRUE, AnyTime, AnyTime, "heat_off", {1}),
                   Exception(TypedDate(2, 0), FALSE, 1, AnyTime, "heat_on", {1, 2}),
                   Exception(1, FALSE, 2, 1, "heat_on", {2})}
Documents2 ==
    {[rules |-> <<Rule({0}, 1, 0, TRUE, {1}), Rule({1}, 0, 2, TRUE, {1, 2})>>, exceptions |-> <<>>],
     [rules |-> <<Rule({0, 1}, 2, 1, TRUE, {1})>>,
      exceptions |-> <<[id |-> <<"server", 1>>] @@ Exception(1, FALSE, 0, 2, "", {1}),
                       [id |-> <<"local", 1>>] @@ Exception(3, TRUE, AnyTime, AnyTime, "heat_off", {1})>>]}
PanelRules == {Rule({0, 1}, 1, 0, FALSE, {1, 2})}
PanelEnds  == {[date |-> 1, slot |-> 1], [date |-> 2, slot |-> 2]}
PanelUnits == {{2}}
=============================================================================
