----------------------------- MODULE Programme -----------------------------
(***************************************************************************)
(* What a room's programme says (schedule_runner.py), and the wizards that *)
(* change it at the device (schedule_editor.py, control_menu.py), of which *)
(* every one stands open for minutes while a publish may come in.          *)
(*                                                                         *)
(* A day has Slots slots and a week Week days; a moment is a date, counted *)
(* from a first day of the week, and a slot, both in the schedule's zone.  *)
(* Where an edit goes once it is applied is ScheduleSync's subject.        *)
(***************************************************************************)
EXTENDS Integers, Sequences, FiniteSets, FiniteSetsExt, SequencesExt

CONSTANTS
    Units,              \* boilers and pumps
    Week, Slots,        \* days of a week, slots of a day
    Publishable,        \* documents the server publishes
    TypedRules,         \* rules an operator types
    TypedExceptions,    \* exceptions an operator types
    ChosenRules,        \* rules made on the panel
    ChosenEnds,         \* days and times chosen there for an exception
    ChosenUnits,        \* units chosen there
    MaxPublishes,       \* bound: publishes
    MaxEdits            \* bound: edits made here

VARIABLES
    document,   \* the document in force
    version,    \* schedule_runner.server_version
    revision,   \* schedule_runner.local_revision
    wizard,     \* the editor that is open
    applying,   \* the edit it is applying, and where that stands
    published,  \* publishes so far
    edits       \* edits so far

programmeVars == <<document, version, revision, wizard, applying, published, edits>>

(* _parse_time() takes the times of a day and no other.                    *)
IsRule(r)     == r.start \in 0..(Slots - 1) /\ r.end \in 0..(Slots - 1) /\ r.on \in BOOLEAN
IsList(s)     == s \in Seq(ToSet(s))
IsDocument(d) == /\ d = [rules |-> d.rules, exceptions |-> d.exceptions]
                 /\ IsList(d.rules) /\ IsList(d.exceptions)
                 /\ \A r \in ToSet(d.rules) : IsRule(r)

ASSUME ProgrammeAssumption ==
    /\ Week \in Nat \ {0} /\ Slots \in Nat
    /\ \A d \in Publishable : IsDocument(d)
    /\ \A r \in TypedRules \cup ChosenRules : IsRule(r)

Moments == [date : 0..(2 * Week - 1), slot : 0..(Slots - 1)]
Blank   == [rules |-> <<>>, exceptions |-> <<>>]
AnyTime == -1                   \* start or end left out of an exception

(* ------------------------- what a document says ------------------------ *)

(* A slip for RuleMatches: the tail of the window is today's.              *)
TailIsTodays(r, m) ==
    LET today == m.date % Week
    IN  IF r.start <= r.end
        THEN today \in r.days /\ r.start <= m.slot /\ m.slot < r.end
        ELSE today \in r.days /\ (m.slot >= r.start \/ m.slot < r.end)

(* A window that wraps past midnight belongs to the day it starts on.      *)
RuleMatches(r, m) ==
    LET today == m.date % Week
        yesterday == (today + Week - 1) % Week
    IN  IF r.start <= r.end
        THEN today \in r.days /\ r.start <= m.slot /\ m.slot < r.end
        ELSE \/ today \in r.days /\ m.slot >= r.start
             \/ yesterday \in r.days /\ m.slot < r.end

ExceptionMatches(e, m) ==
    /\ m.date = e.date
    /\ \/ e.allDay \/ (e.start = AnyTime /\ e.end = AnyTime)
       \/ /\ (IF e.start = AnyTime THEN 0 ELSE e.start) <= m.slot
          /\ m.slot < (IF e.end = AnyTime THEN Slots ELSE e.end)

(* parse_schedule(): an exception without an action is passed over.        *)
HasAction(e)  == e.action # ""
WithAction(s) ==
    LET first[n \in 0..Len(s)] ==
            IF n = 0 THEN <<>>
            ELSE IF HasAction(s[n]) THEN Append(first[n - 1], s[n]) ELSE first[n - 1]
    IN  first[Len(s)]
Parsed(d) == [d EXCEPT !.exceptions = WithAction(@)]

TargetsOf(s) == UNION ({r.units : r \in ToSet(s.rules)} \cup {e.units : e \in ToSet(s.exceptions)})

(* What is said in order, each over what was said before.                  *)
Say(states, on, units) == [u \in DOMAIN states |-> IF u \in units THEN on ELSE states[u]]
Over(states, said) ==
    LET after[n \in 0..Len(said)] ==
            IF n = 0 THEN states ELSE Say(after[n - 1], said[n].on, said[n].units)
    IN  after[Len(said)]

(* desired_states(): rules in order over off, then exceptions over rules.  *)
Weekly(rules, m) ==
    [i \in DOMAIN rules |->
        [on |-> rules[i].on, units |-> IF RuleMatches(rules[i], m) THEN rules[i].units ELSE {}]]
Dated(exceptions, m) ==
    [i \in DOMAIN exceptions |->
        [on |-> exceptions[i].action = "heat_on",
         units |-> IF ExceptionMatches(exceptions[i], m) THEN exceptions[i].units ELSE {}]]
Desired(s, m) ==
    Over(Over([u \in TargetsOf(s) |-> FALSE], Weekly(s.rules, m)), Dated(s.exceptions, m))

(* ------------------------------- the edits ----------------------------- *)

(* A run of digits, 1 for the first day of the week; 0 for every day.      *)
TypedDays(digits) ==
    IF digits = <<0>> THEN 0..(Week - 1) ELSE {d - 1 : d \in ToSet(digits)}

(* 0 and 1 are today and tomorrow where the schedule is.                   *)
TypedDate(number, today) == IF number \in {0, 1} THEN today + number ELSE number

Ids(d) == {e.id : e \in ToSet(d.exceptions)}

(* _next_exception_id(): local-N, the smallest N that is free.             *)
NextId(d) == Min({n \in 1..(Len(d.exceptions) + 1) : <<"local", n>> \notin Ids(d)})

AddRule(d, r)      == [d EXCEPT !.rules = Append(@, r)]
AddException(d, e) ==
    [d EXCEPT !.exceptions = Append(@, [id |-> <<"local", NextId(d)>>] @@ e)]

(* A slip for RemoveRule: the number counted from nought.                  *)
RemoveNext(d, n) == [d EXCEPT !.rules = RemoveAt(@, IF n < Len(@) THEN n + 1 ELSE n)]

RemoveRule(d, n)      == [d EXCEPT !.rules = RemoveAt(@, n)]
RemoveException(d, n) == [d EXCEPT !.exceptions = RemoveAt(@, n)]

(* ------------------------------ the wizards ---------------------------- *)
Closed == [kind |-> "none", terminal |-> FALSE, token |-> <<0, 0>>, base |-> Blank,
           shown |-> Blank]
Kinds == {"rule", "exception", "unrule", "unexception"}
Token == <<version, revision>>
NoEdit == [pc |-> "none", edited |-> Blank, number |-> 0, token |-> <<0, 0>>]
NoneApplied == applying.pc = "none"

ProgrammeInit ==
    /\ document = Blank /\ version = 0 /\ revision = 0
    /\ wizard = Closed /\ applying = NoEdit /\ published = 0 /\ edits = 0

(* schedule.apply: replaces the document, local edits and all.             *)
Publish ==
    /\ published < MaxPublishes
    /\ \E d \in Publishable : document' = d
    /\ published' = published + 1
    /\ version' = version + 1 /\ revision' = 0
    /\ UNCHANGED <<wizard, applying, edits>>

(* The token and the document are taken together, and with them the list   *)
(* that is shown.  A removal on the panel goes by the list alone: its      *)
(* token only tells how old the list is.                                   *)
Showing(kind, terminal) ==
    [kind |-> kind, terminal |-> terminal, token |-> Token, base |-> document,
     shown |-> Parsed(document)]

Open(kind, terminal) ==
    /\ wizard.kind = "none" /\ edits < MaxEdits
    /\ wizard' = Showing(kind, terminal)
    /\ UNCHANGED <<document, version, revision, applying, published, edits>>

OpenOnTerminal(kind) == Open(kind, TRUE)

(* The panel does not open a list that is empty.                           *)
OpenOnPanel(kind) ==
    /\ kind = "unrule" => document.rules # <<>>
    /\ kind = "unexception" => Parsed(document).exceptions # <<>>
    /\ Open(kind, FALSE)

(* No unit chosen, an answer that cannot be read, or the cancel key.       *)
Cancel ==
    /\ wizard.kind # "none" /\ NoneApplied /\ wizard' = Closed
    /\ UNCHANGED <<document, version, revision, applying, published, edits>>

Parsing(edited, number) ==
    [pc |-> "parsing", edited |-> edited, number |-> number, token |-> Token]

(* A slip for ApplyLocalEdit: the token is not looked at.                  *)
ApplyUnchecked(edited, number, token) ==
    /\ NoneApplied /\ applying' = Parsing(edited, number)
    /\ UNCHANGED <<document, version, revision, wizard, published, edits>>

(* _apply_local_edit(): not on a schedule that has moved on.  The edited   *)
(* document then goes to a thread to be parsed (which rejects none that    *)
(* the wizards make), and the loop runs on.                                *)
ApplyLocalEdit(edited, number, token) ==
    /\ NoneApplied
    /\ \/ token = Token /\ applying' = Parsing(edited, number) /\ UNCHANGED wizard
       \/ token # Token /\ wizard' = Closed /\ UNCHANGED applying
    /\ UNCHANGED <<document, version, revision, published, edits>>

(* apply_local_document() after the await: whatever is in force by now is  *)
(* replaced, and the token is not looked at again.  The panel then builds  *)
(* its list anew; every other wizard is done.                              *)
Assign ==
    /\ applying.pc = "parsing"
    /\ document' = applying.edited /\ revision' = revision + 1 /\ edits' = edits + 1
    /\ IF wizard.kind \in {"unrule", "unexception"} /\ ~wizard.terminal
       THEN applying' = [applying EXCEPT !.pc = "listing"] /\ UNCHANGED wizard
       ELSE applying' = NoEdit /\ wizard' = Closed
    /\ UNCHANGED <<version, published>>

(* The edit has been saved, evaluated and reported: the panel lists what   *)
(* is in force then, or leaves if that is nothing.                         *)
Relist ==
    /\ applying.pc = "listing"
    /\ applying' = NoEdit
    /\ LET left == IF wizard.kind = "unrule" THEN document.rules
                   ELSE Parsed(document).exceptions
       IN  wizard' = IF left = <<>> THEN Closed ELSE Showing(wizard.kind, wizard.terminal)
    /\ UNCHANGED <<document, version, revision, published, edits>>

(* The terminal asks for days and times, the panel goes through its lists. *)
TypeRule ==
    /\ wizard.kind = "rule" /\ wizard.terminal
    /\ \E r \in TypedRules : ApplyLocalEdit(AddRule(wizard.base, r), 0, wizard.token)

ChooseRule ==
    /\ wizard.kind = "rule" /\ ~wizard.terminal
    /\ \E r \in ChosenRules : ApplyLocalEdit(AddRule(wizard.base, r), 0, wizard.token)

TypeException ==
    /\ wizard.kind = "exception" /\ wizard.terminal
    /\ \E e \in TypedExceptions : ApplyLocalEdit(AddException(wizard.base, e), 0, wizard.token)

(* The panel asks for the day and the time of both ends, and makes of them *)
(* a window of the first day: the last day is dropped.                     *)
ChooseException ==
    /\ wizard.kind = "exception" /\ ~wizard.terminal
    /\ \E from, to \in ChosenEnds, act \in {"heat_on", "heat_off"}, us \in ChosenUnits :
          ApplyLocalEdit(
              AddException(wizard.base,
                  [date |-> from.date, allDay |-> FALSE, start |-> from.slot, end |-> to.slot,
                   action |-> act, units |-> us]),
              0, wizard.token)

(* On a terminal the token is as old as the list the number was read from. *)
RemoveRuleByNumber(n) ==
    /\ wizard.kind = "unrule" /\ wizard.terminal /\ n \in 1..Len(wizard.base.rules)
    /\ ApplyLocalEdit(RemoveRule(wizard.base, n), n, wizard.token)

RemoveExceptionByNumber(n) ==
    /\ wizard.kind = "unexception" /\ wizard.terminal
    /\ n \in 1..Len(wizard.base.exceptions)
    /\ ApplyLocalEdit(RemoveException(wizard.base, n), n, wizard.token)

(* On the panel the token and the document are taken when the removal is   *)
(* confirmed, long after the list was.  A number that is too high by then  *)
(* is an error, and the old list stays.                                    *)
ConfirmRuleRemoval(n) ==
    /\ wizard.kind = "unrule" /\ ~wizard.terminal
    /\ n \in 1..Len(wizard.shown.rules) /\ n <= Len(document.rules)
    /\ ApplyLocalEdit(RemoveRule(document, n), n, Token)

ConfirmExceptionRemoval(n) ==
    /\ wizard.kind = "unexception" /\ ~wizard.terminal
    /\ n \in 1..Len(wizard.shown.exceptions) /\ n <= Len(document.exceptions)
    /\ ApplyLocalEdit(RemoveException(document, n), n, Token)

ProgrammeNext ==
    \/ Publish \/ Cancel \/ Assign \/ Relist
    \/ \E kind \in Kinds : OpenOnTerminal(kind) \/ OpenOnPanel(kind)
    \/ TypeRule \/ ChooseRule \/ TypeException \/ ChooseException
    \/ \E n \in 1..(MaxEdits + 2) :
          \/ RemoveRuleByNumber(n) \/ RemoveExceptionByNumber(n)
          \/ ConfirmRuleRemoval(n) \/ ConfirmExceptionRemoval(n)

ProgrammeSpec == ProgrammeInit /\ [][ProgrammeNext]_programmeVars

(* ------------------------------ properties ----------------------------- *)

(* A rule of hours on the axis of time, and an exception of its day.       *)
Hour(m) == m.date * Slots + m.slot
RuleCovers(r, m) ==
    \E date \in -1..(2 * Week - 1) :
        LET from == date * Slots + r.start
            to   == date * Slots + r.end + (IF r.end < r.start THEN Slots ELSE 0)
        IN  (date + Week) % Week \in r.days /\ Hour(m) \in from..(to - 1)
Said(entries, Covers(_, _), u, m) ==
    {i \in DOMAIN entries : u \in entries[i].units /\ Covers(entries[i], m)}

(* At every moment a unit is to do what the last exception says that       *)
(* covers it, else the last rule, else nothing; a rule past midnight       *)
(* covers the night after the days it names.                               *)
WantedIsLastSaid ==
    \A m \in Moments, u \in Units :
        LET s      == Parsed(document)
            byDate == Said(s.exceptions, ExceptionMatches, u, m)
            byWeek == Said(s.rules, RuleCovers, u, m)
            wanted == u \in DOMAIN Desired(s, m) /\ Desired(s, m)[u]
        IN  wanted = IF byDate # {} THEN s.exceptions[Max(byDate)].action = "heat_on"
                     ELSE byWeek # {} /\ s.rules[Max(byWeek)].on

Without(s, t) == \E i \in DOMAIN s : t = RemoveAt(s, i)

(* One entry more or less, in one of the two lists.                        *)
OneEntry(d, edited) ==
    \/ /\ edited.exceptions = d.exceptions
       /\ Without(d.rules, edited.rules) \/ Without(edited.rules, d.rules)
    \/ /\ edited.rules = d.rules
       /\ Without(d.exceptions, edited.exceptions) \/ Without(edited.exceptions, d.exceptions)

(* An edit made here adds one entry at the end or takes one out of what is *)
(* in force when it takes effect, unless a publish came in while it was    *)
(* parsed: it never undoes one that came in while its wizard was open,     *)
(* which is minutes.                                                       *)
EditIsOneStep ==
    [][ edits' # edits /\ applying.token = Token => OneEntry(document, document') ]_programmeVars

(* The same without the exception: no edit undoes a push                   *)
(* (control_menu.py:1104-1105).                                            *)
NoPushIsUndone == [][ edits' # edits => OneEntry(document, document') ]_programmeVars

Actions(d) == \A e \in ToSet(d.exceptions) : HasAction(e)

(* An edit that removes takes out the entry that stood at that number in   *)
(* the list the operator was reading, and no other: on a terminal unless a *)
(* publish came in while the edit was parsed, on the panel unless one came *)
(* in since the list was built.  Exceptions without an action are not      *)
(* listed, and are taken to be absent here.                                *)
RemovesWhatWasShown ==
    [][ LET n == applying.number IN
            /\ edits' # edits /\ Actions(document) /\ applying.token = Token
            /\ wizard.terminal \/ wizard.token[1] = version
            => /\ wizard.kind = "unrule"
                    => /\ document.rules[n] = wizard.shown.rules[n]
                       /\ document'.rules = RemoveAt(document.rules, n)
               /\ wizard.kind = "unexception"
                    => /\ document.exceptions[n] = wizard.shown.exceptions[n]
                       /\ document'.exceptions = RemoveAt(document.exceptions, n)
      ]_programmeVars

=============================================================================
