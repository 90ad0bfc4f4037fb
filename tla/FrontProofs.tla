---------------------------- MODULE FrontProofs -----------------------------
(***************************************************************************)
(* What is proved of the front of the device.  Keypad: a press is one key  *)
(* at most, for any matrix, any number of presses and any bounce.          *)
(* Screens: for any screens, nothing is chosen that was not to be seen and *)
(* no part of a page is skipped.  Panel: for any frames, the frame the     *)
(* driver believes to be on the glass is on it.                            *)
(***************************************************************************)
EXTENDS Keypad, Screens, Panel, FiniteSetTheorems, SequenceTheorems, NaturalsInduction,
        WellFoundedInduction, TLAPS

(* ------------------------------- Keypad -------------------------------- *)

KeypadTypeOK ==
    /\ contact \in [Matrix -> {"up", "closing", "down", "opening"}]
    /\ pressed \in [Matrix -> Nat] /\ emitted \in [Matrix -> Nat]
    /\ scanner \in [pc : {"idle", "first", "debounce", "second", "held", "settle"},
                    todo : SUBSET RowPins, found : SUBSET Matrix,
                    key : Matrix \cup {NoKey}, unsettled : SUBSET Matrix]
    /\ scanner.pc \in {"debounce", "second", "held"} => scanner.key \in Matrix

Owing(k) == emitted[k] < pressed[k]
Reading  == scanner.pc \in {"first", "debounce", "second"} \/ (scanner.pc = "idle" /\ ~closed)

(* While the thread may report a key, every key that is not at rest owes   *)
(* a press.  The key it has found owes one, and a second one if it is      *)
(* closing anew after the wait began; so what is left after the report is  *)
(* a press of its own.  Once the keys are let go, one that still owes      *)
(* nothing is only opening, and the thread waits for that.                 *)
PressesOK ==
    /\ \A k \in Matrix : emitted[k] <= pressed[k]
    /\ Reading => \A k \in Matrix : contact[k] # "up" => Owing(k)
    /\ scanner.pc = "first" => \A k \in Matrix : scanner.found = {k} => Owing(k)
    /\ scanner.pc \in {"debounce", "second"} =>
          /\ Owing(scanner.key)
          /\ contact[scanner.key] = "closing" /\ scanner.key \notin scanner.unsettled
                => emitted[scanner.key] + 1 < pressed[scanner.key]
    /\ scanner.pc = "second" => scanner.unsettled = {}
    /\ scanner.pc = "held" => \A k \in Matrix : contact[k] = "closing" => Owing(k)
    /\ scanner.pc = "settle" /\ ~closed => \A k \in Matrix :
          /\ contact[k] \in {"closing", "down"} => Owing(k)
          /\ contact[k] = "opening" => Owing(k) \/ k \in scanner.unsettled

LEMMA KeysAreNotNoKey == \A k \in Matrix : k # NoKey
BY DEF Matrix, NoKey

LEMMA OneIsFound ==
    ASSUME NEW found \in SUBSET Matrix, TheOne(found) # NoKey
    PROVE  TheOne(found) \in Matrix /\ found = {TheOne(found)}
<1>1. IsFiniteSet(Matrix)
  BY KeypadAssumption, FS_Product DEF Matrix
<1>2. IsFiniteSet(found)
  BY <1>1, FS_Subset
<1>3. Cardinality(found) = 1
  BY DEF TheOne
<1>4. PICK k : found = {k}
  BY <1>2, <1>3, FS_Singleton
<1>5. TheOne(found) = k
  BY <1>3, <1>4 DEF TheOne
<1>6. QED
  BY <1>4, <1>5

(* Ghosts come in company: a row in which one column reads LOW has that    *)
(* key bridged.                                                            *)
LEMMA AloneIsReal ==
    ASSUME NEW r, NEW c, NEW bridged, {c} \in Lows(r, bridged)
    PROVE  <<r, c>> \in bridged
<1>1. c \in Direct(r, bridged)
  <2> SUFFICES ASSUME c \notin Direct(r, bridged) PROVE FALSE
    OBVIOUS
  <2>1. Through(r, bridged, c) \cap {c} # {}
    BY DEF Lows
  <2>2. c \in Through(r, bridged, c)
    BY <2>1
  <2>3. QED
    BY <2>2 DEF Through
<1>2. QED
  BY <1>1 DEF Direct

LEMMA BridgedMoves ==
    ASSUME KeypadTypeOK, NEW bridged \in Bridged, NEW k \in bridged
    PROVE  k \in Matrix /\ contact[k] # "up"
BY DEF Bridged, Bouncing

LEMMA ResetTo ==
    ASSUME NEW pc
    PROVE  /\ At(pc).pc = pc /\ At(pc).todo = {} /\ At(pc).found = {} /\ At(pc).unsettled = {}
           /\ pc \in {"idle", "first", "debounce", "second", "held", "settle"} =>
                 At(pc) \in [pc : {"idle", "first", "debounce", "second", "held", "settle"},
                    todo : SUBSET RowPins, found : SUBSET Matrix,
                    key : Matrix \cup {NoKey}, unsettled : SUBSET Matrix]
BY DEF At

LEMMA PressKeeps ==
    ASSUME KeypadTypeOK, PressesOK, NEW k \in Matrix, Press(k)
    PROVE  KeypadTypeOK' /\ PressesOK'
<1>1. /\ contact[k] = "up" /\ contact' = [contact EXCEPT ![k] = "closing"]
      /\ pressed' = [pressed EXCEPT ![k] = @ + 1]
      /\ scanner' = scanner /\ closed' = closed /\ emitted' = emitted
  BY DEF Press
<1>2. KeypadTypeOK'
  BY <1>1 DEF KeypadTypeOK
<1>3. /\ emitted[k] <= pressed[k] /\ pressed'[k] = pressed[k] + 1 /\ contact'[k] = "closing"
      /\ pressed[k] \in Nat /\ emitted[k] \in Nat
      /\ \A j \in Matrix : j # k => contact'[j] = contact[j] /\ pressed'[j] = pressed[j]
  BY <1>1 DEF KeypadTypeOK, PressesOK
<1>4. Owing(k)' /\ \A j \in Matrix : Owing(j) => Owing(j)'
  BY <1>1, <1>3 DEF Owing, KeypadTypeOK
<1>5. PressesOK'
  BY <1>1, <1>3, <1>4 DEF KeypadTypeOK, PressesOK, Owing, Reading
<1>6. QED
  BY <1>2, <1>5

LEMMA ReleaseKeeps ==
    ASSUME KeypadTypeOK, PressesOK, NEW k \in Matrix, LiftKey(k)
    PROVE  KeypadTypeOK' /\ PressesOK'
BY DEF LiftKey, KeypadTypeOK, PressesOK, Owing, Reading

LEMMA SettleKeeps ==
    ASSUME KeypadTypeOK, PressesOK, NEW k \in Matrix, ContactSettles(k)
    PROVE  KeypadTypeOK' /\ PressesOK'
<1>1. /\ contact[k] \in {"closing", "opening"}
      /\ contact' = [contact EXCEPT ![k] = IF @ = "closing" THEN "down" ELSE "up"]
      /\ scanner' = [scanner EXCEPT !.unsettled = @ \ {k}]
      /\ closed' = closed /\ pressed' = pressed /\ emitted' = emitted
  BY DEF ContactSettles
<1>2. /\ scanner'.pc = scanner.pc /\ scanner'.found = scanner.found
      /\ scanner'.key = scanner.key /\ scanner'.todo = scanner.todo
      /\ scanner'.unsettled = scanner.unsettled \ {k}
      /\ scanner' \in [pc : {"idle", "first", "debounce", "second", "held", "settle"},
                    todo : SUBSET RowPins, found : SUBSET Matrix,
                    key : Matrix \cup {NoKey}, unsettled : SUBSET Matrix]
  BY <1>1 DEF KeypadTypeOK
<1>3. /\ contact'[k] \in {"up", "down"} /\ (contact'[k] = "down" => contact[k] = "closing")
      /\ \A j \in Matrix : j # k => contact'[j] = contact[j]
      /\ contact' \in [Matrix -> {"up", "closing", "down", "opening"}]
  BY <1>1 DEF KeypadTypeOK
<1>4. KeypadTypeOK'
  BY <1>1, <1>2, <1>3 DEF KeypadTypeOK
<1>5. PressesOK'
  BY <1>1, <1>2, <1>3 DEF PressesOK, Owing, Reading, KeypadTypeOK
<1>6. QED
  BY <1>4, <1>5

LEMMA ScanRowKeeps ==
    ASSUME KeypadTypeOK, PressesOK, ScanRow
    PROVE  KeypadTypeOK' /\ PressesOK'
<1>0. PICK r \in scanner.todo, bridged \in Bridged : \E low \in Lows(r, bridged) :
         scanner' = [scanner EXCEPT !.todo = @ \ {r},
                                    !.found = @ \cup {<<r, c>> : c \in low}]
  BY DEF ScanRow
<1>1. PICK low \in Lows(r, bridged) :
         scanner' = [scanner EXCEPT !.todo = @ \ {r},
                                    !.found = @ \cup {<<r, c>> : c \in low}]
  BY <1>0
<1> DEFINE row == {<<r, c>> : c \in low}
<1>2. scanner.pc \in {"first", "second"} /\ UNCHANGED <<contact, closed, pressed, emitted>>
  BY DEF ScanRow
<1>3. low \subseteq ColPins /\ row \subseteq Matrix
  BY DEF Lows, KeypadTypeOK, Matrix
<1>4. /\ scanner'.pc = scanner.pc /\ scanner'.found = scanner.found \cup row
      /\ scanner'.key = scanner.key /\ scanner'.unsettled = scanner.unsettled
      /\ scanner' \in [pc : {"idle", "first", "debounce", "second", "held", "settle"},
                    todo : SUBSET RowPins, found : SUBSET Matrix,
                    key : Matrix \cup {NoKey}, unsettled : SUBSET Matrix]
  BY <1>1, <1>3 DEF KeypadTypeOK
<1>5. ASSUME NEW k \in Matrix, row = {k} PROVE Owing(k) \/ scanner.pc # "first"
  <2>1. PICK c \in low : k = <<r, c>>
    BY <1>5
  <2>2. low = {c}
    <3>1. ASSUME NEW d \in low PROVE d = c
      <4>1. <<r, d>> = <<r, c>>
        BY <1>5, <2>1
      <4>2. QED
        BY <4>1
    <3>2. QED
      BY <3>1
  <2>3. k \in bridged
    BY <2>1, <2>2, AloneIsReal
  <2>4. contact[k] # "up"
    BY <2>3, BridgedMoves
  <2>5. QED
    BY <2>4 DEF PressesOK, Reading
<1>6. ASSUME NEW k \in Matrix, scanner.found \cup row = {k}, scanner.pc = "first"
      PROVE  Owing(k)
  <2>1. CASE scanner.found = {k}
    BY <1>6, <2>1 DEF PressesOK
  <2>2. CASE scanner.found = {}
    BY <1>5, <1>6, <2>2
  <2>3. QED
    BY <1>6, <2>1, <2>2
<1> HIDE DEF row
<1>7. KeypadTypeOK'
  BY <1>2, <1>4 DEF KeypadTypeOK
<1>8. PressesOK'
  BY <1>2, <1>4, <1>6 DEF PressesOK, Owing, Reading
<1>9. QED
  BY <1>7, <1>8

LEMMA LookKeeps ==
    ASSUME KeypadTypeOK, PressesOK, Look
    PROVE  KeypadTypeOK' /\ PressesOK'
<1>1. /\ scanner.pc = "idle" /\ ~closed /\ UNCHANGED <<contact, closed, pressed, emitted>>
      /\ scanner' = [At("first") EXCEPT !.todo = RowPins] \/ scanner' = At("idle")
  BY DEF Look
<1>2. /\ scanner'.pc \in {"first", "idle"} /\ scanner'.found = {}
      /\ scanner' \in [pc : {"idle", "first", "debounce", "second", "held", "settle"},
                    todo : SUBSET RowPins, found : SUBSET Matrix,
                    key : Matrix \cup {NoKey}, unsettled : SUBSET Matrix]
  BY <1>1, ResetTo
<1>3. QED
  BY <1>1, <1>2 DEF KeypadTypeOK, PressesOK, Owing, Reading

LEMMA FoundKeeps ==
    ASSUME KeypadTypeOK, PressesOK, Found
    PROVE  KeypadTypeOK' /\ PressesOK'
<1>1. /\ scanner.pc = "first" /\ scanner.found \subseteq Matrix
      /\ UNCHANGED <<contact, closed, pressed, emitted>>
  BY DEF Found, KeypadTypeOK
<1>2. CASE TheOne(scanner.found) = NoKey
  <2>1. scanner' = At("idle")
    BY <1>2 DEF Found
  <2>2. QED
    BY <1>1, <2>1, ResetTo DEF KeypadTypeOK, PressesOK, Owing, Reading
<1>3. CASE TheOne(scanner.found) # NoKey
  <2> DEFINE k == TheOne(scanner.found)
  <2>1. k \in Matrix /\ scanner.found = {k}
    BY <1>1, <1>3, OneIsFound
  <2> HIDE DEF k
  <2>2. scanner' = [At("debounce") EXCEPT !.key = k, !.unsettled = Bouncing]
    BY <1>3 DEF Found, k
  <2>3. Bouncing \subseteq Matrix
    BY DEF Bouncing
  <2>4. /\ scanner'.pc = "debounce" /\ scanner'.key = k /\ scanner'.unsettled = Bouncing
        /\ scanner' \in [pc : {"idle", "first", "debounce", "second", "held", "settle"},
                    todo : SUBSET RowPins, found : SUBSET Matrix,
                    key : Matrix \cup {NoKey}, unsettled : SUBSET Matrix]
    BY <2>1, <2>2, <2>3, ResetTo DEF At
  <2>5. Owing(k)
    BY <1>1, <2>1 DEF PressesOK
  <2>6. contact[k] = "closing" => k \in Bouncing
    BY <2>1 DEF Bouncing
  <2>7. KeypadTypeOK'
    BY <1>1, <2>1, <2>4 DEF KeypadTypeOK
  <2>8. PressesOK'
    BY <1>1, <2>1, <2>4, <2>5, <2>6 DEF PressesOK, Owing, Reading
  <2>9. QED
    BY <2>7, <2>8
<1>4. QED
  BY <1>2, <1>3

LEMMA DebouncedKeeps ==
    ASSUME KeypadTypeOK, PressesOK, Debounced
    PROVE  KeypadTypeOK' /\ PressesOK'
<1>1. /\ scanner.pc = "debounce" /\ scanner.unsettled = {}
      /\ scanner' = [scanner EXCEPT !.pc = "second", !.todo = RowPins]
      /\ UNCHANGED <<contact, closed, pressed, emitted>>
  BY DEF Debounced
<1>2. /\ scanner'.pc = "second" /\ scanner'.key = scanner.key /\ scanner'.unsettled = {}
      /\ scanner' \in [pc : {"idle", "first", "debounce", "second", "held", "settle"},
                    todo : SUBSET RowPins, found : SUBSET Matrix,
                    key : Matrix \cup {NoKey}, unsettled : SUBSET Matrix]
  BY <1>1 DEF KeypadTypeOK
<1>3. QED
  BY <1>1, <1>2 DEF KeypadTypeOK, PressesOK, Owing, Reading

LEMMA ConfirmKeeps ==
    ASSUME KeypadTypeOK, PressesOK, Confirm
    PROVE  KeypadTypeOK' /\ PressesOK'
<1> DEFINE k == scanner.key
<1>1. scanner.pc = "second" /\ k \in Matrix /\ UNCHANGED <<contact, closed, pressed>>
  BY DEF Confirm, KeypadTypeOK
<1>2. CASE TheOne(scanner.found) = k
  <2>1. /\ emitted' = [emitted EXCEPT ![k] = @ + 1]
        /\ scanner' = [At("held") EXCEPT !.key = k]
    BY <1>2 DEF Confirm
  <2> HIDE DEF k
  <2>2. /\ scanner'.pc = "held" /\ scanner'.key = k
        /\ scanner' \in [pc : {"idle", "first", "debounce", "second", "held", "settle"},
                    todo : SUBSET RowPins, found : SUBSET Matrix,
                    key : Matrix \cup {NoKey}, unsettled : SUBSET Matrix]
    BY <1>1, <2>1, ResetTo DEF At
  <2>3. KeypadTypeOK'
    BY <1>1, <2>1, <2>2 DEF KeypadTypeOK
  <2>4. /\ Owing(k) /\ (contact[k] = "closing" => emitted[k] + 1 < pressed[k])
        /\ emitted[k] \in Nat /\ pressed[k] \in Nat
    BY <1>1 DEF PressesOK, KeypadTypeOK, k
  <2>5. /\ emitted'[k] = emitted[k] + 1 /\ \A j \in Matrix : j # k => emitted'[j] = emitted[j]
    BY <1>1, <2>1 DEF KeypadTypeOK
  <2>6. \A j \in Matrix : emitted'[j] <= pressed'[j]
    BY <1>1, <2>4, <2>5 DEF PressesOK, Owing
  <2>7. \A j \in Matrix : contact'[j] = "closing" => Owing(j)'
    BY <1>1, <2>4, <2>5 DEF PressesOK, Owing, Reading
  <2>8. PressesOK'
    BY <2>2, <2>6, <2>7 DEF PressesOK, Reading
  <2>9. QED
    BY <2>3, <2>8
<1>3. CASE TheOne(scanner.found) # k
  <2>1. scanner' = At("idle") /\ emitted' = emitted
    BY <1>3 DEF Confirm
  <2>2. QED
    BY <1>1, <2>1, ResetTo DEF KeypadTypeOK, PressesOK, Owing, Reading
<1>4. QED
  BY <1>2, <1>3

LEMMA LetGoKeeps ==
    ASSUME KeypadTypeOK, PressesOK, LetGo
    PROVE  KeypadTypeOK' /\ PressesOK'
<1>1. /\ scanner.pc = "held" /\ (closed \/ {} \in Bridged)
      /\ scanner' = [At("settle") EXCEPT !.unsettled = Bouncing]
      /\ UNCHANGED <<contact, closed, pressed, emitted>>
  BY DEF LetGo
<1>2. Bouncing \subseteq Matrix
  BY DEF Bouncing
<1>3. /\ scanner'.pc = "settle" /\ scanner'.unsettled = Bouncing
      /\ scanner' \in [pc : {"idle", "first", "debounce", "second", "held", "settle"},
                    todo : SUBSET RowPins, found : SUBSET Matrix,
                    key : Matrix \cup {NoKey}, unsettled : SUBSET Matrix]
  BY <1>1, <1>2, ResetTo DEF At
<1>4. ~closed => \A k \in Matrix : contact[k] # "down"
  BY <1>1 DEF Bridged
<1>5. \A k \in Matrix : contact[k] = "opening" => k \in Bouncing
  BY DEF Bouncing
<1>6. KeypadTypeOK'
  BY <1>1, <1>3 DEF KeypadTypeOK
<1>7. PressesOK'
  BY <1>1, <1>3, <1>4, <1>5 DEF PressesOK, Owing, Reading
<1>8. QED
  BY <1>6, <1>7

LEMMA SettledKeeps ==
    ASSUME KeypadTypeOK, PressesOK, Settled
    PROVE  KeypadTypeOK' /\ PressesOK'
<1>1. /\ scanner.pc = "settle" /\ (scanner.unsettled = {} \/ closed)
      /\ scanner' = At("idle") /\ UNCHANGED <<contact, closed, pressed, emitted>>
  BY DEF Settled
<1>2. ~closed => \A k \in Matrix : contact[k] # "up" => Owing(k)
  BY <1>1 DEF KeypadTypeOK, PressesOK
<1>3. QED
  BY <1>1, <1>2, ResetTo DEF KeypadTypeOK, PressesOK, Owing, Reading

LEMMA KeypadStep == KeypadTypeOK /\ PressesOK /\ [KeypadNext]_keypadVars
                    => KeypadTypeOK' /\ PressesOK'
<1> SUFFICES ASSUME KeypadTypeOK, PressesOK, [KeypadNext]_keypadVars
             PROVE  KeypadTypeOK' /\ PressesOK'
  OBVIOUS
<1>1. ASSUME NEW k \in Matrix, Press(k) \/ LiftKey(k) \/ ContactSettles(k)
      PROVE  KeypadTypeOK' /\ PressesOK'
  BY <1>1, PressKeeps, ReleaseKeeps, SettleKeeps
<1>2. CASE CloseKeypad
  BY <1>2 DEF CloseKeypad, KeypadTypeOK, PressesOK, Owing, Reading
<1>3. CASE UNCHANGED keypadVars
  BY <1>3 DEF keypadVars, KeypadTypeOK, PressesOK, Owing, Reading
<1>4. QED
  BY <1>1, <1>2, <1>3, LookKeeps, ScanRowKeeps, FoundKeeps, DebouncedKeeps, ConfirmKeeps,
     LetGoKeeps, SettledKeeps DEF KeypadNext

(* A press is one key at most and no key is reported that was not pressed, *)
(* for any matrix and any number of presses.                               *)
THEOREM NoKeyTwice == KeypadSpec => []OneKeyPerPress
<1>1. KeypadInit => KeypadTypeOK /\ PressesOK
  BY ResetTo DEF KeypadInit, KeypadTypeOK, PressesOK, Owing, Reading
<1>2. KeypadTypeOK /\ PressesOK => OneKeyPerPress
  BY DEF PressesOK, OneKeyPerPress
<1>3. QED
  BY <1>1, <1>2, KeypadStep, PTL DEF KeypadSpec

(* ------------------------------- Screens ------------------------------- *)

Widgets == [kind : Kinds \cup {"none"}, total : Nat, index : Nat, top : Nat, text : Nat,
            ticked : SUBSET Nat, covered : BOOLEAN]
View(u) == [kind |-> u.kind, top |-> u.top, index |-> u.index]
Glass   == [kind : Kinds, top : Nat, index : Nat] \cup {Saver, [None EXCEPT !.kind = "splash"]}
Presses == [key : Keys, saw : Glass, inStep : BOOLEAN]

ScreensTypeOK ==
    /\ ui \in Widgets /\ phase \in {"draw", "wait", "read"} /\ glass \in Glass
    /\ idle \in BOOLEAN /\ keys \in Seq(Presses)
    /\ ui.kind \in Lists => ui.index < ui.total
    /\ phase = "read" => ui.kind \notin {"none", "status"}
    /\ ui.kind = "none" => phase = "draw"

(* Once it is drawn a widget is on the glass, or the saver is, and so is   *)
(* the row that is highlighted.  Only the key that is read next can have   *)
(* been pressed in step, and then the glass is as it was.                  *)
InStepOK ==
    /\ phase # "draw" => glass = Saver \/ glass = View(ui)
    /\ phase # "draw" /\ ui.kind \in Lists => ui.index \in Window(ui, ui.total)
    /\ \A i \in 1 .. Len(keys) : i # 1 => ~keys[i].inStep
    /\ keys # <<>> /\ keys[1].inStep /\ ui.kind # "status" => phase # "draw" /\ keys[1].saw = glass

UpTo(u, n) == {p \in 0 .. (u.total - 1) : p < n}

(* A page was on the glass from its first line to the last of its window,  *)
(* or, before that is drawn, to the line above it.                         *)
PageOK ==
    ui.kind = "page" /\ ~ui.covered =>
        /\ lines \subseteq 0 .. (ui.total - 1)
        /\ UpTo(ui, ui.top) \subseteq lines
        /\ phase # "draw" => UpTo(ui, ui.top + BodyRows) \subseteq lines
        /\ phase = "draw" /\ idle => lines = {} \/ UpTo(ui, ui.top + BodyRows) \subseteq lines

ScreensOK == ScreensTypeOK /\ InStepOK /\ PageOK

LEMMA Bounds ==
    ASSUME NEW a \in Int, NEW b \in Int
    PROVE  /\ LeastOf(a, b) \in Int /\ LeastOf(a, b) <= a /\ LeastOf(a, b) <= b
           /\ LeastOf(a, b) \in {a, b}
           /\ MostOf(a, b) \in Int /\ MostOf(a, b) >= a /\ MostOf(a, b) >= b
           /\ MostOf(a, b) \in {a, b}
BY DEF LeastOf, MostOf

LEMMA Remainder ==
    ASSUME NEW a \in Int, NEW n \in Nat, n # 0
    PROVE  a % n \in Nat /\ a % n < n
OBVIOUS

LEMMA Furthest ==
    ASSUME NEW u \in Widgets
    PROVE  Limit(u) \in Nat /\ u.total <= Limit(u) + BodyRows
           /\ (Limit(u) = 0 \/ Limit(u) = u.total - BodyRows)
BY ScreensAssumption DEF Limit, MostOf, Widgets

(* _follow() leaves the selection in the window, and changes nothing else. *)
LEMMA FollowShows ==
    ASSUME NEW u \in Widgets, u.index < u.total
    PROVE  \E top \in Nat : /\ Follow(u) = [u EXCEPT !.top = top]
                            /\ top <= u.index /\ u.index < top + BodyRows
<1> DEFINE top == CASE u.index < u.top             -> u.index
                    [] u.index >= u.top + BodyRows -> u.index - BodyRows + 1
                    [] OTHER                       -> u.top
           last == Limit(u)
<1>1. u.index \in Nat /\ u.top \in Nat /\ u.total \in Nat /\ BodyRows \in Nat \ {0}
  BY ScreensAssumption DEF Widgets
<1>2. top \in Nat /\ top <= u.index /\ u.index < top + BodyRows
  BY <1>1
<1>3. last \in Nat /\ u.total <= last + BodyRows
  BY Furthest
<1>4. Follow(u) = [u EXCEPT !.top = MostOf(0, LeastOf(top, last))]
  BY DEF Follow
<1> HIDE DEF top, last
<1>5. LET t == MostOf(0, LeastOf(top, last))
      IN  t \in Nat /\ t <= u.index /\ u.index < t + BodyRows
  BY <1>1, <1>2, <1>3 DEF MostOf, LeastOf
<1>6. QED
  BY <1>4, <1>5

LEMMA ScrollKeeps ==
    ASSUME NEW u \in Widgets, u.index < u.total, NEW k
    PROVE  LET v == Scroll(u, k)
           IN  v \in Widgets /\ v.kind = u.kind /\ v.total = u.total /\ v.index < v.total
<1> DEFINE i == IF k = "up" THEN (u.index - 1 + u.total) % u.total ELSE (u.index + 1) % u.total
<1>1. u.index \in Nat /\ u.total \in Nat /\ u.total # 0
  BY DEF Widgets
<1>2. u.index - 1 + u.total \in Int /\ u.index + 1 \in Int
  BY <1>1
<1>3. i \in Nat /\ i < u.total
  BY <1>1, <1>2, Remainder
<1> HIDE DEF i
<1>4. Scroll(u, k) = [u EXCEPT !.index = i]
  BY DEF Scroll, i
<1>5. QED
  BY <1>3, <1>4 DEF Widgets

LEMMA RollKeeps ==
    ASSUME NEW u \in Widgets, NEW k
    PROVE  \E top \in Nat : Roll(u, k) = [u EXCEPT !.top = top] /\ top <= u.top + BodyRows
<1> DEFINE top == IF k = "up" THEN MostOf(0, u.top - 1) ELSE LeastOf(Limit(u), u.top + 1)
<1>1. u.top \in Nat /\ BodyRows \in Nat \ {0} /\ Limit(u) \in Nat
  BY ScreensAssumption, Furthest DEF Widgets
<1>2. top \in Nat /\ top <= u.top + BodyRows
  BY <1>1 DEF MostOf, LeastOf
<1>3. Roll(u, k) = [u EXCEPT !.top = top]
  BY DEF Roll
<1>4. QED
  BY <1>2, <1>3

LEMMA NoWidget == None \in Widgets /\ None.kind = "none"
BY DEF None, Widgets

(* What a key makes of the widget that reads it.                           *)
LEMMA HandleKeeps ==
    ASSUME NEW u \in Widgets, NEW k \in Keys, u.kind \notin {"none", "status"},
           u.kind \in Lists => u.index < u.total
    PROVE  /\ Handle(u, k) \in Widgets /\ Handle(u, k).kind \in {u.kind, "none"}
           /\ Handle(u, k).kind \in Lists => Handle(u, k).index < Handle(u, k).total
           /\ u.kind = "page" =>
                 \/ Handle(u, k) = None /\ (k = "enter" => u.top >= Limit(u))
                 \/ \E top \in Nat : /\ Handle(u, k) = [u EXCEPT !.top = top]
                                     /\ top <= u.top + BodyRows
<1>1. /\ u.kind \in Kinds /\ u.top \in Nat /\ u.index \in Nat /\ u.text \in Nat
      /\ BodyRows \in Nat \ {0} /\ MaxLength \in Nat
  BY ScreensAssumption DEF Widgets
<1>2. CASE u.kind = "list"
  <2>1. Handle(u, k) = ListKey(u, k)
    BY <1>2 DEF Handle
  <2>2. ListKey(u, k) \in {Scroll(u, k), None, u}
    BY DEF ListKey
  <2>3. QED
    BY <1>2, <2>1, <2>2, ScrollKeeps, NoWidget DEF Lists
<1>3. CASE u.kind = "boxes"
  <2>1. Handle(u, k) = BoxKey(u, k)
    BY <1>3 DEF Handle
  <2>2. BoxKey(u, k) \in {Scroll(u, k), ToggleBox(u), None, u}
    BY DEF BoxKey
  <2>3. /\ ToggleBox(u) \in Widgets /\ ToggleBox(u).kind = u.kind
        /\ ToggleBox(u).index = u.index /\ ToggleBox(u).total = u.total
    BY <1>1 DEF ToggleBox, Widgets
  <2>4. QED
    BY <1>3, <2>1, <2>2, <2>3, ScrollKeeps, NoWidget DEF Lists
<1>4. CASE u.kind = "page"
  <2>1. Handle(u, k) = PageKey(u, k)
    BY <1>4 DEF Handle
  <2>2. \/ Handle(u, k) = None /\ (k = "enter" => u.top >= Limit(u))
        \/ \E top \in Nat : /\ Handle(u, k) = [u EXCEPT !.top = top]
                            /\ top <= u.top + BodyRows
    <3>1. CASE k \in {"up", "down"}
      BY <2>1, <3>1, RollKeeps DEF PageKey
    <3>2. CASE k = "cancel"
      BY <2>1, <3>2 DEF PageKey
    <3>3. CASE k = "enter" /\ u.top >= Limit(u)
      BY <2>1, <3>3 DEF PageKey
    <3>4. CASE k = "enter" /\ ~(u.top >= Limit(u))
      <4>1. Handle(u, k) = [u EXCEPT !.top = LeastOf(Limit(u), u.top + BodyRows)]
        BY <2>1, <3>4 DEF PageKey
      <4>2. /\ LeastOf(Limit(u), u.top + BodyRows) \in Nat
            /\ LeastOf(Limit(u), u.top + BodyRows) <= u.top + BodyRows
        BY <1>1, Furthest DEF LeastOf
      <4>3. QED
        BY <4>1, <4>2
    <3>5. CASE k \notin {"up", "down", "cancel", "enter"}
      <4>1. Handle(u, k) = u
        BY <2>1, <3>5 DEF PageKey
      <4>2. u = [u EXCEPT !.top = u.top]
        BY DEF Widgets
      <4>3. QED
        BY <1>1, <4>1, <4>2
    <3>6. QED
      BY <3>1, <3>2, <3>3, <3>4, <3>5
  <2>3. QED
    BY <1>4, <2>2, NoWidget DEF Widgets, Lists
<1>5. CASE u.kind = "watch"
  <2>1. Handle(u, k) = WatchKey(u, k)
    BY <1>5 DEF Handle
  <2>2. WatchKey(u, k) \in {Roll(u, k), None}
    BY DEF WatchKey
  <2>3. Roll(u, k) \in Widgets /\ Roll(u, k).kind = u.kind
    BY RollKeeps DEF Widgets
  <2>4. QED
    BY <1>5, <2>1, <2>2, <2>3, NoWidget DEF Lists
<1>6. CASE u.kind = "line"
  <2>1. Handle(u, k) = LineKey(u, k)
    BY <1>6 DEF Handle
  <2>2. LineKey(u, k) \in {None, [u EXCEPT !.text = Feed(u.text, k)]}
    BY DEF LineKey
  <2>3. Feed(u.text, k) \in Nat
    BY <1>1 DEF Feed, MostOf, LeastOf
  <2>4. QED
    BY <1>6, <2>1, <2>2, <2>3, NoWidget DEF Widgets, Lists
<1>7. QED
  BY <1>1, <1>2, <1>3, <1>4, <1>5, <1>6 DEF Kinds, Lists

LEMMA OpenScreenKeeps ==
    ASSUME ScreensOK, OpenScreen
    PROVE  ScreensOK'
<1>1. /\ ui.kind = "none" /\ phase' = "draw" /\ lines' = {}
      /\ UNCHANGED <<glass, idle, keys>>
      /\ \E kind \in Kinds, total \in Totals, index \in 0 .. 2 :
            index < total /\ ui' = [None EXCEPT !.kind = kind, !.total = total, !.index = index]
  BY DEF OpenScreen
<1>2. PICK kind \in Kinds, total \in Totals, index \in 0 .. 2 :
         index < total /\ ui' = [None EXCEPT !.kind = kind, !.total = total, !.index = index]
  BY <1>1
<1>3. /\ ui' \in Widgets /\ ui'.kind \in Kinds /\ ui'.index < ui'.total /\ ui'.top = 0
      /\ ui'.total \in Nat
  <2>1. total \in Nat /\ index \in Nat /\ index < total
    BY <1>2, ScreensAssumption
  <2>2. ui' = [kind |-> kind, total |-> total, index |-> index, top |-> 0, text |-> 0,
               ticked |-> {}, covered |-> FALSE]
    BY <1>2 DEF None
  <2>3. QED
    BY <2>1, <2>2 DEF Widgets
<1>4. ScreensTypeOK'
  BY <1>1, <1>3 DEF ScreensOK, ScreensTypeOK, Kinds, Lists
<1>5. InStepOK'
  BY <1>1 DEF ScreensOK, InStepOK, ScreensTypeOK
<1>6. PageOK'
  BY <1>1, <1>3 DEF PageOK, UpTo
<1>7. QED
  BY <1>4, <1>5, <1>6 DEF ScreensOK

LEMMA DrawScreenKeeps ==
    ASSUME ScreensOK, DrawScreen
    PROVE  ScreensOK'
<1>1. PICK total \in IF ui.kind = "watch" THEN Totals ELSE {ui.total} :
          LET sized == [ui EXCEPT !.total = total, !.covered = @ \/ (idle /\ lines = {})]
              now   == CASE ui.kind \in Lists  -> Follow(sized)
                         [] ui.kind = "watch"  -> [sized EXCEPT !.top = LeastOf(@, Limit(sized))]
                         [] OTHER              -> sized
              view  == [kind |-> now.kind, top |-> now.top, index |-> now.index]
          IN  /\ ui' = now
              /\ glass' = IF idle THEN Saver ELSE view
              /\ lines' = IF idle THEN lines ELSE lines \cup Window(now, now.total)
  BY DEF DrawScreen
<1> DEFINE sized == [ui EXCEPT !.total = total, !.covered = @ \/ (idle /\ lines = {})]
           now   == CASE ui.kind \in Lists  -> Follow(sized)
                      [] ui.kind = "watch"  -> [sized EXCEPT !.top = LeastOf(@, Limit(sized))]
                      [] OTHER              -> sized
<1>2. /\ ui.kind # "none" /\ phase = "draw" /\ phase' = "wait" /\ UNCHANGED <<idle, keys>>
      /\ ui \in Widgets /\ idle \in BOOLEAN
  BY DEF DrawScreen, ScreensOK, ScreensTypeOK
<1>3. total \in Nat /\ (ui.kind # "watch" => total = ui.total)
  BY <1>2, ScreensAssumption DEF Widgets
<1>4. /\ sized \in Widgets /\ sized.kind = ui.kind /\ sized.top = ui.top
      /\ sized.index = ui.index /\ sized.total = total
      /\ sized.covered = (ui.covered \/ (idle /\ lines = {}))
  BY <1>2, <1>3 DEF Widgets
<1> HIDE DEF sized
<1>5. /\ now \in Widgets /\ now.kind = ui.kind
      /\ ui.kind \in Lists => now.index < now.total /\ now.index \in Window(now, now.total)
      /\ ui.kind = "page" => now = sized
  <2>1. CASE ui.kind \in Lists
    <3>1. sized.index < sized.total
      BY <1>3, <1>4, <2>1 DEF ScreensOK, ScreensTypeOK, Lists
    <3>2. PICK top \in Nat : /\ Follow(sized) = [sized EXCEPT !.top = top]
                             /\ top <= sized.index /\ sized.index < top + BodyRows
      BY <1>4, <3>1, FollowShows
    <3>3. now = [sized EXCEPT !.top = top]
      <4>1. now = Follow(sized)
        BY <2>1 DEF Lists
      <4>2. QED
        BY <3>2, <4>1
    <3>4. /\ now \in Widgets /\ now.kind = ui.kind /\ now.index = sized.index
          /\ now.total = sized.total /\ now.top = top
      BY <1>4, <3>3 DEF Widgets
    <3> HIDE DEF now
    <3>5. now.index \in Window(now, now.total)
      BY <1>4, <3>1, <3>2, <3>4 DEF Window, Widgets
    <3>6. QED
      BY <2>1, <3>1, <3>4, <3>5 DEF Lists
  <2>2. CASE ui.kind = "watch"
    <3>1. now = [sized EXCEPT !.top = LeastOf(sized.top, Limit(sized))]
      BY <2>2 DEF Lists
    <3>2. LeastOf(sized.top, Limit(sized)) \in Nat
      BY <1>4, Furthest DEF LeastOf, Widgets
    <3> HIDE DEF now
    <3>3. QED
      BY <1>4, <2>2, <3>1, <3>2 DEF Widgets, Lists
  <2>3. CASE ui.kind \notin Lists /\ ui.kind # "watch"
    <3>1. now = sized
      BY <2>3
    <3>2. QED
      BY <1>4, <2>3, <3>1
  <2>4. QED
    BY <2>1, <2>2, <2>3
<1>6. /\ ui' = now /\ glass' = IF idle THEN Saver ELSE View(now)
      /\ lines' = IF idle THEN lines ELSE lines \cup Window(now, now.total)
  BY <1>1 DEF sized, View
<1> HIDE DEF now
<1>7. View(now) \in Glass /\ Saver \in Glass
  BY <1>2, <1>5 DEF View, Glass, Widgets
<1>8. ScreensTypeOK'
  BY <1>2, <1>5, <1>6, <1>7 DEF ScreensOK, ScreensTypeOK
<1>9. InStepOK'
  BY <1>2, <1>5, <1>6 DEF ScreensOK, InStepOK
<1>10. PageOK'
  <2> SUFFICES ASSUME ui.kind = "page", ~now.covered
               PROVE  /\ lines' \subseteq 0 .. (now.total - 1)
                      /\ UpTo(now, now.top) \subseteq lines'
                      /\ UpTo(now, now.top + BodyRows) \subseteq lines'
    BY <1>2, <1>5, <1>6 DEF PageOK, UpTo
  <2>1. now = sized /\ ~ui.covered /\ ~(idle /\ lines = {}) /\ now.total = ui.total
        /\ now.top = ui.top /\ ui.top \in Nat /\ ui.total \in Nat /\ BodyRows \in Nat
    BY <1>2, <1>3, <1>4, <1>5, ScreensAssumption DEF Widgets
  <2>2. lines \subseteq 0 .. (now.total - 1) /\ UpTo(now, now.top) \subseteq lines
    BY <2>1 DEF ScreensOK, PageOK, UpTo
  <2>3. CASE idle
    <3>1. UpTo(now, now.top + BodyRows) \subseteq lines
      BY <1>2, <2>1, <2>3 DEF ScreensOK, PageOK, UpTo
    <3>2. QED
      BY <1>6, <2>2, <2>3, <3>1
  <2>4. CASE ~idle
    <3>1. lines' = lines \cup Window(now, now.total)
      BY <1>6, <2>4
    <3>2. UpTo(now, now.top + BodyRows) = UpTo(now, now.top) \cup Window(now, now.total)
      BY <2>1 DEF UpTo, Window
    <3>3. Window(now, now.total) \subseteq 0 .. (now.total - 1)
      BY DEF Window
    <3>4. QED
      BY <2>2, <3>1, <3>2, <3>3
  <2>5. QED
    BY <1>2, <2>3, <2>4
<1>11. QED
  BY <1>8, <1>9, <1>10 DEF ScreensOK

LEMMA PressKeyKeeps ==
    ASSUME ScreensOK, PressKey
    PROVE  ScreensOK'
<1>1. PICK k \in Keys :
         keys' = Append(keys, [key |-> k, saw |-> glass,
                               inStep |-> keys = <<>> /\ ui.kind # "none" /\ phase # "draw"])
  BY DEF PressKey
<1> DEFINE press == [key |-> k, saw |-> glass,
                     inStep |-> keys = <<>> /\ ui.kind # "none" /\ phase # "draw"]
<1>2. UNCHANGED <<ui, phase, glass, idle, lines>> /\ keys \in Seq(Presses)
  BY DEF PressKey, ScreensOK, ScreensTypeOK
<1>3. press \in Presses
  BY DEF Presses, ScreensOK, ScreensTypeOK
<1>4. press.saw = glass
      /\ (press.inStep => keys = <<>> /\ ui.kind # "none" /\ phase # "draw")
  OBVIOUS
<1> HIDE DEF press
<1>5. /\ keys' \in Seq(Presses) /\ Len(keys') = Len(keys) + 1 /\ keys' # <<>>
      /\ \A i \in 1 .. Len(keys) : keys'[i] = keys[i]
      /\ keys'[Len(keys) + 1] = press
  BY <1>1, <1>2, <1>3 DEF press
<1>6. ScreensTypeOK'
  BY <1>2, <1>5 DEF ScreensOK, ScreensTypeOK
<1>7. InStepOK'
  <2>1. \A i \in 1 .. Len(keys') : i # 1 => ~keys'[i].inStep
    <3> SUFFICES ASSUME NEW i \in 1 .. Len(keys'), i # 1 PROVE ~keys'[i].inStep
      OBVIOUS
    <3>1. CASE i \in 1 .. Len(keys)
      BY <1>5, <3>1 DEF ScreensOK, InStepOK
    <3>2. CASE i = Len(keys) + 1
      <4>1. keys # <<>>
        BY <1>2, <3>2
      <4>2. QED
        BY <1>4, <1>5, <3>2, <4>1
    <3>3. QED
      BY <1>2, <1>5, <3>1, <3>2
  <2>2. ASSUME keys'[1].inStep, ui.kind # "status" PROVE phase # "draw" /\ keys'[1].saw = glass
    <3>1. CASE keys = <<>>
      <4>1. keys'[1] = press
        BY <1>5, <3>1
      <4>2. QED
        BY <1>4, <2>2, <4>1
    <3>2. CASE keys # <<>>
      <4>1. 1 \in 1 .. Len(keys)
        BY <1>2, <3>2
      <4>2. keys'[1] = keys[1]
        BY <1>5, <4>1
      <4>3. QED
        BY <2>2, <3>2, <4>2 DEF ScreensOK, InStepOK
    <3>3. QED
      BY <3>1, <3>2
  <2>3. QED
    BY <1>2, <2>1, <2>2 DEF ScreensOK, InStepOK, View, Window
<1>8. PageOK'
  BY <1>2 DEF ScreensOK, PageOK, UpTo
<1>9. QED
  BY <1>6, <1>7, <1>8 DEF ScreensOK

LEMMA TakeKeyKeeps ==
    ASSUME ScreensOK, TakeKey
    PROVE  ScreensOK'
<1>1. /\ phase = "read" /\ keys # <<>> /\ keys \in Seq(Presses)
      /\ ui' = Handle(ui, keys[1].key) /\ keys' = Tail(keys)
      /\ idle' = FALSE /\ phase' = "draw" /\ UNCHANGED <<glass, lines>>
      /\ ui \in Widgets
  BY DEF TakeKey, ScreensOK, ScreensTypeOK
<1>2. /\ keys' \in Seq(Presses) /\ Len(keys') = Len(keys) - 1
      /\ \A i \in 1 .. Len(keys') : i + 1 \in 1 .. Len(keys) /\ keys'[i] = keys[i + 1]
      /\ 1 \in 1 .. Len(keys)
  BY <1>1
<1>3. keys[1].key \in Keys
  <2>1. keys[1] \in Presses
    BY <1>1, <1>2
  <2>2. QED
    BY <2>1 DEF Presses
<1>4. ui.kind \notin {"none", "status"} /\ (ui.kind \in Lists => ui.index < ui.total)
  BY <1>1 DEF ScreensOK, ScreensTypeOK
<1>5. /\ ui' \in Widgets /\ ui'.kind \in {ui.kind, "none"}
      /\ ui'.kind \in Lists => ui'.index < ui'.total
      /\ ui.kind = "page" =>
            ui' = None \/ \E top \in Nat : ui' = [ui EXCEPT !.top = top]
                                           /\ top <= ui.top + BodyRows
  BY <1>1, <1>3, <1>4, HandleKeeps
<1>6. ScreensTypeOK'
  BY <1>1, <1>2, <1>5 DEF ScreensOK, ScreensTypeOK
<1>7. InStepOK'
  <2>1. \A i \in 1 .. Len(keys') : ~keys'[i].inStep
    BY <1>2 DEF ScreensOK, InStepOK
  <2>2. keys' # <<>> => 1 \in 1 .. Len(keys')
    BY <1>2
  <2>3. QED
    BY <1>1, <2>1, <2>2 DEF InStepOK
<1>8. PageOK'
  <2> SUFFICES ASSUME ui'.kind = "page", ~ui'.covered
               PROVE  lines \subseteq 0 .. (ui'.total - 1) /\ UpTo(ui', ui'.top) \subseteq lines
    BY <1>1 DEF PageOK, UpTo
  <2>1. ui.kind = "page"
    BY <1>5
  <2>2. PICK top \in Nat : ui' = [ui EXCEPT !.top = top] /\ top <= ui.top + BodyRows
    BY <1>5, <2>1, NoWidget
  <2>3. /\ ui'.top = top /\ ui'.total = ui.total /\ ui'.covered = ui.covered
        /\ ui.top \in Nat /\ ui.total \in Nat /\ BodyRows \in Nat
    BY <1>1, <2>2, ScreensAssumption DEF Widgets
  <2>4. lines \subseteq 0 .. (ui.total - 1) /\ UpTo(ui, ui.top + BodyRows) \subseteq lines
    BY <1>1, <2>1, <2>3 DEF ScreensOK, PageOK
  <2>5. UpTo(ui', ui'.top) \subseteq UpTo(ui, ui.top + BodyRows)
    BY <2>2, <2>3 DEF UpTo
  <2>6. QED
    BY <2>3, <2>4, <2>5
<1>9. QED
  BY <1>6, <1>7, <1>8 DEF ScreensOK

LEMMA TurnStatusKeeps ==
    ASSUME ScreensOK, TurnStatus
    PROVE  ScreensOK'
<1>1. /\ ui.kind = "status" /\ phase' = "draw" /\ UNCHANGED <<glass, idle, keys, lines>>
      /\ ui' = [ui EXCEPT !.top = IF @ + StatusStep < ui.total THEN @ + StatusStep ELSE 0]
  BY DEF TurnStatus
<1>2. ui' \in Widgets /\ ui'.kind = "status"
  BY <1>1, ScreensAssumption DEF ScreensOK, ScreensTypeOK, Widgets
<1>3. QED
  BY <1>1, <1>2 DEF ScreensOK, ScreensTypeOK, InStepOK, PageOK, Lists

LEMMA ScreensStep == ScreensOK /\ [ScreensNext]_screenVars => ScreensOK'
<1> SUFFICES ASSUME ScreensOK, [ScreensNext]_screenVars PROVE ScreensOK'
  OBVIOUS
<1>1. CASE AwaitKey
  <2>1. /\ ui.kind \notin {"none", "status"} /\ phase = "wait" /\ phase' = "read"
        /\ UNCHANGED <<ui, glass, idle, keys, lines>>
    BY <1>1 DEF AwaitKey
  <2>2. QED
    BY <2>1 DEF ScreensOK, ScreensTypeOK, InStepOK, PageOK, View, Window, UpTo
<1>2. CASE SecondPasses
  <2>1. /\ phase = "read" /\ keys = <<>> /\ phase' = "draw"
        /\ UNCHANGED <<ui, glass, idle, keys, lines>>
    BY <1>2 DEF SecondPasses
  <2>2. QED
    BY <2>1 DEF ScreensOK, ScreensTypeOK, InStepOK, PageOK, View, Window, UpTo
<1>3. CASE MinutePasses
  <2>1. /\ ui.kind = "page" => phase = "read"
        /\ idle' = TRUE /\ UNCHANGED <<ui, phase, glass, keys, lines>>
    BY <1>3 DEF MinutePasses
  <2>2. QED
    BY <2>1 DEF ScreensOK, ScreensTypeOK, InStepOK, PageOK, View, Window, UpTo
<1>4. CASE UNCHANGED screenVars
  BY <1>4 DEF screenVars, ScreensOK, ScreensTypeOK, InStepOK, PageOK, View, Window, UpTo
<1>5. QED
  BY <1>1, <1>2, <1>3, <1>4, OpenScreenKeeps, DrawScreenKeeps, PressKeyKeeps, TakeKeyKeeps,
     TurnStatusKeeps DEF ScreensNext

LEMMA ScreensStart == ScreensInit => ScreensOK
<1> SUFFICES ASSUME ScreensInit PROVE ScreensOK
  OBVIOUS
<1>1. <<>> \in Seq(Presses)
  OBVIOUS
<1>2. ScreensTypeOK
  BY <1>1, NoWidget DEF ScreensInit, ScreensTypeOK, Glass, Lists
<1>3. InStepOK /\ PageOK
  BY NoWidget DEF ScreensInit, InStepOK, PageOK
<1>4. QED
  BY <1>2, <1>3 DEF ScreensOK

LEMMA ScreensInvariant == ScreensSpec => []ScreensOK
BY ScreensStart, ScreensStep, PTL DEF ScreensSpec

(* What is chosen or ticked was highlighted on the glass as the key was    *)
(* pressed, for any lists, panels and keys typed ahead.                    *)
THEOREM SeenThenChosen == ScreensSpec => ChoiceWasSeen
<1> DEFINE press == Head(keys)
           Shown == TakeKey /\ Chosen /\ press.inStep /\ press.saw # Saver
                      => /\ press.saw.kind = ui.kind /\ press.saw.index = ui.index
                         /\ ui.index \in Window(press.saw, ui.total)
<1>1. ScreensOK => Shown
  <2> SUFFICES ASSUME ScreensOK, TakeKey, Chosen, press.inStep, press.saw # Saver
               PROVE  /\ press.saw.kind = ui.kind /\ press.saw.index = ui.index
                      /\ ui.index \in Window(press.saw, ui.total)
    OBVIOUS
  <2>1. /\ phase = "read" /\ keys # <<>> /\ keys \in Seq(Presses) /\ ui.kind \in Lists
        /\ ui.kind # "status"
    BY DEF TakeKey, Chosen, ScreensOK, ScreensTypeOK, Lists
  <2>2. press = keys[1]
    BY <2>1
  <2>3. press.saw = View(ui) /\ ui.index \in Window(ui, ui.total)
    BY <2>1, <2>2 DEF ScreensOK, InStepOK
  <2>4. QED
    BY <2>3 DEF View, Window
<1>2. ScreensSpec => [][Shown]_screenVars
  BY <1>1, ScreensInvariant, PTL
<1>3. QED
  BY <1>2 DEF ChoiceWasSeen

(* A page left at its end by Enter was on the glass line by line, for any  *)
(* length of it and of the panel.                                          *)
THEOREM NothingSkipped == ScreensSpec => ReadToTheEnd
<1> DEFINE Read == TakeKey /\ ui.kind = "page" /\ ui'.kind = "none" /\ Head(keys).key = "enter"
                     /\ ~ui.covered
                   => lines = 0 .. (ui.total - 1)
<1>1. ScreensOK => Read
  <2> SUFFICES ASSUME ScreensOK, TakeKey, ui.kind = "page", ui'.kind = "none",
                      Head(keys).key = "enter", ~ui.covered
               PROVE  lines = 0 .. (ui.total - 1)
    OBVIOUS
  <2>1. phase = "read" /\ ui' = Handle(ui, "enter") /\ ui \in Widgets
    BY DEF TakeKey, ScreensOK, ScreensTypeOK
  <2>2. "enter" \in Keys /\ ui.kind \notin {"none", "status"} /\ ui.kind \notin Lists
    BY DEF Keys, Lists
  <2>3. \/ "enter" = "enter" => ui.top >= Limit(ui)
        \/ \E top \in Nat : ui' = [ui EXCEPT !.top = top]
    BY <2>1, <2>2, HandleKeeps
  <2>4. ui.top >= Limit(ui)
    BY <2>1, <2>3 DEF Widgets
  <2>5. ui.top \in Nat /\ ui.total \in Nat /\ Limit(ui) \in Nat
        /\ ui.total <= Limit(ui) + BodyRows /\ BodyRows \in Nat
    BY <2>1, Furthest, ScreensAssumption DEF Widgets
  <2>6. 0 .. (ui.total - 1) \subseteq UpTo(ui, ui.top + BodyRows)
    BY <2>4, <2>5 DEF UpTo
  <2>7. lines \subseteq 0 .. (ui.total - 1) /\ UpTo(ui, ui.top + BodyRows) \subseteq lines
    BY <2>1 DEF ScreensOK, PageOK
  <2>8. QED
    BY <2>6, <2>7
<1>2. ScreensSpec => [][Read]_screenVars
  BY <1>1, ScreensInvariant, PTL
<1>3. QED
  BY <1>2 DEF ReadToTheEnd

(* -------------------------------- Panel -------------------------------- *)

Names == {"reset", "basic", "extended", "graphics", "on", "off", "clear", "entry", "home",
          "y", "x", "data"}
Transfers == {t \in [op : Names, arg : Nat \cup Patterns] : t.op = "data" => t.arg \in Patterns}
Chip == [set : {"basic", "extended"}, graphics : BOOLEAN, lit : BOOLEAN,
         y : Nat \cup Patterns, x : Nat \cup Patterns, stale : BOOLEAN, ram : Glasses]

(* What an opening sends before it blanks the glass.                       *)
Prelude == <<Op("reset"), Op("basic"), Op("basic"), Op("clear"), Op("on"), Op("entry"),
             Op("home"), Op("extended"), Op("extended"), Op("graphics"), Op("graphics")>>
Left(k) == SubSeq(Prelude, k + 1, 11) \o Blanking

(* What k transfers of the prelude make of a controller in any state.      *)
Preparing(c, w) ==
    \E k \in 0..11 :
        /\ w = Left(k)
        /\ k >= 1 => ~c.stale
        /\ k \in 3..7 => c.set = "basic"
        /\ k >= 5 => c.lit
        /\ k >= 8 => c.set = "extended"
        /\ k >= 10 => c.graphics

(* The rows of S are being sent from the top, and every row that is done   *)
(* with is as the frame has it: row r is next, or its address is half set, *)
(* or only its contents are left.                                          *)
Same(c, S, frame)  == \A q \in Rows \ S : c.ram[q] = frame[q]
Above(c, frame, r) == \A q \in Rows : q < r => c.ram[q] = frame[q]
Sending(c, w, S, frame, n) ==
    LET r == Height - n - 1
        x == Send("x", r \div Half)
        data == Send("data", frame[r])
        rest == RowsLeft(S, frame)[n]
    IN  /\ n < Height /\ Above(c, frame, r) /\ c.y = r % Half
        /\ \/ w = <<x>> \o (<<data>> \o rest)
           \/ w = <<data>> \o rest /\ c.x = r \div Half
Writing(c, w, S, frame) ==
    /\ c.lit /\ c.graphics /\ c.set = "extended" /\ ~c.stale
    /\ Same(c, S, frame)
    /\ \E n \in 0..Height :
          \/ Above(c, frame, Height - n) /\ w = RowsLeft(S, frame)[n]
          \/ Sending(c, w, S, frame, n)

PanelTypeOK ==
    /\ chip \in Chip /\ canvas \in Glasses
    /\ \A w \in waiting : w = Closing \/ (w.by \in {"menu", "saver"} /\ w.frame \in Glasses)
    /\ work \in Seq(Transfers)
    /\ holder \in {"none", "open", "close", "menu", "saver"}
    /\ previous = Unknown \/ previous \in Glasses

(* The driver believes in a frame whenever it may refresh by it, and while *)
(* nothing was broken off the controller is on the way to what is believed *)
(* when the holder is done.                                                *)
DriverOK ==
    /\ holder = "none" => work = <<>>
    /\ started /\ holder # "open" => previous # Unknown
    /\ holder = "open" => target = Empty
    /\ holder = "close" => target = Unknown
    /\ holder \in {"menu", "saver"} => target \in Glasses
    /\ ~failed =>
          /\ holder = "none" /\ previous # Unknown => chip.ram = previous /\ Showing
          /\ holder = "open" => Preparing(chip, work) \/ Writing(chip, work, Rows, Empty)
          /\ holder \in {"menu", "saver"} =>
                \E S \in SUBSET Rows : Writing(chip, work, S, target)

PanelOK == PanelTypeOK /\ DriverOK

LEMMA Geometry ==
    /\ Height \in Nat /\ Height > 0 /\ Half \in Nat /\ Half > 0 /\ Height = 2 * Half
    /\ Rows = 0..(Height - 1) /\ 0 \in Rows
    /\ Empty \in Glasses /\ Frames \subseteq Glasses /\ Unknown \notin Glasses
    /\ \A r \in Rows : /\ r % Half \in Nat /\ r \div Half \in Nat
                       /\ (r % Half) + (r \div Half) * Half = r
<1>1. Height \in Nat /\ Height > 0 /\ Rows = 0..(Height - 1) /\ 0 \in Rows
  BY PanelAssumption DEF Rows
<1>2. ASSUME NEW h \in Nat, h > 0, h % 2 = 0
      PROVE  h \div 2 \in Nat /\ h \div 2 > 0 /\ h = 2 * (h \div 2)
  BY <1>2
<1>3. Half \in Nat /\ Half > 0 /\ Height = 2 * Half
  BY <1>1, <1>2, PanelAssumption DEF Half
<1>4. Empty \in Glasses /\ Frames \subseteq Glasses
  BY PanelAssumption DEF Empty, Glasses, Rows
<1>5. ASSUME NEW g \in Glasses PROVE g # Unknown
  <2>1. g[0] \in Patterns /\ DOMAIN g = Rows
    BY <1>1 DEF Glasses
  <2>2. DOMAIN Unknown = {}
    BY DEF Unknown
  <2>3. QED
    BY <1>1, <2>1, <2>2
<1>6. ASSUME NEW h \in Nat, h > 0, NEW r \in Nat
      PROVE  r % h \in Nat /\ r \div h \in Nat /\ (r % h) + (r \div h) * h = r
  BY <1>6
<1>7. \A r \in Rows : /\ r % Half \in Nat /\ r \div Half \in Nat
                      /\ (r % Half) + (r \div Half) * Half = r
  <2>1. \A r \in Rows : r \in Nat
    BY <1>1
  <2>2. QED
    BY <1>3, <1>6, <2>1
<1>8. QED
  BY <1>1, <1>3, <1>4, <1>5, <1>7

LEMMA OneMore ==
    ASSUME NEW T, NEW a \in T, NEW s \in Seq(T)
    PROVE  /\ <<a>> \o s \in Seq(T) /\ <<a>> \o s # <<>>
           /\ Head(<<a>> \o s) = a /\ Tail(<<a>> \o s) = s
<1> DEFINE l == <<a>> \o s
<1>1. l \in Seq(T) /\ Len(l) = Len(s) + 1 /\ l[1] = a /\ \A i \in 1..Len(s) : l[i + 1] = s[i]
  OBVIOUS
<1> HIDE DEF l
<1>2. l # <<>> /\ Head(l) = a /\ Len(s) \in Nat
  BY <1>1
<1>3. /\ Tail(l) \in Seq(T) /\ Len(Tail(l)) = Len(s)
      /\ \A i \in 1..Len(s) : Tail(l)[i] = s[i]
  BY <1>1, <1>2, HeadTailProperties
<1>4. Tail(l) = s
  BY <1>3, SeqEqual
<1>5. QED
  BY <1>1, <1>2, <1>4 DEF l

LEMMA ThreeParts ==
    \A a, b, c \in Transfers, q \in Seq(Transfers) :
        (<<a, b>> \o <<c>>) \o q = <<a>> \o (<<b>> \o (<<c>> \o q))
<1> TAKE a, b, c \in Transfers, q \in Seq(Transfers)
<1>1. <<a>> \in Seq(Transfers) /\ <<b>> \in Seq(Transfers) /\ <<c>> \in Seq(Transfers)
  OBVIOUS
<1>2. <<a>> \o <<b>> \in Seq(Transfers) /\ <<c>> \o q \in Seq(Transfers)
  BY <1>1, ConcatProperties
<1>3. <<a, b>> = <<a>> \o <<b>>
  <2> DEFINE s == <<a, b>>
             t == <<a>> \o <<b>>
  <2>1. s \in Seq(Transfers) /\ Len(s) = 2 /\ s[1] = a /\ s[2] = b
    OBVIOUS
  <2>2. t \in Seq(Transfers) /\ Len(t) = 2 /\ t[1] = a /\ t[2] = b
    OBVIOUS
  <2> HIDE DEF s, t
  <2>3. s = t
    BY <2>1, <2>2, SeqEqual
  <2>4. QED
    BY <2>3 DEF s, t
<1>4. ((<<a>> \o <<b>>) \o <<c>>) \o q = (<<a>> \o <<b>>) \o (<<c>> \o q)
  BY <1>1, <1>2, ConcatAssociative
<1>5. (<<a>> \o <<b>>) \o (<<c>> \o q) = <<a>> \o (<<b>> \o (<<c>> \o q))
  BY <1>1, <1>2, ConcatAssociative
<1>6. QED
  BY <1>3, <1>4, <1>5

LEMMA RowSent ==
    ASSUME NEW r \in Rows, NEW p \in Patterns, NEW s \in Seq(Transfers)
    PROVE  /\ Send("y", r % Half) \in Transfers /\ Send("x", r \div Half) \in Transfers
           /\ Send("data", p) \in Transfers
           /\ SendRow(r, p) \o s = <<Send("y", r % Half)>> \o
                 (<<Send("x", r \div Half)>> \o (<<Send("data", p)>> \o s))
           /\ SendRow(r, p) \o s \in Seq(Transfers)
<1>1. /\ Send("y", r % Half) \in Transfers /\ Send("x", r \div Half) \in Transfers
      /\ Send("data", p) \in Transfers
  BY Geometry DEF Send, Transfers, Names
<1>3. SendRow(r, p) \o s = <<Send("y", r % Half)>> \o
         (<<Send("x", r \div Half)>> \o (<<Send("data", p)>> \o s))
  BY <1>1, ThreeParts DEF SendRow, SetAddress
<1>4. QED
  BY <1>1, <1>3, OneMore

LEMMA HasLeast ==
    ASSUME NEW S \in SUBSET Nat, S # {}
    PROVE  \E x \in S : \A y \in S : x <= y
<1> DEFINE Less == {p \in Nat \X Nat : p[1] < p[2]}
<1>1. Less = OpToRel(<, Nat)
  BY DEF OpToRel
<1>2. IsWellFoundedOn(Less, Nat)
  BY <1>1, NatLessThanWellFounded
<1>3. PICK x \in S : \A y \in S : <<y, x>> \notin Less
  BY <1>2, WFMin
<1>4. \A y \in S : y < x => <<y, x>> \in Less
  OBVIOUS
<1> HIDE DEF Less
<1>5. \A y \in S : ~ (y < x)
  BY <1>3, <1>4
<1>6. QED
  BY <1>5

(* What is sent of one row.                                               *)
Part(S, frame, n) ==
    IF Height - n \in S THEN SendRow(Height - n, frame[Height - n]) ELSE <<>>

(* The rows left are what the recursion says.                              *)
LEMMA LeftRows ==
    ASSUME NEW S, NEW frame \in Glasses
    PROVE  /\ RowsLeft(S, frame)[0] = <<>>
           /\ \A n \in 1..Height :
                 RowsLeft(S, frame)[n] = Part(S, frame, n) \o RowsLeft(S, frame)[n - 1]
           /\ \A n \in 0..Height : RowsLeft(S, frame)[n] \in Seq(Transfers)
<1> DEFINE Sent(n) == Part(S, frame, n)
           F(f, m) == [n \in 0..m |-> IF n = 0 THEN <<>> ELSE Sent(n) \o f[n - 1]]
           Bad == {m \in Nat : ~ \E f : f = F(f, m)}
           left == RowsLeft(S, frame)
<1> HIDE DEF Sent
<1>1. Bad = {}
  <2> SUFFICES ASSUME Bad # {} PROVE FALSE
    OBVIOUS
  <2>1. PICK m \in Bad : \A k \in Bad : m <= k
    BY HasLeast
  <2>2. m \in Nat /\ ~ \E f : f = F(f, m)
    BY <2>1
  <2>3. CASE m = 0
    <3> DEFINE g == [n \in 0..m |-> <<>>]
    <3>1. g = F(g, m)
      BY <2>3
    <3>2. QED
      BY <2>2, <3>1
  <2>4. CASE m # 0
    <3> HIDE DEF Bad
    <3>1. m - 1 \in Nat /\ m - 1 \notin Bad
      BY <2>1, <2>2, <2>4
    <3>2. PICK f : f = F(f, m - 1)
      BY <3>1 DEF Bad
    <3> DEFINE g == [n \in 0..m |-> IF n = 0 THEN <<>> ELSE Sent(n) \o f[n - 1]]
    <3>3. \A n \in 0..(m - 1) : g[n] = f[n]
      <4> TAKE n \in 0..(m - 1)
      <4>1. f[n] = IF n = 0 THEN <<>> ELSE Sent(n) \o f[n - 1]
        BY <3>2
      <4>2. n \in 0..m
        BY <2>2
      <4>3. QED
        BY <4>1, <4>2
    <3>4. g = F(g, m)
      <4>1. \A n \in 0..m : g[n] = F(g, m)[n]
        <5> TAKE n \in 0..m
        <5>1. CASE n = 0
          BY <5>1
        <5>2. CASE n # 0
          <6>1. n - 1 \in 0..(m - 1)
            BY <2>2, <5>2
          <6>2. g[n - 1] = f[n - 1]
            BY <3>3, <6>1
          <6>3. g[n] = Sent(n) \o f[n - 1]
            BY <5>2
          <6>4. F(g, m)[n] = Sent(n) \o g[n - 1]
            BY <5>2
          <6>5. QED
            BY <6>2, <6>3, <6>4
        <5>3. QED
          BY <5>1, <5>2
      <4>2. QED
        BY <4>1
    <3>5. QED
      BY <2>2, <3>4
  <2>5. QED
    BY <2>3, <2>4
<1>2. Height \notin Bad /\ Height \in Nat
  BY <1>1, Geometry
<1> HIDE DEF Bad
<1>3. \E f : f = F(f, Height)
  BY <1>2 DEF Bad
<1>4. left = CHOOSE f : f = F(f, Height)
  BY DEF RowsLeft, Sent, Part
<1>5. left = F(left, Height)
  BY <1>3, <1>4
<1> HIDE DEF left
<1>6. left[0] = <<>> /\ \A n \in 1..Height : left[n] = Sent(n) \o left[n - 1]
  <2>1. \A n \in 0..Height : left[n] = IF n = 0 THEN <<>> ELSE Sent(n) \o left[n - 1]
    BY <1>5
  <2> HIDE DEF F
  <2>2. left[0] = <<>>
    BY <1>2, <2>1
  <2>3. ASSUME NEW n \in 1..Height PROVE left[n] = Sent(n) \o left[n - 1]
    <3>1. n \in 0..Height /\ n # 0
      BY <1>2
    <3>2. QED
      BY <2>1, <3>1
  <2>4. QED
    BY <2>2, <2>3
<1>7. \A n \in 0..Height : left[n] \in Seq(Transfers)
  <2> DEFINE Ill == {n \in 0..Height : left[n] \notin Seq(Transfers)}
  <2> SUFFICES ASSUME Ill # {} PROVE FALSE
    OBVIOUS
  <2>1. Ill \in SUBSET Nat
    OBVIOUS
  <2>2. PICK n \in Ill : \A k \in Ill : n <= k
    BY <2>1, HasLeast
  <2>e. <<>> \in Seq(Transfers)
    OBVIOUS
  <2>f. n \in 0..Height /\ left[n] \notin Seq(Transfers)
    OBVIOUS
  <2>a. n \in 0..Height /\ left[n] \notin Seq(Transfers) /\ n # 0
    BY <1>6, <2>e, <2>f
  <2>b. n \in 1..Height /\ n - 1 \in 0..Height
    BY <1>2, <2>a
  <2>c. n - 1 \notin Ill
    <3> HIDE DEF Ill
    <3>1. QED
      BY <2>2, <2>b, <1>2
  <2>3. left[n - 1] \in Seq(Transfers)
    BY <2>b, <2>c
  <2>4. CASE Height - n \in S
    <3>1. Height - n \in Rows /\ frame[Height - n] \in Patterns
      BY <1>2, <2>b DEF Rows, Glasses
    <3>2. left[n] = SendRow(Height - n, frame[Height - n]) \o left[n - 1]
      BY <1>6, <2>b, <2>4 DEF Sent, Part
    <3>3. SendRow(Height - n, frame[Height - n]) \o left[n - 1] \in Seq(Transfers)
      <4> HIDE DEF left, Ill
      <4>1. QED
        BY <2>3, <3>1, RowSent
    <3>4. QED
      BY <2>f, <3>2, <3>3
  <2>5. CASE Height - n \notin S
    <3>1. left[n] = <<>> \o left[n - 1]
      BY <1>6, <2>b, <2>5 DEF Sent, Part
    <3>2. QED
      BY <2>2, <2>3, <3>1
  <2>6. QED
    BY <2>4, <2>5
<1>8. QED
  BY <1>6, <1>7 DEF left, Sent

(* What a transfer does to a controller that has the extended set.         *)
LEMMA Written ==
    ASSUME NEW c \in Chip, ~c.stale, c.set = "extended", NEW a
    PROVE  /\ Receive(c, Send("y", a)) = [c EXCEPT !.y = a]
           /\ Receive(c, Send("x", a)) = [c EXCEPT !.x = a]
           /\ Receive(c, Send("data", a)) =
                 [c EXCEPT !.ram = [c.ram EXCEPT ![c.y + c.x * Half] = a]]
<1>1. ASSUME NEW t, t = Send("y", a) PROVE Receive(c, t) = [c EXCEPT !.y = a]
  BY <1>1 DEF Receive, Execute, Send
<1>2. ASSUME NEW t, t = Send("x", a) PROVE Receive(c, t) = [c EXCEPT !.x = a]
  BY <1>2 DEF Receive, Execute, Send
<1>3. ASSUME NEW t, t = Send("data", a)
      PROVE  Receive(c, t) = [c EXCEPT !.ram = [c.ram EXCEPT ![c.y + c.x * Half] = a]]
  BY <1>3 DEF Receive, Execute, Send
<1>4. QED
  BY <1>1, <1>2, <1>3

LEMMA ReceiveType ==
    ASSUME NEW c \in Chip, NEW t \in Transfers
    PROVE  Receive(c, t) \in Chip
<1>1. t.arg \in Nat \cup Patterns /\ (t.op = "data" => t.arg \in Patterns)
  BY DEF Transfers
<1>2. c.ram \in Glasses
  BY DEF Chip
<1>3. ASSUME NEW k, NEW a \in Patterns PROVE [c EXCEPT !.ram[k] = a] \in Chip
  <2>1. [c.ram EXCEPT ![k] = a] \in Glasses
    BY <1>2, <1>3 DEF Glasses
  <2>2. [c EXCEPT !.ram = [c.ram EXCEPT ![k] = a]] \in Chip
    BY <2>1 DEF Chip
  <2>3. QED
    BY <2>2
<1>4. [c EXCEPT !.stale = FALSE] \in Chip
  BY DEF Chip
<1>5. /\ [c EXCEPT !.set = "basic"] \in Chip /\ [c EXCEPT !.set = "extended"] \in Chip
      /\ [c EXCEPT !.lit = TRUE] \in Chip /\ [c EXCEPT !.lit = FALSE] \in Chip
      /\ [c EXCEPT !.y = t.arg] \in Chip /\ [c EXCEPT !.x = t.arg] \in Chip
  BY <1>1 DEF Chip
<1>6. [c EXCEPT !.set = "extended", !.graphics = TRUE] \in Chip
  BY DEF Chip
<1>7. t.op = "data" => [c EXCEPT !.ram[c.y + c.x * Half] = t.arg] \in Chip
  BY <1>1, <1>3
<1>8. Execute(c, t) \in Chip
  BY <1>5, <1>6, <1>7 DEF Execute
<1>9. QED
  BY <1>4, <1>8 DEF Receive

(* Rows that are not to be sent are passed over.                           *)
LEMMA NextRow ==
    ASSUME NEW c, NEW S \in SUBSET Rows, NEW frame \in Glasses, NEW n \in 0..Height,
           Same(c, S, frame), Above(c, frame, Height - n)
    PROVE  \E k \in 0..Height :
              /\ Above(c, frame, Height - k) /\ RowsLeft(S, frame)[k] = RowsLeft(S, frame)[n]
              /\ k = 0 \/ Height - k \in S
<1> DEFINE left == RowsLeft(S, frame)
<1>a. \A m \in 1..Height :
          left[m] = Part(S, frame, m) \o left[m - 1]
  BY LeftRows
<1>b. \A m \in 0..Height : left[m] \in Seq(Transfers)
  BY LeftRows
<1> DEFINE Ends == {k \in 0..Height : Above(c, frame, Height - k) /\ left[k] = left[n]}
<1>1. Ends \in SUBSET Nat /\ n \in Ends
  OBVIOUS
<1>2. PICK k \in Ends : \A j \in Ends : k <= j
  BY <1>1, HasLeast
<1>3. k \in 0..Height /\ Above(c, frame, Height - k) /\ left[k] = left[n]
  OBVIOUS
<1>4. ASSUME k # 0, Height - k \notin S PROVE FALSE
  <2>1. k \in 1..Height /\ k - 1 \in 0..Height /\ Height - k \in Rows /\ k \in Nat
    BY <1>3, <1>4, Geometry
  <2> HIDE DEF Ends
  <2> HIDE DEF left
  <2>b. left[k - 1] \in Seq(Transfers)
    BY <2>1, <1>b
  <2>2. left[k] = <<>> \o left[k - 1] /\ left[k - 1] \in Seq(Transfers)
    BY <1>4, <2>1, <1>a, <2>b DEF Part
  <2>3. left[k] = left[k - 1]
    BY <2>2, ConcatEmptySeq
  <2>4. Above(c, frame, Height - (k - 1))
    BY <1>3, <1>4, <2>1, Geometry DEF Above, Same
  <2>5. k - 1 \in Ends
    BY <1>3, <2>1, <2>3, <2>4 DEF Ends
  <2>6. QED
    BY <1>2, <2>1, <2>5
<1>5. QED
  BY <1>3, <1>4

LEMMA WritingGoesOn ==
    ASSUME NEW c \in Chip, NEW w \in Seq(Transfers), w # <<>>, NEW S \in SUBSET Rows,
           NEW frame \in Glasses, Writing(c, w, S, frame)
    PROVE  Writing(Receive(c, Head(w)), Tail(w), S, frame)
<1> DEFINE left == RowsLeft(S, frame)
           d == Receive(c, Head(w))
<1>1. /\ c.lit /\ c.graphics /\ c.set = "extended" /\ ~c.stale
      /\ Same(c, S, frame)
      /\ c.ram \in [Rows -> Patterns]
  BY DEF Writing, Chip, Glasses
<1>2. \A n \in 0..Height : left[n] \in Seq(Transfers)
  BY LeftRows
<1>5. CASE \E n \in 0..Height : Above(c, frame, Height - n) /\ w = left[n]
  <2>1. PICK n \in 0..Height : Above(c, frame, Height - n) /\ w = left[n]
    BY <1>5
  <2>2. PICK k \in 0..Height : /\ Above(c, frame, Height - k) /\ w = left[k]
                               /\ k = 0 \/ Height - k \in S
    <3>1. Same(c, S, frame) /\ Above(c, frame, Height - n)
      BY <1>1, <2>1
    <3>2. \E k \in 0..Height : /\ Above(c, frame, Height - k) /\ left[k] = left[n]
                               /\ k = 0 \/ Height - k \in S
      BY <3>1, NextRow
    <3>3. QED
      BY <2>1, <3>2
  <2>3. k # 0
    BY <2>2, LeftRows
  <2> DEFINE r == Height - k
             m == k - 1
             xd == <<Send("x", r \div Half)>> \o (<<Send("data", frame[r])>> \o left[m])
  <2>4. /\ k \in 1..Height /\ m \in 0..Height /\ m < Height /\ r \in Rows /\ r \in S
        /\ r = Height - m - 1
    <3>1. Height \in Nat /\ Rows = 0..(Height - 1)
      BY Geometry
    <3>2. k \in 1..Height /\ Height - k \in S
      BY <2>2, <2>3, <3>1
    <3>3. QED
      BY <3>1, <3>2
  <2>5. frame[r] \in Patterns /\ left[m] \in Seq(Transfers)
    BY <1>2, <2>4 DEF Glasses
  <2>6. w = SendRow(r, frame[r]) \o left[m]
    <3>1. left[k] = Part(S, frame, k) \o left[k - 1]
      BY <2>4, LeftRows
    <3>2. QED
      BY <2>2, <2>4, <3>1 DEF Part
  <2> HIDE DEF left
  <2>7. /\ w = <<Send("y", r % Half)>> \o xd /\ Send("y", r % Half) \in Transfers
        /\ xd \in Seq(Transfers)
    BY <2>4, <2>5, <2>6, RowSent, OneMore
  <2> HIDE DEF xd
  <2>8. Head(w) = Send("y", r % Half) /\ Tail(w) = xd
    BY <2>7, OneMore
  <2> HIDE DEF r, m
  <2>9. d = [c EXCEPT !.y = r % Half]
    BY <1>1, <2>8, Written
  <2> HIDE DEF d
  <2>a. /\ d.lit /\ d.graphics /\ d.set = "extended" /\ ~d.stale
        /\ d.ram = c.ram /\ d.y = r % Half
    BY <1>1, <2>9 DEF Chip
  <2>10. Above(c, frame, r)
    BY <2>2 DEF r
  <2>11. Sending(d, Tail(w), S, frame, m)
    BY <2>a, <2>4, <2>8, <2>10 DEF Sending, Above, xd, left
  <2>12. Writing(d, Tail(w), S, frame)
    BY <1>1, <2>a, <2>4, <2>11 DEF Writing, Same
  <2>13. QED
    BY <2>12 DEF d
<1>6. CASE \E n \in 0..Height : Sending(c, w, S, frame, n)
  <2>1. PICK n \in 0..Height : Sending(c, w, S, frame, n)
    BY <1>6
  <2> DEFINE r == Height - n - 1
             x == Send("x", r \div Half)
             data == Send("data", frame[r])
  <2>2. /\ n < Height /\ Above(c, frame, r) /\ c.y = r % Half
        /\ \/ w = <<x>> \o (<<data>> \o left[n])
           \/ w = <<data>> \o left[n] /\ c.x = r \div Half
    BY <2>1 DEF Sending
  <2>3. r \in Rows
    BY <2>2, Geometry
  <2>4. frame[r] \in Patterns /\ left[n] \in Seq(Transfers)
    BY <1>2, <2>3 DEF Glasses
  <2> HIDE DEF left
  <2>5. x \in Transfers /\ data \in Transfers /\ <<data>> \o left[n] \in Seq(Transfers)
    BY <2>3, <2>4, RowSent, OneMore
  <2>6. CASE w = <<x>> \o (<<data>> \o left[n])
    <3> HIDE DEF r
    <3>1. Head(w) = x /\ Tail(w) = <<data>> \o left[n]
      BY <2>5, <2>6, OneMore
    <3>2. d = [c EXCEPT !.x = r \div Half]
      BY <1>1, <3>1, Written
    <3> HIDE DEF d
    <3>a. /\ d.lit /\ d.graphics /\ d.set = "extended" /\ ~d.stale
          /\ d.ram = c.ram /\ d.y = c.y /\ d.x = r \div Half
      BY <1>1, <3>2 DEF Chip
    <3>3. Sending(d, Tail(w), S, frame, n)
      BY <2>2, <3>1, <3>a DEF Sending, Above, left, r
    <3>4. Writing(d, Tail(w), S, frame)
      BY <1>1, <3>a, <3>3 DEF Writing, Same
    <3>5. QED
      BY <3>4 DEF d
  <2>7. CASE w = <<data>> \o left[n] /\ c.x = r \div Half
    <3>1. Head(w) = data /\ Tail(w) = left[n]
      BY <2>4, <2>5, <2>7, OneMore
    <3> DEFINE ram == [c.ram EXCEPT ![r] = frame[r]]
    <3>2. c.y + c.x * Half = r
      BY <2>2, <2>3, <2>7, Geometry
    <3>3. d = [c EXCEPT !.ram = ram]
      BY <1>1, <3>1, <3>2, Written
    <3>4. /\ ram[r] = frame[r] /\ \A q \in Rows \ {r} : ram[q] = c.ram[q]
      BY <1>1, <2>3
    <3> HIDE DEF d, ram
    <3>5. /\ d.lit /\ d.graphics /\ d.set = "extended" /\ ~d.stale
          /\ d.ram = ram
      BY <1>1, <3>3 DEF Chip
    <3>6. Above(d, frame, Height - n)
      <4>1. ASSUME NEW q \in Rows, q < Height - n PROVE d.ram[q] = frame[q]
        <5>1. CASE q = r
          BY <3>4, <3>5, <5>1
        <5>2. CASE q # r
          <6>1. q < r
            BY <2>2, <4>1, <5>2, Geometry
          <6> HIDE DEF r
          <6>2. c.ram[q] = frame[q]
            BY <2>2, <6>1 DEF Above
          <6>3. QED
            BY <3>4, <3>5, <5>2, <6>2
        <5>3. QED
          BY <5>1, <5>2
      <4>2. QED
        BY <4>1 DEF Above
    <3>7. Same(d, S, frame)
      BY <1>1, <3>4, <3>5 DEF Same
    <3>8. Writing(d, Tail(w), S, frame)
      BY <3>1, <3>5, <3>6, <3>7 DEF Writing, left
    <3>9. QED
      BY <3>8 DEF d
  <2>8. QED
    BY <2>2, <2>6, <2>7
<1>7. QED
  BY <1>5, <1>6 DEF Writing

(* A refresh starts with every row as it is, or to be sent; when nothing   *)
(* is left of it the frame is on the glass.                                *)
LEMMA WritingBegins ==
    ASSUME NEW c, NEW S \in SUBSET Rows, NEW frame \in Glasses,
           c.lit, c.graphics, c.set = "extended", ~c.stale,
           Same(c, S, frame)
    PROVE  Writing(c, SendRows(S, frame), S, frame)
<1>1. Height \in 0..Height /\ Above(c, frame, Height - Height)
  BY Geometry DEF Above
<1>2. QED
  BY <1>1 DEF Writing, SendRows

LEMMA WritingEnds ==
    ASSUME NEW c \in Chip, NEW S \in SUBSET Rows, NEW frame \in Glasses,
           Writing(c, <<>>, S, frame)
    PROVE  c.ram = frame
<1> DEFINE left == RowsLeft(S, frame)
<1>1. \A n \in 0..Height : left[n] \in Seq(Transfers)
  BY LeftRows
<1>2. ~ \E n \in 0..Height : Sending(c, <<>>, S, frame, n)
  <2> SUFFICES ASSUME NEW n \in 0..Height, Sending(c, <<>>, S, frame, n) PROVE FALSE
    OBVIOUS
  <2> DEFINE r == Height - n - 1
             x == Send("x", r \div Half)
             data == Send("data", frame[r])
  <2>1. n < Height
    BY DEF Sending
  <2>2. r \in Rows
    BY <2>1, Geometry
  <2>3. frame[r] \in Patterns /\ left[n] \in Seq(Transfers)
    BY <1>1, <2>2 DEF Glasses
  <2>4. x \in Transfers /\ data \in Transfers
    BY <2>2, <2>3, RowSent
  <2>5. <<data>> \o left[n] # <<>> /\ <<x>> \o (<<data>> \o left[n]) # <<>>
    <3> HIDE DEF left, x, data
    <3>1. QED
      BY <2>3, <2>4, OneMore
  <2>6. QED
    BY <2>5 DEF Sending
<1>3. PICK n \in 0..Height : Above(c, frame, Height - n) /\ left[n] = <<>>
  BY <1>2 DEF Writing
<1>4. Same(c, S, frame)
  BY DEF Writing
<1>5. PICK k \in 0..Height : /\ Above(c, frame, Height - k) /\ left[k] = <<>>
                             /\ k = 0 \/ Height - k \in S
  BY <1>3, <1>4, NextRow
<1>6. k = 0
  <2> SUFFICES ASSUME k # 0 PROVE FALSE
    OBVIOUS
  <2> DEFINE r == Height - k
  <2>1. k \in 1..Height /\ k - 1 \in 0..Height /\ r \in Rows /\ r \in S
    BY <1>5, Geometry
  <2>2. left[k] = Part(S, frame, k) \o left[k - 1]
    BY <2>1, LeftRows
  <2>3. frame[r] \in Patterns /\ left[k - 1] \in Seq(Transfers)
    BY <1>1, <2>1 DEF Glasses
  <2>4. <<>> = SendRow(r, frame[r]) \o left[k - 1]
    BY <1>5, <2>1, <2>2 DEF Part
  <2> HIDE DEF left, r
  <2> DEFINE xd == <<Send("x", r \div Half)>> \o (<<Send("data", frame[r])>> \o left[k - 1])
  <2>5. /\ SendRow(r, frame[r]) \o left[k - 1] = <<Send("y", r % Half)>> \o xd
        /\ Send("y", r % Half) \in Transfers /\ xd \in Seq(Transfers)
    BY <2>1, <2>3, RowSent, OneMore
  <2> HIDE DEF xd
  <2>6. QED
    BY <2>4, <2>5, OneMore
<1>7. \A r \in Rows : c.ram[r] = frame[r]
  BY <1>5, <1>6, Geometry DEF Above
<1>8. QED
  BY <1>7 DEF Chip, Glasses

LEMMA SentRows ==
    ASSUME NEW S, NEW frame \in Glasses
    PROVE  SendRows(S, frame) \in Seq(Transfers)
BY LeftRows, Geometry DEF SendRows

LEMMA BlankingType == Blanking \in Seq(Transfers)
BY SentRows, Geometry DEF Blanking

LEMMA PreludeIs ==
    /\ Prelude \in Seq(Transfers) /\ Len(Prelude) = 11
    /\ \A k \in 0..10 : Left(k) # <<>> /\ Head(Left(k)) = Prelude[k + 1] /\ Tail(Left(k)) = Left(k + 1)
    /\ Left(11) = Blanking
    /\ \A k \in 0..11 : Left(k) \in Seq(Transfers)
<1>1. \A name \in Names \ {"data"} : Op(name) \in Transfers
  BY DEF Op, Transfers, Names
<1>2. Prelude \in Seq(Transfers) /\ Len(Prelude) = 11
  BY <1>1 DEF Prelude, Names
<1> DEFINE Ops(k) == SubSeq(Prelude, k + 1, 11)
<1>3. \A i \in 1..11 : Prelude[i] \in Transfers
  BY <1>2, ElementOfSeq
<1>4. \A k \in 0..11 : Ops(k) \in Seq(Transfers)
  <2> TAKE k \in 0..11
  <2>1. k + 1 \in Int /\ 11 \in Int /\ \A i \in (k + 1)..11 : Prelude[i] \in Transfers
    BY <1>3
  <2>2. QED
    BY <2>1, SubSeqProperties
<1>5. \A k \in 0..10 : Ops(k) = <<Prelude[k + 1]>> \o Ops(k + 1)
  <2> TAKE k \in 0..10
  <2>1. k + 1 \in 1..Len(Prelude) /\ 11 \in (k + 1)..Len(Prelude)
    BY <1>2
  <2>2. SubSeq(Prelude, k + 1, 11) = <<Prelude[k + 1]>> \o SubSeq(Prelude, (k + 1) + 1, 11)
    BY <1>2, <2>1, SubSeqRecursiveFirst
  <2>3. QED
    BY <2>2
<1>6. Ops(11) = <<>>
  BY SubSeqEmpty
<1> HIDE DEF Ops
<1>7. \A k \in 0..11 : Left(k) = Ops(k) \o Blanking /\ Left(k) \in Seq(Transfers)
  BY <1>4, BlankingType, ConcatProperties DEF Left, Ops
<1>8. Left(11) = Blanking
  <2>1. Left(11) = Ops(11) \o Blanking
    BY DEF Left, Ops
  <2>2. QED
    BY <1>6, <2>1, BlankingType, ConcatEmptySeq
<1>9. ASSUME NEW k \in 0..10
      PROVE  Left(k) # <<>> /\ Head(Left(k)) = Prelude[k + 1] /\ Tail(Left(k)) = Left(k + 1)
  <2>1. k + 1 \in 0..11 /\ k \in 0..11 /\ Prelude[k + 1] \in Transfers
    BY <1>3
  <2>2. Left(k) = (<<Prelude[k + 1]>> \o Ops(k + 1)) \o Blanking
    BY <1>5, <1>7, <2>1
  <2>a. \A t \in Transfers : <<t>> \in Seq(Transfers)
    OBVIOUS
  <2>3. <<Prelude[k + 1]>> \in Seq(Transfers) /\ Ops(k + 1) \in Seq(Transfers)
    BY <1>4, <2>a, <2>1
  <2>4. Left(k) = <<Prelude[k + 1]>> \o (Ops(k + 1) \o Blanking)
    BY <2>2, <2>3, BlankingType, ConcatAssociative
  <2>5. Left(k) = <<Prelude[k + 1]>> \o Left(k + 1) /\ Left(k + 1) \in Seq(Transfers)
    BY <1>7, <2>1, <2>4
  <2>6. QED
    BY <2>1, <2>5, OneMore
<1>10. QED
  BY <1>2, <1>7, <1>8, <1>9

LEMMA Regroup ==
    \A s, t, u \in Seq(Transfers) : (s \o t) \o u = s \o (t \o u) /\ s \o t \in Seq(Transfers)
BY ConcatAssociative, ConcatProperties

(* The eleven transfers in one list.                                       *)
LEMMA Eleven ==
    \A r, b, c, o, e, h, x, g \in Transfers :
        /\ <<r>> \in Seq(Transfers) /\ <<b, b>> \o <<c, o, e, h>> \in Seq(Transfers)
        /\ <<x, x>> \o <<g, g>> \in Seq(Transfers)
        /\ <<r>> \o ((<<b, b>> \o <<c, o, e, h>>) \o (<<x, x>> \o <<g, g>>))
              = <<r, b, b, c, o, e, h, x, x, g, g>>
<1> TAKE r, b, c, o, e, h, x, g \in Transfers
<1> DEFINE u == <<b, b>> \o <<c, o, e, h>>
           v == <<x, x>> \o <<g, g>>
           one == <<r>>
           tail == u \o v
           l == one \o tail
           m == <<r, b, b, c, o, e, h, x, x, g, g>>
<1>1. /\ u \in Seq(Transfers) /\ Len(u) = 6 /\ u[1] = b /\ u[2] = b /\ u[3] = c /\ u[4] = o
      /\ u[5] = e /\ u[6] = h
  OBVIOUS
<1>2. v \in Seq(Transfers) /\ Len(v) = 4 /\ v[1] = x /\ v[2] = x /\ v[3] = g /\ v[4] = g
  OBVIOUS
<1>3. /\ m \in Seq(Transfers) /\ Len(m) = 11 /\ m[1] = r /\ m[2] = b /\ m[3] = b /\ m[4] = c
      /\ m[5] = o /\ m[6] = e /\ m[7] = h /\ m[8] = x /\ m[9] = x /\ m[10] = g /\ m[11] = g
  OBVIOUS
<1>4. one \in Seq(Transfers) /\ Len(one) = 1 /\ one[1] = r
  OBVIOUS
<1> HIDE DEF u, v, m, one
<1>5. /\ tail \in Seq(Transfers) /\ Len(tail) = 10
      /\ \A i \in 1..10 : tail[i] = IF i <= 6 THEN u[i] ELSE v[i - 6]
  <2>1. /\ u \o v \in Seq(Transfers) /\ Len(u \o v) = Len(u) + Len(v)
        /\ \A i \in 1..(Len(u) + Len(v)) : (u \o v)[i] = IF i <= Len(u) THEN u[i] ELSE v[i - Len(u)]
    BY <1>1, <1>2, ConcatProperties
  <2>2. QED
    BY <1>1, <1>2, <2>1
<1> HIDE DEF tail
<1>6. /\ l \in Seq(Transfers) /\ Len(l) = 11
      /\ \A i \in 1..11 : l[i] = IF i <= 1 THEN one[i] ELSE tail[i - 1]
  <2>1. /\ one \o tail \in Seq(Transfers) /\ Len(one \o tail) = Len(one) + Len(tail)
        /\ \A i \in 1..(Len(one) + Len(tail)) :
              (one \o tail)[i] = IF i <= Len(one) THEN one[i] ELSE tail[i - Len(one)]
    BY <1>4, <1>5, ConcatProperties
  <2> HIDE DEF l
  <2>2. /\ l \in Seq(Transfers) /\ Len(l) = Len(one) + Len(tail)
        /\ \A i \in 1..(Len(one) + Len(tail)) :
              l[i] = IF i <= Len(one) THEN one[i] ELSE tail[i - Len(one)]
    BY <2>1 DEF l
  <2>3. Len(one) = 1 /\ Len(one) + Len(tail) = 11
    BY <1>4, <1>5
  <2>4. QED
    BY <2>2, <2>3
<1> HIDE DEF l
<1>7. /\ l[1] = r /\ l[2] = b /\ l[3] = b /\ l[4] = c /\ l[5] = o /\ l[6] = e /\ l[7] = h
      /\ l[8] = x /\ l[9] = x /\ l[10] = g /\ l[11] = g
  BY <1>1, <1>2, <1>4, <1>5, <1>6
<1>8. l = m
  <2>1. \A i \in 1..11 : l[i] = m[i]
    BY <1>3, <1>7
  <2>2. QED
    BY <1>3, <1>6, <2>1, SeqEqual
<1>9. QED
  BY <1>1, <1>2, <1>4, <1>8 DEF u, v, l, m, one, tail

LEMMA OpeningIs == Opening = Left(0)
<1>1. \A name \in Names \ {"data"} : Op(name) \in Transfers
  BY DEF Op, Transfers, Names
<1>2. ASSUME NEW name PROVE Again(name) = <<Op(name), Op(name)>>
  BY DEF Again, Repeats
<1> DEFINE first == <<Op("reset")>>
           basic == Again("basic") \o <<Op("clear"), Op("on"), Op("entry"), Op("home")>>
           extended == Again("extended") \o Again("graphics")
<1>b. /\ Op("reset") \in Transfers /\ Op("basic") \in Transfers /\ Op("clear") \in Transfers
      /\ Op("on") \in Transfers /\ Op("entry") \in Transfers /\ Op("home") \in Transfers
      /\ Op("extended") \in Transfers /\ Op("graphics") \in Transfers
  BY <1>1 DEF Names
<1>3. /\ basic = <<Op("basic"), Op("basic")>> \o <<Op("clear"), Op("on"), Op("entry"), Op("home")>>
      /\ extended = <<Op("extended"), Op("extended")>> \o <<Op("graphics"), Op("graphics")>>
  BY <1>2
<1>c. /\ first \in Seq(Transfers) /\ basic \in Seq(Transfers) /\ extended \in Seq(Transfers)
      /\ first \o (basic \o extended) = Prelude
  <2>1. /\ first \in Seq(Transfers)
        /\ <<Op("basic"), Op("basic")>> \o <<Op("clear"), Op("on"), Op("entry"), Op("home")>>
              \in Seq(Transfers)
        /\ <<Op("extended"), Op("extended")>> \o <<Op("graphics"), Op("graphics")>>
              \in Seq(Transfers)
        /\ first \o ((<<Op("basic"), Op("basic")>>
                        \o <<Op("clear"), Op("on"), Op("entry"), Op("home")>>)
                     \o (<<Op("extended"), Op("extended")>> \o <<Op("graphics"), Op("graphics")>>))
              = Prelude
    <3> DEFINE bb == <<Op("basic"), Op("basic")>> \o <<Op("clear"), Op("on"), Op("entry"), Op("home")>>
               xx == <<Op("extended"), Op("extended")>> \o <<Op("graphics"), Op("graphics")>>
    <3>1. first \in Seq(Transfers) /\ bb \in Seq(Transfers)
      BY Eleven, <1>b
    <3>2. xx \in Seq(Transfers)
      BY Eleven, <1>b
    <3>3. first \o (bb \o xx) = Prelude
      BY SMTT(30), Eleven, <1>b DEF Prelude
    <3>4. QED
      BY <3>1, <3>2, <3>3
  <2> HIDE DEF basic, extended, first
  <2>2. QED
    BY <1>3, <2>1
<1>4. Opening = first \o (basic \o (extended \o Blanking))
  BY DEF Opening, Initialise, ForceClear
<1> HIDE DEF first, basic, extended
<1>5. Opening = Prelude \o Blanking
  <2> DEFINE both == basic \o extended
  <2>1. first \in Seq(Transfers) /\ both \in Seq(Transfers)
    BY <1>c, Regroup
  <2>2. basic \o (extended \o Blanking) = (basic \o extended) \o Blanking
    BY <1>c, BlankingType, Regroup
  <2>3. first \o ((basic \o extended) \o Blanking) = (first \o (basic \o extended)) \o Blanking
    <3> HIDE DEF both
    <3>1. first \o (both \o Blanking) = (first \o both) \o Blanking
      BY <2>1, BlankingType, Regroup
    <3>2. QED
      BY <3>1 DEF both
  <2>4. QED
    BY <1>4, <1>c, <2>2, <2>3
<1>6. SubSeq(Prelude, 1, 11) = Prelude
  BY PreludeIs, SubSeqFull
<1>7. Left(0) = Prelude \o Blanking
  <2>1. 0 + 1 = 1
    OBVIOUS
  <2>2. QED
    BY <1>6, <2>1 DEF Left
<1>8. QED
  BY <1>5, <1>7

(* The prelude puts a controller in any state on the way to be blanked.    *)
LEMMA PreparingGoesOn ==
    ASSUME NEW c \in Chip, NEW w, w # <<>>, Preparing(c, w)
    PROVE  \/ Preparing(Receive(c, Head(w)), Tail(w))
           \/ Writing(Receive(c, Head(w)), Tail(w), Rows, Empty)
           \/ Writing(c, w, Rows, Empty)
<1> DEFINE Stage(k, d) == /\ k >= 1 => ~d.stale
                          /\ k \in 3..7 => d.set = "basic"
                          /\ k >= 5 => d.lit
                          /\ k >= 8 => d.set = "extended"
                          /\ k >= 10 => d.graphics
           d == Receive(c, Head(w))
<1>1. PICK k \in 0..11 : w = Left(k) /\ Stage(k, c)
  BY DEF Preparing
<1>2. CASE k = 11
  <2>1. w = SendRows(Rows, Empty)
    BY <1>1, <1>2, PreludeIs DEF Blanking
  <2>2. c.lit /\ c.graphics /\ c.set = "extended" /\ ~c.stale
    BY <1>1, <1>2
  <2>3. QED
    BY <2>1, <2>2, WritingBegins, Geometry DEF Same
<1>3. CASE k # 11
  <2>1. k \in 0..10 /\ k + 1 \in 0..11
    BY <1>3
  <2>2. Head(w) = Prelude[k + 1] /\ Tail(w) = Left(k + 1)
    BY <1>1, <2>1, PreludeIs
  <2>3. Stage(k + 1, d)
    <3>1. CASE k = 0
      <4>1. ASSUME NEW t, t.op = "reset" PROVE Receive(c, t) = [c EXCEPT !.stale = FALSE]
        BY <4>1 DEF Receive
      <4>2. Prelude[1].op = "reset"
        BY DEF Prelude, Op
      <4>3. ~d.stale
        BY <2>2, <3>1, <4>1, <4>2 DEF Chip
      <4>4. QED
        BY <3>1, <4>3
    <3>2. CASE k \in {1, 2}
      BY <1>1, <2>2, <3>2 DEF Prelude, Receive, Execute, Op, Chip
    <3>3. CASE k = 3
      BY <1>1, <2>2, <3>3 DEF Prelude, Receive, Execute, Op, Chip
    <3>4. CASE k = 4
      BY <1>1, <2>2, <3>4 DEF Prelude, Receive, Execute, Op, Chip
    <3>5. CASE k \in {5, 6}
      BY <1>1, <2>2, <3>5 DEF Prelude, Receive, Execute, Op, Chip
    <3>6. CASE k \in {7, 8}
      BY <1>1, <2>2, <3>6 DEF Prelude, Receive, Execute, Op, Chip
    <3>7. CASE k \in {9, 10}
      BY <1>1, <2>2, <3>7 DEF Prelude, Receive, Execute, Op, Chip
    <3>8. QED
      BY <2>1, <3>1, <3>2, <3>3, <3>4, <3>5, <3>6, <3>7
  <2>4. QED
    BY <2>1, <2>2, <2>3 DEF Preparing
<1>4. QED
  BY <1>2, <1>3

LEMMA ShuttingType == Shutting \in Seq(Transfers)
<1>1. Op("basic") \in Transfers /\ Op("off") \in Transfers
  BY DEF Op, Transfers, Names
<1>2. <<Op("basic"), Op("off")>> \in Seq(Transfers)
  BY <1>1
<1>3. QED
  BY <1>2, BlankingType, Regroup DEF Shutting

(* Drawing touches the canvas and the queue only.                          *)
LEMMA DrawKeeps ==
    ASSUME PanelOK, NEW who \in {"menu", "saver"}, NEW f \in Glasses, Draw(who, f)
    PROVE  PanelOK'
<1>1. ASSUME NEW x, x = [by |-> who, frame |-> f]
      PROVE  x.by \in {"menu", "saver"} /\ x.frame \in Glasses
  BY <1>1
<1>2. /\ canvas' \in Glasses
      /\ \A x \in waiting' : x = Closing \/ (x.by \in {"menu", "saver"} /\ x.frame \in Glasses)
  BY <1>1 DEF Draw, PanelOK, PanelTypeOK
<1>3. UNCHANGED <<chip, holder, work, target, previous, started, failed>>
  BY DEF Draw
<1>4. PanelTypeOK'
  BY <1>2, <1>3 DEF PanelOK, PanelTypeOK
<1>5. DriverOK'
  BY <1>3 DEF PanelOK, DriverOK, Showing
<1>6. QED
  BY <1>4, <1>5 DEF PanelOK

(* The driver's state is as it was, but for the queue and the holder, who  *)
(* lets go of nothing it was sending.                                      *)
LEMMA PanelStep == PanelOK /\ [PanelNext]_panelVars => PanelOK'
<1> SUFFICES ASSUME PanelOK, [PanelNext]_panelVars PROVE PanelOK'
  OBVIOUS
<1>t. /\ chip \in Chip /\ canvas \in Glasses /\ work \in Seq(Transfers)
      /\ \A w \in waiting : w = Closing \/ (w.by \in {"menu", "saver"} /\ w.frame \in Glasses)
      /\ holder \in {"none", "open", "close", "menu", "saver"}
      /\ previous = Unknown \/ previous \in Glasses
  BY DEF PanelOK, PanelTypeOK
<1>d. DriverOK
  BY DEF PanelOK
<1>e. <<>> \in Seq(Transfers)
  OBVIOUS
<1>1. CASE Open
  <2>1. PanelTypeOK'
    BY <1>1, <1>t, OpeningIs, PreludeIs DEF Open, PanelTypeOK
  <2>2. Preparing(chip, Opening)
    BY OpeningIs DEF Preparing
  <2>3. Preparing(chip, work)'
    BY <1>1, <2>2 DEF Open, Preparing
  <2>4. DriverOK'
    BY <1>1, <2>3 DEF Open, DriverOK
  <2>5. QED
    BY <2>1, <2>4 DEF PanelOK
<1>2. CASE Redraw \/ DrawMenu \/ DrawSaver
  BY <1>2, <1>t, Geometry, DrawKeeps DEF Redraw, DrawMenu, DrawSaver
<1>3. ASSUME NEW w \in waiting, Flush(w) PROVE PanelOK'
  <2>1. w.by \in {"menu", "saver"} /\ w.frame \in Glasses
    BY <1>3, <1>t DEF Flush, Closing
  <2>2. CASE ~started
    <3>1. /\ UNCHANGED <<chip, holder, work, target, previous, started, failed, canvas>>
          /\ waiting' \subseteq waiting
      BY <1>3, <2>2 DEF Flush
    <3>2. PanelTypeOK'
      BY <1>t, <3>1 DEF PanelTypeOK
    <3>3. DriverOK'
      BY <1>d, <3>1 DEF DriverOK, Showing
    <3>4. QED
      BY <3>2, <3>3 DEF PanelOK
  <2>3. CASE started
    <3> DEFINE S == {r \in Rows : previous = Unknown \/ previous[r] # w.frame[r]}
    <3>1. /\ holder = "none" /\ holder' = w.by /\ target' = w.frame
          /\ work' = Difference(w.frame) /\ waiting' \subseteq waiting
          /\ UNCHANGED <<chip, previous, started, failed, canvas>>
      BY <1>3, <2>3 DEF Flush
    <3>2. previous # Unknown
      BY <1>d, <2>3, <3>1 DEF DriverOK
    <3>3. work' = SendRows(S, w.frame) /\ S \in SUBSET Rows
      BY <3>1 DEF Difference
    <3> HIDE DEF S
    <3>4. work' \in Seq(Transfers)
      BY <2>1, <3>3, SentRows
    <3>5. PanelTypeOK'
      BY <1>t, <2>1, <3>1, <3>4 DEF PanelTypeOK
    <3>6. ASSUME ~failed PROVE Writing(chip', work', S, target')
      <4>1. /\ chip.ram = previous /\ Showing
        BY <1>d, <3>1, <3>2, <3>6 DEF DriverOK
      <4>2. Same(chip, S, w.frame)
        BY <3>2, <4>1 DEF Same, S
      <4>3. Writing(chip, SendRows(S, w.frame), S, w.frame)
        BY <2>1, <3>3, <4>1, <4>2, WritingBegins DEF Showing
      <4>4. QED
        BY <3>1, <3>3, <4>3
    <3>7. DriverOK'
      <4>1. ~failed' => \E R \in SUBSET Rows : Writing(chip, work, R, target)'
        BY <3>1, <3>3, <3>6
      <4>2. QED
        BY <2>1, <3>1, <3>2, <4>1 DEF DriverOK
    <3>8. QED
      BY <3>5, <3>7 DEF PanelOK
  <2>4. QED
    BY <2>2, <2>3
<1>4. CASE AskToClose
  <2>1. /\ UNCHANGED <<chip, holder, work, target, previous, started, failed, canvas>>
        /\ waiting' = waiting \cup {Closing}
    BY <1>4 DEF AskToClose
  <2>2. PanelTypeOK'
    <3>1. ASSUME NEW w \in waiting'
          PROVE  w = Closing \/ (w.by \in {"menu", "saver"} /\ w.frame \in Glasses)
      <4>1. CASE w \in waiting
        BY <1>t, <4>1
      <4>2. CASE w = Closing
        BY <4>2
      <4>3. QED
        BY <2>1, <4>1, <4>2
    <3>2. QED
      BY <1>t, <2>1, <3>1 DEF PanelTypeOK
  <2>3. DriverOK'
    BY <1>d, <2>1 DEF DriverOK, Showing
  <2>4. QED
    BY <2>2, <2>3 DEF PanelOK
<1>5. CASE Close
  <2>1. /\ holder = "none" /\ holder' = "close" /\ target' = Unknown /\ work' = Shutting
        /\ waiting' \subseteq waiting /\ UNCHANGED <<chip, previous, started, failed, canvas>>
    BY <1>5 DEF Close
  <2>2. PanelTypeOK'
    BY <1>t, <2>1, ShuttingType DEF PanelTypeOK
  <2>3. DriverOK'
    BY <1>d, <2>1 DEF DriverOK
  <2>4. QED
    BY <2>2, <2>3 DEF PanelOK
<1>6. CASE Transfer
  <2> DEFINE c == Receive(chip, Head(work))
             v == Tail(work)
  <2>1. /\ work # <<>> /\ chip' = c /\ work' = v
        /\ UNCHANGED <<holder, target, previous, started, waiting, canvas, failed>>
    BY <1>6 DEF Transfer
  <2>2. Head(work) \in Transfers /\ v \in Seq(Transfers)
    BY <1>t, <2>1, HeadTailProperties
  <2>3. c \in Chip
    BY <1>t, <2>2, ReceiveType
  <2>4. PanelTypeOK'
    BY <1>t, <2>1, <2>2, <2>3 DEF PanelTypeOK
  <2>5. holder # "none"
    BY <1>d, <2>1 DEF DriverOK
  <2>6. ASSUME ~failed, holder = "open" PROVE Preparing(c, v) \/ Writing(c, v, Rows, Empty)
    <3>1. target = Empty /\ (Preparing(chip, work) \/ Writing(chip, work, Rows, Empty))
      BY <1>d, <2>6 DEF DriverOK
    <3>2. Rows \in SUBSET Rows /\ Empty \in Glasses
      BY Geometry
    <3>3. Writing(chip, work, Rows, Empty) => Writing(c, v, Rows, Empty)
      BY <1>t, <2>1, <3>2, WritingGoesOn
    <3>4. Preparing(chip, work) =>
             Preparing(c, v) \/ Writing(c, v, Rows, Empty) \/ Writing(chip, work, Rows, Empty)
      BY <1>t, <2>1, PreparingGoesOn
    <3>5. QED
      BY <3>1, <3>3, <3>4
  <2>7. ASSUME ~failed, holder \in {"menu", "saver"}
        PROVE  \E S \in SUBSET Rows : Writing(c, v, S, target)
    <3>1. PICK S \in SUBSET Rows : Writing(chip, work, S, target)
      BY <1>d, <2>7 DEF DriverOK
    <3>2. target \in Glasses
      BY <1>d, <2>7 DEF DriverOK
    <3>3. Writing(c, v, S, target)
      BY <1>t, <2>1, <3>1, <3>2, WritingGoesOn
    <3>4. QED
      BY <3>3
  <2> HIDE DEF c, v
  <2>8. DriverOK'
    <3>1. ~failed' /\ holder' = "open" =>
              Preparing(chip', work') \/ Writing(chip', work', Rows, Empty)
      BY <2>1, <2>6
    <3>2. ~failed' /\ holder' \in {"menu", "saver"} =>
              \E S \in SUBSET Rows : Writing(chip', work', S, target')
      BY <2>1, <2>7
    <3>3. QED
      BY <1>d, <2>1, <2>5, <3>1, <3>2
         DEF DriverOK
  <2>9. QED
    BY <2>4, <2>8 DEF PanelOK
<1>7. CASE Done
  <2>1. /\ holder # "none" /\ work = <<>> /\ holder' = "none" /\ previous' = target
        /\ started' = (started /\ holder # "close")
        /\ UNCHANGED <<chip, work, target, waiting, canvas, failed>>
    BY <1>7 DEF Done
  <2>2. /\ holder = "open" => target = Empty
        /\ holder = "close" => target = Unknown
        /\ holder \in {"menu", "saver"} => target \in Glasses
    BY <1>d DEF DriverOK
  <2>3. target = Unknown \/ target \in Glasses
    BY <1>t, <2>1, <2>2, Geometry
  <2>4. PanelTypeOK'
    BY <1>t, <2>1, <2>3 DEF PanelTypeOK
  <2>5. started' => previous' # Unknown
    BY <1>t, <2>1, <2>2, Geometry
  <2>6. ASSUME ~failed, target # Unknown PROVE chip.ram = target /\ Showing
    <3>1. CASE holder = "open"
      <4>1. Preparing(chip, work) => Writing(chip, work, Rows, Empty)
        <5> SUFFICES ASSUME Preparing(chip, work) PROVE Writing(chip, work, Rows, Empty)
          OBVIOUS
        <5>1. PICK k \in 0..11 :
                 /\ work = Left(k)
                 /\ k >= 1 => ~chip.stale
                 /\ k >= 5 => chip.lit
                 /\ k >= 8 => chip.set = "extended"
                 /\ k >= 10 => chip.graphics
          BY DEF Preparing
        <5>2. k = 11
          <6>1. Left(k) = <<>>
            BY <2>1, <5>1
          <6>2. k \notin 0..10
            BY <6>1, PreludeIs
          <6>3. QED
            BY <6>2
        <5>3. work = SendRows(Rows, Empty)
          BY <5>1, <5>2, PreludeIs DEF Blanking
        <5>4. chip.lit /\ chip.graphics /\ chip.set = "extended" /\ ~chip.stale
          BY <5>1, <5>2
        <5>5. QED
          BY <5>3, <5>4, WritingBegins, Geometry DEF Same
      <4>2. Writing(chip, <<>>, Rows, Empty)
        BY <1>d, <2>1, <2>6, <3>1, <4>1 DEF DriverOK
      <4>3. chip.ram = Empty
        BY <1>t, <4>2, WritingEnds, Geometry
      <4>4. QED
        BY <2>2, <3>1, <4>2, <4>3 DEF Writing, Showing
    <3>2. CASE holder \in {"menu", "saver"}
      <4>1. PICK S \in SUBSET Rows : Writing(chip, <<>>, S, target)
        BY <1>d, <2>1, <2>6, <3>2 DEF DriverOK
      <4>2. chip.ram = target
        BY <1>t, <2>2, <3>2, <4>1, WritingEnds
      <4>3. QED
        BY <4>1, <4>2 DEF Writing, Showing
    <3>3. QED
      BY <1>t, <2>1, <2>2, <2>6, <3>1, <3>2
  <2>7. DriverOK'
    BY <2>1, <2>5, <2>6 DEF DriverOK, Showing
  <2>8. QED
    BY <2>4, <2>7 DEF PanelOK
<1>8. CASE TransferFails
  <2>1. /\ work' = <<>> /\ holder' = "none" /\ failed'
        /\ started' = (started /\ holder \notin {"open", "close"})
        /\ previous' = IF holder = "close" THEN Unknown ELSE previous
        /\ UNCHANGED <<chip, waiting, canvas>>
    BY <1>8 DEF TransferFails
  <2>2. PanelTypeOK'
    BY <1>e, <1>t, <2>1 DEF PanelTypeOK
  <2>3. DriverOK'
    BY <1>d, <2>1 DEF DriverOK
  <2>4. QED
    BY <2>2, <2>3 DEF PanelOK
<1>9. CASE Kill
  <2>1. /\ work' = <<>> /\ holder' = "none" /\ previous' = Unknown /\ ~started' /\ waiting' = {}
        /\ canvas' = canvas
        /\ \E torn \in BOOLEAN : chip' = [chip EXCEPT !.stale = @ \/ torn]
    BY <1>9 DEF Kill
  <2>2. chip' \in Chip
    BY <1>t, <2>1 DEF Chip
  <2>3. PanelTypeOK'
    BY <1>e, <1>t, <2>1, <2>2 DEF PanelTypeOK
  <2>4. DriverOK'
    BY <2>1 DEF DriverOK
  <2>5. QED
    BY <2>3, <2>4 DEF PanelOK
<1>10. CASE StartOver \/ UNCHANGED panelVars
  <2>1. UNCHANGED <<chip, holder, work, target, previous, started, waiting, failed, canvas>>
    BY <1>10 DEF StartOver, panelVars
  <2>2. PanelTypeOK'
    BY <1>t, <2>1 DEF PanelTypeOK
  <2>3. DriverOK'
    BY <1>d, <2>1 DEF DriverOK, Showing
  <2>4. QED
    BY <2>2, <2>3 DEF PanelOK
<1>11. QED
  BY <1>1, <1>2, <1>3, <1>4, <1>5, <1>6, <1>7, <1>8, <1>9, <1>10 DEF PanelNext

LEMMA PanelStart == PanelInit => PanelOK
<1> SUFFICES ASSUME PanelInit PROVE PanelOK
  OBVIOUS
<1>1. /\ holder = "none" /\ work = <<>> /\ previous = Unknown /\ ~started
      /\ waiting = {} /\ canvas = Empty
  BY DEF PanelInit
<1>2. chip \in Chip
  BY Geometry DEF PanelInit, Chip
<1>3. QED
  BY <1>1, <1>2, Geometry DEF PanelOK, PanelTypeOK, DriverOK

(* The frame the driver believes to be on the glass is on it, for any      *)
(* height, patterns and frames, and any kills and refused transfers.       *)
THEOREM GlassCanBeBelieved == PanelSpec => []GlassIsBelieved
<1>1. PanelOK => GlassIsBelieved
  BY DEF PanelOK, DriverOK, GlassIsBelieved
<1>2. QED
  BY <1>1, PanelStart, PanelStep, PTL DEF PanelSpec
=============================================================================
