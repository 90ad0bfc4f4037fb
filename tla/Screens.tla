------------------------------ MODULE Screens ------------------------------
(***************************************************************************)
(* The screens of the menu (screen.py) as their operator meets them: lists,*)
(* lists of boxes, pages, watched lists and answers typed key by key; the  *)
(* window over a list longer than the panel; the screen saver; and the     *)
(* queue between the keypad's thread and the menu, which nothing empties.  *)
(*                                                                         *)
(* Every widget is the same loop: draw, show, wait a second for a key.     *)
(***************************************************************************)
EXTENDS Integers, Sequences, FiniteSets

CONSTANTS
    BodyRows,       \* BODY_ROWS, 3 on the panel
    StatusStep,     \* lines the status screen moves on by, 6 in the code
    Totals,         \* lengths of the lists and pages that are opened
    MaxLength,      \* MAX_LINE_LENGTH, 24 in the code
    MaxAhead,       \* bound: keys waiting in the queue
    MaxScreens      \* bound: screens opened

ASSUME ScreensAssumption ==
    /\ BodyRows \in Nat \ {0} /\ StatusStep \in Nat \ {0} /\ MaxLength \in Nat
    /\ Totals \subseteq Nat

VARIABLES
    ui,         \* the widget that runs, kind "none" between two of them;
                \* covered if the saver took the place of its first drawing
    phase,      \* "draw", "wait" before the key, "read" for the key
    glass,      \* what the panel shows
    saver,      \* the screen saver is active
    idle,       \* no key for longer than its TIMEOUT
    keys,       \* the queue: key, what was on the glass, and was it in step
    lines,      \* lines of this page that were on the glass
    opened

screenVars == <<ui, phase, glass, saver, idle, keys, lines, opened>>

Lists == {"list", "boxes"}
Kinds == Lists \cup {"page", "watch", "line", "status"}
Keys  == {"up", "down", "enter", "next", "cancel", "del", "digit"}
None  == [kind |-> "none", total |-> 0, index |-> 0, top |-> 0, text |-> 0, ticked |-> {},
          covered |-> FALSE]
Saver == [kind |-> "saver", top |-> 0, index |-> 0]

LeastOf(a, b) == IF a < b THEN a ELSE b
MostOf(a, b)  == IF a > b THEN a ELSE b
Limit(u)  == MostOf(0, u.total - BodyRows)
Window(v, total) == {p \in 0..(total - 1) : v.top <= p /\ p < v.top + BodyRows}

(* A slip for Follow: the row below the window counts as inside it.        *)
FollowLate(u) ==
    LET top == CASE u.index < u.top            -> u.index
                 [] u.index > u.top + BodyRows -> u.index - BodyRows + 1
                 [] OTHER                      -> u.top
    IN  [u EXCEPT !.top = MostOf(0, LeastOf(top, Limit(u)))]

(* The window moves as little as it takes to keep the selection in it.     *)
Follow(u) ==
    LET top == CASE u.index < u.top             -> u.index
                 [] u.index >= u.top + BodyRows -> u.index - BodyRows + 1
                 [] OTHER                       -> u.top
    IN  [u EXCEPT !.top = MostOf(0, LeastOf(top, Limit(u)))]

ScreensInit ==
    /\ ui = None /\ phase = "draw" /\ glass = [None EXCEPT !.kind = "splash"]
    /\ saver = FALSE /\ idle = FALSE /\ keys = <<>> /\ lines = {} /\ opened = 0

(* The menu opens its next screen, after a key or after something that may *)
(* have taken its time.                                                    *)
OpenScreen ==
    /\ ui.kind = "none" /\ opened < MaxScreens
    /\ \E kind \in Kinds, total \in Totals, index \in 0..2 :
          /\ index < total
          /\ kind \notin Lists => index = 0
          /\ kind = "line" => total = 1
          /\ ui' = [None EXCEPT !.kind = kind, !.total = total, !.index = index]
    /\ phase' = "draw" /\ lines' = {} /\ opened' = opened + 1
    /\ UNCHANGED <<glass, saver, idle, keys>>

(* frame() takes the saver down, render() puts it up again over the very   *)
(* frame that was drawn if nobody has pressed anything for a minute.  A    *)
(* watched list is read anew and may have become shorter.                  *)
DrawScreen ==
    /\ ui.kind # "none" /\ phase = "draw"
    /\ \E total \in IF ui.kind = "watch" THEN Totals ELSE {ui.total} :
          LET sized == [ui EXCEPT !.total = total, !.covered = @ \/ (idle /\ lines = {})]
              now   == CASE ui.kind \in Lists  -> Follow(sized)
                         [] ui.kind = "watch"  -> [sized EXCEPT !.top = LeastOf(@, Limit(sized))]
                         [] OTHER              -> sized
              view  == [kind |-> now.kind, top |-> now.top, index |-> now.index]
          IN  /\ ui' = now
              /\ saver' = idle
              /\ glass' = IF idle THEN Saver ELSE view
              /\ lines' = IF idle THEN lines ELSE lines \cup Window(now, now.total)
    /\ phase' = "wait"
    /\ UNCHANGED <<idle, keys, opened>>

(* _key(): the saver is faded out of the canvas, not off the glass, and    *)
(* the key that is read next goes to the widget underneath.                *)
AwaitKey ==
    /\ ui.kind \notin {"none", "status"} /\ phase = "wait"
    /\ phase' = "read" /\ saver' = FALSE
    /\ UNCHANGED <<ui, glass, idle, keys, lines, opened>>

(* A second without a key: the same screen is drawn again.                 *)
SecondPasses ==
    /\ phase = "read" /\ keys = <<>>
    /\ phase' = "draw"
    /\ UNCHANGED <<ui, glass, saver, idle, keys, lines, opened>>

(* Not between a key and the drawing it leads to.                          *)
MinutePasses ==
    /\ phase = "read" \/ ui.kind = "none" \/ (ui.kind = "status" /\ phase = "wait")
    /\ ~idle /\ idle' = TRUE /\ keys = <<>>
    /\ UNCHANGED <<ui, phase, glass, saver, keys, lines, opened>>

(* A press, as the operator decided on it: looking at the glass, which is  *)
(* in step with the menu when a screen is up and no key is on its way.     *)
PressKey ==
    /\ Len(keys) < MaxAhead
    /\ \E k \in Keys :
          keys' = Append(keys, [key |-> k, saw |-> glass,
                                inStep |-> keys = <<>> /\ ui.kind # "none" /\ phase # "draw"])
    /\ UNCHANGED <<ui, phase, glass, saver, idle, lines, opened>>

Scroll(u, k) ==
    [u EXCEPT !.index = IF k = "up" THEN (@ - 1 + u.total) % u.total ELSE (@ + 1) % u.total]
Roll(u, k) ==
    [u EXCEPT !.top = IF k = "up" THEN MostOf(0, @ - 1) ELSE LeastOf(Limit(u), @ + 1)]
ToggleBox(u) ==
    [u EXCEPT !.ticked = IF u.index \in @ THEN @ \ {u.index} ELSE @ \cup {u.index}]

(* select() and select_list().                                             *)
ListKey(u, k) ==
    CASE k \in {"up", "down"}              -> Scroll(u, k)
      [] k \in {"enter", "next", "cancel"} -> None
      [] OTHER                             -> u

BoxKey(u, k) ==
    CASE k \in {"up", "down"}     -> Scroll(u, k)
      [] k = "enter"              -> ToggleBox(u)
      [] k \in {"next", "cancel"} -> None
      [] OTHER                    -> u

(* A slip for PageKey: a page and a line at a time.                        *)
PageTooFar(u, k) ==
    CASE k \in {"up", "down"} -> Roll(u, k)
      [] k = "cancel"         -> None
      [] k = "enter"          -> IF u.top >= Limit(u) THEN None
                                 ELSE [u EXCEPT !.top = LeastOf(Limit(u), @ + BodyRows + 1)]
      [] OTHER                -> u

(* Enter pages forward, and closes the page at its end.                    *)
PageKey(u, k) ==
    CASE k \in {"up", "down"} -> Roll(u, k)
      [] k = "cancel"         -> None
      [] k = "enter"          -> IF u.top >= Limit(u) THEN None
                                 ELSE [u EXCEPT !.top = LeastOf(Limit(u), @ + BodyRows)]
      [] OTHER                -> u

WatchKey(u, k) == IF k \in {"up", "down"} THEN Roll(u, k) ELSE None

(* LineEditor.feed(); the keys that scroll a list are digits here.         *)
Feed(length, k) ==
    IF k = "del" THEN MostOf(0, length - 1) ELSE LeastOf(MaxLength, length + 1)
LineKey(u, k) ==
    IF k \in {"enter", "next", "cancel"} THEN None ELSE [u EXCEPT !.text = Feed(@, k)]

Handle(u, k) ==
    CASE u.kind = "list"  -> ListKey(u, k)
      [] u.kind = "boxes" -> BoxKey(u, k)
      [] u.kind = "page"  -> PageKey(u, k)
      [] u.kind = "watch" -> WatchKey(u, k)
      [] u.kind = "line"  -> LineKey(u, k)

TakeKey ==
    /\ phase = "read" /\ keys # <<>>
    /\ ui' = Handle(ui, Head(keys).key)
    /\ keys' = Tail(keys)
    /\ idle' = FALSE /\ phase' = "draw"
    /\ UNCHANGED <<glass, saver, lines, opened>>

(* _run_status_display(): what a device without a keypad shows.  No key is *)
(* waited for, half a minute is.                                           *)
TurnStatus ==
    /\ ui.kind = "status" /\ phase = "wait"
    /\ ui' = [ui EXCEPT !.top = IF @ + StatusStep < ui.total THEN @ + StatusStep ELSE 0]
    /\ phase' = "draw"
    /\ UNCHANGED <<glass, saver, idle, keys, lines, opened>>

ScreensNext ==
    \/ OpenScreen \/ DrawScreen \/ AwaitKey \/ SecondPasses \/ MinutePasses
    \/ PressKey \/ TakeKey \/ TurnStatus

ScreensSpec == ScreensInit /\ [][ScreensNext]_screenVars

(* ------------------------------ properties ----------------------------- *)

Chosen ==
    /\ ui.kind \in Lists /\ keys # <<>>
    /\ Head(keys).key = "enter" \/ (ui.kind = "list" /\ Head(keys).key = "next")

(* The row that is chosen or ticked is the row that was highlighted within *)
(* the window on the glass when the key was pressed.  Not when the key was *)
(* typed ahead of the panel, and not when it is the one that wakes it.     *)
ChoiceWasSeen ==
    [][ LET press == Head(keys) IN
        TakeKey /\ Chosen /\ press.inStep /\ press.saw # Saver
          => /\ press.saw.kind = ui.kind /\ press.saw.index = ui.index
             /\ ui.index \in Window(press.saw, ui.total) ]_screenVars

(* A page that was left at its end by Enter was on the glass line by line, *)
(* however it was scrolled and whatever was typed ahead; a page whose      *)
(* first drawing the screen saver took the place of is the exception.      *)
ReadToTheEnd ==
    [][ TakeKey /\ ui.kind = "page" /\ ui'.kind = "none" /\ Head(keys).key = "enter"
             /\ ~ui.covered
          => lines = 0..(ui.total - 1) ]_screenVars

=============================================================================
