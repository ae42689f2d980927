---- MODULE MCInputStream ----
(***************************************************************************)
(* Scenarios of the input stream for TLC: what each thread of the client   *)
(* may call, in any order and up to a budget, and the host.                *)
(***************************************************************************)
EXTENDS InputStream

CONSTANTS A, B    \* two threads of the client
MCCallers == {A, B}

By(a, b) == [c \in MCCallers |-> IF c = A THEN a ELSE b]
Quiet == [host |-> "sunshine", calls |-> By({}, {}), budget |-> By(2, 0), notches |-> FALSE,
          badText |-> FALSE, faults |-> FALSE, pings |-> FALSE, haptics |-> TRUE]

XY(dx, dy) == [fn |-> "LiSendMouseMoveEvent", delta |-> [a \in Axis |-> IF a = "x" THEN dx ELSE dy]]
At(p)      == [fn |-> "LiSendMousePositionEvent", at |-> p]
Key(name)  == [fn |-> name]
Pad(pad, mask, low, high, axes) ==
    [fn |-> "LiSendMultiControllerEvent", pad |-> pad, mask |-> mask, low |-> low,
     high |-> high, axes |-> axes]
Arrival(pad, mask) == [fn |-> "LiSendControllerArrivalEvent", pad |-> pad, mask |-> mask]
Turn(pad, v) == [fn |-> "LiSendControllerMotionEvent", pad |-> pad, motion |-> "gyro", value |-> v]
Pen(type, buttons, p) == [fn |-> "LiSendPenEvent", type |-> type, buttons |-> buttons, at |-> p]
Touch(type) == [fn |-> "LiSendTouchEvent", type |-> type]
Text(points) == [fn |-> "LiSendUtf8TextEvent", points |-> points]
Roll(amount) == [fn |-> "LiSendHighResScrollEvent", amount |-> amount]

(* Long moves in both directions beside a click, with a queue that fills. *)
Mice == [Quiet EXCEPT !.budget = By(2, 1), !.faults = TRUE,
    !.calls = By({XY(4, -1), XY(-2, -4)}, {Key("LiSendMouseButtonEvent")})]
(* Positions and readings of a sensor, each only the newest.               *)
Places == [Quiet EXCEPT !.budget = By(2, 1), !.calls = By({At(1), At(2)}, {Turn(0, 0)})]
Turns  == [Quiet EXCEPT !.budget = By(2, 1), !.calls = By({Turn(1, 1), Turn(1, 0)}, {At(1)})]
(* Sticks and buttons, of a host with all buttons, one with half of them   *)
(* and a single controller, and one that batches nothing.                  *)
Gamepads == [Quiet EXCEPT !.budget = By(3, 0),
    !.calls = By({Pad(0, {0}, 0, 0, 1), Pad(0, {0}, 0, 0, 2), Pad(0, {0}, 0, 1, 2)}, {})]
OldGamepads == [Gamepads EXCEPT !.host = "gfe", !.haptics = FALSE, !.budget = By(2, 1),
    !.calls = By({Pad(0, {0}, 0, 0, 1), Pad(0, {0}, 1, 1, 2)}, {Pad(1, {0, 1}, 0, 0, 2)})]
OldestGamepads == [OldGamepads EXCEPT !.host = "gen3", !.faults = TRUE]
(* A second controller comes while the first moves.                        *)
Arrivals == [Quiet EXCEPT !.budget = By(1, 1),
    !.calls = By({Pad(0, {0}, 0, 0, 1)}, {Arrival(1, {0, 1})})]
(* A pen, and a finger beside it.                                          *)
Pens == [Quiet EXCEPT !.budget = By(3, 0),
    !.calls = By({Pen("move", 0, 1), Pen("move", 1, 1), Pen("move", 1, 2)}, {})]
Fingers == [Quiet EXCEPT !.budget = By(1, 1),
    !.calls = By({Pen("hover", 1, 1), Pen("down", 1, 1)}, {Touch("move"), Touch("up")})]
(* Text after a key, with a host that answers before the next ping; with   *)
(* pings that may keep the peer busy and a peer that may be lost; and text *)
(* that is not valid, or empty.                                            *)
QuietTexts == [Quiet EXCEPT !.budget = By(1, 1),
    !.calls = By({Text(2)}, {Key("LiSendKeyboardEvent2"), XY(1, 1)})]
Texts == [QuietTexts EXCEPT !.faults = TRUE, !.pings = TRUE]
BadTexts == [Texts EXCEPT !.badText = TRUE, !.calls = By({Text(2), Text(0)}, {}), !.budget = By(1, 0)]
(* Scrolls that are batched to whole notches, and forget when they turn,   *)
(* of one thread and of two, whose sum is shared.                          *)
Scrolls == [Quiet EXCEPT !.host = "gfe", !.notches = TRUE, !.budget = By(3, 0),
    !.calls = By({Roll(1), Roll(5), Roll(-3)}, {})]
SharedScrolls == [Scrolls EXCEPT !.budget = By(1, 1), !.calls = By({Roll(5), Roll(1)}, {Roll(2), Roll(-3)})]
FineScrolls == [Scrolls EXCEPT !.notches = FALSE, !.budget = By(1, 0)]

MCScenarios == {Mice, Places, Turns, Gamepads, OldGamepads, OldestGamepads, Arrivals, Pens,
                Fingers, QuietTexts, Texts, BadTexts, Scrolls, SharedScrolls, FineScrolls}
PenScenario == {Pens}
==============================
