------------------------------- MODULE Button -------------------------------
(***************************************************************************)
(* The button (buttons/multi_button.c, buttons/button_driver.c): each tick *)
(* of a timer reads the pin, debounces it and takes a step of a state      *)
(* machine that tells single, double and long presses apart.               *)
(***************************************************************************)
EXTENDS Naturals

CONSTANTS DEBOUNCE_TICKS,  \* 3
          SHORT_TICKS,     \* 60
          LONG_TICKS,      \* 200
          PRESS_REPEAT_MAX_NUM  \* 15

ASSUME ButtonAssumption ==
    /\ {DEBOUNCE_TICKS, SHORT_TICKS, LONG_TICKS} \subseteq Nat \ {0}
    /\ SHORT_TICKS + 1 < LONG_TICKS /\ PRESS_REPEAT_MAX_NUM \in Nat /\ PRESS_REPEAT_MAX_NUM > 2

VARIABLES pressed,       \* button_level = active_level
          debounce_cnt,
          state, ticks, repeat,
          event,         \* the callback of this tick: "none", "single", "double" or "long"
          since,         \* history: ticks since pressed last changed
          presses        \* history: presses of the burst, 3 for more, 0 outside one

buttonVars == <<pressed, debounce_cnt, state, ticks, repeat, event, since, presses>>

ButtonInit == /\ pressed = FALSE /\ debounce_cnt = 0
              /\ state = 0 /\ ticks = 0 /\ repeat = 0 /\ event = "none"
              /\ since = 0 /\ presses = 0

(* Three readings in a row that differ change the level. *)
Debounce(down) ==
    IF down # pressed /\ debounce_cnt + 1 >= DEBOUNCE_TICKS
    THEN pressed' = down /\ debounce_cnt' = 0
    ELSE /\ UNCHANGED pressed
         /\ debounce_cnt' = IF down # pressed THEN debounce_cnt + 1 ELSE 0

Go(s, t, r, e) == state' = s /\ ticks' = t /\ repeat' = r /\ event' = e

(* Fault: every press after the first starts a count of its own. *)
AgainUncounted == Go(3, 0, repeat, "none")

(* Pressed again within the time of a click. *)
Again == Go(3, 0, IF repeat # PRESS_REPEAT_MAX_NUM THEN repeat + 1 ELSE repeat, "none")

Clicked == CASE repeat = 1 -> "single" [] repeat = 2 -> "double" [] OTHER -> "none"

(* The state machine, down as debounced and t ticks after its last reset.  *)
StateMachine(down, t) ==
    \/ state = 0 /\  down /\ Go(1, 0, 1, "none")
    \/ state = 0 /\ ~down /\ Go(0, ticks, repeat, "none")
    \/ state = 1 /\ ~down /\ Go(2, 0, repeat, "none")
    \/ state = 1 /\  down /\ IF t > LONG_TICKS THEN Go(5, t, repeat, "long")
                                               ELSE Go(1, t, repeat, "none")
    \/ state = 2 /\  down /\ Again
    \/ state = 2 /\ ~down /\ IF t > SHORT_TICKS THEN Go(0, t, repeat, Clicked)
                                                ELSE Go(2, t, repeat, "none")
    \/ state = 3 /\ ~down /\ IF t < SHORT_TICKS THEN Go(2, 0, repeat, "none")
                                                ELSE Go(0, t, repeat, "none")
    \/ state = 3 /\  down /\ Go(IF t > SHORT_TICKS THEN 1 ELSE 3, t, repeat, "none")
    \/ state = 5 /\ Go(IF down THEN 5 ELSE 0, ticks, repeat, "none")

(* For the history: with this change of the level a burst of presses is    *)
(* over, since nothing was pressed for long enough, or a press was long or *)
(* of the length at which the burst is forgotten.                          *)
BurstEnds ==
    \/ ~pressed /\ since > SHORT_TICKS
    \/ pressed /\ since > LONG_TICKS
    \/ pressed /\ presses > 1 /\ since \in {SHORT_TICKS - 1, SHORT_TICKS}

(* button_handler; bound: nothing is counted while a long press lasts.     *)
ButtonTick(down) ==
    /\ Debounce(down)
    /\ StateMachine(pressed', IF state > 0 THEN ticks + 1 ELSE ticks)
    /\ since' = IF pressed' # pressed THEN 0
                ELSE IF since > LONG_TICKS + 1 THEN since ELSE since + 1
    /\ presses' = CASE pressed' = pressed -> presses
                    [] pressed' # pressed /\ ~BurstEnds -> presses + (IF pressed' /\ presses < 3 THEN 1 ELSE 0)
                    [] pressed' # pressed /\  BurstEnds -> IF pressed' THEN 1 ELSE 0

----------------------------------------------------------------------------
(* A single click is reported after exactly one press no longer than a     *)
(* long one and the time of a click with no other, a double click after    *)
(* two, and a long press while it lasts; nothing else is, and each of them *)
(* is.  A burst is forgotten when a press after its first lasts exactly    *)
(* SHORT_TICKS, or one tick more.                                          *)
ClicksMatchPresses ==
    LET over == ~pressed /\ since = SHORT_TICKS + 1
    IN /\ event = "single" <=> over /\ presses = 1
       /\ event = "double" <=> over /\ presses = 2
       /\ event = "long" <=> pressed /\ since = LONG_TICKS + 1
=============================================================================
