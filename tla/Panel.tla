------------------------------- MODULE Panel -------------------------------
(***************************************************************************)
(* The screen of MimiClaw (ui/config_screen.c, imu/imu_manager.c,          *)
(* buttons/button_driver.c, display/display.c,                             *)
(* tools/tool_display_text.c): a shake switches the configuration screen   *)
(* on and off, a click moves its selection or changes the backlight, a     *)
(* timer moves the selected line, the agent draws texts.  Three tasks draw *)
(* with one frame buffer and nothing keeps them apart; the timer task,     *)
(* which has both timers, also comes between two steps of the others.      *)
(***************************************************************************)
EXTENDS Integers, Button

CONSTANTS CONFIG_LINES,  \* 9
          Overhangs,     \* by how much a line may be wider than its column
          SCROLL_STEP,   \* 4
          BACKLIGHT_MIN_PERCENT, BACKLIGHT_MAX_PERCENT, BACKLIGHT_STEP_PERCENT

ASSUME PanelAssumption ==
    /\ CONFIG_LINES \in Nat \ {0} /\ SCROLL_STEP \in Nat \ {0}
    /\ Overhangs # {} /\ Overhangs \subseteq Nat

VARIABLES lines,       \* the overhang of each line, as last built
          active, selected, offset, dir,  \* s_active, s_scroll, s_sel_offset_px, s_sel_dir
          shaken,      \* where the shake task is in config_screen_toggle
          drawing,     \* drawing[d]: what task d is drawing
          screen,      \* what the panel shows
          backlight

config     == <<lines, active, selected, offset, dir>>
panelVars  == <<config, shaken, drawing, screen, backlight>>
vars       == <<buttonVars, panelVars>>

Drawers == {"timer", "imu", "agent"}

(* What a draw shows, and whether no other draw was under way meanwhile.   *)
View(kind, line, px, clean) == [kind |-> kind, line |-> line, px |-> px, clean |-> clean]
Banner  == View("banner", 0, 0, TRUE)
Text    == View("text", 0, 0, TRUE)
Mixed   == View("mixed", 0, 0, TRUE)   \* what two draws at a time leave
Nothing == View("nothing", 0, 0, TRUE)

(* app_main drew the banner and built the lines before the tasks started.  *)
Init == /\ ButtonInit
        /\ lines \in [0..CONFIG_LINES - 1 -> Overhangs] /\ active = FALSE
        /\ selected = 0 /\ offset = 0 /\ dir = 1
        /\ shaken = "no" /\ drawing = [d \in Drawers |-> Nothing]
        /\ screen = Banner /\ backlight = 50

(* Draws begin and end: each fills the frame buffer and sends it, so that  *)
(* those which overlap spoil each other.                                   *)
Draw(d, view) ==
    LET others == {e \in Drawers \ {d} : drawing[e] # Nothing}
    IN drawing' = [e \in Drawers |->
           IF e = d THEN [view EXCEPT !.clean = others = {}]
           ELSE IF e \in others THEN [drawing[e] EXCEPT !.clean = FALSE] ELSE Nothing]

Drawn(d) ==
    /\ drawing[d] # Nothing /\ drawing' = [drawing EXCEPT ![d] = Nothing]
    /\ screen' = IF drawing[d].clean THEN drawing[d] ELSE Mixed
    /\ UNCHANGED <<buttonVars, config, shaken, backlight>>

----------------------------------------------------------------------------
(* The timer task *)

TimerFree == drawing["timer"] = Nothing

(* Fault: the next line starts where the last one was. *)
ScrollDownKeeping ==
    LET next == (selected + 1) % CONFIG_LINES
    IN /\ selected' = next /\ Draw("timer", View("config", next, offset, TRUE))
       /\ UNCHANGED <<lines, active, offset, dir, backlight>>

(* config_screen_scroll_down *)
ScrollDown ==
    LET next == (selected + 1) % CONFIG_LINES
    IN /\ selected' = next /\ offset' = 0 /\ dir' = 1
       /\ Draw("timer", View("config", next, 0, TRUE))
       /\ UNCHANGED <<lines, active, backlight>>

CycleBacklight ==
    /\ backlight' = IF backlight + BACKLIGHT_STEP_PERCENT > BACKLIGHT_MAX_PERCENT
                    THEN BACKLIGHT_MIN_PERCENT ELSE backlight + BACKLIGHT_STEP_PERCENT
    /\ UNCHANGED <<config, drawing>>

(* Timer_Callback and the callbacks of the button. *)
Tick ==
    /\ TimerFree /\ \E down \in BOOLEAN : ButtonTick(down)
    /\ CASE event' = "single" /\  active -> ScrollDown
         [] event' = "single" /\ ~active -> CycleBacklight
         [] OTHER -> UNCHANGED <<config, drawing, backlight>>
    /\ UNCHANGED <<shaken, screen>>

(* update_selected_scroll: the selected line moves to and fro; one that    *)
(* fits its column is not drawn again.                                     *)
ScrollTick ==
    /\ TimerFree /\ active
    /\ LET end == lines[selected]
           to  == offset + dir * SCROLL_STEP
       IN IF end = 0 THEN offset' = 0 /\ dir' = 1 /\ UNCHANGED drawing
          ELSE /\ offset' = IF to >= end THEN end ELSE IF to <= 0 THEN 0 ELSE to
               /\ dir' = IF to >= end THEN -1 ELSE IF to <= 0 THEN 1 ELSE dir
               /\ Draw("timer", View("config", selected, offset', TRUE))
    /\ UNCHANGED <<buttonVars, lines, active, selected, shaken, screen, backlight>>

----------------------------------------------------------------------------
(* The shake task: config_screen_toggle *)

Shaken(from, to) == shaken = from /\ shaken' = to

SwitchOff ==
    /\ active /\ Shaken("no", "off") /\ active' = FALSE
    /\ UNCHANGED <<buttonVars, lines, selected, offset, dir, drawing, screen, backlight>>

(* The settings may have changed since the lines were built. *)
Rebuild ==
    /\ ~active /\ Shaken("no", "built")
    /\ lines' \in [0..CONFIG_LINES - 1 -> Overhangs]
    /\ UNCHANGED <<buttonVars, active, selected, offset, dir, drawing, screen, backlight>>

SwitchOn ==
    /\ Shaken("built", "on")
    /\ selected' = 0 /\ offset' = 0 /\ dir' = 1 /\ active' = TRUE
    /\ UNCHANGED <<buttonVars, lines, drawing, screen, backlight>>

(* It draws what the timer task has made of the selection since. *)
DrawSwitched ==
    /\ \/ Shaken("off", "drawing") /\ Draw("imu", Banner)
       \/ Shaken("on", "drawing") /\ Draw("imu", View("config", selected, offset, TRUE))
    /\ UNCHANGED <<buttonVars, config, screen, backlight>>

ToggleEnds ==
    /\ drawing["imu"] = Nothing /\ Shaken("drawing", "no")
    /\ UNCHANGED <<buttonVars, config, drawing, screen, backlight>>

(* The agent: tool_display_text_execute with a text that can be shown.     *)
DrawText ==
    /\ drawing["agent"] = Nothing /\ Draw("agent", Text)
    /\ UNCHANGED <<buttonVars, config, shaken, screen, backlight>>

----------------------------------------------------------------------------
Next == \/ Tick \/ ScrollTick \/ DrawText
        \/ SwitchOff \/ Rebuild \/ SwitchOn \/ DrawSwitched \/ ToggleEnds
        \/ \E d \in Drawers : Drawn(d)

Spec == Init /\ [][Next]_vars

(* When nobody draws and no shake is being handled, the panel shows the    *)
(* banner or the configuration screen as the state has it, the selected    *)
(* line moved no further than its end; unless the last to draw was the     *)
(* agent, or two tasks drew at a time.                                     *)
ScreenFollows ==
    shaken = "no" /\ (\A d \in Drawers : drawing[d] = Nothing) =>
        /\ screen \in {Text, Mixed}
                \cup {IF active THEN View("config", selected, offset, TRUE) ELSE Banner}
        /\ active => offset <= lines[selected]
=============================================================================
