\* A button of short times, two lines that fit or do not.
SPECIFICATION Spec
CONSTANTS
  DEBOUNCE_TICKS = 2
  SHORT_TICKS = 3
  LONG_TICKS = 6
  PRESS_REPEAT_MAX_NUM = 4
  CONFIG_LINES = 2
  Overhangs = {0, 3}
  SCROLL_STEP = 2
  BACKLIGHT_MIN_PERCENT = 10
  BACKLIGHT_MAX_PERCENT = 100
  BACKLIGHT_STEP_PERCENT = 100
INVARIANTS ScreenFollows ClicksMatchPresses
