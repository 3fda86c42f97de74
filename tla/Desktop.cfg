\* Two places for windows, two applications launched, movements of one cell
\* either way, clicks of the left button.
SPECIFICATION Spec
CONSTANTS
  SCREEN_WIDTH = 3
  SCREEN_HEIGHT = 4
  TASKBAR_HEIGHT = 1
  Addr = {1, 2}
  AppType = {"explorer", "editor"}
  Frame <- Frames
  Icon <- Icons
  DataFirst = {"editor"}
  MaxApps = 2
  Stale <- MCStale
  Movement <- OneCell
  Button = {"left"}
  MaxScroll = 1
INVARIANTS FocusIsTop WindowsBelong ClicksReachWhatIsSeen
PROPERTIES RefinesWindowStack DragCatchesUp
