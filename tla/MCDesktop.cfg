CONSTANTS
  builtin = builtin
  external = external
  Monitors = {builtin, external}
  Backlight <- MCBacklight
  Targets = {50, 100, 101}
  Own = Own
  Colors = {blue}
  Files = {hills, broken}
  Unreadable = {broken}
  Styles = {zoom}
  Blank = Blank
  Factors = {twice, thrice}
  NoZoom = NoZoom
  Volumes = {stick}
  Automatic = {stick}
  MaxEvents = 3

SPECIFICATION Spec

INVARIANTS
  TypeOK
  BackgroundsFollow
  BacklightsAgree
  ZoomFollowsSettings
  ListeningFollowsSetting
  VolumesGetTheirTurn

\* When nothing happens outside and everything is served, the desktop rests.
CHECK_DEADLOCK FALSE
