CONSTANTS
  Limit <- SetupLife
  MaxParts = 3
SPECIFICATION Spec
INVARIANTS SettingsAreKept WindowFollowsLink PageIsUsable
PROPERTY TornLineEnds
CHECK_DEADLOCK FALSE
