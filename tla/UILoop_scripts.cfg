SPECIFICATION Safe
CONSTANTS
  Panel = Panel
  None = None
  Apps = {a, b}
  PopupOwners = {Panel, b}
  FieldApps = {a}
  FailingApps = {}
  Rotations = {0}
  CommandOps = {"focus", "close", "page", "run", "panel", "keyboard"}
  TouchedParts = {"button", "field", "min"}
  MaxQueue = 1
  MaxPopups = 0
INVARIANT PopupsHaveOwners
INVARIANT ChangesAreDirty
INVARIANT OnlyFocusedIsActive
CHECK_DEADLOCK FALSE
