SPECIFICATION Safe
CONSTANTS
  Panel = Panel
  None = None
  Apps = {a}
  PopupOwners = {Panel, a}
  FieldApps = {}
  FailingApps = {}
  Rotations = {0}
  CommandOps = {"run", "panel", "rotate"}
  TouchedParts = {"blank"}
  MaxQueue = 1
  MaxPopups = 0
INVARIANT OwnersHavePopups
