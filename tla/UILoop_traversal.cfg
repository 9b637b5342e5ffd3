SPECIFICATION Safe
CONSTANTS
  Panel = Panel
  None = None
  Apps = {a}
  PopupOwners = {}
  FieldApps = {a}
  FailingApps = {}
  Rotations = {0}
  CommandOps = {"run"}
  TouchedParts = {"field"}
  MaxQueue = 1
  MaxPopups = 0
INVARIANT StableWhileTraversed
