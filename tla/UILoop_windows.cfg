SPECIFICATION Spec
CONSTANTS
  Panel = Panel
  None = None
  Apps = {a}
  PopupOwners = {}
  FieldApps = {}
  FailingApps = {a}
  Rotations = {0, 1}
  CommandOps = {"run", "keyboard", "rotate"}
  TouchedParts = {"max", "min", "close"}
  MaxQueue = 2
  MaxPopups = 0
INVARIANT TypeOK
INVARIANT WindowsFitScreen
INVARIANT TapsAreDoneBeforeNextTouch
INVARIANT OneWindowPerApp
INVARIANT NoDanglingAction
PROPERTY CloseTakesEffect
PROPERTY ChangesAreDrawn
