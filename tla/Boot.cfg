SPECIFICATION Spec
CONSTANTS
  Order <- MCOrder
  UI = "UI"
  Berry = "Berry"
  Deferred = {}
  CanFail = {"LittleFs", "SdCard", "i2c", "UI", "Berry"}
  Tolerant = {"SdCard"}
  NeedServer = {"OTA"}
  Early <- MCEarly
  Late <- MCLate
  Rest = {"features", "i2c"}
  OnUITask = {"wm", "berry"}
  None = None
INVARIANT TypeOK
INVARIANT CodeFindsResources
INVARIANT MirrorTruthful
INVARIANT MainLoopConfined
PROPERTY BootCompletes
