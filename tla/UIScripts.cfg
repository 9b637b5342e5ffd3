SPECIFICATION Spec
CONSTANTS
  Builder = Builder
  Ticker = Ticker
  Scripts <- MCScripts
  None = None
  MaxGen = 2
  MaxCb = 1
  MaxTimers <- MCMaxTimers
  MaxHandles <- MCMaxHandles
INVARIANT OwnTableOnly
INVARIANT NoLostFiring
INVARIANT HandlesAreLive
PROPERTY HeldElementsStay
