SPECIFICATION Spec
CONSTANTS
  Layers <- BothLayers
  DeadlineStatuses = {503, 504}
  None = none
INVARIANTS
  IInv
  OnlyPermittedServed
  RefusalRevealsNothing
  CountedAsSent
  ErrorsAreCoded
  OnlyPanicsFeignSuccess
