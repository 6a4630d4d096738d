SPECIFICATION Spec
CONSTANTS
  Layers <- BothLayers
  DeadlineStatuses = {503, 504}
  None = none
INVARIANT OversizeIsRefused
