CONSTANTS
  NPIU = 2
  Target = {snb, ctcq}
  Serial = {ctcq}
  BarReq = {inner, outer}
  Narrow = {outer}
  BarDis = FALSE
SPECIFICATION FairSpec
INVARIANT BarrierInv KidsAgree GatingTransparent
PROPERTY RequestBusStable ImplementsService BarrierAnswered
