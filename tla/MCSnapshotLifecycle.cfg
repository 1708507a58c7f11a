SPECIFICATION SLSpec
CONSTANTS
  PinStreams = {s1, s2}
  MaxSnaps = 4
  RetireCap = 1
  Grace = 2
  MaxWait = 2
  PinWindow = 1
INVARIANTS SLTypeOK RefsAreHolders CloseOnlyDrainedOrCapped NoneForgotten
PROPERTY ReplacedIsClosed
