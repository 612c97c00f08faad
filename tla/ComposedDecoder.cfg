SPECIFICATION ComposedSpec
CONSTANTS
  MaxPart = 3
INVARIANTS
  ComposedTypeOK
  NoUseAfterFailure
PROPERTY
  ImplementsDecoder
