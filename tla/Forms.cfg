SPECIFICATION Spec
CONSTANTS
  Letter = {"l", "p"}
  Target <- MCTarget
  Form <- MCForm
  RawText <- MCRawText
  NoForm = NoForm
  None = None
INVARIANTS
  TypeOK
  RoundTrip
  AgreesWithStandard
CHECK_DEADLOCK FALSE
