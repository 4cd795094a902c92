\* One generator run over every ordering of every subset of four calls.
CONSTANTS
  Names <- MCNames
  IdOf <- MCIdOf
  FileOf <- MCFileOf
  Malformed = {"qux"}
  NoWeak = {"foo"}
  LateLinked = {"foo"}
  Inputs <- MCInputs
SPECIFICATION Spec
INVARIANT TypeOK
INVARIANT DispatchAgreesWithWrappers
INVARIANT IdsIndependentOfOrder
