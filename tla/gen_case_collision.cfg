\* Two calls whose names differ only in case: nothing rejects them.
CONSTANTS
  Names <- MCCaseNames
  IdOf <- MCCaseIdOf
  FileOf <- MCCaseFileOf
  Malformed = {}
  NoWeak = {}
  LateLinked = {}
  Inputs <- MCCaseInputs
SPECIFICATION Spec
INVARIANT DispatchAgreesWithWrappers
