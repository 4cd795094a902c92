\* gen_priv_stacks on a 64-bit target: 4-byte keys, pointer-size lookups.
CONSTANTS
  ByteBits = 1
  StaticBegin = 0
  StaticEnd = 8
  Generator = "priv_stack"
  KObjects <- MCKObjects
  Subsystems <- MCSubsystems
  None = None
  Builds <- MCBuilds64
SPECIFICATION Spec
INVARIANT LookupFindsObjects
