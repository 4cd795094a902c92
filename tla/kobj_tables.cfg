\* gen_kobject_list on 32- and 64-bit targets of both byte orders.
CONSTANTS
  ByteBits = 1
  StaticBegin = 0
  StaticEnd = 8
  Generator = "kobject"
  KObjects <- MCKObjects
  Subsystems <- MCSubsystems
  None = None
  Builds <- MCBuilds
SPECIFICATION Spec
INVARIANT LookupFindsObjects
