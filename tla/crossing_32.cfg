\* Calls through the wrapper on 32-bit targets of both byte orders and on a --long-registers target.
CONSTANTS
  ByteBits = 2
  SplitTypes = {}
  Targets <- MCTargets
  Sigs <- MCSigs
  ArgChoice <- MCArgChoice
  RetChoice <- MCRetChoice
  Callers = {"kernel", "user"}
  UserAddrs <- MCUserAddrs
  KernelWord = 12
  RetAddr = 0
  MoreAddr = 2
  AttackWords = {0}
  MaxInterference = 0
  NoValue = NoValue
SPECIFICATION Spec
PROPERTIES CallRefinement CallReturns
