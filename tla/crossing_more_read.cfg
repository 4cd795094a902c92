\* The more[] check covers one word less than the block: an attacker makes the handler read kernel memory.
CONSTANTS
  ByteBits = 2
  SplitTypes = {}
  Targets <- MCTargetsLE32
  Sigs <- MCAttackSigs
  ArgChoice <- MCArgChoice
  RetChoice <- MCRetChoice
  Callers = {"attacker"}
  UserAddrs <- MCUserAddrs
  KernelWord = 12
  RetAddr = 0
  MoreAddr = 2
  AttackWords <- MCAttackWords
  MaxInterference = 0
  NoValue = NoValue
SPECIFICATION Spec
INVARIANT NoKernelRead
