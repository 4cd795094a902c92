\* A user thread traps with registers of its choosing while a second thread rewrites user memory.
CONSTANTS
  ByteBits = 2
  SplitTypes = {}
  Targets <- MCTargetsLE32
  Sigs <- MCRegRetSigs
  ArgChoice <- MCArgChoice
  RetChoice <- MCRetChoice
  Callers = {"attacker"}
  UserAddrs <- MCUserAddrs
  KernelWord = 12
  RetAddr = 0
  MoreAddr = 2
  AttackWords <- MCAttackWords
  MaxInterference = 1
  NoValue = NoValue
SPECIFICATION Spec
INVARIANT NoKernelWrite
