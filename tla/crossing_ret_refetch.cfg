\* A second user thread rewrites the ret64 pointer in more[] between its check and its use.
CONSTANTS
  ByteBits = 2
  SplitTypes = {}
  Targets <- MCTargetsLE32
  Sigs <- MCRetMoreSigs
  ArgChoice <- MCArgChoice
  RetChoice <- MCRetChoice
  Callers = {"attacker"}
  UserAddrs <- MCUserAddrs
  KernelWord = 12
  RetAddr = 0
  MoreAddr = 2
  AttackWords <- MCAttackWords
  MaxInterference = 1
  NoValue = NoValue
SPECIFICATION Spec
INVARIANT NoKernelWrite
