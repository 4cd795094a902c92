\* Every command of the pyocd runner over every option, environment and build.
CONSTANTS
  None = None
  Commands = {"flash", "debug", "debugserver", "attach"}
  FlashAddrs <- MCFlashAddrs
  Dapargs = {"d1", ""}
  Boards = {"b1"}
  Freqs = {"f1"}
  GdbPort = 3333
SPECIFICATION Spec
INVARIANT TypeOK
