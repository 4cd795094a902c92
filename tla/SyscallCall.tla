---------------------------- MODULE SyscallCall ----------------------------
(***************************************************************************)
(* What a generated system call wrapper promises its caller, whichever way *)
(* it reaches the implementation: syscall_<name> runs once, with exactly   *)
(* the caller's arguments, and the caller gets back exactly what it        *)
(* returned.                                                               *)
(***************************************************************************)
CONSTANTS
  Sigs,            \* the signatures a caller may call
  ArgVectors(_),   \* the argument vectors of a signature
  RetValues(_),    \* the values an implementation may return, by type
  NoValue

VARIABLES
  sig,        \* the signature called
  argv,       \* the caller's arguments
  st,         \* "idle", "ran", "returned"
  implArgs,   \* the arguments the implementation received
  implRet,    \* what the implementation returned
  result      \* what the caller got back

vars == <<sig, argv, st, implArgs, implRet, result>>

Init ==
  /\ sig \in Sigs
  /\ argv \in ArgVectors(sig)
  /\ st = "idle"
  /\ implArgs = <<>>
  /\ implRet = NoValue
  /\ result = NoValue

Run ==
  /\ st = "idle"
  /\ st' = "ran"
  /\ implArgs' = argv
  /\ implRet' \in RetValues(sig.ret)
  /\ UNCHANGED <<sig, argv, result>>

Return ==
  /\ st = "ran"
  /\ st' = "returned"
  /\ result' = implRet
  /\ UNCHANGED <<sig, argv, implArgs, implRet>>

Next == Run \/ Return

Spec == Init /\ [][Next]_vars
=============================================================================
