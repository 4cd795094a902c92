---------------------------- MODULE MCSyscallGen ----------------------------
(***************************************************************************)
(* Model-checking instances of SyscallGen: every ordering of every subset  *)
(* of four calls, one of them a declaration typename_split rejects, one of *)
(* them in the noweak list and linked after the weak fallbacks.            *)
(***************************************************************************)
EXTENDS SyscallGen

MCNames == {"foo", "bar", "baz", "qux"}

\* K_SYSCALL_BAR < K_SYSCALL_BAZ < K_SYSCALL_FOO < K_SYSCALL_QUX
MCIdOf == [n \in MCNames |->
             CASE n = "bar" -> 1 [] n = "baz" -> 2 [] n = "foo" -> 3 [] n = "qux" -> 4]

MCFileOf == [n \in MCNames |-> IF n \in {"foo", "qux"} THEN "a.h" ELSE "b.h"]

MCInputs == UNION {SetToSeqs(s) : s \in SUBSET MCNames}

\* "foo" and "Foo" both become K_SYSCALL_FOO
MCCaseNames == {"foo", "Foo", "bar"}
MCCaseIdOf == [n \in MCCaseNames |-> IF n = "bar" THEN 1 ELSE 2]
MCCaseFileOf == [n \in MCCaseNames |-> IF n = "Foo" THEN "b.h" ELSE "a.h"]
MCCaseInputs == SetToSeqs(MCCaseNames)
=============================================================================
