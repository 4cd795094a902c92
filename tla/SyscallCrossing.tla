-------------------------- MODULE SyscallCrossing --------------------------
(***************************************************************************)
(* One system call through the code gen_syscalls.py generates: the inline  *)
(* wrapper (wrapper_defs) in the calling thread, and the kernel handler    *)
(* handle_<name> (marshall_defs) it traps into.  Each action is a stretch  *)
(* of generated code between two points where another thread or the       *)
(* kernel's checks can make a difference.                                  *)
(*                                                                         *)
(* The caller is a privileged thread (syscall_trap() is false), a user     *)
(* thread running the wrapper, or a user thread that traps with registers  *)
(* of its own choosing: the handler is reachable from any user code.       *)
(* Another thread of the same process may write user memory while the      *)
(* handler runs.                                                           *)
(***************************************************************************)
EXTENDS SyscallMarshal, FiniteSets

CONSTANTS
  Sigs,            \* signatures: [ret |-> tag, args |-> <<tag, ...>>]
  ArgChoice,       \* [tag -> argument values a caller passes]
  RetChoice,       \* [tag -> values syscall_<name> may return]
  Callers,         \* subset of {"kernel", "user", "attacker"}
  UserAddrs,       \* word addresses a user thread may read and write
  KernelWord,      \* contents of kernel memory
  RetAddr,         \* the wrapper's local ret64 (two words)
  MoreAddr,        \* the wrapper's local more[]
  AttackWords,     \* register and memory words an attacking thread uses
  MaxInterference, \* writes by another user thread during one call
  NoValue

Addr == Word            \* every word is an address
Regs == 0 .. 5          \* arg0 .. arg5

\* the sequences whose i-th element is in the i-th set of ss
RECURSIVE PointwiseChoices(_)
PointwiseChoices(ss) == IF ss = <<>> THEN {<<>>}
               ELSE {Append(c, x) : c \in PointwiseChoices(Front(ss)), x \in Last(ss)}

ArgVectors(s) == PointwiseChoices([i \in 1 .. Len(s.args) |-> ArgChoice[s.args[i]]])

RetValues(t) == IF t = "void" THEN {NoValue} ELSE RetChoice[t]

JunkVectors(s) == PointwiseChoices([i \in 1 .. Len(s.args) |-> JunkOf(s.args[i])])

VARIABLES
  sig, argv, caller,
  pcU,           \* caller: "call", "direct", "trapped", "done"
  pcK,           \* handler: "idle", "entered", "checked", "invoked",
                 \*          "retchecked", "done", "oops"
  regs,          \* the six argument registers of the trap
  mem,           \* memory, by word address
  implArgs,      \* arguments syscall_<name> received
  implRet,       \* what syscall_<name> returned
  kret,          \* the word the handler returns to the dispatcher
  checkedRead,   \* addresses SYSCALL_MEMORY_READ accepted
  checkedWrite,  \* addresses SYSCALL_MEMORY_WRITE accepted
  kreads,        \* user-supplied addresses the handler read
  kwrites,       \* addresses the handler wrote
  result,        \* what the wrapper returned to its caller
  interference   \* writes made by another thread so far

vars == <<target, sig, argv, caller, pcU, pcK, regs, mem, implArgs, implRet, kret,
          checkedRead, checkedWrite, kreads, kwrites, result, interference>>

(***************************************************************************)
(* The handler's view of marshalled word k, and where it reads it from.    *)
(***************************************************************************)
Total == nmrsh(sig)
Fetch(k) == IF InMore(k, Total) THEN mem[regs[5] + k - 5] ELSE regs[k]
FetchAddrs(ks) == {regs[5] + k - 5 : k \in {k \in ks : InMore(k, Total)}}

Init ==
  /\ target \in Targets
  /\ sig \in Sigs
  /\ argv \in ArgVectors(sig)
  /\ caller \in Callers
  /\ pcU = "call"
  /\ pcK = "idle"
  /\ regs = [k \in Regs |-> 0]
  /\ mem = [a \in Addr |-> IF a \in UserAddrs THEN 0 ELSE KernelWord]
  /\ implArgs = <<>>
  /\ implRet = NoValue
  /\ kret = 0
  /\ checkedRead = {}
  /\ checkedWrite = {}
  /\ kreads = {}
  /\ kwrites = {}
  /\ result = NoValue
  /\ interference = 0

(***************************************************************************)
(* Wrapper, privileged context: syscall_trap() is false, so after the      *)
(* compiler barrier it calls syscall_<name> directly.                      *)
(***************************************************************************)
WrapperDirect ==
  /\ caller = "kernel"
  /\ pcU = "call"
  /\ pcU' = "direct"
  /\ implArgs' = argv
  /\ implRet' \in RetValues(sig.ret)
  /\ UNCHANGED <<target, sig, argv, caller, pcK, regs, mem, kret, checkedRead,
                 checkedWrite, kreads, kwrites, result, interference>>

WrapperDirectReturn ==
  /\ pcU = "direct"
  /\ pcU' = "done"
  /\ result' = implRet
  /\ UNCHANGED <<target, sig, argv, caller, pcK, regs, mem, implArgs, implRet, kret,
                 checkedRead, checkedWrite, kreads, kwrites, interference>>

(***************************************************************************)
(* Wrapper, user context: fill the unions, build mrsh_args, move words 5.. *)
(* into more[] when there are more than six, and trap.                     *)
(***************************************************************************)
WrapperTrap ==
  /\ caller = "user"
  /\ pcU = "call"
  /\ \E junk \in JunkVectors(sig) :
       LET m    == mrsh_args(sig, argv, junk, RetAddr)
           d    == DirectWords(m, MoreAddr)
           more == MoreWords(m)
       IN  /\ regs' = [k \in Regs |-> IF k < Len(d) THEN d[k + 1] ELSE 0]
           /\ mem' = [a \in Addr |->
                        IF a - MoreAddr \in 0 .. Len(more) - 1
                        THEN more[a - MoreAddr + 1] ELSE mem[a]]
  /\ pcU' = "trapped"
  /\ pcK' = "entered"
  /\ UNCHANGED <<target, sig, argv, caller, implArgs, implRet, kret, checkedRead,
                 checkedWrite, kreads, kwrites, result, interference>>

\* A user thread that executes the trap itself, with any registers.
AttackerTrap ==
  /\ caller = "attacker"
  /\ pcU = "call"
  /\ regs' \in [Regs -> AttackWords]
  /\ pcU' = "trapped"
  /\ pcK' = "entered"
  /\ UNCHANGED <<target, sig, argv, caller, mem, implArgs, implRet, kret, checkedRead,
                 checkedWrite, kreads, kwrites, result, interference>>

(***************************************************************************)
(* Wrapper after the trap returns: read ret64, or convert the returned     *)
(* word to the return type.                                                *)
(***************************************************************************)
WrapperReturn ==
  /\ caller = "user"
  /\ pcU = "trapped"
  /\ pcK = "done"
  /\ pcU' = "done"
  /\ result' = CASE need_split(sig.ret) ->
                      CastToType(SplitVal(mem[RetAddr], mem[RetAddr + 1]), sig.ret)
                 [] sig.ret = "void" -> NoValue
                 [] OTHER -> CastToType(kret, sig.ret)
  /\ UNCHANGED <<target, sig, argv, caller, pcK, regs, mem, implArgs, implRet, kret,
                 checkedRead, checkedWrite, kreads, kwrites, interference>>

(***************************************************************************)
(* Handler entry: record ssf, and with more than six words check that the  *)
(* block at `more` is readable for nmrsh - 6 words, or oops.               *)
(***************************************************************************)
HandlerEntry ==
  LET blk == {regs[5] + j : j \in 0 .. MoreChecked(sig) - 1}
  IN  /\ pcK = "entered"
      /\ \/ /\ blk \subseteq UserAddrs
            /\ pcK' = "checked"
            /\ checkedRead' = blk
         \/ /\ ~(blk \subseteq UserAddrs)
            /\ pcK' = "oops"
            /\ UNCHANGED checkedRead
      /\ UNCHANGED <<target, sig, argv, caller, pcU, regs, mem, implArgs, implRet, kret,
                     checkedWrite, kreads, kwrites, result, interference>>

(***************************************************************************)
(* Handler body: rebuild each parameter from its words, call syscall_<name>*)
(* and, unless the return type is split, return its value as a word.       *)
(***************************************************************************)
HandlerInvoke ==
  /\ pcK = "checked"
  /\ implArgs' = [i \in 1 .. Len(sig.args) |->
                   HandlerArg(sig, i, [k \in 0 .. Total - 1 |-> Fetch(k)])]
  /\ kreads' = kreads \cup FetchAddrs(0 .. SlotsOf(sig.args) - 1)
  /\ implRet' \in RetValues(sig.ret)
  /\ IF need_split(sig.ret)
     THEN pcK' = "invoked" /\ kret' = kret
     ELSE /\ pcK' = "done"
          /\ kret' = IF sig.ret = "void" THEN 0 ELSE implRet'
  /\ UNCHANGED <<target, sig, argv, caller, pcU, regs, mem, checkedRead, checkedWrite,
                 kwrites, result, interference>>

(***************************************************************************)
(* Split return: SYSCALL_MEMORY_WRITE checks the 8 bytes at the pointer in *)
(* the last word, then "*ptr = ret" fetches that word again and writes.    *)
(***************************************************************************)
RetPtrBlock(p) == {p, p + 1}

\* Variant: the SYSCALL_MEMORY_WRITE check left out.
HandlerCheckRet_unchecked ==
  LET p == Fetch(Total - 1)
  IN  /\ pcK = "invoked"
      /\ kreads' = kreads \cup FetchAddrs({Total - 1})
      /\ pcK' = "retchecked"
      /\ checkedWrite' = RetPtrBlock(p)
      /\ UNCHANGED <<target, sig, argv, caller, pcU, regs, mem, implArgs, implRet, kret,
                     checkedRead, kwrites, result, interference>>

HandlerCheckRet ==
  LET p == Fetch(Total - 1)
  IN  /\ pcK = "invoked"
      /\ kreads' = kreads \cup FetchAddrs({Total - 1})
      /\ \/ /\ RetPtrBlock(p) \subseteq UserAddrs
            /\ pcK' = "retchecked"
            /\ checkedWrite' = RetPtrBlock(p)
         \/ /\ ~(RetPtrBlock(p) \subseteq UserAddrs)
            /\ pcK' = "oops"
            /\ UNCHANGED checkedWrite
      /\ UNCHANGED <<target, sig, argv, caller, pcU, regs, mem, implArgs, implRet, kret,
                     checkedRead, kwrites, result, interference>>

HandlerWriteRet ==
  LET p == Fetch(Total - 1)
  IN  /\ pcK = "retchecked"
      /\ kreads' = kreads \cup FetchAddrs({Total - 1})
      /\ mem' = [mem EXCEPT ![p] = SplitLo(implRet), ![p + 1] = SplitHi(implRet)]
      /\ kwrites' = kwrites \cup RetPtrBlock(p)
      /\ pcK' = "done"
      /\ kret' = 0
      /\ UNCHANGED <<target, sig, argv, caller, pcU, regs, implArgs, implRet,
                     checkedRead, checkedWrite, result, interference>>

(***************************************************************************)
(* Another thread of the calling process writes user memory while the      *)
(* handler runs.                                                           *)
(***************************************************************************)
UserThreadWrite ==
  /\ caller # "kernel"
  /\ pcU = "trapped"
  /\ pcK \notin {"done", "oops"}
  /\ interference < MaxInterference
  /\ \E a \in UserAddrs, w \in AttackWords : mem' = [mem EXCEPT ![a] = w]
  /\ interference' = interference + 1
  /\ UNCHANGED <<target, sig, argv, caller, pcU, pcK, regs, implArgs, implRet, kret,
                 checkedRead, checkedWrite, kreads, kwrites, result>>

\* The call is over: returned, or the thread was killed by an oops.
Finished ==
  \/ pcU = "done"
  \/ pcK = "oops"
  \/ caller = "attacker" /\ pcK = "done"

Terminated == Finished /\ UNCHANGED vars

CallStep ==
  \/ WrapperDirect \/ WrapperDirectReturn \/ WrapperTrap \/ AttackerTrap
  \/ WrapperReturn
  \/ HandlerEntry \/ HandlerInvoke \/ HandlerCheckRet \/ HandlerWriteRet

Next == CallStep \/ UserThreadWrite \/ Terminated

\* A trapped call is run to completion by the kernel, and the caller is
\* scheduled again afterwards.
Spec == Init /\ [][Next]_vars /\ WF_vars(CallStep)

-----------------------------------------------------------------------------
TypeOK ==
  /\ sig \in Sigs
  /\ caller \in Callers
  /\ pcU \in {"call", "direct", "trapped", "done"}
  /\ pcK \in {"idle", "entered", "checked", "invoked", "retchecked", "done", "oops"}
  /\ regs \in [Regs -> Word]
  /\ mem \in [Addr -> Word]
  /\ kret \in Word
  /\ checkedRead \cup checkedWrite \cup kreads \cup kwrites \subseteq Nat
  /\ interference \in 0 .. MaxInterference

(***************************************************************************)
(* The wrapper and the handler form one call (spec section 8, bijection): *)
(* syscall_<name> receives exactly the wrapper's arguments, split halves   *)
(* and overflow words included, and the wrapper returns exactly what it    *)
(* returned, through ret64 or through the returned word.                   *)
(***************************************************************************)
Call == INSTANCE SyscallCall WITH
          st <- IF pcU = "done" THEN "returned"
                ELSE IF pcU = "direct" \/ pcK \in {"invoked", "retchecked", "done"}
                     THEN "ran" ELSE "idle"

CallRefinement == Call!Spec

(***************************************************************************)
(* A call made through the wrapper always returns to its caller: the       *)
(* handler's checks of more[] and of the ret64 pointer accept what the     *)
(* wrapper passes.                                                         *)
(***************************************************************************)
CallReturns == caller \in {"kernel", "user"} ~> pcU = "done"

(***************************************************************************)
(* The handler writes only user memory, whatever registers the trapping    *)
(* thread passes (the SYSCALL_MEMORY_WRITE check of the ret64 pointer).    *)
(***************************************************************************)
NoKernelWrite == kwrites \subseteq UserAddrs

(***************************************************************************)
(* The handler reads only user memory on behalf of the caller: every word  *)
(* of more[] it dereferences was checked by SYSCALL_MEMORY_READ.           *)
(***************************************************************************)
NoKernelRead == kreads \subseteq UserAddrs
=============================================================================
