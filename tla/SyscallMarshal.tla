--------------------------- MODULE SyscallMarshal ---------------------------
(***************************************************************************)
(* The wire format gen_syscalls.py generates for one system call: how the  *)
(* user-mode wrapper (wrapper_defs) turns typed arguments into native      *)
(* words, and how the kernel handler (marshall_defs, mrsh_rval) turns the  *)
(* words back into typed arguments.  The two sides are computed by two     *)
(* independent loops in the generator; this module keeps them independent. *)
(*                                                                         *)
(* A type is a tag with a size in bytes.  Values are the unsigned bit      *)
(* patterns of that size; a byte has ByteBits bits instead of 8 so that    *)
(* TLC can enumerate words.                                                *)
(***************************************************************************)
EXTENDS Integers, Sequences, SequencesExt

CONSTANTS
  ByteBits,       \* bits per byte of the abstract target
  SplitTypes,     \* the tags passed with --split-type
  Targets         \* the targets tried, records described below

(***************************************************************************)
(* A target is a record: wordBytes is sizeof(uintptr_t), typeSize maps    *)
(* each type tag to its sizeof ("void" has size 0), longRegisters is      *)
(* whether the generator ran with --long-registers (64-bit registers,      *)
(* nothing is split), and bigEndian its byte order.                        *)
(***************************************************************************)

\* The target the code is generated and run for, chosen once when the run
\* starts and never changed; a specification that uses this module puts it
\* in its Init.
VARIABLE target

WordBytes     == target.wordBytes
TypeSize      == target.typeSize
LongRegisters == target.longRegisters
bigEndian     == target.bigEndian

WordBits == ByteBits * WordBytes
Word == 0 .. 2^WordBits - 1
ValuesOf(t) == 0 .. 2^(ByteBits * TypeSize[t]) - 1

\* types64, extended by main() with every --split-type
types64 == {"s64_t", "u64_t"} \cup SplitTypes

need_split(argtype) == ~LongRegisters /\ argtype \in types64

\* The generator only works for these shapes: a split type is exactly two
\* words, any other argument fits in one word.
ASSUME \A tg \in Targets : \A t \in DOMAIN tg.typeSize \ {"void"} :
         IF ~tg.longRegisters /\ t \in types64
         THEN tg.typeSize[t] = 2 * tg.wordBytes
         ELSE tg.typeSize[t] \in 1 .. tg.wordBytes

(***************************************************************************)
(* union { struct { uintptr_t lo, hi; } split; T val; }: lo is the word at *)
(* the lower address, whatever the byte order.                             *)
(***************************************************************************)
SplitLo(v) == IF bigEndian THEN v \div 2^WordBits ELSE v % 2^WordBits
SplitHi(v) == IF bigEndian THEN v % 2^WordBits ELSE v \div 2^WordBits
SplitVal(lo, hi) == IF bigEndian THEN lo * 2^WordBits + hi
                                 ELSE hi * 2^WordBits + lo

(***************************************************************************)
(* The cast through a uintptr_t pointer of "&argname": a whole word read *)
(* from the address of an argument of sizeof(T) bytes.  The bytes after   *)
(* the argument are whatever the stack holds (undefined behaviour): junk  *)
(* is any value of those bytes.                                           *)
(***************************************************************************)
JunkOf(t) == IF need_split(t) THEN {0}
             ELSE 0 .. 2^(ByteBits * (WordBytes - TypeSize[t])) - 1

WordOf(v, t, junk) ==
  LET pad == 2^(ByteBits * (WordBytes - TypeSize[t]))
  IN  IF bigEndian THEN v * pad + junk ELSE v + junk * 2^(ByteBits * TypeSize[t])

\* The cast through a T pointer of "&argN": the first sizeof(T) bytes of
\* a word in memory.
ValOf(w, t) ==
  IF bigEndian THEN w \div 2^(ByteBits * (WordBytes - TypeSize[t]))
               ELSE w % 2^(ByteBits * TypeSize[t])

\* "(T) word" and "(uintptr_t) val": value conversions of a return value.
CastToType(w, t) == w % 2^(ByteBits * TypeSize[t])

(***************************************************************************)
(* Wrapper side, wrapper_defs: the list mrsh_args, in parameter order, lo  *)
(* before hi, and the address of the local ret64 last when the return type *)
(* is split.                                                               *)
(***************************************************************************)
ArgWords(t, v, junk) ==
  IF need_split(t) THEN <<SplitLo(v), SplitHi(v)>> ELSE <<WordOf(v, t, junk)>>

mrsh_args(sig, argv, junk, retAddr) ==
  FlattenSeq([i \in 1 .. Len(sig.args) |->
                ArgWords(sig.args[i], argv[i], junk[i])])
  \o (IF need_split(sig.ret) THEN <<retAddr>> ELSE <<>>)

\* More than six words: words 5.. go to the local array more[] and the
\* sixth register carries its address.
DirectWords(m, moreAddr) ==
  IF Len(m) > 6 THEN SubSeq(m, 1, 5) \o <<moreAddr>> ELSE m

MoreWords(m) == IF Len(m) > 6 THEN SubSeq(m, 6, Len(m)) ELSE <<>>

(***************************************************************************)
(* Handler side, marshall_defs: its own count of the marshalled words and  *)
(* the word index of each parameter.                                       *)
(***************************************************************************)
Width(t) == IF need_split(t) THEN 2 ELSE 1

RECURSIVE SlotsOf(_)
SlotsOf(ts) == IF ts = <<>> THEN 0 ELSE SlotsOf(Front(ts)) + Width(Last(ts))

nmrsh(sig) == SlotsOf(sig.args) + (IF need_split(sig.ret) THEN 1 ELSE 0)

\* mrsh_num of parameter i: the words of the parameters before it
SlotOf(sig, i) == SlotsOf(SubSeq(sig.args, 1, i - 1))

\* Variant: the cut-over taken one word early.
InMore_early(k, total) == ~(k < 4 \/ total <= 6)

\* mrsh_rval: word k comes from register k, or from more[k - 5]
InMore(k, total) == ~(k < 5 \/ total <= 6)

\* Variant: lo and hi taken in the other order from the wrapper's.
HandlerArg_swapped(sig, i, w) ==
  LET t == sig.args[i]
      k == SlotOf(sig, i)
  IN  IF need_split(t) THEN SplitVal(w[k + 1], w[k])
                       ELSE ValOf(w[k], t)

\* the argument value the handler passes to syscall_<name>, given the
\* marshalled words w[k] as mrsh_rval fetches them
HandlerArg(sig, i, w) ==
  LET t == sig.args[i]
      k == SlotOf(sig, i)
  IN  IF need_split(t) THEN SplitVal(w[k], w[k + 1])
                       ELSE ValOf(w[k], t)

\* Variant: a length check two words longer.
MoreChecked_long(sig) == IF nmrsh(sig) > 6 THEN nmrsh(sig) - 4 ELSE 0

\* the words of the overflow block SYSCALL_MEMORY_READ checks
MoreChecked(sig) == IF nmrsh(sig) > 6 THEN nmrsh(sig) - 6 ELSE 0
=============================================================================
