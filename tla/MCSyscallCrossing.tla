------------------------- MODULE MCSyscallCrossing -------------------------
(***************************************************************************)
(* Model-checking instances of SyscallCrossing.                            *)
(*                                                                         *)
(* 32-bit target: two 2-bit bytes per word, so a word is 0..15 and every   *)
(* word is one of 16 addresses; u64_t is two words.  Long-register target: *)
(* four 2-bit bytes per word and u64_t is one word.                        *)
(***************************************************************************)
EXTENDS SyscallCrossing

\* The signatures of spec section 8: 0, 6, 7 and 12 marshalled words, the
\* foo/bar scenario, a u64_t split across the register/more[] cut, and a
\* split return whose pointer lives in more[].
SigVoid     == [ret |-> "void",  args |-> <<>>]
SigFoo      == [ret |-> "int",   args |-> <<"int">>]
SigBar      == [ret |-> "void",  args |-> <<"u64_t", "int">>]
SigSix      == [ret |-> "u64_t", args |-> <<"u8_t", "u64_t", "int", "int">>]
SigRetMore  == [ret |-> "u64_t", args |-> <<"int", "u64_t", "int", "int", "int">>]
SigStraddle == [ret |-> "int",   args |-> <<"int", "int", "int", "int", "u64_t", "int">>]
SigSevenInt == [ret |-> "u8_t",  args |-> <<"int", "int", "int", "int", "int", "int", "int">>]
SigTwelve   == [ret |-> "void",  args |-> [i \in 1 .. 6 |-> "u64_t"]]

MCSigs == {SigVoid, SigFoo, SigBar, SigSix, SigRetMore, SigStraddle,
           SigSevenInt, SigTwelve}

MCTypeSize32 == [t \in {"void", "u8_t", "int", "u64_t"} |->
                   CASE t = "void" -> 0 [] t = "u8_t" -> 1
                     [] t = "int" -> 2  [] t = "u64_t" -> 4]
MCTypeSize64 == [t \in {"void", "u8_t", "int", "u64_t"} |->
                   CASE t = "void" -> 0 [] t = "u8_t" -> 1
                     [] t = "int" -> 4  [] t = "u64_t" -> 4]

\* 32-bit targets of both byte orders, and the --long-registers target
MCTarget32(be) ==
  [wordBytes |-> 2, typeSize |-> MCTypeSize32, longRegisters |-> FALSE, bigEndian |-> be]
MCTargetLong ==
  [wordBytes |-> 4, typeSize |-> MCTypeSize64, longRegisters |-> TRUE, bigEndian |-> FALSE]
MCTargets == {MCTarget32(FALSE), MCTarget32(TRUE), MCTargetLong}

\* the little-endian 32-bit target the attacks are run on
MCTargetsLE32 == {MCTarget32(FALSE)}

\* 18 has different halves; 255 fills both halves
MCArgChoice == [t \in {"u8_t", "int", "u64_t"} |->
                  CASE t = "u8_t" -> {2} [] t = "int" -> {1, 14}
                    [] t = "u64_t" -> {18, 255}]
MCRetChoice == [t \in {"u8_t", "int", "u64_t"} |->
                  CASE t = "u8_t" -> {3} [] t = "int" -> {9}
                    [] t = "u64_t" -> {33, 240}]

\* ret64 at words 0-1, more[] from word 2; the seven words of the largest
\* block end exactly at the last user word.
MCUserAddrs == 0 .. 8

\* The handlers an attacker calls: a split return in a register, a split
\* return whose pointer is in more[], and an overflow block.  The words
\* are an in-range address, the last user word and a kernel address.
MCAttackSigs == {SigSix, SigRetMore, SigStraddle}
MCAttackWords == {0, 8, 9}

\* handlers that keep every pointer they use in a register
MCRegRetSigs == {SigSix, SigStraddle}

\* the handler whose ret64 pointer is fetched from more[]
MCRetMoreSigs == {SigRetMore}
=============================================================================
