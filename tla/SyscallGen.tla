----------------------------- MODULE SyscallGen -----------------------------
(***************************************************************************)
(* One run of gen_syscalls.py main(): the loop over the parsed syscall     *)
(* list, then the four kinds of output in the order main() writes them:    *)
(* the dispatch table, the id listing, the per-header wrappers and the     *)
(* per-call handler units.                                                 *)
(*                                                                         *)
(* A syscall name is a model value.  The id K_SYSCALL_<NAME> is            *)
(* represented by its rank among all id strings in byte order, which is    *)
(* all ids.sort() and the C preprocessor can tell apart; two names that    *)
(* differ only in case have the same id.                                   *)
(***************************************************************************)
EXTENDS Integers, Sequences, SequencesExt, TLC

CONSTANTS
  Names,       \* syscall names
  IdOf,        \* [Names -> Nat]: "K_SYSCALL_" + name.upper(), by sort rank
  FileOf,      \* [Names -> header files]: the header declaring each syscall
  Malformed,   \* declarations typename_split rejects
  NoWeak,      \* names whose handle_<name> is in the noweak list
  LateLinked,  \* names whose handle_<name> the linker meets after the weak ones
  Inputs       \* the syscall lists parse_syscalls.py can hand over

Invaild == -1   \* K_SYSCALL_INVAILD, kept apart from the ranks of call ids
Num == -2       \* K_SYSCALL_NUM
InvaildHandler == "invaild_handler"

VARIABLES
  input,         \* the syscall list read from the JSON file
  implemented,   \* names whose real handle_<name> the kernel build contains
  i,             \* position of the loop in main()
  phase,         \* "analyze", "dispatch", "list", "headers", "mrsh", "done", "failed"
  invocations,   \* [header -> names of its wrappers]
  ids,           \* ids, in the order main() holds them
  tableEntries,  \* <<id, handler>> designated initializers of k_syscall_table
  handlers,      \* handler names, in input order
  mrshDefs,      \* [name -> header its handler unit includes]
  weakDecls,     \* handlers given a __weak alias of handle_reserved_handler
  externDecls,   \* handlers given a plain extern declaration
  tableOut,      \* the initializers written to the dispatch file
  listing,       \* <<id, value>> of each #define of syscall_list.h
  headersOut,    \* the wrappers written per header
  mrshOut        \* the _mrsh.c files written, with their include

vars == <<input, implemented, i, phase, invocations, ids, tableEntries,
          handlers, mrshDefs, weakDecls, externDecls, tableOut, listing,
          headersOut, mrshOut>>

Init ==
  /\ input \in Inputs
  /\ implemented \in {s \in SUBSET Names : NoWeak \subseteq s}
  /\ i = 1
  /\ phase = "analyze"
  /\ invocations = << >>
  /\ ids = << >>
  /\ tableEntries = << >>
  /\ handlers = << >>
  /\ mrshDefs = << >>
  /\ weakDecls = {}
  /\ externDecls = {}
  /\ tableOut = << >>
  /\ listing = << >>
  /\ headersOut = << >>
  /\ mrshOut = << >>

(***************************************************************************)
(* One iteration of the loop: analyze_fn builds the wrapper, the handler   *)
(* and the table entry; a declaration typename_split rejects raises and    *)
(* ends the run before anything is written.                                *)
(***************************************************************************)
AddTo(f, k, x) ==
  IF k \in DOMAIN f THEN [f EXCEPT ![k] = Append(@, x)] ELSE f @@ (k :> <<x>>)

Put(f, k, v) == [n \in DOMAIN f \cup {k} |-> IF n = k THEN v ELSE f[n]]

\* typename_split raises SyscallParseException on an array, a function
\* pointer or a declaration the regex does not match
typename_split_fails(x) == x \in Malformed

\* analyze_fn: the handler name, the id and the table entry of one call
analyze_fn(x) == [handler |-> x, sys_id |-> IdOf[x], entry |-> <<IdOf[x], x>>]

AnalyzeFn ==
  LET x == input[i]
      a == analyze_fn(x)
  IN  /\ phase = "analyze"
      /\ i <= Len(input)
      /\ \/ /\ typename_split_fails(x)
            /\ phase' = "failed"
            /\ UNCHANGED <<i, invocations, ids, tableEntries, handlers, mrshDefs>>
         \/ /\ ~typename_split_fails(x)
            /\ invocations' = AddTo(invocations, FileOf[x], x)
            /\ ids' = Append(ids, a.sys_id)
            /\ tableEntries' = Append(tableEntries, a.entry)
            /\ handlers' = Append(handlers, a.handler)
            /\ mrshDefs' = Put(mrshDefs, x, FileOf[x])
            /\ i' = i + 1
            /\ UNCHANGED phase
      /\ UNCHANGED <<input, implemented, weakDecls, externDecls, tableOut,
                     listing, headersOut, mrshOut>>

(***************************************************************************)
(* The dispatch file: a weak alias for every handler outside noweak, an    *)
(* extern declaration for every noweak name, and the table with the        *)
(* K_SYSCALL_INVAILD entry appended.                                       *)
(***************************************************************************)
WriteDispatch_noinvaild ==
  /\ phase = "analyze"
  /\ i > Len(input)
  /\ weakDecls' = {h \in Range(handlers) : h \notin NoWeak}
  /\ externDecls' = NoWeak
  /\ tableOut' = tableEntries
  /\ phase' = "list"
  /\ UNCHANGED <<input, implemented, i, invocations, ids, tableEntries,
                 handlers, mrshDefs, listing, headersOut, mrshOut>>


WriteDispatch ==
  /\ phase = "analyze"
  /\ i > Len(input)
  /\ tableEntries' = Append(tableEntries, <<Invaild, InvaildHandler>>)
  /\ weakDecls' = {h \in Range(handlers) : h \notin NoWeak}
  /\ externDecls' = NoWeak
  /\ tableOut' = tableEntries'
  /\ phase' = "list"
  /\ UNCHANGED <<input, implemented, i, invocations, ids, handlers, mrshDefs,
                 listing, headersOut, mrshOut>>

(***************************************************************************)
(* The listing: ids sorted, the two sentinels appended, numbered from 0.   *)
(***************************************************************************)
\* Variant: the #define values counted from 1.
Numbered_from1(s) == [k \in 1 .. Len(s) |-> <<s[k], k>>]

\* enumerate(ids): each id with its position counted from 0
Numbered(s) == [k \in 1 .. Len(s) |-> <<s[k], k - 1>>]

WriteList_unsorted ==
  LET sorted == ids \o <<Invaild, Num>>
  IN  /\ phase = "list"
      /\ ids' = sorted
      /\ listing' = Numbered(sorted)
      /\ phase' = "headers"
      /\ UNCHANGED <<input, implemented, i, invocations, tableEntries, handlers,
                     mrshDefs, weakDecls, externDecls, tableOut, headersOut, mrshOut>>

WriteList ==
  LET sorted == SortSeq(ids, LAMBDA a, b : a < b) \o <<Invaild, Num>>
  IN  /\ phase = "list"
      /\ ids' = sorted
      /\ listing' = Numbered(sorted)
      /\ phase' = "headers"
      /\ UNCHANGED <<input, implemented, i, invocations, tableEntries, handlers,
                     mrshDefs, weakDecls, externDecls, tableOut, headersOut, mrshOut>>

\* One header of wrappers per declaring header.
WriteHeaders ==
  /\ phase = "headers"
  /\ headersOut' = invocations
  /\ phase' = "mrsh"
  /\ UNCHANGED <<input, implemented, i, invocations, ids, tableEntries, handlers,
                 mrshDefs, weakDecls, externDecls, tableOut, listing, mrshOut>>

\* One <name>_mrsh.c per entry of mrsh_defs.
WriteMrsh ==
  /\ phase = "mrsh"
  /\ mrshOut' = mrshDefs
  /\ phase' = "done"
  /\ UNCHANGED <<input, implemented, i, invocations, ids, tableEntries, handlers,
                 mrshDefs, weakDecls, externDecls, tableOut, listing, headersOut>>

Terminated == phase \in {"done", "failed"} /\ UNCHANGED vars

Next ==
  \/ AnalyzeFn \/ WriteDispatch \/ WriteList \/ WriteHeaders \/ WriteMrsh
  \/ Terminated

Spec == Init /\ [][Next]_vars /\ WF_vars(Next)

-----------------------------------------------------------------------------
(***************************************************************************)
(* How the C toolchain reads the outputs.  A macro defined twice keeps its *)
(* last value and a designated initializer given twice keeps the last one  *)
(* (GCC warns in both cases); an element with no initializer is NULL.      *)
(***************************************************************************)
Calls == {input[k] : k \in 1 .. Len(input)}

MacroVal(id) ==
  LET ks == {k \in 1 .. Len(listing) : listing[k][1] = id}
  IN  IF ks = {} THEN -1 ELSE listing[Max(ks)][2]

TableSize == MacroVal(Num)

Slot(n) ==
  LET ks == {k \in 1 .. Len(tableOut) : MacroVal(tableOut[k][1]) = n}
  IN  IF ks = {} THEN "NULL" ELSE tableOut[Max(ks)][2]

\* The linker's choice for the symbol handle_<h> the table refers to: the
\* first definition it meets in the kernel library wins.
Resolve(h) ==
  IF h \in weakDecls
  THEN IF h \in implemented /\ h \notin LateLinked THEN "real" ELSE "reserved"
  ELSE IF h \in implemented THEN "real" ELSE "undefined"

Rank(id, S) == Cardinality({s \in S : s < id})

TypeOK ==
  /\ phase \in {"analyze", "list", "headers", "mrsh", "done", "failed"}
  /\ i \in 1 .. Len(input) + 1
  /\ implemented \subseteq Names
  /\ weakDecls \cup externDecls \subseteq Names
  /\ \A k \in 1 .. Len(listing) : listing[k][2] \in 0 .. Len(input) + 1

(***************************************************************************)
(* The wrapper of each call traps with K_SYSCALL_<NAME>; the table the run *)
(* writes sends that number to the call's own handler, every number below  *)
(* K_SYSCALL_NUM has a handler, and K_SYSCALL_INVAILD goes to              *)
(* handle_invaild_handler.                                                 *)
(***************************************************************************)
DispatchAgreesWithWrappers ==
  phase = "done" =>
    /\ \A k \in 1 .. Len(tableOut) : MacroVal(tableOut[k][1]) \in 0 .. TableSize - 1
    /\ \A n \in 0 .. TableSize - 1 : Slot(n) # "NULL"
    /\ \A x \in Calls : Slot(MacroVal(IdOf[x])) = x
    /\ Slot(MacroVal(Invaild)) = InvaildHandler

(***************************************************************************)
(* Spec section 8, id determinism: the number of each id depends only on   *)
(* the set of calls, never on the order of the JSON list, and the two      *)
(* sentinels follow the calls.                                             *)
(***************************************************************************)
IdsIndependentOfOrder ==
  LET S == {IdOf[x] : x \in Calls}
  IN  phase = "done" =>
        /\ \A x \in Calls : MacroVal(IdOf[x]) = Rank(IdOf[x], S)
        /\ MacroVal(Invaild) = Cardinality(S)
        /\ MacroVal(Num) = Cardinality(S) + 1
=============================================================================
