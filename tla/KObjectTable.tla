---------------------------- MODULE KObjectTable ----------------------------
(***************************************************************************)
(* The gperf tables written by gen_kobject_list.py and gen_priv_stacks.py, *)
(* and the kernel's lookup in them.  Each object address becomes a key of  *)
(* raw bytes (struct.pack with the ELF's byte order); the generated        *)
(* k_object_gperf_find / priv_stack_find look a pointer up by the          *)
(* pointer-size bytes it occupies in memory, and %compare-lengths makes    *)
(* a key match only a string of its own length.                            *)
(*                                                                         *)
(* A byte has ByteBits bits so that TLC can enumerate every address.       *)
(***************************************************************************)
EXTENDS Integers, FiniteSets, Sequences

CONSTANTS
  ByteBits,       \* bits per byte of the abstract target
  Generator,      \* "kobject" (gen_kobject_list) or "priv_stack" (gen_priv_stacks)
  Builds,         \* the builds the script may read, see Build below
  StaticBegin,    \* _static_kernel_objects_begin
  StaticEnd,      \* _static_kernel_objects_end
  KObjects,       \* gen_kobject_list's kobjects: <<[name, dep]>>, in order
  Subsystems,     \* its subsystems, each as the identifier replace() and
                  \* upper() make of it
  None

(***************************************************************************)
(* A build: sizeof(void * ) of its target, eh.little_endian (the ELF       *)
(* header's byte order), whether "CONFIG_64BIT" is among the ELF's         *)
(* symbols, and the addresses eh.find_kobjects returns.                    *)
(***************************************************************************)
Build == [ptrBytes : {4, 8}, le : BOOLEAN, has64 : BOOLEAN, objs : SUBSET Nat]

ASSUME Builds \subseteq Build

Addr(b) == 0 .. 2^(ByteBits * b.ptrBytes) - 1

ASSUME \A b \in Builds : b.objs \subseteq Addr(b)

\* gen_kobject_list's struct.pack format size: "Q" with CONFIG_64BIT, else "I"
KeyBytes(b) == IF b.has64 THEN 8 ELSE 4

\* struct.pack(endian + format, addr): the bytes of addr, least significant
\* first when little-endian; defined only when addr fits
Digit(a, k) == (a \div 2^(ByteBits * k)) % 2^ByteBits

\* Variant: the byte order opposite to the ELF's.
Pack_swapped(a, n, le) ==
  [k \in 1 .. n |-> IF le THEN Digit(a, n - k) ELSE Digit(a, k - 1)]

Pack(a, n, le) ==
  [k \in 1 .. n |-> IF le THEN Digit(a, k - 1) ELSE Digit(a, n - k)]

\* struct.pack raises struct.error for an address wider than the format;
\* with CONFIG_64BIT present on every 64-bit target this never happens.
ASSUME \A b \in Builds : \A a \in b.objs :
         a < 2^(ByteBits * IF Generator = "kobject" THEN KeyBytes(b) ELSE 4)

\* the pointer as it lies in the target's memory
MemBytes(b, p) ==
  [k \in 1 .. b.ptrBytes |-> Digit(p, IF b.le THEN k - 1 ELSE b.ptrBytes - k)]

VARIABLES
  build,     \* the build being scanned
  pending,   \* objects not yet written
  entries,   \* gperf keywords written: [key, addr, initialized]
  phase,     \* "write", "types", "otype", "size", "done"
  typesOut,  \* the kobj-types fragment: <<[label, guard]>>
  otypeOut,  \* the otype_to_str() cases
  sizeOut    \* the obj_size_get() cases

vars == <<build, pending, entries, phase, typesOut, otypeOut, sizeOut>>
fragVars == <<typesOut, otypeOut, sizeOut>>

Init ==
  /\ build \in Builds
  /\ pending = build.objs
  /\ entries = {}
  /\ phase = "write"
  /\ typesOut = << >> /\ otypeOut = << >> /\ sizeOut = << >>

\* One iteration of the loop of gen_kobject_list's write_gperf_table: the
\* key bytes, and the initialized flag of an object inside the static
\* object section.
KObjEntry(a) ==
  [key |-> Pack(a, KeyBytes(build), build.le), addr |-> a,
   initialized |-> StaticBegin <= a /\ a < StaticEnd]

\* One iteration of the keyword loop of gen_priv_stacks' write_gperf_table:
\* the key bytes and the priv_stack_<addr> buffer declared for the thread.
PrivStackEntry(a) ==
  [key |-> Pack(a, 4, build.le), addr |-> a, initialized |-> FALSE]

Entry(a) == IF Generator = "kobject" THEN KObjEntry(a) ELSE PrivStackEntry(a)

WriteEntry ==
  /\ phase = "write"
  /\ \E a \in pending :
       /\ pending' = pending \ {a}
       /\ entries' = entries \cup {Entry(a)}
  /\ UNCHANGED <<build, phase>>
  /\ UNCHANGED fragVars

\* the footer, with the lookup wrapper, ends the file; gen_kobject_list's
\* main() goes on to the -K, -S and -Z fragments
WriteFooter ==
  /\ phase = "write"
  /\ pending = {}
  /\ phase' = IF Generator = "kobject" THEN "types" ELSE "done"
  /\ UNCHANGED <<build, pending, entries>>
  /\ UNCHANGED fragVars

(***************************************************************************)
(* The fragments kernel.h and userspace.c include.  A line is its enum     *)
(* label, K_OBJ_<NAME> from kobject_to_enum or K_OBJ_DRIVER_<SUBSYSTEM>,   *)
(* and the Kconfig symbol of the #ifdef around it (None for none).         *)
(***************************************************************************)
CoreLines(skip) ==
  LET ks == SelectSeq(KObjects, LAMBDA o : o.name \notin skip)
  IN  [i \in 1 .. Len(ks) |-> [label |-> <<"K_OBJ", ks[i].name>>, guard |-> ks[i].dep]]

DriverLines ==
  [i \in 1 .. Len(Subsystems) |-> [label |-> <<"K_OBJ_DRIVER", Subsystems[i]>>, guard |-> None]]

\* write_kobj_types_output: one enumerator per kernel object but device,
\* then one per driver subsystem
WriteTypes ==
  /\ phase = "types"
  /\ typesOut' = CoreLines({"device"}) \o DriverLines
  /\ phase' = "otype"
  /\ UNCHANGED <<build, pending, entries, otypeOut, sizeOut>>

\* write_kobj_otype_output: the same labels, each as a case of otype_to_str
WriteOtype ==
  /\ phase = "otype"
  /\ otypeOut' = CoreLines({"device"}) \o DriverLines
  /\ phase' = "size"
  /\ UNCHANGED <<build, pending, entries, typesOut, sizeOut>>

\* write_kobj_size_output: a case of obj_size_get for every kernel object
\* but device and thread_stack; drivers take the default case
WriteSize ==
  /\ phase = "size"
  /\ sizeOut' = CoreLines({"device", "thread_stack"})
  /\ phase' = "done"
  /\ UNCHANGED <<build, pending, entries, typesOut, otypeOut>>

Terminated == phase = "done" /\ UNCHANGED vars

Next == WriteEntry \/ WriteFooter \/ WriteTypes \/ WriteOtype \/ WriteSize \/ Terminated

Spec == Init /\ [][Next]_vars /\ WF_vars(Next)

(***************************************************************************)
(* kobject_lookup(obj, sizeof(void pointer)): the entries whose key is the *)
(* in-memory bytes of the pointer, length included.                        *)
(***************************************************************************)
Lookup(p) == {e \in entries : e.key = MemBytes(build, p)}

-----------------------------------------------------------------------------
TypeOK ==
  /\ build \in Builds
  /\ pending \subseteq build.objs
  /\ phase \in {"write", "types", "otype", "size", "done"}
  /\ \A e \in entries : e.addr \in build.objs \ pending

(***************************************************************************)
(* Once the table is complete, the kernel finds every kernel object by its *)
(* own address and nothing else: a pointer to an object yields exactly    *)
(* that object's entry, any other pointer yields none.                     *)
(***************************************************************************)
LookupFindsObjects ==
  phase = "done" =>
    \A p \in Addr(build) :
      {e.addr : e \in Lookup(p)} = IF p \in build.objs THEN {p} ELSE {}
=============================================================================
