--------------------------- MODULE MCKObjectTable ---------------------------
(***************************************************************************)
(* Model-checking instances of KObjectTable, with one-bit bytes: a 32-bit  *)
(* pointer has 4 bits and a 64-bit pointer 8.  The objects sit inside and  *)
(* outside the static object section and, on the 64-bit target, above     *)
(* what a 4-byte key can hold.                                             *)
(***************************************************************************)
EXTENDS KObjectTable

MCObjs32 == {1, 3, 6, 7, 9, 12, 15}
MCObjs64 == {3, 20, 77, 128, 200, 201, 255}

\* 32-bit targets of both byte orders, and 64-bit ones with CONFIG_64BIT
MCBuilds ==
  {[ptrBytes |-> 4, le |-> le, has64 |-> FALSE, objs |-> MCObjs32] : le \in BOOLEAN}
  \cup {[ptrBytes |-> 8, le |-> le, has64 |-> TRUE, objs |-> MCObjs64] : le \in BOOLEAN}

\* a 64-bit little-endian target whose stacks sit below 2^32
MCBuilds64 == {[ptrBytes |-> 8, le |-> TRUE, has64 |-> TRUE, objs |-> MCObjs32]}
\* the kobjects and subsystems of gen_kobject_list.py as they are
MCKObjects == << [name |-> "thread_stack", dep |-> None], [name |-> "device", dep |-> None] >>
MCSubsystems == << >>
=============================================================================
