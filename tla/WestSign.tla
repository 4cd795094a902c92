------------------------------ MODULE WestSign ------------------------------
(***************************************************************************)
(* One run of "west sign -t imgtool": Sign.do_run decides the output       *)
(* formats, ImgtoolSigner.sign gathers the imgtool path, the header size,  *)
(* the flash alignment and slot size and the unsigned inputs, then signs   *)
(* the .bin and the .hex in that order.                                    *)
(*                                                                         *)
(* The build directory, its .config, devicetree and runner configuration   *)
(* and the installed tools are the environment: Init picks any of them.    *)
(* log.die ends the run ("died"); an exception from check_call ends it     *)
(* ("raised").  check_force(cond, msg) dies unless cond or --force.        *)
(***************************************************************************)
EXTENDS Integers, FiniteSets, Sequences, SequencesExt

CONSTANTS
  None,          \* Python's None
  HeaderSize,    \* CONFIG_TEXT_SECTION_OFFSET when .config has it
  Aligns,        \* write-block-size values a devicetree may give
  SlotSizes      \* image-0 partition sizes a devicetree may give

Formats == {"bin", "hex"}
ToolFlag == {TRUE, FALSE, None}     \* --bin / --no-bin / neither

\* Everything the run reads from its arguments and the build directory.
Env ==
  [gen : [Formats -> ToolFlag],       \* args.gen_bin, args.gen_hex
   force : BOOLEAN,                   \* --force
   isBuild : BOOLEAN,                 \* build dir exists and is a build dir
   configured : SUBSET Formats,       \* CONFIG_BUILD_OUTPUT_BIN/HEX in bcfg
   tool : {"path_ok", "path_bad", "installed", "missing"},
   hasVtoff : BOOLEAN,                \* CONFIG_TEXT_SECTION_OFFSET in bcfg
   flashNode : BOOLEAN,               \* chosen node, partitions, image-0, regs
   align : Aligns,
   slotSize : SlotSizes,
   unsigned : SUBSET Formats]         \* runner_config.bin_file / hex_file

VARIABLES
  env,        \* the environment of this run
  pc,         \* the step of the run
  formats,    \* the formats do_run decided on
  toolRuns,   \* the tool path names an executable
  vtoff,      \* the header size passed to imgtool
  align,      \* the flash write alignment passed to imgtool
  size,       \* the slot size passed to imgtool
  inputs,     \* the unsigned files found for the formats
  calls,      \* imgtool command lines run, in order
  signed      \* signed files written

vars == <<env, pc, formats, toolRuns, vtoff, align, size, inputs, calls, signed>>

Ended == {"done", "died", "raised"}

Init ==
  /\ env \in Env
  /\ pc = "start"
  /\ formats = {}
  /\ toolRuns = FALSE
  /\ vtoff = None
  /\ align = 0
  /\ size = 0
  /\ inputs = {}
  /\ calls = << >>
  /\ signed = {}

\* check_force: the condition holds, or --force turns the failure into a warning
CheckForce(cond) == cond \/ env.force

\* do_run: find the build directory and check it looks like one
CheckBuildDir ==
  /\ pc = "start"
  /\ pc' = IF CheckForce(env.isBuild) THEN "formats" ELSE "died"
  /\ UNCHANGED <<env, formats, toolRuns, vtoff, align, size, inputs, calls, signed>>

\* A format is produced when asked for, or when nothing was said and the
\* build has the unsigned output.
Wanted(f) == env.gen[f] = TRUE \/ (env.gen[f] = None /\ f \in env.configured)

\* --bin or --hex given for an output the build does not produce
Refused(f) == env.gen[f] = TRUE /\ ~CheckForce(f \in env.configured)

\* do_run: decide on output formats; nothing to do ends the run
DecideFormats ==
  LET fs == {f \in Formats : Wanted(f)}
  IN  /\ pc = "formats"
      /\ IF Refused("bin") \/ Refused("hex")
         THEN pc' = "died" /\ UNCHANGED formats
         ELSE /\ formats' = fs
              /\ pc' = IF fs = {} THEN "done" ELSE "tool"
      /\ UNCHANGED <<env, toolRuns, vtoff, align, size, inputs, calls, signed>>

\* find_imgtool: --tool-path is checked with check_force, else imgtool
\* must be on PATH
FindImgtool ==
  /\ pc = "tool"
  /\ CASE env.tool = "path_ok"   -> pc' = "vtoff" /\ toolRuns' = TRUE
       [] env.tool = "path_bad"  -> /\ pc' = IF CheckForce(FALSE) THEN "vtoff" ELSE "died"
                                    /\ toolRuns' = FALSE
       [] env.tool = "installed" -> pc' = "vtoff" /\ toolRuns' = TRUE
       [] env.tool = "missing"   -> pc' = "died" /\ UNCHANGED toolRuns
  /\ UNCHANGED <<env, formats, vtoff, align, size, inputs, calls, signed>>

\* get_cfg(CONFIG_TEXT_SECTION_OFFSET): a missing value is None under --force
GetVtoff ==
  /\ pc = "vtoff"
  /\ IF env.hasVtoff
     THEN pc' = "flash" /\ vtoff' = HeaderSize
     ELSE /\ pc' = IF CheckForce(FALSE) THEN "flash" ELSE "died"
          /\ vtoff' = None
  /\ UNCHANGED <<env, formats, toolRuns, align, size, inputs, calls, signed>>

\* Variant: a zero write-block-size accepted.
FlashParams_zeroalign ==
  /\ pc = "flash"
  /\ IF env.flashNode /\ env.slotSize # 0
     THEN /\ pc' = "inputs"
          /\ align' = env.align
          /\ size' = env.slotSize
     ELSE pc' = "died" /\ UNCHANGED <<align, size>>
  /\ UNCHANGED <<env, formats, toolRuns, vtoff, inputs, calls, signed>>

\* edt_flash_node and edt_flash_params: every missing node or property,
\* and a zero alignment or slot size, dies
FlashParams ==
  /\ pc = "flash"
  /\ IF env.flashNode /\ env.align # 0 /\ env.slotSize # 0
     THEN /\ pc' = "inputs"
          /\ align' = env.align
          /\ size' = env.slotSize
     ELSE pc' = "died" /\ UNCHANGED <<align, size>>
  /\ UNCHANGED <<env, formats, toolRuns, vtoff, inputs, calls, signed>>

(***************************************************************************)
(* sign: the unsigned file of each chosen format must be known; then the   *)
(* "image configuration" banner prints the text section offset with       *)
(* '{0:x}', which raises TypeError when get_cfg returned None.             *)
(***************************************************************************)
SelectInputs ==
  /\ pc = "inputs"
  /\ IF formats \subseteq env.unsigned
     THEN /\ inputs' = formats
          /\ pc' = IF vtoff = None THEN "raised" ELSE "sign_bin"
     ELSE pc' = "died" /\ UNCHANGED inputs
  /\ UNCHANGED <<env, formats, toolRuns, vtoff, align, size, calls, signed>>

\* The imgtool command line: the input format with the parameters.
Call(f) == [file |-> f, header |-> vtoff, align |-> align, slot |-> size]

\* Variant: imgtool run for a format whatever was found for it.
SignOne_always(f, next) ==
  /\ calls' = Append(calls, Call(f))
  /\ \/ /\ toolRuns
        /\ signed' = signed \cup {f}
        /\ pc' = next
     \/ /\ pc' = "raised"
        /\ UNCHANGED signed

\* subprocess.check_call(sign_<f>): imgtool exits 0 only when the tool
\* path runs; it may still fail on its own (a bad key, a full disk).
SignOne(f, next) ==
  IF f \in inputs
  THEN /\ calls' = Append(calls, Call(f))
       /\ \/ /\ toolRuns
             /\ signed' = signed \cup {f}
             /\ pc' = next
          \/ /\ pc' = "raised"
             /\ UNCHANGED signed
  ELSE pc' = next /\ UNCHANGED <<calls, signed>>

SignBin ==
  /\ pc = "sign_bin"
  /\ SignOne("bin", "sign_hex")
  /\ UNCHANGED <<env, formats, toolRuns, vtoff, align, size, inputs>>

SignHex ==
  /\ pc = "sign_hex"
  /\ SignOne("hex", "done")
  /\ UNCHANGED <<env, formats, toolRuns, vtoff, align, size, inputs>>

Terminated == pc \in Ended /\ UNCHANGED vars

Next ==
  \/ CheckBuildDir \/ DecideFormats \/ FindImgtool \/ GetVtoff
  \/ FlashParams \/ SelectInputs \/ SignBin \/ SignHex
  \/ Terminated

\* The command runs to completion.
Spec == Init /\ [][Next]_vars /\ WF_vars(Next)

-----------------------------------------------------------------------------
TypeOK ==
  /\ env \in Env
  /\ pc \in {"start", "formats", "tool", "vtoff", "flash", "inputs",
            "sign_bin", "sign_hex"} \cup Ended
  /\ formats \cup inputs \cup signed \subseteq Formats
  /\ \A k \in 1 .. Len(calls) : calls[k].file \in inputs
  /\ Len(calls) <= 2

(***************************************************************************)
(* Without --force, imgtool is only ever run with the header size from     *)
(* .config and a nonzero flash alignment and slot size from devicetree.    *)
(***************************************************************************)
UnforcedCallsWellFormed ==
  ~env.force =>
    \A k \in 1 .. Len(calls) :
      calls[k].header = HeaderSize /\ calls[k].align > 0 /\ calls[k].slot > 0

(***************************************************************************)
(* Only a failing imgtool run raises: every other problem ends the command *)
(* with log.die, or under --force with a warning and the run going on      *)
(* (check_force, and get_cfg returning None for a missing .config value).  *)
(***************************************************************************)
RaisedOnlyByImgtool ==
  pc = "raised" => Len(calls) > 0 /\ calls[Len(calls)].file \notin signed
=============================================================================
