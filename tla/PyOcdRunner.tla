----------------------------- MODULE PyOcdRunner -----------------------------
(***************************************************************************)
(* One "west flash/debug/debugserver/attach -r pyocd" run of               *)
(* PyOcdBinaryRunner (runners/pyocd.py): create() from the parsed options  *)
(* and the environment, then do_run() for the command.  A program the run *)
(* starts is a record of the options that make a difference to the target *)
(* board: the image it writes, the probe it opens, the port it uses.       *)
(*                                                                         *)
(* What runners.core does (require, check_call, run_server_and_client) is  *)
(* taken by its effect: a missing program or a failing process raises, and *)
(* run_server_and_client starts the server, then the client.              *)
(***************************************************************************)
EXTENDS Integers, Sequences

CONSTANTS
  None,
  Commands,     \* the commands given, within capabilities()
  FlashAddrs,   \* what get_flash_address may return
  Dapargs,      \* --daparg / PYOCD_DAPARG values
  Boards,       \* --board-id values
  Freqs,        \* --frequency values
  GdbPort       \* --gdb-port

\* capabilities(): the commands the runner accepts
ASSUME Commands \subseteq {"flash", "debug", "debugserver", "attach"}

Opt(S) == S \cup {None}

\* The run's inputs: the command-line options create() reads, the
\* PYOCD_DAPARG variable, the RunnerConfig's gdb and ELF, which images the
\* build left, and which programs are installed.
Env ==
  [command : Commands, flashAddr : FlashAddrs, daparg : Opt(Dapargs),
   envDaparg : Opt(Dapargs \cup {""}), board : Opt(Boards), freq : Opt(Freqs),
   gdb : {"gdb", None}, elf : {"elf", None}, hexExists : BOOLEAN,
   binExists : BOOLEAN, installed : SUBSET {"pyocd", "gdb"}]

VARIABLES
  env,      \* the run's inputs
  pc,       \* "create", "run", "flash", "debug", "done", "raised"
  dap,      \* the daparg of daparg_args, or None
  started   \* the programs started, in order

vars == <<env, pc, dap, started>>

Init ==
  /\ env \in Env
  /\ pc = "create"
  /\ dap = None
  /\ started = << >>

(***************************************************************************)
(* create(): the constructor keeps --daparg; PYOCD_DAPARG takes its place  *)
(* only when no --daparg was given and the variable is not empty.          *)
(***************************************************************************)
Create ==
  /\ pc = "create"
  /\ dap' = IF env.daparg = None /\ env.envDaparg \notin {None, ""}
            THEN env.envDaparg ELSE env.daparg
  /\ pc' = "run"
  /\ UNCHANGED <<env, started>>

\* do_run(): require(self.pyocd), then flash or debug_debugserver
DoRun ==
  /\ pc = "run"
  /\ pc' = CASE "pyocd" \notin env.installed -> "raised"
             [] env.command = "flash"         -> "flash"
             [] OTHER                         -> "debug"
  /\ UNCHANGED <<env, dap, started>>

\* the probe options every pyocd command line carries: -da, -t, -u, -f
Probe == [dap |-> dap, board |-> env.board, freq |-> env.freq]

\* check_call: the process may exit non-zero, which raises
Finish == pc' \in {"done", "raised"}

(***************************************************************************)
(* flash(): the .hex if it exists, else the .bin with a warning, else      *)
(* ValueError; -a only for a non-zero flash address.                       *)
(***************************************************************************)
Flash ==
  /\ pc = "flash"
  /\ IF env.hexExists \/ env.binExists
     THEN /\ started' = Append(started,
               [prog |-> "pyocd", sub |-> "flash", probe |-> Probe,
                image |-> IF env.hexExists THEN "hex" ELSE "bin",
                addr |-> IF env.flashAddr # 0 THEN env.flashAddr ELSE None])
          /\ Finish
     ELSE /\ pc' = "raised"
          /\ UNCHANGED started
  /\ UNCHANGED <<env, dap>>

\* server_cmd: pyocd gdbserver on -p gdb_port with the probe options
Server == [prog |-> "pyocd", sub |-> "gdbserver", probe |-> Probe, port |-> GdbPort]

\* client_cmd: gdb on the ELF, "target remote :gdb_port", and for debug
\* "monitor halt", "monitor reset", "load"
Client == [prog |-> "gdb", image |-> env.elf, port |-> GdbPort,
           load |-> env.command = "debug"]

\* Variant: the check for a missing ELF left out.
Debug_noelfcheck ==
  /\ pc = "debug"
  /\ IF env.command = "debugserver"
     THEN started' = Append(started, Server) /\ Finish
     ELSE IF env.gdb = None \/ env.gdb \notin env.installed
          THEN pc' = "raised" /\ UNCHANGED started
          ELSE /\ started' = started \o <<Server, Client>>
               /\ Finish
  /\ UNCHANGED <<env, dap>>

(***************************************************************************)
(* debug_debugserver(): debugserver runs the server alone; debug and       *)
(* attach need a gdb and an ELF (ValueError), require the gdb, and run     *)
(* server and client together.                                             *)
(***************************************************************************)
Debug ==
  /\ pc = "debug"
  /\ IF env.command = "debugserver"
     THEN started' = Append(started, Server) /\ Finish
     ELSE IF env.gdb = None \/ env.elf = None \/ env.gdb \notin env.installed
          THEN pc' = "raised" /\ UNCHANGED started
          ELSE /\ started' = started \o <<Server, Client>>
               /\ Finish
  /\ UNCHANGED <<env, dap>>

Terminated == pc \in {"done", "raised"} /\ UNCHANGED vars

Next == Create \/ DoRun \/ Flash \/ Debug \/ Terminated

\* The command runs to completion.
Spec == Init /\ [][Next]_vars /\ WF_vars(Next)

-----------------------------------------------------------------------------
ProbeType == [dap : Opt(Dapargs \cup {""}), board : Opt(Boards), freq : Opt(Freqs)]

\* pyocd flash, pyocd gdbserver and the gdb client
Program ==
  [prog : {"pyocd"}, sub : {"flash"}, probe : ProbeType, image : {"hex", "bin"},
   addr : Opt(FlashAddrs \ {0})]
  \cup [prog : {"pyocd"}, sub : {"gdbserver"}, probe : ProbeType, port : {GdbPort}]
  \cup [prog : {"gdb"}, image : {"elf"}, port : {GdbPort}, load : BOOLEAN]

TypeOK ==
  /\ env \in Env
  /\ pc \in {"create", "run", "flash", "debug", "done", "raised"}
  /\ dap \in Opt(Dapargs \cup {""})
  /\ started \in Seq(Program)
  /\ Len(started) <= 2
=============================================================================
