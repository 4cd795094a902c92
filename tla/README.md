# TLA+ models of the WellsL4 system-call generator

This directory checks `src/wellsl4/tool/scripts/gen_syscalls.py` with TLC.
That script generates the system-call ABI marshalling code: the user-mode
wrappers, the kernel handlers and the dispatch table. The gperf key tables,
the CFB font header generator, `west sign` and the pyocd runner are modelled too; every
script is listed in the inventory.

## 1. Inventory

| Part | Source | State | Operations | Status |
|---|---|---|---|---|
| Wrapper emitter | `wrapper_defs` (158-224) | the words of one call: registers `arg0..arg5`, local `more[]`, local `ret64` | privileged path calls `syscall_<name>` directly; user path packs unions and `mrsh_args`, spills words 5.. into `more[]`, traps, then reads `ret64` or casts the returned word | modelled |
| Handler emitter | `marshall_defs`, `mrsh_rval` (226-304) | the handler's reads of registers and of `more[]`, its checks, its `ret64` store | `SYSCALL_MEMORY_READ` of `more`, rebuilding each parameter, calling the implementation, `SYSCALL_MEMORY_WRITE` and the store through the `ret64` pointer | modelled |
| Width classifier / slot allocator | `need_split`, `types64`, the counting loops (32, 149-150, 163-173, 237-251) | none; pure functions | | modelled as operators |
| Dispatch table builder, `main()` | 352-438, templates 34-121 | lists `invocations`, `ids`, `table_entries`, `handlers`, `mrsh_defs` | loop over `analyze_fn`, dispatch file, listing, headers, `_mrsh.c` files | modelled |
| gperf key tables | `gen_kobject_list.py` `write_gperf_table` (128-173), `gen_priv_stacks.py` (62-98) | objects still to write, keys written | one key per object; the kernel's lookup through the generated footer | partly: key encoding and lookup; ELF scanning and the enum writers are not |
| `gen_cfb_font_header.py` | `generate_header`, `extract_font_glyphs`, `extract_image_glyphs`, `generate_element` (18-152) | arguments, declared array size, next character, image x offset, elements written | declaration, bounding-box check, one element per character, footer | modelled: PIL's rasterization is abstracted to each glyph's size and ink |
| `west sign` | `west_commands/sign.py` `Sign.do_run`, `ImgtoolSigner` (127-353) | chosen formats, tool path, header size, alignment, slot size, imgtool runs | build-dir check, format decision, `find_imgtool`, `get_cfg`, devicetree checks, input lookup, signing .bin then .hex | partly: argparse setup not |
| runner `pyocd` | `runners/pyocd.py` `create`, `do_run`, `flash`, `debug_debugserver` (19-180) | the daparg chosen, the programs started | `PYOCD_DAPARG` fallback, `require`, image choice, gdbserver alone or with a gdb client | partly: argparse setup and logging not |
| runner `qemu`, registry; test fixture | | | | not modelled (see section 5) |

How the parts interact:
- The generator emits two pieces of code: the wrapper, compiled into user code, and the handler, compiled into the kernel.
- These two pieces interact only at run time, through six registers and user memory.
- Each side was generated by its own loop. The two loops must agree on the following:
  - the word order;
  - the lo/hi order;
  - the register/`more[]` cut;
  - the number of words.
- The dispatch table connects the wrapper's `K_SYSCALL_<NAME>` to `handle_<name>`. Whether it does so correctly depends on three things:
  - the listing's `#define`s;
  - the table's designated initializers;
  - the linker's choice between a weak alias and the real handler.

The hard behaviours:
- Any user thread can trap with registers of its own choosing.
- Another thread can write user memory while the handler runs.
- The handler reads user memory more than once.
- The behaviour at the 6/7-word boundary.
- Sub-word arguments read whole words (undefined behaviour in C).
- Byte order.
- The order of the JSON list versus the sort order of the ids.
- Names that collide after `upper()`.
- Link order of weak and strong symbols.

## 2. Modules

- `SyscallMarshal`: the wire format as operators, with no variables.
  - `mrsh_args`, `DirectWords` and `MoreWords` model the wrapper's side.
  - `nmrsh`, `SlotOf`, `InMore`, `HandlerArg` and `MoreChecked` model the handler's side.
  - `SplitLo`, `SplitHi` and `SplitVal` model the union, and depend on byte order.
  - `WordOf` and `ValOf` model the `*(uintptr_t *)&arg` and `*(T *)&argN` casts. `JunkOf` supplies the bytes after a short argument.
  - Bytes have `ByteBits` bits, so TLC can enumerate words. A word is `WordBytes` bytes.
  - The target is the variable `target`, chosen once in Init from `Targets` and never changed. It is a record of `sizeof(uintptr_t)`, the type sizes, `--long-registers` and the byte order, so one run covers every target.
- `SyscallCall`: the abstract specification of one call. `syscall_<name>` runs once with the caller's arguments, and the caller gets back exactly its result.
- `SyscallCrossing`: one call at run time. It EXTENDS `SyscallMarshal`.
  - The caller is one of three kinds:
    - `kernel`: the privileged path;
    - `user`: the wrapper;
    - `attacker`: any registers.
  - The actions follow the generated code between the points where another thread or a check matters:

    | Action | Generated code |
    |---|---|
    | `WrapperDirect`, `WrapperDirectReturn` | the privileged path |
    | `WrapperTrap` | the user wrapper's trap |
    | `AttackerTrap` | a trap with arbitrary registers |
    | `HandlerEntry` | the `more[]` check |
    | `HandlerInvoke` | rebuilding the parameters and calling the implementation |
    | `HandlerCheckRet` | the first fetch of the `ret64` pointer, and its check |
    | `HandlerWriteRet` | the second fetch, and the store |
    | `WrapperReturn` | the wrapper's return |
    | `UserThreadWrite` | another thread writing user memory, bounded by `MaxInterference` |

  - `Call == INSTANCE SyscallCall WITH st <- ...` maps the program counters onto the abstract state. `CallRefinement` is `Call!Spec`.
- `SyscallGen`: one run of `main()`.
  - `AnalyzeFn` is one loop iteration. A malformed declaration raises before any file is written.
  - `WriteDispatch`, `WriteList`, `WriteHeaders` and `WriteMrsh` write the outputs in the code's order.
  - `MacroVal`, `Slot` and `Resolve` state how the toolchain reads the outputs:
    - the last `#define` of a macro wins;
    - the last designated initializer wins;
    - a missing initializer is NULL;
    - the linker takes the first definition it meets.
  - A name is represented by its id's rank in byte order, so names that collide after `upper()` share an id.
- `WestSign`: one run of `west sign -t imgtool`.
  - Init picks the environment: `--bin`/`--no-bin`/neither and likewise for hex, `--force`, the build's configured outputs, the tool path, `.config`, the devicetree values and the unsigned inputs.
  - Actions follow the code's order: `CheckBuildDir`, `DecideFormats`, `FindImgtool`, `GetVtoff`, `FlashParams`, `SelectInputs`, `SignBin`, `SignHex`.
  - `log.die` ends in `died`; an exception ends in `raised`. The exception comes either from `check_call` or from the banner's `'{0:x}'` formatting of a `None` text-section offset in `SelectInputs`. `CheckForce(cond)` is `check_force`: die unless the condition holds or `--force` was given.
- `KObjectTable`: the gperf key tables.
  - `WriteEntry` is one loop iteration of `write_gperf_table`, `WriteFooter` the footer.
  - `Pack` is `struct.pack`, `MemBytes` the pointer's bytes in target memory, and `Lookup` the generated lookup with `%compare-lengths`.
  - `KObjEntry` is a `gen_kobject_list` keyword, with 8-byte keys (`KeyBytes`) when `CONFIG_64BIT` is set; `PrivStackEntry` a `gen_priv_stacks` keyword, always 4 bytes.
  - Init picks the build: pointer size, byte order, `CONFIG_64BIT` and the objects found in the ELF.
  - After the footer, `gen_kobject_list` goes on to `WriteTypes`, `WriteOtype` and `WriteSize`: the `-K`, `-O` and `-Z` fragments (the `k_objects` enum, the `otype_to_str` and `obj_size_get` cases). A line is its label and the Kconfig symbol of its `#ifdef`. `CoreLines(skip)` is the loop over `kobjects` with a writer's skip set, `DriverLines` the loop over `subsystems`. The constants `KObjects` and `Subsystems` are the script's own lists (thread_stack and device, no subsystems). `kobject_to_enum` is in `elf_helper`, which is not in the repository; the model takes it as injective (`K_OBJ_<name>`).
- `CfbFont`: one run of `gen_cfb_font_header.py`.
  - Init picks the arguments (`-t`, the file extension, `-x`, `-y`, `--center-x`, `--y-offset`) and the input: a glyph per character, or an image. A glyph is its size as PIL reports it and the pixels it inks; an image is its size and its ink after `convert("1")`.
  - `WriteHeader` writes the array declaration and dispatches on the input type. `MeasureFont` is the bounding-box loop and its two `raise`s. `FontGlyph` and `ImageGlyph` are one iteration of the two extraction loops, `WriteFooter` the `FONT_ENTRY_DEFINE`.
  - `generate_element` and `ColumnByte` pack a cell column by column, row `8*octet+k` into bit `k`, ink as 1. `Drawn` places a glyph at `XPos` (with `--center-x`, `(width-fw)/2+1`, a half pixel taken either way) and `y_offset`; `Cropped` is `image.crop`, black beyond the image's edge.
  - `VPacked` is the reference reading of `CFB_FONT_MONO_VPACKED` that `TableDecodes` checks the elements against.
- `PyOcdRunner`: one `west flash/debug/debugserver/attach` with the pyocd runner.
  - Init picks the command, the options `create()` reads, `PYOCD_DAPARG`, the configured gdb and ELF, which images exist and which programs are installed.
  - `Create`, `DoRun`, `Flash` and `Debug` are the methods of the same names. A program started is a record of what reaches the board: the image, the probe options (`Probe`) and the gdb port.
  - `runners.core` is not in the repository; its `require`, `check_call` and `run_server_and_client` enter by their effect. A missing program or a failing process ends in `raised`.
- `MCSyscallCrossing`, `MCSyscallGen`, `MCWestSign`, `MCKObjectTable`, `MCCfbFont` and `MCPyOcdRunner`: the model values and bounds for TLC.

## 3. Runs and bounds

| Run | Checks | Result |
|---|---|---|
| `crossing_wrapper` (`crossing_32.cfg`) | `CallRefinement`, `CallReturns`, on 32-bit targets of both byte orders and a `--long-registers` target | pass |
| `crossing_attack` | `NoKernelWrite`, with attacker registers and one foreign write | pass |
| `crossing_more_read` | `NoKernelRead` | violation: the handler reads the word after the checked block |
| `crossing_ret_refetch` | `NoKernelWrite` | violation: the `ret64` pointer is changed between its check and the store |
| `gen_tables` | `TypeOK`, `DispatchAgreesWithWrappers`, `IdsIndependentOfOrder` | pass |
| `gen_case_collision` | `DispatchAgreesWithWrappers` | violation: `foo`/`Foo` leave slot 1 NULL and send `foo` to `handle_Foo` |
| `sign_all` | `TypeOK`, `UnforcedCallsWellFormed` | pass |
| `sign_force_vtoff` | `RaisedOnlyByImgtool` | violation: under `--force` with no `CONFIG_TEXT_SECTION_OFFSET`, the banner raises `TypeError` |
| `kobj_tables` | `LookupFindsObjects`, on 32- and 64-bit targets of both byte orders | pass |
| `privstack_64` | `LookupFindsObjects` | violation: 4-byte keys never match 8-byte lookups |
| `font_header` | `TypeOK`, `TableDecodes`, `InkKept` | pass |
| `pyocd_all` | `TypeOK` (at most two programs are started, each well-formed: a gdb client always gets an ELF) | pass |

Why these bounds are enough:
- **Signatures.** There are eight, covering 0, 1, 3, 6, 7 and 12 marshalled words. Together they include:
  - a split return held in a register;
  - a split return whose pointer is in `more[]`;
  - a `u64_t` that straddles register 4 and `more[0]`;
  - a `u8_t`, whose junk bytes differ between byte orders.
- **Values.** Words have 4 bits. `u64_t` values such as 18 have unequal halves, so a swapped lo/hi is visible.
- **Memory.** User memory is words 0..8. The wrapper's `ret64` is at 0 and `more[]` starts at 2, so a 7-word block ends at the last user word. Kernel memory holds 12.
- **Attacker.** The attacker's words are 0 (valid), 8 (the last user word) and 9 (kernel). That is enough to place a block or a pointer on each side of the boundary.
- **Generator.** `gen_tables` enumerates every ordering of every subset of four names:
  - `qux` is malformed;
  - `foo` is in noweak and linked after the weak aliases;
  - every set of implemented handlers is tried.

- **West sign.** `sign_all` enumerates all 36,864 environments. Alignment and slot size are each zero or nonzero.
- **Key tables.** Bytes are one bit, so a 32-bit pointer has 4 bits and a 64-bit pointer 8. Seven objects per table sit inside and outside the static section. The lookup is checked for every pointer value.
- **Font header.** Two characters, cells of 2 or 3 columns and 8 or 16 rows, `--y-offset` -1, 0 or 2. The three glyphs have ink in opposite corners, so a reversed bit, column or element order shows; one is 9 rows tall and needs the 16-row cell, one is 3 wide and fills the 3-column cell, so centring reaches the right edge. Both images are narrower than two 3-column cells, so the crop beyond the edge is reached. Every combination (2,592 starts) is checked; fonts that do not match `-x`/`-y` end in the `raise`.
- **Targets.** `crossing_wrapper` tries three targets: 32-bit little-endian, 32-bit big-endian, and a `--long-registers` target with 4-byte words on which `u64_t` is one word. The attack runs use the 32-bit little-endian target, where the `more[]` arithmetic is the same.
- **pyocd.** `pyocd_all` enumerates all 18,432 inputs. Every command is tried, with a zero and a non-zero flash address, and every option either absent or set. `--daparg` may be absent, empty or set, and `PYOCD_DAPARG` absent, empty or set, and any of the build's images and installed programs may be missing.

Fairness:
- `SyscallCrossing` assumes `WF_vars(CallStep)`. A trapped call is run to completion by the kernel, and the caller is scheduled again after the handler returns. The foreign thread's writes get no fairness.
- `SyscallGen`, `WestSign`, `KObjectTable`, `CfbFont` and `PyOcdRunner` assume `WF_vars(Next)`, because each is a script that runs to completion.
- Every model ends in a `Terminated` stuttering step, so deadlock checking stays on.

Every property of a passing run has a mutant in `PROJECT.json`: a plausible bug in the mapped code that TLC then catches.

## 4. Findings

1. **The `more[]` read check is one word short** (line 268). The handler checks `nmrsh-6` words of `more[]` but reads `nmrsh-5`, so an attacker makes the handler read one kernel word.
2. **The `ret64` pointer is fetched twice** (lines 295-297), once for the check and once for the store. With the pointer in `more[]`, another thread redirects the kernel's 8-byte store to kernel memory.
3. **No duplicate or case-collision check** (line 320). Spec §7 calls a duplicate name fatal before any output is written. The code accepts it and produces a broken table.
4. **Privileged-stack keys are always 4 bytes** (`gen_priv_stacks.py` line 90). The lookup uses `sizeof(void *)`, so on a 64-bit target every lookup misses and `priv_stack_find` dereferences NULL. `gen_kobject_list.py` handles this case with `Q`. Today the privileged stacks are used on 32-bit ARM only.
5. **`--force` without `CONFIG_TEXT_SECTION_OFFSET` crashes** (`sign.py` line 228). `get_cfg` warns through `check_force` and returns `None` so that the forced run can go on. The "image configuration" banner then formats that value with `'{0:x}'`, which raises `TypeError` before imgtool runs. `RaisedOnlyByImgtool` says that only a failing imgtool run raises, and `sign_force_vtoff` finds the trace.

## 5. Not modelled

- Argument parsing and the C text of the templates. Only their effect enters the models.
- I/O errors while writing the outputs.
- `--split-type` sizes other than two words. This is excluded by an ASSUME.
- Finding objects in the ELF (`elf_helper` is not in the repository) and PIL's rasterization; the models take their results as inputs.
- The C text of the `gen_kobject_list.py` fragments, and the kernel headers that include them (not in the repository). The fragment writers are modelled, but no property is stated over them: the script's `kobjects` list has no `#ifdef` dependency and `subsystems` is empty, so each fragment is fixed text.
- The `qemu` runner is a stub whose `do_run` does nothing. The registry in `runners/__init__.py` looks a class up in `runners.core`, which is not in the repository. In `pyocd`, the argparse setup and the log messages are left out, and so are the command-line flags that only pass options through (`-e sector`, `--flash-opt`, `-tui`, the telnet port).
- A handler records its caller's frame in the per-CPU `_current_cpu->syscall_frame_point`. Whether a handler can be preempted by another thread's handler on the same CPU, and who reads the frame later, is decided in kernel code that is not in the repository. The models run one call at a time; `PROJECT.json` lists this as a hazard.
- In `gen_cfb_font_header.py`: the `--dump` previews and the command line echoed in the header comment.
- In `gen_cfb_font_header.py`, three behaviours are reached but no property claims against them (hazards in `PROJECT.json`): `--center-x` draws the widest glyphs from column 1, so their last column is cut (`InkKept` states the uncentred case; widened to the `--center-x` position, TLC finds a 2-column glyph losing its right column); an image too small for `--first..--last` gives solid-black glyphs without an error; a failed size check leaves the array declaration already written to `-o`.
- Properties that only restate the model were left out on purpose: the syscall crossing's and the key table's type invariants (no C or Python bug can leave the types they state), "implemented calls reach their implementation" (the models build only the kernel's noweak configuration, so it reduces to the noweak guard), "west sign signs the formats requested" (it restates do_run's two chains), and the pyocd probe and image properties (they restate `create()` and `flash()`). The hazards they were meant for are listed in `PROJECT.json` with a note.
- In `west sign`: a failed .hex run leaves the signed .bin. The model reaches this, and it is listed as a hazard in `PROJECT.json`. No property claims against it, because nothing promises all-or-nothing signing.

Planned next:
- more than one concurrent caller of a handler.
