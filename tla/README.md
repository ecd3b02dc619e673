# A formal model of FPChecker

FPChecker instruments programs while they are compiled (LLVM passes behind
compiler wrappers), follows their floating-point computations while they run (C
runtimes inlined into every module) and makes reports of what they leave. This
directory models that in TLA+: the runtime that tracks the rounding error of FP32
programs, the runtime that counts floating-point exceptions in programs with
threads, how units share a runtime, where the two passes put their hooks, the
builds that get there, and the generator of the reports. TLC checks small instances; TLAPS proves the main
properties for all values of the constants.

## 1. Inventory

Sources are under `src/` (paths below are relative to it).

| Component | State | Operations | What makes it correct |
|---|---|---|---|
| **Error tables** (`src/FPC_Hashtable_Error.h`) | two hash tables with chained bins (addresses; registers of functions), their item counts, one clock | update, lookup, memcpy over bytes | a lookup returns the last update of its key; no key twice; counts exact; stamps unique; overlapping copies right |
| **String cache** (same file, `_FPC_SAFE_STR_`) | 256 direct-mapped slots of 511 characters | validate a pointer | the text read is the text at the pointer |
| **Report writer** (same file, `_FPC_WRITE_AND_PRINT_TO_JSON_`) | none (a function of the tables) | dump | one row per line, the latest error, a JSON array |
| **Propagation hooks** (`src/Runtime_error.h`) | argument buffer, return stack | hook per FP32 operation, select, math function, load, store, memcpy, call, return | value + recorded error = FP64 shadow; pass and hook mean the same operation |
| **Branch and PHI hooks** (same file) | name of the last basic block | branch, PHI | a PHI gets the error of the value it took |
| **Error series** (`src/FPC_FloatSeries_List.h`) | 128-slot probing table of lists | append, print | every listed line's errors, in order |
| **Start and end** (`src/Runtime_error.h`, `Runtime_cpu.h`, `main` hooks and linkage of the passes) | per copy of the runtime: tables created, handler registered, report written | link, init, lazy init, print | units share one table; nothing lost; one complete report |
| **Error pass** (`src/Instrumentation_error.cpp`, `driver_error.cpp`) | – | which hook at which place | hooks see operands that are recorded |
| **Exception runtime** (`src/Runtime_cpu.h`, `FPC_Hashtable.h`) | event table of chained bins, mutex, histograms | check, print, trap | no event lost between threads; one entry per location; a report within bounds; only traps stop the program |
| **Exception pass** (`src/Instrumentation_cpu.cpp`) | one file-name global per module | insert checks | a check counts exactly when its result is used; its file |
| **Compiler wrappers** (`cpu_checking/clang_fpchecker.py`, `mpicc_fpchecker.py`) | command line, environment | instrument, fall back | the program is built, current, and instrumented as asked |
| **Interception** (`interception_tool/`) | `LD_PRELOAD` of processes | `exec*` | every compiler call is wrapped once; builds end |
| **Report generator** (`cpu_checking/fpc_create_report.py`, `line_highlighting.py`) | rows of all traces | find, load, merge, render, query, remove | a report shows whole traces, each once, the same in every part |
| **Comparison and histogram scripts** (`fpc_compare_traces.py`, `histograms/`) | rows of traces | compare, plot | not modelled, see section 6 |
| Logging, display, CUDA code | – | – | not modelled: printing only; not built any more |

**Interactions.** A wrapper runs the compiler with a pass; the pass puts hook
calls around instructions and the runtime into the object; the linker keeps one
copy of the runtime (of what has one name in C and C++). A step of the program is then an instruction with the hook
calls around it. Hooks of operations, loads, stores and copies read and write the
tables; hooks of calls move errors from the caller's records to the callee's
through the argument buffer and back through the return stack; branch hooks leave
the block name for the PHI hooks. Every name goes through the string cache on its
way into the tables. At exit, the report writer walks the tables, and every
process leaves its traces in one directory, where the generator finds them.

**What is hard.** (1) The state is global and keyed by names, while the program
it shadows has activations, pointers and linking units: recursion, callbacks from
code without hooks, exceptions and equal names all meet in one buffer or key.
(2) Two views of one datum must agree: the operations' codes and names in pass and
hook, what the runtime defines and what the pass tells the linker, truncated and whole names, PHIs at once
and their hooks one by one, a memmove at once and its records byte by byte.
(3) Fixed sizes: 256 slots, 511 characters, 8192 results, 2560 characters of
PHI description, 128 lines; 30 cancelled bits, a danger zone of exponents.
(4) The process may start with a hook or with `main`, and end by return, `exit()`
or not at all. The error runtime has no locks and claims nothing about threads;
the exception runtime does. (5) The passes insert
instructions into the function they walk over: what they ask of it (the number of
a register, the one user of a value, the nearest debug location) changes under
them. (6) Units are compiled in any order with fallbacks, traces are written and
removed while a report is made. `PROJECT.json` lists the hazards with their lines.

## 2. Modules and how they correspond to the code

| Module | Models | Properties |
|---|---|---|
| `StrCache` | `_FPC_SAFE_STR_`: `Touch` is the call's effect on the cache, `Deref` what is read through the returned pointer *later* | `CacheCoherent` (part of the proof's invariant) |
| `ErrorTables` | both tables, clock, cache; `AddressUpdate`, `RegisterUpdate`, `MemcpyBegin/Step/End` | `TypeOK`, `EachKeyOnce`, `CountsAreExact`, `StampsAreUnique`, `MemcpyExact`, `ReadBack`, `ImplementsMap` |
| `ErrorMap` | abstract specification: two maps and a clock | – |
| `ErrorReport` | the writer, as a function of the tables of `ErrorTables`, and the loader of its file (`loadReport` of the generator) | `ReportIsLatest`, `LogHasRoom`, `RowsParse` |
| `Operations` | the operations that get a hook: the pass's codes and names, the hook's, and what it computes of operands in FP64 | `ArithmeticRedone`, `MathRedone` (proved for every code and name) |
| `ErrorPropagation` | call stack, registers and memory of a program (values and FP64 shadows) with all hooks of operations, selects, math functions, memory, calls and returns | `TypeOK`, `RecordsAreTrue`, `MemoryIsTrue`, `ReturnStackDrained`, `ArgsDelivered`, `ResultsDelivered`, `TruthIsLocal`, `EveryCallDelivers` |
| `PhiNodes` | one activation of a function with any control-flow graph; the order the pass gives PHI hooks | `TypeOK`, `PhiErrorsFollow`, `KnowsPredecessor` |
| `FloatSeries` | line filter, probing table, its JSON rows and lookup | `EachLineOneSlot`, `ImplementsLog` |
| `SeriesLog` | abstract specification: a list per line, at most `Room` lists | – |
| `Linkage` | units of C and C++ that each contain the runtime: which definitions the pass lets the linker merge, whose copy it keeps, which functions get hooks | `NothingLost` of `ReportLifecycle` |
| `ReportLifecycle` | a program of several units with either tool: linking, static initialisers, `main`, exit handlers | `NothingLost`, `WrittenOnce`, `ExitReports` |
| `CpuEvents` | threads in the exception checks, one access to shared memory per step: lock, walk, addition field by field, append, trap; the report written while others go on | `TypeOK`, `NoEventLost`, `OneEntryEach`, `ReportInBounds`, `OnlyTrapsAbort` |
| `LlvmIR` | a function as a sequence of instructions; debug locations (`Utility.cpp`), register numbers, the select that alone uses a value, insertion; `Valid` says what a function is | – |
| `HookPlacement` | the error pass, one action per kind of instruction it visits and per loop it makes (`instrumentFunction`, the PHI, branch and `main` loops) | `RecordsFirst`, `NamesAgree`, `UsesDefined` |
| `CheckPlacement` | the exception pass on the same functions, with its condition and its file name | `ChecksFollowUse` |
| `Build` | `make`, wrappers, compiler, linker and interception, one process step each | `EverythingHooked`, `LeavesProgram`, `ThreadedLocked`, `BuildEnds` |
| `TinyFloat` | binary floating point with few bits: what the hardware gives a check (external) | – |
| `EventChecks` | classification of a result, fast checking, exponent counts (`_FPC_FP32_CHECK_`, `_FPC_FP64_CHECK_`) | `EventsAreTrue` |
| `ReportGenerator` | processes that open, write and close traces; `fpc_create_report.py` with its walks, loads, merging, pages, text mode, queries and removals | `ReportFaithful` |
| `MC*` | instances for TLC: `MCPlacement` runs both passes, `MCReports` the checks and the generator, `MCErrorTables` the tables with their report | – |
| `*Proofs` | theorems, see section 5 | – |

How the modules fit together: `ErrorTables` uses `StrCache` and is shown to
implement `ErrorMap`; `ErrorReport` extends `ErrorTables` and is checked in all
its states; `ErrorPropagation` finds its operations through the tables of `Operations`,
takes the error tables to be the maps of `ErrorMap`,
a missing record being error 0 as in the lookup, and takes the order of hooks from
the pass, which is what `RecordsFirst` of `HookPlacement` is about; `PhiNodes`
takes it from `ErrorPropagation` that other hooks record the right error;
`FloatSeries` is shown to implement `SeriesLog`; `ReportLifecycle` runs the
program that `Linkage` has linked. `CpuEvents` takes the events of a
check as given, `EventChecks` says which they are, and `ReportGenerator` takes the
tables processes end with as `Job`. The two runtimes are never linked into one
module, and `Build` shows that no program gets both.

**Abstractions.** Names, pointers and texts are model values or short strings with
functions for what matters of them (`SlotOf`, `Content`, `Prefix`, `InHook`).
The pair of error and relative error is one value in `ErrorTables`. In
`Operations` what an operation gives in FP64 is a constant, `Exact(op, operands)`
over integers, and `ErrorPropagation` has a rounding `Round` to FP32: the hook's
formula *operation on (value + error) of the operands, minus the computed value*
is kept, with the way the operation is found (by code or name) and its exception
(a shadow divisor of 0 gives 0); its rounding in double precision is not kept, so
a theorem about it holds up to FP64 rounding. A
program is any sequence of instructions that is well formed (operands are
assigned, parameters are not); what else it may do is the constant `Features`
(`recursion`, `callback`, `invoke`, `constStore`, `zeroDivide`, `nestedSelect`, and
`noHook`: intrinsics and conversions the pass does not know). FP64 arithmetic, which this
runtime does not follow, is not part of the program. In `LlvmIR` an instruction
has a kind, a type, operands, line and file, and a register's name is the number
LLVM prints for it, which insertions change; `Valid` has the rules of LLVM's
verifier the passes rely on (one definition per result, a select's condition is no
float, no block ends with a PHI). In `Build` an object is the version
it was compiled from, the tools in it and whether its runtime has the lock. In
`ReportGenerator` a page is the set of marked lines, a plot the series it shows.

Operators commented *faulty variant* are not part of a specification: each stands
for a plausible bug of one definition, and putting it in that definition's place
must break the property named in `PROJECT.json` ("mutants").

## 3. Runs

Each is `tlc -config <cfg> <module>`.

| Run (cfg, module) | What it shows |
|---|---|
| `tables` (`ErrorTables.cfg`, `MCErrorTables`) | With names that fit the cache and file names that share no slot with function names, the tables are the maps of `ErrorMap`: through collisions, overwrites, evictions and overlapping copies. Whenever the program may end, the report has one row per line with the latest error of both tables; the log has room; the file is JSON with exactly these rows if and only if there is a row, its numbers are finite and its names need no escapes; the generator reads it back also with `inf` or `nan`. |
| `closed` (`ErrorPropagation.cfg`, `MCErrorPropagation`) | Without the features every recorded error is true, at every depth of the stack: of sums, divisions, selects and math functions. |
| `open` (`ErrorPropagation_open.cfg`) | With callbacks, invokes, exceptions, and stores and operations that have no hook, the call hooks still deliver the right errors between instrumented functions, whatever others have left in the buffers, and a wrong record spoils only what is computed from it. |
| `invoke` (`ErrorPropagation_invoke.cfg`, violation) | A call compiled to an invoke delivers stale argument errors. |
| `phi` (`PhiNodes.cfg`, `MCPhiNodes`) | In a loop with two PHIs, with calls in between, records follow the PHIs. |
| `phi_switch` (`PhiNodes_switch.cfg`, violation) | A predecessor that ends in a switch or an invoke is not recorded. |
| `series` (`FloatSeries.cfg`) | Through collisions, key 0 and a full table, each line has one slot and its values in order. |
| `lifecycle` (`ReportLifecycle.cfg`) | Any choice of the units that get hooks, of the unit of `main` and of the tool, in a program of C and C++: it links, all hooks record in one table, nothing is lost, a written report is replaced by a complete one at most, and there is a report at exit whenever a hook came first. |
| `cpu` (`CpuEvents.cfg`, `MCCpuEvents`) | With the lock, two threads lose no event, append no location twice and follow no null pointer; the report of a program that does not wait for its threads is between what was counted when `main` returned and what has occurred. |
| `passes` (`Placement.cfg`, `MCPlacement`) | On a family of functions: a hook that reads a register's error runs behind those that record it (except for values only a select uses), all hooks agree on the registers' names although every helper inserted renumbers what follows, every call uses values that are computed, and an exception check counts exactly when the program uses its result. |
| `build` (`Build.cfg`) | A build of two units in any order of commands, edits and tools, under the interception tool or not: the program is the latest and has the hooks of the chosen tool wherever these compile; what does not compile with the tool costs nobody the program; threads have their lock; the build ends. |
| `reports` (`Reports.cfg`, `MCReports`) | Every operation of two small formats is counted as what its exact result is, with and without fast checking and exponent counts; and a report shows whole traces of one set of processes in all its parts, whatever processes end, queries are made or traces are removed meanwhile. |

**Outside these runs.** The conditions of the passing runs are needed; TLC shows a
violation within seconds when one is lifted:

*Error runtime.*
- `Prefix <- MCLong` in `ErrorTables.cfg` (a function name beyond 511
  characters) refutes `ReadBack`: an update stores under the cut name
  (`FPC_Hashtable_Error.h:447`), a lookup searches for the whole one (`:532`).
- `SlotOf <- MCSlotsShared` (a file name on the slot of a function name) refutes
  `FilesAreFiles`: both pointers into the cache are alive at `:446`, and the
  record's file is a function name.
- `Features = {"recursion"}` refutes `RecordsAreTrue`: activations of one
  function share its records. `{"constStore"}` refutes `MemoryIsTrue`.
- `{"zeroDivide"}`, `{"nestedSelect"}` and `{"noHook"}` refute `RecordsAreTrue`: a quotient
  whose FP64 divisor is 0 is recorded as if it were 0 (`Runtime_error.h:617`); the
  hook of a select that only another select uses goes behind that one and takes
  its condition (`Instrumentation_error.cpp:949-988`); an operation without a hook
  leaves what the register's last value had.
- `{"callback"}` refutes `ReturnStackDrained`: results of functions called by
  code without hooks stay on the return stack. Once 8192 are there, pushes are
  dropped (`Runtime_error.h:519`); this is why `ResultsDelivered` asks for
  room. A function called back also starts with the argument errors of some
  earlier call (`:500`).
- `Phis <- MCPhisSwapped` (a PHI that reads a later PHI of its block) refutes
  `PhiErrorsFollow`: hooks run last PHI first. So does `InHook <- MCCut`, a
  description longer than the hook's copy.
- More listed lines than slots: values of the line that comes late are dropped
  without a word (`Runtime_error.h:240`); `SeriesLog` has `Room` for this.
- `RunsReport` is refuted in `ReportLifecycle.cfg`: a program whose `main`
  starts the runtime registers no exit handler (`Runtime_error.h:85`) and leaves
  no report when it ends by `exit()`.
- With units of C and of C++, each language has its own `fpc_finalized` (a static
  of a function with two symbols). If a hook of the language that `main` is not in
  ran first, the report is written when `main` returns and again at exit:
  `WrittenOnce` asks in this case that the second is complete.
- A report without rows: the two characters taken back are the opening bracket
  and its line end, and the file is `]`, not JSON
  (`FPC_Hashtable_Error.h:861`); the generator stops at it. `RowsParse` says so.
- A report with an infinite relative error (`Runtime_error.h:667`, `:794`) or a
  `nan` is not JSON either: `%.17e` prints a bare `inf` or `nan`
  (`FPC_Hashtable_Error.h:853-854`). The generator, whose comment says as much
  (`fpc_create_report.py:116`), parses it again with these replaced. A file name
  with a quote, a backslash or a control character is printed as it is (`:851`)
  and is not read as that name by anybody. `RowsParse` is an equivalence with all
  three cases; other readers of the file than the generator meet the second.

*Exception runtime.*
- `Guarded = FALSE` in `CpuEvents.cfg` refutes `NoEventLost`, `OneEntryEach` and
  `OnlyTrapsAbort`: the wrapper defines `FPC_MULTI_THREADED` only for `-fopenmp`
  (`clang_fpchecker.py:92`), so a program compiled with `-pthread` counts
  without the lock, may lose events, and may go through the null pointer of
  `FPC_Hashtable.h:267`.
- Facts `EventsAreTrue` is stated around: the latent kinds include infinity
  itself; inf/0 counts as a division by zero; a cancellation needs more than 30
  lost bits, while the comment says "greater than zero" (`Runtime_cpu.h:149`);
  fast checking never counts a comparison.

*Passes.*
- `Features = {"late"}` in `Placement.cfg` (no instruction near the entry has a
  location, as at `-O0`) refutes `RecordsFirst`: argument errors are popped behind
  the store of the first parameter (`Instrumentation_error.cpp:349`), although
  the pop is described as happening at the callee's entry (`Runtime_error.h:491`).
- `AllRecordsFirst` is refuted in `Placement.cfg`: the hook of a value only a
  select uses goes behind the select (`Instrumentation_error.cpp:949`), whose own
  hook, and other readers, go first.
- `Features = {"header"}` refutes `FilesMatch`: the file name is one global per
  module, and the last instruction's wins (`Instrumentation_cpu.cpp:246`).
- A comparison for equality used only as a select's condition is counted only when
  it fails; with nested selects the inner one's hook has the outer one's
  condition; casts, vectors and double math have no hook; an MPI hook copies
  4 bytes per element whatever the type (`:603`).

*Builds.*
- `Careful = FALSE` (another tool without a clean) and `Separate = FALSE` (compiling
  and linking in one command, which counts as linking and is not instrumented)
  refute `EverythingHooked`; so does `Via = {"posix_spawn"}`, which the
  interception does not catch. `Mpi = TRUE` passes.
- `Threaded = {u1}` with `Fragile = {}` refutes `ThreadedLocked`: of two
  copies of the runtime the linker may keep the one without the lock.
- With both environment variables set, a wrapper prints an error and returns 0,
  and so it does when the original command fails: `make` does not notice.

*Reports.*
- `MagnitudeIsMax` is refuted in `Reports.cfg`: a magnitude is compared with a
  stored error that has a sign (`fpc_create_report.py:272`), so the error shown may
  not have the largest magnitude, depending on the order of the files.
- `Id <- MCIdReused` (host and pid come back, as in containers) refutes
  `ReportFaithful`: a process overwrites the trace of another.
- The generator stops at a trace that does not parse, for all traces; the old
  report stays. If a source file is missing, or some names are relative and some
  absolute, it stops after it has removed the old report and written part of the
  new one. Events and usage are walked one after the other, so their parts may
  cover different processes; `ReportFaithful` has a set of processes for each.

**Bounds, and why they are enough.** `tables`: `MaxClock = 3` updates
in two bins: enough for two keys of one bin with one overwritten, for one
file name evicting another, and for a 2-byte overlapping copy after an update
(`MaxCopy = 2`, three addresses). The report has up to two rows, each with finite
numbers or not, and a name that needs escapes or not, besides entries without a
line (entries without a file are in the theorems only). `closed`, `open`:
`MaxDepth = 3` frames put an instrumented function above and below one
without hooks; `ArgMax = 1` and one parameter fill the buffer; `RetMax = 2`
lets a leftover result lie under the current one. Numbers are 0..2 and operations
sums modulo 3, with a carry for `FAdd` so that a wrong code shows, and a rounding to
even numbers; or one bit that FP32 rounds away: errors appear, cancel and
accumulate. An addition, a division and one math function stand for the operations,
of which `ArithmeticRedone` and `MathRedone` treat each. `phi`: a loop reaches every pair of
predecessor and last block; three errors tell three values apart. `series`:
`Size = 3` slots, four listed lines of which two collide and one is 0, and
`MaxValues = 5`: the table gets full and a fifth value arrives. `lifecycle`: units `a`
and `b` in C and `c` in C++, so that there are two of one language and two
languages;
three records and two objects, so that a destructor registered before and one
registered after the report's handler both run hooks. `cpu`: two threads,
`MaxChecks = 3` checks with any of two events, two bins of which one holds two
locations: two threads meet at one entry, at one end of a list and at an empty
bin, a third check finds what they left, and either thread may be anywhere in a
check when `main` returns. `passes`: three instructions of 13 kinds with every
choice of operands among parameters and earlier results, the first ones with or
without a location, and a loop whose PHI takes a value of its own block: a value
is used by nothing, one select, several instructions or only a hook. `build`: two units, of
which one does not compile with the tools, and `MaxEdits = 2` versions of each:
a build after an edit finds one object old and one current. `reports`: all
operands of formats with two bits of mantissa and 5 and 7 as special
exponents (both ends of the exponent range, subnormal numbers and ties occur),
`Threshold = 1`; two processes with seven jobs each: same line, other files, no
rows, NaN, negative errors, exponents at both ends; `MaxReports = MaxOthers = 1`
puts a removal before, during or after one report.

**Deadlock** is not checked where the bounds end a run (`tables`,
`series`, `reports`) or the process ends (`lifecycle`); the propagation and PHI
models and the builds never stop; `passes` ends in a stutter when a pass is
through; and in `CpuEvents` only the end of the process stops everybody
(its last step is a stutter): no thread waits for the lock for ever.

**Fairness.** `ReportLifecycle`: once the process is exiting, libc
runs one exit handler after the other (`WF(RunHandler \/ End)`; destructors
terminate). `Build`: processes that can run do (`WF(Step)`; compilers
terminate); users need not edit, clean or build. Nothing makes a program call a
hook, leave `main` or exit, so no property needs it to. The other components
are code called by the program, or by a user, and promise safety only.

## 4. What the modelling found

Two disagreements between code and its documentation are runs (`invoke`,
`phi_switch`; the findings of `PROJECT.json` quote the lines); the others are
listed in section 3. Most come from two causes: state keyed by names instead
of activations, pointers or processes, and pairs of steps of which one is missing
or comes too late (invoke, switch, uninstrumented caller, `exit()`, late pops).

## 5. What is proved

`tlapm` checks every step; no assumption besides the named `ASSUME`s of the
modules, which TLC evaluates, and the conditions the theorems state.

**`ErrorTablesProofs`** – for every set of names, cache, hash, number of
bins and number of updates: `TypeCorrect`, `KeysOnce`, `ExactCounts`,
`UniqueStamps`. The inductive invariant `IInv` joins the four properties with
the coherence of the cache (without which an update could store a non-text) and
counts in the form "`n` is the cardinality of a finite set of keys", which an
append increases by one only because the key is new. The argument runs over one
bin (`ChainSetEntries`, `ChainSetLookup`), a table (`TableSetEntries`,
`TableCount`, `TableStamps`), and the two updates; memcpy is a series of updates.
On top of `IInv`: `CopiesExactly` (a memcpy is exact for any
length and overlap: bytes written so far are right, and those of the source that
are not yet overwritten are as they were); `UpdatesFound` (`ReadBack`) under
`NamesWhole` (function names are readable and fit); and the refinement
`TablesAreMaps` (`ImplementsMap`) under `SlotsApart` (a file name never evicts a
function name). The lemma all three rest on is `ErrAfterSet`: an update of a
chained table changes the error of its key only.

The same module, of the report, for tables of any size and in every state in
which the program could end: `LatestReported` (`ReportIsLatest`),
`RoomInLog` (`LogHasRoom`, the assertion in the code) and `ReportParses`
(`RowsParse`: JSON if and only if there is a row, with finite numbers and plain
names; read back by the generator whatever the numbers). Induction over data is done by the least element of the set of
counterexamples (`Least`). A fold is shown to be the sequence of states of its loop
(`FoldExists`, `LogLoop`, `WrittenLoop`, `PrintLoop`, `ParseLoop`), and each loop
has an invariant: the walk over the bins has collected every entry of the bins it
has passed and no key twice (`Collected`: here `EachKeyOnce` is needed), the log
has one row per line, made from an entry and as new as any of its line (`LogOK`),
what is written are the shown rows (`WrittenOK`), the output has a row at every
third place (`PrintedOK`, `JsonOK`), and so has the sanitized output (`TextOK`); the
parser has read as many (`ReadOK`), or stays where it met a row it cannot read
(`NotRead`).
The log is short enough because keys of entries are different and counted
(`BinsLength`); the row of the highest clock is *the* latest entry because no two
stamps are equal (`StampsApart`).

**`ErrorPropagationProofs`** – `ArithmeticRedone` and `MathRedone`: the hook redoes
the operation that the pass meant, for every opcode and every math function the
pass lets through, except a division by zero. From them, under `ClosedWorld` (no
`Features`, parameters fit the buffer), for any programs of these operations, any
FP64 results, rounding, functions and depth: `ErrorsAreTrue`, `MemoryErrorsAreTrue`, `NoLeftovers`. The invariant `CInv` says
that no function is active twice, so that a record belongs to one frame, that
every record of every frame is true (not just of the running one: a return
makes the caller run again), and that the return stack is empty between calls.
For any program, whatever its `Features`, and under `Total` (an operation, but for a
division by zero, has an integer result on all integers, as a wrong record may take
an operand anywhere; `NaN` and infinities are outside this model):
`PropagationTypes`, `ArgumentsArrive`, `ResultsArrive` and `HarmIsLocal` (true
operands give a true result, unless FP64 divides by zero or a select is given
another's condition). They rest on
`PInv`: types, exactly the first `depth` frames in use, and a call site that pops a
result is one of a function with hooks.

**`PhiNodesProofs`** – for every control-flow graph under `Tractable` (PHIs
read earlier PHIs only, descriptions fit, PHI blocks are entered by branches):
`PhiErrors`, `PhiPredecessor`, `PhiTypes`. The invariant splits the PHIs of the
block in those whose hooks have run (`Settled`) and those whose hooks have not
(`Waiting`: their value's error is still what their operand's record says).

**`ReportProofs`**, first half – for any lines, table size and values: `OneSlotEach`
and the refinement `SeriesLogged` (`ImplementsLog`). The invariant adds to the
property that the probe of every line with a slot ends (`Reached`), so that an
append, which fills at most the slot where its own probe stopped, moves nobody
else's (`AppendKeepsSlot`).

Second half – for any processes, jobs, files and kinds of events, under `IdsOwn` (no
two processes have the same host and pid; without it the property is refuted, see
section 3): `ReportsFaithful` (`ReportFaithful`). `RInv` says that a trace is absent,
open, or the whole of what its process has recorded (`TracesOK`); that what was there
when the command was given stays while it runs, as traces are removed between
commands only (`BeforeOK`); and that for every group the tables hold the traces of
one set of processes, none of which will be loaded again, while a process that had
ended before is in that set, or found, or in a walk still to come (`AllLoaded`).
`DataIs` relates the tables to the set: counts to sums over its items, lines and
inputs to its items' (`EventsAre`), exponents (`UsageAre`), entries to the rows of
their line (`ErrorsAre`), values to the series (`SeriesAre`). The loops over rows are
folds, of which the provers know nothing: `LoopUnwound` gets their value row by row
from a function that exists (`UnwoundThere`) and that all such functions agree with
(`UnwoundSame`), and `SumSplit`, `SumGrows`, `SumZero` do the same for sums over finite
sets. A row is then one step (`EventsOfItem`, `UsageOfItem`, `ErrorsOfRow`,
`SeriesOfRow`), a trace all of its rows (`EventsLoaded` and so on), and a step of the
generator adds one process to the set (`LoadStep`). What is shown is read off the
tables (`EventsShown`, `PagesShown`, `UsageShown`, `ErrorsShown`, `SeriesShown`). The
theorem asks of a job what the runtime's tables are (`IsJob`): its items have its
input, and an exponent is there because it has been counted.

**`ReportLifecycleProofs`** – for any units in either language, with or without
hooks, any tool, and any number of records, objects and handlers: `RecordsKept` and
`ReportStays`. Everything the runtime defines is merged (`AllMerged`), so the
program links, and all copies of its functions work on one table (`OneTable`).
Creating tables loses nothing because without tables nothing has been recorded
(`AllKept`); the report stays because whoever writes it marks it as written in its
copy of the function, of which a program of one language has one (`OneFunction`),
and `main` is the first to do so (`Marked`).

**`BuildProofs`** – under `Setting` (separate commands, a clean before another
tool, programs executed in a way the interception catches), for any units,
edits, fragile units and order of commands: `AllHooked`, `ProgramLeft`, and, if all
units that get hooks are compiled for threads, `LockKept`. The invariant `BInv`
follows a command through its processes: who inherits the preload (`ChainOK`),
why the compiler runs without the tool (`CompilerOK`), what a finished command
has left (`DoneOK`), that an object is never newer than its source (`ObjectsOK`),
that nothing is linked early (`LinkOK`), and whose runtime is kept (`RuntimeOK`).

**`CpuEventsProofs`** – for any number of threads, locations, bins and events:
`EventTypes` without any condition, and `OneInTable`, `EntriesOnce`, `TrapsOnly`,
`EventsCounted` (`NoEventLost`) and `ReportBounded` (`ReportInBounds`) for a runtime
with the lock. Types need an argument about room: an entry is
allocated by a thread that has begun a check and not yet been through the list
(`Waiting`), and entries and such threads together are no more than checks. With
the lock, every list goes through the entries of its bin in the order of
allocation (`ListsOK`), so a walk has seen all entries before the next one
(`WalkOK`), and at the end of the list all there are; hence the location is new,
and the new entry either heads an empty bin or follows a last one (`LinkOK`).
The sums of the last two are reduced to the one entry of a location (`SumOne`,
`SumRow`). `CountInv` says what the one thread in the table still owes: its entry
holds what it has read, and each event of its check is counted or still to do.
`ReportInv` follows the report through the lists: the entries it has passed
(`Passed`) have one row each, with counts between those at `main`'s return
(`Snapshot`) and now, and the list walk of a function's iterates
(`IterateExists`) reaches every entry (`ListedIsInList`).

The second half is about `EventChecks` alone, in formats of any width:
`EventsClassified` (`EventsAreTrue`), with any danger zone and threshold, by a
step that establishes the property whatever was before. Powers of two are a
recursive function (`Pow2`), of which the provers know nothing: it exists, grows and
turns sums into products (`Pow2Def`, `Pow2Plus`, `Pow2Grows`). Bits are an exponent
and a mantissa in one way (`BitsOf`, `DivideOnce`), magnitudes are in the order of
their bits (`MagStep`, `MagOrder`), and an exponent's begin at a power of two
(`MagPow`); a quotient has a number of the format below it (`NearestBelow`) and
becomes infinite or subnormal by comparison with two midpoints (`NearestInfinite`,
`NearestSubnormal`: ties come out right because the bits in front of both powers of
two are odd). Hence what fast checking ends early on is none of these
(`NotHidden`), and the code's tests of exponents are tests of values (`FoundTrue`,
`FoundByZero`, `FoundLatent`, `FoundCancellation`).

**`PlacementProofs`** – both passes on any valid function of any length whose
instructions, PHI nodes apart, stand behind what they use (`InLayoutOrder`, as
compilers lay blocks out; the functions of the run do, and LLVM asks only for
dominance): `NamesAlwaysAgree`, `ValuesComputed`, `ChecksCountUse`, and
`RecordsComeFirst` if no parameter is used in front of the first known file
(`PopsFirst`: it fails for `Features = {"late"}`, as section 3 says). A pass only
inserts, so the function stays *embedded* in the code (`Embeds`); what an insertion
does to every position is said once (`InsertFacts`, `StaysEmbedded`). The error
pass's invariant `HInv` has, behind the first `m` instructions of the walk: hooks
use and name only what has been visited (`AllFit`), so a helper that is inserted
renumbers only what no hook has named yet (`NumberKept`); a hook reads what is in
front of it and recorded there, and what it records is recorded before any use
(`InOrder`, kept by `OrderKept`); no PHI is recorded in the walk (`PhisWait`).
PHI hooks name results further down, and have a loop of their own behind the walk,
where nothing is inserted that takes a number. In both passes the question which select alone uses a result is
asked before a hook uses the result (`NotUsedYet`, `CheckArgs`), so its answer is
that of the program (`SelectedIn`).

**Only model-checked**: liveness (`ExitReports`, `BuildEnds`), because fairness and
`ENABLED` are out of this prover's reach. Every invariant and every action property of
a passing run has a theorem. What a theorem assumes of the constants is named with
it above; where a run shows that the assumption is needed, section 3 says so.

## 6. What is not modelled, and what could come next

Left out, with their components `partly` modelled: what each operation computes
(`Exact` stands for the math library), the relative error, how annotations and debug
metadata are encoded, the types with which the passes declare hooks. Not modelled at
all:

- `fpc_compare_traces.py`, which loads events as the generator does and prints a
  set difference, and the histogram script, which looks for `histogram_*` traces
  that the runtime has stopped writing (and would lose an item whose input, file and
  line are each known, but not together);
- logging and configuration display: printing only;
- the CUDA passes, plugin and parser, which `CMakeLists.txt` does not build;
- `mpiCC`: the MPI wrapper knows the name (`mpicc_fpchecker.py:38`), the
  interception does not (`intercept.c:59-68`); the compilers of `Build` are called by
  names that both know;
- `FPC_TRAPS_HANG` (`Runtime_cpu.h:415`), with which a trap sleeps for an hour instead
  of aborting, and `FPC_CALCULATE_LOCAL_ERRORS_ONLY` (`Runtime_error.h:587`, `:720`),
  a build of the runtime whose hooks take the operands' errors to be 0;
- allocation failure (it ends the process), file names of traces and `fopen` errors,
  HTML layout and plots.

Next would be: `ErrorPropagation` composed with `HookPlacement`, so that the order
of hooks it assumes is the one the pass makes; the places proved for functions
whose blocks are in any order dominance allows.
