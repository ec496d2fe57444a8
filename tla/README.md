# rshooks: verification project

rshooks is a Rust toolchain for Xahau hooks, the small WebAssembly programs a ledger
runs on the transactions of an account. This directory holds TLA+ models of the parts
of it that keep state, the TLC runs that check them on small instances, and proofs,
checked by TLAPS, of what matters most for every value of the constants.

A module named `X` models code; `MCX` gives it a small instance for TLC; `XProofs`
proves theorems about it. `PROJECT.json` maps every definition to its source lines.
Operators whose name says what is wrong with them (`ForeignWriteRetried`,
`WalkStepLeaks`, ...) are deliberate bugs: each is put in the place of the definition
that follows it to see that a property notices. Nothing else uses them.

    tlc -workers 2 -config slots.cfg MCSlots.tla
    tlapm SlotProofs.tla

## 1. The system

| Component | State | Operations | Hard because | Model |
|---|---|---|---|---|
| Test environment (`rshooks-testenv`: `env`, `world`, `invocation`) | the `World`, which outlives invocations; a snapshot and a context for each one | `invoke`, `invoke_cbak`, builders; accept, rollback, return, panic | state writes are live and undone on three different arms; a callback swaps a field of the world; a hook may call `invoke` again | `TestEnv`, `AtomicInvocations` |
| Host calls (`backend`, `host/control`) | counters, staged effects, nonces, journals | `state_set`, `state_foreign_set`, `etxn_*`, `emit`, `hook_again`, `hook_skip`, `hook_param_set`, `trace`, `_g` | budgets of one invocation and of an account; a denial that outlasts the call; effects staged to accept beside effects at once | `TestEnv` |
| Slot table (`host/slots`) | 255 numbered slots | load, extract a child, clear | two slots filled by one call; parent overwritten by child | `SlotTable` |
| Slot handles and views (`slot_obj`, `views/source`) | none at run time: a handle is a number and a type parameter | load, navigate, walk in place, cast, take, clear | affine by types only; a failed walk or check must clear its slot and nothing else | `SlotObjects` |
| Transaction writer (`sto_writer`) | a cursor, open containers, plumbing records | fields, containers, `resume`, `emit_plumbing`, `prepare_for_emit` | every call can fail, the last after it spent a nonce; two descriptions of one structure | `StoWriter`, `EmitHost`, `EmitPath` |
| Compile-time templates (`txn_template!` in `txn.rs`) | an array of bytes, the iterations its setters spent, a `Prepared` handle | setters, reset, clear, enable, array accessors, `prepare_for_emit` | optional containers that blank and restore their bytes; a limit of NOPs per container; a guard budget shared by calls | `TxnTemplate`, `EmitHost`, `EmitPath` |
| Static cells (`static_cell`) | a flag and contents per static, one lock, a take-set per invocation | `take` | threads, with and without an installed backend, and panics inside the lock | `HookStatic` |
| Chain build (`rshooks-build::chain_build`) | lock files, a shared target directory, generations, `current` | one build, concurrently with others | any file operation fails, a process dies between two, locks go stale | `ChainPublish` |
| Wasm passes (`flatten`, `unnest`, `guard_hoist`) | a module; the iterations left of a fixpoint loop | inline, unwrap ladders, drop dead code, hoist guards, verify | what rewritten blocks and branches mean is only seen by running them; passes that must not undo each other | `WasmBody`, `ControlPasses`, `ModulePasses` |
| Cleaner (`cleaner`, `ir`, `encode`) | a module | collect what the entries cannot reach, renumber, trim segments | indices in five places; bodies copied raw where nothing moved | `ModulePasses` |
| Validation (`validator`, `whitelist`, `guard`, `guard_native`) | none | rules over the final bytes | merging two verdicts, one of a checker written by others | `ModulePasses`, `ControlPasses` |
| Typed state, parameters, wrappers, XFL, codecs, macros, generator, CLI | none | pure conversions and single host calls | | not modelled, see section 8 |

How they meet: a hook calls the wrappers of `rshooks`, which call the raw interface of
`rshooks-core`; natively that finds the backend which `run_entry` installed for the
thread, and the backend works on the `World` and the `InvocationContext`. `slot_obj`
is the only user of the slot table when a hook picks handles. `StoWriter` meets the
backend in `etxn_details`, `etxn_fee_base` and `emit`; so does a template, and both draw
their details from the one counter of the invocation. A static cell asks the backend
of its thread whether it may hand out a copy. The chain build runs cargo and the wasm
passes and publishes what they return.

What makes each correct, and where it is stated:

- Test environment: an invocation is atomic (`Atomicity`), what a test reads is never
  rewritten (`JournalsOnlyGrow`), a callback's transaction does not outlive it
  (`OtxnRestored`), lineage and nonces are sound (`CallbackLineage`, `NoncesUnique`),
  no write without a grant (`OnlyGranted`, `DenialIsFinal`), budgets hold across
  deletes and rollbacks (`WriteBudget`, `NamespaceBudget`, `ReserveHonoured`).
- Slots: a live handle denotes what it was made for with a true type, and no path
  leaks a slot (`HandlesDenote`, `HandlesTyped`, `SlotsAccounted`,
  `FailedCallsLoadNothing`).
- Writer: the bytes are always a legal prefix for the host's parser and a prepared
  transaction is one that `emit` accepts (`FramesMatchBlob`, `PreparedIsAcceptable`),
  a refused call can be retried (`FailedCallsChangeNothing`).
- Templates: whatever the setters were called with, in any order, the host reads the
  fields the declaration names and no others (`ReadAsDeclared`), a call changes one field
  (`OneFieldPerCall`), a `Prepared` handle is what `emit` accepts (`PreparedIsAccepted`),
  and the guard budgets of two setters do not mix (`FillsShareNoBudget`). Of two prepared
  transactions at most one can be emitted (`NeverBothAcceptable`).
- Static cells: exclusive references are exclusive (`NeverAliased`, `NoRacingClone`),
  every invocation starts afresh (`CopiesArePristine`, `OncePerInvocation`), and
  `None` always has a reason (`NoneIsJustified`).
- Passes: a rewritten module is valid and does what the written one did
  (`StaysValid`, `BehaviourKept`), is nested no deeper (`NestingNeverGrows`), keeps its
  guards at the head of its loops (`GuardsKept`), and the fixpoint is reached within the
  bound the code sets (`IterationsShrink`).
- Cleaner, flatten and validation, on whole modules: memory and behaviour survive
  renumbering, trimming and inlining (`MeaningKept`), nothing dead is left
  (`CleanIsComplete`), and a module without a start function is refused for a fault of
  what it uses, never otherwise, and accepted only without one (`RefusedForCause`).
- Chain build: builds exclude each other (`BuildsExclude`), `current` is whole and
  moves only to the newest (`CurrentIsWhole`, `CurrentIsLatest`), a number means one
  build (`NumbersNeverReused`). A build that fails is to leave `current` as it was, and
  does not (`FailureKeepsCurrent`, violated).

## 2. Modules

### TestEnv and AtomicInvocations

`TestEnv` is one `TestEnv` value and the thread that uses it. The first group of its
variables are fields of `World`, the second are the locals of `run_entry` and
`invoke_cbak`, the third the `InvocationContext`; `handed` is a history variable. The
hook body is arbitrary: while an invocation runs, any call that `HookCalls` lists for
its entry may be made with any arguments, and it may stop in any way. Each host function is one action with
the code's checks in the code's order; a refused call is the disjunct `Refuse(code)`,
which changes nothing (a denied foreign write is not a refusal: it sets
`retry_blocked`). Between invocations `Reposition` moves `hook_pos`, which changes the
hash the grants and the callbacks compare.

`End` is what every exit does: uninstall, append the attempts, restore the originating
transaction, drop the context. `Discard` (rollback, plain return, panic) restores the
snapshot; `Accept` merges what was staged; `StrictViolation` is the panic of
`assert_can_emit` on the accept arm, which restores nothing; `ReentrantInvoke` is the
inner `invoke` that takes an id and panics on the installed backend. `_g` past its limit
ends the invocation as `rollback!` does.

Abstractions: an `EmitDetails` object is a record; an emitted blob is a type and the
details it carries, and the other rules of `validate_emit_blob` are one boolean, both
values explored (they are spelled out in `StoWriter`). A transaction id is the nonce and
type it digests, with a flag for the pseudo-transaction of a failed emission. The
`maxiter` argument is fixed per guard id, as it is in code that a macro expanded from
one place. Reads change nothing and are no actions. Builders other than `hook_pos` are
called before the first invocation only (`SeedStates`, `Grants`, `SeedOtxn`).

`AtomicInvocations` is the promise, without snapshots, staging or contexts: the world
changes in one step, when an invocation is accepted, by a bounded batch of authorized
changes. `TestEnv!Atomic` instantiates it with the snapshot's state as the store while
an invocation runs.

### SlotTable and SlotObjects

`SlotTable` gives each host function that writes a slot as an operator from a table to
`[table, code, at]`. A serialized value is an `Item` with a `Type` and children;
`Child` stands for the walk over its bytes, and `Malformed` for seeded bytes that the
walk rejects. `SlotObjects` composes them: every operation of `SlotObject`,
`slot_path!` and the view runtime is the sequence of host calls its code makes. A handle
is a record of what Rust's types know (slot number, type parameter) and of what the
properties need (the value it was made for, whether the parameter was checked). Handles
are never copied and have no destructor: `Forget` leaves the value in its slot, which
then belongs to `leaked`. An invocation uses handles or numbers, not both ("pick one
layer per hook" in the documentation of `slot_obj`), whichever its first call picks.
`assume_type` takes any parameter in `AssumeTarget` and marks the handle unchecked.

### EmitHost

The host's half of an emission, which the writer and the templates extend: the plumbing
fields, the fee, the nonce counter, what `validate_emit_blob` asks of their values
(`FieldsAccepted`, `DetailsAccepted`). `FeePerByte` models a real host's fee, which
grows with the length; the test environment's does not look at it. `prepare_for_emit`
has an outcome for each host call that may fail, `etxn_fee_base` after `etxn_details`
spent a nonce included.

### StoWriter

The buffer is a sequence of tokens (a field, a container header, a terminator, the
details); lengths and `pos` stay in bytes. The operator `Accepts` is the reference: what
`emit_walk.rs` asks of an emitted transaction (its walk, its ban on duplicates, the six
plumbing fields, the details of the latest nonce, ledger window, fee), translated from
the host and not from the writer. Errors are one value. Not modelled: bytes beyond the cursor, the
values of fields the host does not compare, forbidden top-level fields, the fields a
transaction type requires, which are the hook's business. The hook writes `sfSequence` 0
(the only value the host accepts), declares a resumed prefix before it writes plumbing
of its own, and writes plumbing inside a container only where the constant `Nested`
says so. `LedgerSeq` + 5 is far below 2^32.

Two assumptions have names. `ResumedAssumption` is what `resume` and `emit_plumbing` ask
of their caller: the prefix is a serialized one with no container left open and no
field twice, and whoever declares its plumbing has put all six fields there.
`DepthAssumption` relates the two depth constants of the code, both 10: what the writer
may open the parser may enter.

`Open` and `Parse` (of `TxnTemplate`) are recursive functions over a blob, one
application of a step (`Walk`, `Read`) per token or byte. `StoWriterProofs` begins with
the two facts about recursion over `0..N` that make them accessible to proof.

### TxnTemplate, EmitPath and MCEmitPath

`txn_template!` is a program that the compiler runs, so the module has two halves.
`Compiles` and `Layout` are the macro: a declaration is a sequence of items (each element
of a homogeneous array is written out, as a copy of one object), its
compile-time assertions decide whether it compiles, and `Layout` derives the offsets,
the paths of optional ancestors, the image that makes a container present and the bytes
that `clear_*` blanks. `decl` and `lay`, fixed in the initial state, are therefore the
constants of one expansion. The actions are the methods the macro generates: `Set`,
`Refuse` (an amount that does not fit, found after the container was made present),
`Fill` and `Reset` (of a vl), `Clear`, `ClearOptionals`, `Enable`, `Index` (the accessor
of an array, out of range), `FillDetails` and `Prepare`. `Parse` is the host's walk over
the bytes, with its count of NOPs per container, translated from `emit_walk.rs`.
`Grammatical` says what the macro's patterns admit at all: the transaction type comes
first and the details last, a container is ended by the marker of its own kind
(`EndOf`), an array holds objects.

Abstractions: kinds of field whose control is the same are one kind (every fixed-width
integer is a scalar of one byte); a header is one byte; two setters have the same guard
id only if they belong to elements of one array, so collisions of the 16-bit hash are
left out; `Prepared` borrows the template in Rust, which permits less than the module
does. Three states in which the setters themselves leave a field broken are named
(`LateNative`, `Hollow`, `Orphan`; see section 6) and the properties say that there are
no others.

`EmitPath` composes both producers over one nonce counter: a hook that writes one
transaction with the writer and another with a template, in any interleaving
(`PathSpec`). `MCEmitPath` gives it declarations and bounds: `WriterTurn` and
`TemplateTurn` say when which may move, so that the product stays small; every step it
takes is one of `PathSpec`.

### HookStatic

Threads of one process, built with or without the testenv feature (`testenv`, chosen in
`Init`). Each step is one access to shared memory: lock, consult the backend of the
thread, load the flag, clone, swap. A clone takes time, from the step that enters
`"clone"` to the one that leaves it, and may panic, which poisons and releases the
lock and ends the invocation. Whoever holds the plain storage may write to it at any
time. A user's `Clone` that calls `take` again is excluded by the documentation and by
the model. There is no liveness property: the mutex promises no fairness.

### ChainPublish

Processes of one Unix host. A process is a command line (a target directory and an
output root) run again and again; a build is known by its number, and so is the one
directory it creates. A step is one file-system operation others can see; before each
the process may fail (its guards then run) or die (they do not). Removals may fail and
their errors are ignored where the code ignores them; a directory whose removal stopped
half-way holds no files any more (`gutted`). The link is made and renamed as in the
code, `current` moved aside first. `RemoveStaleLock` is the user following the advice
in the error message, for a build that is dead. `TimePasses` ends the grace period of
all directories that exist. `published` is a history variable. Removing a stale
`current.tmp` and making the link are one step; the Windows fallback, what the files
contain, and whoever reads `current` are not modelled.

### WasmBody and ControlPasses

`WasmBody` holds what a body is (a flat sequence of operators, as `wasmparser` gives it
to the passes), the matching of frames that `analyze` and `DepthTracker` do, and the
reference: wasm's validation (`Valid`) and its execution (`Behaviour`: for every script
of host answers, the host calls made and how the run ended). `ControlPasses` writes a
hook and the helper it calls one fragment at a time, so that every valid pair within the
bound is explored, and puts it through `run_pipeline`: `Flatten`, the iterations of
`unnest_function` one by one, `DropDeadCode`, `Hoist`, `Verify`. Every intermediate
module is compared with the written one.

Abstractions: one type of values; an import is an operator of its own; `br_table` has
two targets; the other sections are those of `ModulePasses`. There is one helper with
one parameter and one local of its own. Two things are asked of the written module. `TidyReturn`: no
operand is left below those of a trailing `return`. Wasm lets the return drop it, a body
spliced without its `return` keeps it, and the module is no longer valid; LLVM does not
lay out such a body, but the comment of `ReturnShape::TrailingOnly` calls the two
equivalent without that condition. `HelperPrologue`: in the run `passes` every helper
writes its own local before anything else, in `flatten_locals` it need not.
`Verify` has the two rules on bodies the passes could break.

### ModulePasses and MCBuildPasses

The same pipeline seen from the module: imports, types, functions, globals, memory,
segments, exports and the start function, with one flag for what `clean` drops whole
(other exports, the table, elements, custom sections, the data count). A body is the
sequence of its references. The written module is built one part at a time from a base,
then `CleanModule`, `FlattenModule` and `VerifyModule` follow `run_pipeline`, or
`CheckModule` is the command `check` on the module as it was written. `Visited` keeps
the order in which the code's search leaves the functions, since a callee must be
finished before its caller is inlined. `unnest` and `hoist` change no section and are no
steps here. `Meaning` is the reference: the memory after instantiation, or its trap, and
the imports called and globals seen by a run of each entry. `Live`, `LiveGlobals` and
`Faulty` say without the code's fixpoints what a module uses and what is wrong with it.
A start function is part of no `Meaning`, and no fault: `MeaningKept` and what
`RefusedForCause` says of the pipeline are about modules without one (section 6 says what
happens to one), what it says of `check` is about all.
The verdict of the upstream checker, which is a program of others, is free: it accepts,
rejects, or is never asked because of the size.

Left out: imported globals and tables, several memories, the contents of tables, import
modules and signatures, warnings and the fee. `MCBuildPasses` explores both views in one
run: bodies vary in a module of plain sections, sections vary in straight bodies. No
pass decides anything from both.

## 3. Runs

All runs finish in minutes with two workers. Deadlock is switched off where the
exploration bounds stop the system: the counters of `TestEnv`, the finalized or full
buffer of `StoWriter`, a halted template (a hook with nothing left to call ends), the number of builds
of `ChainPublish`; a verified module in the passes. `slots` and `hook_static`
check it.

| Run | Question | Bounds |
|---|---|---|
| `testenv_state` | Do grants, denials, budgets and atomicity hold for state writes, and skip log, nonces and termination for control calls, when a hook of either kind runs first? | two entries, one that writes state and one that steers the chain; two accounts, namespaces and keys; one hash or none, grants that depend on the hash and on the account; an account already past its limit; two writes per invocation, two invocations, three skips, a guard of one iteration |
| `testenv_emit` | Do reserve, lineage and callbacks hold for emissions, and was what is journalled attempted? | two entries, one with a callback; reserve 2, two nonces, three invocations: a callback of a callback's emission fits |
| `testenv_strict` | Does a panic leak nothing? Violated | one invocation |
| `testenv_burden` | Does the burden always fit an `i64`? Violated | widths scaled down to `MaxI64` 4, `MaxU64` 9 |
| `slots` | Do handles denote, and is every slot accounted for? | three slots: parent, child and one more, so that exhaustion comes at every depth; a ledger object with an array with an object with an amount; malformed metadata |
| `sto_writer` | Does the host parse and accept what the writer and the templates prepare, and at most one of two? Does a setter change its field only and stay in its budget? | writer: buffer of 14, depth 4, an empty and a resumed buffer, two orders of the plumbing, one (five) other tokens in a new (resumed) buffer; templates: 17 declarations, one for each combination of kind, container and option that is laid out differently, of which 11 compile and six break one rule each or two; 13 NOPs per container, amounts of one and three bytes, one input value, each vl filled up to twice; two nonces for both |
| `sto_nested` | Can a nested field pass for plumbing? Violated | the writer alone, depth 3, two other tokens in a new buffer, `sfAccount` also in containers |
| `hook_static` | Aliasing, races, freshness, deadlock? | three threads, two cells, both builds; threads and cells interchangeable |
| `chain_publish` | Exclusion, wholeness, order, numbering? | two command lines that share target, root, both or neither; three builds, one entry, one file: retention (two kept) is reached, and a third build can meet what a dead one left |
| `publish_failure` | Does a build that fails to install `current` leave it as it was? Violated | as `chain_publish`; the second build fails |
| `passes` | Do flatten, unnest and hoist keep behaviour, validity, nesting and guards, and does unnest end? On whole modules, do clean and flatten keep the meaning, leave nothing dead, and is only the faulty refused? | hooks and helpers of five fragments together, each down to one operator where a pass looks at one; two answers of the host, three jumps back, a nesting limit of 3. Sections: a chain of helpers before and behind their callers, a hook with an import it does not use, a hook alone; four parts, counting the references of the base; memory of three bytes, segments that touch, overlap or reach out; calls five deep |
| `flatten_locals` | Is a helper inlined into a loop still the helper? Violated | six fragments: a guarded loop, the call, a conditional jump back, a helper that shows its local and then sets it |

Why these are enough: each budget is reached and passed within the bounds (every limit
is 1 or 2, and the runs go one over it); the interactions involve at most two
invocations, builds or threads at a time and one more to disturb them; values are
compared for equality only, so two of a kind stand for many. The theorems of section 5
remove the bounds altogether where they apply. The constraint `Explored` of
`MCStoWriter` only prunes orders of plumbing fields, which the writer records
independently of each other. Five fragments make two nested ladders with their tails, a
loop around a wrapped guard, a call in a loop, a helper with an early exit; what a pass
decides it decides from a branch, its target and what follows the target's end, so two
frames and their tails meet every case of it. A part of a module is kept or dropped
alone, and an index moves as soon as one before it is dropped, so a base with something
to drop and four parts (a callback, two globals of which one refers to the other, a
segment) show the ways in which a renumbering can go wrong. A NOP limit of 13 lies
between what the accepted declarations can leave (13) and the one that is refused for it
(14).

## 4. Fairness

Only `testenv_state` states a liveness property, `Terminates`: every invocation of a
hook that keeps calling `_g` ends. `FairSpec` assumes weak fairness of the guard call
alone. The code justifies it: a body runs on the thread that called `invoke`, nothing
preempts it, and the build refuses a loop that does not start with a `_g` call, so a
body that has not exited reaches one again. No fairness is assumed of the exits: the
property shows that counting is enough.

## 5. Proofs

The assumptions are those named in the modules: types of constants, the host's limits as
naturals, finiteness of the sets a world ranges over, and the two of `StoWriter` above.
Everything else holds for any number of accounts, slots, fields, bytes, threads, builds.

- `TestEnvProofs` proves `TypeOK` together with the two facts it needs: outside an
  invocation the snapshot is the current world (`SnapshotCurrent`), and the originating
  transactions are well-formed. Its lemma `StepCases` divides the next-state relation by
  what happens to the state, and every later proof uses it.
- The same module proves the ten safety properties of `TestEnv` that the runs
  check, `JournalsOnlyGrow`, and the refinement. Nonces need that ids are taken
  before they are used and the call counter passes every nonce of the running
  invocation (`IdTaken`, `NoncesDrawn`); grants need that an entry not writable now
  already has its snapshot's value (`ForeignIntact`), or a restore could change it; the
  namespace budget has to hold of the snapshot as well. The skip log is coherent because
  two logs are: the committed one, and the staged one by itself, so that appending one
  to the other cannot separate a delete from its add (`SkipInv`). A commit turns pending
  emissions into journalled ones while their attempts are moved from the context to the
  world, so the multiset inclusion has to be stated of both sums at once (`AttemptInv`).
  Lineage needs to know whom the running invocation was given as its originating
  transaction, that what it was shown descends from that, and that what it emitted
  carries something it was shown (`LineageInv`).
- The refinement, that `TestEnv` implements `AtomicInvocations`, is its last
  part: by `StagingCounted` (staged overrides never outnumber the calls that
  staged them) and the safety invariants, under the assumption that the accept arm does
  not panic (`[][~StrictViolation]_vars`). Where it is not met the run
  `testenv_strict` shows what goes wrong.
- `SlotProofs` proves the four properties of `slots` and type correctness from one
  invariant: handles denote
  and are typed, occupied slots are accounted for, and a layer once picked is kept
  (`LayerInv`). Every operation of the module is one of five moves (acquire, retype,
  rewrite in place, release, abandon), each proved once.
- `HookStaticProofs` proves the four properties of `hook_static`, type correctness and
  `OncePerInvocation`. The invariant adds: a set flag is what
  a granted storage has (`FlagInv`), a thread in `"clone"` holds the lock of a cell whose
  storage nobody has (`CloneInv`), and a copy is only ever given for a recorded claim
  (`ClaimInv`).
- `ChainPublishProofs` proves all four properties. The invariant says what a build may
  rely on in each phase: its locks name it and no other build has its number (`LockInv`,
  `RunInv`, `OwnInv`), what it has read and staged so far (`BytesAt`, `FilesAt`,
  `NextAt`), that published generations are whole and numbered below `published`, and
  what `current` names survives retention (`CurrentInv`). The last is the delicate one:
  retention looks at numbers, not at links, and is safe because it runs only after
  the link has moved to the newest.
- `StoWriterProofs` begins with induction: a set with 0 and the successor of each member
  holds every natural number (`SetInduction`), by counting: if `n` were outside,
  `k |-> k - 1` would map the numbers up to `n` that are outside into the same without
  `n`, and that set is smaller. From it follow that a function that starts
  at a base and follows a step exists (`Iteration`) and is unique (`IterationUnique`).
  With these a recursive function of the model can be unfolded like any other definition.
- It then proves the three properties of the writer. `FailedCallsChangeNothing`
  needs that a recorded offset points at a token of its own field (`OffsetsPoint`), which
  patching relies on, and that there are no more tokens than bytes up to the cursor
  (`TokensFit`). `FramesMatchBlob` relates two descriptions of one structure: the stacks
  the parser goes through are unfolded (`OpenUpTo`), shown not to depend on what comes
  later, and matched with the frames, kind by kind (`Match`, `BytesInv`): a call that
  appends a token moves both alike or neither. `PreparedIsAcceptable` needs that each
  plumbing field is in the bytes once, at the top level, and only if it was recorded
  (`PlumbingShape`, `Recorded`), and that the details are the last token (`FinalInv`).
  It and `PreparedHasPlumbing` have one hypothesis, `PlumbingRecorded`: plumbing is not
  written in containers, nor as a plain `vl` or `iou_amount`, which record nothing. The
  constants of the run `sto_writer` satisfy it; those of `sto_nested` do not, and that
  run is violated.
- `EmitPathProofs` proves `FillsShareNoBudget` and `NeverBothAcceptable`, for every
  declaration. A setter that was never called has spent nothing (`BudgetInv`), and the
  iterations of one call alone are below what `guard_m` allows. For the other, the
  question is which nonces the details in a template may have: `Bytes(D)` are the
  templates whose details hold nonces of `D`. The images a declaration is laid out as
  hold none (`Shaped`), no setter brings one in, `prepare_for_emit` only the one it
  draws; so while the writer's transaction is prepared, the template has other nonces
  than its details (`Foreign`, `PathInv`). If the host takes the template, the
  parser has found details in it at the place whose nonce is asked for (`Told`,
  `ParseFinds`, by induction over the bytes), and the latest nonce cannot be in both.
- `TemplateFieldProofs` proves `OneFieldPerCall`, for every declaration that compiles. The
  setters look at no more than the first byte of each container around a field, and copy
  defaults over those whose first byte is a NOP; that this destroys nothing is what the
  invariant says (`Sound`). An item whose first byte is a NOP is absent
  altogether (`Solid`), in an absent container there is nothing but possibly a vl that was
  reset (`Rooted`), and a required item is there whenever the optional containers
  around it are (`Standing`). `Rooted` excepts that vl because the code does leave it
  there; without it (`Orphan`) the bytes are `Clean`, and then
  whatever a copy hits was absent and gets its default. The proof needs the first
  compile-time facts: the cells of items are disjoint and cover the bytes
  (`CellIs`, `CellSlice`), the items of a container are consecutive and the containers
  around an item nest (`NestingPrefix`, `EnclosureIs`), and the image of a container has
  every item that is in no optional container of its own, and NOPs for the rest (`SlotIs`).
- `TemplateParseProofs` proves `ReadAsDeclared` and `PreparedIsAccepted`, for every
  declaration that compiles. What the bytes of an item that is there must look like is
  `Shape`: its header or end marker, the form of an amount, the length of a blob. Every
  call keeps every item in shape (`Formed`), copies into containers included, and leaves
  alone the required items outside of all containers unless it is for them (`Tidy`).
  The NOPs are bounded at compile time: the bytes of a container that may be NOPs
  (`Blank`) are at most what `Budgeted` sums up for it (`BlankIs`, from `SumCovers`: a sum
  over a set bounds the size of a union). Then the parser is run over the bytes. `Mid` says
  what it has after `j` bytes of item `n`: it has found exactly the items that are there
  and begin before (`FoundBy`); open are the containers around the place that are there,
  each with no more NOPs counted than `Blank` has bytes so far (`OpenAt`); and it is still
  to skip what is left of the item (`SkipAt`). Each byte keeps that (`ByteStep`), so at the
  details the parser is back at the top level (`RunEnd`). For `PreparedIsAccepted` the
  run goes on over the details to the end of the prepared part (`PreparedReads`); a field
  is found twice in one container only if that is an array (`TwinsOnlyInArrays`, from
  the canonical order); and the plumbing has the values that were patched in
  (`Plumbed`), since it is found at the top level (`Equipped`), where only its own setters
  and `prepare_for_emit` reach it.

Some facts are proved and no longer run, since a theorem says more: type correctness of
`TestEnv`, the slots, `HookStatic` and the writer, `OncePerInvocation`,
`JournalsOnlyGrow`.

Model-checked only: `Terminates`, the five properties of `ControlPasses` and the
three of `ModulePasses`. Out of the prover's reach: liveness and `ENABLED` (so
`Terminates`), and what a run of a body does, since `WasmBody` and `ModulePasses` are
written with RECURSIVE operators, which keep a module from the prover altogether. The
library's induction theorems are out of reach too, because they take an operator;
`SetInduction` replaces them one set at a time.

The properties of the templates are proved as they stand, with their exceptions: the
theorems, too, say nothing of a template that a setter left damaged (`Damaged`).

## 6. Findings

- `testenv_strict`: a type that `can_emit` does not list, emitted by an accepted
  invocation, panics after the hook's live writes; they stay in the world although the
  comment in `run_entry` promises that a failed invocation leaks nothing.
- `testenv_burden`: a callback can be handed a burden that no `i64` holds; the `expect`
  of `otxn_burden` relies on a check that only the builder makes.
- `sto_nested`: plumbing written inside a container counts as the transaction's, against
  what `txn_template!` documents for the same fields.
- `publish_failure`: `swap_current_entry` moves `current` aside before it renames the new
  link into place, and when that rename fails it deletes what it moved aside
  (chain_build.rs:978-981). The root has no `current` until a later build succeeds, where
  `publish` (chain_build.rs:846) and MULTI_HOOK_STRUCT_DESIGN.md:730-731 say that a
  failure leaves it untouched, "preserving the previous generation". A death between the
  two renames has the same effect until the next successful build. `CurrentIsWhole`
  speaks of `current` while there is one.
- `flatten_locals`: the locals of an inlined helper become locals of its caller and are
  zeroed once, where every call used to zero them. A helper called in a loop that reads
  a local before it writes it sees the value of the previous iteration, and the hook
  makes other host calls than the module it was built from. The differential tests
  of flatten are there to exclude that, but none of their fixtures calls a helper from a
  loop.

Seen while modelling, without a run of their own:

- Templates. `reset_x` of a required vl inside an optional container writes its default
  without making the container present (txn.rs:5901), where txn.rs:828-834 says that the
  first byte of a container is a NOP only if its whole span is. A refused amount of an
  optional field leaves its header with NOPs behind it, and a vl whose length is refused
  leaves its containers present. A native amount set after an issued one leaves the rest
  of the issued form, which txn.rs:5617 documents. The properties of `TxnTemplate` except
  exactly these states. The accessor of a homogeneous array makes the absent containers
  around it present even for an index out of range, and all elements share one guard id
  per setter, so filling two elements can exceed the budget.
- Slots. `xpop_slot` refuses equal slots only when both are explicit
  (host/slots.rs:322-324): `xpop_slot(0, n)` can assign slot `n` to the transaction and
  then load the metadata over it, with success, where the comment at host/slots.rs:305
  says that it loads both halves.
- Passes. `clean` drops a `start` section without an error (cleaner.rs:205-206), and
  `validate`, which has the rule against it (validator.rs:228-231), sees only what
  `clean` left. DESIGN.md:1507 says that such a module is rejected outright; it is
  accepted, and the hook runs without what its start function set up. `check`, which does
  not clean, refuses it (`RefusedForCause`).
- Passes. An import exported as `hook` with the entry's signature passes `clean`
  and ends in flatten's internal error. DESIGN.md section 6.4 lists the initial size of
  the memory among what is rejected; `validate` has no such rule.
- Builders. `rekey_own_seeds` remembers which keys were seeded, not where, so a foreign
  seed of the same key at the old address moves with them, which the comment at
  world.rs:232 excludes.

## 7. Plan

Done, in this order: `TestEnv` with its refinement, since everything else runs on it;
`SlotTable` and `SlotObjects`; `StoWriter`; `HookStatic`; `ChainPublish`;
`ControlPasses`; `EmitHost`, `TxnTemplate` and their composition with the writer;
`ModulePasses`; the remaining invariants of `TestEnv` as theorems; those of `StoWriter`
and induction for them; `EmitPath` and `EmitPathProofs`; `OneFieldPerCall` from the layout
of a template; the run of the parser over a template, with it `ReadAsDeclared` and
`PreparedIsAccepted`.

Next, most important first:

1. `SeedWorld`: `hook_account`, `own_namespace` and late seeding between invocations, a
   move of entries that may collide.
2. `ControlPasses` with two helpers, one calling the other: the locals of a callee of a
   callee.
3. The grace period of `chain_build` as a clock: it counts from the directory's last
   write, not from when `current` left it.

## 8. Not modelled, and why

- Generated code (views, field constants, raw declarations, type tables): no control of
  its own.
- Wrappers, typed state and parameters, codecs: one host call between two conversions;
  the calls that change state are modelled where they end.
- XFL arithmetic: 64-bit decimal mantissas are beyond TLC's integers, and a narrower
  decimal would be another algorithm.
- Macros, the code generator, the build's JSON documents and command line: compile-time
  or offline functions from text to text. `wasm-opt` and the native guard checker are
  programs of others.
- What the modelled parts leave out is said in section 2 and in the notes of
  `PROJECT.json`.
- Examples, end-to-end tests, book: they use the library and were read as statements of
  what it promises.

The map covers about a tenth of the lines of `src/`. Most of the rest is not behaviour:
the generated views and tables are a sixth of it, the macros and the generator an
eighth, and a file like `txn.rs` ends in several thousand lines of tests. What has
state of its own, or rewrites a program, is in the modules above.
