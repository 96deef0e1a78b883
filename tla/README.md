# Chapeliser in TLA+

Chapeliser turns a manifest (`chapeliser.toml`) into a Chapel program that
distributes a user's `process_item` over the locales of a cluster. The Rust code
of the command is a small, sequential text generator with a directory of files
for its state; what is hard is the program it writes. That program, as
`src/src/codegen/chapel.rs` emits it, is what most of this directory models: the
lines a definition maps to are the `writeln!` calls that emit the Chapel
statements it stands for.

## Inventory

| Component | State | Operations | What makes it correct | Here |
|---|---|---|---|---|
| Index arithmetic (`localeRange`, `chunkRange`, loop headers) | none | functions of numLocales, nItems, grainSize | every item goes to exactly one locale | `Partitioning` |
| Configuration constants | values of the manifest, overridden on the program's command line | none | a program whose manifest validates halts only for a known reason | `Manifest`, `Workload` |
| Distribution phase | item and result arrays on locale 0; per task: loop index, attempt, local buffers | five partition strategies, retries, slot writes, checkpoint marker | no two tasks share a slot; slots are not torn; every item gets a verdict; the phase ends; what survives a crash tells the truth | `Distribution`, `Recovery` |
| Tree-reduce gather | one accumulator per locale, `active` | local folds, rounds of pairs, slot 0 | every success is combined exactly once | `TreeReduce` |
| `main`, load, other gathers, store | phase, load/store failure flags, accumulator, match index | one callback of the user's library after another | what is stored when the program exits 0; the lifecycle of the library | `Workload` |
| Runtime partition types (`src/src/abi/mod.rs`) | plain values | `per_item`, `chunked`, `verify`, `verify_conservation`, the memory budget | slices partition the items, `verify` can tell, the budget is enough for any locale | `RuntimePartition` |
| Reference FFI library (`main.zig`) | whether it is initialised, list of results, heap | `c_init`, `c_store_result`, `c_shutdown` | every block has one owner; results are the last ones accepted | `ReferenceFfi` |
| Command line, generation, build and run | `chapeliser.toml` and the files of the output directory | `init`, `generate`, `build`, `run` | artifacts of one manifest fit together, whatever failed before | `Pipeline` |
| Manifest | parsed values | defaults, `validate`, template | only valid manifests get into a binary | `Manifest`, `Pipeline` |
| Zig bridge, C header, build script | none | text of a file each | the files are whole and of one manifest | as files of `Pipeline` |
| Idris ABI proofs, CI, templates, examples | none | - | - | not modelled |

How they interact: `main` runs the phases one after another on locale 0 and calls
the user's library (`c_init`, `c_load_item`, ... `c_shutdown`). The distribution
phase and tree-reduce start one task on each locale (`coforall loc in Locales do
on loc`) or leave the tasks to Chapel's iterators; the tasks share the arrays on
locale 0 without a lock, and `main` waits for them at the end of the loop. The
commands share nothing but files: `generate` writes the artifacts from the
manifest, `build` runs the `build.sh` it finds, `run` starts the binary it finds,
and each of the three loads the manifest anew.

What is hard, and where, is the list of hazards in `PROJECT.json`.

## Modules

| Module | What it is |
|---|---|
| `Partitioning` | `localeRange`, `chunkRange`, the chunk loop's index set, the keyed test, as operators |
| `RuntimePartition` | `Partition::per_item`, `chunked`, `verify`, `GatherResult::verify_conservation`, `MemoryBudget::calculate` with its integers' width |
| `MCPartitioning` | a sweep of `Partitioning` and `RuntimePartition` over small parameters |
| `Manifest` | what loading makes of a file, `validate`, the file `init` writes, the config constants and their override |
| `ParallelMap` | abstract: each item is decided once, then the phase is over |
| `Distribution` | phase 2, task by task; implements `ParallelMap` |
| `MCDistribution` | its instances: sets of strategies, key hashes |
| `Recovery`, `MCRecovery` | `Distribution` in a program that crashes and is run again, and the checkpoint markers that outlive it |
| `Reduction` | abstract: parts are combined two at a time until one is left; a combination that fails loses its parts |
| `TreeReduce` | phase 3 for `tree-reduce`, task by task; implements `Reduction` |
| `Workload` | `main` of a program generated from a manifest that validates; phase 2 is an instance of `ParallelMap` that may halt, tree-reduce one step with the outcomes `Reduction` allows, or any where that does not hold |
| `MCWorkload` | its manifests and command lines |
| `Pipeline`, `MCPipeline` | the command line over one project directory; its manifests |
| `ReferenceFfi` | the reference library's entry points that keep state, over a heap |
| `Partitioning_proofs`, `MCPartitioning_proofs`, `Distribution_proofs`, `Recovery_proofs`, `TreeReduce_proofs`, `Workload_proofs`, `Pipeline_proofs`, `ReferenceFfi_proofs` | theorems |

### From code to state and actions

*Buffers.* A result buffer is not bytes but its origin. In `Distribution`,
`<<i, k>>` is the output of the k-th call for item `i`, so a stale or mixed
slot shows. In `TreeReduce` and `Workload` a buffer is the sequence of the
items combined in it, in the order of the arguments of `c_reduce`.

*`Distribution`.* A task's `pc` is where it is in `write_process_single_item`:
at the loop head, in `processWithRetry`, before the assignments to
`resultData`, `resultSizes` and `resultOk`, or at the checkpoint hook. `todo`
is what its loop has still to visit; `MoreIndices` is a loop that goes on to what
it iterates over next. Each remote assignment is a step, so any interleaving of
the slot writes occurs. `Claim` is the dynamic iterator of
`adaptive` giving out a block. For `spatial`, any contiguous split of the items
is considered, since `blockDist` belongs to Chapel. `TrailingChunk` is the loop
index past the last chunk: the range has a negative count there, which halts a
checked build and is unspecified in a `--fast` build; both outcomes are taken.
With `RemotePointers = FALSE`, the hash that a locale other than 0 computes
from a locale-0 address may be anything.

*`Recovery`.* Every step of `Distribution` is one of a program that is `up`;
`Crash` may come between any two and takes every variable of the program with it,
`Restart` begins with fresh ones, under any of the strategies, since
`chapeliser generate` may have come in between. What outlives a crash is what the
user's library was told to keep: `markers`, one for each tag `locale-<id>`, where a
save replaces what was there. The fields `run`, `strategy` and `tried` of a marker
are history; the code writes one byte. Nothing reads a marker, because the
generated program never calls the `c_checkpoint_load` it declares.

*`TreeReduce`.* `first`, `localAccum`, `localeResult`, `localeHasResult` and
`active` are the variables of the code. `busy` holds the tasks of the current
`coforall`. The call of `c_reduce` and the copy back are two steps, so that a
slot could change in between if two pairs overlapped. `c_reduce` gets addresses of
elements on locale 0; when `followed` is false, what it makes of them on another
locale is `Junk`. `succeeded`, `reduceFailed` and `garbled` are history variables.

*`Workload`.* One action for each way a statement of `main` can go. `program` is
the manifest it was generated from and `args` the config constants its command
line names, so that `Config` may hold what `validate` would refuse: with a grain
of zero, `DistributionHalts` (chunk divides by it; that the dynamic iterator of
adaptive asserts it is positive is Chapel's). `numLocales` and `followed` (whether
one locale can read what a pointer of another points to) say where the
specifications of the two concurrent phases hold. With a chunk loop that goes past
the last chunk (`Overruns`), phase 2 may halt, as in `Distribution`, or go on with
unspecified items; then, and with keyed routing by pointers that cannot be followed,
a slot may have been written by several tasks at once (`SlotsReliable`, `SlotOf`).
Tree-reduce does what `TreeDelivers` says of it where `TreeSound` holds
(`GatherTree`); on a number of locales that is no power of two, or with pointers that
cannot be followed, it may store anything without a call having failed, or drop the
only results there are (`GatherTreeUnsound`), as in the run `tree_reduce_odd`.
`CInt` is the cast of an item index
to the library's `int`. The history variables are `stored` (what `c_store_result`
accepted), `library` and `usedWhen` (in which states of the user's library it was
called), and `reduceFailed`. The library's state is that of the process of locale 0,
where `c_init` and `c_shutdown` are called; the processes of the other locales call
`c_process_item`, `c_key_hash`, `c_reduce` and `c_checkpoint_save` of a library nobody
has initialised there, which the model says nothing about.

*`Pipeline`.* A file is `None` or what it was generated from and where it is cut:
`fs::write` truncates before it writes, so a failed write may leave any part of the
text, none included. What a tool makes of a part is its own affair. An empty
`.chpl` is a valid Chapel module and an empty header a header, so `CompileBridge`
and `CanLink` only ask that the files be there. A `build.sh` that is cut runs the
commands it still has: `Cuts` names the command in which, or before which, the cut
is. `StopsShort` is a script that ends before that command, and `CompileBridge`
and `CompileWrapper` may also run one that has lost its options (the default names
of both compilers are the ones the options give); a script that is cut in the
echoes after the last command has done everything. All of these exit with 0, and
`BuildSucceeds` announces the binary. A cut inside the name that follows `-o` or
`-femit-bin=`, which makes a file of another name, is left out.
`pc` is the write of `generate_all`, or the command of `build.sh`, that comes
next; `EditManifest` may come between any two. `WriteFails` and `BuildFails`
stand for an error and for an interrupted command alike. Names are sequences of
pieces, so that `SafeName` can make two workloads share their files, as
`replace('-', "_")` does. `progress`, `spoiled` and `ran` are history variables.
One command runs at a time; `build --release` only changes a compiler flag and
is left out, as are the cluster file, the environment and the arguments of `run` and
how the program it starts ends.
Manifests are `Manifest`'s: `Validate` is the conjunction of the tests of
`validate`, whose warning about `spatial` is left out, and `Template` what loading
makes of the file `init` writes. A file loads if it has the keys without a default,
those of `[workload]` and the two types of `[data]`, and a `[scaling]` table.

*`ReferenceFfi`.* Each call is one step, since `main` makes them one after
another on locale 0; what happens inside shows in its outcomes. The allocator
may refuse, and may hand out a block as soon as it is free, so that a block
freed under a slot would come back with other contents. `accepted` and `lost`
are history variables.

## Runs

| Run | Instance | Shows |
|---|---|---|
| `partitioning` | up to 5 locales, grain 5, 14 items, budgets of 8-bit integers and items of up to 8 bytes | index arithmetic partitions the items and balances them; the library's partitions agree with it where they should, and a gather over them conserves the items; `verify` tells the partitions into slices that are not empty from everything else (slices over up to 4 items, 3 locales); the budget covers every locale unless it overflows |
| `distribution` | 3 locales, 4 items, grain 2, 2 attempts, all strategies | exclusive slots, no torn slot, bounded attempts, verdicts at the join, honest checkpoint markers, final successes, and the refinement of `ParallelMap`, whose fairness says that every item is decided and the phase ends |
| `recovery` | 2 locales, 2 items, grain 4, 1 attempt, two crashes, any strategy but spatial in each run | no run passes its join with an item nobody tried, even when a chunk loop walks an unspecified range; a marker tells the truth about the run that saved it; once the crashes stop the phase ends |
| `tree_reduce` | 4 locales, 6 items, any set of successes, `c_reduce` may fail or read other memory | each success combined once and in the order of the tree unless a combination fails, slots hold residue classes, reductions use current slots, failed items never enter one, refinement of `Reduction` |
| `workload` | 4 items, 2 or 3 locales whose pointers can or cannot be followed, all gathers, three partition strategies and a chunk manifest that does not validate, 0 or 3 attempts, one override at a time, every call may fail | what is stored at exit status 0 for each strategy; all-or-nothing reduction; library lifecycle; the only reasons to halt; termination |
| `pipeline` | 4 manifests: two that share a safe name, one invalid, the template; one file cut short at a time | everything in a binary comes from valid manifests of its name; it is mixed or cut short only after a failed `generate`; the three commands in order use the current manifest; what a build announces it has linked |
| `reference_ffi` | 4 blocks, 3 indices, 2 contents and the empty result | blocks have one owner or are the copy of a failed append; slots read as last accepted |

Five runs end in a counterexample, each to a statement of the repository:

| Run | The code | The statement |
|---|---|---|
| `chunk_negative_range` | a chunk loop evaluates a range with a negative count when there are fewer chunks than locales | a test takes one chunk for valid input |
| `keyed_routing` | the key is hashed through a locale-0 address on another locale | "same key → same locale" |
| `tree_reduce_odd` | with three locales one accumulator is folded in twice and one is dropped | "Gather functions preserve all results" |
| `tree_reduce_failed_step` | the return code of `c_reduce` is ignored and the empty buffer becomes the result | "must never report success on failed inputs/stores" |
| `checkpoint_resume` | a restarted program processes the items of a locale whose marker was saved again | "checkpoint intermediate results for resumability" (`src/src/manifest/mod.rs:92`) |

Other divergences need no run of their own:

- Tree-reduce combines the results of four locales in the order 0, 2, 1, 3, the
  order `CombinedInTreeOrder` states for every power of two (that of the locale ids
  with their bits reversed), which is not the
  fold's unless `c_reduce` is commutative. `Foreign.idr:115` (under
  `src/src/interface/abi/`) asks for associativity only.
- `retries` bounds the number of calls, so that `retries = 1` never retries,
  where `src/src/manifest/mod.rs:89` speaks of the times to retry a failed task.
  With `retries = 0`, which `validate` accepts, no item is ever passed to
  `c_process_item`, every item fails, and `main` exits with status 0.
- `src/src/abi/mod.rs:41` gives locale i the items `[i*N/K .. (i+1)*N/K)`.
  `localeRange` and `Partition::per_item` agree with each other and not with this
  formula about which locales get one item more: of four items on three locales the
  formula gives two to the last locale and the code to the first. `LocalesBalanced`
  is about the difference, which is one at most either way.
- A failed `c_init` or `c_load_item` ends `main` with a `return`, so the process exits
  with 0 and has stored nothing. No document says which status is meant.
- An item index is cast to a C `int` for the library
  (`src/src/codegen/chapel.rs:456`): item 2^31 is loaded, and stored, under another
  index. `MergeStoresEverySuccess` is about item counts up to there.
- A grain of zero is refused in a manifest and accepted on the program's command
  line. `info` does not validate: with `expected-items` set and a grain of zero it
  divides by zero (`src/src/manifest/mod.rs:309`).
- `init`'s template (line 276 there) and an example set `redistribute-on-failure`;
  the loader's key is `redistribute_on_failure`, so the line is ignored without a
  word. Nothing reads the setting, nor `checkpointIntervalSecs`, which goes with
  the "periodic checkpoint" of `src/src/codegen/chapel.rs:154`.
- `max-nodes` is not compared with the number of locales `run` is given.
- `MemoryBudget` is the estimate of one locale that holds its own items; the
  program keeps the buffers of all items on locale 0
  (`src/src/codegen/chapel.rs:445`), and under chunk a locale may work on more
  items than a quotient and one. `BudgetCoversPerItem` is about per-item.
- `src/src/codegen/chapel.rs:1025` promises an atomic flag that stops all locales
  at the first match; every item is processed before any is matched.
- `build` ends with "Build successful" and the path of the binary of the manifest
  it has loaded (`src/src/codegen/mod.rs:89`), while `build.sh` makes that of the
  manifest it was generated from. After a change of the workload's name the
  announced file need not exist, which is why `AnnouncedIsLinked` asks that the
  names agree. Nor need it be new, or exist, when a failed write has left a
  `build.sh` that ends before its last command.
- `src/README.adoc:139` goes from `chapeliser init` to `chapeliser build`; `init`
  writes the manifest only, and `build` finds no script. `generate --output` has
  the same effect: `build` and `run` know one directory.
- `c_store_result` loses the copy it made when it cannot append
  (`src/src/interface/ffi/src/main.zig:128`): the set `lost` of `ReferenceFfi`.

Where `c_ptrTo` of a locale-0 element cannot be followed on another locale,
tree-reduce has the same problem as keyed routing. `PreservesResults` says what is
left: the result is sound when only locale 0 has anything to combine.

### Bounds

Three locales and four items are the smallest instance with a remainder in
`localeRange`, a locale that owns no key, and two tasks left to interleave while a
third has ended. Two attempts give a failed call before a success. Grain 2 keeps every
chunk count non-negative; there are two chunks then, so a locale has one or none, and
locales with several, of which the last may be short, are in the sweep. In `recovery`,
one chunk of two items on two locales makes locale 1 walk past the last chunk; two
crashes let a marker outlive a whole run under another strategy; attempts play no part
in what survives, so one is enough, and spatial, like adaptive, saves no marker, so
one of the two is. In `workload` the last item index is the largest C int, four items
being also the least that give a fold a seed, a failure, a success and an item it
never reaches. Its `LocaleCounts` are 2 and 3: two chunks of three items are even on
two locales and uneven on three, and only two is a power of two. `MaxTorn = 1` in
`pipeline` has one cut file among those of `generate` at a time, a constraint on the
states TLC goes on from; the theorems about `Pipeline` have no such bound. The sweep's
8-bit integers make the larger budgets overflow. Four locales give tree-reduce two
rounds, with two tasks in the first; six items make two folds combine something and
two only seed. Every set of successful items is an initial state. In `Pipeline`, two
manifests with one safe name make every mixture of old and new artifacts, and the
template is a second name for `build.sh` to be of; the number of commands and edits is
not bounded. Four blocks for three indices leave one for a copy that is lost.
`CHECK_DEADLOCK FALSE` is used only in the sweep, which stops at its bound (that of
`recovery` is on the crashes, after which the program runs on to its end); the modules
of the generated program have an explicit step that says it is over.

### Fairness

Chapel runs every task of a `coforall` or `forall`, and the models assume that
the user's functions return: weak fairness of each task's next step, and of
`main` passing the end of the loop. No fairness is assumed of how calls turn
out: a run in which every call fails is fair, and terminates. `Workload` is
sequential and has weak fairness of its next step, which for the distribution
phase is the liveness `Distribution` is checked for. In `Recovery` the steps of the
program have the fairness they have in `Distribution`; nobody promises a crash or
a restart, so `Settles` speaks of behaviours in which the program is up for good.
`Pipeline` and `ReferenceFfi` promise nothing of the future: their callers decide
what comes next.

## Proofs

All theorems are for any number of locales, items and attempts and any grain,
any set of manifests, any heap, and any number of crashes.

`Partitioning_proofs`: `LocaleRangesPartition` (from quotient and remainder and
the fact that the ranges abut), `ChunkItemsPartition` (each item is in the chunk
of its quotient by the grain, which exactly one locale visits),
`EvenChunksNeverNegative`.

`MCPartitioning_proofs` carry them to the sweep without its bounds: `LocalesSplit`,
`ChunksSplit`, `SharesBalanced` (a share is the quotient, or one more) and
`BudgetSufficient` (what does not wrap is the sum of its parts, and grows with the
number of items). And they do the same for the library's partitions, which are defined
by recursion over the locales. `LibraryAgrees` finds the start of each `per_item`
slice to be `LocaleLo` and the sum of what the locales worked on to be the number of
items (`PerItemSlices`, `WorkedConserved`); `LibraryChunksSplit` finds the edges of
the `chunked` slices to be the multiples of a span, cut off at the number of items
(`ChunkedSlices`). `VerifyIsDecisive` is a counting argument: slices that stay within
the items, cover them and have their number in sum cannot overlap
(`CompleteWhenCovered`), so a gap cannot make up for an overlap in the test of
`verify`. `SumOfShares` says that the shares of a partition add up.

Facts about such definitions are by induction, and the library's induction theorems
cannot be instantiated with these provers. The proofs do without: to say what a
recursive function is, one exhibits a function that satisfies the recursion, and two
functions that do are equal because there is no least argument where they differ
(`LeastNatural` and `StepwiseEqual` of `Partitioning_proofs`, from the
well-foundedness of `<` on the naturals).

`Distribution_proofs` assume `SoundConstants`: no chunk loop meets a negative
count and keys can be read where they are hashed. The runs above show what
happens without it. The safety properties are not inductive: that slots are not
torn depends on no task having the item of another, which depends on where the
loops stand. `IInv` adds this: each item has at most one owner (a loop that has
still to visit it, a task with it in hand, or the iterator's pool), the slot of
an item that was not taken is untouched, the program counter of the owner says
how far its slot is written, and an item without an owner has its verdict. There
is one lemma for each action (`ClaimKeeps`, ... `JoinKeeps`), then
`TypeCorrect`, `ExclusiveSlots`, `SlotsSound`, `RetriesBounded`, `NothingLost`,
`CheckpointsHonest`, the action property `SuccessesFinal`, and
`RefinesParallelMap`, the safety part of the refinement.

`Recovery_proofs` assume only that keys can be read, not that chunk counts are
non-negative, and so have an invariant of their own, `CoverInv`: every item was
tried or someone is bound to come to it, a loop that has still to visit it, a task
with it in hand, the iterator's pool; an item of per-item, chunk or keyed is the
business of the task it is assigned to. Every action drops none of them
(`NoneDropped`), an unspecified range included, since it adds items and takes none
away. `RestartBegins` says that a restart lands in `Distribution`'s `Init`, so the
invariant needs nothing of the runs before. `NothingSkipped` and `MarkersHonest`
follow, the second because a task comes to its checkpoint hook with an empty loop.
Under `SoundConstants`, `RunsUndisturbed` has the invariants of `Distribution_proofs`
hold in each run, whatever crashes came before.

`TreeReduce_proofs` have five invariants, one on top of the other. `IInv` holds for
any number of locales: a task of a round writes one slot, below half, and reads one
that no task writes. It gives `TypeCorrect`, `RoundsUndisturbed` and
`FailuresStayOut`. `HoldInv` is for powers of two, as are the rest: what each
accumulator holds at each point of a fold or round, as a set of items each combined
once. Halving turns the residue classes modulo `active` into those modulo its half,
two by two (`HalfResidues`, `ResidueHalves`), and the run `tree_reduce_odd` shows that
it does not otherwise. It gives `ResiduesHeld` and `ResultsPreserved`.

`WithinInv` says less of each accumulator (it holds successes that it is due, and some
of them unless a call went wrong) but says so whatever `c_reduce` does, which is what
the refinement needs: `TreeRefinesReduction` is `Spec => Abstract!SafeSpec`, the part of
`ImplementsReduction` without the fairness. The parts of `Reduction` are the sets of a
family that share no element: the items still to be folded and the folds, then the
accumulators that were not merged. A step leaves the family alone, moves one set into
another (`FamilyMerge`), or loses sets after a call went wrong (`FamilyLoss`); that the
sets are disjoint is needed because two equal sets would be one part to `Reduction`.
For these proofs `Reduction` speaks of parts one by one and not of their number.

`OrderInv` adds the order within the buffers to `HoldInv` and `WithinInv`: a fold
takes the indices of its slice in order, and what an accumulator holds comes before
what its partner holds in the order of the bit-reversed locale ids (`HalvesOrdered`).
It gives `OrderedByTree`. `LocaleBefore` states that order by remainders: the
halving that puts two locales into one accumulator says which of them comes first.

`MarkInv` says that an accumulator is marked as holding something exactly when one of
its locales had a success, that a call goes wrong only where there are two, and that
no buffer holds a result twice even after one did (`NoneTwice`). It gives
`TreeDelivers`, which is what `GatherTree` of `Workload` takes tree-reduce to do where
it is sound; after a failed call, too, slot 0 counts as a valid result.

`Workload_proofs` have all six invariants of the run. `LibraryUseBracketed`: the phase
says which state the library is in. `HaltsExplained`: a valid manifest has no grain of
zero, so the command line gave it, and a chunk loop goes past the last chunk only
where the number of locales does not divide that of the chunks (`OverrunsUnevenly`).
`LowestMatchStored`, for item counts within a C int and reliable slots: the scan has
left no match behind, and the stored slot is the one it stopped at. `WorkloadTypes`:
no buffer holds more results than there are items, since the fold's accumulator has no
more than the index has passed. `MergeStored`: while nothing failed, the sequence
stored is that of the successes the index has passed, in order. `ReductionsStored`:
the fold's accumulator is the reduction of the successes passed, and there is none
once `c_reduce` has failed; what is stored is what slot 0 has. It is about the locales
on which `ReductionSound` holds, and `MergeStored` about reliable slots and, like
`LowestMatchStored`, item counts within a C int; nothing that decides `SlotsReliable`
or `TreeSound` changes while `main` runs (`ReliabilityFixed`). The reductions hold
beyond a C int, `AsLoaded` being the numbers the items are loaded as.
`GrainsAssumption` has no negative grains.

`Pipeline_proofs`: all five invariants of the run. They speak of binaries and of
the directory between commands; `IInv` adds how far a running `generate` has come
(`CommandSoFar`), that every file, cut or whole, is from a valid manifest of its name
(`FilesFromValid`), that `build.sh` and the program it compiles are whole and go
together unless a `generate` of that name was broken off (`ScriptFits`), and that a
script that has done its commands leaves a binary of what is there (`UpToDate`).

`ReferenceFfi_proofs`: the three invariants of the run are inductive together.
That a store leaves the other slots readable needs that their blocks are in use,
so that the copy goes elsewhere; that freeing the old result leaves them in use
needs that no two slots share a block. `GrownList` says what the append loop does.

Every safety invariant and the action property that a passing run checks are theorems,
and so is the safety part of both refinements (`RefinesParallelMap`,
`TreeRefinesReduction`). Only model-checked: liveness, that is `Settles`, `Termination`
and the fairness of the refined specifications, which is out of the prover's reach.
The five counterexamples are to properties that are false. For numbers of locales that
are no power of two `PreservesResults` is false too, and so is the refinement of
`Reduction`.

## Not modelled

- Byte contents and buffer capacities, the formatting of messages, timing, and
  config constants overridden with negative numbers.
- `c_process_chunk` and `c_checkpoint_load`: declared, never called.
- `checkpointIntervalSecs` and `maxItemBytes` beyond their place among the config
  constants: no modelled step depends on them.
- The text of the Zig bridge, the C header and the build script: they are one
  forwarding declaration for each entry of a fixed table, and keep no state.
- `ReferenceFfi` as the library of `Workload`. It never adds an item to its list,
  so `c_get_total_items` is 0 and `c_load_item` fails: the composition would end
  before it has distributed anything, unless its user replaces the library.
- Two commands at once in one directory; the code has no lock and makes no promise
  about it.
- The Idris proofs, which are proofs of their own, and the gate scripts, CI,
  templates and examples, which are no part of a running program.

## Plan

1. Proofs: what the abstract specifications promise by themselves (`Reduction`: the
   last part is all successes unless it is lossy; `ParallelMap`: no verdict changes), so
   that the refinements carry it.
2. Two commands at once in one directory.
