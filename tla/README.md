# TLA+ models of xtim

xtim samples and analyses magic-state-preparation circuits: a C++17 engine
(`cpp/`) under a Python package (`xtim/`).  This directory holds TLA+ modules
of its stateful core and of its circuit passes, TLC configurations that check
them on small instances, and TLAPS proofs.  `PROJECT.json` lists every
component, run, mutant, source line, hazard and theorem; this page says what
they mean.

## 1. The system

A circuit goes through a pipeline; every stage before the engines is a pure
function of its input.

    text -> stim_parse -> coherentize_feedback / feedback -> deferral
         -> normalize -> bare state (rotation form, diagonalisation, parity
            support, fast TODD, canonical sum, framed superposition)
         -> engines: framed sampler | twirl record sampler | record fidelity
                     | error-model export | forced branches | references
         -> Python: circuit, twirl, frames, collect, ler, port

The contract that ties the stateful parts together is in
`docs/twirl_record_sampler.md`: one seed gives the same bytes whatever the
caches hold, however a run is split into calls, and whatever was found on disk;
a budget on cached payloads changes memory and time, never a record.

| component | state it keeps | operations | interacts with | what makes it correct | modelled in |
|---|---|---|---|---|---|
| plan cache (`twirl_kernel.hpp`, `twirl_kernel_sampler.cpp`) | permanent headers and their index, evictable payloads, install FIFO with a consumed prefix, the one parked core, byte and event counters | find, get_or_build, lazy table, reaccount, evict_oldest, arena header and payload, load, save | run loop, readers, plan file | one header per key; FIFO = resident payloads; no table from a stale core; bytes charged once | `PlanCache` |
| run loop (`twirl_sampler*.cpp/.hpp`) | boundary mark, self-check window, shot index, noise streams, accumulators | seed, record call, draw, emit, mask, return | plan cache, readers, Born trie, term route | same rows for every cache state and every split into calls | `ShotLoop` |
| payload budget and readers' tables | the published bytes, the mark, an LRU of held tables, root memos | boundary, budget, reads | plan cache, run loop | budget met at each draw, in its order, readers never cost the sampler a payload | `PlanBudget` |
| Born trie (`BornTrie`) | per-plan node array, root memo, carried psi and its depth | walk, clear the memo | run loop, plan payload | a walk draws from the conditional law of its own prefix | `BornTrie` |
| term route (`FamRoute`, `term_residual.cpp`) | the terms of the circuit and their axes; a shot's residual; entries of reduced residuals and their plans | merge, compose, reduce, early test, normal form, choice of plan, trim | run loop, record tables, plan arena | the residual is the noisy state, the plan the residual's | `TermRoute`, `RecordSampler`; branch payloads in `FamilySessions` |
| record tables (`twirl_law.cpp`, `record_*.cpp`, `twirl_planes.cpp`) | the certified group; per plan the columns of its records | classify a column, law of a diagonal plan, both builders, canonical form | term route, plan cache, Born trie | coins and directions give the joint law of the records | `TermRoute`, `PauliAlgebra` |
| bare-state memo (`bare_state_memo.cpp`) | LRU list, index, bytes, caps | lookup, store, clear, set caps; the build runs outside the mutex | every engine's compile | a lookup answers with its key's state; caps hold | `BareStateMemo` |
| state budget and scratch (`state_budget.cpp`) | process-wide byte count, thread-local scratch, owners | charge, release, grow, thread exit | all allocations of states | the count equals what is live; a failed charge leaves nothing | `StateBudget` |
| sampler sessions (`family_sampler.hpp`) | busy flag, branch tables, per-E consumers, the arrays of a call | sample, record, register a branch, branch budget | engines, the producer's handles | one call at a time, nothing outlives a call, each row of its own branch | `FamilySessions` |
| plan file (TWPL v6) | the file, a temporary per process | save = write + rename, load | plan cache | a reader sees a whole old or a whole new file, never another circuit's plans | `PlanFile` |
| error models (`dem_export.cpp`, `dem_solve_channel.cpp`, `dem_decompose.cpp`, `propagation_table.cpp`) | none | table of faults at the end, mechanisms of a channel, decomposition, which parities are certain | decoders, detectors | independent mechanisms with the joint law of the faults | `DiagonalErrors`, `ErrorModel` |
| references (`xtim/reference.py`) | three files to an entry | resolve, verify, store | processes sharing the directory | served is what would be compiled | `ReferenceCache` |
| circuit passes (`normalize.cpp` and what it calls) | none | coherentize, relabel, defer, eliminate Hadamards | every engine | each pass keeps the law of the circuit | `FrontEnd` and the modules it instantiates |
| bare-state compiler (`normal_form.cpp` and what it calls) | none | rotation form, settling, diagonalisation, restriction to the support, column reduction, sum of rays | every engine, through the memo | the sum is the state of the circuit, relative phases included | `BareCompile` and the modules it extends |
| framed state (`framed_superposition.cpp`) | frame, signs, free generators, coefficients of the branches | expectation, two collapses, a batch of terminal reads | exact sampler, references, certified group, Born walk | every read has its probability and leaves the projected state | `FramedStates`, `BareStates` |
| reference records (`reference_records.cpp`) | none | the +1-biased noiseless reads | samplers, detectors | the reference of the circuit the user wrote | `FramedStates`, `BareStates` |

Hard behaviour: several Python threads enter the engine (the bindings release
the interpreter lock), so the process-wide memos and the budget are shared
under mutexes and atomics with the expensive work done outside them; samplers
themselves are single-threaded and refuse a second entry.  Allocation failures
(the budget refuses by exception) cut a call at any allocation.  Plan files and
references may be old, truncated, altered, or written by another thread or
process at the same time; a process may die at any point of a write.

## 2. Plan

In order of importance; (done) marks what exists.

1. `PlanCache`, `PlanCacheProofs` (done).
2. `BornTrie` over the abstract `ChainRule`, `BornTrieProofs` (done).
3. `BareStateMemo` over the abstract `PureBuild`, `BareStateMemoProofs` (done).
4. `StateBudget`, `StateBudgetProofs` (done).
5. `ShotLoop` over the abstract `RecordStream`, `ShotLoopProofs` (done).
6. `PlanBudget` over the abstract `PayloadQuota`, `PlanBudgetProofs` (done).
7. `FrontEnd` over `CircuitLaw` (done): the passes from a user circuit to the
   circuit that is sampled, each against the law it must keep.
8. `FamilySessions` over the abstract `BranchCalls` (done): the sampler object
   Python holds, its branches and its per-E consumers, entered by two threads.
9. `CacheDirectory`, made of `ReferenceCache` and `PlanFile` (done): what is
   read from a shared directory; `SharedProofs` about it and `FamilySessions`
   (done).
10. `RecordSampler`, made of `TermRoute` over `PauliAlgebra`, against
    `ExactStates` (done): what the sampler serves for the faults of a shot, on
    the circuits the front end makes.
11. `BareStates`, made of `BareCompile` and `FramedStates` over `StabSums`,
    against `ExactStates` (done): the state those circuits are compiled to, its
    reads and its reference; `RecordSampler` stands on it.
12. `ErrorModel` over `DiagonalErrors`, against `ExactStates` (done): the
    mechanisms that stand for the faults of those circuits.
13. Left: the entries and trims of the term route, input frames, the record
    buffers, the tree of a fault and its memo of failures in the exact sampler,
    record fidelity, the expectation columns of the error model, forced
    branches, collection.

## 3. PlanCache

State: `plans` is `headers_` and the arena's records, in creation order, a
plan being its index; `fifo`, `head` are `fifo_`, `fifo_head_`; `parkPlan`,
`parkLaw` are the core slot; `residentBytes` and `stats` the counters.  A key
is an opaque value which also stands for the law and the table computed from
it, since both are functions of the key; so "a table of the wrong key" is
expressible, and is the failure the properties look for.

Actions: `GetOrBuild` (hit, miss, rebuild of an evicted payload, refusal of a
key that does not encode its normal form, and the builder throwing, which
leaves a header without payload), `EnsureRec` (the lazy record table, from the
parked core or from the stored key), `GrowTrie` and `GrowTrieThrows`,
`ArenaHeader`, `InstallArena`, `EvictOldest`, `EvictNothing`.  A plan file
appears as the keys-only headers it leaves (`Files`).  `Next` lets a caller use
these in every order their own guards allow, which is more than the run loop
does.  The builder throws before the payload is installed.  Two allocations that
may fail later are left out: `fifo_.push_back` (`twirl_kernel_sampler.cpp:445`,
after `resident = true`) would leave a resident payload that no eviction finds,
and the growth of the index in `index_insert_` (385) a header that no lookup
finds, so that its key is given a second one.

Run `plan_cache` (two diagonal keys, one arena key, three files, at most 7
counted operations, tries of at most 2 nodes, FIFO compaction above a consumed
prefix of 1 instead of 1024).  Seven operations fit an install, an eviction and
a rebuild of each of two plans with the erasure of a consumed prefix between
them; three plans are needed so that one is evicted while another is parked
and a third is queued.  Deadlock is not checked: the bound stops the model.

- `FifoListsResident`, `TableMatchesKey`: the FIFO lists exactly what is
  resident, and no table is one of another key or of a stale core.
- `BytesAccounted`: `resident_bytes` is the sum of what each resident plan was
  charged, and no plan is charged more than it holds (a walk that throws leaves
  nodes that are charged at the next re-accounting).

Proved in `PlanCacheProofs`, for all constants that satisfy
`ConstantsAssumption`: the type invariant, `FifoListsResident`,
`TableMatchesKey`, and with them what no run repeats: `KeyUnique` (one header per
key), `ParkIsCurrent`, and `EvictsFirstIn` (an eviction removes the head of the
live order, also when the consumed prefix is erased in the same step).  They are
proved together, as `IInv`:
an installed payload joins the FIFO once because its plan was not resident and
so, by `FifoListsResident`, not live; the table built from the slot is right
because `ParkIsCurrent` says whose law is parked; the slot stays right across
an arena install because a parked plan is resident and an installed one is not.

`BytesAccounted` is proved on top of it, from `IInv` and itself: a step changes the charge of
one plan, and `resident_bytes` by the same amount (`MoveIsAccounted`), which is
where it matters that a payload is charged when it is installed, recharged by
the difference when it grows, and given back by what was charged, not by what
it holds.  The lemmas about sums it uses are in `SumLemmas`.

## 4. BornTrie

State: `tries[p]` is `CachedPlan::rec_trie`, a sequence of nodes whose index is
the node index plus one; `memo`, `memoBytes` the root memo; `psi`, `depth` the
carried register and how many directions were applied to it (`psi_depth_`, -1:
stale); `plan`, `node`, `bits` the walk under way.  Amplitudes are abstract: a
register is the sequence of projections applied to the bare state, a law is
what `p_plus_` would compute on it, and a register cut by an exception is
garbage.  `buffers` says which of `psi_` and `beta_` exist.  So a node filled from the wrong register has the wrong law, and no
number is needed to see it.  `at` (the prefix a node was made for) and `asked`,
`ended` (what the last draw was drawn from) are history.

Actions: `Begin` (a walk starts on a new or an existing trie), `RootHit`,
`Evaluate` (reset and project what is missing, evaluate, store, remember the
root's law), `Draw` (outcome, child), `Finish`, and every place that may throw:
`RememberThrows`, `EvaluateThrows`, `CloneThrows`, `WalkThrows`.  Between walks:
`Evict` drops a plan's trie, `MemoClear` the root memo, `WindowCloses` ends the
self-check window, `Oracle` evaluates from scratch on the same register.

`Dies` is the one end of the process.  `reset_` (`twirl_kernel_sampler.cpp:97-101`)
clones `psi_`, then `beta_`, and tests only `psi_`.  If the second clone throws,
`psi_` stays and `beta_` is null; the next `reset_` clones nothing, and the first
pass calls through the null pointer (124, 145).  That takes an allocation that
fails outright: a refusal of the state budget at the same place marks the
Python object invalid (`cpp/bindings/common_py.hpp:35-49`), and no further walk
comes.  No comment of the code speaks of it, so it is in the model and in the
promise, not among the findings.

Run `born_trie`: plan p1 with three directions, p2 with one that equals p1's
first up to its sign, so the two share a root but not a memo key; 4 walks, one
exception, a memo of one entry.  Four walks fit a walk that is cut, one that
extends its trie, one of the other plan in between, and one after an eviction.

- `NodesTellTheLaw`: a node holds the law of its own prefix, which it does not
  when the carried register is not that of the walk's own outcomes
  (`RegisterIsCarried`, proved and in no run).
- `DrawsByTheChainRule`: each outcome is drawn from the law of its prefix, as in
  `ChainRule`, which has no trie, memo or register; and a walk that starts ends,
  complete or by an exception.  `ChainRule` keeps one bit of the walker, `lost`
  (`psi_` without `beta_`): only an exception sets it, nothing clears it, while it
  is set no walk draws, and a walk may then also end by ending the process.

Fairness: weak on the steps of a walk, which is a bounded loop without waiting.
Deadlock is not checked: after `Dies` there is no process.

Proved in `BornTrieProofs` for all plans, directions and bounds: the types and
the invariants above, the safety half of the refinement (`ChainRule`'s initial
states and steps), that the trie is a tree of outcomes (`OutcomesAreAPath`) and
that a memo hit equals what an evaluation would give (`MemoHitsAgree`), so the
verification under self-check never fires.  `TypeOK` holds two facts that are
not types and have invariants of their own: the root memo stays under its cap
and is counted exactly until an insertion fails (`MemoCounted`), and a walk is
always at a node of its trie, also past the end of its plan (`WalkInTrie`),
because a draw goes to a child that exists.  A third is `EvaluatedOnBoth`: while
a buffer is missing no node has a law and the memo is empty, which is why a lost
walker draws nothing and why `Oracle`, which repeats evaluations, never meets one.  `IInv` adds that children exist,
that a walk stands where its outcomes lead (`WalkOnItsPath`) and that memo
entries hold the law of their key on the bare register; `Projected` then is the
walk's own prefix (`ProjectedIsPrefix`), because what was carried is a prefix
of it and the loop projects exactly the rest.

## 5. BareStateMemo

State: `lru` is the list of entries, `index` maps keys to list nodes (by id),
`bytes` and `caps` the totals and limits.  Each locked section of
`bare_state_memo.cpp` is one step; the build, the restore and the capture of a
state are steps of their own, so two threads may miss on one key and both
build it.  A key stands for its state, which is a function of it.  The hit and
miss counters are left out; `XTIM_BARE_MEMO` is `mode`, read once, and the test
hook that bypasses the memo is the mode "off".

Run `bare_memo` (two threads, three keys of which one is rejected, 4 calls, one
change of caps or clear, one allocation failure): `IndexIsLive` (what the index
points to is in the list, under its key, with its state), `CapsHold` (with the
byte count never below what is held), `InOrderOfUse` (what is evicted is what
was used longest ago, and no key is listed twice), and `ImplementsPure`: callers
see `PureBuild`, in which there is no memo, and every call returns or throws.
Fairness: weak on each thread's steps, since no step waits for anything but the
mutex, which is never held across a build.

`store` adds an entry's bytes before the list and index insertions; when one of
these throws, the bytes stay counted until the next clear, or the list holds an
entry the index does not know.  That the bytes are exact and the list in order
is therefore stated for runs in which no allocation failed; that the caps hold
and the index never dangles, for all.

Proved in `BareStateMemoProofs`, allocation failures included: the types
(`TypesHold`), that the index never dangles, and an entry holds its own key's
state, so a hit returns what a build would (`MemoIsInvisible`, the safety half
of the refinement).  On top of that, two more invariants:

- `CapsHold`, from `Ledger`, which adds to it the types of the counts.  `Held` is
  a sum over the list; it does not change when an entry moves to the front
  (`HeldTouched`, from the renaming of the indices), and splits where the list is
  cut.  A store that fails half-way has counted more than it holds, never less.
- `InOrderOfUse`, from `Order`: no key was used after the clock, and while no
  allocation has failed every entry is in the index and the list is ordered by
  use.  That every entry is indexed is what makes it inductive: an entry the
  index does not know would be stored twice.

## 6. StateBudget

State: `live` is the atomic total, `owners` the atomic owner count; `charged`,
`scratch`, `buffers` a thread's scratch marks, its `t_scratch_bytes` and the
bytes its buffers hold; `blocks` counts the allocated blocks of each size.
Python's references are `named` (names) and `uses` (running methods).  No step
touches an atomic twice: `Charge` is the `fetch_add` and its comparison,
`Refuse` the `fetch_sub` of a refused request, and `Free` is separate from the
`GiveBack` of its bytes.  Thread-local changes belong to the step that charges.
A kernel's work on its buffers is one step between its need and its return;
`MaxDepth` bounds nested module-level calls.

Run `state_budget` (two threads, two objects, two slots, requests of 1 and 2
under a budget of 2, so that two requests can each fit and not both; threads and
objects are interchangeable):

- `LiveIsExact`: the total is what is in blocks, charged for scratch or in
  flight, on every path of failure, and a thread's own count is what its slots
  are charged.
- `StorageWithinBudget`: blocks and scratch buffers never exceed the budget.
- `ReleasesAtRest`: scratch goes by itself only on a thread that is in no call.
  That is "never too early".  "At last" is no property here: what a thread has
  grown stays until that thread rests without owners or exits, and nothing makes
  it do either.

A refused request is visible in the total until it is taken back, so another
thread's request that fits can be refused with it: `LiveIsExact` counts it.  A
thread that exits may credit its first slot before the slot's buffers are gone,
so buffers of exiting threads are left out of `StorageWithinBudget`.

Proved in `StateBudgetProofs` for any threads, objects, sizes and budget: the
types, `OwnersCounted` (the owner count is the number of objects, by adding and
removing one element of a finite set), `ScratchIsCovered` (a slot's buffers are
never more than its charge; in no run) and `ReleasesAtRest`,
from `IInv`, which adds that a running kernel needs no more than its slot is
charged and that a thread that releases or exits is in no call.

`LiveIsExact` and `StorageWithinBudget` are proved from one more invariant,
`Accounts`.  A thread answers for its scratch charge and for the bytes it has in
hand (`Share`); `live` is what is in blocks, these shares, and the requests being
refused; and blocks and shares are within the budget.  Neither half is inductive
alone: a charge is granted by comparing all of `live`, so that granted bytes fit
follows only if `live` has counted them all.  Every step is `Balanced`: it changes
`live` by what it changes of the blocks and of its own thread's share, and what
is granted grows only if `live` is then within the budget.  The budget in the
property is over buffers, not charges; `ScratchIsCovered` closes that gap.

## 7. ShotLoop

State: `nextFire`, `drawn` are the noise sampler's `next_` and stream positions,
`batch` its output, `cursor` and `left` the two loops of `run_w`, `doneShots`
the cumulative index, `acc` the accumulators with their dirty lists, `key` the
shot's key, `checked`, `window`, `spent` the self-check window and its latch.
`rows`, `exact` (no call failed since the seed) and `ahead` (noise drawn by
failed calls and never taken) are history.  A keyed word is the gap it gives, so
a channel is the increasing sequence `Fires` of the shots at which it fires; a
residual is the set of fired channels composed by symmetric difference, the
GF(2) part that the plan key is made of.  The plan of a key is a function of
the key, so a lookup may hit or miss freely, and a row is named by the residual
it is drawn for.

Actions: `Reseed`, `Run` (the refusal at the last index, the window latch),
the noise batch channel by channel (`StartBatch`, `FireEvent`, `ChannelDone`,
`BatchDrawn`), `TakeShot` (index, then route: term, clean, streaming or
accumulators), `StreamMiss`, `Accumulate`, `RejectEarly`, `FastPath`,
`SlowPath`, `SlowServed`, `Served`, `EmitShot` with the late filter, `Return`.
`Throw` ends a call by an exception where `CutPoints` says, before or after the
accumulators are reset as in the code.  Framed shots take the term route in the
code and are not told apart here; `oracle_all_shots`, which keeps the window open
for good, and the semantic oracle are left out, and so is the oracle's
`return false`, which `OraclesAgree` shows is not reached.

Run `shot_loop` has two seeds and three channels (one term-routed), batches of
two shots, a window of one shot, five shots to a seed, and exceptions wherever
the accumulators are not at stake: a call then spans three batches, a gap
crosses two of them, and several calls share a seed.  One residual is rejected
early and one more only late.

- `Implements`: without an exception on the accumulator fast path, the rows are
  those of `RecordStream`: by index, none twice, each that of its seed and
  index, masked runs being unmasked runs filtered.  Once a call has failed the
  abstract sampler promises nothing until it is seeded again.
- `OwnNoise`: since the seed, unless a call failed, the faults of shot i are what
  the seed gives at i, across batches, calls and rejected shots.
- `OraclesAgree`: the window's oracles never raise a false alarm.
- `CallEnds`: every call returns or throws, under weak fairness of `Step`: a call
  runs in the thread that made it and waits for nothing.

Run `shot_loop_dirty` finds a flaw: an exception on the accumulator fast path
leaves the accumulators set, and neither the next call nor `set_seed` clears
them, so a later shot is drawn for a residual that is not its own.  And a call
without a seed after a failed one pairs the index of a shot with the noise of a
later one, which is why `exact` is needed in `OwnNoise`; the invariant that
always holds counts the lost shots (`FaultsOfClock` in the proofs).

Proved in `ShotLoopProofs` for any seeds, channels, streams, masks, batch size
and window: the types, `OwnNoise`, `OraclesAgree`, and, if no exception cuts the
fast path, `Implements` and `KeyIsTheShots` (nothing of an earlier shot is left
in a key).  `IInv` says where each stream
stands: the next event of a channel, counted from the shots of noise already
drawn (`Clock`, plus the batch once the channel is done), is the one its stream
gives, the events before it are behind, and the batch holds exactly the events
drawn.  `SumsInv` says when the accumulators can be trusted: on the fast path an
exception can only come outside the window, and the window is the first call's.

## 8. PlanBudget

State: `fifo` holds the charged bytes of the resident payloads in install order
and `resident` their sum; `tables` is `rec_memo_` in the order of its ticks,
`readerBytes` its bytes and those of the interned record contents (`interned`),
which are never given back; `roots` and `branchRoots` are the bytes of the Born
root memos, of the sampler's own trie and of carried branches.  `budget`, `pub`
(`sampler_resident_pub_`) and `peak` are the code's, `mark` is the triple
`pb_res`, `pb_rdr`, `pb_mem`, with -1 for `SIZE_MAX`.  `highest` (the most bytes
ever resident) and `ended` (how the last call ended) are history.

A payload is its bytes: what builds and fills it is in `PlanCache` and
`BornTrie`, and a shot here installs, grows and remembers in any order.  The
boundary runs piece by piece: `StartBoundary` publishes, `TrimTable` and
`TrimDone`, `ClearRoots`, `Evict` and `EvictDone`, `BoundaryDone` sets the mark;
`SkipBoundary` is the shot that starts without one and `EndOfShots` the boundary
between calls.  `Cut` is a call that ends inside a shot.  Between calls the
budget changes (`SetBudget`), a branch is added (all carried branches are one),
and a reader asks a table (`ReadHit`, `ReadMiss`, `ReadTrim`, `ReadDone`).  A
sampler and its readers share one busy flag, so readers never overlap a call, and
a table is held only inside the reader that asked for it: in a boundary every
table can go.  Entries of the term route, with a trim of their own, and the
eviction and overshoot counters are left out.

Run `plan_budget` (two contents with tables of 1 and 2 bytes, payloads of up to
2 bytes and 4 together, budgets 0, 2 and 3, a root memo of 2, one interned
content, three shots): every pair of payloads, tables and roots meets a budget
from both sides, and three shots fit a boundary, a skipped one and one that
evicts.  Shots are bounded, so no call starts a fourth; the readers and the
budget go on.

- `ImplementsQuota`: as in `PayloadQuota`, which has no mark and no published
  number, no shot starts over the budget, memory is given up between shots only,
  and in order: tables, then roots, then the sampler's own payloads on their own
  bytes alone, so a reader never costs the sampler a payload.
- `SkipIsExact`: a boundary that is skipped would have done nothing.
- `ReaderInsertFits`: after a call that met its budget, a reader that inserts
  leaves payloads and tables within the budget, or its own table only.

`ReaderInsertFits` speaks of a call under a budget because only a boundary
publishes: a run without a budget, and a call that was cut, leave the number of
the boundary before, and readers trim against that until the next call.  And
the mark is compared for equality, not for growth, which `SkipIsExact` needs: a
walk that finds the root memo full starts it over inside a shot.

Proved in `PlanBudgetProofs` for any contents, sizes, budgets and bounds: the
types, `SkipIsExact`, `ReaderInsertFits`, `ImplementsQuota`, and `PeakIsTrue`:
the reported peak is the true one, although it is looked at between shots and
not between all of them.
`IInv` says what each piece of a boundary has met, that a mark was taken when all
was met (`AtMark`), and that the published number is the sampler's from the end of
a call that met its budget on (`AtEnd`).  That no counter falls below zero needs
to know that it is a sum: `AddsUp` says so by the numbers left after each element
of the queue, which follow an append, a removal, a growth and a reordering
without induction.

## 9. The front end

`FrontEnd` writes circuits one instruction at a time and takes each through the
passes of `normalize`, a pass being one step; `work` is the circuit at its
stage, `ports` the wire of each output, `plan` the feedback left to the relabel
of the records, `flips` how a reported record differs from its read.  The
passes themselves are operators, in the modules of their files: `Feedback`
(`coherentize_feedback.cpp`, with `resolve_feedback_source`,
`deferred_feedback_pauli`, the readout folds and the copies; and
`deferral.cpp`), `CliffordFrames` (`clifford_frames.cpp`: frames, the table by
which two-qubit gates take them, channels and expectations under a frame, and
the two folds at the boundary); the feedback plan (`feedback.cpp`) is in
`FrontEnd`.  `CircuitIR` is the instruction stream.

`CircuitLaw` is the reference they are compared with, and knows none of them: a
stabilizer tableau whose signs are sets of symbols, one per random outcome and
one per term of every noise site.  The law of a circuit is every parity of
records, expectations and output Paulis that no random outcome enters, with the
faults that flip it.  So one comparison covers every fault and every outcome.

Run `front_end` has two halves; the second is that of the exact state, of the
sampler and of the error models (sections 10 to 12).  The first: all circuits of
up to seven instructions (with their prefix) over four alphabets, two or three
wires, in the three modes of coherentization, with and without diagonal copies
and dead sites.  Each alphabet is about one mechanism and holds what can spoil
it: feedback moved to its source past gates, reads and other feedback; a control
wire shared by feedback that is driven from it and feedback that hits it; noisy
reads and what is done to the wire after them; frames through gates, channels
and expectations.  Longer circuits repeat these, since every rewrite looks at
one feedback, one wire or one frame and what lies between two instructions.

- `CoherentExact`: feedback made a gate, in any mode, leaves every record,
  expectation and output as it was.
- `RelabelExact`: sampling without the feedback that is left and relabelling the
  reported records gives the records of the circuit with it.
- `DeferExact`: a read at the end of the circuit, with its inversion and its
  readout flip reported, is the measurement it replaces, and the outputs are
  where `final_wire` says.
- `EliminateExact`: pushed, absorbed and flushed frames change nothing.

Run `front_end_chain` finds where the code and its comments part: which feedback
becomes a gate is decided on the user circuit, but a feedback that became a gate
can itself carry the byproduct of one that was left to a T, and then the circuit
is refused.

Abstractions.  Probabilities are left out: a channel is its Pauli terms, one of
probability zero has none, and uniform depolarizing channels, which no frame
changes, are not in the alphabets; a channel is not split into runs.  IF blocks
and the parser's own refusals are left out, except that a record must exist and
an output wire is not measured.  A pass treats T, CS, CCZ and CH as gates of
which it knows at most that they are diagonal, so in the law they act as S, CZ
and CX, on which a wrong rewriting shows.  Which feedback falls back to the hoist
is a free choice of mode.  Expectations are not compared across the relabel and
the deferral, whose expectation signs are not modelled; a byproduct that would
have to pass a non-Clifford gate refuses the circuit.

## 10. From the circuit to the bare state and its reads

Every engine stands on the exact state of the normalized circuit, written as a
sum of stabilizer states that differ by signs.  `BareStates` builds it for each
circuit of its themes, reads it in every way the code does, and compares with
`ExactStates`: state vectors over Z[exp(i pi/4)], on which gates, projections and
expectations are simply computed.

- `PauliAlgebra`: signed Paulis, their conjugation, the certified group and
  reduction modulo it.  Bit rows are sets.
- `BareCompile`: the circuit as rotations and a Clifford part, even rotations
  settled past later ones, commuting axes turned into products of Z, and the
  columns they are on the support of a state (`pauli_rotation_form.cpp`,
  `stab_disentangle.cpp`, `pauli_diagonalize.cpp`, `parity_support.cpp`); fewer
  columns by TOHPE and the exchange, what the exchange leaves behind; the even
  columns folded into the state, the odd ones splitting it into rays; the
  refusals and the output gates (`fast_todd.cpp`, `residue_projection.cpp`,
  `parity_assemble.cpp`, `normal_form.cpp`).
- `StabSums` (`stab_affine.cpp`, `canonical_stab_sum.cpp`,
  `stab_generators.cpp`): one stabilizer state in affine form, its gates,
  projections, elimination of variables and overlaps; generators and
  destabilizers, the family of rays on one frame, the phase between a branch and
  its ray, and the canonical form.
- `FramedStates` (`framed_superposition.cpp`, `reference_records.cpp`,
  `twirl_kernel_sampler.cpp`): the sum without its anchor, expectations,
  `measure_pauli`, the collapse that merges branches, the batch of terminal
  reads, the biased reads of the reference, and the projections of a Born walk.

State: `user` is the circuit as it was written, `bare` what exists of its state
(the compiled sum, then the framed state with the reads done on it, then the bits
of a batch or a reference).  Actions: `Compile` (which refuses what has no such
sum), `Frame`, `ReadCoupled` (the first pass of a batch, by one of the two
collapses), `ReadRest` (the second pass, with the coins drawn for it), and
`TakeReference`.

Nine themes of run `front_end` come here, on two to four wires (and those the
deferral adds) with at most 19 instructions: rotations about axes that need
turning, an entangled pair, controlled phases on entangled and on product
wires, terms that are merged or refused, a CCZ, reads of a superposition in
every order, references with feedback, inverted reads and resets, and doubled
Ts in the way of later ones. Both ways of building, with settled rotations and
without, occur.  Four wires fit a frame with free, common and redundant
generators at once, and up to four reads fit a merge, a split, a coin and a
forced read behind it.

- `BareExact`: the sum is the circuit's state, with every relative phase; nothing
  in its construction failed, and no free generator is redundant.
- `CollapseExact`: after any reads, by either collapse, the framed state is the
  projection of the circuit's.
- `BornExact`: each read that is left has Born's probability, and the reads that
  no branch tells apart have it together, as their coins make it.
- `ReferenceExact`: the reference is the noiseless sample of the circuit the user
  wrote, every measurement taking +1 when it can, whatever was rewritten, deferred
  or left to the relabel.

Abstractions.  States are compared up to a global factor, and coefficients are
not normalized, so what the code divides by is not checked.  The order in which
the column reduction meets equally good dependencies is left open.  With the
few variables that fit here its outer exchange never gains, so only TOHPE and
the residue are exercised.  The caps on rank and memory, the dense and tabled
paths of the assembly, word packing, the factored states and the active block
are left out, as are gates and oracles on the sum itself: the samplers read the
framed state.

## 11. What the sampler serves

The family sampler never simulates a shot.  It keeps the clean state, writes the
noisy state of the faults that fired as a Pauli and a set of rotations on the
clean one, and looks up, or builds, a table that says how the records of such a
state come out.  `RecordSampler` is that path, on top of `BareStates`, for every
circuit of its themes and every fault of each, and `ExactStates` again what it is
compared with: circuit and faults are simply applied.

- `TermRoute` (`term_residual.cpp`): `View` is the constructor: the terms of T,
  CS, CCZ and CH, the static merge (`MergePass`: folds, cancellations, faults
  that block them), the refusal of anticommuting axes, the kernel; `Atom` is a
  fault pushed to the end; `Compose`, `ReduceKey`, `IsDiagonal` are the shot's.
  Then the tables of the records: `GeneralTable` is
  `build_record_table_general`, `DiagonalTable` is `build_record_table_recB`
  with the law of a diagonal plan (`ShotLaw`), `DiagonalForm` and `Canonical`
  the normal form of a diagonal composite and its reduction on product wires,
  `Canonicalize` the order the tables are put in.

State: `view` is what is kept of a circuit (`FamRoute::tr`, the group, the record
columns, the early set), `shot` is `F.sh`, where the shot stands, and the table
it was served by.  Actions: `Arm` (the construction, once, with the parities to
be read and whether they are postselected on), `Fire` (an alternative composes,
in time order), `Reduce` (modulo the kernel, then the early test, which may
reject), `ServeDiagonal` and `ServeGeneral` (the plan by the kind of the
rotations), `Draw` (the next direction of the plan, on the amplitudes of the
framed state).

Six of the themes of section 10 go on to the sampler, on three wires: drawn
records and rotations about other axes, an entangled pair, diagonal phases on
wires with and without a certain value, product wires, pairs of terms that merge
or cancel with faults between them, and the kernel of CCZ.  Among the served
shots are both kinds, diagonal ones in and out of the pair universe, coins,
directions and both in one column, folded signs, kernel directions with either
base sign, and folds modulo the kernel; among the circuits, ones that are
refused, and ones whose merge is blocked, folds or cancels.

- `ResidualExact`: the composed, the reduced and the rewritten residual is, up to
  a phase, the noisy state of the faults that fired.
- `RecordsExact`: the columns of the table, coins fair and directions measured on
  the clean state, have the joint law of those records in the noisy state: every
  parity of every set of columns has the exact mean.
- `WalkExact`: the walk along the directions of a plan, which looks only at the
  free coordinates, projects the bare state as their measurement would, with its
  weight, so that the outcomes of a shot have their probabilities.
- `EarlyRejectSound`: a shot rejected before it is served has a postselected
  channel that differs from its clean value for sure.

Abstractions.  Whether a pair is in the plan cache's universe is a free choice.
Tables are built for each shot: that a kept plan is its key's is `PlanCache`'s
subject.  Frames, branches, the streaming and accumulator routes of diagonal
circuits (circuits whose axes are all Z are not armed), the trie that keeps the
probabilities (`BornTrie`) and the column memo of the general builder are left
out.

## 12. Error models

A decoder is given independent mechanisms, each with a probability and the
targets it flips; the circuit has channels of excluding alternatives, carried
past T, CS and CCZ, where one of them may leave some reads random and
correlated.  `ErrorModel` goes from one to the other as the code does, and is
compared with the exact noisy states.

- `DiagonalErrors` (`propagation_table.cpp`, `clifford_conjugate.cpp`,
  `ppr_residual.cpp`): one letter of a channel walked to the end as a power of
  exp(i pi/4), a product of X, and a phase polynomial of S and CZ; its
  composition; the gates it may skip; and the second try of a walk that leaves
  that class, as a Pauli and quarter rotations.
- `ErrorModel` (`dem_export.cpp`, `dem_solve_channel.cpp`, `dem_decompose.cpp`).
  State: `dem`, the answer in the making: the request, the table, the channels
  that are left and the mechanisms so far.  Actions: `OpenModel` (the refusals
  before the walk), `ConvertChannel` (each alternative's signature, or
  the law of the reads it randomizes; then one of the four routes to mechanisms),
  `ConvertChain` (correlated errors with ELSE), `FoldReadouts`, `Emit` (with the
  decomposition into mechanisms of two detectors), and `Diagnose`
  (`detector_determinism`).

Numbers are exact: a probability is (p + q sqrt2)/d, and a mechanism is kept as
its 1 - 2q, a product of such numbers with exponents in eighths.  So laws are
compared for equality, with no tolerance that could hide an error.

Nine themes of run `front_end` come here: Pauli mechanisms with an output frame,
readout flips, chains and observables that are left out; one or two reads
randomized alone; two randomized together; a randomized read that is no fair
coin; reads of one wire copied for the model; four- and three-detector
mechanisms, decomposed, declined and left alone; feedback in a row; faults only
the second try serves; and one nothing serves.  Circuits of theme `reference` are
diagnosed too.  Among the answers are exact and knowingly inexact models, and
refusals for feedback, class, a random detector, observable or decision, a chain,
a decomposition, and both ways a channel can be inconvertible (a mechanism of
negative probability, a channel that mixes too much).

- `FaultExact`: every entry of the table, by either try, and every alternative
  composed of several, is what the fault leaves at the end of the circuit.
- `ModelExact`: unless something was knowingly treated as independent, the
  mechanisms and the faults give every parity of targets the same mean.
- `DeterminismExact`: a parity has the mean it has in the user's circuit, with
  its resets and feedback played out branch by branch; so it is certain there
  exactly when the code says so.

Abstractions.  A model or a diagnosis is asked of the circuit as normalized with
any options; the code copies reads with diagonal gates for a model only if that
alone keeps the faults in the class, and for a diagnosis never.  Reads with
expectation columns, the law of a single shot's
expectation, post-selected faults, logical actions, trusted identifiers, the
check of declared frames and the text are left out.  Among decompositions that
exist the code takes the one with most of the observables' probability; here it
is any.  The caps on the support of a law, on the size of a channel's group and
on its rank are not reached.  Letters that only terms of probability zero have
are in the table here and not in the code's, so such a circuit may be refused
for its class where the code would not.

## 13. Sampler sessions

State (`FamilySessions`): `flag` is `busy_`, `table`, `beng`, `bclass`, `eclass`
are `btab_`, `beng_`, `bclass_`, `eclass_`; `engIb`, `clsIb` the members through
which a call hands its branches down; `branches`, `payload`, `used`, `budget`,
`branchIds` are the engine's `FamRoute` fields, for the sampler's own engine (0)
and that of each per-E consumer; `sinkOf` whose rows an engine fills.  A thread's
`run` holds the locals of `sample_held_` and `run_core_`.

Actions follow one call: `AskRun` (the flag is tried once), `Branches` (the
arrays are assigned, refusals), `RunShot` (payload re-supplied and evicted, row
to the sink), `EndRun` (scatter, next engine), `Finish` (the late filter, the
release), `RunFails` at any shot, with or without a poisoned budget; `AskAdd`,
`BuildHost`, `Add`, `AddRefused`; `SetBudget`; `TurnAway`.  The interpreter lock
is released only in engine runs and while a sampler is constructed, so what lies
between two of these is one step.

Run `sessions` (two threads, three branches of the sampler's own engine and one
with a per-E consumer, one branch whose rows fail the mask, payloads of 1 and 2
under a budget of 2, five calls): five calls fit two registrations, a budget and
two runs, which is an eviction and a re-supply.

- `NothingLeftBehind`: a sampler nobody uses holds nothing of a call that has
  ended, by return or by exception.
- `PayloadsWithinBudget`: after a shot that touched the payloads they fit the
  budget or the branch is alone; what went was used least recently.
- `Implements`: as in `BranchCalls`: numbers in order of registration, every row
  of the branch its shot asked for and relative to this sampler's reference,
  masked runs being unmasked runs filtered, one call at a time, a second one
  turned away without effect, every call answered.

Fairness: a thread in a call goes on (weak, per thread, on the steps of a call
but not on its failures): nothing in a call waits for another thread.

Run `sessions_stale` finds a flaw, for recorded calls that mix branches of both
kinds: `eng_ib_` is assigned before the refusal of such a call and what clears
it is constructed after it, so the next call of branch 0 runs with the array.
The other runs leave such calls out (`Mixed`).
`cls_ib_.assign` (`family_sampler.hpp:1261`) stands in the same window and may
throw; that is not modelled, and would leave `eng_ib_` as the refusal does.

Two things were seen that no property states.  A refusal by the state budget in
`family_add_branch`, after the branch table has grown, leaves a branch without
engine; it needs an allocation failure inside `add_branch`, which is not
modelled after the table is touched.  And `set_branch_budget` reaches the per-E
consumers that exist; one that is built later has no budget.  The producer of
the branches is taken to be at rest while a consumer reads it, which no flag of
the code ensures.

Proved in `SharedProofs` for any threads, branches, consumers, shots and bounds:

- `SamplerInvariance`: the inductive invariant `IInv`, of four parts.  `Stored`
  is the state between calls: types, branch tables that are injective and lead
  each number to its branch, payloads that are those of the branches an engine
  has.  `CallTypes` gives the types of what a call hands down and holds.
  `Held`: a thread is in a call exactly when it holds the flag, which is what
  makes every other conjunct about "the" call meaningful.  `Phases`: what the
  engines hold of the call (branch arrays, sinks, the mark of recording) is what the
  caller's phase says, and nothing when the flag is free.
- `NothingStaysBehind` (`NothingLeftBehind`) and `BudgetsAreKept`
  (`PayloadsWithinBudget`) follow from it.  The second is an action property: the
  eviction order is the sequence `used`, so its proof is about what `NowUsed` and
  the trim do to a sequence without repetitions.
- `RowsInvariance`: `RowsRight`, the rows a call holds at each shot.  An engine's
  rows are those of the first `pos` shots of its class, or those of them that
  pass; the classes already scattered are right at their places of the output.
- `CallsArePromised`: `Implements` without its fairness: the initial states are
  those of `BranchCalls` and every step is one of its steps or leaves its
  variables alone.  It needs `RowsRight` at the `Finish` of a call.

`NothingStaysBehind`, `RowsInvariance` and `CallsArePromised` suppose `Mixed =
FALSE`, as the run does: with recorded calls that mix the kinds they are false,
which is what `sessions_stale` shows.  The other two hold with such calls too.

The positions a call selects (the shots of a class, the rows that pass a mask,
the payloads in order of use) are `Ascending` and `Pick` of `BranchCalls`, which
define by rank what `SelectSeq` would define by recursion.  The lemmas about
them say that the ranks of a finite set of numbers are the numbers up to its
cardinality, and from that what `Pick` of a longer sequence adds.

## 14. The cache directory

`CacheDirectory` is two machines on one directory that share no file, so a
behaviour is one of either kind.  Their threads are its `Users`, the calls of
`resolve_reference` its `looks` with what they `took`, and `saving` is where a
thread is in the plan file's load or save.

`ReferenceCache` is one entry of `xtim/reference.py`: three files, each written
under a temporary name of its thread and renamed, so that a store is three
renames (`Store`), any of which may fail; a reader takes the text, its digest and
its signature one after the other.  A compiled text is modelled by the name of
its circuit's file (`Sources`), the one thing in it that differs between circuits
of one key: the text has a line `source <name>` (`cpp/src/ref_io.cpp:291`, the name
from `xtim/circuit.py:354`), while the key hashes the circuit without its noise
values (`reference.py:161-166`).  `named` is history: the names the entry was
compiled for.  `PlanFile` is `load_file_v6_` and
`save_file_v6_`: opening empties the temporary file, whose name is the
process's, so two threads of a process may write one file at once, each at its
own place (`Put`); a rename gives the name to whatever the temporary is by then.
The trailing hash is right exactly when the pieces of one blob and no others are
in the file (`Opens`).  A crash stops every thread of a process between two
steps and leaves the files; a crash of the machine, with writes lost after a
rename, is not modelled.

Run `cache_directory` (two threads of one process and one of another whose
sampler has other term axes; circuits of one key from two files; four calls, two alterations, three runs, one
truncation):

- `ServedIsOwn`: a reference that is served is the one that would be compiled,
  and plan keys that are loaded are of the sampler's own law.
- `TurnedDownForAReason`: a reader turns an entry down only if a file of it is
  missing or was touched, or if the entry was compiled for circuits of two names;
  racing writers of one name never spoil it.

The last clause is not in the code's own account.  `_store` says that
"deterministic content makes last-writer-wins safe" (`reference.py:301-302`), and
the key is made for the points of a sweep over noise values, which may well be
files of different names.  Two of them that miss together write different texts;
one may rename its text first and its digest last, with the other's in between.
The entry then holds the text of one beside the digest of the other, nobody touched
a file, and every reader turns it down until somebody deletes it (a reader that
turns an entry down does not write it again).  Without the clause TLC finds a
reader that meets one writer's text beside the other's digest.  What is served stays right: such a reader uses the deduced state.

Proved in `SharedProofs` for any threads, processes, laws and bounds:
both.  `RInv` says that each of the three files is of a name the entry was compiled
for, missing, or spoiled, and that a thread that stores holds a text of such a
name; with one name an intact digest is the digest of the text.  `PInv` that every
piece in every file is a piece of a blob whose keys belong to the blob's law,
whichever writers met in the file, so that a file that opens is one blob.

## 15. What is only model-checked, and what is not modelled

Every safety property that a run checks of the caches, the budgets, the walker, the
shot loop, the sampler sessions and the cache directory is a theorem, and so is
the safety half of every refinement of theirs.  Their totals are sums over functions and sequences
(`SumFunction`), which the provers know nothing about: `SumLemmas` proves what
is needed of them (a sum changes by what one of its terms changes, is split by a
partition, kept by a renaming, bounded term by term) from the defining equation
alone.  Its induction is that of finite sets: if a statement about subsets fails, it fails
for one none of whose own subsets fails it (`LeastSubset`).

Liveness (every call returns, every walk ends, every call is answered) is
checked by TLC only.  `FrontEnd`, `BareStates`, `RecordSampler` and `ErrorModel`
compare recursive definitions (passes over a circuit, elimination over bit rows,
state vectors) over bounded circuits and stay with TLC: they are RECURSIVE
operators, which the proof system does not expand.  Type invariants are proved
for `PlanCache`, `BornTrie`, `StateBudget`, `ShotLoop`, `PlanBudget`,
`BareStateMemo` and `FamilySessions` (`StoredTypes` and `CallTypes` of its
`IInv`).

Not modelled, each with its reason in `PROJECT.json`:

- record fidelity and forced branches: numerical or combinatorial functions of
  what is modelled here; of the error models, what section 12 leaves out;
- of the bare state: factored states, the caps, the dense and tabled paths of the
  assembly, the sum's own measurements;
- of the exact sampler: the tree of a fault and its memo of failures, the loop
  over shots;
- of the term route: its table of entries and their trims, input frames, carried
  branches (their payloads are in `FamilySessions`);
- record buffers, Python's collection, argument checks and messages, parser and
  emitter.
