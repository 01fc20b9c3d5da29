# Combine Duplicate Furniture: a TLA+ model

The mod hooks the game Mewgenics. Pressing a hotkey in the furniture screen
*seals* a batch: pairs of identical furniture, one to keep and one to consume.
After the player leaves the screen, the mod executes one pair per frame: it sets
a flag on the copy to keep (ordinary becomes rare, rare becomes enhanced) and has
the game delete the other one. The pieces of state are the game's (its storage and
scene, changed by the player and the game between any two frames), the calls into
it can fail half way, and nothing is transactional. That is what these modules are
about.

Paths below are relative to the repository; `file:line` refers to its `src/`
directory unless a directory is named.

## 1. Inventory

| Part | Source | State it keeps | Operations | Interacts with |
|---|---|---|---|---|
| Furniture values | `include/.../domain.hpp` | none | flags of an instance, catalogue entry | everything |
| Planner | `domain.cpp:18-152` | none | find candidates of a snapshot, match a sealed plan with a present one | called by the batch engine |
| Native store access | `native_api.c:566-1233`, `native_runtime.cpp:55-153` | none of its own: the game's storage vector and component list | scan, set and clear a flag, consume, store (put away) | called by the batch engine; calls the game |
| Batch engine and hooks | `mod_main.cpp:395-894` | `g_enabled`, `g_busy`, `g_batch`, hotkey and request, `g_ui_rebuild_pending` | per-frame hook (`HandleCombine`, `ProcessBatch`), screen-enter hook, shutdown | planner, store access, the modal dialog |
| Single transaction | `domain.cpp:154-273` | none (the result) | `ExecuteCandidate` through a port | the tests only |
| Attribute patches | `native_api.c:122-139, 1235-1330` | seven code sites | audit, patch | screen-enter hook, loading |
| Furniture screen list | `native_api.c:787-926`, `mod_main.cpp:819-854` | the game's dirty byte and row keys, `g_ui_rebuild_pending` | mark the rows and arm a rebuild | screen-enter hook, after the attribute audit |
| Layout and signatures | `native_api.c:330-556` | the layout found | resolve, validate | every native call |
| Lifecycle | `mod_main.cpp:896-1000` | hooks installed, `g_enabled` | load, initialize, shut down | loader |
| Catalogue | `catalog.cpp`, `mod_main.cpp:328-340` | `g_catalog`, attempted | read the archive, parse definitions and records, intersect them, once | planner |
| Configuration, messages, build | `mod_main.cpp:342-545`, `tools/`, `config/` | | | |

What is hard here:

* **Interleaving.** A batch lives over many frames. Between two of them anything
  in the storage or the scene may change; the sealed plan is a cached view.
* **Partial failure.** Promote and consume are two calls into the game. The
  second may fail before or after its effect, and so may the rollback of the first.
* **The mod disturbs itself.** It puts placed copies away after sealing, and its
  own promotions create new rare copies; both change what a new plan looks like.
* **Bounds.** The scan buffer holds 4096 entries.
* **Ending.** A batch waits for the screen to close and for components to be purged.
* **Index arithmetic.** Four loops pair the copies of a group.
* **Reading what cannot be read.** A component list that is unreadable is taken for
  an empty one: the screen counts as closed and no piece as loaded.
* **Repeating.** Marking a row twice unmarks it, and an attempt may fail half way.
* **Input from files.** Lengths and sizes of the archive bound loops and subtractions.

What makes the parts correct: a plan is legal, disjoint, as large as possible and
recalls as few copies as possible; the batch keeps a ledger in which two copies
become one of twice the worth, atomically; a failure costs one copy at most;
the flag `g_busy` and the batch agree; no piece is left without its entry; a batch
stops early only when someone disturbed it; every batch ends; the screen shows what
a finished batch combined, computed by the patched code, or the mod still owes it,
unless it was given no list to mark;
and the catalogue says what the files say.

## 2. Modules

| Module | Models | Notes |
|---|---|---|
| `Furniture` | `domain.hpp:12-57` | flag words are subsets of {"rare", "enhanced", "unknown"}; items and keys are numbers because the code orders them |
| `Candidates` | `domain.cpp:18-152` | the pure planner; no state |
| `Planner`, `MCPlanner` | one call of `FindCandidates` | the properties compare it with all matchings of the snapshot |
| `NativeStore` | `native_api.c`, `native_runtime.cpp` | storage: address -> entry, `Free` or `Garbage`; components: piece -> piece record or `Gone` |
| `CombineBatch` | `mod_main.cpp:395-894, 986-989` | the state machine |
| `Ledger` | abstract | what the owner of the furniture is promised |
| `BatchProperties` | | the refinement and the properties over several steps |
| `MCCombineBatch` | | the stores of the instances |
| `Lifecycle` | `native_api.c:122-139, 330-538, 753-770, 1235-1330`, `mod_main.cpp:896-989` | loading: signatures, attribute patches, hooks, shutdown, other mods |
| `FurnitureScreen` | `native_api.c:787-926`, `mod_main.cpp:819-854` | the list of the screen, composed with `Lifecycle` |
| `Catalogue`, `MCCatalogue` | `catalog.cpp`, `mod_main.cpp:328-340` | the parsers as functions of a file, and `EnsureCatalog` |
| `CatalogueMeaning` | abstract | what the files say, stated without parsing them |
| `Transaction`, `MCTransaction` | `domain.cpp:154-273` | `ExecuteCandidate` over the store of `NativeStore`, one step per call of the port |
| `CandidatesProofs`, `PlannerProofs`, `NativeStoreProofs`, `CombineBatchProofs`, `TransactionProofs`, `FurnitureScreenProofs` (with those of `Lifecycle`), `ArchiveProofs`, `CatalogueProofs` | | the theorems of section 5 |

### How `CombineBatch` corresponds to the code

A hook call runs on the game's thread to its end, so it is one step; the game
and the player move between steps. The exception is the confirmation box: with
`show_dialogs` a frame stops inside `HandleCombine` (`dialog = TRUE`) and goes on,
with a second scan, when the player answers. Nothing but the entries and pieces
can change meanwhile.

| Variable | Code |
|---|---|
| `storage`, `components` | the game's entry vector and component list |
| `scene_readable` | whether `cdf_scene_components` can read the list; `SceneComponents` is what the code finds |
| `signatures` | what `cdf_signatures_valid` would answer |
| `furniture_mode` | the byte that `cdf_native_furniture_mode_active` reads |
| `stale_rows` | the screen's list was built before the last combination |
| `enabled`, `busy`, `hotkey_down`, `combine_requested`, `ui_rebuild_pending` | `g_enabled`, `g_busy`, ... |
| `catalog` | `g_catalog_attempted` and its outcome |
| `candidates`, `next_index`, `pending_components`, `stage` | the fields of `g_batch` |
| `moves`, `sealed_moves` | history: how often the outside changed something, and when the batch was sealed |

Every action of the hooks stands for one path through the hook from its first
line to its return:

* `FrameIdle`: nothing to do (no request, or no open screen); a request may expire.
  The deadline of one second is not a clock here: a request that is not answered
  may expire in any later frame.
* `HandleCombineWithoutCatalog`, `...FindsNothing`, `...Seals`, `...StoreFails`,
  `...Previews`, and `DialogCancelled`, `DialogConfirmedTooLate`,
  `DialogConfirmed`: the exits of `HandleCombine`. Without dialogs its two scans
  see the same state, and one stands for both.
* `AwaitPurge`, `AwaitFurnitureExit`, `ConfirmReopened`, `ConfirmAccepts`,
  `ConfirmRejects`, `Pause`, `PromoteRefused`, `PromoteRaises`, `PairCompleted`,
  `ConsumeFails`: the exits of `ProcessBatch`, in the order of its tests. A promotion
  that fails does so before it writes the flag (`PromoteRefused`) or after it, while it
  reads the flag back under the same handler (`PromoteRaises`). The branch of
  `mod_main.cpp:615-618` (no pair left) is unreachable; the invariant
  `BusyHasWork` says so and is proved.
* `FurnitureModeEnterHook`, `Shutdown`: as named.
* Everything in `Outside` is the game, the player or another mod. Each action but
  the purge and the exit from the screen costs one of `MaxMoves` moves.

`Faults` names the calls that may go wrong in an instance:
`catalog`, `promote`, `written` (setting the flag fails after the flag was written),
`delete` (the entry stays), `raise` (the delete raises after its effect), `rollback`,
`store` (putting away fails before or after its effect), `partial` (it returns or raises
with a part of it), `garbage` (an unreadable entry), `patch` (a signature no longer
matches), `audit`, `arm`, `shutdown`, `scene` (the component list cannot be read for some
frames). Whether the list can be read may change between any two frames, at no cost in
moves. With `partial` (`PutsAwayInPart`) the three effects that `native_api.c:1222-1226`
tests come apart: the room is empty or not, the piece detached or not, queued or not. The
fourth test, that the entry is still at its address, is taken to hold.

### How `Lifecycle` corresponds to the code

Code of the game is abstracted to the outcome of comparing it: a site is
`original`, `patched` or `foreign`, a hooked function's prologue `original`, `hooked`
(the loader's jump for this mod) or `foreign`, and `runtime` stands for all other code
and tables of the signatures. One call of `CombineDuplicateFurniture_Initialize` is
one step, `PatchesRefused`, `HookRefused` or `Loads`; the calls that return with nothing
changed (already enabled, no loader, code not as expected) are stuttering. The set
`refused` of a step holds the sites that `VirtualProtect` does not make writable.
`installed` counts what `MJ_InstallHook` did; the code itself keeps no such count.
The `FurnitureModeEnterHook` of this module is the part that runs even when the mod
is disabled: it repairs the patches.

External, and assumed: `MJ_InstallHook` either overwrites the prologue or changes
nothing, and nobody takes the mod's own hook out again. `HooksAreWhole` and
`HookedStaysDisabled` rest on the second: the jump at the prologue is what makes
`cdf_layout_signatures_valid` refuse another loading. One consequence is worth
knowing: after `Shutdown`, or after a loading whose second hook failed,
`Initialize` returns 0 for the rest of the process.

### How `FurnitureScreen` corresponds to the code

The module extends `Lifecycle` with the list that the game keeps from one opening of
the screen to the next. A row is `current`, `combined` (it shows a furniture as it was
before a pair) or `announced` (the batch of that pair has finished), and its key is
`inverted` or not. `Attempts` holds every outcome of
`cdf_native_prepare_furniture_ui_rebuild_on_enter`: it gives up before it writes
(`Untouched`), among the rows with those before marked (`FailedAt`), or arms the rebuild
(`Armed`); and it arms as well when a pointer on the way to the list is null
(`ArmedWithoutList`): `cdf_furniture_ui_rows` then succeeds with no rows
(`native_api.c:804-832`), so the order is settled and no row is marked. `unlisted` is
history, whether the last order was settled like that. `EnterHook` is the whole of `FurnitureModeEnterHook`: the audit, which is
the action of `Lifecycle`, the attempt, the game's function, and the pending flag.
`Combines` is the effect of one pair of the batch on the rows; the batch itself is in
`CombineBatch`.

External, and assumed: the game rebuilds its list when the dirty byte is set on opening
the screen, and may rebuild it for reasons of its own; a rebuild replaces the rows whose
key no furniture has. If the game could open the screen with the byte set and *not*
rebuild, a second marking would undo the first, and `FinishedIsShownOrOwed` would fail:
the code relies on it and does not check it. Whether a list that could not be reached has
rows when it can be reached again is not assumed either way; the model keeps them. The
repository's `README.md:72` lists as a known issue that furniture may show its previous
attributes after the screen was entered again; `ArmedWithoutList` is the one way to it
that this code has, and `FinishedIsShownOrOwed` names it as its exception. `armed` in
`CombineBatch`, which has one bit for the whole list, is an attempt that found the list.

### How `Catalogue` corresponds to the code

A file is a sequence of cells: words of a text, or numbers and bytes. `ReadTargets`,
`ParseBlocks` and `ParseRecords` are the loops of `ReadGpakTargets`,
`ParseFurnitureEffects` and `ParseFurnitureInfo` as recursive functions; a `return false`
is the empty set, a result a set of one. A number of several bytes is one cell, the two
numbers at the head of a record are two. What is left out is what no
decision reads: the CSV with display names and the attributes of rooms. `Writings` are the
archives to choose from, as lists of files and the number of cells lost at the end.

### How `Transaction` corresponds to the code

`pc` names the next call of the port, `PreScan` to `PostScan` in the order of
`ExecuteCandidate`; `Returns` is a `return result`. `status` and `rollback` are the
fields of the result, `start` is the storage at the call (history). Plans are made by
`Plans` and may be old when one of their candidates is executed. The port is the one of
`NativeStore`, with `PortFaults`: five of them are those of the native calls (`written`, a
flag set or cleared by a call that reports failure, applies to both), and two,
`silent` and `other`, are successes that the interface of `TransactionPort` allows to be
false and that the second scan is there to catch.

## 3. Runs

| Run | Instance | Shows |
|---|---|---|
| `planner` | four furniture, two items, 12 kinds, four orders of keys (two of them invalid), incomplete scans; four and five copies of one item, each stored, live or unavailable, two orders | `TypeOK`, `PlanIsSound`, `PlanIsDisjoint`; `PlanIsMaximum`, `PlanRecallsFewest` against all matchings |
| `ledger` | six small stores, the faults of a call without effect and `store`, one move | `TypeOK`, `BatchShape`, `SealedPlanIsSound`, `PiecesShowPlaced`, and the refinement `KeepsLedger` |
| `damage` | a full scan buffer (4), and a store whose scan is cut off before the kept copy; promotions, deletes, rollbacks and put-aways that fail with all, part or none of their effect, an unreadable component list, one move | `DamageIsOneCopy`, `DanglesOnlyBlind` |
| `dialogs` | with the confirmation box, two moves, a store with an odd copy and stores with two pairs of one item | `BatchShape`, `StopsOnlyIfDisturbed` |
| `ends` | fair frames and purges, one move | `BatchEnds` |
| `screen` | `FurnitureScreen` with three sites, any of them not writable, supported and unsupported game, three writes by other mods, three rows (one without a key), three pairs | of loading: `TypeOK`, `HooksAreWhole`, `WritesOnlyExpectedCode`, `AuditIsTrue`, `HookedStaysDisabled`; of the list: `ScreenTypeOK`, `FinishedIsShownOrOwed`, `RebuildsOnlyPatched` |
| `catalogue` | all texts of up to four words, of five words of a smaller set, two blocks or one in another with short bodies; all record lists of up to seven cells, a valid one with up to two cells changed; archives in every order with an extra file before or behind, cut off at six places | `TypeOK`, `CatalogIsAsWritten`, `WrittenIsRead`, `AnswersAgree` |
| `transaction` | two pairs ordinary and rare, a pair with one copy in a room; all seven faults, two changes by the game between calls | `TypeOK`, `SuccessIsTheMerge`, `RefusalTakesNothing`, `FailureIsOneCopy`, `AlarmIsJustified` |
| `putaway`, `pause`, `onscreen`, `rows` | one store each, no moves | the findings of section 4 |

**Bounds and why they are enough.** The planner treats groups independently and
each of its loops has a boundary at 0, 1 and 2 elements of each sort; four and five
copies in three sorts reach all of their combinations, an even and an odd rest
among them. The batch
touches two entries per frame, so two pairs are needed for an effect of one on the
next, and one move between them for interference. Two moves matter where a scan
is repeated without a frame in between, in the confirmation box. Three pieces are
enough to put two away and load one more. The pieces are symmetric; the addresses
and keys are not, since the code orders them, and the liveness run uses no
symmetry. Every number that can grow is bounded: `MaxMoves` by guard of `Move`,
`next_index` by the plan.

The sites of `Lifecycle` are alike, and three have one that is written before, at and
after a failure; three writes let another mod interfere between a failed
loading, its repetition and an entry into the screen. In `Transaction` one call touches
two entries and a fault may take a third; two changes can remove and replace a key.

Three rows have one before, at and behind a failure, one of them without a
key; three pairs can be a finished batch and the beginning of another, and attempts are
not bounded. The parsers of `Catalogue` look at a brace or a record and what surrounds
it, so texts with two blocks and lists with three records meet every case; `MaxEntries`,
`MaxName`, `MaxSize`, `MaxRecords` and `PayloadSize` are small so that each limit is
reached and passed.

`CHECK_DEADLOCK FALSE` stands in the configuration of `Planner` only, which makes one
step and stops. The others are checked for deadlock: a frame is always possible until
`Shutdown`, a request can always be repeated, and the screen can be entered and left
for ever.

**Fairness.** The game calls its scene update, hence the hook, on every frame, as
long as the mod is enabled and the thread is not inside the confirmation box; and
the game purges the components that are queued for deletion. `FairSpec` says just
that. The first condition is weak fairness of `SceneReadyHook`, written as
`<>[](enabled /\ ~dialog) => []<><<SceneReadyHook>>_vars`: a frame is possible
exactly when `enabled /\ ~dialog` (the hotkey may go up or down in it, so it changes
a variable), and TLC evaluates the planner far too slowly inside `ENABLED`. The
player is not obliged to do anything: `BatchEnds` has the premises that the screen
eventually stays closed and that no live piece takes the address of one that was
put away. Without the second the code does wait for ever
(`mod_main.cpp:552-564` compares addresses).

**The properties.** `KeepsLedger` is the refinement of `Ledger` by `CombineBatch`
under clean failures: each hook step is exactly one combination, one putting away,
or invisible, so a failed pair leaves no trace. In a combination the copy that goes stands
in no room, unless the game or the player moved since the batch was sealed. The condition
is needed: `cdf_native_consume` (`native_api.c:1102-1106`) asks for loaded pieces, not for
the room. With `~storage[consume].placed` in `Combine` instead, TLC still accepts one move
and refutes two: between two frames, after the validation, the player opens the screen,
places the stored copy again, its piece is unloaded and the screen closed; the next frame
consumes the copy out of its room. `DamageIsOneCopy` covers the
failures that do leave one: the total worth of an item changes only in a step that
ends the batch, and by one copy. A flag written by a failing call is such a step too. `StopsOnlyIfDisturbed` says that no pair of a plan
gets in the way of a later one; it leaves out the two validations that the findings
are about. `DanglesOnlyBlind` is what remains of `PiecesShowPlaced` when the component
list cannot always be read, or a put-away stops half way and leaves a piece on an entry
that is in no room: a later batch notices the piece, whatever the entry looks like.
`KeepsLedger` is not checked in blind frames, nor would the words of
the repository's `README.md:16` be true, since a pair may then be executed with the screen open.
`FinishedIsShownOrOwed` ranges over all sequences of attempts; a liveness form would be
weaker, because nothing obliges the player to open the screen. Its exception is an order
that was settled without a list; an attempt that is given the list afterwards, for another
batch, invalidates the rows that the first one missed.
`RefusalTakesNothing` allows a call that is refused at the promotion nothing but the flag
that the failing call itself has written.
`CatalogIsAsWritten` and `WrittenIsRead` compare the parsers with `Meant`: blocks by
counting braces over intervals instead of a running depth, records as the partition of
the file that they have to be, files by what was written instead of by offset. The model's
numbers are unbounded: a guard that is off by one is caught, one whose unsigned subtraction
wraps would not be (`catalog.cpp:243-246` test each operand before they subtract it).

## 4. Findings

Each is a run that TLC refutes; the configuration holds nothing but the store that
shows it.

1. `PuttingAwayKeepsPlan` (`mod_main.cpp:585-599`). Three live copies and a stored one: the plan
   sealed is 1 keeps / 4 goes, 2 keeps / 3 goes. Copy 3 is put away; the plan of the
   validation is then 1 keeps / 3 goes, 2 keeps / 4 goes. The batch is stopped with
   "The furniture state changed after leaving furniture mode", though only the
   mod changed it.
2. `PauseKeepsPlan` (`mod_main.cpp:611`). Four ordinary copies and a rare one: after the first
   pair there are two rare copies, a pair that was not sealed. If the player
   reopens the screen at this point the "paused" batch cannot go on.
3. `NothingModifiedOnScreen` (`README.md:16` of the repository). Sealing puts copies away while the
   screen is open.
4. `EntryShowsCombined` (`mod_main.cpp:602`, `README.md:16` of the repository). Four ordinary
   copies and a rare one: after the first pair the player opens the screen, the batch pauses,
   and when the screen is closed its validation fails as in 2. `ClearBatch` leaves
   `g_ui_rebuild_pending` alone, which only `FinishBatch` sets (`mod_main.cpp:523`), so with no
   batch at work the next entry shows the list from before the pair, although "on the next
   home-to-furniture transition, the mod marks the list dirty". A batch stopped by a failing
   call (`StopBatch`) ends the same way; this run has no failing calls.

## 5. Proofs

`tlapm` proves these for every catalogue, set of items, keys, addresses, pieces and
initial stores, every archive, every set of faults, every buffer size and every number
of moves. Every invariant and every action property that a passing run checks is a
theorem.

* `CandidatesProofs`. `AscendingEnumerates`: sorting by a weight that distinguishes
  the elements enumerates a finite set (by counting the elements below each one).
  `GroupPairsAreMembers`: whatever the sizes of the three vectors, every index of
  the four loops is in range and each pair consists of two different members of the
  group. `FindCandidatesAreMerges`: for every snapshot the plan is a sequence of
  candidates, each of two different copies of one item with the same flags.
  `FindCandidatesAreDisjoint`: no key is in two of them.
* `PlannerProofs`. `PlanAlwaysSound`, `PlanAlwaysDisjoint`, `PlanAlwaysMaximum`,
  `PlanAlwaysRecallsFewest`: the plan of every snapshot against every set of disjoint
  pairs of it. Of each group a set of disjoint pairs takes no more pairs, and no more
  pairs that consume a stored copy, than the three vectors of the group allow, and the
  loops of the code reach both numbers; so of as many pairs none recalls fewer copies.
* `NativeStoreProofs`. Each write returns a well-typed store; a scan that is not
  truncated reports every entry, with its keys and flags; a flag that is set and cleared
  leaves the store as it was; no write leaves a live piece without a placed entry; what a
  complete scan reports is sealed in the store, and writes to other entries keep it so.
* `CombineBatchProofs`. Invariants: `TypeCorrect`, `BatchShapeHolds`,
  `SealedPlanIsAlwaysSound`, and `PiecesAlwaysShowPlaced` for a component list that stays
  readable and put-aways that do not stop half way. Steps: `DanglesOnlyInBlindFrames` for
  those that do not and do;
  `DamageIsAlwaysOneCopy`, with the worth of an item counted entry by entry, for every
  set of faults; `BatchKeepsLedger`, the refinement of `Ledger` by the batch; and
  `BatchStopsOnlyIfDisturbed`, for plans of every length.
* `TransactionProofs`. `RefusalAlwaysTakesNothing`, `FailureIsAlwaysOneCopy`,
  `SuccessIsAlwaysTheMerge`, `AlarmIsAlwaysJustified`: what each answer of
  `ExecuteCandidate` says about the storage, through a port that may fail or lie.
* `FurnitureScreenProofs`. Of loading: `HooksAreAlwaysWhole`,
  `HookedAlwaysStaysDisabled`, `AlwaysWritesOnlyExpectedCode`, `AuditIsAlwaysTrue` for
  every set of sites. `ScreenIsLifecycle`: the composition implements `Lifecycle`, so
  these carry over. Of the list: `FinishedIsAlwaysShownOrOwed` for every number of rows,
  with the exception of an order settled without a list; `AlwaysRebuildsOnlyPatched`.
* `ArchiveProofs`. `FilesAreRead`: the files read are the ones written, wherever the
  archive is cut off. `ListIsRead`: the records read are the one partition of the file
  into records.
* `CatalogueProofs`. `EffectsAreDescribed`: the blocks read are the outermost named ones,
  however deep the braces. `CatalogIsAlwaysAsWritten`, `WrittenIsAlwaysRead`: hence the
  catalogue is what the archive means, for every archive. `AnswersAlwaysAgree`, from the
  fact that a load which fails leaves the catalogue alone and one that succeeds leaves it
  not empty.

### Assumptions

The named `ASSUME`s of the modules, which TLC evaluates in every run. Two have content.
`InitialStoresAssumption`: the game starts with every loaded piece pointing at an entry
that is in a room. `CatalogueAssumption`: files are sequences of numbers.

`BatchKeepsLedger` has two hypotheses, each of which names a way the code really can
leave half a pair behind. Four faults are excluded: `raise` (the game's delete has its
effect and then reports a failure, so that the pair is rolled back without its other
half), `written` (a promotion that reports failure and is there), `rollback` (undoing the
promotion fails), and `scene` (with the component list
unreadable a pair may be executed with the screen open). And the storage fits the scan
buffer, in which the rollback looks for the kept copy. What remains true without them is
`DamageIsAlwaysOneCopy` and `DanglesOnlyInBlindFrames`, which exclude nothing.
`PiecesAlwaysShowPlaced` excludes `scene` and `partial`. The run `ledger` is an instance of both.
`BatchStopsOnlyIfDisturbed` excludes the calls of a pair that fail by themselves
(`promote`, `written`, `delete`, `raise`), `partial` and `scene`; the run `dialogs` is an instance.

### The arguments

*Batch.* `TypeOK` is inductive by itself; its only hard conjunct is that what
`HandleCombine` seals is a sequence of candidates, which needs the scan to be a
snapshot and the planner's theorem. `BatchShape` is inductive given `TypeOK`: its
five parts have to be taken together (`BusyHasWork` needs `IdleIsClean` for the
frame that opens the confirmation, `PendingOnlyBeforeFirstPair` needs the stage).
`PiecesShowPlaced` is inductive given `TypeOK`: `PutsAway` queues the pieces of
exactly the entries it takes out, `CanConsume` asks for no piece, and flags do not
matter. That the copy which goes stands in no room is `ConsumesStored`: as long as
nothing moved since the sealing, the copies still to be consumed have entries out of rooms.
`DamageIsOneCopy` and the refinement follow step by step from one lemma,
`StorageSteps`: the hooks write the storage by putting away, by a completed pair, a
failed one or a flag that a failing call wrote, and in no other way; a completed pair takes two copies worth one and
gives one worth two. `StopsOnlyIfDisturbed` needs to remember what sealing saw, and
`Intact` is the invariant that does: as long as `moves` is what it was at the sealing,
each of the two copies of every pair that is left is the only entry of its key, with the
sealed item and flags, and no live piece shows the one to be consumed; and before the
first pair of a batch that put nothing away the scan still offers the sealed plan.
Sealing establishes it: the scan was complete and its keys distinct, so a report is of one
entry; a copy that is placed is put away, and one that is not is shown by no piece, which
is `PiecesShowPlaced`. A completed pair keeps it because the pairs of a plan are disjoint
(`SealedPlanIsSound`), and a purge because the pieces it takes were not found before
either. With `Intact` both calls of the next pair succeed, and so does a validation that
has nothing to complain of.

*Transaction.* `UntouchedUntilPromoted` is enough for refusals: up to the promotion
the storage is the one of the call, a promotion that is refused can only have written the
flag, and every way back after it has set another status.
For the rest `CallInv` says at each `pc` what is known: the first scan was of `start`,
both copies were in it, and the storage is `start`, `start` promoted, or that without one
entry, according to the calls that were made.

*Loading and screen.* `HooksMatchPrologues`: a hook is installed once exactly when its
prologue is `hooked`, and the scene hook never without the other one. `HooksAreWhole`
alone is not inductive, since nothing in it says why a loading cannot be repeated.
`FinishedIsShownOrOwed` needs three more conjuncts: a row without a key is never out of
date; between two steps the byte is not set and no key is inverted, since the byte is
set before the first row and the game's function follows in the same call; an announced
row has its rebuild owed, or the last one was settled without a list.

*Catalogue.* The loops of the parsers are recursive functions, so these are inductions
over the data. The library's induction theorems cannot be used (they take an operator as
a parameter), but induction can be had from cardinalities: `FiniteSetHasLeast` maps each
element of a finite set of numbers to how many are below it; that is injective into a
set of the same size, hence onto, hence some element has none below. `RankInduction` and
`RankRecursion` follow by least counterexample, stated with sets and functions in place
of operators. Files: by the number of files, what `Contents` puts before a file is as
long as its offset. Records: `ReadSoFar` says that what was read are the records of a
chain of starts from 3 on, one way, and `Stands` that the loop never leaves the starts of
a given partition, the other. Blocks: `Depth` is the difference of two counts, it changes
by one at most, so the first 0 is the closing brace (`BlockEndsAre`, `DepthMeetsZero`);
a brace inside a block closes inside it (`InnerCloses`), so that what the loop skips is
what `Furnitures` leaves out (`FurnitureAfterBlock`), and `BlocksAre` is the induction
over the words that are left. `ReadOnce` is the inductive invariant.

### Only model-checked

The liveness property `BatchEnds`, whose fairness is about when purges are possible:
`ENABLED` is beyond the prover.

## 6. Not modelled

The texts of messages and the log, the configuration file, display names and room
attributes of the catalogue, the bytes of signatures and layouts, the build. An exception
inside the parsers (memory) is not modelled. `ExecuteCandidate` is
reached by the tests only. Parts with state that are not modelled yet are in the
plan.

## 7. Plan

Order, most important behaviour first; all but 8 are done.

1. `Furniture`, `Candidates`, `Planner`: the plan.
2. `NativeStore`, `CombineBatch`, `BatchProperties`, `Ledger`: the batch, with runs
   for the ledger, damage, disturbance, dialogs and ending.
3. Proofs: types, shape, merges, pieces.
4. `Transaction`: `ExecuteCandidate` through a port that may fail at any call, and the
   theorem about refusals.
5. `Lifecycle`: loading, the attribute patches, hooks, shutdown, and its theorems.
6. `FurnitureScreen`: rows, inverted keys, attempts that fail half way and retries;
   composed with the verdict of the audit of `Lifecycle`.
7. An unreadable scene in `CombineBatch` (the screen reported closed).
8. Loading step by step against the game's threads, if the loader's threading can be
   established from the code that uses it.
9. `Catalogue`: the archive, its parsers, and their meaning.
10. Proofs of every invariant and every action property that a passing run checks.
