----------------------------- MODULE CombineBatch -----------------------------
(***************************************************************************)
(* The mod at work in the running game (mod_main.cpp): the hook on every   *)
(* frame captures the hotkey, seals a batch of pairs while the furniture   *)
(* screen is open, waits for the screen to close and for the pieces it put *)
(* away to be purged, validates the plan and then combines one pair per    *)
(* frame; the hook on entering the screen orders the list to be rebuilt.   *)
(*                                                                         *)
(* Hooks run on the game's own thread, so a hook call is one step; between *)
(* two calls the game and the player change the storage and the scene.     *)
(* Every such change costs one of MaxMoves moves.                          *)
(***************************************************************************)
EXTENDS NativeStore

CONSTANTS
    InitialStores,   \* the stores, [storage, components], a run starts from
    ShowDialogs,     \* g_show_dialogs: ask before sealing
    Faults,          \* which calls into the game may go wrong
    MaxMoves         \* how many changes the game and the player make

\* "catalog"  resources.gpak cannot be read
\* "promote"  setting a flag raises or does not stick
\* "written"  setting a flag raises after the flag was written
\* "delete"   the game's delete leaves the entry in place
\* "raise"    the game's delete raises after it removed the entry
\* "rollback" clearing the flag again raises
\* "store"    the game's "put away" raises, before or after its effect
\* "partial"  it raises, or returns, with a part of its effect
\* "garbage"  an entry becomes unreadable
\* "patch"    something else changes the code that the signatures cover
\* "audit"    the attribute patches are not in place on entering the screen
\* "arm"      the list of the furniture screen cannot be marked for rebuild
\* "shutdown" CombineDuplicateFurniture_Shutdown is called
\* "scene"    the scene's component list cannot be read for some frames
Fault == {"catalog", "promote", "written", "delete", "raise", "rollback",
          "store", "partial", "garbage", "patch", "audit", "arm", "shutdown",
          "scene"}

ASSUME InitialStoresAssumption ==
    /\ InitialStores \subseteq [storage : Storage, components : Components]
    /\ \A s \in InitialStores : ShowsPlaced(s.storage, s.components)
ASSUME ShowDialogsAssumption == ShowDialogs \in BOOLEAN
ASSUME FaultsAssumption == Faults \subseteq Fault
ASSUME MaxMovesAssumption == MaxMoves \in Nat

VARIABLES
    \* the game
    storage,              \* the furniture storage
    components,           \* the scene's component list
    scene_readable,       \* cdf_scene_components can read it
    signatures,           \* the code signatures match
    furniture_mode,       \* the furniture screen is open
    stale_rows,           \* its list shows furniture from before a combine
    \* the mod
    enabled,              \* g_enabled
    catalog,              \* "unread", "loaded" or "failed" (EnsureCatalog)
    hotkey_down,          \* g_hotkey_down
    combine_requested,    \* g_combine_requested
    busy,                 \* g_busy
    dialog,               \* HandleCombine waits for the confirmation
    candidates,           \* g_batch.candidates
    next_index,           \* g_batch.next_index
    pending_components,   \* g_batch.pending_components
    stage,                \* g_batch.stage
    ui_rebuild_pending,   \* g_ui_rebuild_pending
    \* history
    moves,                \* changes made by the game and the player
    sealed_moves          \* moves when the present batch was sealed

game == <<storage, components, scene_readable, signatures, furniture_mode,
          stale_rows>>
batch == <<candidates, next_index, pending_components, stage>>
request == <<hotkey_down, combine_requested>>
history == <<moves, sealed_moves>>
vars == <<game, enabled, catalog, request, busy, dialog, batch,
          ui_rebuild_pending, history>>

Stage == {"AwaitingFurnitureExit", "ConfirmingFurnitureExit", "Executing"}

Init ==
    /\ \E s \in InitialStores :
          storage = s.storage /\ components = s.components
    /\ scene_readable = TRUE
    /\ signatures = TRUE
    /\ furniture_mode = FALSE
    /\ stale_rows = FALSE
    /\ enabled = TRUE
    /\ catalog = "unread"
    /\ hotkey_down = FALSE
    /\ combine_requested = FALSE
    /\ busy = FALSE
    /\ dialog = FALSE
    /\ candidates = <<>>
    /\ next_index = 0
    /\ pending_components = {}
    /\ stage = "AwaitingFurnitureExit"
    /\ ui_rebuild_pending = FALSE
    /\ moves = 0
    /\ sealed_moves = 0
-----------------------------------------------------------------------------
\* mutant of ClearBatch: next_index survives
ClearBatchKeepsIndex ==
    /\ candidates' = <<>>
    /\ UNCHANGED next_index
    /\ pending_components' = {}
    /\ stage' = "AwaitingFurnitureExit"
    /\ busy' = FALSE

\* g_batch = {}; g_busy = false
ClearBatch ==
    /\ candidates' = <<>>
    /\ next_index' = 0
    /\ pending_components' = {}
    /\ stage' = "AwaitingFurnitureExit"
    /\ busy' = FALSE

(***************************************************************************)
(* What a hook call finds in the scene.  A component list that cannot be   *)
(* read is taken for an empty one: no piece is found, and with the         *)
(* component of the furniture screen missing, the screen counts as closed. *)
(***************************************************************************)
SceneComponents ==
    IF scene_readable THEN components ELSE [p \in Pieces |-> Gone]
FurnitureModeActive == scene_readable /\ furniture_mode

\* the pairs that the present state offers
Present == Scan(storage, SceneComponents, signatures)
Offered == FindCandidates(Present)
ScanComplete == Present.complete

(***************************************************************************)
(* The first lines of SceneReadyHook.  A press is captured unless a batch  *)
(* is at work; one that no open screen answers within a second expires:    *)
(* the time is not modelled, an unanswered request may expire in any       *)
(* frame after the one that captured it.                                   *)
(***************************************************************************)
Pressed(key) == key /\ ~hotkey_down /\ ~busy
Requested(key, expired) ==
    \/ Pressed(key)
    \/ combine_requested /\ (busy \/ ~expired)

FrameBegins(key) ==
    /\ enabled
    /\ ~dialog
    /\ hotkey_down' = key

\* a frame with no batch at work and nothing to start one
FrameIdle(key, expired) ==
    /\ FrameBegins(key)
    /\ ~busy
    /\ combine_requested' = Requested(key, expired)
    /\ ~(Requested(key, expired) /\ FurnitureModeActive)
    /\ UNCHANGED <<game, enabled, catalog, busy, dialog, batch,
                   ui_rebuild_pending, history>>
-----------------------------------------------------------------------------
(***************************************************************************)
(* HandleCombine, called in the frame where a request meets an open        *)
(* furniture screen.                                                       *)
(***************************************************************************)
HandleCombine(key, expired) ==
    /\ FrameBegins(key)
    /\ ~busy
    /\ Requested(key, expired)
    /\ FurnitureModeActive
    /\ combine_requested' = FALSE

\* the catalogue is read once; a failure is never retried
EnsureCatalog(outcome) ==
    /\ catalog = "unread" \/ outcome = catalog
    /\ catalog = "unread" /\ outcome = "failed" => "catalog" \in Faults
    /\ catalog' = outcome

HandleCombineWithoutCatalog(key, expired) ==
    /\ HandleCombine(key, expired)
    /\ EnsureCatalog("failed")
    /\ ClearBatch
    /\ UNCHANGED <<game, enabled, dialog, ui_rebuild_pending, history>>

\* an incomplete scan, or no pair in it
HandleCombineFindsNothing(key, expired) ==
    /\ HandleCombine(key, expired)
    /\ EnsureCatalog("loaded")
    /\ ~ScanComplete \/ Offered = <<>>
    /\ ClearBatch
    /\ UNCHANGED <<game, enabled, dialog, ui_rebuild_pending, history>>

HandleCombinePreviews(key, expired) ==
    /\ HandleCombine(key, expired)
    /\ EnsureCatalog("loaded")
    /\ ShowDialogs
    /\ ScanComplete /\ Offered # <<>>
    /\ busy' = TRUE
    /\ dialog' = TRUE
    /\ UNCHANGED <<game, enabled, batch, ui_rebuild_pending, history>>

(***************************************************************************)
(* The end of HandleCombine: seal the plan, then put away the placed       *)
(* copies it consumes, in its order, until one cannot be put away.         *)
(***************************************************************************)
RecallKeys(plan, last) ==
    {plan[n].consume_key : n \in {m \in 1..last : plan[m].consume_placed}}
Storable(c) ==
    CanStore(storage, SceneComponents, signatures, c.consume_key, c.item_id)
PiecesOf(keys) ==
    UNION {FindPieces(storage, SceneComponents, k) : k \in keys}

PutsAway(keys) ==
    /\ storage' = OutOfRooms(storage, keys)
    /\ components' = QueuedForDeletion(components, PiecesOf(keys))
    /\ UNCHANGED <<scene_readable, signatures, furniture_mode, stale_rows>>

Seals ==
    LET plan == Offered
        keys == RecallKeys(plan, Len(plan))
    IN  /\ ScanComplete /\ plan # <<>>
        /\ \A n \in DOMAIN plan : plan[n].consume_placed => Storable(plan[n])
        /\ candidates' = plan
        /\ next_index' = 0
        /\ stage' = "AwaitingFurnitureExit"
        /\ pending_components' = PiecesOf(keys)
        /\ PutsAway(keys)
        /\ busy' = TRUE
        /\ dialog' = FALSE
        /\ sealed_moves' = moves
        /\ UNCHANGED moves

\* keys were put away; of putting `key' away too, only some effects were seen:
\* its room is empty or not, its piece detached or not, and queued or not
PutsAwayInPart(keys, key) ==
    /\ storage' \in {OutOfRooms(storage, keys),
                     OutOfRooms(storage, keys \cup {key})}
    /\ \E detached, queued \in BOOLEAN :
          components' = [p \in Pieces |->
              IF p \in PiecesOf({key})
              THEN [entry |-> IF detached THEN Null ELSE components[p].entry,
                    delete_queued |-> queued]
              ELSE QueuedForDeletion(components, PiecesOf(keys))[p]]
    /\ UNCHANGED <<scene_readable, signatures, furniture_mode, stale_rows>>

\* the n-th pair's copy is not put away as it should
PutAwayFails(plan, n) ==
    \/ /\ ~Storable(plan[n])
       /\ PutsAway(RecallKeys(plan, n - 1))
    \/ /\ Storable(plan[n])
       /\ "store" \in Faults
       /\ \E last \in {n - 1, n} : PutsAway(RecallKeys(plan, last))
    \/ /\ Storable(plan[n])
       /\ "partial" \in Faults
       /\ PutsAwayInPart(RecallKeys(plan, n - 1), plan[n].consume_key)

SealFails ==
    LET plan == Offered
    IN  /\ ScanComplete /\ plan # <<>>
        /\ \E n \in DOMAIN plan :
              /\ plan[n].consume_placed
              /\ \A m \in 1..(n - 1) :
                    plan[m].consume_placed => Storable(plan[m])
              /\ PutAwayFails(plan, n)
        /\ ClearBatch
        /\ dialog' = FALSE
        /\ UNCHANGED history

HandleCombineSeals(key, expired) ==
    /\ HandleCombine(key, expired)
    /\ EnsureCatalog("loaded")
    /\ ~ShowDialogs
    /\ Seals
    /\ UNCHANGED <<enabled, ui_rebuild_pending>>

HandleCombineStoreFails(key, expired) ==
    /\ HandleCombine(key, expired)
    /\ EnsureCatalog("loaded")
    /\ ~ShowDialogs
    /\ SealFails
    /\ UNCHANGED <<enabled, ui_rebuild_pending>>

(***************************************************************************)
(* The confirmation is a modal message box: the frame that opened it goes  *)
(* on when the player answers, with a second scan.                         *)
(***************************************************************************)
DialogCancelled ==
    /\ dialog
    /\ dialog' = FALSE
    /\ ClearBatch
    /\ UNCHANGED <<game, enabled, catalog, request, ui_rebuild_pending,
                   history>>

DialogConfirmedTooLate ==
    /\ dialog
    /\ ~ScanComplete \/ Offered = <<>>
    /\ dialog' = FALSE
    /\ ClearBatch
    /\ UNCHANGED <<game, enabled, catalog, request, ui_rebuild_pending,
                   history>>

DialogConfirmed ==
    /\ dialog
    /\ Seals \/ SealFails
    /\ UNCHANGED <<enabled, catalog, request, ui_rebuild_pending>>
-----------------------------------------------------------------------------
(***************************************************************************)
(* ProcessBatch, the frame of a mod that is busy.                          *)
(***************************************************************************)
FrameOfBatch(key) ==
    /\ FrameBegins(key)
    /\ busy
    /\ UNCHANGED <<enabled, catalog, combine_requested, dialog, history>>

\* mutant of Unpurged: nothing is erased
UnpurgedForever == pending_components

\* SceneContainsComponent compares pointers, whatever is there now
Unpurged == {p \in pending_components : SceneComponents[p] # Gone}

AwaitPurge(key) ==
    /\ FrameOfBatch(key)
    /\ pending_components # {}
    /\ pending_components' = Unpurged
    /\ UNCHANGED <<game, busy, candidates, next_index, stage,
                   ui_rebuild_pending>>

StageFrame(key, at) ==
    /\ FrameOfBatch(key)
    /\ pending_components = {}
    /\ stage = at

ChangesStage(to) ==
    /\ stage' = to
    /\ UNCHANGED <<game, busy, candidates, next_index, pending_components,
                   ui_rebuild_pending>>

AwaitFurnitureExit(key) ==
    /\ StageFrame(key, "AwaitingFurnitureExit")
    /\ ChangesStage(IF FurnitureModeActive THEN "AwaitingFurnitureExit"
                                           ELSE "ConfirmingFurnitureExit")

ConfirmReopened(key) ==
    /\ StageFrame(key, "ConfirmingFurnitureExit")
    /\ FurnitureModeActive
    /\ ChangesStage("AwaitingFurnitureExit")

PlanStillValid ==
    /\ ScanComplete
    /\ RemainingCandidatesMatch(candidates, next_index, Offered)

ConfirmAccepts(key) ==
    /\ StageFrame(key, "ConfirmingFurnitureExit")
    /\ ~FurnitureModeActive
    /\ PlanStillValid
    /\ ChangesStage("Executing")

ConfirmRejects(key) ==
    /\ StageFrame(key, "ConfirmingFurnitureExit")
    /\ ~FurnitureModeActive
    /\ ~PlanStillValid
    /\ ClearBatch
    /\ UNCHANGED <<game, ui_rebuild_pending>>

Pause(key) ==
    /\ StageFrame(key, "Executing")
    /\ FurnitureModeActive
    /\ ChangesStage("AwaitingFurnitureExit")
-----------------------------------------------------------------------------
(***************************************************************************)
(* The rest of ProcessBatch: one pair.  That a pair is left (the test of   *)
(* lines 615-618) is the invariant BusyHasWork.                            *)
(***************************************************************************)
Candidate == candidates[next_index + 1]

CanPromote(c) ==
    IF c.promote_to_rare
    THEN CanSetRare(storage, signatures, c.keep_key, c.item_id,
                    c.keep_flags)
    ELSE CanSetEnhanced(storage, signatures, c.keep_key, c.item_id,
                        c.keep_flags, TRUE)

Promotion(c) == IF c.promote_to_rare THEN "rare" ELSE "enhanced"

Promoted(c) ==
    SetFlag(storage, FindEntry(storage, c.keep_key, c.item_id), Promotion(c))

ExecutesPair(key) ==
    /\ StageFrame(key, "Executing")
    /\ ~FurnitureModeActive
    /\ next_index < Len(candidates)

PromoteRefused(key) ==
    /\ ExecutesPair(key)
    /\ ~CanPromote(Candidate) \/ "promote" \in Faults
    /\ ClearBatch
    /\ UNCHANGED <<game, ui_rebuild_pending>>

\* the flag is written, but the call raises when it reads it back
PromoteRaises(key) ==
    /\ ExecutesPair(key)
    /\ CanPromote(Candidate)
    /\ "written" \in Faults
    /\ storage' = Promoted(Candidate)
    /\ stale_rows' = TRUE
    /\ ClearBatch
    /\ UNCHANGED <<components, scene_readable, signatures, furniture_mode,
                   ui_rebuild_pending>>

CanConsumeFrom(st, c) ==
    CanConsume(st, SceneComponents, signatures, c.consume_key, c.item_id,
               c.consume_flags)

PairCompleted(key) ==
    /\ ExecutesPair(key)
    /\ CanPromote(Candidate)
    /\ CanConsumeFrom(Promoted(Candidate), Candidate)
    /\ storage' = WithoutEntry(Promoted(Candidate), Candidate.consume_key)
    /\ stale_rows' = TRUE
    /\ UNCHANGED <<components, scene_readable, signatures, furniture_mode>>
    /\ IF next_index + 1 = Len(candidates)
       THEN ClearBatch /\ ui_rebuild_pending' = TRUE    \* FinishBatch
       ELSE /\ next_index' = next_index + 1
            /\ UNCHANGED <<busy, candidates, pending_components, stage,
                           ui_rebuild_pending>>

\* mutant of RolledBack: the flag stays
RolledBackNot(st, c) == st

RolledBack(st, c) ==
    ClearFlag(st, Clearable(st, SceneComponents, signatures, c.keep_key,
                            c.item_id), Promotion(c))

ConsumeFails(key) ==
    LET c == Candidate
        Left == \* what the failed call leaves of the storage
            (IF ~CanConsumeFrom(Promoted(c), c) \/ "delete" \in Faults
             THEN {Promoted(c)} ELSE {})
            \cup
            (IF CanConsumeFrom(Promoted(c), c) /\ "raise" \in Faults
             THEN {WithoutEntry(Promoted(c), c.consume_key)} ELSE {})
    IN  /\ ExecutesPair(key)
        /\ CanPromote(c)
        /\ \E left \in Left :
              storage' \in {RolledBack(left, c)} \cup
                             (IF "rollback" \in Faults THEN {left} ELSE {})
        /\ stale_rows' = (stale_rows \/ storage' # storage)
        /\ ClearBatch
        /\ UNCHANGED <<components, scene_readable, signatures,
                       furniture_mode, ui_rebuild_pending>>
-----------------------------------------------------------------------------
(***************************************************************************)
(* FurnitureModeEnterHook: the patches are checked again, the list is      *)
(* marked for rebuild if a finished batch asked for it, and the game opens *)
(* the screen.  An attempt that fails is repeated on the next entry.       *)
(* (`armed' is an attempt that found the list: FurnitureScreen has every   *)
(* outcome, and the rows one by one.)                                      *)
(***************************************************************************)
FurnitureModeEnterHook ==
    /\ ~furniture_mode
    /\ ~dialog
    /\ \E patched, armed \in BOOLEAN :
          /\ patched \/ "audit" \in Faults
          /\ armed => enabled /\ ui_rebuild_pending /\ patched
          /\ enabled /\ ui_rebuild_pending /\ patched =>
                armed \/ "arm" \in Faults
          /\ ui_rebuild_pending' = (ui_rebuild_pending /\ ~armed)
          /\ stale_rows' = (stale_rows /\ ~armed)
    /\ furniture_mode' = TRUE
    /\ UNCHANGED <<storage, components, scene_readable, signatures, enabled,
                   catalog, request, busy, dialog, batch, history>>

Shutdown ==
    /\ "shutdown" \in Faults
    /\ enabled
    /\ ~dialog
    /\ enabled' = FALSE
    /\ UNCHANGED <<game, catalog, request, busy, dialog, batch,
                   ui_rebuild_pending, history>>
-----------------------------------------------------------------------------
(***************************************************************************)
(* The game and the player, as far as the mod can tell: what they change   *)
(* between two hook calls.  None of this is code of the mod.               *)
(***************************************************************************)
LeaveFurnitureMode ==
    /\ furniture_mode
    /\ ~dialog
    /\ furniture_mode' = FALSE
    /\ UNCHANGED <<storage, components, scene_readable, signatures,
                   stale_rows, enabled, catalog, request, busy, dialog,
                   batch, ui_rebuild_pending, history>>

\* its component list is moved or replaced and cannot be read for a while
SceneReadabilityChanges ==
    /\ "scene" \in Faults
    /\ scene_readable' = ~scene_readable
    /\ UNCHANGED <<storage, components, signatures, furniture_mode,
                   stale_rows, enabled, catalog, request, busy, dialog,
                   batch, ui_rebuild_pending, history>>

\* the game removes the components queued for deletion
PurgeComponent(p) ==
    /\ components[p] # Gone
    /\ components[p].delete_queued
    /\ ~dialog
    /\ components' = [components EXCEPT ![p] = Gone]
    /\ UNCHANGED <<storage, scene_readable, signatures, furniture_mode,
                   stale_rows, enabled, catalog, request, busy, dialog,
                   batch, ui_rebuild_pending, history>>

Move ==
    /\ moves < MaxMoves
    /\ moves' = moves + 1
    /\ UNCHANGED <<scene_readable, furniture_mode, stale_rows, enabled,
                   catalog, request, busy, dialog, batch,
                   ui_rebuild_pending, sealed_moves>>

Showing(a) == {p \in Live(components) : components[p].entry = a}

\* a stored furniture is placed in the room the player sees
PlayerPlaces(a, p) ==
    /\ Move
    /\ furniture_mode /\ ~dialog
    /\ a \in Entries(storage) /\ ~storage[a].placed
    /\ components[p] = Gone
    /\ storage' = [storage EXCEPT ![a] = [@ EXCEPT !.placed = TRUE]]
    /\ components' =
          [components EXCEPT ![p] = [entry |-> a, delete_queued |-> FALSE]]
    /\ UNCHANGED signatures

PlayerPutsAway(p) ==
    /\ Move
    /\ furniture_mode /\ ~dialog
    /\ p \in Live(components)
    /\ components[p].entry \in Entries(storage)
    /\ storage' =
          [storage EXCEPT ![components[p].entry] = [@ EXCEPT !.placed = FALSE]]
    /\ components' = QueuedForDeletion(components, Showing(components[p].entry))
    /\ UNCHANGED signatures

\* a room is entered or left
GameLoadsPiece(a, p) ==
    /\ Move
    /\ a \in Entries(storage) /\ storage[a].placed /\ Showing(a) = {}
    /\ components[p] = Gone
    /\ components' =
          [components EXCEPT ![p] = [entry |-> a, delete_queued |-> FALSE]]
    /\ UNCHANGED <<storage, signatures>>

GameUnloadsPiece(p) ==
    /\ Move
    /\ p \in Live(components)
    /\ components' = [components EXCEPT ![p] = Gone]
    /\ UNCHANGED <<storage, signatures>>

\* furniture is bought or found, and lost
GameAcquires(a, key, item, flags) ==
    /\ Move
    /\ storage[a] = Free
    /\ Holding(storage, key) = {}
    /\ storage' = [storage EXCEPT ![a] =
          [stable_key |-> key, item_id |-> item, placed |-> FALSE,
           placement_flags |-> flags]]
    /\ UNCHANGED <<components, signatures>>

GameLoses(a) ==
    /\ Move
    /\ a \in Entries(storage)
    /\ storage' = [storage EXCEPT ![a] = Free]
    /\ components' = [p \in Pieces |->
          IF components[p] # Gone /\ components[p].entry = a
          THEN Gone ELSE components[p]]
    /\ UNCHANGED signatures

\* the flags of a furniture change without the mod
GameConverts(a, flags) ==
    /\ Move
    /\ a \in Entries(storage) /\ storage[a].placement_flags # flags
    /\ storage' =
          [storage EXCEPT ![a] = [@ EXCEPT !.placement_flags = flags]]
    /\ UNCHANGED <<components, signatures>>

EntryBecomesUnreadable(a) ==
    /\ "garbage" \in Faults
    /\ Move
    /\ a \in Entries(storage)
    /\ storage' = [storage EXCEPT ![a] = Garbage]
    /\ UNCHANGED <<components, signatures>>

CodeIsPatched ==
    /\ "patch" \in Faults
    /\ Move
    /\ signatures' = ~signatures
    /\ UNCHANGED <<storage, components>>
-----------------------------------------------------------------------------
SceneReadyHook ==
    \E key, expired \in BOOLEAN :
        \/ FrameIdle(key, expired)
        \/ HandleCombineWithoutCatalog(key, expired)
        \/ HandleCombineFindsNothing(key, expired)
        \/ HandleCombinePreviews(key, expired)
        \/ HandleCombineSeals(key, expired)
        \/ HandleCombineStoreFails(key, expired)
        \/ AwaitPurge(key)
        \/ AwaitFurnitureExit(key)
        \/ ConfirmReopened(key)
        \/ ConfirmAccepts(key)
        \/ ConfirmRejects(key)
        \/ Pause(key)
        \/ PromoteRefused(key)
        \/ PromoteRaises(key)
        \/ PairCompleted(key)
        \/ ConsumeFails(key)

Dialog == DialogCancelled \/ DialogConfirmedTooLate \/ DialogConfirmed

Outside ==
    \/ LeaveFurnitureMode
    \/ SceneReadabilityChanges
    \/ \E p \in Pieces :
          PurgeComponent(p) \/ PlayerPutsAway(p) \/ GameUnloadsPiece(p)
    \/ \E a \in Addresses, p \in Pieces :
          PlayerPlaces(a, p) \/ GameLoadsPiece(a, p)
    \/ \E a \in Addresses : GameLoses(a) \/ EntryBecomesUnreadable(a)
    \/ \E a \in Addresses, flags \in {{}, {"rare"}} :
          GameConverts(a, flags)
    \/ \E a \in Addresses, key \in Keys \ {0}, item \in Items,
          flags \in {{}, {"rare"}} : GameAcquires(a, key, item, flags)
    \/ CodeIsPatched

Next ==
    \/ SceneReadyHook
    \/ Dialog
    \/ FurnitureModeEnterHook
    \/ Shutdown
    \/ Outside

Spec == Init /\ [][Next]_vars

(***************************************************************************)
(* The game calls the hook on every frame and purges what is queued.  A    *)
(* frame is possible exactly while `enabled /\ ~dialog' (one with another  *)
(* state of the hotkey changes hotkey_down at least), so the first formula *)
(* is WF_vars(SceneReadyHook), written without its ENABLED because TLC     *)
(* evaluates FindCandidates too slowly inside an ENABLED.                  *)
(***************************************************************************)
Fairness ==
    /\ <>[](enabled /\ ~dialog) => []<><<SceneReadyHook>>_vars
    /\ \A p \in Pieces : WF_vars(PurgeComponent(p))

FairSpec == Spec /\ Fairness
-----------------------------------------------------------------------------
TypeOK ==
    /\ storage \in Storage
    /\ components \in Components
    /\ scene_readable \in BOOLEAN
    /\ signatures \in BOOLEAN
    /\ furniture_mode \in BOOLEAN
    /\ stale_rows \in BOOLEAN
    /\ enabled \in BOOLEAN
    /\ catalog \in {"unread", "loaded", "failed"}
    /\ hotkey_down \in BOOLEAN
    /\ combine_requested \in BOOLEAN
    /\ busy \in BOOLEAN
    /\ dialog \in BOOLEAN
    /\ candidates \in Seq(CombineCandidate)
    /\ next_index \in Nat
    /\ pending_components \subseteq Pieces
    /\ stage \in Stage
    /\ ui_rebuild_pending \in BOOLEAN
    /\ moves \in 0..MaxMoves
    /\ sealed_moves \in 0..MaxMoves

(***************************************************************************)
(* g_busy and g_batch agree: an idle mod holds no batch, a batch at work   *)
(* has a pair left (so lines 615-618 of ProcessBatch never finish one),    *)
(* waits for put-away pieces only before it was ever validated, and no     *)
(* request is remembered that would start another batch right after it.    *)
(***************************************************************************)
IdleIsClean ==
    ~busy \/ dialog =>
        /\ candidates = <<>> /\ next_index = 0
        /\ pending_components = {}
        /\ stage = "AwaitingFurnitureExit"
BusyHasWork == busy /\ ~dialog => next_index < Len(candidates)
PendingOnlyBeforeFirstPair ==
    pending_components # {} =>
        stage = "AwaitingFurnitureExit" /\ next_index = 0
NoRequestWhileBusy == busy => ~combine_requested
DialogIsBusy == dialog => busy /\ furniture_mode

BatchShape ==
    /\ IdleIsClean
    /\ BusyHasWork
    /\ PendingOnlyBeforeFirstPair
    /\ NoRequestWhileBusy
    /\ DialogIsBusy

(***************************************************************************)
(* What is sealed stays a plan for as long as the batch lives: two copies  *)
(* of one item with the same flags, to be made rare or, when they already  *)
(* are, enhanced, and no furniture in two pairs.                           *)
(***************************************************************************)
SealedPairsAreMerges ==
    \A n \in DOMAIN candidates : PairIsMerge(candidates[n])
SealedPairsAreDisjoint ==
    \A m, n \in DOMAIN candidates :
        m # n => {candidates[m].keep_key, candidates[m].consume_key}
            \cap {candidates[n].keep_key, candidates[n].consume_key} = {}

SealedPlanIsSound ==
    /\ SealedPairsAreMerges
    /\ SealedPairsAreDisjoint

(***************************************************************************)
(* No loaded piece is left pointing at an entry that is gone, or at one    *)
(* that is in no room: Store detaches the piece from the entry it takes    *)
(* out of the room, and Consume refuses a furniture that a piece shows.    *)
(* (Unless the game's "put away" stops half way: "partial".)               *)
(***************************************************************************)
PiecesShowPlaced == ShowsPlaced(storage, components)

(***************************************************************************)
(* With a component list that cannot always be read, the test of the piece *)
(* count no longer protects a furniture (cdf_find_piece finds none, and    *)
(* cdf_native_furniture_mode_active answers 0 while the player is placing  *)
(* it); but a piece loses its entry only in a frame that cannot read the   *)
(* list: what an earlier frame missed is noticed by a later one, and what  *)
(* a put-away left half done is noticed too.                               *)
(* (native_api.c:696-733, 772-785, 1102, 1222-1226)                        *)
(***************************************************************************)
NoPieceDangles ==
    \A p \in Live(components) :
        components[p].entry # Null => storage[components[p].entry] # Free

DanglesOnlyBlind ==
    [][NoPieceDangles /\ ~NoPieceDangles' => ~scene_readable]_vars
=============================================================================
