--------------------------- MODULE CombineBatchProofs ---------------------------
(***************************************************************************)
(* The batch for every store, catalogue, set of faults and number of       *)
(* moves.  Invariants: the types, the agreement of g_busy with g_batch,    *)
(* that what is sealed stays a plan of disjoint merges, and that every     *)
(* loaded piece shows furniture of its room.  Steps: no frame that can     *)
(* read the component list takes the entry from a piece; the worth of the  *)
(* furniture changes by one copy at most, in a step that stops the batch;  *)
(* a batch that nobody disturbs is not stopped; and where the calls into   *)
(* the game fail cleanly every step is one of Ledger.                      *)
(***************************************************************************)
EXTENDS BatchProperties, NativeStoreProofs

(***************************************************************************)
(* What hooks read of the scene has its type; the storage is written in    *)
(* five ways only, each of which keeps its type.                           *)
(***************************************************************************)
LEMMA SceneComponentsAreComponents ==
    ASSUME TypeOK
    PROVE  SceneComponents \in Components
BY DEF TypeOK, SceneComponents, Components

LEMMA OfferedArePlans ==
    ASSUME TypeOK
    PROVE  Offered \in Seq(Merges) /\ Offered \in Seq(CombineCandidate)
<1>1. Offered \in Seq(Merges)
  BY SceneComponentsAreComponents, PlanOfScan DEF TypeOK, Offered, Present
<1>2. Merges \subseteq CombineCandidate
  BY DEF Merges
<1> QED BY <1>1, <1>2

LEMMA PutsAwayTypes ==
    ASSUME TypeOK, NEW keys, PutsAway(keys)
    PROVE  storage' \in Storage /\ components' \in Components
BY OutOfRoomsStorage, QueuedComponents DEF TypeOK, PutsAway

LEMMA PiecesOfArePieces ==
    ASSUME NEW keys
    PROVE  PiecesOf(keys) \subseteq Pieces
BY FindPiecesFindsPieces DEF PiecesOf

LEMMA PromotedIsStorage ==
    ASSUME TypeOK, NEW c
    PROVE  Promoted(c) \in Storage
<1>1. Promotion(c) \in Flag
  BY DEF Promotion, Flag
<1> QED BY <1>1, FlaggedStorage, FindEntryFindsEntries DEF TypeOK, Promoted

LEMMA RolledBackIsStorage ==
    ASSUME TypeOK, NEW st \in Storage, NEW c
    PROVE  RolledBack(st, c) \in Storage
<1>1. Promotion(c) \in Flag
  BY DEF Promotion, Flag
<1> QED BY <1>1, FlaggedStorage, ClearableAreEntries DEF RolledBack
-----------------------------------------------------------------------------

LEMMA ClearedTypes ==
    ASSUME ClearBatch
    PROVE  /\ candidates' \in Seq(CombineCandidate)
           /\ next_index' \in Nat
           /\ pending_components' \subseteq Pieces
           /\ stage' \in Stage
           /\ busy' \in BOOLEAN
<1>1. <<>> \in Seq(CombineCandidate)
  OBVIOUS
<1> QED BY <1>1 DEF ClearBatch, Stage
LEMMA SealsTypes ==
    ASSUME TypeOK, Seals
    PROVE  /\ storage' \in Storage /\ components' \in Components
           /\ candidates' \in Seq(CombineCandidate)
           /\ pending_components' \subseteq Pieces
           /\ sealed_moves' \in 0..MaxMoves
<1> DEFINE keys == RecallKeys(Offered, Len(Offered))
<1>1. PutsAway(keys) /\ candidates' = Offered
      /\ pending_components' = PiecesOf(keys) /\ sealed_moves' = moves
  BY DEF Seals
<1> HIDE DEF keys
<1>2. storage' \in Storage /\ components' \in Components
  BY <1>1, PutsAwayTypes
<1> QED BY <1>1, <1>2, OfferedArePlans, PiecesOfArePieces DEF TypeOK

\* A put-away that fails has its effect on some copies, or on a last one of
\* them a part of it.
LEMMA SealFailsCases ==
    ASSUME SealFails
    PROVE  \/ \E keys : PutsAway(keys)
           \/ /\ "partial" \in Faults
              /\ \E keys, key : PutsAwayInPart(keys, key)
BY DEF SealFails, PutAwayFails

LEMMA SealFailsStores ==
    ASSUME SealFails
    PROVE  /\ \E keys : storage' = OutOfRooms(storage, keys)
           /\ scene_readable' = scene_readable
           /\ signatures' = signatures
           /\ furniture_mode' = furniture_mode
           /\ stale_rows' = stale_rows
<1>1. CASE \E keys : PutsAway(keys)
  BY <1>1 DEF PutsAway
<1>2. CASE \E keys, key : PutsAwayInPart(keys, key)
  <2>1. PICK keys, key : PutsAwayInPart(keys, key)
    BY <1>2
  <2>2. \/ storage' = OutOfRooms(storage, keys)
        \/ storage' = OutOfRooms(storage, keys \cup {key})
    BY <2>1 DEF PutsAwayInPart
  <2> QED BY <2>1, <2>2 DEF PutsAwayInPart
<1> QED BY <1>1, <1>2, SealFailsCases

\* A piece that was found is in the component list, and no flag of the rest
\* of the list is invented.
LEMMA FoundPiecesAreLive ==
    ASSUME TypeOK, NEW keys, NEW p \in PiecesOf(keys)
    PROVE  /\ scene_readable /\ p \in Live(components)
           /\ components[p] \in Piece
<1>1. p \in Live(SceneComponents)
  BY DEF PiecesOf, FindPieces
<1>2. scene_readable
  BY <1>1 DEF SceneComponents, Live
<1>3. p \in Live(components)
  BY <1>1, <1>2 DEF SceneComponents
<1> QED BY <1>2, <1>3 DEF TypeOK, Components, Live

LEMMA PartComponents ==
    ASSUME TypeOK, NEW keys, NEW key, PutsAwayInPart(keys, key)
    PROVE  components' \in Components
<1>1. PICK detached \in BOOLEAN, queued \in BOOLEAN :
         components' = [p \in Pieces |->
              IF p \in PiecesOf({key})
              THEN [entry |-> IF detached THEN Null ELSE components[p].entry,
                    delete_queued |-> queued]
              ELSE QueuedForDeletion(components, PiecesOf(keys))[p]]
  BY DEF PutsAwayInPart
<1>2. QueuedForDeletion(components, PiecesOf(keys)) \in Components
  BY QueuedComponents DEF TypeOK
<1>3. ASSUME NEW p \in PiecesOf({key})
      PROVE  [entry |-> IF detached THEN Null ELSE components[p].entry,
              delete_queued |-> queued] \in Piece
  <2>1. components[p] \in Piece
    BY FoundPiecesAreLive
  <2> QED BY <2>1 DEF Piece
<1> QED BY <1>1, <1>2, <1>3 DEF Components

LEMMA SealFailsTypes ==
    ASSUME TypeOK, SealFails
    PROVE  storage' \in Storage /\ components' \in Components
<1>1. storage' \in Storage
  BY SealFailsStores, OutOfRoomsStorage DEF TypeOK
<1>2. components' \in Components
  BY SealFailsCases, PutsAwayTypes, PartComponents
<1> QED BY <1>1, <1>2

(***************************************************************************)
(* The variables of a frame, of the mod and of the game have the types of  *)
(* the program's: TypeOK survives every step.                              *)
(***************************************************************************)
LEMMA TypeOKStep == TypeOK /\ [Next]_vars => TypeOK'
<1> SUFFICES ASSUME TypeOK, [Next]_vars
             PROVE  TypeOK'
  OBVIOUS
<1> USE DEF TypeOK, game, batch, request, history
<1>1. ASSUME NEW key \in BOOLEAN, NEW expired \in BOOLEAN,
             FrameIdle(key, expired)
      PROVE  TypeOK'
  BY <1>1 DEF FrameIdle, FrameBegins, Requested, Pressed
<1>2. ASSUME NEW key \in BOOLEAN, NEW expired \in BOOLEAN,
             \/ HandleCombineWithoutCatalog(key, expired)
             \/ HandleCombineFindsNothing(key, expired)
      PROVE  TypeOK'
  BY <1>2, ClearedTypes
  DEF HandleCombineWithoutCatalog, HandleCombineFindsNothing, HandleCombine,
      FrameBegins, EnsureCatalog
<1>3. ASSUME NEW key \in BOOLEAN, NEW expired \in BOOLEAN,
             HandleCombinePreviews(key, expired)
      PROVE  TypeOK'
  BY <1>3 DEF HandleCombinePreviews, HandleCombine, FrameBegins,
              EnsureCatalog
<1>4. ASSUME NEW key \in BOOLEAN, NEW expired \in BOOLEAN,
             HandleCombineSeals(key, expired)
      PROVE  TypeOK'
  <2>1. Seals
    BY <1>4 DEF HandleCombineSeals
  <2>2. /\ signatures' = signatures /\ furniture_mode' = furniture_mode
        /\ scene_readable' = scene_readable
        /\ stale_rows' = stale_rows /\ next_index' = 0
        /\ stage' = "AwaitingFurnitureExit" /\ busy' = TRUE
        /\ dialog' = FALSE /\ moves' = moves
    BY <2>1 DEF Seals, PutsAway
  <2> QED BY <1>4, <2>1, <2>2, SealsTypes
        DEF HandleCombineSeals, HandleCombine, FrameBegins, EnsureCatalog,
            Stage
<1>5. ASSUME NEW key \in BOOLEAN, NEW expired \in BOOLEAN,
             HandleCombineStoreFails(key, expired)
      PROVE  TypeOK'
  <2>1. SealFails
    BY <1>5 DEF HandleCombineStoreFails
  <2>2. /\ signatures' = signatures /\ furniture_mode' = furniture_mode
        /\ scene_readable' = scene_readable
        /\ stale_rows' = stale_rows /\ dialog' = FALSE
        /\ moves' = moves /\ sealed_moves' = sealed_moves /\ ClearBatch
    BY <2>1, SealFailsStores DEF SealFails
  <2> QED BY <1>5, <2>1, <2>2, SealFailsTypes, ClearedTypes
        DEF HandleCombineStoreFails, HandleCombine, FrameBegins,
            EnsureCatalog
<1>6. ASSUME NEW key \in BOOLEAN,
             \/ AwaitPurge(key) \/ AwaitFurnitureExit(key)
             \/ ConfirmReopened(key) \/ ConfirmAccepts(key)
             \/ ConfirmRejects(key) \/ Pause(key) \/ PromoteRefused(key)
             \/ PromoteRaises(key)
      PROVE  TypeOK'
  <2>1. CASE AwaitPurge(key)
    BY <2>1 DEF AwaitPurge, Unpurged, FrameOfBatch, FrameBegins
  <2>2. CASE \/ AwaitFurnitureExit(key) \/ ConfirmReopened(key)
             \/ ConfirmAccepts(key) \/ Pause(key)
    BY <2>2
    DEF AwaitFurnitureExit, ConfirmReopened, ConfirmAccepts, Pause,
        StageFrame, FrameOfBatch, FrameBegins, ChangesStage, Stage
  <2>3. CASE ConfirmRejects(key) \/ PromoteRefused(key)
    BY <2>3, ClearedTypes
    DEF ConfirmRejects, PromoteRefused, ExecutesPair, StageFrame,
        FrameOfBatch, FrameBegins
  <2>4. CASE PromoteRaises(key)
    <3>1. storage' \in Storage
      BY <2>4, PromotedIsStorage DEF PromoteRaises
    <3> QED BY <2>4, <3>1, ClearedTypes
            DEF PromoteRaises, ExecutesPair, StageFrame, FrameOfBatch,
                FrameBegins
  <2> QED BY <1>6, <2>1, <2>2, <2>3, <2>4
<1>7. ASSUME NEW key \in BOOLEAN, PairCompleted(key)
      PROVE  TypeOK'
  <2>1. storage' \in Storage
    BY <1>7, PromotedIsStorage, WithoutEntryStorage DEF PairCompleted
  <2>2. /\ UNCHANGED <<components, scene_readable, signatures,
                       furniture_mode, enabled, catalog, combine_requested,
                       dialog, history>>
        /\ stale_rows' = TRUE /\ hotkey_down' = key
    BY <1>7 DEF PairCompleted, ExecutesPair, StageFrame, FrameOfBatch,
                FrameBegins
  <2>3. CASE next_index + 1 = Len(candidates)
    <3>1. ClearBatch /\ ui_rebuild_pending' = TRUE
      BY <1>7, <2>3 DEF PairCompleted
    <3> QED BY <2>1, <2>2, <3>1, ClearedTypes
  <2>4. CASE next_index + 1 # Len(candidates)
    <3>1. /\ next_index' = next_index + 1
          /\ UNCHANGED <<busy, candidates, pending_components, stage,
                         ui_rebuild_pending>>
      BY <1>7, <2>4 DEF PairCompleted
    <3> QED BY <2>1, <2>2, <3>1
  <2> QED BY <2>3, <2>4
<1>8. ASSUME NEW key \in BOOLEAN, ConsumeFails(key)
      PROVE  TypeOK'
  <2>1. PICK left \in {Promoted(Candidate),
                       WithoutEntry(Promoted(Candidate),
                                    Candidate.consume_key)} :
           storage' = RolledBack(left, Candidate) \/ storage' = left
    BY <1>8 DEF ConsumeFails
  <2>2. left \in Storage
    BY PromotedIsStorage, WithoutEntryStorage
  <2>3. storage' \in Storage
    BY <2>1, <2>2, RolledBackIsStorage
  <2>4. /\ UNCHANGED <<components, scene_readable, signatures,
                       furniture_mode, ui_rebuild_pending>>
        /\ ClearBatch /\ ExecutesPair(key)
        /\ stale_rows' \in BOOLEAN
    BY <1>8 DEF ConsumeFails
  <2> QED BY <2>3, <2>4, ClearedTypes
        DEF ExecutesPair, StageFrame, FrameOfBatch, FrameBegins
<1>9. CASE DialogCancelled \/ DialogConfirmedTooLate
  BY <1>9, ClearedTypes DEF DialogCancelled, DialogConfirmedTooLate
<1>10. CASE DialogConfirmed
  <2>1. UNCHANGED <<enabled, catalog, request, ui_rebuild_pending>>
    BY <1>10 DEF DialogConfirmed
  <2>2. CASE Seals
    <3>1. /\ signatures' = signatures /\ furniture_mode' = furniture_mode
          /\ scene_readable' = scene_readable
          /\ stale_rows' = stale_rows /\ next_index' = 0
          /\ stage' = "AwaitingFurnitureExit" /\ busy' = TRUE
          /\ dialog' = FALSE /\ moves' = moves
      BY <2>2 DEF Seals, PutsAway
    <3> QED BY <2>1, <2>2, <3>1, SealsTypes DEF Stage
  <2>3. CASE SealFails
    <3>1. /\ signatures' = signatures /\ furniture_mode' = furniture_mode
          /\ scene_readable' = scene_readable
          /\ stale_rows' = stale_rows /\ dialog' = FALSE
          /\ moves' = moves /\ sealed_moves' = sealed_moves /\ ClearBatch
      BY <2>3, SealFailsStores DEF SealFails
    <3> QED BY <2>1, <2>3, <3>1, SealFailsTypes, ClearedTypes
  <2> QED BY <1>10, <2>2, <2>3 DEF DialogConfirmed
<1>11. CASE FurnitureModeEnterHook
  BY <1>11 DEF FurnitureModeEnterHook
<1>12. CASE Shutdown
  BY <1>12 DEF Shutdown
<1>13. CASE LeaveFurnitureMode \/ SceneReadabilityChanges
  <2>1. CASE LeaveFurnitureMode
    BY <2>1 DEF LeaveFurnitureMode
  <2>2. CASE SceneReadabilityChanges
    BY <2>2 DEF SceneReadabilityChanges
  <2> QED BY <1>13, <2>1, <2>2
<1>14. ASSUME NEW p \in Pieces, PurgeComponent(p)
       PROVE  TypeOK'
  BY <1>14 DEF PurgeComponent, Components
<1>15. ASSUME Move, storage' \in Storage, components' \in Components,
              signatures' \in BOOLEAN
       PROVE  TypeOK'
  BY <1>15, MaxMovesAssumption DEF Move
<1>16. ASSUME NEW p \in Pieces, PlayerPutsAway(p) \/ GameUnloadsPiece(p)
       PROVE  TypeOK'
  <2>1. CASE PlayerPutsAway(p)
    <3>1. storage[components[p].entry] \in Entry
      BY <2>1, EntriesAreEntries DEF PlayerPutsAway
    <3>2. storage' \in Storage
      BY <2>1, <3>1 DEF PlayerPutsAway, Storage, Entry
    <3> QED BY <2>1, <3>2, <1>15, QueuedComponents DEF PlayerPutsAway
  <2>2. CASE GameUnloadsPiece(p)
    <3>1. components' \in Components
      BY <2>2 DEF GameUnloadsPiece, Components
    <3> QED BY <2>2, <3>1, <1>15 DEF GameUnloadsPiece
  <2> QED BY <1>16, <2>1, <2>2
<1>17. ASSUME NEW a \in Addresses, NEW p \in Pieces,
              PlayerPlaces(a, p) \/ GameLoadsPiece(a, p)
       PROVE  TypeOK'
  <2>1. components' \in Components
    <3>1. components' = [components EXCEPT
                            ![p] = [entry |-> a, delete_queued |-> FALSE]]
      BY <1>17 DEF PlayerPlaces, GameLoadsPiece
    <3>2. [entry |-> a, delete_queued |-> FALSE] \in Piece
      BY DEF Piece
    <3> QED BY <3>1, <3>2 DEF Components
  <2>2. storage[a] \in Entry
    BY <1>17, EntriesAreEntries DEF PlayerPlaces, GameLoadsPiece
  <2>3. storage' \in Storage
    BY <1>17, <2>2 DEF PlayerPlaces, GameLoadsPiece, Storage, Entry
  <2> QED BY <1>17, <2>1, <2>3, <1>15 DEF PlayerPlaces, GameLoadsPiece
<1>18. ASSUME NEW a \in Addresses, GameLoses(a) \/ EntryBecomesUnreadable(a)
       PROVE  TypeOK'
  <2>1. components' \in Components
    BY <1>18 DEF GameLoses, EntryBecomesUnreadable, Components
  <2>2. storage' \in Storage
    BY <1>18 DEF GameLoses, EntryBecomesUnreadable, Storage
  <2> QED BY <1>18, <2>1, <2>2, <1>15 DEF GameLoses, EntryBecomesUnreadable
<1>19. ASSUME NEW a \in Addresses, NEW flags \in {{}, {"rare"}},
              GameConverts(a, flags)
       PROVE  TypeOK'
  <2>1. storage[a] \in Entry /\ flags \in Flags
    BY <1>19, EntriesAreEntries DEF GameConverts, Flags, Flag
  <2>2. storage' \in Storage
    BY <1>19, <2>1 DEF GameConverts, Storage, Entry
  <2> QED BY <1>19, <2>2, <1>15 DEF GameConverts
<1>20. ASSUME NEW a \in Addresses, NEW k \in Keys \ {0}, NEW item \in Items,
              NEW flags \in {{}, {"rare"}}, GameAcquires(a, k, item, flags)
       PROVE  TypeOK'
  <2>1. flags \in Flags
    BY DEF Flags, Flag
  <2>2. storage' \in Storage
    BY <1>20, <2>1 DEF GameAcquires, Storage, Entry
  <2> QED BY <1>20, <2>2, <1>15 DEF GameAcquires
<1>21. CASE CodeIsPatched
  BY <1>21, <1>15 DEF CodeIsPatched
<1>22. CASE UNCHANGED vars
  BY <1>22 DEF vars
<1> HIDE DEF TypeOK
<1> QED
  BY <1>1, <1>2, <1>3, <1>4, <1>5, <1>6, <1>7, <1>8, <1>9, <1>10, <1>11,
     <1>12, <1>13, <1>14, <1>16, <1>17, <1>18, <1>19, <1>20, <1>21, <1>22
  DEF Next, SceneReadyHook, Dialog, Outside

LEMMA TypeOKInit == Init => TypeOK
<1> SUFFICES ASSUME Init
             PROVE  TypeOK
  OBVIOUS
<1>1. storage \in Storage /\ components \in Components
  BY InitialStoresAssumption DEF Init
<1>2. candidates \in Seq(CombineCandidate)
  <2>1. <<>> \in Seq(CombineCandidate)
    OBVIOUS
  <2> QED BY <2>1 DEF Init
<1>3. moves \in 0..MaxMoves /\ sealed_moves \in 0..MaxMoves
  BY MaxMovesAssumption DEF Init
<1>4. /\ signatures \in BOOLEAN /\ furniture_mode \in BOOLEAN
      /\ scene_readable \in BOOLEAN
      /\ stale_rows \in BOOLEAN /\ enabled \in BOOLEAN
      /\ catalog \in {"unread", "loaded", "failed"}
      /\ hotkey_down \in BOOLEAN /\ combine_requested \in BOOLEAN
      /\ busy \in BOOLEAN /\ dialog \in BOOLEAN
      /\ next_index \in Nat /\ pending_components \subseteq Pieces
      /\ stage \in Stage /\ ui_rebuild_pending \in BOOLEAN
  BY DEF Init, Stage
<1> QED BY <1>1, <1>2, <1>3, <1>4 DEF TypeOK

\* The variables keep their types, whatever fails and whatever the game does.
THEOREM TypeCorrect == Spec => []TypeOK
BY TypeOKInit, TypeOKStep, PTL DEF Spec
-----------------------------------------------------------------------------
(***************************************************************************)
(* BatchShape: what the mod's steps leave of the flag and of the batch is  *)
(* one of three things: all of it, nothing, or a newly sealed plan.        *)
(***************************************************************************)
LEMMA ShapeOfCleared ==
    ASSUME ClearBatch, dialog' = FALSE
    PROVE  BatchShape'
BY DEF ClearBatch, BatchShape, IdleIsClean, BusyHasWork,
       PendingOnlyBeforeFirstPair, NoRequestWhileBusy, DialogIsBusy

LEMMA ShapeOfSealed ==
    ASSUME TypeOK, Seals, combine_requested' = FALSE
    PROVE  BatchShape'
<1>1. /\ candidates' = Offered /\ Offered # <<>> /\ next_index' = 0
      /\ stage' = "AwaitingFurnitureExit" /\ busy' = TRUE /\ dialog' = FALSE
  BY DEF Seals
<1>2. 0 < Len(Offered)
  BY <1>1, OfferedArePlans
<1> QED BY <1>1, <1>2
        DEF BatchShape, IdleIsClean, BusyHasWork,
            PendingOnlyBeforeFirstPair, NoRequestWhileBusy, DialogIsBusy

LEMMA ShapeOfKept ==
    ASSUME BatchShape, UNCHANGED <<busy, dialog, batch>>,
           busy' => ~combine_requested', dialog' => furniture_mode'
    PROVE  BatchShape'
BY DEF batch, BatchShape, IdleIsClean, BusyHasWork,
       PendingOnlyBeforeFirstPair, NoRequestWhileBusy, DialogIsBusy

LEMMA BatchShapeStep == TypeOK /\ BatchShape /\ [Next]_vars => BatchShape'
<1> SUFFICES ASSUME TypeOK, BatchShape, [Next]_vars
             PROVE  BatchShape'
  OBVIOUS
<1>0. (busy => ~combine_requested) /\ (dialog => busy /\ furniture_mode)
  BY DEF BatchShape, NoRequestWhileBusy, DialogIsBusy
<1>1. ASSUME NEW key \in BOOLEAN, NEW expired \in BOOLEAN,
             FrameIdle(key, expired)
      PROVE  BatchShape'
  BY <1>0, <1>1, ShapeOfKept DEF FrameIdle, FrameBegins, game
<1>2. ASSUME NEW key \in BOOLEAN, NEW expired \in BOOLEAN,
             \/ HandleCombineWithoutCatalog(key, expired)
             \/ HandleCombineFindsNothing(key, expired)
      PROVE  BatchShape'
  <2>1. ClearBatch /\ dialog' = FALSE
    BY <1>2 DEF HandleCombineWithoutCatalog, HandleCombineFindsNothing,
                HandleCombine, FrameBegins, TypeOK
  <2> QED BY <2>1, ShapeOfCleared
<1>3. ASSUME NEW key \in BOOLEAN, NEW expired \in BOOLEAN,
             HandleCombinePreviews(key, expired)
      PROVE  BatchShape'
  BY <1>3 DEF HandleCombinePreviews, HandleCombine, FrameBegins, batch, game,
              FurnitureModeActive, BatchShape, IdleIsClean, BusyHasWork,
              PendingOnlyBeforeFirstPair, NoRequestWhileBusy, DialogIsBusy
<1>4. ASSUME NEW key \in BOOLEAN, NEW expired \in BOOLEAN,
             \/ HandleCombineSeals(key, expired)
             \/ HandleCombineStoreFails(key, expired)
      PROVE  BatchShape'
  <2>1. combine_requested' = FALSE
    BY <1>4 DEF HandleCombineSeals, HandleCombineStoreFails, HandleCombine
  <2>2. Seals \/ (ClearBatch /\ dialog' = FALSE)
    BY <1>4 DEF HandleCombineSeals, HandleCombineStoreFails, SealFails
  <2> QED BY <2>1, <2>2, ShapeOfSealed, ShapeOfCleared
<1>5. ASSUME NEW key \in BOOLEAN,
             \/ AwaitPurge(key) \/ AwaitFurnitureExit(key)
             \/ ConfirmReopened(key) \/ ConfirmAccepts(key) \/ Pause(key)
      PROVE  BatchShape'
  <2>1. CASE AwaitPurge(key)
    BY <2>1 DEF AwaitPurge, Unpurged, FrameOfBatch, FrameBegins, game,
                BatchShape, IdleIsClean, BusyHasWork,
                PendingOnlyBeforeFirstPair, NoRequestWhileBusy, DialogIsBusy
  <2>2. CASE \/ AwaitFurnitureExit(key) \/ ConfirmReopened(key)
             \/ ConfirmAccepts(key) \/ Pause(key)
    BY <2>2
    DEF AwaitFurnitureExit, ConfirmReopened, ConfirmAccepts, Pause,
        StageFrame, FrameOfBatch, FrameBegins, ChangesStage, game,
        BatchShape, IdleIsClean, BusyHasWork, PendingOnlyBeforeFirstPair,
        NoRequestWhileBusy, DialogIsBusy
  <2> QED BY <1>5, <2>1, <2>2
<1>6. ASSUME NEW key \in BOOLEAN,
             \/ ConfirmRejects(key) \/ PromoteRefused(key)
             \/ PromoteRaises(key) \/ ConsumeFails(key)
      PROVE  BatchShape'
  <2>1. ClearBatch /\ dialog' = FALSE
    BY <1>6 DEF ConfirmRejects, PromoteRefused, PromoteRaises, ConsumeFails,
                ExecutesPair, StageFrame, FrameOfBatch, FrameBegins, TypeOK
  <2> QED BY <2>1, ShapeOfCleared
<1>7. ASSUME NEW key \in BOOLEAN, PairCompleted(key)
      PROVE  BatchShape'
  <2>1. /\ busy = TRUE /\ dialog = FALSE /\ dialog' = dialog
        /\ combine_requested' = combine_requested
        /\ pending_components = {} /\ next_index < Len(candidates)
    BY <1>7 DEF PairCompleted, ExecutesPair, StageFrame, FrameOfBatch,
                FrameBegins, TypeOK
  <2>2. CASE next_index + 1 = Len(candidates)
    BY <1>7, <2>1, <2>2, ShapeOfCleared DEF PairCompleted
  <2>3. CASE next_index + 1 # Len(candidates)
    <3>1. /\ next_index' = next_index + 1
          /\ UNCHANGED <<busy, candidates, pending_components, stage>>
      BY <1>7, <2>3 DEF PairCompleted
    <3>2. next_index + 1 < Len(candidates)
      <4>1. next_index \in Nat /\ Len(candidates) \in Nat
        BY DEF TypeOK
      <4> QED BY <2>1, <2>3, <4>1
    <3> QED BY <1>0, <2>1, <3>1, <3>2
            DEF BatchShape, IdleIsClean, BusyHasWork,
                PendingOnlyBeforeFirstPair, NoRequestWhileBusy, DialogIsBusy
  <2> QED BY <2>2, <2>3
<1>8. CASE DialogCancelled \/ DialogConfirmedTooLate
  BY <1>8, ShapeOfCleared DEF DialogCancelled, DialogConfirmedTooLate
<1>9. CASE DialogConfirmed
  <2>1. combine_requested' = FALSE
    BY <1>0, <1>9 DEF DialogConfirmed, request, TypeOK
  <2>2. Seals \/ (ClearBatch /\ dialog' = FALSE)
    BY <1>9 DEF DialogConfirmed, SealFails
  <2> QED BY <2>1, <2>2, ShapeOfSealed, ShapeOfCleared
<1>10. CASE \/ FurnitureModeEnterHook \/ Shutdown \/ LeaveFurnitureMode
            \/ SceneReadabilityChanges
  BY <1>0, <1>10, ShapeOfKept
  DEF FurnitureModeEnterHook, Shutdown, LeaveFurnitureMode,
      SceneReadabilityChanges, request, game
<1>11. CASE \E p \in Pieces : PurgeComponent(p)
  BY <1>0, <1>11, ShapeOfKept DEF PurgeComponent, request
<1>12. CASE Move
  BY <1>0, <1>12, ShapeOfKept DEF Move, request
<1>13. CASE UNCHANGED vars
  BY <1>0, <1>13, ShapeOfKept DEF vars, request, game
<1>14. Outside =>
          \/ LeaveFurnitureMode \/ SceneReadabilityChanges
          \/ \E p \in Pieces : PurgeComponent(p)
          \/ Move
  BY DEF Outside, PlayerPutsAway, GameUnloadsPiece, PlayerPlaces,
         GameLoadsPiece, GameLoses, EntryBecomesUnreadable, GameConverts,
         GameAcquires, CodeIsPatched
<1> QED
  BY <1>1, <1>2, <1>3, <1>4, <1>5, <1>6, <1>7, <1>8, <1>9, <1>10, <1>11,
     <1>12, <1>13, <1>14
  DEF Next, SceneReadyHook, Dialog

\* g_busy, the dialog and g_batch agree after every step, so ProcessBatch
\* never runs without a pair to execute and an idle mod holds no old plan.
THEOREM BatchShapeHolds == Spec => []BatchShape
<1>1. Init => BatchShape
  BY DEF Init, BatchShape, IdleIsClean, BusyHasWork,
         PendingOnlyBeforeFirstPair, NoRequestWhileBusy, DialogIsBusy
<1> QED BY <1>1, BatchShapeStep, TypeCorrect, PTL DEF Spec
-----------------------------------------------------------------------------
(***************************************************************************)
(* The plan changes only by being sealed or dropped, and what is sealed    *)
(* consists of merges.                                                     *)
(***************************************************************************)
LEMMA PlanSteps ==
    TypeOK /\ [Next]_vars => candidates' \in {candidates, <<>>, Offered}
<1> SUFFICES ASSUME TypeOK, [Next]_vars
             PROVE  candidates' \in {candidates, <<>>, Offered}
  OBVIOUS
<1>1. CASE SceneReadyHook
  BY <1>1
  DEF SceneReadyHook, FrameIdle, HandleCombineWithoutCatalog,
      HandleCombineFindsNothing, HandleCombinePreviews, HandleCombineSeals,
      HandleCombineStoreFails, Seals, SealFails, AwaitPurge,
      AwaitFurnitureExit, ConfirmReopened, ConfirmAccepts, ConfirmRejects,
      Pause, PromoteRefused, PromoteRaises, PairCompleted, ConsumeFails,
      ChangesStage, ClearBatch, batch
<1>2. CASE Dialog
  BY <1>2 DEF Dialog, DialogCancelled, DialogConfirmedTooLate,
              DialogConfirmed, Seals, SealFails, ClearBatch
<1>3. CASE FurnitureModeEnterHook \/ Shutdown
  BY <1>3 DEF FurnitureModeEnterHook, Shutdown, batch
<1>4. CASE Outside
  BY <1>4 DEF Outside, LeaveFurnitureMode, SceneReadabilityChanges,
              PurgeComponent, Move,
              PlayerPutsAway, GameUnloadsPiece, PlayerPlaces,
              GameLoadsPiece, GameLoses, EntryBecomesUnreadable,
              GameConverts, GameAcquires, CodeIsPatched, batch
<1>5. CASE UNCHANGED vars
  BY <1>5 DEF vars, batch
<1> QED BY <1>1, <1>2, <1>3, <1>4, <1>5 DEF Next

\* Every pair of the batch that ProcessBatch may execute is two different
\* copies of one item, sealed with the same flags and promoted once.
THEOREM SealedPairsAreAlwaysMerges == Spec => []SealedPairsAreMerges
<1>1. Init => SealedPairsAreMerges
  BY DEF Init, SealedPairsAreMerges
<1>2. TypeOK /\ SealedPairsAreMerges /\ [Next]_vars => SealedPairsAreMerges'
  <2> SUFFICES ASSUME TypeOK, SealedPairsAreMerges, [Next]_vars
               PROVE  SealedPairsAreMerges'
    OBVIOUS
  <2>1. CASE candidates' = candidates
    BY <2>1 DEF SealedPairsAreMerges
  <2>2. CASE candidates' = <<>>
    BY <2>2 DEF SealedPairsAreMerges
  <2>3. CASE candidates' = Offered
    <3>1. \A n \in DOMAIN Offered : Offered[n] \in Merges
      BY OfferedArePlans
    <3> QED BY <2>3, <3>1 DEF SealedPairsAreMerges, Merges
  <2> QED BY <2>1, <2>2, <2>3, PlanSteps
<1> QED BY <1>1, <1>2, TypeCorrect, PTL DEF Spec

LEMMA OfferedAreDisjoint ==
    ASSUME TypeOK, NEW m \in DOMAIN Offered, NEW n \in DOMAIN Offered, m # n
    PROVE  KeysOf(Offered[m]) \cap KeysOf(Offered[n]) = {}
<1>1. Present \in Snapshot
  BY SceneComponentsAreComponents, ScanIsSnapshot DEF TypeOK, Present
<1> QED BY <1>1, FindCandidatesAreDisjoint DEF Offered

LEMMA SealedPairsAreDisjointStep ==
    TypeOK /\ SealedPairsAreDisjoint /\ [Next]_vars
        => SealedPairsAreDisjoint'
<1> SUFFICES ASSUME TypeOK, SealedPairsAreDisjoint, [Next]_vars
             PROVE  SealedPairsAreDisjoint'
  OBVIOUS
<1>1. CASE candidates' = candidates
  BY <1>1 DEF SealedPairsAreDisjoint
<1>2. CASE candidates' = <<>>
  BY <1>2 DEF SealedPairsAreDisjoint
<1>3. CASE candidates' = Offered
  BY <1>3, OfferedAreDisjoint DEF SealedPairsAreDisjoint, KeysOf
<1> QED BY <1>1, <1>2, <1>3, PlanSteps

\* What ProcessBatch works through stays a plan from its sealing in
\* HandleCombine to its last pair, whatever the game does in between: its
\* pairs are merges, and no furniture is in two of them.
THEOREM SealedPlanIsAlwaysSound == Spec => []SealedPlanIsSound
<1>1. Init => SealedPairsAreDisjoint
  BY DEF Init, SealedPairsAreDisjoint
<1>2. SealedPairsAreMerges /\ SealedPairsAreDisjoint => SealedPlanIsSound
  BY DEF SealedPlanIsSound
<1> QED BY <1>1, <1>2, SealedPairsAreDisjointStep, SealedPairsAreAlwaysMerges,
           TypeCorrect, PTL DEF Spec
-----------------------------------------------------------------------------
(***************************************************************************)
(* PiecesShowPlaced: the mod's writes one by one, while it can read the    *)
(* component list, then the game's.                                        *)
(***************************************************************************)
LEMMA PutsAwayShows ==
    ASSUME TypeOK, PiecesShowPlaced, scene_readable, NEW keys, PutsAway(keys)
    PROVE  PiecesShowPlaced'
<1>1. SceneComponents = components
  BY DEF SceneComponents
<1> QED BY <1>1, PuttingAwayShowsPlaced
        DEF TypeOK, PiecesShowPlaced, PutsAway, PiecesOf

LEMMA PromotedShows ==
    ASSUME TypeOK, PiecesShowPlaced, NEW c
    PROVE  ShowsPlaced(Promoted(c), components)
<1>1. Promotion(c) \in Flag
  BY DEF Promotion, Flag
<1> QED BY <1>1, FlaggingShowsPlaced, FindEntryFindsEntries
        DEF TypeOK, PiecesShowPlaced, Promoted

LEMMA ConsumedShows ==
    ASSUME TypeOK, PiecesShowPlaced, scene_readable, NEW c,
           CanConsumeFrom(Promoted(c), c)
    PROVE  ShowsPlaced(WithoutEntry(Promoted(c), c.consume_key), components)
<1>1. FindPieces(Promoted(c), components, c.consume_key) = {}
  BY DEF CanConsumeFrom, CanConsume, SceneComponents
<1> QED BY <1>1, PromotedShows, PromotedIsStorage, RemovingShowsPlaced
        DEF TypeOK

LEMMA RolledBackShows ==
    ASSUME TypeOK, NEW st \in Storage, ShowsPlaced(st, components), NEW c
    PROVE  ShowsPlaced(RolledBack(st, c), components)
<1>1. Promotion(c) \in Flag
  BY DEF Promotion, Flag
<1> QED BY <1>1, FlaggingShowsPlaced, ClearableAreEntries
        DEF TypeOK, RolledBack

LEMMA PiecesShowPlacedStep ==
    ASSUME "partial" \notin Faults, TypeOK, PiecesShowPlaced, scene_readable,
           [Next]_vars
    PROVE  PiecesShowPlaced'
<1>1. ASSUME UNCHANGED <<storage, components>>
      PROVE  PiecesShowPlaced'
  BY <1>1 DEF PiecesShowPlaced
<1>2. ASSUME Seals \/ SealFails
      PROVE  PiecesShowPlaced'
  <2>1. PICK keys : PutsAway(keys)
    BY <1>2, SealFailsCases DEF Seals
  <2> QED BY <2>1, PutsAwayShows
<1>3. ASSUME NEW key \in BOOLEAN, PairCompleted(key) \/ PromoteRaises(key)
      PROVE  PiecesShowPlaced'
  <2>1. CASE PairCompleted(key)
    BY <2>1, ConsumedShows DEF PairCompleted, PiecesShowPlaced
  <2>2. CASE PromoteRaises(key)
    BY <2>2, PromotedShows DEF PromoteRaises, PiecesShowPlaced
  <2> QED BY <1>3, <2>1, <2>2
<1>4. ASSUME NEW key \in BOOLEAN, ConsumeFails(key)
      PROVE  PiecesShowPlaced'
  <2> DEFINE c == Candidate
  <2>1. PICK left :
           /\ \/ left = Promoted(c)
              \/ /\ left = WithoutEntry(Promoted(c), c.consume_key)
                 /\ CanConsumeFrom(Promoted(c), c)
           /\ storage' = RolledBack(left, c) \/ storage' = left
           /\ components' = components
    BY <1>4 DEF ConsumeFails
  <2> HIDE DEF c
  <2>2. left \in Storage /\ ShowsPlaced(left, components)
    BY <2>1, PromotedIsStorage, WithoutEntryStorage, PromotedShows,
       ConsumedShows
  <2>3. ShowsPlaced(storage', components)
    BY <2>1, <2>2, RolledBackShows
  <2> QED BY <2>1, <2>3 DEF PiecesShowPlaced
<1>5. CASE SceneReadyHook
  <2>1. \/ UNCHANGED <<storage, components>>
        \/ Seals \/ SealFails
        \/ \E key \in BOOLEAN :
              PairCompleted(key) \/ PromoteRaises(key) \/ ConsumeFails(key)
    BY <1>5
    DEF SceneReadyHook, FrameIdle, HandleCombineWithoutCatalog,
        HandleCombineFindsNothing, HandleCombinePreviews,
        HandleCombineSeals, HandleCombineStoreFails, AwaitPurge,
        AwaitFurnitureExit, ConfirmReopened, ConfirmAccepts,
        ConfirmRejects, Pause, PromoteRefused, ChangesStage, game
  <2> QED BY <2>1, <1>1, <1>2, <1>3, <1>4
<1>6. CASE Dialog
  <2>1. UNCHANGED <<storage, components>> \/ Seals \/ SealFails
    BY <1>6 DEF Dialog, DialogCancelled, DialogConfirmedTooLate,
                DialogConfirmed, game
  <2> QED BY <2>1, <1>1, <1>2
<1>7. CASE \/ FurnitureModeEnterHook \/ Shutdown \/ LeaveFurnitureMode
           \/ SceneReadabilityChanges
  BY <1>1, <1>7
  DEF FurnitureModeEnterHook, Shutdown, LeaveFurnitureMode,
      SceneReadabilityChanges, game
<1>8. ASSUME NEW p \in Pieces,
             PurgeComponent(p) \/ GameUnloadsPiece(p)
      PROVE  PiecesShowPlaced'
  BY <1>8 DEF PurgeComponent, GameUnloadsPiece, PiecesShowPlaced,
              ShowsPlaced, Live, TypeOK, Components
<1>9. ASSUME NEW p \in Pieces, PlayerPutsAway(p)
      PROVE  PiecesShowPlaced'
  <2> SUFFICES ASSUME NEW q \in Live(components)'
               PROVE  LET a == components'[q].entry
                      IN  /\ a \in Addresses
                          /\ storage'[a] # Free
                          /\ storage'[a] # Garbage => storage'[a].placed
    BY DEF PiecesShowPlaced, ShowsPlaced
  <2>1. /\ q \in Pieces /\ q \notin Showing(components[p].entry)
        /\ components'[q] = components[q] /\ q \in Live(components)
    BY <1>9 DEF PlayerPutsAway, QueuedForDeletion, Live
  <2>2. components[q].entry # components[p].entry
    BY <2>1 DEF Showing
  <2> QED BY <1>9, <2>1, <2>2
          DEF PlayerPutsAway, PiecesShowPlaced, ShowsPlaced, TypeOK, Storage
<1>10. ASSUME NEW a \in Addresses, NEW p \in Pieces,
              PlayerPlaces(a, p) \/ GameLoadsPiece(a, p)
       PROVE  PiecesShowPlaced'
  <2>1. storage[a] \in Entry
    BY <1>10, EntriesAreEntries DEF PlayerPlaces, GameLoadsPiece, TypeOK
  <2>2. storage'[a] \in Entry /\ storage'[a].placed
    <3>1. CASE PlayerPlaces(a, p)
      <4>1. storage'[a] = [storage[a] EXCEPT !.placed = TRUE]
        BY <3>1 DEF PlayerPlaces, TypeOK, Storage
      <4> QED BY <2>1, <4>1 DEF Entry
    <3>2. CASE GameLoadsPiece(a, p)
      BY <2>1, <3>2 DEF GameLoadsPiece
    <3> QED BY <1>10, <3>1, <3>2
  <2>3. \A b \in Addresses : b # a => storage'[b] = storage[b]
    BY <1>10 DEF PlayerPlaces, GameLoadsPiece, TypeOK, Storage
  <2>4. \A q \in Live(components)' :
           \/ q \in Live(components) /\ components'[q] = components[q]
           \/ components'[q].entry = a
    BY <1>10
    DEF PlayerPlaces, GameLoadsPiece, TypeOK, Components, Live
  <2> QED BY <2>2, <2>3, <2>4, MarkersAssumption
          DEF PiecesShowPlaced, ShowsPlaced
<1>11. ASSUME NEW a \in Addresses, GameLoses(a) \/ EntryBecomesUnreadable(a)
       PROVE  PiecesShowPlaced'
  <2>1. \A q \in Live(components)' :
           q \in Live(components) /\ components'[q] = components[q]
    BY <1>11 DEF GameLoses, EntryBecomesUnreadable, Live
  <2>2. \A b \in Addresses : b # a => storage'[b] = storage[b]
    BY <1>11 DEF GameLoses, EntryBecomesUnreadable, TypeOK, Storage
  <2>3. \/ storage'[a] = Garbage
        \/ \A q \in Live(components)' : components'[q].entry # a
    BY <1>11 DEF GameLoses, EntryBecomesUnreadable, Live, TypeOK, Storage
  <2> QED BY <2>1, <2>2, <2>3, MarkersAssumption
          DEF PiecesShowPlaced, ShowsPlaced
<1>12. ASSUME NEW a \in Addresses, NEW flags \in {{}, {"rare"}},
              GameConverts(a, flags)
       PROVE  PiecesShowPlaced'
  <2>1. storage[a] \in Entry /\ flags \in Flags
    BY <1>12, EntriesAreEntries DEF GameConverts, Flags, Flag, TypeOK
  <2>2. /\ storage'[a] \in Entry
        /\ storage'[a].placed = storage[a].placed
    BY <1>12, <2>1 DEF GameConverts, Entry, TypeOK, Storage
  <2>3. /\ \A b \in Addresses : b # a => storage'[b] = storage[b]
        /\ components' = components
    BY <1>12 DEF GameConverts, TypeOK, Storage
  <2> QED BY <2>1, <2>2, <2>3, MarkersAssumption
          DEF PiecesShowPlaced, ShowsPlaced
<1>13. ASSUME NEW a \in Addresses, NEW k \in Keys \ {0}, NEW item \in Items,
              NEW flags \in {{}, {"rare"}}, GameAcquires(a, k, item, flags)
       PROVE  PiecesShowPlaced'
  <2>1. storage[a] = Free /\ components' = components
    BY <1>13 DEF GameAcquires
  <2>2. \A b \in Addresses : b # a => storage'[b] = storage[b]
    BY <1>13 DEF GameAcquires, TypeOK, Storage
  <2> QED BY <2>1, <2>2 DEF PiecesShowPlaced, ShowsPlaced
<1>14. CASE CodeIsPatched \/ UNCHANGED vars
  BY <1>1, <1>14 DEF CodeIsPatched, vars, game
<1> QED
  BY <1>5, <1>6, <1>7, <1>8, <1>9, <1>10, <1>11, <1>12, <1>13, <1>14
  DEF Next, Outside

LEMMA SceneStaysReadable ==
    ASSUME "scene" \notin Faults, TypeOK, scene_readable, [Next]_vars
    PROVE  scene_readable'
<1>1. CASE SceneReadyHook
  BY <1>1, SealFailsStores
  DEF SceneReadyHook, FrameIdle, HandleCombineWithoutCatalog,
      HandleCombineFindsNothing, HandleCombinePreviews, HandleCombineSeals,
      HandleCombineStoreFails, Seals, PutsAway, AwaitPurge,
      AwaitFurnitureExit, ConfirmReopened, ConfirmAccepts, ConfirmRejects,
      Pause, PromoteRefused, PromoteRaises, PairCompleted, ConsumeFails,
      ChangesStage, game
<1>2. CASE Dialog
  BY <1>2, SealFailsStores
  DEF Dialog, DialogCancelled, DialogConfirmedTooLate, DialogConfirmed,
      Seals, PutsAway, game
<1>3. CASE FurnitureModeEnterHook \/ Shutdown
  BY <1>3 DEF FurnitureModeEnterHook, Shutdown, game
<1>4. CASE Outside
  BY <1>4 DEF Outside, LeaveFurnitureMode, SceneReadabilityChanges,
              PurgeComponent, Move, PlayerPutsAway, GameUnloadsPiece,
              PlayerPlaces, GameLoadsPiece, GameLoses,
              EntryBecomesUnreadable, GameConverts, GameAcquires,
              CodeIsPatched
<1>5. CASE UNCHANGED vars
  BY <1>5 DEF vars, game
<1> QED BY <1>1, <1>2, <1>3, <1>4, <1>5 DEF Next

(***************************************************************************)
(* No piece loses its entry: what a step may do to a storage and a list of *)
(* pieces without detaching one from the entry that it points at.          *)
(***************************************************************************)
Attached(st, co) ==
    \A p \in Live(co) : co[p].entry # Null => st[co[p].entry] # Free

KeepsEntries(st, new) ==
    \A a \in Addresses : st[a] # Free => new[a] # Free
PointsNowhereNew(co, new) ==
    \A p \in Live(new) :
       new[p].entry # Null => p \in Live(co) /\ new[p].entry = co[p].entry

LEMMA StaysAttached ==
    ASSUME NEW st, NEW co \in Components, Attached(st, co), NEW st2, NEW co2,
           KeepsEntries(st, st2), PointsNowhereNew(co, co2)
    PROVE  Attached(st2, co2)
<1> SUFFICES ASSUME NEW p \in Live(co2), co2[p].entry # Null
             PROVE  st2[co2[p].entry] # Free
  BY DEF Attached
<1>1. p \in Live(co) /\ co2[p].entry = co[p].entry
  BY DEF PointsNowhereNew
<1>2. co[p] \in Piece
  BY <1>1 DEF Live, Components
<1>3. co[p].entry \in Addresses
  BY <1>1, <1>2 DEF Piece
<1> QED BY <1>1, <1>3 DEF Attached, KeepsEntries

LEMMA OutOfRoomsKeepsEntries ==
    ASSUME NEW st \in Storage, NEW keys
    PROVE  KeepsEntries(st, OutOfRooms(st, keys))
<1> SUFFICES ASSUME NEW a \in Addresses, st[a] # Free
             PROVE  OutOfRooms(st, keys)[a] # Free
  BY DEF KeepsEntries
<1>1. CASE a \in Entries(st)
  <2>1. st[a] \in Entry
    BY <1>1, EntriesAreEntries
  <2>2. OutOfRooms(st, keys)[a] \in Entry
    BY <1>1, <2>1 DEF OutOfRooms, Entry
  <2> QED BY <2>2, MarkersAssumption
<1>2. CASE a \notin Entries(st)
  BY <1>2 DEF OutOfRooms
<1> QED BY <1>1, <1>2

LEMMA FlaggingKeepsEntries ==
    ASSUME NEW st \in Storage, NEW S \in SUBSET Entries(st),
           NEW flag \in Flag
    PROVE  /\ KeepsEntries(st, SetFlag(st, S, flag))
           /\ KeepsEntries(st, ClearFlag(st, S, flag))
<1> SUFFICES ASSUME NEW a \in Addresses, st[a] # Free
             PROVE  /\ SetFlag(st, S, flag)[a] # Free
                    /\ ClearFlag(st, S, flag)[a] # Free
  BY DEF KeepsEntries
<1>1. CASE a \in S
  <2>1. st[a] \in Entry
    BY <1>1, EntriesAreEntries
  <2>2. /\ SetFlag(st, S, flag)[a] \in Entry
        /\ ClearFlag(st, S, flag)[a] \in Entry
    BY <1>1, <2>1 DEF SetFlag, ClearFlag, Entry, Flags
  <2> QED BY <2>2, MarkersAssumption
<1>2. CASE a \notin S
  BY <1>2 DEF SetFlag, ClearFlag
<1> QED BY <1>1, <1>2

LEMMA PromotedAttached ==
    ASSUME TypeOK, NoPieceDangles, NEW c
    PROVE  Attached(Promoted(c), components)
<1>1. Promotion(c) \in Flag
  BY DEF Promotion, Flag
<1>2. KeepsEntries(storage, Promoted(c))
  BY <1>1, FlaggingKeepsEntries, FindEntryFindsEntries
  DEF TypeOK, Promoted
<1>3. PointsNowhereNew(components, components)
  BY DEF PointsNowhereNew
<1>4. Attached(storage, components)
  BY DEF NoPieceDangles, Attached
<1> QED BY <1>2, <1>3, <1>4, StaysAttached DEF TypeOK

LEMMA ConsumedAttached ==
    ASSUME TypeOK, NoPieceDangles, scene_readable, NEW c,
           CanConsumeFrom(Promoted(c), c)
    PROVE  Attached(WithoutEntry(Promoted(c), c.consume_key), components)
<1> DEFINE st == Promoted(c)
<1>1. FindPieces(st, components, c.consume_key) = {}
  BY DEF CanConsumeFrom, CanConsume, SceneComponents
<1>2. Attached(st, components) /\ st \in Storage
  BY PromotedAttached, PromotedIsStorage
<1> HIDE DEF st
<1>3. ASSUME NEW p \in Live(components), components[p].entry # Null
      PROVE  WithoutEntry(st, c.consume_key)[components[p].entry] # Free
  <2>1. components[p].entry \in Addresses
    BY <1>3 DEF TypeOK, Components, Live, Piece
  <2>2. st[components[p].entry] # Free
    BY <1>2, <1>3 DEF Attached
  <2>3. components[p].entry \notin Holding(st, c.consume_key)
    BY <1>1, <1>3 DEF FindPieces
  <2> QED BY <2>1, <2>2, <2>3 DEF WithoutEntry
<1> QED BY <1>3 DEF Attached, st

LEMMA RolledBackAttached ==
    ASSUME TypeOK, NEW st \in Storage, Attached(st, components), NEW c
    PROVE  Attached(RolledBack(st, c), components)
<1>1. Promotion(c) \in Flag
  BY DEF Promotion, Flag
<1>2. KeepsEntries(st, RolledBack(st, c))
  BY <1>1, FlaggingKeepsEntries, ClearableAreEntries DEF RolledBack
<1>3. PointsNowhereNew(components, components)
  BY DEF PointsNowhereNew
<1> QED BY <1>2, <1>3, StaysAttached DEF TypeOK

LEMMA PuttingAwayStaysAttached ==
    ASSUME TypeOK, NoPieceDangles, Seals \/ SealFails
    PROVE  NoPieceDangles'
<1>1. PICK keys : storage' = OutOfRooms(storage, keys)
  BY SealFailsStores DEF Seals, PutsAway
<1>2. KeepsEntries(storage, storage')
  BY <1>1, OutOfRoomsKeepsEntries DEF TypeOK
<1>3. PointsNowhereNew(components, components')
  <2>1. ASSUME NEW ks, PutsAway(ks)
        PROVE  PointsNowhereNew(components, components')
    BY <2>1 DEF PutsAway, QueuedForDeletion, PointsNowhereNew, Live
  <2>2. ASSUME NEW ks, NEW key, PutsAwayInPart(ks, key)
        PROVE  PointsNowhereNew(components, components')
    <3> SUFFICES ASSUME NEW p \in Live(components'),
                        components'[p].entry # Null
                 PROVE  /\ p \in Live(components)
                        /\ components'[p].entry = components[p].entry
      BY DEF PointsNowhereNew
    <3>0. p \in Pieces
      BY DEF Live
    <3>1. CASE p \in PiecesOf({key})
      <4>1. p \in Live(components)
        BY <3>1, FoundPiecesAreLive
      <4>2. components'[p].entry \in {Null, components[p].entry}
        BY <2>2, <3>0, <3>1 DEF PutsAwayInPart
      <4> QED BY <4>1, <4>2
    <3>2. CASE p \notin PiecesOf({key})
      <4>1. components'[p] =
               QueuedForDeletion(components, PiecesOf(ks))[p]
        BY <2>2, <3>0, <3>2 DEF PutsAwayInPart
      <4> QED BY <3>0, <4>1 DEF QueuedForDeletion, Live
    <3> QED BY <3>1, <3>2
  <2> QED BY <2>1, <2>2, SealFailsCases DEF Seals
<1>4. Attached(storage, components)
  BY DEF NoPieceDangles, Attached
<1>5. Attached(storage', components')
  BY <1>2, <1>3, <1>4, StaysAttached DEF TypeOK
<1> QED BY <1>5 DEF NoPieceDangles, Attached

LEMMA PairStaysAttached ==
    ASSUME TypeOK, NoPieceDangles, scene_readable, NEW key \in BOOLEAN,
           PairCompleted(key) \/ PromoteRaises(key) \/ ConsumeFails(key)
    PROVE  NoPieceDangles'
<1> DEFINE c == Candidate
<1>1. PICK left :
         /\ \/ left = Promoted(c)
            \/ /\ left = WithoutEntry(Promoted(c), c.consume_key)
               /\ CanConsumeFrom(Promoted(c), c)
         /\ storage' = RolledBack(left, c) \/ storage' = left
         /\ components' = components
  <2>1. CASE PairCompleted(key)
    BY <2>1 DEF PairCompleted
  <2>2. CASE PromoteRaises(key)
    BY <2>2 DEF PromoteRaises
  <2>3. CASE ConsumeFails(key)
    BY <2>3 DEF ConsumeFails
  <2> QED BY <2>1, <2>2, <2>3
<1> HIDE DEF c
<1>2. left \in Storage /\ Attached(left, components)
  BY <1>1, PromotedIsStorage, WithoutEntryStorage, PromotedAttached,
     ConsumedAttached
<1>3. Attached(storage', components)
  BY <1>1, <1>2, RolledBackAttached
<1> QED BY <1>1, <1>3 DEF NoPieceDangles, Attached

LEMMA GameStaysAttached ==
    ASSUME TypeOK, NoPieceDangles, Outside
    PROVE  NoPieceDangles'
<1>0. Attached(storage, components)
  BY DEF NoPieceDangles, Attached
<1>1. ASSUME KeepsEntries(storage, storage'),
             PointsNowhereNew(components, components')
      PROVE  NoPieceDangles'
  <2>1. Attached(storage', components')
    BY <1>0, <1>1, StaysAttached DEF TypeOK
  <2> QED BY <2>1 DEF NoPieceDangles, Attached
<1>2. CASE LeaveFurnitureMode \/ SceneReadabilityChanges \/ CodeIsPatched
  <2>1. UNCHANGED <<storage, components>>
    BY <1>2 DEF LeaveFurnitureMode, SceneReadabilityChanges, CodeIsPatched
  <2> QED BY <2>1 DEF NoPieceDangles
<1>3. ASSUME NEW p \in Pieces, PurgeComponent(p) \/ GameUnloadsPiece(p)
      PROVE  NoPieceDangles'
  <2>1. KeepsEntries(storage, storage')
    BY <1>3 DEF PurgeComponent, GameUnloadsPiece, KeepsEntries
  <2>2. PointsNowhereNew(components, components')
    BY <1>3 DEF PurgeComponent, GameUnloadsPiece, PointsNowhereNew, Live,
                TypeOK, Components
  <2> QED BY <1>1, <2>1, <2>2
<1>4. ASSUME NEW p \in Pieces, PlayerPutsAway(p)
      PROVE  NoPieceDangles'
  <2> DEFINE a == components[p].entry
  <2>1. a \in Entries(storage) /\ storage[a] \in Entry /\ a \in Addresses
    BY <1>4, EntriesAreEntries DEF PlayerPutsAway, TypeOK
  <2>2. storage' = [storage EXCEPT ![a] = [@ EXCEPT !.placed = FALSE]]
    BY <1>4 DEF PlayerPutsAway
  <2> HIDE DEF a
  <2>3. storage'[a] \in Entry
    BY <2>1, <2>2 DEF TypeOK, Storage, Entry
  <2>4. KeepsEntries(storage, storage')
    BY <2>1, <2>2, <2>3, MarkersAssumption
    DEF KeepsEntries, TypeOK, Storage
  <2>5. PointsNowhereNew(components, components')
    BY <1>4 DEF PlayerPutsAway, QueuedForDeletion, PointsNowhereNew, Live
  <2> QED BY <1>1, <2>4, <2>5
<1>5. ASSUME NEW a \in Addresses, NEW p \in Pieces,
             PlayerPlaces(a, p) \/ GameLoadsPiece(a, p)
      PROVE  NoPieceDangles'
  <2>1. storage[a] \in Entry
    BY <1>5, EntriesAreEntries DEF PlayerPlaces, GameLoadsPiece, TypeOK
  <2>2. storage'[a] \in Entry
    BY <1>5, <2>1
    DEF PlayerPlaces, GameLoadsPiece, TypeOK, Storage, Entry
  <2>3. \A b \in Addresses : b # a => storage'[b] = storage[b]
    BY <1>5 DEF PlayerPlaces, GameLoadsPiece, TypeOK, Storage
  <2>4. \A q \in Live(components)' :
           \/ q \in Live(components) /\ components'[q] = components[q]
           \/ components'[q].entry = a
    BY <1>5 DEF PlayerPlaces, GameLoadsPiece, TypeOK, Components, Live
  <2>5. KeepsEntries(storage, storage') /\ storage'[a] # Free
    BY <2>2, <2>3, MarkersAssumption DEF KeepsEntries
  <2>6. ASSUME NEW q \in Live(components)', components'[q].entry # Null
        PROVE  storage'[components'[q].entry] # Free
    <3>1. CASE components'[q].entry = a
      BY <2>5, <3>1
    <3>2. CASE q \in Live(components) /\ components'[q] = components[q]
      <4>1. components[q].entry \in Addresses
        BY <2>6, <3>2 DEF TypeOK, Components, Live, Piece
      <4> QED BY <1>0, <2>5, <2>6, <3>2, <4>1 DEF Attached, KeepsEntries
    <3> QED BY <2>4, <3>1, <3>2
  <2> QED BY <2>6 DEF NoPieceDangles
<1>6. ASSUME NEW a \in Addresses, GameLoses(a)
      PROVE  NoPieceDangles'
  <2>1. \A q \in Live(components)' :
           /\ q \in Live(components) /\ components'[q] = components[q]
           /\ components'[q].entry # a
    BY <1>6 DEF GameLoses, Live
  <2>2. \A b \in Addresses : b # a => storage'[b] = storage[b]
    BY <1>6 DEF GameLoses, TypeOK, Storage
  <2>3. ASSUME NEW q \in Live(components)', components'[q].entry # Null
        PROVE  storage'[components'[q].entry] # Free
    <3>1. components'[q].entry \in Addresses
      BY <2>1, <2>3 DEF TypeOK, Components, Live, Piece
    <3> QED BY <1>0, <2>1, <2>2, <2>3, <3>1 DEF Attached
  <2> QED BY <2>3 DEF NoPieceDangles
<1>7. ASSUME NEW a \in Addresses, EntryBecomesUnreadable(a)
      PROVE  NoPieceDangles'
  <2>1. KeepsEntries(storage, storage')
    BY <1>7, MarkersAssumption
    DEF EntryBecomesUnreadable, KeepsEntries, TypeOK, Storage
  <2>2. PointsNowhereNew(components, components')
    BY <1>7 DEF EntryBecomesUnreadable, PointsNowhereNew
  <2> QED BY <1>1, <2>1, <2>2
<1>8. ASSUME NEW a \in Addresses, NEW flags \in {{}, {"rare"}},
             GameConverts(a, flags)
      PROVE  NoPieceDangles'
  <2>1. storage[a] \in Entry /\ flags \in Flags
    BY <1>8, EntriesAreEntries DEF GameConverts, Flags, Flag, TypeOK
  <2>2. storage'[a] \in Entry
    BY <1>8, <2>1 DEF GameConverts, Entry, TypeOK, Storage
  <2>3. KeepsEntries(storage, storage')
    BY <1>8, <2>2, MarkersAssumption
    DEF GameConverts, KeepsEntries, TypeOK, Storage
  <2>4. PointsNowhereNew(components, components')
    BY <1>8 DEF GameConverts, PointsNowhereNew
  <2> QED BY <1>1, <2>3, <2>4
<1>9. ASSUME NEW a \in Addresses, NEW k \in Keys \ {0}, NEW item \in Items,
             NEW flags \in {{}, {"rare"}}, GameAcquires(a, k, item, flags)
      PROVE  NoPieceDangles'
  <2>1. KeepsEntries(storage, storage')
    BY <1>9 DEF GameAcquires, KeepsEntries, TypeOK, Storage
  <2>2. PointsNowhereNew(components, components')
    BY <1>9 DEF GameAcquires, PointsNowhereNew
  <2> QED BY <1>1, <2>1, <2>2
<1> QED BY <1>2, <1>3, <1>4, <1>5, <1>6, <1>7, <1>8, <1>9 DEF Outside

LEMMA NoPieceDanglesStep ==
    ASSUME TypeOK, NoPieceDangles, scene_readable, [Next]_vars
    PROVE  NoPieceDangles'
<1>1. ASSUME UNCHANGED <<storage, components>>
      PROVE  NoPieceDangles'
  BY <1>1 DEF NoPieceDangles
<1>2. CASE SceneReadyHook
  <2>1. \/ UNCHANGED <<storage, components>>
        \/ Seals \/ SealFails
        \/ \E key \in BOOLEAN :
              PairCompleted(key) \/ PromoteRaises(key) \/ ConsumeFails(key)
    BY <1>2
    DEF SceneReadyHook, FrameIdle, HandleCombineWithoutCatalog,
        HandleCombineFindsNothing, HandleCombinePreviews,
        HandleCombineSeals, HandleCombineStoreFails, AwaitPurge,
        AwaitFurnitureExit, ConfirmReopened, ConfirmAccepts,
        ConfirmRejects, Pause, PromoteRefused, ChangesStage, game
  <2> QED BY <1>1, <2>1, PuttingAwayStaysAttached, PairStaysAttached
<1>3. CASE Dialog
  <2>1. UNCHANGED <<storage, components>> \/ Seals \/ SealFails
    BY <1>3 DEF Dialog, DialogCancelled, DialogConfirmedTooLate,
                DialogConfirmed, game
  <2> QED BY <1>1, <2>1, PuttingAwayStaysAttached
<1>4. CASE FurnitureModeEnterHook \/ Shutdown \/ UNCHANGED vars
  BY <1>1, <1>4 DEF FurnitureModeEnterHook, Shutdown, vars, game
<1> QED BY <1>2, <1>3, <1>4, GameStaysAttached DEF Next

(***************************************************************************)
(* A frame that can read the component list leaves no piece dangling,      *)
(* whatever the frames before it could not see.                            *)
(***************************************************************************)
THEOREM DanglesOnlyInBlindFrames == Spec => DanglesOnlyBlind
<1>1. TypeOK /\ [Next]_vars =>
         [NoPieceDangles /\ ~NoPieceDangles' => ~scene_readable]_vars
  BY NoPieceDanglesStep
<1> QED BY <1>1, TypeCorrect, PTL DEF Spec, DanglesOnlyBlind

(***************************************************************************)
(* As long as the component list can be read and no put-away stops half    *)
(* way: Store detaches the piece of what it takes out of a room and        *)
(* Consume refuses what a piece shows, so every piece shows furniture of   *)
(* its room, whatever else fails.                                          *)
(***************************************************************************)
THEOREM PiecesAlwaysShowPlaced ==
    ASSUME {"scene", "partial"} \cap Faults = {}
    PROVE  Spec => []PiecesShowPlaced
<1>1. Init => scene_readable /\ PiecesShowPlaced
  BY InitialStoresAssumption DEF Init, PiecesShowPlaced
<1>2. TypeOK /\ scene_readable /\ [Next]_vars => scene_readable'
  BY SceneStaysReadable
<1>3. TypeOK /\ scene_readable /\ PiecesShowPlaced /\ [Next]_vars
         => PiecesShowPlaced'
  BY PiecesShowPlacedStep
<1> QED BY <1>1, <1>2, <1>3, TypeCorrect, PTL DEF Spec
-----------------------------------------------------------------------------
(***************************************************************************)
(* The worth of an item is counted entry by entry, so that a change of one *)
(* entry changes it by the difference of that entry's worth.               *)
(***************************************************************************)
EntryWorth(st, item, a) ==
    IF a \in Entries(st) /\ st[a].item_id = item
    THEN Multiplier(st[a].placement_flags) ELSE 0
CopiesAt(st, item, a) == {copy \in Copies(st, item) : copy[1] = a}

LEMMA CopiesAreFinite ==
    ASSUME NEW st, NEW item
    PROVE  IsFiniteSet(Copies(st, item))
<1>1. IsFiniteSet(1..4)
  <2>1. 1 \in Int /\ 4 \in Int
    OBVIOUS
  <2> QED BY <2>1, FS_Interval
<1>2. IsFiniteSet(Addresses \X (1..4))
  BY <1>1, AddressesAssumption, FS_Product
<1> QED BY <1>2, FS_Subset DEF Copies

LEMMA MultiplierIsSmall ==
    ASSUME NEW flags
    PROVE  Multiplier(flags) \in 1..4
BY DEF Multiplier

LEMMA WorthOfEntry ==
    ASSUME NEW st \in Storage, NEW item, NEW a \in Addresses
    PROVE  Cardinality(CopiesAt(st, item, a)) = EntryWorth(st, item, a)
<1>1. CASE a \in Entries(st) /\ st[a].item_id = item
  <2> DEFINE worth == Multiplier(st[a].placement_flags)
             copyOf == [n \in 1..worth |-> <<a, n>>]
  <2>1. worth \in Nat /\ worth <= 4
    BY MultiplierIsSmall
  <2>2. CopiesAt(st, item, a) = {<<a, n>> : n \in 1..worth}
    <3>1. ASSUME NEW copy
          PROVE  copy \in CopiesAt(st, item, a)
                    <=> copy \in {<<a, n>> : n \in 1..worth}
      <4>1. ASSUME copy \in CopiesAt(st, item, a)
            PROVE  copy \in {<<a, n>> : n \in 1..worth}
        <5>1. /\ copy \in Addresses \X (1..4) /\ copy[1] = a
              /\ copy[2] <= worth
          BY <4>1 DEF CopiesAt, Copies
        <5> HIDE DEF worth
        <5>2. copy[2] \in 1..worth /\ copy = <<a, copy[2]>>
          BY <2>1, <5>1
        <5> QED BY <5>2
      <4>2. ASSUME copy \in {<<a, n>> : n \in 1..worth}
            PROVE  copy \in CopiesAt(st, item, a)
        <5>1. PICK n \in 1..worth : copy = <<a, n>>
          BY <4>2
        <5>2. n \in 1..4 /\ n <= worth
          <6> HIDE DEF worth
          <6> QED BY <2>1
        <5> QED BY <1>1, <5>1, <5>2 DEF CopiesAt, Copies
      <4> QED BY <4>1, <4>2
    <3> QED BY <3>1
  <2> HIDE DEF worth
  <2>3. ExistsBijection(1..worth, {<<a, n>> : n \in 1..worth})
    <3>1. copyOf \in Bijection(1..worth, {<<a, n>> : n \in 1..worth})
      BY DEF Bijection, Injection, Surjection, IsInjective
    <3> QED BY <3>1 DEF ExistsBijection
  <2>4. Cardinality({<<a, n>> : n \in 1..worth}) = worth
    BY <2>1, <2>3, FS_CountingElements
  <2> QED BY <1>1, <2>2, <2>4 DEF EntryWorth, worth
<1>2. CASE ~(a \in Entries(st) /\ st[a].item_id = item)
  <2>1. CopiesAt(st, item, a) = {}
    BY <1>2 DEF CopiesAt, Copies
  <2> QED BY <1>2, <2>1, FS_EmptySet DEF EntryWorth
<1> QED BY <1>1, <1>2

\* Two storages that agree outside a differ by the worth at a.
LEMMA WorthOfChange ==
    ASSUME NEW old \in Storage, NEW new \in Storage, NEW item,
           NEW a \in Addresses,
           \A b \in Addresses : b # a => new[b] = old[b]
    PROVE  /\ Cardinality(Copies(old, item)) \in Nat
           /\ Cardinality(Copies(new, item)) \in Nat
           /\ Cardinality(Copies(new, item)) =
                 Cardinality(Copies(old, item))
                     - EntryWorth(old, item, a) + EntryWorth(new, item, a)
<1> DEFINE Rest(st) == Copies(st, item) \ CopiesAt(st, item, a)
<1>1. ASSUME NEW st \in Storage
      PROVE  /\ Cardinality(Rest(st)) \in Nat
             /\ EntryWorth(st, item, a) \in Nat
             /\ Cardinality(Copies(st, item)) \in Nat
             /\ Cardinality(Copies(st, item)) =
                    Cardinality(Rest(st)) + EntryWorth(st, item, a)
  <2>1. /\ IsFiniteSet(Copies(st, item))
        /\ CopiesAt(st, item, a) \subseteq Copies(st, item)
    BY CopiesAreFinite DEF CopiesAt
  <2>2. Copies(st, item) \cap CopiesAt(st, item, a) = CopiesAt(st, item, a)
    BY <2>1
  <2>3. IsFiniteSet(Rest(st)) /\ IsFiniteSet(CopiesAt(st, item, a))
    BY <2>1, FS_Subset
  <2>4. /\ Cardinality(Rest(st)) \in Nat
        /\ Cardinality(Copies(st, item)) \in Nat
        /\ Cardinality(CopiesAt(st, item, a)) \in Nat
    BY <2>1, <2>3, FS_CardinalityType
  <2>5. Cardinality(Rest(st)) = Cardinality(Copies(st, item))
                                   - Cardinality(CopiesAt(st, item, a))
    BY <2>1, <2>2, FS_Difference
  <2> HIDE DEF Rest
  <2> QED BY <2>4, <2>5, WorthOfEntry
<1>2. Rest(old) = Rest(new)
  BY DEF CopiesAt, Copies, Entries
<1> HIDE DEF Rest
<1> QED BY <1>1, <1>2

(***************************************************************************)
(* One pair: the calls that promote the kept copy and consume the other    *)
(* write to one entry each.                                                *)
(***************************************************************************)
KeptAt(c, a) ==
    /\ a \in Entries(storage)
    /\ Holding(storage, c.keep_key) = {a}
    /\ FindEntry(storage, c.keep_key, c.item_id) = {a}
    /\ storage[a].item_id = c.item_id
    /\ storage[a].placement_flags = c.keep_flags
    /\ signatures

ConsumedAt(st, c, b) ==
    /\ b \in Entries(st)
    /\ Holding(st, c.consume_key) = {b}
    /\ st[b].item_id = c.item_id
    /\ st[b].placement_flags = c.consume_flags

LEMMA PairOfBatch ==
    ASSUME TypeOK, SealedPairsAreMerges, NEW key, ExecutesPair(key)
    PROVE  Candidate \in Merges
<1>1. next_index + 1 \in DOMAIN candidates
  <2>1. next_index \in Nat /\ Len(candidates) \in Nat
    BY DEF TypeOK
  <2>2. next_index < Len(candidates) /\ DOMAIN candidates = 1..Len(candidates)
    BY DEF TypeOK, ExecutesPair
  <2> QED BY <2>1, <2>2
<1> QED BY <1>1 DEF TypeOK, SealedPairsAreMerges, Candidate, Merges

LEMMA PromotesOneEntry ==
    ASSUME TypeOK, NEW c \in Merges, CanPromote(c)
    PROVE  \E a \in Entries(storage) : KeptAt(c, a)
<1>1. signatures
      /\ Sealed(storage, c.keep_key, c.item_id, c.keep_flags) # {}
  BY DEF CanPromote, CanSetEnhanced, CanSetRare
<1>2. PICK a : a \in Sealed(storage, c.keep_key, c.item_id, c.keep_flags)
  BY <1>1
<1>3. /\ a \in FindEntry(storage, c.keep_key, c.item_id)
      /\ storage[a].placement_flags = c.keep_flags
  BY <1>2 DEF Sealed
<1>4. /\ Holding(storage, c.keep_key) = {a}
      /\ storage[a].item_id = c.item_id
  BY <1>3 DEF FindEntry
<1>5. FindEntry(storage, c.keep_key, c.item_id) = {a}
  BY <1>3, <1>4 DEF FindEntry
<1>6. a \in Entries(storage)
  BY <1>4 DEF Holding
<1> QED BY <1>1, <1>3, <1>4, <1>5, <1>6 DEF KeptAt

LEMMA ConsumesOneEntry ==
    ASSUME NEW st \in Storage, NEW c, CanConsumeFrom(st, c)
    PROVE  \E b \in Entries(st) : ConsumedAt(st, c, b)
<1>1. PICK b : b \in Sealed(st, c.consume_key, c.item_id, c.consume_flags)
  BY DEF CanConsumeFrom, CanConsume
<1>2. /\ Holding(st, c.consume_key) = {b}
      /\ st[b].item_id = c.item_id
      /\ st[b].placement_flags = c.consume_flags
  BY <1>1 DEF Sealed, FindEntry
<1> QED BY <1>2 DEF ConsumedAt, Holding

\* The promoted storage differs from the present one in the kept entry.
LEMMA PromotedEntry ==
    ASSUME TypeOK, NEW c \in Merges, NEW a \in Entries(storage), KeptAt(c, a)
    PROVE  /\ \A b \in Addresses : b # a => Promoted(c)[b] = storage[b]
           /\ Promoted(c)[a] =
                [storage[a] EXCEPT
                    !.placement_flags = c.keep_flags \cup {Promotion(c)}]
           /\ Promoted(c)[a] \in Entry
           /\ Entries(Promoted(c)) = Entries(storage)
<1>1. storage[a] \in Entry /\ a \in Addresses
  BY EntriesAreEntries DEF TypeOK
<1>2. Promoted(c) =
        [b \in Addresses |->
            IF b \in {a}
            THEN [storage[b] EXCEPT
                     !.placement_flags = @ \cup {Promotion(c)}]
            ELSE storage[b]]
  BY DEF Promoted, SetFlag, KeptAt
<1>3. \A b \in Addresses : b # a => Promoted(c)[b] = storage[b]
  BY <1>2
<1>4. Promoted(c)[a] =
        [storage[a] EXCEPT
            !.placement_flags = c.keep_flags \cup {Promotion(c)}]
  BY <1>1, <1>2 DEF KeptAt, Entry
<1>5. Promoted(c)[a] \in Entry
  BY <1>1, <1>4 DEF Entry, Flags, Flag, Promotion, KeptAt
<1>6. Entries(Promoted(c)) = Entries(storage)
  <2>1. Promoted(c)[a] \notin {Free, Garbage}
    BY <1>5, MarkersAssumption
  <2> QED BY <1>1, <1>3, <2>1 DEF Entries
<1> QED BY <1>3, <1>4, <1>5, <1>6

\* A flag adds as much worth as the copy had: a copy of the same flags.
LEMMA PromotionDoubles ==
    ASSUME NEW c \in Merges
    PROVE  /\ c.keep_flags = c.consume_flags
           /\ c.keep_key # c.consume_key
           /\ Promotion(c) \notin c.keep_flags
           /\ Multiplier(c.keep_flags \cup {Promotion(c)}) =
                 Multiplier(c.keep_flags) + Multiplier(c.consume_flags)
           /\ c.keep_flags \cup {Promotion(c)} \in SUBSET KnownFurnitureFlags
<1>1. PairIsMerge(c)
  BY DEF Merges
<1>2. CASE c.promote_to_rare
  BY <1>1, <1>2 DEF PairIsMerge, Promotion, Multiplier, KnownFurnitureFlags
<1>3. CASE ~c.promote_to_rare
  BY <1>1, <1>3 DEF PairIsMerge, Promotion, Multiplier, KnownFurnitureFlags
<1> QED BY <1>2, <1>3
-----------------------------------------------------------------------------
(***************************************************************************)
(* The worth of an item after each call, whatever is left of a pair.       *)
(***************************************************************************)
WorthIn(st, item) == Cardinality(Copies(st, item))
CopyWorth(c, item) ==
    IF item = c.item_id THEN Multiplier(c.consume_flags) ELSE 0

LEMMA PromotedWorth ==
    ASSUME TypeOK, NEW c \in Merges, NEW a \in Entries(storage),
           KeptAt(c, a), NEW item
    PROVE  /\ WorthIn(storage, item) \in Nat
           /\ WorthIn(Promoted(c), item) \in Nat
           /\ WorthIn(Promoted(c), item) =
                 WorthIn(storage, item) + CopyWorth(c, item)
<1>1. /\ storage \in Storage /\ Promoted(c) \in Storage /\ a \in Addresses
  BY PromotedIsStorage DEF TypeOK, Entries
<1>2. \A b \in Addresses : b # a => Promoted(c)[b] = storage[b]
  BY PromotedEntry
<1>3. /\ WorthIn(storage, item) \in Nat
      /\ WorthIn(Promoted(c), item) \in Nat
      /\ WorthIn(Promoted(c), item) =
            WorthIn(storage, item) - EntryWorth(storage, item, a)
                + EntryWorth(Promoted(c), item, a)
  BY <1>1, <1>2, WorthOfChange DEF WorthIn
<1>4. /\ a \in Entries(Promoted(c))
      /\ Promoted(c)[a].item_id = c.item_id
      /\ Promoted(c)[a].placement_flags = c.keep_flags \cup {Promotion(c)}
  <2>1. storage[a] \in Entry /\ storage[a].item_id = c.item_id
    BY <1>1, EntriesAreEntries DEF KeptAt
  <2>2. Promoted(c)[a] =
          [storage[a] EXCEPT
              !.placement_flags = c.keep_flags \cup {Promotion(c)}]
    BY PromotedEntry
  <2>3. a \in Entries(Promoted(c))
    BY PromotedEntry
  <2> QED BY <2>1, <2>2, <2>3 DEF Entry
<1>5. /\ Multiplier(c.keep_flags) \in Nat
      /\ Multiplier(c.consume_flags) \in Nat
  BY MultiplierIsSmall
<1>6. EntryWorth(storage, item, a) =
         IF item = c.item_id THEN Multiplier(c.keep_flags) ELSE 0
  BY DEF EntryWorth, KeptAt
<1>7. EntryWorth(Promoted(c), item, a) =
         IF item = c.item_id
         THEN Multiplier(c.keep_flags) + Multiplier(c.consume_flags) ELSE 0
  BY <1>4, PromotionDoubles DEF EntryWorth
<1> QED BY <1>3, <1>5, <1>6, <1>7 DEF CopyWorth

LEMMA ConsumedWorth ==
    ASSUME NEW st \in Storage, NEW c, NEW b \in Entries(st),
           ConsumedAt(st, c, b), NEW item
    PROVE  /\ WorthIn(st, item) \in Nat
           /\ WorthIn(WithoutEntry(st, c.consume_key), item) =
                 WorthIn(st, item) - CopyWorth(c, item)
<1> DEFINE new == WithoutEntry(st, c.consume_key)
<1>1. b \in Addresses /\ new \in Storage
  BY WithoutEntryStorage DEF Entries
<1>2. \A x \in Addresses : x # b => new[x] = st[x]
  BY DEF WithoutEntry, ConsumedAt
<1>3. new[b] = Free
  BY <1>1 DEF WithoutEntry, ConsumedAt
<1>4. b \notin Entries(new)
  BY <1>3 DEF Entries
<1> HIDE DEF new
<1>5. /\ WorthIn(st, item) \in Nat
      /\ WorthIn(new, item) =
            WorthIn(st, item) - EntryWorth(st, item, b)
                + EntryWorth(new, item, b)
  BY <1>1, <1>2, WorthOfChange DEF WorthIn
<1>6. EntryWorth(new, item, b) = 0
  BY <1>4 DEF EntryWorth
<1>7. EntryWorth(st, item, b) = CopyWorth(c, item)
  BY DEF EntryWorth, CopyWorth, ConsumedAt
<1>8. CopyWorth(c, item) \in Nat
  BY MultiplierIsSmall DEF CopyWorth
<1>9. WorthIn(new, item) = WorthIn(st, item) - CopyWorth(c, item)
  BY <1>5, <1>6, <1>7, <1>8
<1> QED BY <1>5, <1>9 DEF new

\* A rollback finds the kept entry and takes the flag from it, or does not
\* find it and changes nothing.
LEMMA RolledBackWorth ==
    ASSUME TypeOK, NEW c \in Merges, NEW a \in Entries(storage),
           KeptAt(c, a), NEW st \in Storage,
           Holding(st, c.keep_key) \subseteq {a},
           a \in Entries(st) => st[a] = Promoted(c)[a],
           NEW item
    PROVE  \/ WorthIn(RolledBack(st, c), item) = WorthIn(st, item)
           \/ WorthIn(RolledBack(st, c), item) =
                 WorthIn(st, item) - CopyWorth(c, item)
<1> DEFINE S == Clearable(st, SceneComponents, signatures, c.keep_key,
                          c.item_id)
           new == RolledBack(st, c)
<1>1. S \subseteq {a} /\ S \subseteq Entries(st)
  BY ClearableAreEntries DEF Clearable, FindEntry
<1>2. new = [b \in Addresses |->
               IF b \in S
               THEN [st[b] EXCEPT !.placement_flags = @ \ {Promotion(c)}]
               ELSE st[b]]
  BY DEF RolledBack, ClearFlag
<1> HIDE DEF S
<1>3. CASE S = {}
  <2>1. new = st
    BY <1>2, <1>3 DEF Storage
  <2> QED BY <2>1
<1>4. CASE S # {}
  <2>1. S = {a} /\ a \in Entries(st) /\ a \in Addresses
    BY <1>1, <1>4 DEF Entries
  <2>2. storage[a] \in Entry
    BY EntriesAreEntries DEF TypeOK
  <2>3. /\ st[a] = Promoted(c)[a]
        /\ st[a] \in Entry
        /\ st[a].item_id = c.item_id
        /\ st[a].placement_flags = c.keep_flags \cup {Promotion(c)}
    <3>1. st[a] = Promoted(c)[a] /\ st[a] \in Entry
      BY <2>1, PromotedEntry
    <3>2. st[a] = [storage[a] EXCEPT
                     !.placement_flags = c.keep_flags \cup {Promotion(c)}]
      BY <3>1, PromotedEntry
    <3> QED BY <2>2, <3>1, <3>2 DEF Entry, KeptAt
  <2>4. /\ new[a] \in Entry
        /\ new[a].item_id = c.item_id
        /\ new[a].placement_flags = c.keep_flags
    <3>1. new[a] = [st[a] EXCEPT !.placement_flags = @ \ {Promotion(c)}]
      BY <1>2, <2>1
    <3>2. (c.keep_flags \cup {Promotion(c)}) \ {Promotion(c)} = c.keep_flags
      BY PromotionDoubles
    <3>3. c.keep_flags \in Flags
      BY <2>2 DEF Entry, KeptAt
    <3> HIDE DEF new
    <3> QED BY <2>3, <3>1, <3>2, <3>3 DEF Entry
  <2>5. a \in Entries(new)
    BY <2>1, <2>4, MarkersAssumption DEF Entries
  <2>6. new \in Storage
    BY RolledBackIsStorage
  <2>7. \A b \in Addresses : b # a => new[b] = st[b]
    BY <1>2, <2>1
  <2> HIDE DEF new
  <2>8. /\ WorthIn(st, item) \in Nat
        /\ WorthIn(new, item) =
              WorthIn(st, item) - EntryWorth(st, item, a)
                  + EntryWorth(new, item, a)
    BY <2>1, <2>6, <2>7, WorthOfChange DEF WorthIn
  <2>9. /\ Multiplier(c.keep_flags) \in Nat
        /\ Multiplier(c.consume_flags) \in Nat
    BY MultiplierIsSmall
  <2>10. EntryWorth(st, item, a) =
            IF item = c.item_id
            THEN Multiplier(c.keep_flags) + Multiplier(c.consume_flags)
            ELSE 0
    BY <2>1, <2>3, PromotionDoubles DEF EntryWorth
  <2>11. EntryWorth(new, item, a) =
            IF item = c.item_id THEN Multiplier(c.keep_flags) ELSE 0
    BY <2>4, <2>5 DEF EntryWorth
  <2>12. WorthIn(new, item) = WorthIn(st, item) - CopyWorth(c, item)
    BY <2>8, <2>9, <2>10, <2>11 DEF CopyWorth
  <2> QED BY <2>12 DEF new
<1> QED BY <1>3, <1>4

\* What is left in the kept entry's place before a rollback.
LEMMA LeftOfPair ==
    ASSUME TypeOK, NEW c \in Merges, NEW a \in Entries(storage),
           KeptAt(c, a),
           NEW st \in {Promoted(c), WithoutEntry(Promoted(c), c.consume_key)}
    PROVE  /\ st \in Storage
           /\ Holding(st, c.keep_key) \subseteq {a}
           /\ a \in Entries(st) => st[a] = Promoted(c)[a]
<1>1. st \in Storage
  BY PromotedIsStorage, WithoutEntryStorage
<1>2. storage[a] \in Entry /\ a \in Addresses
  BY EntriesAreEntries DEF TypeOK
<1>3. Holding(Promoted(c), c.keep_key) \subseteq {a}
  <2>1. /\ \A b \in Addresses : b # a => Promoted(c)[b] = storage[b]
        /\ Entries(Promoted(c)) = Entries(storage)
    BY PromotedEntry
  <2>2. Holding(storage, c.keep_key) = {a}
    BY DEF KeptAt
  <2> QED BY <2>1, <2>2 DEF Holding, Entries
<1>4. /\ Holding(st, c.keep_key) \subseteq Holding(Promoted(c), c.keep_key)
      /\ a \in Entries(st) => st[a] = Promoted(c)[a]
  BY <1>2 DEF WithoutEntry, Holding, Entries
<1> QED BY <1>1, <1>3, <1>4
-----------------------------------------------------------------------------
(***************************************************************************)
(* The ways to write to the storage, as every step sees them.              *)
(***************************************************************************)
LEMMA StorageSteps ==
    ASSUME [Next]_vars
    PROVE  \/ storage' = storage /\ UNCHANGED history
           \/ /\ FurnitureModeActive \/ dialog
              /\ furniture_mode' = furniture_mode /\ moves' = moves
              /\ sealed_moves' \in {sealed_moves, moves}
              /\ \E keys : storage' = OutOfRooms(storage, keys)
           \/ \E key \in BOOLEAN :
                 PairCompleted(key) \/ PromoteRaises(key) \/ ConsumeFails(key)
           \/ Move
<1>1. Seals \/ SealFails =>
         /\ furniture_mode' = furniture_mode /\ moves' = moves
         /\ sealed_moves' \in {sealed_moves, moves}
         /\ \E keys : storage' = OutOfRooms(storage, keys)
  <2>1. CASE Seals
    BY <2>1 DEF Seals, PutsAway
  <2>2. CASE SealFails
    <3>1. UNCHANGED history
      BY <2>2 DEF SealFails
    <3> QED BY <2>2, <3>1, SealFailsStores DEF history
  <2> QED BY <2>1, <2>2
<1>2. CASE SceneReadyHook
  BY <1>1, <1>2
  DEF SceneReadyHook, FrameIdle, HandleCombineWithoutCatalog,
      HandleCombineFindsNothing, HandleCombinePreviews, HandleCombine,
      HandleCombineSeals, HandleCombineStoreFails, AwaitPurge,
      AwaitFurnitureExit, ConfirmReopened, ConfirmAccepts, ConfirmRejects,
      Pause, PromoteRefused, ExecutesPair, StageFrame, FrameOfBatch,
      ChangesStage, history, game
<1>3. CASE Dialog
  BY <1>1, <1>3 DEF Dialog, DialogCancelled, DialogConfirmedTooLate,
                    DialogConfirmed, history, game
<1>4. CASE FurnitureModeEnterHook \/ Shutdown
  BY <1>4 DEF FurnitureModeEnterHook, Shutdown, history, game
<1>5. CASE Outside
  BY <1>5 DEF Outside, LeaveFurnitureMode, SceneReadabilityChanges,
              PurgeComponent, PlayerPutsAway, GameUnloadsPiece, PlayerPlaces,
              GameLoadsPiece, GameLoses, EntryBecomesUnreadable,
              GameConverts, GameAcquires, CodeIsPatched,
              history
<1>6. CASE UNCHANGED vars
  BY <1>6 DEF vars, history, game
<1> QED BY <1>2, <1>3, <1>4, <1>5, <1>6 DEF Next

LEMMA PutsAwayKeepsWorth ==
    ASSUME TypeOK, NEW keys, storage' = OutOfRooms(storage, keys), NEW item
    PROVE  Copies(storage', item) = Copies(storage, item)
<1>1. storage' = OutOfRooms(storage, keys)
  OBVIOUS
<1>2. ASSUME NEW a \in Addresses
      PROVE  /\ a \in Entries(storage') <=> a \in Entries(storage)
             /\ a \in Entries(storage) =>
                   /\ storage'[a].item_id = storage[a].item_id
                   /\ storage'[a].placement_flags =
                        storage[a].placement_flags
  <2>1. CASE a \in Entries(storage)
    <3>1. storage[a] \in Entry
      BY <2>1, EntriesAreEntries DEF TypeOK
    <3>2. /\ storage'[a] \in Entry
          /\ storage'[a].item_id = storage[a].item_id
          /\ storage'[a].placement_flags = storage[a].placement_flags
      BY <1>1, <3>1 DEF OutOfRooms, Entry
    <3> QED BY <2>1, <3>2, MarkersAssumption DEF Entries
  <2>2. CASE a \notin Entries(storage)
    BY <1>1, <2>2 DEF OutOfRooms, Entries
  <2> QED BY <2>1, <2>2
<1> QED BY <1>2 DEF Copies

OneCopyAtMost ==
    \A item \in Items :
       \/ Worth(item)' = Worth(item)
       \/ /\ busy /\ ~busy'
          /\ item = Candidate.item_id
          /\ LET copy == Multiplier(Candidate.consume_flags)
             IN  Worth(item)' \in {Worth(item) - copy, Worth(item) + copy}

LEMMA PairKeepsWorth ==
    ASSUME TypeOK, SealedPairsAreMerges, NEW key \in BOOLEAN,
           PairCompleted(key)
    PROVE  OneCopyAtMost
<1> DEFINE c == Candidate
<1>1. /\ c \in Merges /\ CanPromote(c) /\ CanConsumeFrom(Promoted(c), c)
      /\ storage' = WithoutEntry(Promoted(c), c.consume_key)
  BY PairOfBatch DEF PairCompleted
<1> HIDE DEF c
<1>2. PICK a \in Entries(storage) : KeptAt(c, a)
  BY <1>1, PromotesOneEntry
<1>3. Promoted(c) \in Storage
  BY PromotedIsStorage
<1>4. PICK b \in Entries(Promoted(c)) : ConsumedAt(Promoted(c), c, b)
  BY <1>1, <1>3, ConsumesOneEntry
<1>5. ASSUME NEW item
      PROVE  WorthIn(storage', item) = WorthIn(storage, item)
  <2>1. /\ WorthIn(storage, item) \in Nat
        /\ WorthIn(Promoted(c), item) =
              WorthIn(storage, item) + CopyWorth(c, item)
    BY <1>1, <1>2, PromotedWorth
  <2>2. WorthIn(storage', item) =
           WorthIn(Promoted(c), item) - CopyWorth(c, item)
    BY <1>1, <1>3, <1>4, ConsumedWorth
  <2>3. CopyWorth(c, item) \in Nat
    BY MultiplierIsSmall DEF CopyWorth
  <2> QED BY <2>1, <2>2, <2>3
<1> QED BY <1>5 DEF OneCopyAtMost, Worth, WorthIn

LEMMA RaisedPromotionCostsOneCopy ==
    ASSUME TypeOK, SealedPairsAreMerges, NEW key \in BOOLEAN,
           PromoteRaises(key)
    PROVE  OneCopyAtMost
<1> DEFINE c == Candidate
<1>1. c \in Merges /\ CanPromote(c) /\ storage' = Promoted(c)
  BY PairOfBatch DEF PromoteRaises
<1>2. busy /\ ~busy'
  BY DEF PromoteRaises, ExecutesPair, StageFrame, FrameOfBatch, ClearBatch
<1> HIDE DEF c
<1>3. PICK a \in Entries(storage) : KeptAt(c, a)
  BY <1>1, PromotesOneEntry
<1>4. ASSUME NEW item \in Items
      PROVE  \/ WorthIn(storage', item) = WorthIn(storage, item)
             \/ /\ item = c.item_id
                /\ WorthIn(storage', item) =
                      WorthIn(storage, item) + Multiplier(c.consume_flags)
  <2>1. /\ WorthIn(storage, item) \in Nat
        /\ WorthIn(storage', item) =
              WorthIn(storage, item) + CopyWorth(c, item)
    BY <1>1, <1>3, PromotedWorth
  <2> QED BY <2>1 DEF CopyWorth
<1> QED BY <1>2, <1>4 DEF OneCopyAtMost, Worth, WorthIn, c

LEMMA FailureCostsOneCopy ==
    ASSUME TypeOK, SealedPairsAreMerges, NEW key \in BOOLEAN,
           ConsumeFails(key)
    PROVE  OneCopyAtMost
<1> DEFINE c == Candidate
<1>1. c \in Merges /\ CanPromote(c)
  BY PairOfBatch DEF ConsumeFails
<1>2. busy /\ ~busy'
  BY DEF ConsumeFails, ExecutesPair, StageFrame, FrameOfBatch, ClearBatch
<1>3. PICK left :
         /\ \/ left = Promoted(c)
            \/ /\ left = WithoutEntry(Promoted(c), c.consume_key)
               /\ CanConsumeFrom(Promoted(c), c)
         /\ storage' = RolledBack(left, c) \/ storage' = left
  BY DEF ConsumeFails
<1> HIDE DEF c
<1>4. PICK a \in Entries(storage) : KeptAt(c, a)
  BY <1>1, PromotesOneEntry
<1>5. Promoted(c) \in Storage
  BY PromotedIsStorage
<1>6. ASSUME NEW item
      PROVE  \/ WorthIn(storage', item) = WorthIn(storage, item)
             \/ WorthIn(storage', item) \in
                  {WorthIn(storage, item) - CopyWorth(c, item),
                   WorthIn(storage, item) + CopyWorth(c, item)}
  <2>1. /\ WorthIn(storage, item) \in Nat
        /\ WorthIn(Promoted(c), item) =
              WorthIn(storage, item) + CopyWorth(c, item)
    BY <1>1, <1>4, PromotedWorth
  <2>2. CopyWorth(c, item) \in Nat
    BY MultiplierIsSmall DEF CopyWorth
  <2>3. \/ WorthIn(left, item) = WorthIn(Promoted(c), item)
           /\ left = Promoted(c)
        \/ WorthIn(left, item) =
              WorthIn(Promoted(c), item) - CopyWorth(c, item)
    <3>1. CASE left = Promoted(c)
      BY <3>1
    <3>2. CASE /\ left = WithoutEntry(Promoted(c), c.consume_key)
               /\ CanConsumeFrom(Promoted(c), c)
      <4>1. PICK b \in Entries(Promoted(c)) : ConsumedAt(Promoted(c), c, b)
        BY <1>5, <3>2, ConsumesOneEntry
      <4> QED BY <1>5, <3>2, <4>1, ConsumedWorth
    <3> QED BY <1>3, <3>1, <3>2
  <2>4. \/ WorthIn(storage', item) = WorthIn(left, item)
        \/ WorthIn(storage', item) =
              WorthIn(left, item) - CopyWorth(c, item)
    <3>1. left \in {Promoted(c), WithoutEntry(Promoted(c), c.consume_key)}
      BY <1>3
    <3>2. /\ left \in Storage
          /\ Holding(left, c.keep_key) \subseteq {a}
          /\ a \in Entries(left) => left[a] = Promoted(c)[a]
      BY <1>1, <1>4, <3>1, LeftOfPair
    <3>3. \/ WorthIn(RolledBack(left, c), item) = WorthIn(left, item)
          \/ WorthIn(RolledBack(left, c), item) =
                WorthIn(left, item) - CopyWorth(c, item)
      BY <1>1, <1>4, <3>2, RolledBackWorth
    <3> QED BY <1>3, <3>3
  <2> QED BY <2>1, <2>2, <2>3, <2>4
<1>7. ASSUME NEW item \in Items
      PROVE  \/ WorthIn(storage', item) = WorthIn(storage, item)
             \/ /\ item = c.item_id
                /\ WorthIn(storage', item) \in
                     {WorthIn(storage, item) - Multiplier(c.consume_flags),
                      WorthIn(storage, item) + Multiplier(c.consume_flags)}
  <2>1. WorthIn(storage, item) \in Nat
    BY <1>1, <1>4, PromotedWorth
  <2>2. CASE item = c.item_id
    BY <1>6, <2>2 DEF CopyWorth
  <2>3. CASE item # c.item_id
    BY <1>6, <2>1, <2>3 DEF CopyWorth
  <2> QED BY <2>2, <2>3
<1> QED BY <1>2, <1>7 DEF OneCopyAtMost, Worth, WorthIn, c

(***************************************************************************)
(* Whatever call of a pair fails, and however its rollback ends: a step of *)
(* the mod changes the worth of the furniture only when it stops the       *)
(* batch, and then of one item, by the copy that was to be consumed.       *)
(* (ProcessBatch, lines 637-657 of mod_main.cpp.)                          *)
(***************************************************************************)
THEOREM DamageIsAlwaysOneCopy == Spec => DamageIsOneCopy
<1>1. ASSUME TypeOK, SealedPairsAreMerges, [Next]_vars, moves' = moves
      PROVE  OneCopyAtMost
  <2>1. CASE storage' = storage
    BY <2>1 DEF OneCopyAtMost, Worth, Copies, Entries
  <2>2. CASE \E keys : storage' = OutOfRooms(storage, keys)
    BY <1>1, <2>2, PutsAwayKeepsWorth DEF OneCopyAtMost, Worth
  <2>3. CASE \E key \in BOOLEAN :
               PairCompleted(key) \/ PromoteRaises(key) \/ ConsumeFails(key)
    BY <1>1, <2>3, PairKeepsWorth, RaisedPromotionCostsOneCopy,
       FailureCostsOneCopy
  <2>4. ~Move
    BY <1>1 DEF Move, TypeOK
  <2> QED BY <1>1, <2>1, <2>2, <2>3, <2>4, StorageSteps
<1>2. TypeOK /\ SealedPairsAreMerges /\ [Next]_vars =>
         [moves' = moves =>
            \A item \in Items :
               \/ Worth(item)' = Worth(item)
               \/ /\ busy /\ ~busy'
                  /\ item = Candidate.item_id
                  /\ LET copy == Multiplier(Candidate.consume_flags)
                     IN  Worth(item)' \in {Worth(item) - copy,
                                           Worth(item) + copy}]_vars
  BY <1>1 DEF OneCopyAtMost
<1> QED BY <1>2, SealedPairsAreAlwaysMerges, TypeCorrect, PTL
        DEF Spec, DamageIsOneCopy
-----------------------------------------------------------------------------
(***************************************************************************)
(* Why a batch is not stopped: as long as nobody else moves, the two       *)
(* copies of every pair that is left are in the storage as they were       *)
(* sealed, and no piece shows the one to be consumed; and before the first *)
(* pair of a batch that put nothing away, the scan offers the sealed plan. *)
(***************************************************************************)
Undisturbed == busy /\ ~dialog /\ moves = sealed_moves

StillSealed(st, co, c) ==
    /\ Sealed(st, c.keep_key, c.item_id, c.keep_flags) # {}
    /\ Sealed(st, c.consume_key, c.item_id, c.consume_flags) # {}
    /\ FindPieces(st, co, c.consume_key) = {}

PairsLeftAreSealed ==
    Undisturbed =>
        /\ signatures
        /\ \A n \in DOMAIN candidates :
              n > next_index => StillSealed(storage, components,
                                            candidates[n])
PlanIsOffered ==
    Undisturbed /\ next_index = 0 /\ ~NeedsRecall =>
        ScanComplete /\ Offered = candidates

Intact ==
    /\ sealed_moves <= moves
    /\ PairsLeftAreSealed
    /\ PlanIsOffered

LEMMA SealingPutsCopiesAway ==
    ASSUME TypeOK, PiecesShowPlaced, scene_readable, Seals,
           NEW n \in DOMAIN Offered
    PROVE  /\ signatures' /\ signatures
           /\ StillSealed(storage', components', Offered[n])
<1> DEFINE plan == Offered
           keys == RecallKeys(plan, Len(plan))
           c == plan[n]
           scan == Scan(storage, components, signatures)
<1>1. /\ PutsAway(keys)
      /\ Present = scan /\ SceneComponents = components
      /\ plan = FindCandidates(scan)
  BY DEF Seals, Present, Offered, SceneComponents
<1>2. /\ storage \in Storage /\ components \in Components
      /\ signatures \in BOOLEAN
  BY DEF TypeOK
<1>3. scan \in Snapshot
  BY <1>2, ScanIsSnapshot
<1>4. n \in DOMAIN plan /\ plan \in Seq(Merges)
  BY OfferedArePlans
<1> HIDE DEF plan
<1>5. PICK keep \in Range(scan.furniture), consume \in Range(scan.furniture) :
         Names(c, keep, consume)
  BY <1>1, <1>3, <1>4, FindCandidatesNameCopies
<1>6. scan.complete /\ ~HasDuplicateStableKeys(scan.furniture)
  BY <1>1, <1>3, <1>4, FindCandidatesNameCopies
<1>7. c.keep_flags = c.consume_flags
  BY <1>4 DEF Merges, PairIsMerge
<1> HIDE DEF c
<1>8. /\ Sealed(storage, c.keep_key, c.item_id, c.keep_flags) # {}
      /\ Sealed(storage, c.consume_key, c.item_id, c.consume_flags) # {}
  BY <1>2, <1>5, <1>6, <1>7, ScannedIsSealed DEF Names
<1>9. /\ storage' = OutOfRooms(storage, keys)
      /\ components' = QueuedForDeletion(components,
                UNION {FindPieces(storage, components, k) : k \in keys})
      /\ signatures' = signatures
  BY <1>1 DEF PutsAway, PiecesOf
<1>10. c.consume_key \in keys
          \/ FindPieces(storage, components, c.consume_key) = {}
  <2>1. CASE c.consume_placed
    <3>1. n \in 1..Len(plan)
      BY <1>4
    <3> QED BY <2>1, <3>1 DEF RecallKeys, c
  <2>2. CASE ~c.consume_placed
    <3>1. PICK a \in Entries(storage) :
             /\ Holding(storage, consume.stable_key) = {a}
             /\ consume = Seen(storage, components, a)
      BY <1>2, <1>5, <1>6, ScanNamesEntries
    <3>2. ~storage[a].placed
      BY <1>5, <2>2, <3>1 DEF Names, Seen
    <3> QED BY <1>5, <3>1, <3>2, StoredIsNotShown
            DEF Names, PiecesShowPlaced
  <2> QED BY <2>1, <2>2
<1> HIDE DEF keys
<1>11. FindPieces(storage', components', c.consume_key) = {}
  BY <1>2, <1>9, <1>10, PuttingAwayHides
<1>12. /\ Sealed(storage', c.keep_key, c.item_id, c.keep_flags) # {}
       /\ Sealed(storage', c.consume_key, c.item_id, c.consume_flags) # {}
  BY <1>2, <1>8, <1>9, PuttingAwayKeepsSealed
<1>13. signatures
  BY <1>2, <1>5, <1>6, ScanNamesEntries
<1> QED BY <1>9, <1>11, <1>12, <1>13 DEF StillSealed, c, plan

\* A sealed plan that puts nothing away is what the next scan offers.
LEMMA SealingKeepsPlan ==
    ASSUME TypeOK, Seals, ~NeedsRecall'
    PROVE  (ScanComplete /\ Offered = candidates)'
<1> DEFINE keys == RecallKeys(Offered, Len(Offered))
<1>1. /\ PutsAway(keys) /\ candidates' = Offered /\ ScanComplete
  BY DEF Seals
<1>2. Offered \in Seq(CombineCandidate)
  BY OfferedArePlans
<1>3. keys = {}
  BY <1>1, <1>2 DEF RecallKeys, NeedsRecall
<1>4. storage \in Storage /\ components \in Components
  BY DEF TypeOK
<1> HIDE DEF keys
<1>5. storage' = storage /\ components' = components
  BY <1>1, <1>3, <1>4
  DEF PutsAway, OutOfRooms, PiecesOf, QueuedForDeletion, Storage, Components
<1>6. scene_readable' = scene_readable /\ signatures' = signatures
  BY <1>1 DEF PutsAway
<1>7. Present' = Present
  BY <1>5, <1>6 DEF Present, SceneComponents
<1> QED BY <1>1, <1>7 DEF ScanComplete, Offered

LEMMA PromotedKeepsOthers ==
    ASSUME TypeOK, NEW c \in Merges, NEW a \in Entries(storage), KeptAt(c, a),
           NEW key, key # c.keep_key, NEW item, NEW flags
    PROVE  /\ Holding(Promoted(c), key) = Holding(storage, key)
           /\ Sealed(storage, key, item, flags) \subseteq
                 Sealed(Promoted(c), key, item, flags)
<1> DEFINE new == Promoted(c)
<1>1. /\ \A b \in Addresses : b # a => new[b] = storage[b]
      /\ new[a] \in Entry /\ Entries(new) = Entries(storage)
      /\ new[a].stable_key = storage[a].stable_key
  <2>1. storage[a] \in Entry
    BY EntriesAreEntries DEF TypeOK
  <2> QED BY <2>1, PromotedEntry DEF Entry
<1>2. a \notin Holding(storage, key) /\ storage[a].stable_key = c.keep_key
  BY DEF KeptAt, Holding
<1> HIDE DEF new
<1>3. Holding(new, key) = Holding(storage, key)
  BY <1>1, <1>2 DEF Holding, Entries
<1>4. /\ \A b \in Holding(storage, key) : new[b] = storage[b]
      /\ \A b \in Addresses : new[b] = Garbage => storage[b] = Garbage
  BY <1>1, <1>2, MarkersAssumption DEF Holding, Entries
<1>5. Sealed(storage, key, item, flags) \subseteq
         Sealed(new, key, item, flags)
  BY <1>3, <1>4, SealedIsKept
<1> QED BY <1>3, <1>5 DEF new

\* Both calls of a pair that is still sealed succeed.
LEMMA SealedPairSucceeds ==
    ASSUME TypeOK, scene_readable, signatures, NEW c \in Merges,
           StillSealed(storage, components, c)
    PROVE  CanPromote(c) /\ CanConsumeFrom(Promoted(c), c)
<1>1. CanPromote(c)
  BY DEF CanPromote, CanSetRare, CanSetEnhanced, StillSealed, Merges,
         PairIsMerge
<1>2. PICK a \in Entries(storage) : KeptAt(c, a)
  BY <1>1, PromotesOneEntry
<1>3. c.consume_key # c.keep_key
  BY DEF Merges, PairIsMerge
<1>4. /\ Holding(Promoted(c), c.consume_key) =
            Holding(storage, c.consume_key)
      /\ Sealed(Promoted(c), c.consume_key, c.item_id, c.consume_flags) # {}
  BY <1>2, <1>3, PromotedKeepsOthers DEF StillSealed
<1>5. FindPieces(Promoted(c), components, c.consume_key) = {}
  BY <1>4 DEF FindPieces, StillSealed
<1> QED BY <1>1, <1>4, <1>5 DEF CanConsumeFrom, CanConsume, SceneComponents

\* A pair that was combined leaves the other pairs sealed.
LEMMA PairKeepsOthersSealed ==
    ASSUME TypeOK, NEW c \in Merges, CanPromote(c), NEW d,
           KeysOf(d) \cap KeysOf(c) = {},
           StillSealed(storage, components, d)
    PROVE  StillSealed(WithoutEntry(Promoted(c), c.consume_key), components,
                       d)
<1> DEFINE new == WithoutEntry(Promoted(c), c.consume_key)
<1>1. PICK a \in Entries(storage) : KeptAt(c, a)
  BY PromotesOneEntry
<1>2. ASSUME NEW key \in KeysOf(d), NEW item, NEW flags
      PROVE  /\ Holding(new, key) = Holding(storage, key)
             /\ Sealed(storage, key, item, flags) \subseteq
                   Sealed(new, key, item, flags)
  <2>1. key # c.keep_key /\ key # c.consume_key
    BY DEF KeysOf
  <2>2. Promoted(c) \in Storage
    BY PromotedIsStorage
  <2>3. /\ Holding(Promoted(c), key) = Holding(storage, key)
        /\ Sealed(storage, key, item, flags) \subseteq
              Sealed(Promoted(c), key, item, flags)
    BY <1>1, <2>1, PromotedKeepsOthers
  <2>4. /\ Holding(new, key) = Holding(Promoted(c), key)
        /\ Sealed(Promoted(c), key, item, flags) \subseteq
              Sealed(new, key, item, flags)
    BY <2>1, <2>2, RemovingKeepsSealed
  <2> QED BY <2>3, <2>4
<1> HIDE DEF new
<1>3. d.keep_key \in KeysOf(d) /\ d.consume_key \in KeysOf(d)
  BY DEF KeysOf
<1>4. FindPieces(new, components, d.consume_key) = {}
  BY <1>2, <1>3 DEF FindPieces, StillSealed
<1>5. /\ Sealed(new, d.keep_key, d.item_id, d.keep_flags) # {}
      /\ Sealed(new, d.consume_key, d.item_id, d.consume_flags) # {}
  BY <1>2, <1>3 DEF StillSealed
<1> QED BY <1>4, <1>5 DEF StillSealed, new

\* A step in which no pair is executed and nobody moves.
Quiet ==
    /\ UNCHANGED <<storage, signatures, candidates, next_index, busy, dialog,
                   history>>
    /\ components' = components \/ \E p \in Pieces : PurgeComponent(p)

\* What a step can do to a batch: end it, seal it, execute one of its pairs,
\* disturb it, or none of these.
LEMMA BatchSteps ==
    ASSUME TypeOK, [Next]_vars
    PROVE  \/ (~busy' \/ dialog') /\ UNCHANGED history
           \/ Seals
           \/ \E key \in BOOLEAN : PairCompleted(key)
           \/ Move
           \/ Quiet
<1> DEFINE Ends == (~busy' \/ dialog') /\ UNCHANGED history
<1>1. CASE SceneReadyHook
  <2>1. ASSUME NEW key \in BOOLEAN, NEW expired \in BOOLEAN,
               \/ FrameIdle(key, expired)
               \/ HandleCombineWithoutCatalog(key, expired)
               \/ HandleCombineFindsNothing(key, expired)
               \/ HandleCombinePreviews(key, expired)
               \/ HandleCombineStoreFails(key, expired)
        PROVE  Ends
    BY <2>1
    DEF FrameIdle, HandleCombineWithoutCatalog, HandleCombineFindsNothing,
        HandleCombinePreviews, HandleCombineStoreFails, SealFails,
        ClearBatch, TypeOK
  <2>2. ASSUME NEW key \in BOOLEAN,
               \/ ConfirmRejects(key) \/ PromoteRefused(key)
               \/ PromoteRaises(key) \/ ConsumeFails(key)
        PROVE  Ends
    BY <2>2
    DEF ConfirmRejects, PromoteRefused, PromoteRaises, ConsumeFails,
        ExecutesPair, StageFrame, FrameOfBatch, ClearBatch
  <2>3. ASSUME NEW key \in BOOLEAN,
               \/ AwaitPurge(key) \/ AwaitFurnitureExit(key)
               \/ ConfirmReopened(key) \/ ConfirmAccepts(key) \/ Pause(key)
        PROVE  Quiet
    BY <2>3
    DEF AwaitPurge, AwaitFurnitureExit, ConfirmReopened, ConfirmAccepts,
        Pause, StageFrame, FrameOfBatch, ChangesStage, game, Quiet
  <2> QED BY <1>1, <2>1, <2>2, <2>3 DEF SceneReadyHook, HandleCombineSeals
<1>2. CASE Dialog
  BY <1>2 DEF Dialog, DialogCancelled, DialogConfirmedTooLate,
              DialogConfirmed, SealFails, ClearBatch
<1>3. CASE \/ FurnitureModeEnterHook \/ Shutdown \/ LeaveFurnitureMode
           \/ SceneReadabilityChanges \/ UNCHANGED vars
  BY <1>3
  DEF FurnitureModeEnterHook, Shutdown, LeaveFurnitureMode,
      SceneReadabilityChanges, vars, game, batch, Quiet
<1>4. CASE \E p \in Pieces : PurgeComponent(p)
  BY <1>4 DEF PurgeComponent, batch, Quiet
<1>5. CASE Outside
  <2>1. \/ LeaveFurnitureMode \/ SceneReadabilityChanges \/ Move
        \/ \E p \in Pieces : PurgeComponent(p)
    BY <1>5
    DEF Outside, PlayerPutsAway, GameUnloadsPiece, PlayerPlaces,
        GameLoadsPiece, GameLoses, EntryBecomesUnreadable, GameConverts,
        GameAcquires, CodeIsPatched
  <2> QED BY <2>1, <1>3, <1>4
<1> QED BY <1>1, <1>2, <1>3, <1>5 DEF Next

LEMMA QuietKeepsPieces ==
    ASSUME TypeOK, Quiet, NEW key
    PROVE  FindPieces(storage, components', key)
              = FindPieces(storage, components, key)
<1>1. CASE components' = components
  BY <1>1
<1>2. ASSUME NEW p \in Pieces, PurgeComponent(p)
      PROVE  FindPieces(storage, components', key)
                = FindPieces(storage, components, key)
  BY <1>2, PurgingKeepsPieces DEF PurgeComponent, TypeOK
<1> QED BY <1>1, <1>2 DEF Quiet

LEMMA IntactWhenQuiet ==
    ASSUME TypeOK, Intact, scene_readable, scene_readable', Quiet
    PROVE  Intact'
<1>1. /\ storage' = storage /\ signatures' = signatures
      /\ candidates' = candidates /\ next_index' = next_index
      /\ moves' = moves /\ sealed_moves' = sealed_moves
      /\ Undisturbed' = Undisturbed
  BY DEF Quiet, history, Undisturbed
<1>2. \A key : FindPieces(storage', components', key)
                  = FindPieces(storage, components, key)
  BY <1>1, QuietKeepsPieces
<1>3. Scan(storage', components', signatures')
         = Scan(storage, components, signatures)
  BY <1>1, <1>2, ScanSeesPieces
<1>4. Present' = Present
  BY <1>3 DEF Present, SceneComponents
<1>5. PairsLeftAreSealed'
  BY <1>1, <1>2 DEF Intact, PairsLeftAreSealed, StillSealed
<1>6. PlanIsOffered'
  BY <1>1, <1>4 DEF Intact, PlanIsOffered, NeedsRecall, ScanComplete, Offered
<1> QED BY <1>1, <1>5, <1>6 DEF Intact

LEMMA IntactWhenSealed ==
    ASSUME TypeOK, PiecesShowPlaced, scene_readable, Seals
    PROVE  Intact'
<1>1. /\ candidates' = Offered /\ sealed_moves' = moves' /\ moves' = moves
      /\ Offered # <<>>
  BY DEF Seals
<1>2. \A n \in DOMAIN Offered :
         signatures' /\ StillSealed(storage', components', Offered[n])
  BY SealingPutsCopiesAway
<1>3. 1 \in DOMAIN Offered
  <2>1. Offered \in Seq(CombineCandidate)
    BY OfferedArePlans
  <2> QED BY <1>1, <2>1
<1>4. PairsLeftAreSealed'
  BY <1>1, <1>2, <1>3 DEF PairsLeftAreSealed
<1>5. PlanIsOffered'
  BY SealingKeepsPlan DEF PlanIsOffered
<1>6. moves \in Nat
  BY DEF TypeOK
<1> QED BY <1>1, <1>4, <1>5, <1>6 DEF Intact

LEMMA IntactAfterPair ==
    ASSUME TypeOK, Intact, SealedPlanIsSound, NEW key \in BOOLEAN,
           PairCompleted(key)
    PROVE  Intact'
<1>1. /\ Candidate \in Merges /\ CanPromote(Candidate)
      /\ storage' = WithoutEntry(Promoted(Candidate),
                                 Candidate.consume_key)
      /\ components' = components /\ signatures' = signatures
      /\ moves' = moves /\ sealed_moves' = sealed_moves
      /\ dialog' = dialog /\ busy
  BY PairOfBatch
  DEF PairCompleted, ExecutesPair, StageFrame, FrameOfBatch, history,
      SealedPlanIsSound
<1>2. CASE next_index + 1 = Len(candidates)
  <2>1. ~busy'
    BY <1>2 DEF PairCompleted, ClearBatch
  <2> QED BY <1>1, <2>1
          DEF Intact, PairsLeftAreSealed, PlanIsOffered, Undisturbed
<1>3. CASE next_index + 1 # Len(candidates)
  <2>1. /\ next_index' = next_index + 1 /\ candidates' = candidates
        /\ busy' = busy
    BY <1>3 DEF PairCompleted
  <2>2. next_index \in Nat /\ Len(candidates) \in Nat
        /\ DOMAIN candidates = 1..Len(candidates)
    BY DEF TypeOK
  <2>3. next_index + 1 \in DOMAIN candidates
    <3>1. next_index < Len(candidates)
      BY DEF PairCompleted, ExecutesPair
    <3> QED BY <2>2, <3>1
  <2>4. ASSUME Undisturbed, NEW n \in DOMAIN candidates, n > next_index + 1
        PROVE  StillSealed(storage', components', candidates[n])
    <3>1. n > next_index /\ n # next_index + 1
      BY <2>2, <2>4
    <3>2. StillSealed(storage, components, candidates[n])
      BY <2>4, <3>1 DEF Intact, PairsLeftAreSealed
    <3>3. KeysOf(candidates[n]) \cap KeysOf(Candidate) = {}
      BY <2>3, <3>1
      DEF SealedPlanIsSound, SealedPairsAreDisjoint, KeysOf, Candidate
    <3> QED BY <1>1, <3>2, <3>3, PairKeepsOthersSealed
  <2>5. Undisturbed' = Undisturbed
    BY <1>1, <2>1 DEF Undisturbed
  <2>6. PairsLeftAreSealed'
    BY <1>1, <2>1, <2>4, <2>5 DEF Intact, PairsLeftAreSealed
  <2>7. PlanIsOffered'
    BY <2>1, <2>2 DEF PlanIsOffered
  <2> QED BY <1>1, <2>6, <2>7 DEF Intact
<1> QED BY <1>2, <1>3

LEMMA IntactStep ==
    ASSUME TypeOK, Intact, SealedPlanIsSound, PiecesShowPlaced,
           scene_readable, scene_readable', [Next]_vars
    PROVE  Intact'
<1>1. CASE (~busy' \/ dialog') /\ UNCHANGED history
  BY <1>1 DEF Intact, PairsLeftAreSealed, PlanIsOffered, Undisturbed, history
<1>2. CASE Move
  <2>1. moves' = moves + 1 /\ sealed_moves' = sealed_moves
    BY <1>2 DEF Move
  <2>2. /\ moves \in Nat /\ sealed_moves \in Nat /\ sealed_moves <= moves
    BY DEF TypeOK, Intact
  <2>3. moves' # sealed_moves' /\ sealed_moves' <= moves'
    BY <2>1, <2>2
  <2> QED BY <2>3 DEF Intact, PairsLeftAreSealed, PlanIsOffered, Undisturbed
<1> QED BY <1>1, <1>2, BatchSteps, IntactWhenQuiet, IntactWhenSealed,
           IntactAfterPair

\* Who stops a batch: its validation, or one of the two calls of a pair.
LEMMA WhoStops ==
    ASSUME TypeOK, [Next]_vars, BatchStops
    PROVE  \E key \in BOOLEAN :
              \/ ConfirmRejects(key)
              \/ PromoteRefused(key) \/ PromoteRaises(key)
              \/ ConsumeFails(key)
<1>1. busy /\ ~dialog /\ ~busy'
  BY DEF BatchStops
<1>2. CASE SceneReadyHook
  BY <1>1, <1>2
  DEF SceneReadyHook, FrameIdle, HandleCombineWithoutCatalog,
      HandleCombineFindsNothing, HandleCombinePreviews, HandleCombineSeals,
      HandleCombineStoreFails, HandleCombine, AwaitPurge,
      AwaitFurnitureExit, ConfirmReopened, ConfirmAccepts, Pause,
      ChangesStage, BatchStops
<1>3. ~Dialog
  BY <1>1 DEF Dialog, DialogCancelled, DialogConfirmedTooLate,
              DialogConfirmed
<1>4. ~FurnitureModeEnterHook /\ ~Shutdown /\ ~Outside /\ vars' # vars
  BY <1>1
  DEF FurnitureModeEnterHook, Shutdown, Outside, LeaveFurnitureMode,
      SceneReadabilityChanges, PurgeComponent, Move, PlayerPutsAway,
      GameUnloadsPiece, PlayerPlaces, GameLoadsPiece, GameLoses,
      EntryBecomesUnreadable, GameConverts, GameAcquires, CodeIsPatched,
      vars
<1> QED BY <1>2, <1>3, <1>4 DEF Next

StopIsExplained ==
    \/ moves # sealed_moves
    \/ /\ stage = "ConfirmingFurnitureExit"
       /\ NeedsRecall \/ next_index > 0

LEMMA StopsStep ==
    ASSUME {"promote", "written", "delete", "raise"} \cap Faults = {}, TypeOK,
           SealedPlanIsSound, Intact, scene_readable, [Next]_vars, BatchStops
    PROVE  StopIsExplained
<1> SUFFICES ASSUME moves = sealed_moves
             PROVE  StopIsExplained
  BY DEF StopIsExplained
<1>1. Undisturbed
  BY DEF BatchStops, Undisturbed
<1>2. next_index \in Nat
  BY DEF TypeOK
<1>3. ASSUME NEW key \in BOOLEAN, ConfirmRejects(key)
      PROVE  StopIsExplained
  <2>1. stage = "ConfirmingFurnitureExit" /\ ~PlanStillValid
    BY <1>3 DEF ConfirmRejects, StageFrame
  <2>2. ASSUME next_index = 0, ~NeedsRecall
        PROVE  PlanStillValid
    <3>1. ScanComplete /\ Offered = candidates
      BY <1>1, <2>2 DEF Intact, PlanIsOffered
    <3>2. /\ Len(candidates) \in Nat
          /\ DOMAIN candidates = 1..Len(candidates)
      BY DEF TypeOK
    <3>3. ASSUME NEW n \in DOMAIN candidates
          PROVE  next_index + n = n /\ ~candidates[n].consume_placed
      BY <2>2, <3>2 DEF NeedsRecall
    <3>4. RemainingCandidatesMatch(candidates, next_index, candidates)
      BY <2>2, <3>2, <3>3 DEF RemainingCandidatesMatch
    <3> QED BY <3>1, <3>4 DEF PlanStillValid
  <2> QED BY <1>2, <2>1, <2>2 DEF StopIsExplained
<1>4. ASSUME NEW key \in BOOLEAN, ExecutesPair(key)
      PROVE  CanPromote(Candidate)
             /\ CanConsumeFrom(Promoted(Candidate), Candidate)
  <2>1. next_index < Len(candidates)
    BY <1>4 DEF ExecutesPair
  <2>2. Len(candidates) \in Nat /\ DOMAIN candidates = 1..Len(candidates)
    BY DEF TypeOK
  <2>3. next_index + 1 \in DOMAIN candidates /\ next_index + 1 > next_index
    BY <1>2, <2>1, <2>2
  <2>4. signatures /\ StillSealed(storage, components, Candidate)
    BY <1>1, <2>3 DEF Intact, PairsLeftAreSealed, Candidate
  <2>5. Candidate \in Merges
    BY <1>4, PairOfBatch DEF SealedPlanIsSound
  <2> QED BY <2>4, <2>5, SealedPairSucceeds
<1>5. ASSUME NEW key \in BOOLEAN,
             \/ PromoteRefused(key) \/ PromoteRaises(key)
             \/ ConsumeFails(key)
      PROVE  FALSE
  <2>1. ExecutesPair(key)
    BY <1>5 DEF PromoteRefused, PromoteRaises, ConsumeFails
  <2>2. CanPromote(Candidate)
        /\ CanConsumeFrom(Promoted(Candidate), Candidate)
    BY <1>4, <2>1
  <2> QED BY <1>5, <2>2 DEF PromoteRefused, PromoteRaises, ConsumeFails
<1> QED BY <1>3, <1>5, WhoStops

(***************************************************************************)
(* A batch that nobody disturbs is stopped only by a validation that the   *)
(* code cannot pass: after it put furniture away, or after it was paused.  *)
(* Before any other stop the game or the player made a move: no pair makes *)
(* a later one of its plan impossible, however many there are.  The        *)
(* hypotheses leave out the calls into the game that fail by themselves, a *)
(* put-away that stops half way, and a component list that cannot be read; *)
(* every other fault may happen.                                           *)
(* (ProcessBatch in mod_main.cpp; FindCandidates in domain.cpp.)           *)
(***************************************************************************)
THEOREM BatchStopsOnlyIfDisturbed ==
    ASSUME {"promote", "written", "delete", "raise", "partial", "scene"}
              \cap Faults = {}
    PROVE  Spec => StopsOnlyIfDisturbed
<1>1. Init => scene_readable /\ Intact
  BY DEF Init, Intact, PairsLeftAreSealed, PlanIsOffered, Undisturbed
<1>2. TypeOK /\ scene_readable /\ [Next]_vars => scene_readable'
  BY SceneStaysReadable
<1>3. TypeOK /\ Intact /\ SealedPlanIsSound /\ PiecesShowPlaced
         /\ scene_readable /\ scene_readable' /\ [Next]_vars => Intact'
  BY IntactStep
<1>4. TypeOK /\ Intact /\ SealedPlanIsSound /\ scene_readable
         /\ [Next]_vars =>
            [BatchStops =>
               \/ moves # sealed_moves
               \/ /\ stage = "ConfirmingFurnitureExit"
                  /\ NeedsRecall \/ next_index > 0]_vars
  BY StopsStep DEF StopIsExplained
<1>5. Spec => []PiecesShowPlaced
  BY PiecesAlwaysShowPlaced
<1> QED BY <1>1, <1>2, <1>3, <1>4, <1>5, SealedPlanIsAlwaysSound,
           TypeCorrect, PTL DEF Spec, StopsOnlyIfDisturbed
-----------------------------------------------------------------------------
(***************************************************************************)
(* The batch implements the ledger: the abstract step that each step of    *)
(* the mod and of the game maps to.                                        *)
(***************************************************************************)

(***************************************************************************)
(* What the batch still has to consume stands in no room, as long as       *)
(* nobody else moves: it was put away when the plan was sealed, or was     *)
(* scanned as put away.                                                    *)
(***************************************************************************)
ConsumesLeftAreStored ==
    Undisturbed =>
        \A n \in DOMAIN candidates :
           n > next_index =>
              \A a \in Holding(storage, candidates[n].consume_key) :
                 ~storage[a].placed

ConsumesStored == sealed_moves <= moves /\ ConsumesLeftAreStored

LEMMA OutOfRoomsPlaces ==
    ASSUME NEW st \in Storage, NEW keys, NEW a \in Entries(st),
           st[a].stable_key \in keys \/ ~st[a].placed
    PROVE  ~OutOfRooms(st, keys)[a].placed
<1>1. st[a] \in Entry /\ a \in Addresses
  BY EntriesAreEntries
<1>2. CASE st[a].stable_key \in keys
  BY <1>1, <1>2 DEF OutOfRooms, Entry
<1>3. CASE st[a].stable_key \notin keys
  BY <1>1, <1>3 DEF OutOfRooms
<1> QED BY <1>2, <1>3

LEMMA SealingStoresConsumes ==
    ASSUME TypeOK, Seals, NEW n \in DOMAIN Offered,
           NEW a \in Holding(storage', Offered[n].consume_key)
    PROVE  ~storage'[a].placed
<1> DEFINE plan == Offered
           keys == RecallKeys(plan, Len(plan))
           c == plan[n]
           scan == Scan(storage, SceneComponents, signatures)
<1>1. /\ storage' = OutOfRooms(storage, keys)
      /\ plan = FindCandidates(scan)
  BY DEF Seals, PutsAway, Present, Offered
<1>2. storage \in Storage /\ signatures \in BOOLEAN
      /\ SceneComponents \in Components
  BY SceneComponentsAreComponents DEF TypeOK
<1>3. scan \in Snapshot
  BY <1>2, ScanIsSnapshot
<1>4. n \in DOMAIN plan /\ plan \in Seq(Merges)
      /\ a \in Holding(storage', c.consume_key)
  BY OfferedArePlans
<1> HIDE DEF plan
<1>5. PICK keep \in Range(scan.furniture), consume \in Range(scan.furniture) :
         Names(c, keep, consume)
  BY <1>1, <1>3, <1>4, FindCandidatesNameCopies
<1>6. scan.complete /\ ~HasDuplicateStableKeys(scan.furniture)
  BY <1>1, <1>3, <1>4, FindCandidatesNameCopies
<1>7. Holding(storage', c.consume_key) = Holding(storage, c.consume_key)
  BY <1>1, <1>2, PuttingAwayKeepsSealed
<1>8. a \in Entries(storage) /\ storage[a].stable_key = c.consume_key
  BY <1>4, <1>7 DEF Holding
<1>9. c.consume_key \in keys \/ ~storage[a].placed
  <2>1. CASE c.consume_placed
    <3>1. n \in 1..Len(plan)
      BY <1>4
    <3> QED BY <2>1, <3>1 DEF RecallKeys
  <2>2. CASE ~c.consume_placed
    <3>1. PICK b \in Entries(storage) :
             /\ Holding(storage, consume.stable_key) = {b}
             /\ consume = Seen(storage, SceneComponents, b)
      BY <1>2, <1>5, <1>6, ScanNamesEntries
    <3>2. consume.stable_key = c.consume_key
      BY <1>5 DEF Names
    <3>3. a = b
      BY <1>4, <1>7, <3>1, <3>2
    <3>4. ~storage[b].placed
      BY <1>5, <2>2, <3>1 DEF Names, Seen
    <3> QED BY <3>3, <3>4
  <2> QED BY <2>1, <2>2
<1> HIDE DEF keys, c
<1> QED BY <1>1, <1>2, <1>8, <1>9, OutOfRoomsPlaces

\* The other copies of the plan stay where they are when a pair is combined.
LEMMA PairKeepsOthersStored ==
    ASSUME TypeOK, NEW c \in Merges, CanPromote(c), NEW k,
           k # c.keep_key, k # c.consume_key,
           \A a \in Holding(storage, k) : ~storage[a].placed,
           NEW b \in Holding(WithoutEntry(Promoted(c), c.consume_key), k)
    PROVE  ~WithoutEntry(Promoted(c), c.consume_key)[b].placed
<1> DEFINE st == Promoted(c)
           new == WithoutEntry(st, c.consume_key)
<1>1. PICK a \in Entries(storage) : KeptAt(c, a)
  BY PromotesOneEntry
<1>2. st \in Storage
  BY PromotedIsStorage
<1>3. Holding(new, k) = Holding(st, k)
  BY <1>2, RemovingKeepsSealed
<1>4. Holding(st, k) = Holding(storage, k)
  BY <1>1, PromotedKeepsOthers
<1>5. b \in Holding(storage, k) /\ b \in Addresses
  BY <1>3, <1>4 DEF Holding, Entries
<1>6. b # a
  <2>1. storage[a].stable_key = c.keep_key
    BY <1>1 DEF KeptAt, Holding
  <2>2. storage[b].stable_key = k
    BY <1>5 DEF Holding
  <2> QED BY <2>1, <2>2
<1>7. st[b] = storage[b]
  BY <1>1, <1>5, <1>6, PromotedEntry
<1>8. new[b] # Free
  BY DEF Holding, Entries
<1>9. new[b] = st[b]
  BY <1>5, <1>8 DEF WithoutEntry
<1> QED BY <1>5, <1>7, <1>9

LEMMA StoredAfterPair ==
    ASSUME TypeOK, ConsumesStored, SealedPlanIsSound, NEW key \in BOOLEAN,
           PairCompleted(key)
    PROVE  ConsumesLeftAreStored'
<1>1. /\ Candidate \in Merges /\ CanPromote(Candidate)
      /\ storage' = WithoutEntry(Promoted(Candidate),
                                 Candidate.consume_key)
      /\ moves' = moves /\ sealed_moves' = sealed_moves
      /\ dialog' = dialog /\ busy
  BY PairOfBatch
  DEF PairCompleted, ExecutesPair, StageFrame, FrameOfBatch, history,
      SealedPlanIsSound
<1>2. CASE next_index + 1 = Len(candidates)
  <2>1. ~busy'
    BY <1>2 DEF PairCompleted, ClearBatch
  <2> QED BY <2>1 DEF ConsumesLeftAreStored, Undisturbed
<1>3. CASE next_index + 1 # Len(candidates)
  <2>1. /\ next_index' = next_index + 1 /\ candidates' = candidates
        /\ busy' = busy
    BY <1>3 DEF PairCompleted
  <2>2. next_index \in Nat /\ Len(candidates) \in Nat
        /\ DOMAIN candidates = 1..Len(candidates)
    BY DEF TypeOK
  <2>3. next_index + 1 \in DOMAIN candidates
    <3>1. next_index < Len(candidates)
      BY DEF PairCompleted, ExecutesPair
    <3> QED BY <2>2, <3>1
  <2>4. ASSUME Undisturbed, NEW n \in DOMAIN candidates, n > next_index + 1,
               NEW b \in Holding(storage', candidates[n].consume_key)
        PROVE  ~storage'[b].placed
    <3>1. n > next_index /\ n # next_index + 1
      BY <2>2, <2>4
    <3>2. \A a \in Holding(storage, candidates[n].consume_key) :
             ~storage[a].placed
      BY <2>4, <3>1 DEF ConsumesStored, ConsumesLeftAreStored
    <3>3. KeysOf(candidates[n]) \cap KeysOf(Candidate) = {}
      BY <2>3, <3>1
      DEF SealedPlanIsSound, SealedPairsAreDisjoint, KeysOf, Candidate
    <3>4. /\ candidates[n].consume_key # Candidate.keep_key
          /\ candidates[n].consume_key # Candidate.consume_key
      BY <3>3 DEF KeysOf
    <3> QED BY <1>1, <2>4, <3>2, <3>4, PairKeepsOthersStored
  <2>5. Undisturbed' = Undisturbed
    BY <1>1, <2>1 DEF Undisturbed
  <2> QED BY <2>1, <2>4, <2>5 DEF ConsumesLeftAreStored
<1> QED BY <1>2, <1>3

LEMMA ConsumesStoredStep ==
    ASSUME TypeOK, ConsumesStored, SealedPlanIsSound, [Next]_vars
    PROVE  ConsumesStored'
<1>0. moves \in Nat /\ sealed_moves \in Nat /\ sealed_moves <= moves
  BY DEF TypeOK, ConsumesStored
<1>1. CASE (~busy' \/ dialog') /\ UNCHANGED history
  BY <1>1 DEF ConsumesStored, ConsumesLeftAreStored, Undisturbed, history
<1>2. CASE Move
  <2>1. moves' = moves + 1 /\ sealed_moves' = sealed_moves
    BY <1>2 DEF Move
  <2>2. moves' # sealed_moves' /\ sealed_moves' <= moves'
    BY <1>0, <2>1
  <2> QED BY <2>2 DEF ConsumesStored, ConsumesLeftAreStored, Undisturbed
<1>3. CASE Quiet
  BY <1>3 DEF Quiet, history, ConsumesStored, ConsumesLeftAreStored,
              Undisturbed
<1>4. CASE Seals
  <2>1. candidates' = Offered /\ sealed_moves' = moves /\ moves' = moves
    BY <1>4 DEF Seals
  <2>2. ConsumesLeftAreStored'
    BY <1>4, <2>1, SealingStoresConsumes DEF ConsumesLeftAreStored
  <2> QED BY <1>0, <2>1, <2>2 DEF ConsumesStored
<1>5. ASSUME NEW key \in BOOLEAN, PairCompleted(key)
      PROVE  ConsumesStored'
  <2>1. moves' = moves /\ sealed_moves' = sealed_moves
    BY <1>5 DEF PairCompleted, ExecutesPair, StageFrame, FrameOfBatch,
                history
  <2>2. ConsumesLeftAreStored'
    BY <1>5, StoredAfterPair
  <2> QED BY <1>0, <2>1, <2>2 DEF ConsumesStored
<1> QED BY <1>1, <1>2, <1>3, <1>4, <1>5, BatchSteps

\* A rollback that sees the whole storage takes back what was promoted.
LEMMA RollbackRestores ==
    ASSUME TypeOK, NEW c \in Merges, NEW a \in Entries(storage),
           KeptAt(c, a), Cardinality(Addresses) <= ScanCapacity
    PROVE  RolledBack(Promoted(c), c) = storage
<1> DEFINE st == Promoted(c)
           flags == c.keep_flags \cup {Promotion(c)}
           S == Clearable(st, SceneComponents, signatures, c.keep_key,
                          c.item_id)
<1>1. /\ storage \in Storage /\ a \in Addresses /\ storage[a] \in Entry
      /\ storage[a].item_id = c.item_id
      /\ storage[a].stable_key = c.keep_key
      /\ storage[a].placement_flags = c.keep_flags
      /\ c.keep_key # 0 /\ signatures
      /\ \A b \in Addresses : storage[b] # Garbage
  BY EntriesAreEntries DEF TypeOK, KeptAt, Holding, FindEntry
<1>2. /\ st \in Storage
      /\ Entries(st) = Entries(storage)
      /\ \A b \in Addresses : b # a => st[b] = storage[b]
  BY PromotedIsStorage, PromotedEntry
<1>3. /\ st[a] = [storage[a] EXCEPT !.placement_flags = flags]
      /\ st[a] \in Entry
  BY PromotedEntry
<1>4. flags \subseteq KnownFurnitureFlags
  BY PromotionDoubles
<1> HIDE DEF st, flags
<1>5. /\ st[a].item_id = c.item_id
      /\ st[a].stable_key = c.keep_key
      /\ st[a].placement_flags = flags
  BY <1>1, <1>3 DEF Entry
<1>6. FindEntry(st, c.keep_key, c.item_id) = {a}
  <2>1. Holding(storage, c.keep_key) = {a}
    BY DEF KeptAt
  <2>2. Holding(st, c.keep_key) = {a}
    BY <1>2, <1>5, <2>1 DEF Holding, Entries
  <2>3. \A b \in Addresses : st[b] # Garbage
    BY <1>1, <1>2, <1>3, MarkersAssumption
  <2> QED BY <1>1, <1>5, <2>2, <2>3 DEF FindEntry
<1>7. S = {a}
  <2> DEFINE furniture == Scan(st, SceneComponents, signatures).furniture
  <2>1. PICK n \in DOMAIN furniture :
           /\ furniture[n].stable_key = c.keep_key
           /\ furniture[n].item_id = c.item_id
           /\ furniture[n].placement_flags = flags
    <3>1. a \in Entries(st) /\ st[a].stable_key # 0
      BY <1>1, <1>2, <1>5
    <3>2. \E n \in DOMAIN furniture :
             /\ furniture[n].stable_key = st[a].stable_key
             /\ furniture[n].item_id = st[a].item_id
             /\ furniture[n].placement_flags = st[a].placement_flags
      BY <1>2, <3>1, ScanHolds
    <3> QED BY <1>5, <3>2
  <2> HIDE DEF furniture
  <2>2. a \in Sealed(st, c.keep_key, c.item_id,
                     furniture[n].placement_flags)
    BY <1>4, <1>5, <1>6, <2>1 DEF Sealed
  <2>3. a \in S
    BY <1>1, <1>6, <2>1, <2>2 DEF Clearable, furniture
  <2>4. S \subseteq {a}
    BY <1>6 DEF Clearable
  <2> QED BY <2>3, <2>4
<1>8. st = SetFlag(storage, {a}, Promotion(c))
  BY DEF st, Promoted, KeptAt
<1>9. Promotion(c) \in Flag /\ Promotion(c) \notin storage[a].placement_flags
  BY <1>1, PromotionDoubles DEF Promotion, Flag
<1>10. ClearFlag(SetFlag(storage, {a}, Promotion(c)), {a}, Promotion(c))
          = storage
  BY <1>1, <1>9, ClearingRestores
<1> QED BY <1>7, <1>8, <1>10 DEF RolledBack, st

LEMMA PairIsCombination ==
    ASSUME TypeOK, SealedPairsAreMerges, ConsumesLeftAreStored,
           scene_readable, NEW key \in BOOLEAN, PairCompleted(key)
    PROVE  \E keep, consume \in LedgerOfBatch!Entries(storage) :
              LedgerOfBatch!Combine(keep, consume)
<1> DEFINE c == Candidate
<1>1. /\ c \in Merges /\ CanPromote(c) /\ CanConsumeFrom(Promoted(c), c)
      /\ storage' = WithoutEntry(Promoted(c), c.consume_key)
  BY PairOfBatch DEF PairCompleted
<1>2. /\ ~furniture_mode /\ furniture_mode' = furniture_mode
      /\ moves' = moves /\ sealed_moves' = sealed_moves
      /\ busy /\ ~dialog
  BY DEF PairCompleted, ExecutesPair, StageFrame, FrameOfBatch, FrameBegins,
         FurnitureModeActive, history
<1> HIDE DEF c
<1>3. PICK a \in Entries(storage) : KeptAt(c, a)
  BY <1>1, PromotesOneEntry
<1>4. Promoted(c) \in Storage
  BY PromotedIsStorage
<1>5. PICK b \in Entries(Promoted(c)) : ConsumedAt(Promoted(c), c, b)
  BY <1>1, <1>4, ConsumesOneEntry
<1>6. /\ \A x \in Addresses : x # a => Promoted(c)[x] = storage[x]
      /\ Promoted(c)[a] =
           [storage[a] EXCEPT
               !.placement_flags = c.keep_flags \cup {Promotion(c)}]
      /\ Entries(Promoted(c)) = Entries(storage)
  BY <1>1, <1>3, PromotedEntry
<1>7. /\ a \in Addresses /\ b \in Addresses /\ b \in Entries(storage)
      /\ storage[a] \in Entry /\ storage \in Storage
  BY <1>5, <1>6, EntriesAreEntries DEF TypeOK, Entries
<1>8. a # b
  <2>1. Promoted(c)[b].stable_key = c.consume_key
    BY <1>5 DEF ConsumedAt, Holding
  <2>2. storage[a].stable_key = c.keep_key
    BY <1>3 DEF KeptAt, Holding
  <2>3. Promoted(c)[a].stable_key = c.keep_key
    BY <1>6, <1>7, <2>2 DEF Entry
  <2> QED BY <1>1, <2>1, <2>3, PromotionDoubles
<1>9. /\ storage[a].item_id = c.item_id
      /\ storage[b].item_id = c.item_id
      /\ storage[a].placement_flags = c.keep_flags
      /\ storage[b].placement_flags = c.keep_flags
  <2>1. Promoted(c)[b] = storage[b]
    BY <1>6, <1>7, <1>8
  <2> QED BY <1>1, <1>3, <1>5, <2>1, PromotionDoubles
          DEF KeptAt, ConsumedAt
<1>10. /\ CanBeRare(c.item_id)
       /\ c.keep_flags \in {{}, {"rare"}}
       /\ c.keep_flags \cup {Promotion(c)} =
             LedgerOfBatch!Upgrade(c.keep_flags)
  BY <1>1 DEF Merges, PairIsMerge, Promotion, LedgerOfBatch!Upgrade
<1>11. storage' =
         [storage EXCEPT
            ![a].placement_flags = LedgerOfBatch!Upgrade(@),
            ![b] = Free]
  <2>1. Holding(Promoted(c), c.consume_key) = {b}
    BY <1>5 DEF ConsumedAt
  <2>2. storage' = [x \in Addresses |->
                      IF x = b THEN Free ELSE Promoted(c)[x]]
    BY <1>1, <2>1 DEF WithoutEntry
  <2>3. Promoted(c)[a] =
          [storage[a] EXCEPT !.placement_flags = LedgerOfBatch!Upgrade(@)]
    BY <1>6, <1>9, <1>10
  <2> DEFINE upgraded ==
                [storage[a] EXCEPT
                    !.placement_flags = LedgerOfBatch!Upgrade(@)]
  <2>4. storage' = [x \in Addresses |->
                      IF x = b THEN Free
                      ELSE IF x = a THEN upgraded ELSE storage[x]]
    BY <1>6, <1>8, <2>2, <2>3
  <2>5. [storage EXCEPT
            ![a].placement_flags = LedgerOfBatch!Upgrade(@), ![b] = Free] =
           [x \in Addresses |->
              IF x = b THEN Free
              ELSE IF x = a THEN upgraded ELSE storage[x]]
    <3> QED BY <1>7, <1>8 DEF Storage
  <2> QED BY <2>4, <2>5
<1>12. storage[b].placed => moves # sealed_moves
  <2>1. b \in Holding(Promoted(c), c.consume_key)
    BY <1>5 DEF ConsumedAt
  <2>2. b \in Holding(storage, c.consume_key)
    BY <1>6, <1>7, <1>8, <2>1 DEF Holding
  <2>3. /\ next_index + 1 \in DOMAIN candidates
        /\ next_index + 1 > next_index
        /\ c = candidates[next_index + 1]
    <3>1. next_index \in Nat /\ Len(candidates) \in Nat
          /\ DOMAIN candidates = 1..Len(candidates)
      BY DEF TypeOK
    <3>2. next_index < Len(candidates)
      BY DEF PairCompleted, ExecutesPair
    <3> QED BY <3>1, <3>2 DEF Candidate, c
  <2> QED BY <1>2, <2>2, <2>3 DEF ConsumesLeftAreStored, Undisturbed
<1>13. LedgerOfBatch!Combine(a, b)
  BY <1>2, <1>8, <1>9, <1>10, <1>11, <1>12
  DEF LedgerOfBatch!Combine, LedgerOfBatch!CanBeRare, CanBeRare
<1> QED BY <1>7, <1>13 DEF LedgerOfBatch!Entries, Entries

LEMMA PuttingAwayIsPutAway ==
    ASSUME TypeOK, furniture_mode, furniture_mode' = furniture_mode,
           moves' = moves, sealed_moves' \in {sealed_moves, moves},
           NEW keys, storage' = OutOfRooms(storage, keys)
    PROVE  \E addresses \in SUBSET LedgerOfBatch!Entries(storage) :
              LedgerOfBatch!PutAway(addresses)
<1> DEFINE addresses ==
              {a \in Entries(storage) : storage[a].stable_key \in keys}
<1>1. addresses \in SUBSET LedgerOfBatch!Entries(storage)
  BY DEF LedgerOfBatch!Entries, Entries
<1>2. storage' = [a \in Addresses |->
                    IF a \in addresses
                    THEN [storage[a] EXCEPT !.placed = FALSE]
                    ELSE storage[a]]
  BY DEF OutOfRooms
<1>3. LedgerOfBatch!PutAway(addresses)
  BY <1>2 DEF LedgerOfBatch!PutAway
<1> QED BY <1>1, <1>3

LEMMA FailureKeepsStorage ==
    ASSUME TypeOK, SealedPairsAreMerges,
           {"raise", "rollback"} \cap Faults = {},
           Cardinality(Addresses) <= ScanCapacity,
           NEW key \in BOOLEAN, ConsumeFails(key)
    PROVE  /\ storage' = storage /\ furniture_mode' = furniture_mode
           /\ UNCHANGED history
<1>1. Candidate \in Merges /\ CanPromote(Candidate)
  BY PairOfBatch DEF ConsumeFails
<1>2. storage' = RolledBack(Promoted(Candidate), Candidate)
  BY DEF ConsumeFails
<1>3. furniture_mode' = furniture_mode /\ UNCHANGED history
  BY DEF ConsumeFails, ExecutesPair, StageFrame, FrameOfBatch
<1> QED BY <1>1, <1>2, <1>3, PromotesOneEntry, RollbackRestores

LEMMA StepOfLedger ==
    ASSUME TypeOK, BatchShape, SealedPairsAreMerges, ConsumesLeftAreStored,
           scene_readable,
           {"raise", "rollback", "written"} \cap Faults = {},
           Cardinality(Addresses) <= ScanCapacity,
           [Next]_vars
    PROVE  [LedgerOfBatch!Next]_(LedgerOfBatch!vars)
<1>1. CASE storage' = storage /\ UNCHANGED history
  <2>1. furniture_mode \in BOOLEAN /\ furniture_mode' \in BOOLEAN
    BY TypeOKStep DEF TypeOK
  <2>2. \/ furniture_mode' = furniture_mode
        \/ furniture_mode' = ~furniture_mode
    BY <2>1, Zenon
  <2> QED BY <1>1, <2>2
          DEF LedgerOfBatch!Next, LedgerOfBatch!ToggleScreen,
              LedgerOfBatch!vars, history
<1>2. CASE /\ FurnitureModeActive \/ dialog
           /\ furniture_mode' = furniture_mode /\ moves' = moves
           /\ sealed_moves' \in {sealed_moves, moves}
           /\ \E keys : storage' = OutOfRooms(storage, keys)
  <2>1. furniture_mode
    BY <1>2 DEF FurnitureModeActive, BatchShape, DialogIsBusy
  <2> QED BY <1>2, <2>1, PuttingAwayIsPutAway DEF LedgerOfBatch!Next
<1>3. CASE \E key \in BOOLEAN : PairCompleted(key)
  BY <1>3, PairIsCombination DEF LedgerOfBatch!Next
<1>4. CASE \E key \in BOOLEAN : ConsumeFails(key)
  BY <1>4, FailureKeepsStorage DEF LedgerOfBatch!vars, history
<1>6. ~\E key \in BOOLEAN : PromoteRaises(key)
  BY DEF PromoteRaises
<1>5. CASE Move
  BY <1>5 DEF Move, LedgerOfBatch!Next, LedgerOfBatch!Outside
<1> QED BY <1>1, <1>2, <1>3, <1>4, <1>5, <1>6, StorageSteps

(***************************************************************************)
(* The mod keeps its promise to the owner of the furniture: every step of  *)
(* a hook is one whole combination on a closed screen, one putting away on *)
(* an open one, or nothing, and what a combination takes stood in no room, *)
(* unless the game or the player moved since the batch was sealed.  The    *)
(* hypotheses name what would break it: a game's delete that raises after  *)
(* its effect, a rollback that raises, a flag that is written by a call    *)
(* that fails, a storage larger than the buffer in which the rollback      *)
(* looks for the kept copy, and a component list that cannot be read.      *)
(* Every other fault may happen.                                           *)
(* (ProcessBatch and HandleCombine in mod_main.cpp; native_api.c.)         *)
(***************************************************************************)
THEOREM BatchKeepsLedger ==
    ASSUME {"raise", "rollback", "written", "scene"} \cap Faults = {},
           Cardinality(Addresses) <= ScanCapacity
    PROVE  Spec => KeepsLedger
<1>1. Init => LedgerOfBatch!Init /\ scene_readable /\ ConsumesStored
  BY DEF Init, LedgerOfBatch!Init, ConsumesStored, ConsumesLeftAreStored,
         Undisturbed
<1>2. TypeOK /\ scene_readable /\ [Next]_vars => scene_readable'
  BY SceneStaysReadable
<1>3. TypeOK /\ BatchShape /\ SealedPairsAreMerges /\ ConsumesStored
         /\ scene_readable /\ [Next]_vars
            => [LedgerOfBatch!Next]_(LedgerOfBatch!vars)
  BY StepOfLedger DEF ConsumesStored
<1>4. TypeOK /\ SealedPlanIsSound /\ ConsumesStored /\ [Next]_vars
         => ConsumesStored'
  BY ConsumesStoredStep
<1>5. Spec => LedgerOfBatch!Spec
  BY <1>1, <1>2, <1>3, <1>4, TypeCorrect, BatchShapeHolds,
     SealedPairsAreAlwaysMerges, SealedPlanIsAlwaysSound, PTL
  DEF Spec, LedgerOfBatch!Spec
<1> QED BY <1>5 DEF KeepsLedger
=================================================================================
