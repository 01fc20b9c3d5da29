---------------------------- MODULE BatchProperties ----------------------------
(***************************************************************************)
(* What CombineBatch should do over several steps: the ledger it keeps,    *)
(* what a failed call may cost, when a batch may stop and when it must     *)
(* end.                                                                    *)
(***************************************************************************)
EXTENDS CombineBatch

(***************************************************************************)
(* With no failing call, the batch implements the ledger: each step of a   *)
(* hook is one whole combination, one putting away, or changes nothing     *)
(* that the owner has; and a combination takes a copy that stands in no    *)
(* room, unless the game or the player moved since the batch was sealed:   *)
(* then only the loaded pieces are looked at (native_api.c:1102-1106), and *)
(* a copy that is placed again and has no piece is taken.                  *)
(* (ProcessBatch, HandleCombine, cdf_native_store, cdf_native_consume.)    *)
(***************************************************************************)
LedgerOfBatch ==
    INSTANCE Ledger WITH InitialStorages <- {s.storage : s \in InitialStores}

KeepsLedger == LedgerOfBatch!Spec

(***************************************************************************)
(* The worth of all furniture of an item, in copies of the ordinary one:   *)
(* as many copies <<a, n>> as its entry at a is worth, for every a.        *)
(***************************************************************************)
Copies(st, item) ==
    {copy \in Addresses \X (1..4) :
        /\ copy[1] \in Entries(st)
        /\ st[copy[1]].item_id = item
        /\ copy[2] <= Multiplier(st[copy[1]].placement_flags)}

Worth(item) == Cardinality(Copies(storage, item))

(***************************************************************************)
(* Whatever call fails, and however its rollback ends, one pair at most is *)
(* wrong: the worth of an item changes only in a step that stops the batch *)
(* and by no more than the copy which that step was to consume.  (Lines    *)
(* 637-657 of mod_main.cpp and the SEH handlers of native_api.c.)          *)
(***************************************************************************)
DamageIsOneCopy ==
    [][moves' = moves =>
         \A item \in Items :
            \/ Worth(item)' = Worth(item)
            \/ /\ busy /\ ~busy'
               /\ item = Candidate.item_id
               /\ LET copy == Multiplier(Candidate.consume_flags)
                  IN  Worth(item)' \in {Worth(item) - copy,
                                        Worth(item) + copy}]_vars

BatchStops ==
    /\ busy /\ ~dialog /\ ~busy'
    /\ ~\E key \in BOOLEAN : PairCompleted(key)
NeedsRecall == \E n \in DOMAIN candidates : candidates[n].consume_placed

(***************************************************************************)
(* In a game where nobody touches the furniture, no pair of a batch makes  *)
(* a later one impossible, and a batch that put nothing away passes its    *)
(* first validation: it stops only when it is finished.  (Two validations  *)
(* are left out: the two properties after this one are about them.)        *)
(***************************************************************************)
StopsOnlyIfDisturbed ==
    [][BatchStops =>
          \/ moves # sealed_moves
          \/ /\ stage = "ConfirmingFurnitureExit"
             /\ NeedsRecall \/ next_index > 0]_vars

(***************************************************************************)
(* mod_main.cpp:599 tells the player "The furniture state changed after    *)
(* leaving furniture mode" when the validation fails, so a batch that was  *)
(* not begun should only be stopped when the game or the player changed    *)
(* something.                                                              *)
(***************************************************************************)
PuttingAwayKeepsPlan ==
    [][BatchStops => moves # sealed_moves \/ next_index > 0]_vars

(***************************************************************************)
(* The same for a batch that "paused because furniture mode reopened"      *)
(* (mod_main.cpp:611) and put nothing away.                                *)
(***************************************************************************)
PauseKeepsPlan ==
    [][BatchStops => moves # sealed_moves \/ NeedsRecall]_vars

(***************************************************************************)
(* README.md:16: "No furniture is modified while the furniture screen is   *)
(* active."                                                                *)
(***************************************************************************)
NothingModifiedOnScreen ==
    [][furniture_mode /\ moves' = moves => storage' = storage]_vars

(***************************************************************************)
(* README.md:16: "Leave furniture mode after pressing `F8`; on the next    *)
(* home-to-furniture transition, the mod marks the list dirty": with no    *)
(* batch at work, no entry into the screen shows the list from before a    *)
(* combination.                                                            *)
(***************************************************************************)
EntryShowsCombined ==
    [][~busy /\ ~furniture_mode /\ furniture_mode' => ~stale_rows']_vars

(***************************************************************************)
(* When the screen stays closed, and no piece that still stands in a room  *)
(* occupies the address of one that was put away, a batch ends: finished   *)
(* or stopped.  (The three stages of ProcessBatch and the wait for its     *)
(* pending components.)                                                    *)
(***************************************************************************)
PurgeIsPossible ==
    \A p \in pending_components : p \notin Live(components)
BatchEnds == <>[](~furniture_mode /\ PurgeIsPossible) => <>[]~busy
================================================================================
