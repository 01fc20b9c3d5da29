----------------------------- MODULE Transaction -----------------------------
(***************************************************************************)
(* ExecuteCandidate (domain.cpp): one pair combined through a port whose   *)
(* every call may fail, with a scan before and a scan after.  The storage  *)
(* behind the port is that of NativeStore, as NativeTransactionPort reads  *)
(* and writes it; the candidate comes from a plan which may be out of date *)
(* when it is executed.  Every call of the port is a step.                 *)
(***************************************************************************)
EXTENDS NativeStore

CONSTANTS
    InitialStores,   \* the stores, [storage, components], a run starts from
    PortFaults,      \* which calls of the port may go wrong
    MaxMoves         \* how many changes the game makes between two calls

\* "promote"  setting a flag fails without effect
\* "rollback" clearing one fails without effect
\* "written"  setting or clearing a flag fails after it was written
\* "delete"   Consume fails without effect
\* "raise"    Consume fails after its effect
\* and two that NativeTransactionPort rules out but the interface does not:
\* "silent"   Consume succeeds without effect
\* "other"    Consume succeeds, and a different furniture is gone
PortFault == {"promote", "rollback", "written", "delete", "raise", "silent",
              "other"}

ASSUME InitialStoresAssumption ==
    InitialStores \subseteq [storage : Storage, components : Components]
ASSUME PortFaultsAssumption == PortFaults \subseteq PortFault
ASSUME MaxMovesAssumption == MaxMoves \in Nat

VARIABLES
    storage, components,   \* behind the port
    plan,        \* the candidates that the caller holds
    pc,          \* the call of the port that is next, or "idle"
    candidate,   \* the argument
    before,      \* the first scan
    status,      \* ExecuteResult.status
    rollback,    \* rare_ or enhanced_rollback_attempted and _succeeded
    start,       \* history: the storage when ExecuteCandidate was called
    moves        \* history: changes made by the game

port == <<storage, components>>
call == <<candidate, before, status, rollback, start>>
vars == <<port, plan, pc, call, moves>>

Status == {"Success", "PreconditionFailed", "RareConversionFailed",
           "EnhancedConversionFailed", "ConsumeFailed", "VerificationFailed"}
Stage == {"idle", "pre_scan", "sealed_pair", "promote", "consume",
          "rollback", "post_scan"}

NoCandidate == <<>>
NoScan == [furniture |-> <<>>, complete |-> FALSE]

ScanPort == Scan(storage, components, TRUE)

Init ==
    /\ \E s \in InitialStores :
          storage = s.storage /\ components = s.components
    /\ plan = FindCandidates(ScanPort)
    /\ pc = "idle"
    /\ candidate = NoCandidate
    /\ before = NoScan
    /\ status = "PreconditionFailed"
    /\ rollback = "none"
    /\ start = storage
    /\ moves = 0
-----------------------------------------------------------------------------
(***************************************************************************)
(* The caller looks for candidates, and calls with one of them.            *)
(***************************************************************************)
Plans ==
    /\ pc = "idle"
    /\ plan' = FindCandidates(ScanPort)
    /\ UNCHANGED <<port, pc, call, moves>>

ExecuteCandidate(c) ==
    /\ pc = "idle"
    /\ candidate' = c
    /\ status' = "PreconditionFailed"
    /\ rollback' = "none"
    /\ before' = NoScan
    /\ start' = storage
    /\ pc' = "pre_scan"
    /\ UNCHANGED <<port, plan, moves>>

Returns(answer) ==
    /\ status' = answer
    /\ pc' = "idle"
    /\ UNCHANGED <<candidate, before, start>>
-----------------------------------------------------------------------------
FindUnique(snapshot, key) ==
    LET found == {n \in DOMAIN snapshot.furniture :
                    snapshot.furniture[n].stable_key = key}
    IN  {snapshot.furniture[n] : n \in {m \in found : found = {m}}}

MatchesSealed(found, item, flags, rare) ==
    \E i \in found :
        /\ ~i.delete_pending
        /\ i.runtime_match_count <= 1
        /\ i.item_id = item
        /\ i.placement_flags = flags
        /\ IsRare(i) = rare
        /\ ~IsEnhanced(i)
        /\ HasOnlyKnownFlags(i)

Complete(snapshot) ==
    snapshot.complete /\ ~HasDuplicateStableKeys(snapshot.furniture)

PreScan ==
    /\ pc = "pre_scan"
    /\ before' = ScanPort
    /\ IF Complete(ScanPort)
             /\ Len(ScanPort.furniture) = candidate.scanned_count
       THEN pc' = "sealed_pair"
       ELSE pc' = "idle"       \* status is PreconditionFailed already
    /\ UNCHANGED <<port, plan, candidate, status, rollback, start, moves>>

SealedPair ==
    /\ pc = "sealed_pair"
    /\ IF /\ candidate.keep_key # candidate.consume_key
          /\ MatchesSealed(FindUnique(before, candidate.keep_key),
                           candidate.item_id, candidate.keep_flags,
                           ~candidate.promote_to_rare)
          /\ MatchesSealed(FindUnique(before, candidate.consume_key),
                           candidate.item_id, candidate.consume_flags,
                           ~candidate.promote_to_rare)
       THEN pc' = "promote"
       ELSE pc' = "idle"
    /\ UNCHANGED <<port, plan, call, moves>>
-----------------------------------------------------------------------------
Promotion(c) == IF c.promote_to_rare THEN "rare" ELSE "enhanced"

CanPromote(c) ==
    IF c.promote_to_rare
    THEN CanSetRare(storage, TRUE, c.keep_key, c.item_id, c.keep_flags)
    ELSE CanSetEnhanced(storage, TRUE, c.keep_key, c.item_id, c.keep_flags,
                        TRUE)

Promoted ==
    SetFlag(storage, FindEntry(storage, candidate.keep_key, candidate.item_id),
            Promotion(candidate))

Promote ==
    /\ pc = "promote"
    /\ CanPromote(candidate)
    /\ storage' = Promoted
    /\ pc' = "consume"
    /\ UNCHANGED <<components, plan, call, moves>>

\* what a call of SetRare or SetEnhanced that reports failure leaves behind
NotPromoted ==
    (IF ~CanPromote(candidate) \/ "promote" \in PortFaults
     THEN {storage} ELSE {})
    \cup (IF CanPromote(candidate) /\ "written" \in PortFaults
          THEN {Promoted} ELSE {})

PromoteFails ==
    /\ pc = "promote"
    /\ storage' \in NotPromoted
    /\ Returns(IF candidate.promote_to_rare THEN "RareConversionFailed"
                                            ELSE "EnhancedConversionFailed")
    /\ UNCHANGED <<components, plan, rollback, moves>>
-----------------------------------------------------------------------------
Consumable ==
    CanConsume(storage, components, TRUE, candidate.consume_key,
               candidate.item_id, candidate.consume_flags)

\* what a call of Consume that reports success leaves behind
Consumed ==
    (IF Consumable THEN {WithoutEntry(storage, candidate.consume_key)} ELSE {})
    \cup (IF "silent" \in PortFaults THEN {storage} ELSE {})
    \cup (IF "other" \in PortFaults
          THEN {WithoutEntry(storage, storage[a].stable_key) :
                  a \in Entries(storage)}
          ELSE {})

Consume ==
    /\ pc = "consume"
    /\ storage' \in Consumed
    /\ pc' = "post_scan"
    /\ UNCHANGED <<components, plan, call, moves>>

\* what a call of Consume that reports failure leaves behind
NotConsumed ==
    (IF ~Consumable \/ "delete" \in PortFaults THEN {storage} ELSE {})
    \cup (IF Consumable /\ "raise" \in PortFaults
          THEN {WithoutEntry(storage, candidate.consume_key)} ELSE {})

\* mutant of ConsumeFails: result.status is not set
ConsumeFailsUnreported ==
    /\ pc = "consume"
    /\ storage' \in NotConsumed
    /\ pc' = "rollback"
    /\ UNCHANGED <<components, plan, call, moves>>

ConsumeFails ==
    /\ pc = "consume"
    /\ storage' \in NotConsumed
    /\ status' = "ConsumeFailed"
    /\ pc' = "rollback"
    /\ UNCHANGED <<components, plan, candidate, before, rollback, start,
                   moves>>

ClearableKeep ==
    Clearable(storage, components, TRUE, candidate.keep_key,
              candidate.item_id)

\* mutant of RolledBack: ClearRare whatever the promotion was
RolledBackToOrdinary == ClearFlag(storage, ClearableKeep, "rare")

RolledBack == ClearFlag(storage, ClearableKeep, Promotion(candidate))

RollBack ==
    /\ pc = "rollback"
    /\ ClearableKeep # {}
    /\ storage' = RolledBack
    /\ rollback' = "succeeded"
    /\ pc' = "idle"
    /\ UNCHANGED <<components, plan, candidate, before, status, start, moves>>

\* what a call of ClearRare or ClearEnhanced that reports failure leaves behind
NotRolledBack ==
    (IF ClearableKeep = {} \/ "rollback" \in PortFaults
     THEN {storage} ELSE {})
    \cup (IF ClearableKeep # {} /\ "written" \in PortFaults
          THEN {RolledBack} ELSE {})

RollBackFails ==
    /\ pc = "rollback"
    /\ storage' \in NotRolledBack
    /\ rollback' = "failed"
    /\ pc' = "idle"
    /\ UNCHANGED <<components, plan, candidate, before, status, start, moves>>
-----------------------------------------------------------------------------
\* mutant of Verified: whether the consumed one is gone is not asked
VerifiedByCount(after) ==
    /\ Complete(after)
    /\ Len(after.furniture) + 1 = Len(before.furniture)
    /\ \E kept \in FindUnique(after, candidate.keep_key) :
          /\ kept.item_id = candidate.item_id
          /\ kept.placement_flags
                = candidate.keep_flags \cup {Promotion(candidate)}
          /\ IsRare(kept)

\* mutant of Verified: the flags of an enhanced furniture are wanted
VerifiedEnhanced(after) ==
    /\ VerifiedByCount(after)
    /\ \E kept \in FindUnique(after, candidate.keep_key) : IsEnhanced(kept)
    /\ FindUnique(after, candidate.consume_key) = {}

Verified(after) ==
    /\ Complete(after)
    /\ Len(after.furniture) + 1 = Len(before.furniture)
    /\ \E kept \in FindUnique(after, candidate.keep_key) :
          /\ kept.item_id = candidate.item_id
          /\ kept.placement_flags
                = candidate.keep_flags \cup {Promotion(candidate)}
          /\ IsRare(kept)
    /\ FindUnique(after, candidate.consume_key) = {}

PostScan ==
    /\ pc = "post_scan"
    /\ Returns(IF Verified(ScanPort) THEN "Success" ELSE "VerificationFailed")
    /\ UNCHANGED <<port, plan, rollback, moves>>
-----------------------------------------------------------------------------
(***************************************************************************)
(* The game, between two calls of ExecuteCandidate.                        *)
(***************************************************************************)
Shown(a) == \E p \in Live(components) : components[p].entry = a

GameChanges(a, entry) ==
    /\ pc = "idle"
    /\ moves < MaxMoves
    /\ moves' = moves + 1
    /\ storage' = [storage EXCEPT ![a] = entry]
    /\ UNCHANGED <<components, plan, pc, call>>

GameLoses(a) ==
    a \in Entries(storage) /\ ~Shown(a) /\ GameChanges(a, Free)

GameAcquires(a) ==
    /\ storage[a] = Free
    /\ \E b \in Entries(storage), key \in Keys :
          /\ Holding(storage, key) = {}
          /\ GameChanges(a, [storage[b] EXCEPT !.stable_key = key,
                                               !.placed = FALSE])

GameConverts(a) ==
    /\ a \in Entries(storage)
    /\ \E flags \in {{}, {"rare"}, {"rare", "enhanced"}} :
          GameChanges(a, [storage[a] EXCEPT !.placement_flags = flags])

Next ==
    \/ Plans
    \/ \E c \in Range(plan) : ExecuteCandidate(c)
    \/ PreScan \/ SealedPair
    \/ Promote \/ PromoteFails
    \/ Consume \/ ConsumeFails
    \/ RollBack \/ RollBackFails
    \/ PostScan
    \/ \E a \in Addresses : GameLoses(a) \/ GameAcquires(a) \/ GameConverts(a)

Spec == Init /\ [][Next]_vars
-----------------------------------------------------------------------------
\* Every variable has its type.
TypeOK ==
    /\ storage \in Storage /\ components \in Components
    /\ \A c \in Range(plan) : c \in CombineCandidate
    /\ pc \in Stage
    /\ candidate = NoCandidate \/ candidate \in CombineCandidate
    /\ status \in Status
    /\ rollback \in {"none", "succeeded", "failed"}
    /\ start \in Storage
    /\ moves \in 0..MaxMoves

Returning == pc # "idle" /\ pc' = "idle"

\* what promoting the keep of c makes of the storage st
PromotedKeep(st, c) == SetFlag(st, Holding(st, c.keep_key), Promotion(c))
\* and what combining the pair c makes of it
Merged(st, c) == WithoutEntry(PromotedKeep(st, c), c.consume_key)

(***************************************************************************)
(* Success means that the storage is the one before the call with the keep *)
(* promoted, the other copy gone and all else as it was, though Consume    *)
(* may claim what it did not do, though it may take another furniture, and *)
(* however old the plan is.  (domain.cpp:253-273)                          *)
(***************************************************************************)
SuccessIsTheMerge ==
    [][Returning /\ status' = "Success"
         => storage' = Merged(start, candidate)]_vars

(***************************************************************************)
(* A call that is refused takes nothing away: at a precondition it leaves  *)
(* the storage as it found it, and at the promotion nothing but the flag   *)
(* of the keep can be different, written by a call that failed after it.   *)
(* (domain.cpp:194-233, native_api.c:1030-1038)                            *)
(***************************************************************************)
RefusalTakesNothing ==
    [][Returning =>
         /\ status' = "PreconditionFailed" => storage' = start
         /\ status' \in {"RareConversionFailed", "EnhancedConversionFailed"}
              => storage' \in {start, PromotedKeep(start, candidate)}]_vars

(***************************************************************************)
(* After Consume failed the caller knows where it stands: a rollback that  *)
(* succeeded has taken the whole promotion back, and nothing but the copy  *)
(* to be consumed can be missing; after one that failed the keep may still *)
(* be promoted: with the copy gone, a merge that is not reported as one.   *)
(* No other furniture is touched.  (domain.cpp:235-251)                    *)
(***************************************************************************)
FailureIsOneCopy ==
    [][Returning /\ status' = "ConsumeFailed" =>
         LET promoted == PromotedKeep(start, candidate)
             key == candidate.consume_key
             demoted == {start, WithoutEntry(start, key)}
         IN  \/ /\ rollback' = "succeeded"
                /\ storage' \in demoted
             \/ /\ rollback' = "failed"
                /\ storage' \in demoted \cup
                       {promoted, WithoutEntry(promoted, key)}]_vars

(***************************************************************************)
(* The scan after the pair raises no false alarm: what it rejects is not   *)
(* the merge that was asked for.  (domain.cpp:256-266)                     *)
(***************************************************************************)
AlarmIsJustified ==
    [][Returning /\ status' = "VerificationFailed"
         => storage' # Merged(start, candidate)]_vars
==============================================================================
