-------------------------- MODULE TransactionProofs --------------------------
(***************************************************************************)
(* What an answer of ExecuteCandidate says of the storage, whatever the    *)
(* stores, the faults of the port and the age of the plan: a refusal that  *)
(* nothing was taken, a failed Consume that one copy at most is missing or *)
(* too many, a success that the pair was merged, a failed verification     *)
(* that it was not.                                                        *)
(***************************************************************************)
EXTENDS Transaction, NativeStoreProofs

(***************************************************************************)
(* The types.  A candidate comes from a plan, so it is a merge.            *)
(***************************************************************************)
CandidatesAreMerges ==
    /\ \A c \in Range(plan) : c \in Merges
    /\ pc # "idle" => candidate \in Merges

LEMMA MergesAreCandidates == Merges \subseteq CombineCandidate
BY DEF Merges

LEMMA PlansAreMerges ==
    ASSUME storage \in Storage, components \in Components
    PROVE  \A c \in Range(FindCandidates(ScanPort)) : c \in Merges
<1>1. FindCandidates(ScanPort) \in Seq(Merges)
  BY PlanOfScan DEF ScanPort
<1> QED BY <1>1 DEF Range

LEMMA PromotionIsFlag ==
    ASSUME NEW c \in Merges
    PROVE  /\ Promotion(c) \in Flag
           /\ Promotion(c) \notin c.keep_flags
           /\ c.keep_key # c.consume_key
BY DEF Promotion, Flag, Merges, PairIsMerge

LEMMA TransactionTypesInit == Init => TypeOK /\ CandidatesAreMerges
<1> SUFFICES ASSUME Init
             PROVE  TypeOK /\ CandidatesAreMerges
  OBVIOUS
<1>1. storage \in Storage /\ components \in Components /\ start \in Storage
  BY InitialStoresAssumption DEF Init
<1>2. \A c \in Range(plan) : c \in Merges
  BY <1>1, PlansAreMerges DEF Init
<1>3. /\ pc \in Stage /\ candidate = NoCandidate /\ status \in Status
      /\ rollback \in {"none", "succeeded", "failed"} /\ pc = "idle"
  BY DEF Init, Stage, Status
<1>4. moves \in 0..MaxMoves
  BY MaxMovesAssumption DEF Init
<1> QED BY <1>1, <1>2, <1>3, <1>4, MergesAreCandidates
        DEF TypeOK, CandidatesAreMerges

LEMMA TransactionTypesStep ==
    TypeOK /\ CandidatesAreMerges /\ [Next]_vars
        => TypeOK' /\ CandidatesAreMerges'
<1> SUFFICES ASSUME TypeOK, CandidatesAreMerges, [Next]_vars
             PROVE  TypeOK' /\ CandidatesAreMerges'
  OBVIOUS
<1> USE DEF TypeOK, CandidatesAreMerges
<1>1. CASE Plans
  BY <1>1, PlansAreMerges, MergesAreCandidates DEF Plans, port, call
<1>2. ASSUME NEW c \in Range(plan), ExecuteCandidate(c)
      PROVE  TypeOK' /\ CandidatesAreMerges'
  BY <1>2 DEF ExecuteCandidate, port, Stage, Status
<1>3. CASE PreScan \/ SealedPair
  BY <1>3 DEF PreScan, SealedPair, port, call, Stage
<1>4. CASE Promote \/ PromoteFails
  <2>1. FindEntry(storage, candidate.keep_key, candidate.item_id)
           \subseteq Entries(storage)
    BY FindEntryFindsEntries
  <2>2. Promotion(candidate) \in Flag
    BY DEF Promotion, Flag
  <2>3. Promoted \in Storage
    BY <2>1, <2>2, FlaggedStorage DEF Promoted
  <2>4. storage' \in Storage
    BY <1>4, <2>3 DEF Promote, PromoteFails, NotPromoted
  <2>5. CASE Promote
    BY <2>4, <2>5 DEF Promote, call, Stage
  <2>6. CASE PromoteFails
    BY <2>4, <2>6 DEF PromoteFails, Returns, Stage, Status
  <2> QED BY <1>4, <2>5, <2>6
<1>5. CASE PostScan
  BY <1>5 DEF PostScan, Returns, port, Stage, Status
<1>6. CASE Consume
  <2>1. storage' \in Storage
    BY <1>6, WithoutEntryStorage DEF Consume, Consumed
  <2> QED BY <1>6, <2>1 DEF Consume, call, Stage
<1>7. CASE ConsumeFails
  <2>1. storage' \in Storage
    BY <1>7, WithoutEntryStorage DEF ConsumeFails, NotConsumed
  <2> QED BY <1>7, <2>1 DEF ConsumeFails, Stage, Status
<1>8. CASE RollBack \/ RollBackFails
  <2>1. ClearableKeep \subseteq Entries(storage)
    BY ClearableAreEntries DEF ClearableKeep
  <2>2. Promotion(candidate) \in Flag
    BY DEF Promotion, Flag
  <2>3. RolledBack \in Storage
    BY <2>1, <2>2, FlaggedStorage DEF RolledBack
  <2>4. storage' \in Storage
    BY <1>8, <2>3 DEF RollBack, RollBackFails, NotRolledBack
  <2> QED BY <1>8, <2>4 DEF RollBack, RollBackFails, Stage
<1>10. ASSUME NEW a \in Addresses, NEW entry \in Entry \cup {Free},
              GameChanges(a, entry)
       PROVE  TypeOK' /\ CandidatesAreMerges'
  <2>1. storage' \in Storage
    BY <1>10 DEF GameChanges, Storage
  <2>2. moves' \in 0..MaxMoves
    BY <1>10, MaxMovesAssumption DEF GameChanges
  <2> QED BY <1>10, <2>1, <2>2 DEF GameChanges, call
<1>11. ASSUME NEW a \in Addresses,
              GameLoses(a) \/ GameAcquires(a) \/ GameConverts(a)
       PROVE  \E entry \in Entry \cup {Free} : GameChanges(a, entry)
  <2>1. CASE GameLoses(a)
    BY <2>1 DEF GameLoses
  <2>2. CASE GameAcquires(a)
    <3>1. PICK b \in Entries(storage), key \in Keys :
             GameChanges(a, [storage[b] EXCEPT !.stable_key = key,
                                               !.placed = FALSE])
      BY <2>2 DEF GameAcquires
    <3>2. storage[b] \in Entry
      BY EntriesAreEntries
    <3>3. [storage[b] EXCEPT !.stable_key = key, !.placed = FALSE] \in Entry
      BY <3>2 DEF Entry
    <3> QED BY <3>1, <3>3
  <2>3. CASE GameConverts(a)
    <3>1. PICK flags \in {{}, {"rare"}, {"rare", "enhanced"}} :
             /\ a \in Entries(storage)
             /\ GameChanges(a, [storage[a] EXCEPT !.placement_flags = flags])
      BY <2>3 DEF GameConverts
    <3>2. storage[a] \in Entry /\ flags \in Flags
      BY <3>1, EntriesAreEntries DEF Flags, Flag
    <3>3. [storage[a] EXCEPT !.placement_flags = flags] \in Entry
      BY <3>2 DEF Entry
    <3> QED BY <3>1, <3>3
  <2> QED BY <1>11, <2>1, <2>2, <2>3
<1>12. CASE UNCHANGED vars
  BY <1>12 DEF vars, port, call
<1> HIDE DEF TypeOK, CandidatesAreMerges
<1> QED BY <1>1, <1>2, <1>3, <1>4, <1>5, <1>6, <1>7, <1>8, <1>10, <1>11,
           <1>12 DEF Next

LEMMA TransactionTypes == Spec => [](TypeOK /\ CandidatesAreMerges)
BY TransactionTypesInit, TransactionTypesStep, PTL DEF Spec

(***************************************************************************)
(* Every variable of ExecuteCandidate and of the port behind it keeps its  *)
(* type, whatever call of the port fails.                                  *)
(***************************************************************************)
THEOREM TransactionTypesHold == Spec => []TypeOK
BY TransactionTypes, PTL
-----------------------------------------------------------------------------

(***************************************************************************)
(* The strengthening: up to the promotion nothing is written, and after it *)
(* every way back goes through a status that is not a refusal.             *)
(***************************************************************************)
UntouchedUntilPromoted ==
    /\ pc \in {"pre_scan", "sealed_pair", "promote"} => storage = start
    /\ pc = "rollback" => status = "ConsumeFailed"

LEMMA InitUntouched == Init => UntouchedUntilPromoted
  BY DEF Init, UntouchedUntilPromoted

LEMMA NextUntouched ==
  UntouchedUntilPromoted /\ [Next]_vars => UntouchedUntilPromoted'
<1> SUFFICES ASSUME UntouchedUntilPromoted, [Next]_vars
             PROVE  UntouchedUntilPromoted'
  OBVIOUS
<1> USE DEF UntouchedUntilPromoted
<1>1. CASE Plans
  BY <1>1 DEF Plans, port, call
<1>2. ASSUME NEW c \in Range(plan), ExecuteCandidate(c)
      PROVE  UntouchedUntilPromoted'
  BY <1>2 DEF ExecuteCandidate, port
<1>3. CASE PreScan
  BY <1>3 DEF PreScan, port
<1>4. CASE SealedPair
  BY <1>4 DEF SealedPair, port, call
<1>5. CASE Promote \/ Consume \/ ConsumeFails
  BY <1>5 DEF Promote, Consume, ConsumeFails
<1>6. CASE PromoteFails \/ PostScan
  BY <1>6 DEF PromoteFails, PostScan, Returns
<1>7. CASE RollBack \/ RollBackFails
  BY <1>7 DEF RollBack, RollBackFails
<1>8. ASSUME NEW a \in Addresses,
             GameLoses(a) \/ GameAcquires(a) \/ GameConverts(a)
      PROVE  UntouchedUntilPromoted'
  BY <1>8 DEF GameLoses, GameAcquires, GameConverts, GameChanges
<1>9. CASE UNCHANGED vars
  BY <1>9 DEF vars, port, call
<1> QED BY <1>1, <1>2, <1>3, <1>4, <1>5, <1>6, <1>7, <1>8, <1>9 DEF Next

\* the keep of the pair c, as it was sealed
KeptIn(st, c, a) ==
    /\ a \in Entries(st)
    /\ Holding(st, c.keep_key) = {a}
    /\ c.keep_key # 0
    /\ st[a].item_id = c.item_id
    /\ st[a].placement_flags = c.keep_flags

LEMMA PromoteFindsKeep ==
    ASSUME storage = start, CanPromote(candidate)
    PROVE  /\ \E a \in Entries(start) : KeptIn(start, candidate, a)
           /\ Promoted = PromotedKeep(start, candidate)
<1>1. Sealed(storage, candidate.keep_key, candidate.item_id,
             candidate.keep_flags) # {}
  BY DEF CanPromote, CanSetEnhanced, CanSetRare
<1>2. PICK a \in Sealed(storage, candidate.keep_key, candidate.item_id,
                        candidate.keep_flags) : TRUE
  BY <1>1
<1>3. /\ Holding(storage, candidate.keep_key) = {a}
      /\ FindEntry(storage, candidate.keep_key, candidate.item_id) = {a}
      /\ candidate.keep_key # 0
      /\ storage[a].item_id = candidate.item_id
      /\ storage[a].placement_flags = candidate.keep_flags
  BY <1>2 DEF Sealed, FindEntry
<1>4. a \in Entries(storage)
  BY <1>3 DEF Holding
<1> QED BY <1>3, <1>4 DEF KeptIn, Promoted, PromotedKeep

(***************************************************************************)
(* A call of ExecuteCandidate that answers with a failed precondition      *)
(* leaves the storage exactly as it found it, and one that answers with a  *)
(* failed conversion can only have left the promoted keep.                 *)
(***************************************************************************)
THEOREM RefusalAlwaysTakesNothing == Spec => RefusalTakesNothing
<1> DEFINE Known ==
      /\ status' = "PreconditionFailed" => storage' = start
      /\ status' \in {"RareConversionFailed", "EnhancedConversionFailed"}
           => storage' \in {start, PromotedKeep(start, candidate)}
<1>1. UntouchedUntilPromoted /\ [Next]_vars => [Returning => Known]_vars
  <2> SUFFICES ASSUME UntouchedUntilPromoted, Next, Returning
               PROVE  Known
    OBVIOUS
  <2>1. CASE PreScan \/ SealedPair
    BY <2>1 DEF PreScan, SealedPair, port, UntouchedUntilPromoted
  <2>2. CASE PromoteFails
    <3>1. storage = start /\ status' # "PreconditionFailed"
      BY <2>2 DEF PromoteFails, Returns, UntouchedUntilPromoted
    <3>2. \/ storage' = storage
          \/ CanPromote(candidate) /\ storage' = Promoted
      BY <2>2 DEF PromoteFails, NotPromoted
    <3> QED BY <3>1, <3>2, PromoteFindsKeep
  <2>3. ~(Promote \/ Consume \/ ConsumeFails)
    BY DEF Promote, Consume, ConsumeFails, Returning
  <2>4. CASE RollBack \/ RollBackFails
    BY <2>4 DEF RollBack, RollBackFails, UntouchedUntilPromoted
  <2>5. CASE PostScan
    BY <2>5 DEF PostScan, Returns
  <2>6. ~Plans /\ ~(\E c \in Range(plan) : ExecuteCandidate(c))
    BY DEF Plans, ExecuteCandidate, Returning
  <2>7. ~(\E a \in Addresses :
             GameLoses(a) \/ GameAcquires(a) \/ GameConverts(a))
    BY DEF GameLoses, GameAcquires, GameConverts, GameChanges, Returning
  <2> QED BY <2>1, <2>2, <2>3, <2>4, <2>5, <2>6, <2>7 DEF Next
<1> QED
  BY <1>1, InitUntouched, NextUntouched, PTL DEF Spec, RefusalTakesNothing
-----------------------------------------------------------------------------
(***************************************************************************)
(* What a scan that ExecuteCandidate accepts says of the storage: every    *)
(* entry has a key of its own, and the scan reports each of them.          *)
(***************************************************************************)
Whole(st) ==
    /\ \A a \in Addresses : st[a] # Garbage
    /\ \A a \in Entries(st) :
          st[a].stable_key # 0 /\ Holding(st, st[a].stable_key) = {a}
    /\ Cardinality(Entries(st)) <= ScanCapacity

ScanOf(st) == Scan(st, components, TRUE)

LEMMA WholeIsReadable ==
    ASSUME NEW st \in Storage, Whole(st)
    PROVE  Readable(st) = Entries(st)
BY DEF Whole, Readable

LEMMA CompleteScanIsWhole ==
    ASSUME NEW st \in Storage
    PROVE  Complete(ScanOf(st)) <=> Whole(st)
<1> DEFINE scan == ScanOf(st)
           F == scan.furniture
<1>1. scan.complete <=>
         /\ \A a \in Addresses : st[a] # Garbage
         /\ Readable(st) = Entries(st)
         /\ Cardinality(Readable(st)) <= ScanCapacity
  BY DEF ScanOf, Scan, Readable
<1>2. ASSUME Cardinality(Readable(st)) <= ScanCapacity
      PROVE  HasDuplicateStableKeys(F) <=>
                \E a, b \in Readable(st) :
                   a # b /\ st[a].stable_key = st[b].stable_key
  <2>1. PICK order : Reports(F, st, components, order)
    BY <1>2, ScanReports DEF ScanOf
  <2>2. /\ DOMAIN F = DOMAIN order
        /\ \A n \in DOMAIN order :
              /\ order[n] \in Readable(st)
              /\ F[n].stable_key = st[order[n]].stable_key
              /\ F[n].stable_key # 0
    BY <2>1 DEF Reports, Seen, Readable
  <2>3. /\ \A m, n \in DOMAIN order : m # n => order[m] # order[n]
        /\ \A a \in Readable(st) : \E n \in DOMAIN order : order[n] = a
    BY <2>1 DEF Reports
  <2> HIDE DEF F
  <2>4. HasDuplicateStableKeys(F) <=>
           \E m, n \in DOMAIN order :
              m # n /\ st[order[m]].stable_key = st[order[n]].stable_key
    BY <2>2 DEF HasDuplicateStableKeys
  <2> QED BY <2>2, <2>3, <2>4
<1>3. Complete(scan) <=> scan.complete /\ ~HasDuplicateStableKeys(F)
  BY DEF Complete
<1> HIDE DEF scan, F
<1>4. ASSUME Complete(scan)
      PROVE  Whole(st)
  <2>1. /\ \A a \in Addresses : st[a] # Garbage
        /\ Readable(st) = Entries(st)
        /\ Cardinality(Entries(st)) <= ScanCapacity
    BY <1>1, <1>3, <1>4
  <2>2. \A a, b \in Entries(st) :
           st[a].stable_key = st[b].stable_key => a = b
    BY <1>2, <1>3, <1>4, <2>1
  <2>3. \A a \in Entries(st) : st[a].stable_key # 0
    BY <2>1 DEF Readable
  <2> QED BY <2>1, <2>2, <2>3 DEF Whole, Holding
<1>5. ASSUME Whole(st)
      PROVE  Complete(scan)
  <2>1. Readable(st) = Entries(st)
    BY <1>5, WholeIsReadable
  <2>2. \A a, b \in Entries(st) :
           st[a].stable_key = st[b].stable_key => a = b
    BY <1>5 DEF Whole, Holding
  <2>3. Cardinality(Readable(st)) <= ScanCapacity
    BY <1>5, <2>1 DEF Whole
  <2> QED BY <1>1, <1>2, <1>3, <1>5, <2>1, <2>2, <2>3 DEF Whole
<1> QED BY <1>4, <1>5 DEF scan

LEMMA LengthOfScan ==
    ASSUME NEW st \in Storage, Whole(st)
    PROVE  /\ Cardinality(Entries(st)) \in Nat
           /\ Len(ScanOf(st).furniture) = Cardinality(Entries(st))
<1>1. Readable(st) = Entries(st)
  BY WholeIsReadable
<1>2. Cardinality(Readable(st)) <= ScanCapacity
  BY <1>1 DEF Whole
<1>3. PICK order : Reports(ScanOf(st).furniture, st, components, order)
  BY <1>2, ScanReports DEF ScanOf
<1>4. Cardinality(Readable(st)) \in Nat
  BY <1>2, ScanReports
<1>5. ScanOf(st).furniture =
         [n \in 1..Cardinality(Entries(st)) |->
            Seen(st, components, order[n])]
  BY <1>1, <1>3 DEF Reports
<1> QED BY <1>1, <1>4, <1>5

LEMMA FindUniqueFindsHolding ==
    ASSUME NEW st \in Storage, Whole(st), NEW key
    PROVE  FindUnique(ScanOf(st), key) =
              {Seen(st, components, a) : a \in Holding(st, key)}
<1> DEFINE F == ScanOf(st).furniture
           found == {n \in DOMAIN F : F[n].stable_key = key}
<1>1. Readable(st) = Entries(st)
  BY WholeIsReadable
<1>2. PICK order : Reports(F, st, components, order)
  BY <1>1, ScanReports DEF ScanOf, Whole
<1>3. /\ DOMAIN F = DOMAIN order
      /\ \A n \in DOMAIN order : /\ order[n] \in Entries(st)
                                 /\ F[n] = Seen(st, components, order[n])
      /\ \A m, n \in DOMAIN order : m # n => order[m] # order[n]
      /\ \A a \in Entries(st) : \E n \in DOMAIN order : order[n] = a
  BY <1>1, <1>2 DEF Reports
<1>4. FindUnique(ScanOf(st), key) = {F[n] : n \in {m \in found : found = {m}}}
  BY DEF FindUnique
<1> HIDE DEF F
<1>5. found = {n \in DOMAIN order : order[n] \in Holding(st, key)}
  BY <1>3 DEF Seen, Holding
<1> HIDE DEF found
<1>6. CASE Holding(st, key) = {}
  BY <1>4, <1>5, <1>6
<1>7. CASE Holding(st, key) # {}
  <2>1. PICK a \in Entries(st) : Holding(st, key) = {a}
    BY <1>7 DEF Holding, Whole
  <2>2. PICK n \in DOMAIN order : order[n] = a
    BY <1>3
  <2>3. found = {n}
    BY <1>3, <1>5, <2>1, <2>2
  <2>4. FindUnique(ScanOf(st), key) = {F[n]}
    BY <1>4, <2>3
  <2>5. F[n] = Seen(st, components, a)
    BY <1>3, <2>2
  <2> QED BY <2>1, <2>4, <2>5
<1> QED BY <1>6, <1>7
-----------------------------------------------------------------------------
(***************************************************************************)
(* The strengthening for the other answers: what is known of the storage   *)
(* that the call began with after each check, and which of its successors  *)
(* each call of the port leaves.                                           *)
(***************************************************************************)
ScannedBefore ==
    pc \in {"sealed_pair", "promote", "consume", "rollback", "post_scan"} =>
        before = ScanOf(start) /\ Whole(start)
ConsumedIsThere ==
    pc \in {"promote", "consume", "rollback", "post_scan"} =>
        Holding(start, candidate.consume_key) # {}
KeptIsThere ==
    pc \in {"consume", "rollback", "post_scan"} =>
        \E a \in Entries(start) : KeptIn(start, candidate, a)
LeavesSuccessor ==
    LET promoted == PromotedKeep(start, candidate)
    IN  /\ pc = "consume" => storage = promoted
        /\ pc = "rollback" =>
              storage \in {promoted,
                           WithoutEntry(promoted, candidate.consume_key)}
        /\ pc = "post_scan" =>
              \/ storage = promoted
              \/ \E key : storage = WithoutEntry(promoted, key)
StatusBefore ==
    pc \in {"pre_scan", "sealed_pair"} => status = "PreconditionFailed"

CallInv ==
    /\ StatusBefore
    /\ ScannedBefore
    /\ ConsumedIsThere
    /\ KeptIsThere
    /\ LeavesSuccessor

LEMMA CallInvWhenIdle == pc = "idle" => CallInv
BY DEF CallInv, StatusBefore, ScannedBefore, ConsumedIsThere, KeptIsThere,
       LeavesSuccessor

LEMMA CallInvStep ==
    TypeOK /\ CandidatesAreMerges /\ UntouchedUntilPromoted /\ CallInv
        /\ [Next]_vars => CallInv'
<1> SUFFICES ASSUME TypeOK, CandidatesAreMerges, UntouchedUntilPromoted,
                    CallInv, [Next]_vars
             PROVE  CallInv'
  OBVIOUS
<1> USE DEF CallInv, StatusBefore, ScannedBefore, ConsumedIsThere,
            KeptIsThere, LeavesSuccessor
<1>1. ASSUME pc' = "idle"
      PROVE  CallInv'
  BY <1>1
<1>2. ASSUME NEW c \in Range(plan), ExecuteCandidate(c)
      PROVE  CallInv'
  BY <1>2 DEF ExecuteCandidate
<1>3. CASE PreScan /\ pc' # "idle"
  <2>1. /\ storage = start /\ components' = components /\ start' = start
        /\ before' = ScanOf(start) /\ pc' = "sealed_pair"
        /\ Complete(ScanOf(start)) /\ status' = "PreconditionFailed"
    BY <1>3 DEF PreScan, UntouchedUntilPromoted, ScanPort, ScanOf, port
  <2>2. Whole(start)
    BY <2>1, CompleteScanIsWhole DEF TypeOK
  <2>3. before' = ScanOf(start)' /\ Whole(start)'
    BY <2>1, <2>2 DEF ScanOf
  <2> QED BY <2>1, <2>3
<1>4. CASE SealedPair /\ pc' # "idle"
  <2>1. /\ before = ScanOf(start) /\ Whole(start) /\ pc' = "promote"
        /\ UNCHANGED <<components, before, start, candidate>>
        /\ FindUnique(before, candidate.consume_key) # {}
    BY <1>4 DEF SealedPair, MatchesSealed, port, call
  <2>2. Holding(start, candidate.consume_key) # {}
    BY <2>1, FindUniqueFindsHolding DEF TypeOK
  <2>3. before' = ScanOf(start)' /\ Whole(start)'
    BY <2>1 DEF ScanOf
  <2> QED BY <2>1, <2>2, <2>3
<1>5. CASE Promote
  <2>1. /\ before = ScanOf(start) /\ Whole(start)
        /\ Holding(start, candidate.consume_key) # {}
        /\ candidate \in Merges /\ storage = start /\ pc' = "consume"
        /\ UNCHANGED <<components, before, start, candidate>>
    BY <1>5 DEF Promote, CandidatesAreMerges, UntouchedUntilPromoted, call
  <2>2. /\ \E a \in Entries(start) : KeptIn(start, candidate, a)
        /\ storage' = PromotedKeep(start, candidate)
    BY <1>5, <2>1, PromoteFindsKeep DEF Promote
  <2>3. before' = ScanOf(start)' /\ Whole(start)'
    BY <2>1 DEF ScanOf
  <2> QED BY <2>1, <2>2, <2>3
<1>6. CASE Consume \/ ConsumeFails
  <2>1. /\ before = ScanOf(start) /\ Whole(start)
        /\ Holding(start, candidate.consume_key) # {}
        /\ \E a \in Entries(start) : KeptIn(start, candidate, a)
        /\ storage = PromotedKeep(start, candidate)
        /\ UNCHANGED <<components, before, start, candidate>>
    BY <1>6 DEF Consume, ConsumeFails, call
  <2>2. before' = ScanOf(start)' /\ Whole(start)'
    BY <2>1 DEF ScanOf
  <2>3. CASE Consume
    <3>1. /\ pc' = "post_scan"
          /\ storage' = storage \/ \E key : storage' = WithoutEntry(storage, key)
      BY <2>3 DEF Consume, Consumed
    <3> QED BY <2>1, <2>2, <3>1
  <2>4. CASE ConsumeFails
    <3>1. /\ pc' = "rollback"
          /\ \/ storage' = storage
             \/ storage' = WithoutEntry(storage, candidate.consume_key)
      BY <2>4 DEF ConsumeFails, NotConsumed
    <3> QED BY <2>1, <2>2, <3>1
  <2> QED BY <1>6, <2>3, <2>4
<1>7. CASE PromoteFails \/ PostScan \/ RollBack \/ RollBackFails \/ Plans
  BY <1>1, <1>7
  DEF PromoteFails, PostScan, Returns, RollBack, RollBackFails, Plans
<1>8. ASSUME NEW a \in Addresses,
             GameLoses(a) \/ GameAcquires(a) \/ GameConverts(a)
      PROVE  CallInv'
  BY <1>1, <1>8 DEF GameLoses, GameAcquires, GameConverts, GameChanges
<1>9. CASE UNCHANGED vars
  BY <1>9 DEF vars, port, call, ScanOf, Whole
<1> QED BY <1>1, <1>2, <1>3, <1>4, <1>5, <1>6, <1>7, <1>8, <1>9 DEF Next

LEMMA CallInvHolds ==
    Spec => [](/\ TypeOK /\ CandidatesAreMerges /\ UntouchedUntilPromoted
               /\ CallInv)
<1>1. Init => CallInv
  BY CallInvWhenIdle DEF Init
<1> QED BY <1>1, TransactionTypesInit, TransactionTypesStep, InitUntouched,
           NextUntouched, CallInvStep, PTL DEF Spec
-----------------------------------------------------------------------------
(***************************************************************************)
(* After a failed Consume.                                                 *)
(***************************************************************************)
LEMMA RollBackRestores ==
    ASSUME TypeOK, CandidatesAreMerges, CallInv, pc = "rollback",
           ClearableKeep # {}
    PROVE  RolledBack \in {start, WithoutEntry(start, candidate.consume_key)}
<1> DEFINE c == candidate
           promoted == PromotedKeep(start, c)
<1>1. /\ c \in Merges /\ start \in Storage
      /\ storage \in {promoted, WithoutEntry(promoted, c.consume_key)}
      /\ RolledBack = ClearFlag(storage, ClearableKeep, Promotion(c))
      /\ ClearableKeep # {}
  BY DEF RolledBack, CandidatesAreMerges, TypeOK, CallInv, LeavesSuccessor
<1>2. PICK a \in Entries(start) : KeptIn(start, c, a)
  BY DEF CallInv, KeptIsThere
<1> HIDE DEF c
<1>3. /\ Promotion(c) \in Flag
      /\ Promotion(c) \notin start[a].placement_flags
      /\ c.keep_key # c.consume_key
  BY <1>1, <1>2, PromotionIsFlag DEF KeptIn
<1>4. promoted = SetFlag(start, {a}, Promotion(c))
  BY <1>2 DEF PromotedKeep, KeptIn
<1>5. Holding(promoted, c.keep_key) = {a}
  BY <1>1, <1>2, <1>3, <1>4, FlaggingKeepsKeys DEF KeptIn
<1> HIDE DEF promoted
<1>6. ClearableKeep \subseteq Holding(storage, c.keep_key)
  BY DEF ClearableKeep, Clearable, FindEntry, c
<1>7. Holding(storage, c.keep_key) \subseteq Holding(promoted, c.keep_key)
  BY <1>1 DEF WithoutEntry, Holding, Entries
<1>8. ClearableKeep = {a}
  BY <1>1, <1>5, <1>6, <1>7
<1>9. a \notin Holding(start, c.consume_key)
  BY <1>2, <1>3 DEF KeptIn, Holding
<1>10. /\ ClearFlag(promoted, {a}, Promotion(c)) = start
       /\ ClearFlag(WithoutEntry(promoted, c.consume_key), {a}, Promotion(c))
             = WithoutEntry(start, c.consume_key)
  BY <1>1, <1>3, <1>4, <1>9, ClearingRestores
<1> QED BY <1>1, <1>8, <1>10 DEF c

(***************************************************************************)
(* After a failed Consume the caller knows where it stands: a rollback     *)
(* that succeeded took the promotion back, one that failed may have left   *)
(* it, and nothing but the copy to be consumed can be missing, whether or  *)
(* not the game's delete had its effect before it failed                   *)
(* (domain.cpp:235-251).                                                   *)
(***************************************************************************)
THEOREM FailureIsAlwaysOneCopy == Spec => FailureIsOneCopy
<1> DEFINE Failure == Returning /\ status' = "ConsumeFailed"
           Known ==
             LET promoted == PromotedKeep(start, candidate)
                 key == candidate.consume_key
                 demoted == {start, WithoutEntry(start, key)}
             IN  \/ /\ rollback' = "succeeded"
                    /\ storage' \in demoted
                 \/ /\ rollback' = "failed"
                    /\ storage' \in demoted \cup
                           {promoted, WithoutEntry(promoted, key)}
<1>1. TypeOK /\ CandidatesAreMerges /\ UntouchedUntilPromoted /\ CallInv
         /\ [Next]_vars => [Failure => Known]_vars
  <2> SUFFICES ASSUME TypeOK, CandidatesAreMerges, UntouchedUntilPromoted,
                      CallInv, Next, Failure
               PROVE  Known
    OBVIOUS
  <2>1. CASE RollBack
    BY <2>1, RollBackRestores DEF RollBack
  <2>2. CASE RollBackFails
    <3>1. /\ rollback' = "failed" /\ pc = "rollback"
          /\ \/ storage' = storage
             \/ ClearableKeep # {} /\ storage' = RolledBack
      BY <2>2 DEF RollBackFails, NotRolledBack
    <3>2. storage \in {PromotedKeep(start, candidate),
                      WithoutEntry(PromotedKeep(start, candidate),
                                   candidate.consume_key)}
      BY <3>1 DEF CallInv, LeavesSuccessor
    <3> QED BY <3>1, <3>2, RollBackRestores
  <2>3. CASE PreScan \/ SealedPair
    BY <2>3 DEF PreScan, SealedPair, call, CallInv, StatusBefore
  <2>4. ~PromoteFails /\ ~PostScan
    BY DEF PromoteFails, PostScan, Returns
  <2>5. ~(Promote \/ Consume \/ ConsumeFails)
    BY DEF Promote, Consume, ConsumeFails, Returning
  <2>6. ~Plans /\ ~(\E c \in Range(plan) : ExecuteCandidate(c))
    BY DEF Plans, ExecuteCandidate, Returning
  <2>7. ~(\E a \in Addresses :
             GameLoses(a) \/ GameAcquires(a) \/ GameConverts(a))
    BY DEF GameLoses, GameAcquires, GameConverts, GameChanges, Returning
  <2> QED BY <2>1, <2>2, <2>3, <2>4, <2>5, <2>6, <2>7 DEF Next
<1> QED BY <1>1, CallInvHolds, PTL DEF Spec, FailureIsOneCopy
-----------------------------------------------------------------------------
(***************************************************************************)
(* The scan at the end.  A pair leaves the storage whole.                  *)
(***************************************************************************)
LEMMA WholeAfterFlag ==
    ASSUME NEW st \in Storage, Whole(st), NEW S \in SUBSET Entries(st),
           NEW flag \in Flag
    PROVE  Whole(SetFlag(st, S, flag))
<1> DEFINE new == SetFlag(st, S, flag)
<1>1. /\ Entries(new) = Entries(st) /\ new \in Storage
      /\ \A key : Holding(new, key) = Holding(st, key)
  BY FlaggingKeepsKeys, FlaggedStorage
<1>2. \A a \in Addresses : new[a] # Garbage
  <2>1. ASSUME NEW a \in Addresses
        PROVE  new[a] # Garbage
    <3>1. CASE a \in Entries(st)
      BY <1>1, <3>1 DEF Entries
    <3>2. CASE a \notin Entries(st)
      BY <3>2 DEF SetFlag, Whole
    <3> QED BY <3>1, <3>2
  <2> QED BY <2>1
<1> HIDE DEF new
<1>3. ASSUME NEW a \in Entries(new)
      PROVE  new[a].stable_key # 0 /\ Holding(new, new[a].stable_key) = {a}
  <2>1. a \in Holding(new, new[a].stable_key)
    BY DEF Holding
  <2>2. /\ a \in Entries(st) /\ st[a].stable_key = new[a].stable_key
    BY <1>1, <2>1 DEF Holding
  <2> QED BY <1>1, <2>2 DEF Whole
<1> QED BY <1>1, <1>2, <1>3 DEF Whole, new

LEMMA WholeAfterRemoval ==
    ASSUME NEW st \in Storage, Whole(st), NEW key
    PROVE  Whole(WithoutEntry(st, key))
<1> DEFINE new == WithoutEntry(st, key)
<1>1. /\ Entries(new) = Entries(st) \ Holding(st, key)
      /\ \A other : Holding(new, other) = Holding(st, other) \ Holding(st, key)
  BY RemovingKeepsKeys
<1>2. \A a \in Addresses : new[a] # Garbage
  BY MarkersAssumption DEF WithoutEntry, Whole
<1>3. \A a \in Entries(new) : new[a] = st[a]
  BY DEF WithoutEntry, Entries, Holding
<1> HIDE DEF new
<1>4. ASSUME NEW a \in Entries(new)
      PROVE  new[a].stable_key # 0 /\ Holding(new, new[a].stable_key) = {a}
  <2>1. /\ a \in Entries(st) /\ a \notin Holding(st, key)
        /\ new[a].stable_key = st[a].stable_key
    BY <1>1, <1>3
  <2> QED BY <1>1, <2>1 DEF Whole
<1>5. Cardinality(Entries(new)) <= ScanCapacity
  <2>1. IsFiniteSet(Entries(st))
    BY AddressesAssumption, FS_Subset DEF Entries
  <2>2. /\ Cardinality(Entries(new)) \in Nat
        /\ Cardinality(Entries(st)) \in Nat
        /\ Cardinality(Entries(new)) <= Cardinality(Entries(st))
    BY <1>1, <2>1, FS_Subset, FS_CardinalityType
  <2> QED BY <2>2, ScanCapacityAssumption DEF Whole
<1> QED BY <1>2, <1>4, <1>5 DEF Whole, new

LEMMA PromotedIsWhole ==
    ASSUME TypeOK, NEW c \in Merges, Whole(start),
           NEW a \in Entries(start), KeptIn(start, c, a)
    PROVE  /\ PromotedKeep(start, c) \in Storage
           /\ Whole(PromotedKeep(start, c))
           /\ Entries(PromotedKeep(start, c)) = Entries(start)
           /\ \A key : Holding(PromotedKeep(start, c), key) = Holding(start, key)
           /\ PromotedKeep(start, c)[a].item_id = c.item_id
           /\ PromotedKeep(start, c)[a].placement_flags =
                 c.keep_flags \cup {Promotion(c)}
<1>1. PromotedKeep(start, c) = SetFlag(start, {a}, Promotion(c))
  BY DEF PromotedKeep, KeptIn
<1>2. start \in Storage /\ Promotion(c) \in Flag /\ {a} \subseteq Entries(start)
  BY PromotionIsFlag DEF TypeOK
<1>3. start[a] \in Entry /\ a \in Addresses
  BY <1>2, EntriesAreEntries
<1>4. /\ PromotedKeep(start, c)[a].item_id = c.item_id
      /\ PromotedKeep(start, c)[a].placement_flags =
            c.keep_flags \cup {Promotion(c)}
  <2>1. PromotedKeep(start, c)[a] =
           [start[a] EXCEPT !.placement_flags = @ \cup {Promotion(c)}]
    BY <1>1, <1>3 DEF SetFlag
  <2> QED BY <1>3, <2>1 DEF Entry, KeptIn
<1>5. /\ SetFlag(start, {a}, Promotion(c)) \in Storage
      /\ Whole(SetFlag(start, {a}, Promotion(c)))
  BY <1>2, FlaggedStorage, WholeAfterFlag
<1>6. /\ Entries(SetFlag(start, {a}, Promotion(c))) = Entries(start)
      /\ \A key : Holding(SetFlag(start, {a}, Promotion(c)), key) =
                     Holding(start, key)
  BY <1>2, FlaggingKeepsKeys
<1> QED BY <1>1, <1>4, <1>5, <1>6

(***************************************************************************)
(* With both copies found in the first scan, only a merge leaves a storage *)
(* in which the scan no longer finds the copy that was to be consumed.     *)
(***************************************************************************)
LEMMA VerifiedIsMerged ==
    ASSUME TypeOK, CandidatesAreMerges, CallInv, pc = "post_scan",
           Verified(ScanPort)
    PROVE  storage = Merged(start, candidate)
<1> DEFINE c == candidate
           promoted == PromotedKeep(start, c)
<1>1. /\ c \in Merges /\ Whole(start) /\ Holding(start, c.consume_key) # {}
      /\ storage = promoted \/ \E key : storage = WithoutEntry(promoted, key)
      /\ storage \in Storage
  BY DEF CandidatesAreMerges, CallInv, ScannedBefore, ConsumedIsThere,
         LeavesSuccessor, TypeOK
<1>2. /\ FindUnique(ScanOf(storage), c.consume_key) = {}
      /\ Complete(ScanOf(storage))
  BY DEF Verified, ScanPort, ScanOf
<1>3. Merged(start, c) = WithoutEntry(promoted, c.consume_key)
  BY DEF Merged
<1>4. PICK a \in Entries(start) : KeptIn(start, c, a)
  BY DEF CallInv, KeptIsThere
<1> HIDE DEF c
<1>5. /\ promoted \in Storage
      /\ Holding(promoted, c.consume_key) # {}
  BY <1>1, <1>4, PromotedIsWhole
<1> HIDE DEF promoted
<1>6. Holding(storage, c.consume_key) = {}
  BY <1>1, <1>2, CompleteScanIsWhole, FindUniqueFindsHolding
<1>7. PICK key : storage = WithoutEntry(promoted, key)
  BY <1>1, <1>5, <1>6
<1>8. Holding(promoted, c.consume_key) \subseteq Holding(promoted, key)
  BY <1>5, <1>6, <1>7, RemovingKeepsKeys
<1>9. key = c.consume_key
  BY <1>5, <1>8 DEF Holding
<1> QED BY <1>3, <1>7, <1>9 DEF c

LEMMA MergedIsVerified ==
    ASSUME TypeOK, CandidatesAreMerges, CallInv, pc = "post_scan",
           storage = Merged(start, candidate)
    PROVE  Verified(ScanPort)
<1> DEFINE c == candidate
           promoted == PromotedKeep(start, c)
           after == ScanOf(storage)
<1>1. /\ c \in Merges /\ Whole(start) /\ Holding(start, c.consume_key) # {}
      /\ before = ScanOf(start) /\ storage \in Storage /\ start \in Storage
      /\ storage = WithoutEntry(promoted, c.consume_key)
  BY DEF CandidatesAreMerges, CallInv, ScannedBefore, ConsumedIsThere,
         TypeOK, Merged
<1>2. PICK a \in Entries(start) : KeptIn(start, c, a)
  BY DEF CallInv, KeptIsThere
<1>3. PICK b \in Entries(start) : Holding(start, c.consume_key) = {b}
  BY <1>1 DEF Holding, Whole
<1> HIDE DEF c
<1>4. /\ promoted \in Storage /\ Whole(promoted)
      /\ Entries(promoted) = Entries(start)
      /\ Holding(promoted, c.consume_key) = {b}
      /\ Holding(promoted, c.keep_key) = {a}
      /\ promoted[a].item_id = c.item_id
      /\ promoted[a].placement_flags = c.keep_flags \cup {Promotion(c)}
  BY <1>1, <1>2, <1>3, PromotedIsWhole DEF KeptIn
<1> HIDE DEF promoted
<1>5. a # b
  <2>1. c.keep_key # c.consume_key
    BY <1>1, PromotionIsFlag
  <2> QED BY <1>4, <2>1 DEF Holding
<1>6. /\ Whole(storage)
      /\ Entries(storage) = Entries(start) \ {b}
      /\ Holding(storage, c.keep_key) = {a}
      /\ Holding(storage, c.consume_key) = {}
  <2>1. Whole(storage)
    BY <1>1, <1>4, WholeAfterRemoval
  <2>2. /\ Entries(storage) = Entries(start) \ {b}
        /\ Holding(storage, c.keep_key) = {a} \ {b}
        /\ Holding(storage, c.consume_key) = {b} \ {b}
    BY <1>1, <1>4, RemovingKeepsKeys
  <2> QED BY <1>5, <2>1, <2>2
<1>7. storage[a] = promoted[a]
  BY <1>1, <1>2, <1>4, <1>5 DEF WithoutEntry, Entries
<1>8. Complete(after)
  BY <1>1, <1>6, CompleteScanIsWhole
<1>9. Len(after.furniture) + 1 = Len(before.furniture)
  <2>1. IsFiniteSet(Entries(start))
    BY AddressesAssumption, FS_Subset DEF Entries
  <2>2. Cardinality(Entries(storage)) = Cardinality(Entries(start)) - 1
    BY <1>6, <2>1, FS_RemoveElement
  <2>3. /\ Len(before.furniture) = Cardinality(Entries(start))
        /\ Cardinality(Entries(start)) \in Nat
    BY <1>1, LengthOfScan
  <2>4. Len(after.furniture) = Cardinality(Entries(storage))
    BY <1>1, <1>6, LengthOfScan
  <2> HIDE DEF after
  <2> QED BY <2>2, <2>3, <2>4
<1>10. FindUnique(after, c.keep_key) = {Seen(storage, components, a)}
  BY <1>1, <1>6, FindUniqueFindsHolding
<1>11. FindUnique(after, c.consume_key) = {}
  BY <1>1, <1>6, FindUniqueFindsHolding
<1>12. "rare" \in c.keep_flags \cup {Promotion(c)}
  BY <1>1 DEF Merges, PairIsMerge, Promotion
<1>13. LET kept == Seen(storage, components, a)
       IN  /\ kept.item_id = c.item_id
           /\ kept.placement_flags = c.keep_flags \cup {Promotion(c)}
           /\ IsRare(kept)
  BY <1>4, <1>7, <1>12 DEF Seen, IsRare
<1>14. Verified(after)
  <2> HIDE DEF after
  <2> QED BY <1>8, <1>9, <1>10, <1>11, <1>13 DEF Verified, c
<1> QED BY <1>14 DEF ScanPort, ScanOf

LEMMA AnswersOfPostScan ==
    ASSUME CallInv, UntouchedUntilPromoted, Next, Returning,
           status' \in {"Success", "VerificationFailed"}
    PROVE  /\ pc = "post_scan" /\ storage' = storage
           /\ status' = IF Verified(ScanPort) THEN "Success"
                                              ELSE "VerificationFailed"
<1>1. CASE PostScan
  BY <1>1 DEF PostScan, Returns, port
<1>2. ~(PreScan \/ SealedPair)
  BY DEF PreScan, SealedPair, Returning, call, CallInv, StatusBefore
<1>3. ~PromoteFails
  BY DEF PromoteFails, Returns
<1>4. ~(RollBack \/ RollBackFails)
  BY DEF RollBack, RollBackFails, UntouchedUntilPromoted
<1>5. ~(Promote \/ Consume \/ ConsumeFails)
  BY DEF Promote, Consume, ConsumeFails, Returning
<1>6. ~Plans /\ ~(\E c \in Range(plan) : ExecuteCandidate(c))
  BY DEF Plans, ExecuteCandidate, Returning
<1>7. ~(\E a \in Addresses :
           GameLoses(a) \/ GameAcquires(a) \/ GameConverts(a))
  BY DEF GameLoses, GameAcquires, GameConverts, GameChanges, Returning
<1> QED BY <1>1, <1>2, <1>3, <1>4, <1>5, <1>6, <1>7 DEF Next

(***************************************************************************)
(* "Success" is only reported for the merge that was asked for: the keep   *)
(* promoted, the other copy gone and all else as it was before the call,   *)
(* though Consume may claim what it did not do or take another furniture   *)
(* (domain.cpp:253-273).                                                   *)
(***************************************************************************)
THEOREM SuccessIsAlwaysTheMerge == Spec => SuccessIsTheMerge
<1>1. TypeOK /\ CandidatesAreMerges /\ UntouchedUntilPromoted /\ CallInv
         /\ [Next]_vars =>
           [Returning /\ status' = "Success"
              => storage' = Merged(start, candidate)]_vars
  BY AnswersOfPostScan, VerifiedIsMerged
<1> QED BY <1>1, CallInvHolds, PTL DEF Spec, SuccessIsTheMerge

(***************************************************************************)
(* The scan after the pair raises no false alarm: the merge that was asked *)
(* for passes it, whatever the storage held besides the pair               *)
(* (domain.cpp:256-266).                                                   *)
(***************************************************************************)
THEOREM AlarmIsAlwaysJustified == Spec => AlarmIsJustified
<1>1. TypeOK /\ CandidatesAreMerges /\ UntouchedUntilPromoted /\ CallInv
         /\ [Next]_vars =>
           [Returning /\ status' = "VerificationFailed"
              => storage' # Merged(start, candidate)]_vars
  BY AnswersOfPostScan, MergedIsVerified
<1> QED BY <1>1, CallInvHolds, PTL DEF Spec, AlarmIsJustified
==============================================================================
