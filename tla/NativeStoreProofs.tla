--------------------------- MODULE NativeStoreProofs ---------------------------
(***************************************************************************)
(* What the operations on the storage and on the component list return,    *)
(* that a scan, complete or not, reports a snapshot the planner can take,  *)
(* and that what a complete one reports stays sealed in the storage.       *)
(***************************************************************************)
EXTENDS NativeStore, CandidatesProofs

LEMMA EntriesAreEntries ==
    ASSUME NEW st \in Storage, NEW a \in Entries(st)
    PROVE  a \in Addresses /\ st[a] \in Entry
BY DEF Storage, Entries

LEMMA FindEntryFindsEntries ==
    ASSUME NEW st \in Storage, NEW key, NEW item
    PROVE  FindEntry(st, key, item) \subseteq Entries(st)
BY DEF FindEntry, Holding, Entries

LEMMA ClearableAreEntries ==
    ASSUME NEW st \in Storage, NEW co, NEW sig, NEW key, NEW item
    PROVE  Clearable(st, co, sig, key, item) \subseteq Entries(st)
<1>1. Clearable(st, co, sig, key, item) \subseteq FindEntry(st, key, item)
  BY DEF Clearable
<1> QED BY <1>1, FindEntryFindsEntries

LEMMA FlaggedStorage ==
    ASSUME NEW st \in Storage, NEW S \in SUBSET Entries(st),
           NEW flag \in Flag
    PROVE  SetFlag(st, S, flag) \in Storage /\ ClearFlag(st, S, flag) \in Storage
<1>1. ASSUME NEW a \in Addresses
      PROVE  /\ SetFlag(st, S, flag)[a] \in Entry \cup {Free, Garbage}
             /\ ClearFlag(st, S, flag)[a] \in Entry \cup {Free, Garbage}
  <2>1. CASE a \in S
    <3>1. st[a] \in Entry
      BY <2>1, EntriesAreEntries
    <3>2. /\ SetFlag(st, S, flag)[a] \in Entry
          /\ ClearFlag(st, S, flag)[a] \in Entry
      BY <2>1, <3>1 DEF SetFlag, ClearFlag, Entry, Flags
    <3> QED BY <3>2
  <2>2. CASE a \notin S
    BY <2>2 DEF SetFlag, ClearFlag, Storage
  <2> QED BY <2>1, <2>2
<1>2. /\ SetFlag(st, S, flag) = [a \in Addresses |-> SetFlag(st, S, flag)[a]]
      /\ ClearFlag(st, S, flag) =
            [a \in Addresses |-> ClearFlag(st, S, flag)[a]]
  BY DEF SetFlag, ClearFlag
<1> QED BY <1>1, <1>2 DEF Storage

LEMMA WithoutEntryStorage ==
    ASSUME NEW st \in Storage, NEW key
    PROVE  WithoutEntry(st, key) \in Storage
BY DEF WithoutEntry, Storage

LEMMA OutOfRoomsStorage ==
    ASSUME NEW st \in Storage, NEW keys
    PROVE  OutOfRooms(st, keys) \in Storage
<1>1. ASSUME NEW a \in Addresses
      PROVE  OutOfRooms(st, keys)[a] \in Entry \cup {Free, Garbage}
  <2>1. CASE a \in Entries(st)
    <3>1. st[a] \in Entry
      BY <2>1, EntriesAreEntries
    <3> QED BY <3>1 DEF OutOfRooms, Entry
  <2>2. CASE a \notin Entries(st)
    BY <2>2 DEF OutOfRooms, Storage
  <2> QED BY <2>1, <2>2
<1>2. OutOfRooms(st, keys) = [a \in Addresses |-> OutOfRooms(st, keys)[a]]
  BY DEF OutOfRooms
<1> QED BY <1>1, <1>2 DEF Storage

LEMMA QueuedComponents ==
    ASSUME NEW co \in Components, NEW pieces
    PROVE  QueuedForDeletion(co, pieces) \in Components
BY DEF QueuedForDeletion, Components, Piece

LEMMA FindPiecesFindsPieces ==
    ASSUME NEW st, NEW co, NEW key
    PROVE  FindPieces(st, co, key) \subseteq Pieces
BY DEF FindPieces, Live

LEMMA FindPiecesIsFinite ==
    ASSUME NEW st, NEW co, NEW key
    PROVE  Cardinality(FindPieces(st, co, key)) \in Nat
<1>1. IsFiniteSet(FindPieces(st, co, key))
  BY FindPiecesFindsPieces, PiecesAssumption, FS_Subset
<1> QED BY <1>1, FS_CardinalityType
-----------------------------------------------------------------------------
(***************************************************************************)
(* A scan reports at most as many furniture as the buffer holds, each with *)
(* the types of the program's.                                             *)
(***************************************************************************)
LEMMA ScanIsSnapshot ==
    ASSUME NEW st \in Storage, NEW co \in Components, NEW sig \in BOOLEAN
    PROVE  Scan(st, co, sig) \in Snapshot
<1> DEFINE readable == {a \in Entries(st) : st[a].stable_key # 0}
           weight == [a \in readable |-> a]
           order == Ascending(readable, weight)
           count == Smaller(ScanCapacity, Cardinality(readable))
           seen(e) == [stable_key |-> e.stable_key,
                       item_id |-> e.item_id,
                       placed |-> e.placed,
                       placement_flags |-> e.placement_flags,
                       delete_pending |-> FALSE,
                       runtime_match_count |->
                          Cardinality(FindPieces(st, co, e.stable_key))]
           furniture == [n \in 1..count |-> seen(st[order[n]])]
           complete == /\ sig
                       /\ \A a \in Addresses : st[a] # Garbage
                       /\ readable = Entries(st)
                       /\ Cardinality(readable) <= ScanCapacity
<1>1. Scan(st, co, sig) = [furniture |-> furniture, complete |-> complete]
  BY DEF Scan
<1>2. IsFiniteSet(readable)
  BY AddressesAssumption, FS_Subset DEF Entries
<1>3. Distinguishes(weight, readable)
  BY AddressesAssumption DEF Distinguishes, Entries
<1>4. order \in Seq(readable) /\ Len(order) = Cardinality(readable)
  <2> HIDE DEF readable, weight
  <2> QED BY <1>2, <1>3, AscendingEnumerates
<1>5. /\ Cardinality(readable) \in Nat
      /\ count \in Nat /\ count <= Cardinality(readable)
  <2>1. Cardinality(readable) \in Nat
    BY <1>2, FS_CardinalityType
  <2> HIDE DEF readable
  <2> QED BY <2>1, ScanCapacityAssumption DEF Smaller
<1>6. ASSUME NEW n \in 1..count
      PROVE  seen(st[order[n]]) \in FurnitureInstance
  <2>1. order[n] \in readable
    <3> HIDE DEF order, readable, count
    <3> QED BY <1>4, <1>5
  <2>2. st[order[n]] \in Entry
    BY <2>1, EntriesAreEntries
  <2>3. ASSUME NEW e \in Entry
        PROVE  seen(e) \in FurnitureInstance
    <3>1. Cardinality(FindPieces(st, co, e.stable_key)) \in Nat
      BY FindPiecesIsFinite
    <3> QED BY <3>1 DEF Entry, FurnitureInstance
  <2> HIDE DEF seen, order
  <2> QED BY <2>2, <2>3
<1>7. furniture \in Seq(FurnitureInstance)
  <2>1. furniture \in [1..count -> FurnitureInstance]
    <3> HIDE DEF seen, order, count
    <3> QED BY <1>6
  <2> HIDE DEF furniture, count
  <2> QED BY <1>5, <2>1
<1>8. complete \in BOOLEAN
  OBVIOUS
<1> HIDE DEF furniture, complete
<1> QED BY <1>1, <1>7, <1>8 DEF Snapshot

\* What a scan reports of the entry at a, and the entries it can report.
Seen(st, co, a) ==
    [stable_key |-> st[a].stable_key,
     item_id |-> st[a].item_id,
     placed |-> st[a].placed,
     placement_flags |-> st[a].placement_flags,
     delete_pending |-> FALSE,
     runtime_match_count |->
        Cardinality(FindPieces(st, co, st[a].stable_key))]
Readable(st) == {a \in Entries(st) : st[a].stable_key # 0}

\* furniture reports the entries at the addresses in order, each once.
Reports(furniture, st, co, order) ==
    /\ order \in [1..Cardinality(Readable(st)) -> Readable(st)]
    /\ \A m, n \in DOMAIN order : m # n => order[m] # order[n]
    /\ \A a \in Readable(st) : \E n \in DOMAIN order : order[n] = a
    /\ furniture = [n \in 1..Cardinality(Readable(st)) |->
                       Seen(st, co, order[n])]

\* A buffer that holds all there is to report leaves no entry out.
LEMMA ScanReports ==
    ASSUME NEW st \in Storage, NEW co, NEW sig,
           Cardinality(Readable(st)) <= ScanCapacity
    PROVE  /\ Cardinality(Readable(st)) \in Nat
           /\ \E order : Reports(Scan(st, co, sig).furniture, st, co, order)
<1> DEFINE readable == {x \in Entries(st) : st[x].stable_key # 0}
           weight == [x \in readable |-> x]
           order == Ascending(readable, weight)
           count == Smaller(ScanCapacity, Cardinality(readable))
           seen(e) == [stable_key |-> e.stable_key,
                       item_id |-> e.item_id,
                       placed |-> e.placed,
                       placement_flags |-> e.placement_flags,
                       delete_pending |-> FALSE,
                       runtime_match_count |->
                          Cardinality(FindPieces(st, co, e.stable_key))]
<1>1. Scan(st, co, sig).furniture = [n \in 1..count |-> seen(st[order[n]])]
  BY DEF Scan
<1>2. IsFiniteSet(readable) /\ Readable(st) = readable
  BY AddressesAssumption, FS_Subset DEF Entries, Readable
<1>3. Distinguishes(weight, readable)
  BY AddressesAssumption DEF Distinguishes, Entries
<1>4. \A a : seen(st[a]) = Seen(st, co, a)
  BY DEF Seen
<1> HIDE DEF readable, weight, seen
<1>5. Cardinality(readable) \in Nat /\ count = Cardinality(readable)
  <2>1. Cardinality(readable) \in Nat
    BY <1>2, FS_CardinalityType
  <2> QED BY <1>2, <2>1, ScanCapacityAssumption DEF Smaller
<1>6. /\ order \in Seq(readable) /\ Len(order) = Cardinality(readable)
      /\ \A m, n \in 1..Len(order) : m # n => order[m] # order[n]
      /\ \A x \in readable : \E n \in 1..Cardinality(readable) : order[n] = x
  BY <1>2, <1>3, AscendingEnumerates DEF Distinct
<1> HIDE DEF order, count
<1>7. /\ order \in [1..Cardinality(readable) -> readable]
      /\ DOMAIN order = 1..Cardinality(readable)
  BY <1>5, <1>6
<1>8. Reports(Scan(st, co, sig).furniture, st, co, order)
  BY <1>1, <1>2, <1>4, <1>5, <1>6, <1>7 DEF Reports
<1> QED BY <1>2, <1>5, <1>8

\* A buffer as large as the storage leaves no entry with a key out.
LEMMA ScanHolds ==
    ASSUME NEW st \in Storage, NEW co, NEW sig, NEW a \in Entries(st),
           st[a].stable_key # 0, Cardinality(Addresses) <= ScanCapacity
    PROVE  LET furniture == Scan(st, co, sig).furniture
           IN  \E n \in DOMAIN furniture :
                  /\ furniture[n].stable_key = st[a].stable_key
                  /\ furniture[n].item_id = st[a].item_id
                  /\ furniture[n].placement_flags = st[a].placement_flags
<1>1. Cardinality(Readable(st)) <= ScanCapacity
  <2>1. Readable(st) \subseteq Addresses
    BY DEF Readable, Entries
  <2>2. /\ Cardinality(Readable(st)) \in Nat
        /\ Cardinality(Addresses) \in Nat
        /\ Cardinality(Readable(st)) <= Cardinality(Addresses)
    BY <2>1, AddressesAssumption, FS_CardinalityType, FS_Subset
  <2> QED BY <2>2, ScanCapacityAssumption
<1>2. PICK order : Reports(Scan(st, co, sig).furniture, st, co, order)
  BY <1>1, ScanReports
<1>3. a \in Readable(st)
  BY DEF Readable
<1>4. PICK n \in DOMAIN order : order[n] = a
  BY <1>2, <1>3 DEF Reports
<1>5. /\ n \in DOMAIN Scan(st, co, sig).furniture
      /\ Scan(st, co, sig).furniture[n] = Seen(st, co, a)
  BY <1>2, <1>4 DEF Reports
<1> QED BY <1>5 DEF Seen

\* The plan that a scan leads to has the types of the program's, and each
\* of its pairs is a merge.
LEMMA PlanOfScan ==
    ASSUME NEW st \in Storage, NEW co \in Components, NEW sig \in BOOLEAN
    PROVE  FindCandidates(Scan(st, co, sig)) \in Seq(Merges)
BY ScanIsSnapshot, FindCandidatesAreMerges
-----------------------------------------------------------------------------
(***************************************************************************)
(* No operation leaves a loaded piece without the placed entry it shows.   *)
(***************************************************************************)
LEMMA FlaggingShowsPlaced ==
    ASSUME NEW st \in Storage, NEW co \in Components, ShowsPlaced(st, co),
           NEW S \in SUBSET Entries(st), NEW flag \in Flag
    PROVE  /\ ShowsPlaced(SetFlag(st, S, flag), co)
           /\ ShowsPlaced(ClearFlag(st, S, flag), co)
<1>1. ASSUME NEW a \in Addresses, st[a] # Free,
             st[a] # Garbage => st[a].placed,
             NEW new \in {SetFlag(st, S, flag), ClearFlag(st, S, flag)}
      PROVE  new[a] # Free /\ (new[a] # Garbage => new[a].placed)
  <2>1. CASE a \in S
    <3>1. st[a] \in Entry /\ st[a] # Garbage
      BY <2>1, EntriesAreEntries DEF Entries
    <3>2. new[a] \in Entry /\ new[a].placed = st[a].placed
      BY <1>1, <2>1, <3>1 DEF SetFlag, ClearFlag, Entry, Flags
    <3> QED BY <1>1, <3>1, <3>2, MarkersAssumption
  <2>2. CASE a \notin S
    BY <1>1, <2>2 DEF SetFlag, ClearFlag
  <2> QED BY <2>1, <2>2
<1>2. ASSUME NEW new \in {SetFlag(st, S, flag), ClearFlag(st, S, flag)}
      PROVE  ShowsPlaced(new, co)
  BY <1>1 DEF ShowsPlaced
<1> QED BY <1>2

LEMMA RemovingShowsPlaced ==
    ASSUME NEW st \in Storage, NEW co \in Components, ShowsPlaced(st, co),
           NEW key, FindPieces(st, co, key) = {}
    PROVE  ShowsPlaced(WithoutEntry(st, key), co)
<1> SUFFICES ASSUME NEW p \in Live(co)
             PROVE  LET a == co[p].entry
                        new == WithoutEntry(st, key)
                    IN  /\ a \in Addresses
                        /\ new[a] # Free
                        /\ new[a] # Garbage => new[a].placed
  BY DEF ShowsPlaced
<1>1. co[p].entry \notin Holding(st, key)
  BY DEF FindPieces
<1> QED BY <1>1 DEF ShowsPlaced, WithoutEntry

\* The pieces of the furniture put away are queued, so those that are left
\* show other entries.
LEMMA PuttingAwayShowsPlaced ==
    ASSUME NEW st \in Storage, NEW co \in Components, ShowsPlaced(st, co),
           NEW keys
    PROVE  ShowsPlaced(OutOfRooms(st, keys),
                       QueuedForDeletion(co,
                           UNION {FindPieces(st, co, k) : k \in keys}))
<1> DEFINE pieces == UNION {FindPieces(st, co, k) : k \in keys}
           new == OutOfRooms(st, keys)
           left == QueuedForDeletion(co, pieces)
<1> SUFFICES ASSUME NEW p \in Live(left)
             PROVE  LET a == left[p].entry
                    IN  /\ a \in Addresses
                        /\ new[a] # Free
                        /\ new[a] # Garbage => new[a].placed
  BY DEF ShowsPlaced
<1>1. p \in Pieces /\ p \notin pieces /\ left[p] = co[p] /\ p \in Live(co)
  <2>1. p \in Pieces /\ left[p] # Gone /\ ~left[p].delete_queued
    BY DEF Live
  <2>2. p \notin pieces
    <3> HIDE DEF pieces
    <3> QED BY <2>1 DEF QueuedForDeletion
  <2>3. left[p] = co[p]
    <3> HIDE DEF pieces
    <3> QED BY <2>1, <2>2 DEF QueuedForDeletion
  <2> QED BY <2>1, <2>2, <2>3 DEF Live
<1> DEFINE a == co[p].entry
<1>2. a \in Addresses /\ st[a] # Free /\ (st[a] # Garbage => st[a].placed)
  BY <1>1 DEF ShowsPlaced
<1>3. ~(a \in Entries(st) /\ st[a].stable_key \in keys)
  <2> SUFFICES ASSUME a \in Entries(st), st[a].stable_key \in keys
               PROVE  FALSE
    OBVIOUS
  <2>1. p \in FindPieces(st, co, st[a].stable_key)
    BY <1>1 DEF FindPieces, Holding
  <2> QED BY <1>1, <2>1
<1>4. new[a] = st[a]
  BY <1>2, <1>3 DEF OutOfRooms
<1> QED BY <1>1, <1>2, <1>4
-----------------------------------------------------------------------------
(***************************************************************************)
(* Setting and clearing a flag leave the keys alone and undo each other.   *)
(***************************************************************************)
LEMMA FlaggingKeepsKeys ==
    ASSUME NEW st \in Storage, NEW S \in SUBSET Entries(st),
           NEW flag \in Flag
    PROVE  /\ Entries(SetFlag(st, S, flag)) = Entries(st)
           /\ \A key : Holding(SetFlag(st, S, flag), key) = Holding(st, key)
<1> DEFINE new == SetFlag(st, S, flag)
<1>1. ASSUME NEW a \in Addresses
      PROVE  /\ a \in Entries(new) <=> a \in Entries(st)
             /\ a \in Entries(st) => new[a].stable_key = st[a].stable_key
  <2>1. CASE a \in S
    <3>1. st[a] \in Entry /\ a \in Entries(st)
      BY <2>1, EntriesAreEntries
    <3>2. new[a] \in Entry /\ new[a].stable_key = st[a].stable_key
      BY <2>1, <3>1 DEF SetFlag, Entry, Flags
    <3> QED BY <3>1, <3>2, MarkersAssumption DEF Entries
  <2>2. CASE a \notin S
    BY <2>2 DEF SetFlag, Entries
  <2> QED BY <2>1, <2>2
<1>2. Entries(new) \subseteq Addresses /\ Entries(st) \subseteq Addresses
  BY DEF Entries
<1> HIDE DEF new
<1>3. Entries(new) = Entries(st)
  BY <1>1, <1>2
<1>4. ASSUME NEW key
      PROVE  Holding(new, key) = Holding(st, key)
  BY <1>1, <1>2, <1>3 DEF Holding
<1> QED BY <1>3, <1>4 DEF new

\* Whether the entries with another key are still there or not.
LEMMA ClearingRestores ==
    ASSUME NEW st \in Storage, NEW a \in Entries(st), NEW flag \in Flag,
           flag \notin st[a].placement_flags, NEW key
    PROVE  /\ ClearFlag(SetFlag(st, {a}, flag), {a}, flag) = st
           /\ a \notin Holding(st, key) =>
                 ClearFlag(WithoutEntry(SetFlag(st, {a}, flag), key),
                           {a}, flag) = WithoutEntry(st, key)
<1> DEFINE set == SetFlag(st, {a}, flag)
<1>1. a \in Addresses /\ st[a] \in Entry
  BY EntriesAreEntries
<1>2. [[st[a] EXCEPT !.placement_flags = @ \cup {flag}]
          EXCEPT !.placement_flags = @ \ {flag}] = st[a]
  <2>1. (st[a].placement_flags \cup {flag}) \ {flag} = st[a].placement_flags
    OBVIOUS
  <2> QED BY <1>1, <2>1 DEF Entry
<1>3. [set[a] EXCEPT !.placement_flags = @ \ {flag}] = st[a]
  BY <1>1, <1>2 DEF SetFlag
<1>4. \A b \in Addresses : b # a => set[b] = st[b]
  BY DEF SetFlag
<1>5. Holding(set, key) = Holding(st, key)
  BY FlaggingKeepsKeys
<1> HIDE DEF set
<1>6. ClearFlag(set, {a}, flag) = [b \in Addresses |-> st[b]]
  BY <1>3, <1>4 DEF ClearFlag
<1>7. ASSUME a \notin Holding(st, key)
      PROVE  ClearFlag(WithoutEntry(set, key), {a}, flag)
                = WithoutEntry(st, key)
  <2>1. \A b \in Addresses :
           WithoutEntry(set, key)[b] =
              IF b \in Holding(st, key) THEN Free ELSE set[b]
    BY <1>5 DEF WithoutEntry
  <2>2. ASSUME NEW b \in Addresses
        PROVE  ClearFlag(WithoutEntry(set, key), {a}, flag)[b]
                  = WithoutEntry(st, key)[b]
    BY <1>3, <1>4, <1>7, <2>1, <2>2 DEF ClearFlag, WithoutEntry
  <2>3. /\ ClearFlag(WithoutEntry(set, key), {a}, flag) =
             [b \in Addresses |->
                ClearFlag(WithoutEntry(set, key), {a}, flag)[b]]
        /\ WithoutEntry(st, key) =
             [b \in Addresses |-> WithoutEntry(st, key)[b]]
    BY DEF ClearFlag, WithoutEntry
  <2> QED BY <2>2, <2>3
<1> QED BY <1>6, <1>7 DEF Storage, set

LEMMA RemovingKeepsKeys ==
    ASSUME NEW st \in Storage, NEW key
    PROVE  /\ Entries(WithoutEntry(st, key)) = Entries(st) \ Holding(st, key)
           /\ \A other : Holding(WithoutEntry(st, key), other) =
                            Holding(st, other) \ Holding(st, key)
<1>1. Entries(WithoutEntry(st, key)) = Entries(st) \ Holding(st, key)
  BY DEF WithoutEntry, Entries, Holding
<1> QED BY <1>1 DEF WithoutEntry, Holding, Entries
-----------------------------------------------------------------------------
(***************************************************************************)
(* What a complete scan reports is sealed in the storage, and stays so     *)
(* under every operation on the other entries.                             *)
(***************************************************************************)
LEMMA ScanNamesEntries ==
    ASSUME NEW st \in Storage, NEW co, NEW sig, Scan(st, co, sig).complete,
           ~HasDuplicateStableKeys(Scan(st, co, sig).furniture),
           NEW i \in Range(Scan(st, co, sig).furniture)
    PROVE  /\ sig
           /\ \A b \in Addresses : st[b] # Garbage
           /\ i.stable_key # 0
           /\ \E a \in Entries(st) :
                 Holding(st, i.stable_key) = {a} /\ i = Seen(st, co, a)
<1> DEFINE furniture == Scan(st, co, sig).furniture
<1>1. /\ sig /\ \A b \in Addresses : st[b] # Garbage
      /\ Readable(st) = Entries(st)
      /\ Cardinality(Readable(st)) <= ScanCapacity
  BY DEF Scan, Readable
<1>2. PICK order : Reports(furniture, st, co, order)
  BY <1>1, ScanReports
<1> HIDE DEF furniture
<1>3. /\ order \in [1..Cardinality(Readable(st)) -> Readable(st)]
      /\ \A a \in Readable(st) : \E n \in DOMAIN order : order[n] = a
      /\ furniture = [n \in 1..Cardinality(Readable(st)) |->
                         Seen(st, co, order[n])]
  BY <1>2 DEF Reports
<1>4. PICK n \in DOMAIN furniture : i = furniture[n]
  BY DEF Range, furniture
<1>5. order[n] \in Readable(st) /\ i = Seen(st, co, order[n])
  BY <1>3, <1>4
<1>6. order[n] \in Entries(st) /\ i.stable_key = st[order[n]].stable_key
  BY <1>5 DEF Readable, Seen
<1>7. ASSUME NEW b \in Holding(st, i.stable_key)
      PROVE  b = order[n]
  <2>1. b \in Readable(st) /\ st[b].stable_key = i.stable_key
    BY <1>1 DEF Holding
  <2>2. PICK m \in DOMAIN order : order[m] = b
    BY <1>3, <2>1
  <2>3. m \in DOMAIN furniture /\ furniture[m].stable_key = i.stable_key
    BY <1>3, <2>1, <2>2 DEF Seen
  <2>4. m = n
    BY <1>4, <2>3 DEF HasDuplicateStableKeys, furniture
  <2> QED BY <2>2, <2>4
<1>8. Holding(st, i.stable_key) = {order[n]}
  BY <1>6, <1>7 DEF Holding
<1>9. i.stable_key # 0
  BY <1>4 DEF HasDuplicateStableKeys, furniture
<1> QED BY <1>1, <1>5, <1>6, <1>8, <1>9

LEMMA ScannedIsSealed ==
    ASSUME NEW st \in Storage, NEW co, NEW sig, Scan(st, co, sig).complete,
           ~HasDuplicateStableKeys(Scan(st, co, sig).furniture),
           NEW i \in Range(Scan(st, co, sig).furniture),
           i.placement_flags \subseteq KnownFurnitureFlags
    PROVE  Sealed(st, i.stable_key, i.item_id, i.placement_flags) # {}
<1>1. PICK a \in Entries(st) :
         Holding(st, i.stable_key) = {a} /\ i = Seen(st, co, a)
  BY ScanNamesEntries
<1>2. /\ i.stable_key # 0 /\ \A b \in Addresses : st[b] # Garbage
  BY ScanNamesEntries
<1>3. st[a].item_id = i.item_id /\ st[a].placement_flags = i.placement_flags
  BY <1>1 DEF Seen
<1>4. a \in FindEntry(st, i.stable_key, i.item_id)
  BY <1>1, <1>2, <1>3 DEF FindEntry
<1> QED BY <1>3, <1>4 DEF Sealed

LEMMA SealedIsKept ==
    ASSUME NEW st, NEW new, NEW key, NEW item, NEW flags,
           Holding(new, key) = Holding(st, key),
           \A a \in Holding(st, key) :
              /\ new[a].item_id = st[a].item_id
              /\ new[a].placement_flags = st[a].placement_flags,
           \A b \in Addresses : new[b] = Garbage => st[b] = Garbage
    PROVE  Sealed(st, key, item, flags) \subseteq
              Sealed(new, key, item, flags)
BY DEF Sealed, FindEntry

\* A furniture in no room is shown by no piece.
LEMMA StoredIsNotShown ==
    ASSUME NEW st, NEW co, ShowsPlaced(st, co), NEW key,
           \A a \in Holding(st, key) : ~st[a].placed
    PROVE  FindPieces(st, co, key) = {}
BY DEF FindPieces, ShowsPlaced, Holding, Entries

LEMMA PuttingAwayKeepsSealed ==
    ASSUME NEW st \in Storage, NEW keys, NEW key, NEW item, NEW flags
    PROVE  /\ Holding(OutOfRooms(st, keys), key) = Holding(st, key)
           /\ Sealed(st, key, item, flags) \subseteq
                 Sealed(OutOfRooms(st, keys), key, item, flags)
<1> DEFINE new == OutOfRooms(st, keys)
<1>1. ASSUME NEW a \in Addresses
      PROVE  /\ a \in Entries(new) <=> a \in Entries(st)
             /\ a \in Entries(st) =>
                   /\ new[a].stable_key = st[a].stable_key
                   /\ new[a].item_id = st[a].item_id
                   /\ new[a].placement_flags = st[a].placement_flags
             /\ new[a] = Garbage => st[a] = Garbage
  <2>1. CASE a \in Entries(st)
    <3>1. st[a] \in Entry
      BY <2>1, EntriesAreEntries
    <3>2. /\ new[a] \in Entry
          /\ new[a].stable_key = st[a].stable_key
          /\ new[a].item_id = st[a].item_id
          /\ new[a].placement_flags = st[a].placement_flags
      BY <3>1 DEF OutOfRooms, Entry
    <3> QED BY <2>1, <3>2, MarkersAssumption DEF Entries
  <2>2. CASE a \notin Entries(st)
    BY <2>2 DEF OutOfRooms, Entries
  <2> QED BY <2>1, <2>2
<1> HIDE DEF new
<1>2. Holding(new, key) = Holding(st, key)
  BY <1>1 DEF Holding, Entries
<1>3. \A a \in Holding(st, key) :
         /\ new[a].item_id = st[a].item_id
         /\ new[a].placement_flags = st[a].placement_flags
  BY <1>1 DEF Holding, Entries
<1>4. Sealed(st, key, item, flags) \subseteq Sealed(new, key, item, flags)
  BY <1>1, <1>2, <1>3, SealedIsKept
<1> QED BY <1>2, <1>4 DEF new

\* What was put away is shown by no piece, and nothing else gains one.
LEMMA PuttingAwayHides ==
    ASSUME NEW st \in Storage, NEW co, NEW keys, NEW key,
           key \in keys \/ FindPieces(st, co, key) = {}
    PROVE  FindPieces(OutOfRooms(st, keys),
                      QueuedForDeletion(co,
                         UNION {FindPieces(st, co, k) : k \in keys}),
                      key) = {}
<1> DEFINE pieces == UNION {FindPieces(st, co, k) : k \in keys}
           new == OutOfRooms(st, keys)
           left == QueuedForDeletion(co, pieces)
<1> SUFFICES ASSUME NEW p \in FindPieces(new, left, key)
             PROVE  FALSE
  OBVIOUS
<1>1. Holding(new, key) = Holding(st, key)
  BY PuttingAwayKeepsSealed
<1> HIDE DEF new
<1>2. p \in Live(left) /\ left[p].entry \in Holding(st, key)
  BY <1>1 DEF FindPieces
<1>3. p \in Pieces /\ p \notin pieces /\ left[p] = co[p] /\ p \in Live(co)
  <2> HIDE DEF pieces
  <2> QED BY <1>2 DEF Live, QueuedForDeletion
<1>4. p \in FindPieces(st, co, key)
  BY <1>2, <1>3 DEF FindPieces
<1> QED BY <1>3, <1>4

LEMMA RemovingKeepsSealed ==
    ASSUME NEW st \in Storage, NEW other, NEW key, key # other, NEW item,
           NEW flags
    PROVE  /\ Holding(WithoutEntry(st, other), key) = Holding(st, key)
           /\ Sealed(st, key, item, flags) \subseteq
                 Sealed(WithoutEntry(st, other), key, item, flags)
<1> DEFINE new == WithoutEntry(st, other)
<1>1. Holding(st, key) \cap Holding(st, other) = {}
  BY DEF Holding
<1>2. Holding(new, key) = Holding(st, key)
  BY <1>1, RemovingKeepsKeys
<1>3. /\ \A a \in Holding(st, key) : new[a] = st[a]
      /\ \A b \in Addresses : new[b] = Garbage => st[b] = Garbage
  BY <1>1, MarkersAssumption DEF WithoutEntry, Holding, Entries
<1> HIDE DEF new
<1>4. Sealed(st, key, item, flags) \subseteq Sealed(new, key, item, flags)
  BY <1>2, <1>3, SealedIsKept
<1> QED BY <1>2, <1>4 DEF new

\* A scan depends on the component list by the pieces it finds, and a piece
\* queued for deletion is not found before it is purged either.
LEMMA ScanSeesPieces ==
    ASSUME NEW st, NEW co, NEW new, NEW sig,
           \A key : FindPieces(st, new, key) = FindPieces(st, co, key)
    PROVE  Scan(st, new, sig) = Scan(st, co, sig)
BY DEF Scan

LEMMA PurgingKeepsPieces ==
    ASSUME NEW st, NEW co \in Components, NEW p \in Pieces,
           co[p].delete_queued, NEW key
    PROVE  FindPieces(st, [co EXCEPT ![p] = Gone], key)
              = FindPieces(st, co, key)
BY DEF FindPieces, Live, Components
================================================================================
