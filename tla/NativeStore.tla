----------------------------- MODULE NativeStore -----------------------------
(***************************************************************************)
(* What native_api.c reads from and writes to the game's memory: the       *)
(* storage, a vector of furniture entries, and the scene's component list, *)
(* where a loaded piece of furniture points at its entry.  Both are        *)
(* arguments here (st, co); CombineBatch keeps them as variables.          *)
(***************************************************************************)
EXTENDS Candidates

CONSTANTS
    Addresses,      \* where entries can be; their order is the vector's
    Pieces,         \* where pieces can be
    Free,           \* no entry is there
    Garbage,        \* an entry pointer that cdf_readable refuses
    Gone,           \* the component list does not hold the piece
    Null,           \* the null pointer
    ScanCapacity    \* the size of the buffer Scan passes, 4096

ASSUME AddressesAssumption == Addresses \subseteq Nat /\ IsFiniteSet(Addresses)
ASSUME PiecesAssumption == IsFiniteSet(Pieces)
ASSUME ScanCapacityAssumption == ScanCapacity \in Nat \ {0}

Entry == [stable_key : Keys \cup {0}, item_id : Items, placed : BOOLEAN,
          placement_flags : Flags]
Piece == [entry : Addresses \cup {Null}, delete_queued : BOOLEAN]

ASSUME MarkersAssumption ==
    /\ Free \notin Entry /\ Garbage \notin Entry /\ Free # Garbage
    /\ Gone \notin Piece
    /\ Null \notin Addresses

Storage == [Addresses -> Entry \cup {Free, Garbage}]
Components == [Pieces -> Piece \cup {Gone}]

Entries(st) == {a \in Addresses : st[a] \notin {Free, Garbage}}
Holding(st, key) == {a \in Entries(st) : st[a].stable_key = key}
-----------------------------------------------------------------------------
(***************************************************************************)
(* cdf_find_entry: the address of the only entry with this key, unless its *)
(* item is another one or any entry of the vector cannot be read.          *)
(***************************************************************************)
FindEntry(st, key, item) ==
    {a \in Holding(st, key) :
        /\ key # 0
        /\ Holding(st, key) = {a}
        /\ st[a].item_id = item
        /\ \A b \in Addresses : st[b] # Garbage}

(***************************************************************************)
(* cdf_find_piece: the loaded pieces, not queued for deletion, that show   *)
(* an entry with this key.                                                 *)
(***************************************************************************)
Live(co) == {p \in Pieces : co[p] # Gone /\ ~co[p].delete_queued}
FindPieces(st, co, key) ==
    {p \in Live(co) : co[p].entry \in Holding(st, key)}

(***************************************************************************)
(* Scan: every readable entry, in the vector's order, as long as the       *)
(* buffer holds out; complete when nothing was left out and the code       *)
(* signatures still match.  (cdf_native_scan, NativeTransactionPort::Scan) *)
(***************************************************************************)
Scan(st, co, signatures) ==
    LET readable == {a \in Entries(st) : st[a].stable_key # 0}
        order == Ascending(readable, [a \in readable |-> a])
    IN  [furniture |->
            [n \in 1..Smaller(ScanCapacity, Cardinality(readable)) |->
                LET e == st[order[n]]
                IN  [stable_key |-> e.stable_key,
                     item_id |-> e.item_id,
                     placed |-> e.placed,
                     placement_flags |-> e.placement_flags,
                     delete_pending |-> FALSE,
                     runtime_match_count |->
                        Cardinality(FindPieces(st, co, e.stable_key))]],
         complete |->
            /\ signatures
            /\ \A a \in Addresses : st[a] # Garbage
            /\ readable = Entries(st)
            /\ Cardinality(readable) <= ScanCapacity]

(***************************************************************************)
(* The checks that set_rare and set_enhanced make before they write, and   *)
(* their writes.                                                           *)
(***************************************************************************)
Sealed(st, key, item, flags) ==
    {a \in FindEntry(st, key, item) :
        st[a].placement_flags = flags /\ flags \subseteq KnownFurnitureFlags}

CanSetRare(st, signatures, key, item, flags) ==
    signatures /\ Sealed(st, key, item, flags) # {}

CanSetEnhanced(st, signatures, key, item, flags, enabled) ==
    /\ CanSetRare(st, signatures, key, item, flags)
    /\ enabled => "rare" \in flags

\* mutant of SetFlag: writes the flag instead of adding it
SetFlagOverwrites(st, addresses, flag) ==
    [a \in Addresses |->
        IF a \in addresses
        THEN [st[a] EXCEPT !.placement_flags = {flag}]
        ELSE st[a]]

SetFlag(st, addresses, flag) ==
    [a \in Addresses |->
        IF a \in addresses
        THEN [st[a] EXCEPT !.placement_flags = @ \cup {flag}]
        ELSE st[a]]

ClearFlag(st, addresses, flag) ==
    [a \in Addresses |->
        IF a \in addresses
        THEN [st[a] EXCEPT !.placement_flags = @ \ {flag}]
        ELSE st[a]]

(***************************************************************************)
(* ClearRare and ClearEnhanced look the entry up in a new scan and pass    *)
(* the flags found there as the expected ones; whether the scan is         *)
(* complete is not asked.                                                  *)
(***************************************************************************)
Clearable(st, co, signatures, key, item) ==
    LET furniture == Scan(st, co, signatures).furniture
        found == {n \in DOMAIN furniture :
                    /\ furniture[n].stable_key = key
                    /\ furniture[n].item_id = item}
    IN  {a \in FindEntry(st, key, item) :
            /\ signatures
            /\ \E n \in found :
                  a \in Sealed(st, key, item, furniture[n].placement_flags)}

(***************************************************************************)
(* cdf_native_consume calls the game's delete only for an entry that is as *)
(* sealed and that no loaded piece shows.                                  *)
(***************************************************************************)
\* mutant of CanConsume: piece_count is not tested
CanConsumeShown(st, co, signatures, key, item, flags) ==
    /\ signatures
    /\ Sealed(st, key, item, flags) # {}

CanConsume(st, co, signatures, key, item, flags) ==
    /\ signatures
    /\ Sealed(st, key, item, flags) # {}
    /\ FindPieces(st, co, key) = {}

WithoutEntry(st, key) ==
    [a \in Addresses |-> IF a \in Holding(st, key) THEN Free ELSE st[a]]

(***************************************************************************)
(* cdf_native_store calls the game's own "put away" on the only piece of   *)
(* an entry: the entry leaves its room, the piece forgets its entry and is *)
(* queued for deletion.                                                    *)
(***************************************************************************)
CanStore(st, co, signatures, key, item) ==
    /\ signatures
    /\ \E a \in FindEntry(st, key, item) :
          st[a].placement_flags \subseteq KnownFurnitureFlags
    /\ Cardinality(FindPieces(st, co, key)) = 1

OutOfRooms(st, keys) ==
    [a \in Addresses |->
        IF a \in Entries(st) /\ st[a].stable_key \in keys
        THEN [st[a] EXCEPT !.placed = FALSE]
        ELSE st[a]]

QueuedForDeletion(co, pieces) ==
    [p \in Pieces |->
        IF p \in pieces THEN [entry |-> Null, delete_queued |-> TRUE]
                        ELSE co[p]]
-----------------------------------------------------------------------------
\* Every loaded piece points at an entry, and at one that is in a room.
ShowsPlaced(st, co) ==
    \A p \in Live(co) :
        LET a == co[p].entry
        IN  /\ a \in Addresses
            /\ st[a] # Free
            /\ st[a] # Garbage => st[a].placed
==============================================================================
