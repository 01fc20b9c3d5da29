-------------------------------- MODULE Ledger --------------------------------
(***************************************************************************)
(* What the mod promises the owner of the furniture: two copies become one *)
(* of twice the worth in a single step, only while the furniture screen is *)
(* closed; while it is open, placed copies may be put away, which is how a *)
(* request of the owner is answered; and the copy that goes is one that    *)
(* stands in no room, unless the furniture changed since the request was   *)
(* answered.  Everything else that changes the storage counts as a move of *)
(* the game or of the player.                                              *)
(***************************************************************************)
EXTENDS NativeStore

CONSTANT InitialStorages

VARIABLES
    storage,          \* the furniture storage
    furniture_mode,   \* the furniture screen is open
    moves,            \* how often the game or the player changed it
    sealed_moves      \* moves when the last request was answered

vars == <<storage, furniture_mode, moves, sealed_moves>>

Init ==
    /\ storage \in InitialStorages
    /\ furniture_mode = FALSE
    /\ moves = 0
    /\ sealed_moves = 0

\* two ordinary copies give a rare one, two rare copies an enhanced one
Upgrade(flags) == IF flags = {} THEN {"rare"} ELSE {"rare", "enhanced"}

Combine(keep, consume) ==
    /\ ~furniture_mode
    /\ keep # consume
    /\ storage[keep].item_id = storage[consume].item_id
    /\ CanBeRare(storage[keep].item_id)
    /\ storage[keep].placement_flags = storage[consume].placement_flags
    /\ storage[keep].placement_flags \in {{}, {"rare"}}
    /\ storage[consume].placed => moves # sealed_moves
    /\ storage' =
          [storage EXCEPT
              ![keep].placement_flags = Upgrade(@),
              ![consume] = Free]
    /\ UNCHANGED <<furniture_mode, moves, sealed_moves>>

PutAway(addresses) ==
    /\ furniture_mode
    /\ storage' =
          [a \in Addresses |->
              IF a \in addresses THEN [storage[a] EXCEPT !.placed = FALSE]
                                 ELSE storage[a]]
    /\ sealed_moves' \in {sealed_moves, moves}
    /\ UNCHANGED <<furniture_mode, moves>>

ToggleScreen ==
    /\ furniture_mode' = ~furniture_mode
    /\ UNCHANGED <<storage, moves, sealed_moves>>

Outside ==
    /\ moves' = moves + 1
    /\ UNCHANGED <<furniture_mode, sealed_moves>>

Next ==
    \/ \E keep, consume \in Entries(storage) : Combine(keep, consume)
    \/ \E addresses \in SUBSET Entries(storage) : PutAway(addresses)
    \/ ToggleScreen
    \/ Outside

Spec == Init /\ [][Next]_vars
===============================================================================
