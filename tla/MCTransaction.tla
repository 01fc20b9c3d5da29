---------------------------- MODULE MCTransaction ----------------------------
(***************************************************************************)
(* Instances of Transaction for TLC.  The n-th entry of a store has key n; *)
(* the piece p1, if there is one, shows the entry `shown'.                 *)
(***************************************************************************)
EXTENDS Transaction, TLC

CONSTANT p1

MCItems == 1..2
MCKeys == 1..4
MCAddresses == 1..4
MCPieces == {p1}
MCCatalog == [i \in MCItems |-> [can_be_rare |-> TRUE]]

Store(items, flags, shown) ==
    [storage |-> [a \in MCAddresses |->
        IF a \in DOMAIN items
        THEN [stable_key |-> a, item_id |-> items[a], placed |-> a = shown,
              placement_flags |-> flags]
        ELSE Free],
     components |-> [p \in MCPieces |->
        IF shown = 0 THEN Gone
        ELSE [entry |-> shown, delete_queued |-> FALSE]]]

\* two pairs of one item or of two, ordinary or rare; and two copies of
\* which one, which would be kept, is in a room
MCStores ==
    {Store(<<1, 1, 2, 2>>, {}, 0), Store(<<1, 1, 1, 1>>, {"rare"}, 0),
     Store(<<1, 1, 2>>, {}, 1)}
==============================================================================
