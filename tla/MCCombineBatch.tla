---------------------------- MODULE MCCombineBatch ----------------------------
(***************************************************************************)
(* Instances of CombineBatch for TLC.  A store is written as a sequence of *)
(* kinds, one per address from 1 on; the entry at n has key n.             *)
(***************************************************************************)
EXTENDS BatchProperties, TLC

CONSTANTS p1, p2, p3

MCItems == 1..2
MCKeys == 1..5
MCAddresses == 1..5
MCPieces == {p1, p2, p3}
MCCatalog == [i \in MCItems |-> [can_be_rare |-> TRUE]]
PieceSymmetry == Permutations(MCPieces)

Kind(item, flags, placed, loaded) ==
    [item |-> item, flags |-> flags, placed |-> placed, loaded |-> loaded]

stored == Kind(1, {}, FALSE, FALSE)
live == Kind(1, {}, TRUE, TRUE)
away == Kind(1, {}, TRUE, FALSE)
rare == Kind(1, {"rare"}, FALSE, FALSE)
rareLive == Kind(1, {"rare"}, TRUE, TRUE)
enhanced == Kind(1, {"rare", "enhanced"}, FALSE, FALSE)
other == Kind(2, {}, FALSE, FALSE)
hole == Kind(0, {}, FALSE, FALSE)

\* the pieces in the order in which they are handed out
PieceOrder == <<p1, p2, p3>>

StoreOf(kinds) ==
    LET loaded == {n \in DOMAIN kinds : kinds[n].loaded}
        order == Ascending(loaded, [n \in loaded |-> n])
    IN  [storage |-> [a \in MCAddresses |->
            IF a \in DOMAIN kinds /\ kinds[a] # hole
            THEN [stable_key |-> a, item_id |-> kinds[a].item,
                  placed |-> kinds[a].placed,
                  placement_flags |-> kinds[a].flags]
            ELSE Free],
         components |-> [p \in MCPieces |->
            IF \E n \in 1..Cardinality(loaded) : PieceOrder[n] = p
            THEN [entry |-> order[CHOOSE n \in 1..Cardinality(loaded) :
                                     PieceOrder[n] = p],
                  delete_queued |-> FALSE]
            ELSE Gone]]

\* one pair of each sort, two pairs, and a store with nothing to combine
SmallStores ==
    {StoreOf(kinds) : kinds \in
        {<<stored, live>>, <<live, live, away>>, <<rare, rareLive, other>>,
         <<stored, stored, rare, rare>>, <<live, live, other, other>>,
         <<stored, rare, enhanced>>}}

\* four entries where the scan buffer holds four: one more overflows it, and
\* in the last of the stores it leaves the keep out of the scan
FullStores ==
    {StoreOf(kinds) : kinds \in
        {<<stored, stored, rare, rare>>, <<live, live, enhanced, enhanced>>,
         <<hole, enhanced, enhanced, stored, away>>}}

\* what was put away pairs differently from what was sealed
PutAwayStores == {StoreOf(<<live, live, live, stored>>)}

\* the first pair makes a rare copy for which there is another
PauseStores == {StoreOf(<<stored, stored, stored, stored, rare>>)}

\* three copies, of which the last is left over; a pair in a room; and two
\* pairs of one item of different rarities, or of different rooms
DialogStores ==
    {StoreOf(kinds) : kinds \in
        {<<stored, stored, stored>>, <<live, live>>,
         <<rare, stored, rare, stored, stored>>,
         <<stored, live, away, stored, other>>}}

\* batches of one and of two pairs, with none and with one put away
EndStores ==
    {StoreOf(kinds) : kinds \in
        {<<live, live, other, other>>, <<stored, live, live, stored>>}}
=============================================================================
