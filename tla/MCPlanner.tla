------------------------------ MODULE MCPlanner ------------------------------
(***************************************************************************)
(* Instances of Planner for TLC: every snapshot of four furniture over two *)
(* items, with every room situation and some ineligible flags, and every   *)
(* snapshot of four and of five copies of one item.                        *)
(***************************************************************************)
EXTENDS Planner

MCItems == 1..3
MCKeys == 1..5
\* item 2 can never become rare; item 3 is not in the catalogue
MCCatalog == [i \in {1, 2} |-> [can_be_rare |-> i = 1]]

Kind(item, flags, placed, matches) ==
    [item_id |-> item, placement_flags |-> flags, placed |-> placed,
     runtime_match_count |-> matches, delete_pending |-> FALSE]

InstanceOf(kind, key) ==
    [stable_key |-> key, item_id |-> kind.item_id, placed |-> kind.placed,
     placement_flags |-> kind.placement_flags,
     delete_pending |-> kind.delete_pending,
     runtime_match_count |-> kind.runtime_match_count]

SnapshotOf(kinds, keys, complete) ==
    [furniture |-> [n \in DOMAIN kinds |-> InstanceOf(kinds[n], keys[n])],
     complete |-> complete]

Rooms == {<<FALSE, 0>>, <<TRUE, 1>>, <<TRUE, 0>>}

MixedKinds ==
    {Kind(1, f, r[1], r[2]) : f \in {{}, {"rare"}}, r \in Rooms}
      \cup {Kind(1, {"rare", "enhanced"}, FALSE, 0),
            Kind(1, {"unknown"}, FALSE, 0),
            Kind(1, {}, TRUE, 2),
            Kind(2, {}, FALSE, 0),
            Kind(3, {}, FALSE, 0),
            [Kind(1, {}, FALSE, 0) EXCEPT !.delete_pending = TRUE]}

\* the last two orders hold a key twice and the key 0
Orders == {<<1, 2, 3, 4>>, <<3, 1, 4, 2>>, <<1, 2, 2, 4>>, <<4, 0, 3, 1>>}

MixedSnapshots ==
    {SnapshotOf(kinds, keys, TRUE) :
        kinds \in [1..4 -> MixedKinds], keys \in Orders}
      \cup {SnapshotOf(kinds, <<1, 2>>, FALSE) :
        kinds \in [1..2 -> MixedKinds]}

OneItemKinds == {Kind(1, {}, r[1], r[2]) : r \in Rooms}
CopiesSnapshots ==
    {SnapshotOf(kinds, keys, TRUE) :
        kinds \in [1..5 -> OneItemKinds],
        keys \in {<<1, 2, 3, 4, 5>>, <<5, 2, 4, 1, 3>>}}
      \cup {SnapshotOf(kinds, keys, TRUE) :
        kinds \in [1..4 -> OneItemKinds],
        keys \in {<<1, 2, 3, 4>>, <<4, 2, 1, 3>>}}

MCSnapshots == MixedSnapshots \cup CopiesSnapshots
=============================================================================
