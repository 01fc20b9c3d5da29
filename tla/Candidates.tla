------------------------------ MODULE Candidates ------------------------------
(***************************************************************************)
(* The planner of domain.cpp: which pairs of furniture a snapshot of the   *)
(* storage offers to combine, and whether a plan made earlier is still the *)
(* plan that the present snapshot gives.                                   *)
(*                                                                         *)
(* A snapshot is [furniture |-> a sequence of FurnitureInstance, in the    *)
(* order of the game's storage, complete |-> BOOLEAN].                     *)
(***************************************************************************)
EXTENDS Furniture, Sequences, Functions

Snapshot == [furniture : Seq(FurnitureInstance), complete : BOOLEAN]

\* the flags of a furniture that can be combined
PairFlags == {{}, {"rare"}}

CombineCandidate ==
    [item_id : Items, keep_key : Keys, consume_key : Keys,
     keep_flags : PairFlags, consume_flags : PairFlags, scanned_count : Nat,
     consume_placed : BOOLEAN, promote_to_rare : BOOLEAN,
     promote_to_enhanced : BOOLEAN]

Smaller(m, n) == IF m <= n THEN m ELSE n

(***************************************************************************)
(* The elements of the finite set S in increasing order of the number that *)
(* w gives each: the n-th is the one with n-1 elements before it.          *)
(***************************************************************************)
Before(S, w, x) == {y \in S : w[y] < w[x]}
Ascending(S, w) ==
    [n \in 1..Cardinality(S) |->
        CHOOSE x \in S : Cardinality(Before(S, w, x)) = n - 1]

HasDuplicateStableKeys(furniture) ==
    \E m, n \in DOMAIN furniture :
        \/ furniture[m].stable_key = 0
        \/ m # n /\ furniture[m].stable_key = furniture[n].stable_key

(***************************************************************************)
(* The instances that may take part in a pair.                             *)
(***************************************************************************)
\* mutant of Eligible: enhanced furniture is not left out
EligibleEnhanced(i) ==
    /\ i.stable_key # 0
    /\ ~i.delete_pending
    /\ HasOnlyKnownFlags(i)
    /\ i.runtime_match_count <= 1
    /\ CanBeRare(i.item_id)

Eligible(i) ==
    /\ i.stable_key # 0
    /\ ~i.delete_pending
    /\ HasOnlyKnownFlags(i)
    /\ ~IsEnhanced(i)
    /\ i.runtime_match_count <= 1
    /\ CanBeRare(i.item_id)

(***************************************************************************)
(* The three sorted vectors of a group: out of every room, in a room with  *)
(* the one piece that shows it loaded, in a room without a loaded piece.   *)
(***************************************************************************)
\* mutant of Members: groups by the item alone
MembersOfAnyRarity(snapshot, item, rare) ==
    {i \in Range(snapshot.furniture) : Eligible(i) /\ i.item_id = item}

Members(snapshot, item, rare) ==
    {i \in Range(snapshot.furniture) :
        Eligible(i) /\ i.item_id = item /\ IsRare(i) = rare}

ByKey(S) == Ascending(S, [i \in S |-> i.stable_key])

Stored(G) == ByKey({i \in G : ~i.placed})
PlacedLive(G) == ByKey({i \in G : i.placed /\ i.runtime_match_count = 1})
PlacedUnavailable(G) ==
    ByKey({i \in G : i.placed /\ i.runtime_match_count # 1})

\* mutant of TwoByTwo: index += 1
TwoByTwoOverlapping(s, from) ==
    [n \in 1..Cardinality({m \in 1..Len(s) : from + m < Len(s)}) |->
        <<s[from + n], s[from + n + 1]>>]

\* mutant of TwoByTwo: index + 2 < size
TwoByTwoStopsEarly(s, from) ==
    [n \in 1..Cardinality({m \in 1..Len(s) : from + 2 * m < Len(s)}) |->
        <<s[from + 2 * n - 1], s[from + 2 * n]>>]

\* for (index = from; index + 1 < size; index += 2) add_pair(index, index + 1)
TwoByTwo(s, from) ==
    [n \in 1..((Len(s) - from) \div 2) |->
        <<s[from + 2 * n - 1], s[from + 2 * n]>>]

\* add_pair(left[from_left + index], right[from_right + index]), count times
Zip(left, from_left, right, from_right, count) ==
    [n \in 1..count |-> <<left[from_left + n], right[from_right + n]>>]

(***************************************************************************)
(* The pairs <<keep, consume>> of one group, in the order they are added:  *)
(* stored copies are consumed into placed ones first, those without a      *)
(* loaded piece before the others; stored copies left over pair with each  *)
(* other; then live placed copies are consumed into unavailable ones and,  *)
(* last, into each other.                                                  *)
(***************************************************************************)
GroupPairs(G) ==
    LET stored == Stored(G)
        live == PlacedLive(G)
        unavailable == PlacedUnavailable(G)
        placed_keeps == unavailable \o live
        mixed == Smaller(Len(placed_keeps), Len(stored))
        unavailable_used == Smaller(mixed, Len(unavailable))
        live_used == mixed - unavailable_used
        unavailable_live == Smaller(Len(unavailable) - unavailable_used,
                                    Len(live) - live_used)
    IN  Zip(placed_keeps, 0, stored, 0, mixed)
          \o TwoByTwo(stored, mixed)
          \o Zip(unavailable, unavailable_used, live, live_used,
                 unavailable_live)
          \o TwoByTwo(live, live_used + unavailable_live)

\* mutant of CandidateOf: add_pair(consume, keep)
CandidateSwapped(pair, rare, count) ==
    [item_id |-> pair[1].item_id,
     keep_key |-> pair[2].stable_key,
     consume_key |-> pair[1].stable_key,
     keep_flags |-> pair[2].placement_flags,
     consume_flags |-> pair[1].placement_flags,
     scanned_count |-> count,
     consume_placed |-> pair[1].placed,
     promote_to_rare |-> ~rare,
     promote_to_enhanced |-> rare]

CandidateOf(pair, rare, count) ==
    [item_id |-> pair[1].item_id,
     keep_key |-> pair[1].stable_key,
     consume_key |-> pair[2].stable_key,
     keep_flags |-> pair[1].placement_flags,
     consume_flags |-> pair[2].placement_flags,
     scanned_count |-> count,
     consume_placed |-> pair[2].placed,
     promote_to_rare |-> ~rare,
     promote_to_enhanced |-> rare]

(***************************************************************************)
(* All pairs of a snapshot: the groups in the order of std::map, ordinary  *)
(* before rare within an item.  A place is <<<<item, rare>>, index>>.      *)
(***************************************************************************)
FindCandidates(snapshot) ==
    LET size == Len(snapshot.furniture)
        pairs == [g \in Items \X BOOLEAN |->
                     GroupPairs(Members(snapshot, g[1], g[2]))]
        places == {p \in (Items \X BOOLEAN) \X (1..size) :
                      p[2] <= Len(pairs[p[1]])}
        rank == [p \in places |->
                    (2 * p[1][1] + (IF p[1][2] THEN 1 ELSE 0)) * (size + 1)
                       + p[2]]
        order == Ascending(places, rank)
    IN  IF ~snapshot.complete \/ HasDuplicateStableKeys(snapshot.furniture)
        THEN <<>>
        ELSE [n \in 1..Cardinality(places) |->
                 LET p == order[n]
                 IN  CandidateOf(pairs[p[1]][p[2]], p[1][2], size)]

(***************************************************************************)
(* Whether the plan of the present snapshot is what is left of the sealed  *)
(* one after its first `completed' pairs.                                  *)
(***************************************************************************)
RemainingCandidatesMatch(sealed, completed, refreshed) ==
    /\ completed <= Len(sealed)
    /\ Len(sealed) - completed = Len(refreshed)
    /\ \A n \in DOMAIN refreshed :
          LET expected == sealed[completed + n]
              actual == refreshed[n]
          IN  /\ ~actual.consume_placed
              /\ \A field \in {"item_id", "keep_key", "consume_key",
                               "keep_flags", "consume_flags",
                               "promote_to_rare", "promote_to_enhanced"} :
                    expected[field] = actual[field]
-----------------------------------------------------------------------------
(***************************************************************************)
(* What a candidate has to be: two copies of one item that can become      *)
(* rare, with the same flags, to be made rare or, when they already are,   *)
(* enhanced.                                                               *)
(***************************************************************************)
PairIsMerge(c) ==
    /\ c.keep_key # c.consume_key
    /\ c.keep_flags = c.consume_flags
    /\ c.keep_flags = IF c.promote_to_rare THEN {} ELSE {"rare"}
    /\ c.promote_to_enhanced = ~c.promote_to_rare
    /\ CanBeRare(c.item_id)
==============================================================================
