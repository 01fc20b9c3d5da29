-------------------------------- MODULE Planner --------------------------------
(***************************************************************************)
(* One planning step: from any snapshot a scan may report to the plan that *)
(* FindCandidates makes of it.  The properties compare the plan with what  *)
(* a plan should be, found by trying every set of pairs.                   *)
(***************************************************************************)
EXTENDS Candidates

CONSTANT Snapshots   \* the snapshots that the planner is given

ASSUME SnapshotsAssumption == Snapshots \subseteq Snapshot

VARIABLES
    snapshot,   \* what the scan reported
    plan,       \* the candidates, in order
    planned     \* FindCandidates has run

vars == <<snapshot, plan, planned>>

Init ==
    /\ snapshot \in Snapshots
    /\ plan = <<>>
    /\ planned = FALSE

Plan ==
    /\ ~planned
    /\ plan' = FindCandidates(snapshot)
    /\ planned' = TRUE
    /\ UNCHANGED snapshot

Next == Plan

Spec == Init /\ [][Next]_vars
-----------------------------------------------------------------------------
\* The state has the types of the program's.
TypeOK ==
    /\ snapshot \in Snapshot
    /\ plan \in Seq(CombineCandidate)
    /\ planned \in BOOLEAN

Readable ==
    snapshot.complete /\ ~HasDuplicateStableKeys(snapshot.furniture)

Instances == {i \in Range(snapshot.furniture) : Eligible(i)}
Instance(key) == CHOOSE i \in Range(snapshot.furniture) : i.stable_key = key

Unavailable(i) == i.placed /\ i.runtime_match_count = 0

(***************************************************************************)
(* Two instances can be combined when one of them can be taken out of the  *)
(* storage: it is in no room, or its piece is loaded and can be recalled.  *)
(***************************************************************************)
Combinable(i, j) ==
    /\ i # j
    /\ i.item_id = j.item_id
    /\ i.placement_flags = j.placement_flags
    /\ ~(Unavailable(i) /\ Unavailable(j))

Edges == {e \in SUBSET Instances :
            \E i, j \in e : e = {i, j} /\ Combinable(i, j)}
Matchings == {M \in SUBSET Edges :
                \A d, e \in M : d # e => d \cap e = {}}

Maximal(M) == \A L \in Matchings : Cardinality(L) <= Cardinality(M)
Recalls(M) == Cardinality({e \in M : \A i \in e : i.placed})

PlanIsFor(candidate) ==
    LET keep == Instance(candidate.keep_key)
        consume == Instance(candidate.consume_key)
    IN  /\ {keep, consume} \in Edges
        /\ candidate.item_id = keep.item_id
        /\ candidate.keep_flags = keep.placement_flags
        /\ candidate.consume_flags = consume.placement_flags
        /\ candidate.consume_placed = consume.placed
        /\ candidate.promote_to_rare = ~IsRare(keep)
        /\ candidate.promote_to_enhanced = IsRare(keep)
        /\ ~Unavailable(consume)

(***************************************************************************)
(* Every pair of a plan is one that can be combined, with the flags and    *)
(* the room of the snapshot sealed in it; the copy that goes is never one  *)
(* whose room is not loaded; and an unreadable or ambiguous scan gives no  *)
(* pair at all.  (FindCandidates, domain.cpp.)                             *)
(***************************************************************************)
PlanIsSound ==
    planned => IF Readable
               THEN \A n \in DOMAIN plan : PlanIsFor(plan[n])
               ELSE plan = <<>>

(***************************************************************************)
(* No furniture is in two pairs, so an executed pair cannot invalidate a   *)
(* later one of the same plan.                                             *)
(***************************************************************************)
PlanIsDisjoint ==
    \A m, n \in DOMAIN plan :
        m # n => {plan[m].keep_key, plan[m].consume_key}
                   \cap {plan[n].keep_key, plan[n].consume_key} = {}

(***************************************************************************)
(* README: "batch-combines duplicate furniture", "all deterministic pairs".*)
(* No plan of disjoint pairs has more of them.                             *)
(***************************************************************************)
PlanIsMaximum ==
    planned /\ Readable =>
        \A M \in Matchings : Cardinality(M) <= Len(plan)

(***************************************************************************)
(* Among the plans with that many pairs, none takes fewer copies out of    *)
(* rooms: a placed copy is consumed only where no stored one is left.      *)
(***************************************************************************)
PlanRecallsFewest ==
    planned /\ Readable =>
        LET recalled == {n \in DOMAIN plan : plan[n].consume_placed}
        IN  \A M \in Matchings :
                Maximal(M) => Cardinality(recalled) <= Recalls(M)
=============================================================================
