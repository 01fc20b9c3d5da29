--------------------------- MODULE FurnitureScreen ---------------------------
(***************************************************************************)
(* The list of the furniture screen after a batch: the game keeps its rows *)
(* from one opening of the screen to the next and, when its dirty byte is  *)
(* set, replaces only those whose key no furniture has.  So the hook on    *)
(* entering the screen sets the byte and inverts a bit of every row's key. *)
(* Inverting twice is not inverting at all, an attempt may fail half way,  *)
(* and it is repeated on the next entry (mod_main.cpp:819-854,             *)
(* native_api.c:787-926).                                                  *)
(*                                                                         *)
(* Composed with Lifecycle, whose steps it takes beside its own: an        *)
(* attempt wants the mod enabled and the attribute patches in place, or    *)
(* the new rows would be computed by the wrong code.                       *)
(***************************************************************************)
EXTENDS Lifecycle

CONSTANTS
    RowCount,     \* the rows of the list
    Keyless,      \* those whose key is 0
    MaxPairs      \* how many pairs are combined

ASSUME RowCountAssumption == RowCount \in Nat
ASSUME KeylessAssumption == Keyless \subseteq 1..RowCount
ASSUME MaxPairsAssumption == MaxPairs \in Nat

VARIABLES
    furniture_mode,       \* the screen is open
    dirty,                \* its list is to be rebuilt
    rows,                 \* its rows
    ui_rebuild_pending,   \* g_ui_rebuild_pending
    pairs,                \* history: pairs combined
    unlisted              \* history: the last rebuild was settled by an attempt
                          \* that was given no list, so that it marked no row

screen == <<furniture_mode, dirty, rows>>
screenHistory == <<pairs, unlisted>>
screenVars == <<vars, screen, ui_rebuild_pending, screenHistory>>

Rows == 1..RowCount

\* a row shows its furniture as it is ("current") or as it was before a pair
\* was combined; "announced" when the batch of the pair has finished
Shows == {"current", "combined", "announced"}
Row == [shows : Shows, inverted : BOOLEAN]

ScreenInit ==
    /\ Init
    /\ furniture_mode = FALSE
    /\ dirty = FALSE
    /\ rows = [r \in Rows |-> [shows |-> "current", inverted |-> FALSE]]
    /\ ui_rebuild_pending = FALSE
    /\ pairs = 0
    /\ unlisted = FALSE
-----------------------------------------------------------------------------
(***************************************************************************)
(* cdf_native_prepare_furniture_ui_rebuild_on_enter.  It gives up before   *)
(* it writes anything (no readable context or component, another vtable,   *)
(* code that is not as expected, the screen open already, a byte that does *)
(* not stick); or with the byte set, at the list or among its rows, those  *)
(* before inverted; or it arms.  It arms, too, when the way to the list    *)
(* ends in a null pointer: cdf_furniture_ui_rows succeeds with no rows.    *)
(* Whether the list, when it can be reached again, has rows from before is *)
(* not decided by this code.                                               *)
(***************************************************************************)
\* mutant of Inverted: the loop runs one row too far
InvertedPastEnd(n) ==
    [r \in 1..(RowCount + 1) |->
        IF r \notin Rows THEN [shows |-> "current", inverted |-> TRUE]
        ELSE IF r <= n /\ r \notin Keyless
             THEN [rows[r] EXCEPT !.inverted = ~@] ELSE rows[r]]

\* the first n rows inverted, a key of 0 left as it is
Inverted(n) ==
    [r \in Rows |->
        IF r <= n /\ r \notin Keyless
        THEN [rows[r] EXCEPT !.inverted = ~@] ELSE rows[r]]

Untouched == [armed |-> FALSE, dirty |-> dirty, rows |-> rows]

\* mutant of FailedAt: the dirty byte is set after the rows
FailedAtClean(n) == [armed |-> FALSE, dirty |-> dirty, rows |-> Inverted(n)]

FailedAt(n) == [armed |-> FALSE, dirty |-> TRUE, rows |-> Inverted(n)]

Armed == [armed |-> TRUE, dirty |-> TRUE, rows |-> Inverted(RowCount)]

ArmedWithoutList == [armed |-> TRUE, dirty |-> TRUE, rows |-> rows]

Rebuildable == CurrentLayout /\ runtime /\ ~furniture_mode

Attempts ==
    {Untouched} \cup
        (IF Rebuildable
         THEN {Armed, ArmedWithoutList}
                \cup {FailedAt(n) : n \in {0} \cup 0..(RowCount - 1)}
         ELSE {})

(***************************************************************************)
(* The game opens the screen.  It rebuilds a dirty list, and may rebuild   *)
(* one for reasons of its own: a row whose key is a furniture's is kept.   *)
(***************************************************************************)
Rebuilt(list) ==
    [r \in DOMAIN list |->
        IF list[r].inverted
        THEN [shows |-> "current", inverted |-> FALSE] ELSE list[r]]

GameOpens(attempt, rebuilds) ==
    /\ furniture_mode' = TRUE
    /\ dirty' = (attempt.dirty /\ ~rebuilds)
    /\ rows' = IF rebuilds THEN Rebuilt(attempt.rows) ELSE attempt.rows
    /\ attempt.dirty => rebuilds

\* the function is called though the screen is open
GameStaysOpen(attempt) ==
    /\ furniture_mode
    /\ furniture_mode' = TRUE
    /\ dirty' = attempt.dirty
    /\ rows' = attempt.rows
-----------------------------------------------------------------------------
\* mutant of Wanted: the audit's answer is not asked for
WantedUnaudited(success) == enabled /\ ui_rebuild_pending

Wanted(success) == enabled /\ ui_rebuild_pending /\ success

Pending(attempted, attempt) ==
    ui_rebuild_pending /\ ~(attempted /\ attempt.armed)

\* all of FurnitureModeEnterHook: the audit, the attempt, the game, the result
EnterHook(refused, attempt, rebuilds) ==
    /\ FurnitureModeEnterHook(refused)
    /\ IF Wanted(audit'.success) THEN attempt \in Attempts
                                 ELSE attempt = Untouched
    /\ ui_rebuild_pending' = Pending(Wanted(audit'.success), attempt)
    /\ \/ ~furniture_mode /\ GameOpens(attempt, rebuilds)
       \/ GameStaysOpen(attempt)
    /\ unlisted' = IF Wanted(audit'.success) /\ attempt.armed
                   THEN attempt = ArmedWithoutList ELSE unlisted
    /\ UNCHANGED pairs

\* a mod that is not hooked in does not see the screen open
OpensUnhooked(rebuilds) ==
    /\ installed["mode_enter"] = 0
    /\ ~furniture_mode
    /\ GameOpens(Untouched, rebuilds)
    /\ UNCHANGED <<vars, ui_rebuild_pending, screenHistory>>

LeaveFurnitureMode ==
    /\ furniture_mode
    /\ furniture_mode' = FALSE
    /\ UNCHANGED <<vars, dirty, rows, ui_rebuild_pending, screenHistory>>

(***************************************************************************)
(* A pair is combined in a frame with the screen closed; the row of the    *)
(* furniture that is kept is no longer true.  (The row of the one that is  *)
(* consumed goes with any rebuild.)  FinishBatch, after the last pair,     *)
(* asks for the list to be rebuilt; a batch that is stopped does not.      *)
(***************************************************************************)
Combines(r, last) ==
    /\ enabled
    /\ ~furniture_mode
    /\ pairs < MaxPairs
    /\ pairs' = pairs + 1
    /\ r \notin Keyless
    /\ rows' =
          [q \in Rows |->
              [rows[q] EXCEPT !.shows =
                  IF last /\ (q = r \/ @ = "combined") THEN "announced"
                  ELSE IF q = r /\ @ = "current" THEN "combined" ELSE @]]
    /\ ui_rebuild_pending' = (ui_rebuild_pending \/ last)
    /\ UNCHANGED <<vars, furniture_mode, dirty, unlisted>>

\* what Lifecycle does besides the hook
LifecycleStep ==
    /\ BesidesHook
    /\ UNCHANGED <<screen, ui_rebuild_pending, screenHistory>>

ScreenNext ==
    \/ \E refused \in SUBSET Sites, attempt \in Attempts,
          rebuilds \in BOOLEAN : EnterHook(refused, attempt, rebuilds)
    \/ \E rebuilds \in BOOLEAN : OpensUnhooked(rebuilds)
    \/ LeaveFurnitureMode
    \/ \E r \in Rows, last \in BOOLEAN : Combines(r, last)
    \/ LifecycleStep

ScreenSpec == ScreenInit /\ [][ScreenNext]_screenVars
-----------------------------------------------------------------------------
\* Every variable of the screen has its type.
ScreenTypeOK ==
    /\ furniture_mode \in BOOLEAN
    /\ dirty \in BOOLEAN
    /\ rows \in [Rows -> Row]
    /\ ui_rebuild_pending \in BOOLEAN
    /\ pairs \in 0..MaxPairs
    /\ unlisted \in BOOLEAN

(***************************************************************************)
(* An open screen shows everything that a finished batch has combined, or  *)
(* the mod still owes the rebuild and the next entry makes another try; or *)
(* the debt was settled by an attempt that was given no list, which counts *)
(* as armed with no row marked (native_api.c:804-832, 919).  No other      *)
(* sequence of failed attempts leaves a row out of the one that succeeds,  *)
(* and the next one that is given the list makes up for one that was not.  *)
(* Rows that stay old after the screen was entered are a known issue of    *)
(* README.md:72: this is the way to it that the code has.                  *)
(* (native_api.c:901-926, mod_main.cpp:837-840, README.md:68)              *)
(***************************************************************************)
FinishedIsShownOrOwed ==
    furniture_mode /\ ~ui_rebuild_pending =>
        unlisted \/ \A r \in Rows : rows[r].shows # "announced"

(***************************************************************************)
(* The rebuild that settles the debt is made with every attribute patch in *)
(* place, else the new rows would be computed by the game's own code, and  *)
(* nothing would order them again.  (mod_main.cpp:820, 826)                *)
(***************************************************************************)
RebuildsOnlyPatched ==
    [][ui_rebuild_pending /\ ~ui_rebuild_pending' =>
          \A s \in Sites : site'[s] = "patched"]_screenVars
=============================================================================
