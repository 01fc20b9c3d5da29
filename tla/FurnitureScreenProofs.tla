------------------------ MODULE FurnitureScreenProofs ------------------------
(***************************************************************************)
(* Loading and unloading, for every set of sites and every number of       *)
(* changes made by others; then the furniture screen's list, for every     *)
(* number of rows and pairs, whatever other mods do.                       *)
(***************************************************************************)
EXTENDS FurnitureScreen, TLAPS

(***************************************************************************)
(* HooksAreWhole is not inductive: that a hook is not installed again      *)
(* follows from what its first installation did to the prologue.           *)
(***************************************************************************)
HooksMatchPrologues ==
    /\ \A f \in Hook :
          /\ installed[f] \in {0, 1}
          /\ installed[f] = 1 <=> prologue[f] = "hooked"
          /\ installed[f] = 1 => trampoline[f]
    /\ installed["scene_ready"] = 1 => installed["mode_enter"] = 1
    /\ enabled => installed["scene_ready"] = 1

LEMMA InitGivesTypes == Init => TypeOK
<1> SUFFICES ASSUME Init PROVE TypeOK
  OBVIOUS
<1>1. site \in [Sites -> SiteState]
  BY DEF Init, SiteState
<1>2. prologue \in [Hook -> Prologue] /\ installed \in [Hook -> Nat]
  BY DEF Init, Prologue
<1>3. trampoline \in [Hook -> BOOLEAN]
  BY DEF Init
<1>4. audit \in Audit
  BY DEF Init, Audit
<1>5. layout \in BOOLEAN /\ enabled \in BOOLEAN /\ runtime \in BOOLEAN
  BY DEF Init
<1>6. loader \in {"absent", "old", "ready"} /\ moves \in 0..MaxMoves
  BY MaxMovesAssumption DEF Init
<1> QED BY <1>1, <1>2, <1>3, <1>4, <1>5, <1>6 DEF TypeOK

LEMMA AuditHasItsType ==
  ASSUME TypeOK, NEW refused \in SUBSET Sites
  PROVE  Ensured(refused) \in Audit
<1>1. CASE SignaturesValid
  BY <1>1 DEF Ensured, Audit, Original
<1>2. CASE ~SignaturesValid
  BY <1>2 DEF Ensured, Audit
<1> QED BY <1>1, <1>2

LEMMA PatchingKeepsTypes ==
  ASSUME TypeOK, NEW refused \in SUBSET Sites, EnsureEnhancedPatches(refused)
  PROVE  audit' \in Audit /\ site' \in [Sites -> SiteState]
<1>1. audit' \in Audit
  BY AuditHasItsType DEF EnsureEnhancedPatches
<1>2. site' \in [Sites -> SiteState]
  BY DEF EnsureEnhancedPatches, TypeOK, SiteState
<1> QED BY <1>1, <1>2

LEMMA InstallingKeepsTypes ==
  ASSUME TypeOK, NEW hooks \in SUBSET Hook, Installs(hooks)
  PROVE  /\ prologue' \in [Hook -> Prologue]
         /\ installed' \in [Hook -> Nat]
         /\ trampoline' \in [Hook -> BOOLEAN]
<1>1. prologue' \in [Hook -> Prologue]
  BY DEF Installs, TypeOK, Prologue
<1>2. installed' \in [Hook -> Nat]
  BY DEF Installs, TypeOK
<1>3. trampoline' \in [Hook -> BOOLEAN]
  BY ZenonT(30) DEF Installs, TypeOK
<1> QED BY <1>1, <1>2, <1>3

LEMMA NextKeepsTypes == TypeOK /\ [Next]_vars => TypeOK'
<1> SUFFICES ASSUME TypeOK, [Next]_vars PROVE TypeOK'
  OBVIOUS
<1>1. ASSUME NEW refused \in SUBSET Sites, PatchesRefused(refused)
      PROVE  TypeOK'
  BY <1>1, PatchingKeepsTypes DEF PatchesRefused, Resolved, TypeOK
<1>2. ASSUME NEW refused \in SUBSET Sites, NEW hooks \in SUBSET Hook,
             HookRefused(refused, hooks)
      PROVE  TypeOK'
  BY <1>2, PatchingKeepsTypes, InstallingKeepsTypes
     DEF HookRefused, Resolved, TypeOK
<1>3. ASSUME NEW refused \in SUBSET Sites, Loads(refused)
      PROVE  TypeOK'
  BY <1>3, PatchingKeepsTypes, InstallingKeepsTypes
     DEF Loads, Resolved, TypeOK
<1>4. ASSUME NEW refused \in SUBSET Sites, FurnitureModeEnterHook(refused)
      PROVE  TypeOK'
  <2>1. layout' \in BOOLEAN
    BY <1>4 DEF FurnitureModeEnterHook, TypeOK, CurrentLayout,
                LayoutSignaturesValid, RuntimeSignaturesValid
  <2> QED
    BY <1>4, <2>1, PatchingKeepsTypes DEF FurnitureModeEnterHook, TypeOK
<1>5. CASE Shutdown
  BY <1>5 DEF Shutdown, code, TypeOK
<1>6. ASSUME NEW s \in Sites, NEW bytes \in {"original", "foreign"},
             OtherWritesSite(s, bytes)
      PROVE  TypeOK'
  BY <1>6, MaxMovesAssumption
     DEF OtherWritesSite, Moves, TypeOK, SiteState
<1>7. ASSUME NEW f \in Hook, OtherHooks(f) \/ OtherUnhooks(f)
      PROVE  TypeOK'
  BY <1>7, MaxMovesAssumption
     DEF OtherHooks, OtherUnhooks, Moves, TypeOK, Prologue
<1>8. CASE OtherChangesRuntime
  BY <1>8, MaxMovesAssumption DEF OtherChangesRuntime, Moves, TypeOK
<1>9. CASE UNCHANGED vars
  BY <1>9 DEF vars, code, TypeOK
<1> QED BY <1>1, <1>2, <1>3, <1>4, <1>5, <1>6, <1>7, <1>8, <1>9 DEF Next, BesidesHook

(***************************************************************************)
(* Whatever fails and whoever else writes to the code, every variable of   *)
(* loading and unloading keeps its type.                                   *)
(***************************************************************************)
THEOREM LifecycleTypes == Spec => []TypeOK
BY InitGivesTypes, NextKeepsTypes, PTL DEF Spec

LEMMA InitMatches == Init => HooksMatchPrologues
  BY DEF Init, HooksMatchPrologues, Hook

\* nothing is loaded over a hook that is already there
LEMMA ResolvedMeansUnhooked ==
  ASSUME TypeOK, HooksMatchPrologues, Resolved
  PROVE  /\ ~enabled
         /\ \A f \in Hook : prologue[f] = "original" /\ installed[f] = 0
  BY DEF TypeOK, HooksMatchPrologues, Resolved, Supported,
         LayoutSignaturesValid, FunctionSignatureValid, Hook, Prologue

\* what is installed on untouched prologues matches them
LEMMA InstallingMatches ==
  ASSUME TypeOK, HooksMatchPrologues, Resolved,
         NEW hooks \in SUBSET Hook, Installs(hooks)
  PROVE  \A f \in Hook :
            /\ installed'[f] = IF f \in hooks THEN 1 ELSE 0
            /\ installed'[f] \in {0, 1}
            /\ installed'[f] = 1 <=> prologue'[f] = "hooked"
            /\ installed'[f] = 1 => trampoline'[f]
<1> SUFFICES ASSUME NEW f \in Hook
             PROVE  /\ installed'[f] = IF f \in hooks THEN 1 ELSE 0
                    /\ installed'[f] \in {0, 1}
                    /\ installed'[f] = 1 <=> prologue'[f] = "hooked"
                    /\ installed'[f] = 1 => trampoline'[f]
  OBVIOUS
<1>1. prologue[f] = "original" /\ installed[f] = 0
  BY ResolvedMeansUnhooked
<1>2. installed'[f] = IF f \in hooks THEN 1 ELSE 0
  BY <1>1 DEF Installs
<1>3. prologue'[f] = IF f \in hooks THEN "hooked" ELSE "original"
  BY <1>1 DEF Installs
<1>4. f \in hooks => trampoline'[f]
  BY Zenon DEF Installs
<1> QED BY <1>2, <1>3, <1>4

LEMMA NextKeepsMatch ==
  TypeOK /\ HooksMatchPrologues /\ [Next]_vars => HooksMatchPrologues'
<1> SUFFICES ASSUME TypeOK, HooksMatchPrologues, [Next]_vars
             PROVE  HooksMatchPrologues'
  OBVIOUS
<1>1. ASSUME NEW refused \in SUBSET Sites, PatchesRefused(refused)
      PROVE  HooksMatchPrologues'
  BY <1>1 DEF PatchesRefused, HooksMatchPrologues
<1>2. ASSUME NEW refused \in SUBSET Sites, NEW hooks \in SUBSET Hook,
             HookRefused(refused, hooks)
      PROVE  HooksMatchPrologues'
  <2>1. Installs(hooks) /\ hooks \in {{}, {"mode_enter"}} /\ ~enabled'
    BY <1>2, ResolvedMeansUnhooked DEF HookRefused
  <2>2. Resolved
    BY <1>2 DEF HookRefused
  <2>3. installed'["scene_ready"] = 0
    BY <2>1, <2>2, InstallingMatches DEF Hook
  <2>4. \A f \in Hook : /\ installed'[f] \in {0, 1}
                        /\ installed'[f] = 1 <=> prologue'[f] = "hooked"
                        /\ installed'[f] = 1 => trampoline'[f]
    BY <2>1, <2>2, InstallingMatches
  <2> QED BY <2>1, <2>3, <2>4 DEF HooksMatchPrologues
<1>3. ASSUME NEW refused \in SUBSET Sites, Loads(refused)
      PROVE  HooksMatchPrologues'
  <2>1. Installs(Hook) /\ Resolved
    BY <1>3 DEF Loads
  <2> QED BY <2>1, InstallingMatches DEF HooksMatchPrologues, Hook
<1>4. ASSUME NEW refused \in SUBSET Sites, FurnitureModeEnterHook(refused)
      PROVE  HooksMatchPrologues'
  BY <1>4 DEF FurnitureModeEnterHook, HooksMatchPrologues
<1>5. CASE Shutdown
  BY <1>5 DEF Shutdown, code, HooksMatchPrologues
<1>6. ASSUME NEW s \in Sites, NEW bytes \in {"original", "foreign"},
             OtherWritesSite(s, bytes)
      PROVE  HooksMatchPrologues'
  BY <1>6 DEF OtherWritesSite, Moves, HooksMatchPrologues
<1>7. ASSUME NEW f \in Hook, OtherHooks(f) \/ OtherUnhooks(f)
      PROVE  HooksMatchPrologues'
  BY <1>7 DEF OtherHooks, OtherUnhooks, Moves, HooksMatchPrologues, TypeOK,
              Hook
<1>8. CASE OtherChangesRuntime
  BY <1>8 DEF OtherChangesRuntime, Moves, HooksMatchPrologues
<1>9. CASE UNCHANGED vars
  BY <1>9 DEF vars, code, HooksMatchPrologues
<1> QED BY <1>1, <1>2, <1>3, <1>4, <1>5, <1>6, <1>7, <1>8, <1>9 DEF Next, BesidesHook

(***************************************************************************)
(* No hook is ever installed twice, and an enabled mod has both of them    *)
(* with their trampolines, after any number of failed or repeated calls    *)
(* of Initialize and shutdowns.                                            *)
(***************************************************************************)
THEOREM HooksAreAlwaysWhole == Spec => []HooksAreWhole
<1>1. HooksMatchPrologues => HooksAreWhole
  BY DEF HooksMatchPrologues, HooksAreWhole, Hook
<1> QED
  BY <1>1, InitGivesTypes, NextKeepsTypes, InitMatches, NextKeepsMatch, PTL
     DEF Spec

(***************************************************************************)
(* A mod whose first hook is in and that is not enabled stays disabled.    *)
(***************************************************************************)
THEOREM HookedAlwaysStaysDisabled == Spec => HookedStaysDisabled
<1> DEFINE Stays == installed["mode_enter"] > 0 /\ ~enabled => ~enabled'
<1>1. TypeOK /\ HooksMatchPrologues /\ [Next]_vars => [Stays]_vars
  <2> SUFFICES ASSUME TypeOK, HooksMatchPrologues, Next,
                      installed["mode_enter"] > 0, ~enabled
               PROVE  ~enabled'
    OBVIOUS
  <2>1. ~Resolved
    BY ResolvedMeansUnhooked DEF Hook
  <2> QED
    BY <2>1 DEF Next, BesidesHook, PatchesRefused, HookRefused, Loads,
                FurnitureModeEnterHook, Shutdown, OtherWritesSite,
                OtherHooks, OtherUnhooks, OtherChangesRuntime, Moves
<1> QED
  BY <1>1, InitGivesTypes, NextKeepsTypes, InitMatches, NextKeepsMatch, PTL
     DEF Spec, HookedStaysDisabled

\* what patching may do to the sites
LEMMA PatchingIsCareful ==
  ASSUME TypeOK, NEW refused \in SUBSET Sites, EnsureEnhancedPatches(refused)
  PROVE  /\ site' # site => RuntimeSignaturesValid
         /\ \A s \in Sites : site'[s] # site[s] => site[s] = "original"
<1>1. \A s \in Sites : site'[s] # site[s]
                          => SignaturesValid /\ site[s] = "original"
  BY DEF EnsureEnhancedPatches, Original
<1>2. ASSUME site' # site PROVE RuntimeSignaturesValid
  <2>1. PICK s \in Sites : site'[s] # site[s]
    <3>1. site \in [Sites -> SiteState] /\ site' \in [Sites -> SiteState]
      BY PatchingKeepsTypes DEF TypeOK
    <3> QED BY <1>2, <3>1
  <2> QED BY <1>1, <2>1 DEF SignaturesValid
<1> QED BY <1>1, <1>2

(***************************************************************************)
(* The mod writes to the game's code only while every signature holds, and *)
(* only over the game's own bytes.                                         *)
(***************************************************************************)
THEOREM AlwaysWritesOnlyExpectedCode == Spec => WritesOnlyExpectedCode
<1> DEFINE Careful ==
      moves' = moves /\ code' # code =>
         /\ RuntimeSignaturesValid
         /\ \A s \in Sites : site'[s] # site[s] => site[s] = "original"
         /\ \A f \in Hook :
               installed'[f] # installed[f] => prologue[f] = "original"
<1>1. TypeOK /\ HooksMatchPrologues /\ [Next]_vars => [Careful]_vars
  <2> SUFFICES ASSUME TypeOK, HooksMatchPrologues, Next, moves' = moves,
                      code' # code
               PROVE  Careful
    OBVIOUS
  <2>1. ASSUME Resolved, NEW refused \in SUBSET Sites,
               EnsureEnhancedPatches(refused)
        PROVE  Careful
    <3>1. RuntimeSignaturesValid
      BY <2>1 DEF Resolved, Supported, LayoutSignaturesValid
    <3> QED BY <2>1, <3>1, PatchingIsCareful, ResolvedMeansUnhooked
  <2>2. ASSUME NEW refused \in SUBSET Sites, FurnitureModeEnterHook(refused)
        PROVE  Careful
    <3>1. installed' = installed /\ site' # site
      BY <2>2 DEF FurnitureModeEnterHook, code
    <3> QED BY <2>2, <3>1, PatchingIsCareful DEF FurnitureModeEnterHook
  <2>3. ~Shutdown
    BY DEF Shutdown
  <2>4. ~Moves
    BY DEF Moves, TypeOK
  <2> QED
    BY <2>1, <2>2, <2>3, <2>4
       DEF Next, BesidesHook, PatchesRefused, HookRefused, Loads, OtherWritesSite,
           OtherHooks, OtherUnhooks, OtherChangesRuntime
<1> QED
  BY <1>1, InitGivesTypes, NextKeepsTypes, InitMatches, NextKeepsMatch, PTL
     DEF Spec, WritesOnlyExpectedCode

\* a site is either left as it was or patched, and patched if it was original
LEMMA SitesAfterPatching ==
  ASSUME TypeOK, NEW refused \in SUBSET Sites, EnsureEnhancedPatches(refused),
         SignaturesValid, NEW s \in Sites
  PROVE  /\ s \in Original \cap refused => site'[s] = "original"
         /\ s \notin Original \cap refused => site'[s] = "patched"
         /\ s \in Original <=> site[s] # "patched"
<1>1. site[s] \in {"original", "patched"}
  BY DEF SignaturesValid, RuntimeSignaturesValid
<1>2. s \in Original <=> site[s] = "original"
  BY DEF Original
<1>3. site'[s] = IF s \in Original \ refused THEN "patched" ELSE site[s]
  BY DEF EnsureEnhancedPatches
<1> QED BY <1>1, <1>2, <1>3

\* every verdict of the audit is true of the sites it leaves
LEMMA PatchingIsReported ==
  ASSUME TypeOK, NEW refused \in SUBSET Sites, EnsureEnhancedPatches(refused)
  PROVE  /\ audit'.success <=> audit'.conflict_mask = {}
         /\ audit'.success => \A s \in Sites : site'[s] = "patched"
         /\ \A s \in audit'.patched_mask : site'[s] = "patched"
         /\ SignaturesValid => audit'.repaired_mask
               = {s \in Sites : site[s] # "patched" /\ site'[s] = "patched"}
         /\ ~SignaturesValid => audit'.repaired_mask = {} /\ site' = site
<1>1. CASE SignaturesValid
  <2>1. /\ audit'.success = (Original \cap refused = {})
        /\ audit'.patched_mask = Sites \ (Original \cap refused)
        /\ audit'.repaired_mask = Original \ refused
        /\ audit'.conflict_mask = Original \cap refused
    BY <1>1 DEF EnsureEnhancedPatches, Ensured
  <2>2. Original \subseteq Sites
    BY DEF Original
  <2> QED BY <1>1, <2>1, <2>2, SitesAfterPatching
<1>2. CASE ~SignaturesValid
  <2>1. /\ audit'.success = FALSE
        /\ audit'.patched_mask = {}
        /\ audit'.repaired_mask = {}
        /\ audit'.conflict_mask = Sites
    BY <1>2 DEF EnsureEnhancedPatches, Ensured
  <2>2. site' = site
    BY <1>2 DEF EnsureEnhancedPatches, TypeOK
  <2> QED BY <1>2, <2>1, <2>2, SitesAssumption
<1> QED BY <1>1, <1>2

(***************************************************************************)
(* Whoever asks the audit, loading or the hook, gets the truth about every *)
(* site, whichever pages could not be written.                             *)
(***************************************************************************)
THEOREM AuditIsAlwaysTrue == Spec => AuditIsTrue
<1> DEFINE True ==
      moves' = moves /\ (audit' # audit \/ site' # site) =>
         /\ audit'.success <=> audit'.conflict_mask = {}
         /\ audit'.success => \A s \in Sites : site'[s] = "patched"
         /\ \A s \in audit'.patched_mask : site'[s] = "patched"
         /\ audit'.repaired_mask
               = {s \in Sites : site[s] # "patched" /\ site'[s] = "patched"}
<1>1. TypeOK /\ [Next]_vars => [True]_vars
  <2> SUFFICES ASSUME TypeOK, Next, moves' = moves,
                      audit' # audit \/ site' # site
               PROVE  True
    OBVIOUS
  <2>1. ASSUME NEW refused \in SUBSET Sites, EnsureEnhancedPatches(refused)
        PROVE  True
    <3>1. CASE SignaturesValid
      BY <2>1, <3>1, PatchingIsReported
    <3>2. CASE ~SignaturesValid
      <4>1. {s \in Sites : site[s] # "patched" /\ site'[s] = "patched"} = {}
        BY <2>1, <3>2, PatchingIsReported
      <4> QED BY <2>1, <3>2, <4>1, PatchingIsReported
    <3> QED BY <3>1, <3>2
  <2>2. ~Shutdown
    BY DEF Shutdown, code
  <2>3. ~Moves
    BY DEF Moves, TypeOK
  <2> QED
    BY <2>1, <2>2, <2>3
       DEF Next, BesidesHook, PatchesRefused, HookRefused, Loads,
           FurnitureModeEnterHook, OtherWritesSite, OtherHooks,
           OtherUnhooks, OtherChangesRuntime
<1> QED
  BY <1>1, InitGivesTypes, NextKeepsTypes, PTL DEF Spec, AuditIsTrue

-----------------------------------------------------------------------------
\* a step of the screen is a step of Lifecycle, or leaves its variables alone
LEMMA ScreenStepIsLifecycleStep == [ScreenNext]_screenVars => [Next]_vars
<1> SUFFICES ASSUME [ScreenNext]_screenVars PROVE [Next]_vars
  OBVIOUS
<1>1. ASSUME NEW refused \in SUBSET Sites, NEW attempt \in Attempts,
             NEW rebuilds \in BOOLEAN, EnterHook(refused, attempt, rebuilds)
      PROVE  Next
  BY <1>1 DEF EnterHook, Next
<1>2. ASSUME NEW rebuilds \in BOOLEAN, OpensUnhooked(rebuilds)
      PROVE  UNCHANGED vars
  BY <1>2 DEF OpensUnhooked
<1>3. CASE LeaveFurnitureMode
  BY <1>3 DEF LeaveFurnitureMode
<1>4. ASSUME NEW r \in Rows, NEW last \in BOOLEAN, Combines(r, last)
      PROVE  UNCHANGED vars
  BY <1>4 DEF Combines
<1>5. CASE LifecycleStep
  BY <1>5 DEF LifecycleStep, Next
<1>6. CASE UNCHANGED screenVars
  BY <1>6 DEF screenVars
<1> QED BY <1>1, <1>2, <1>3, <1>4, <1>5, <1>6 DEF ScreenNext

(***************************************************************************)
(* What holds of loading and unloading holds with the screen in the game:  *)
(* every theorem about Spec above applies to ScreenSpec.                   *)
(***************************************************************************)
THEOREM ScreenIsLifecycle == ScreenSpec => Spec
BY ScreenStepIsLifecycleStep, PTL DEF ScreenSpec, Spec, ScreenInit

(***************************************************************************)
(* FinishedIsShownOrOwed is not inductive.  Between two calls of the hook  *)
(* no key is inverted and no byte is set, so that a new attempt never      *)
(* inverts back what an earlier one left; and with the screen closed, too, *)
(* what a finished batch combined is owed, unless the last rebuild was     *)
(* settled without the list.                                               *)
(***************************************************************************)
KeysAreOwn == ~dirty /\ \A r \in Rows : ~rows[r].inverted
KeylessIsCurrent == \A r \in Keyless : rows[r].shows = "current"
AnnouncedIsOwed ==
    ~ui_rebuild_pending =>
        unlisted \/ \A r \in Rows : rows[r].shows # "announced"

ScreenInv == ScreenTypeOK /\ KeysAreOwn /\ KeylessIsCurrent /\ AnnouncedIsOwed

LEMMA ScreenInitInv == ScreenInit => ScreenInv
<1> SUFFICES ASSUME ScreenInit PROVE ScreenInv
  OBVIOUS
<1>1. rows \in [Rows -> Row]
  BY DEF ScreenInit, Row, Shows
<1>2. ScreenTypeOK
  <2>1. furniture_mode \in BOOLEAN /\ dirty \in BOOLEAN
            /\ ui_rebuild_pending \in BOOLEAN /\ unlisted \in BOOLEAN
    BY DEF ScreenInit
  <2>2. pairs \in 0..MaxPairs
    BY MaxPairsAssumption DEF ScreenInit
  <2> QED BY <1>1, <2>1, <2>2 DEF ScreenTypeOK
<1>3. KeysAreOwn /\ KeylessIsCurrent /\ AnnouncedIsOwed
  BY KeylessAssumption
     DEF ScreenInit, KeysAreOwn, KeylessIsCurrent, AnnouncedIsOwed, Rows
<1> QED BY <1>2, <1>3 DEF ScreenInv

\* the rows that an attempt hands to the game, when no key was inverted before
LEMMA InvertedRows ==
  ASSUME ScreenInv, NEW n \in Nat
  PROVE  /\ Inverted(n) \in [Rows -> Row]
         /\ \A r \in Rows :
               /\ Inverted(n)[r].shows = rows[r].shows
               /\ Inverted(n)[r].inverted <=> r <= n /\ r \notin Keyless
<1> SUFFICES ASSUME NEW r \in Rows
             PROVE  /\ Inverted(n)[r] \in Row
                    /\ Inverted(n)[r].shows = rows[r].shows
                    /\ Inverted(n)[r].inverted <=> r <= n /\ r \notin Keyless
  BY DEF Inverted
<1>1. rows[r] \in Row /\ ~rows[r].inverted
  BY DEF ScreenInv, ScreenTypeOK, KeysAreOwn
<1>2. CASE r <= n /\ r \notin Keyless
  <2>1. Inverted(n)[r] = [rows[r] EXCEPT !.inverted = ~@]
    BY <1>2 DEF Inverted
  <2>2. Inverted(n)[r] = [shows |-> rows[r].shows,
                          inverted |-> ~rows[r].inverted]
    BY <1>1, <2>1 DEF Row
  <2>3. Inverted(n)[r] = [shows |-> rows[r].shows, inverted |-> TRUE]
    BY <1>1, <2>2
  <2>4. rows[r].shows \in Shows
    BY <1>1 DEF Row
  <2> QED BY <1>2, <2>3, <2>4 DEF Row
<1>3. CASE ~(r <= n /\ r \notin Keyless)
  BY <1>1, <1>3 DEF Inverted
<1> QED BY <1>2, <1>3

\* an attempt that wrote anything set the byte, and one that armed with the
\* list reached every row that has a key
LEMMA AttemptIsWhole ==
  ASSUME ScreenInv, NEW attempt \in Attempts
  PROVE  /\ attempt.rows \in [Rows -> Row]
         /\ attempt.dirty \in BOOLEAN
         /\ \A r \in Rows :
               /\ attempt.rows[r].shows = rows[r].shows
               /\ attempt.rows[r].inverted => attempt.dirty
               /\ attempt.armed /\ attempt # ArmedWithoutList
                     /\ r \notin Keyless => attempt.rows[r].inverted
         /\ attempt.armed => attempt.dirty
<1>1. CASE attempt = Untouched
  BY <1>1 DEF Untouched, ScreenInv, ScreenTypeOK, KeysAreOwn
<1>2. CASE attempt = Armed
  <2>1. RowCount \in Nat /\ \A r \in Rows : r <= RowCount
    BY RowCountAssumption DEF Rows
  <2> QED BY <1>2, <2>1, InvertedRows DEF Armed
<1>3. CASE attempt = ArmedWithoutList
  BY <1>3 DEF ArmedWithoutList, ScreenInv, ScreenTypeOK, KeysAreOwn
<1>4. ASSUME NEW n \in {0} \cup 0..(RowCount - 1), attempt = FailedAt(n)
      PROVE  /\ attempt.rows = Inverted(n) /\ n \in Nat
             /\ attempt.dirty = TRUE /\ attempt.armed = FALSE
  BY <1>4, RowCountAssumption DEF FailedAt
<1> QED BY <1>1, <1>2, <1>3, <1>4, InvertedRows DEF Attempts

\* the game takes back every inverted key, and makes its row anew
LEMMA OpeningSettles ==
  ASSUME ScreenInv, NEW attempt \in Attempts, NEW rebuilds \in BOOLEAN,
         GameOpens(attempt, rebuilds)
  PROVE  /\ furniture_mode' = TRUE
         /\ dirty' = FALSE
         /\ rows' \in [Rows -> Row]
         /\ \A r \in Rows :
               /\ ~rows'[r].inverted
               /\ rows'[r].shows \in {"current", rows[r].shows}
               /\ attempt.armed /\ attempt # ArmedWithoutList
                     /\ r \notin Keyless => rows'[r].shows = "current"
<1>1. furniture_mode' = TRUE /\ dirty' = FALSE
  <2>1. attempt.dirty \in BOOLEAN
    BY AttemptIsWhole
  <2> QED BY <2>1 DEF GameOpens
<1>2. CASE rebuilds
  <2>1. rows' = [r \in Rows |->
                   IF attempt.rows[r].inverted
                   THEN [shows |-> "current", inverted |-> FALSE]
                   ELSE attempt.rows[r]]
    BY <1>2, AttemptIsWhole DEF GameOpens, Rebuilt
  <2>2. ASSUME NEW r \in Rows
        PROVE  /\ rows'[r] \in Row
               /\ ~rows'[r].inverted
               /\ rows'[r].shows \in {"current", rows[r].shows}
               /\ attempt.armed /\ attempt # ArmedWithoutList
                     /\ r \notin Keyless => rows'[r].shows = "current"
    <3>1. CASE attempt.rows[r].inverted
      <4>1. rows'[r] = [shows |-> "current", inverted |-> FALSE]
        BY <2>1, <3>1
      <4> QED BY <4>1 DEF Row, Shows
    <3>2. CASE ~attempt.rows[r].inverted
      <4>1. rows'[r] = attempt.rows[r]
        BY <2>1, <3>2
      <4> QED BY <3>2, <4>1, AttemptIsWhole
    <3> QED BY <3>1, <3>2
  <2>3. rows' \in [Rows -> Row]
    BY <2>1, <2>2
  <2> QED BY <1>1, <2>2, <2>3
<1>3. CASE ~rebuilds
  <2>1. ~attempt.dirty /\ rows' = attempt.rows
    BY <1>3 DEF GameOpens
  <2> QED BY <1>1, <2>1, AttemptIsWhole
<1> QED BY <1>2, <1>3

LEMMA UntouchedIsAnAttempt ==
  Untouched \in Attempts /\ ~Untouched.armed
  BY DEF Attempts, Untouched

LEMMA EnterHookKeepsInv ==
  ASSUME ScreenInv, NEW refused \in SUBSET Sites, NEW attempt \in Attempts,
         NEW rebuilds \in BOOLEAN, EnterHook(refused, attempt, rebuilds)
  PROVE  ScreenInv'
<1> DEFINE settled == Wanted(audit'.success) /\ attempt.armed
<1>1. /\ ui_rebuild_pending' = (ui_rebuild_pending /\ ~settled)
      /\ unlisted' = IF settled THEN attempt = ArmedWithoutList ELSE unlisted
      /\ pairs' = pairs
  BY DEF EnterHook, Pending
<1>2. /\ ui_rebuild_pending' \in BOOLEAN /\ pairs' \in 0..MaxPairs
      /\ unlisted' \in BOOLEAN
  BY <1>1 DEF ScreenInv, ScreenTypeOK
<1>3. settled => ui_rebuild_pending
  BY DEF Wanted
<1> HIDE DEF settled
<1>4. CASE GameOpens(attempt, rebuilds)
  <2>1. ScreenTypeOK'
    BY <1>2, <1>4, OpeningSettles DEF ScreenTypeOK
  <2>2. KeysAreOwn'
    BY <1>4, OpeningSettles DEF KeysAreOwn
  <2>3. KeylessIsCurrent'
    BY <1>4, OpeningSettles, KeylessAssumption
       DEF ScreenInv, KeylessIsCurrent, Rows
  <2>4. AnnouncedIsOwed'
    <3> SUFFICES ASSUME ~ui_rebuild_pending', ~unlisted', NEW r \in Rows
                 PROVE  rows'[r].shows # "announced"
      BY DEF AnnouncedIsOwed
    <3>1. CASE ~settled
      <4>1. ~ui_rebuild_pending /\ ~unlisted
        BY <1>1, <3>1
      <4> QED BY <1>4, <4>1, OpeningSettles DEF ScreenInv, AnnouncedIsOwed
    <3>2. CASE settled /\ r \notin Keyless
      <4>1. attempt.armed /\ attempt # ArmedWithoutList
        BY <1>1, <3>2 DEF settled
      <4> QED BY <1>4, <3>2, <4>1, OpeningSettles
    <3>3. CASE r \in Keyless
      BY <1>4, <3>3, OpeningSettles DEF ScreenInv, KeylessIsCurrent
    <3> QED BY <3>1, <3>2, <3>3
  <2> QED BY <2>1, <2>2, <2>3, <2>4 DEF ScreenInv
<1>5. CASE GameStaysOpen(attempt)
  <2>1. attempt = Untouched
    BY <1>5 DEF GameStaysOpen, Attempts, Rebuildable
  <2>2. ~settled
    BY <2>1, UntouchedIsAnAttempt DEF settled
  <2>3. /\ furniture_mode' = TRUE /\ dirty' = dirty /\ rows' = rows
        /\ (ui_rebuild_pending' <=> ui_rebuild_pending)
        /\ unlisted' = unlisted
    BY <1>1, <1>5, <2>1, <2>2 DEF GameStaysOpen, Untouched
  <2>4. ScreenTypeOK'
    BY <1>2, <2>3 DEF ScreenInv, ScreenTypeOK
  <2> QED
    BY <2>3, <2>4
       DEF ScreenInv, KeysAreOwn, KeylessIsCurrent, AnnouncedIsOwed
<1> QED BY <1>4, <1>5 DEF EnterHook

LEMMA CombinesKeepsInv ==
  ASSUME ScreenInv, NEW p \in Rows, NEW last \in BOOLEAN, Combines(p, last)
  PROVE  ScreenInv'
<1>1. ASSUME NEW r \in Rows
      PROVE  /\ rows'[r] \in Row
             /\ ~rows'[r].inverted
             /\ r \in Keyless => rows'[r].shows = "current"
             /\ ~last /\ rows'[r].shows = "announced"
                   => rows[r].shows = "announced"
  <2>1. rows[r] \in Row /\ ~rows[r].inverted
    BY DEF ScreenInv, ScreenTypeOK, KeysAreOwn
  <2>2. PICK shows \in Shows :
          /\ rows'[r] = [rows[r] EXCEPT !.shows = shows]
          /\ shows = IF last /\ (r = p \/ rows[r].shows = "combined")
                     THEN "announced"
                     ELSE IF r = p /\ rows[r].shows = "current"
                          THEN "combined" ELSE rows[r].shows
    BY <2>1 DEF Combines, Row, Shows
  <2>3. rows'[r] = [shows |-> shows, inverted |-> rows[r].inverted]
    BY <2>1, <2>2 DEF Row
  <2>4. r \in Keyless => r # p /\ rows[r].shows = "current"
    BY DEF Combines, ScreenInv, KeylessIsCurrent
  <2>5. rows'[r] \in Row /\ ~rows'[r].inverted
    BY <2>1, <2>3 DEF Row
  <2>6. rows'[r].shows = shows
    BY <2>3
  <2> QED BY <2>2, <2>4, <2>5, <2>6
<1>2. rows' \in [Rows -> Row]
  <2>1. /\ DOMAIN rows' = Rows
        /\ rows' = [r \in Rows |-> rows'[r]]
    BY DEF Combines
  <2> QED BY <1>1, <2>1
<1>3. /\ ui_rebuild_pending' = (ui_rebuild_pending \/ last)
      /\ furniture_mode' = furniture_mode /\ dirty' = dirty
      /\ pairs' \in 0..MaxPairs /\ unlisted' = unlisted
  BY MaxPairsAssumption DEF Combines, ScreenInv, ScreenTypeOK
<1>4. ScreenTypeOK'
  BY <1>2, <1>3 DEF ScreenInv, ScreenTypeOK
<1>5. KeysAreOwn' /\ KeylessIsCurrent'
  BY <1>1, <1>3, KeylessAssumption
     DEF ScreenInv, KeysAreOwn, KeylessIsCurrent, Rows
<1>6. AnnouncedIsOwed'
  BY <1>1, <1>3 DEF ScreenInv, AnnouncedIsOwed
<1> QED BY <1>4, <1>5, <1>6 DEF ScreenInv

LEMMA ScreenStepKeepsInv ==
  ScreenInv /\ [ScreenNext]_screenVars => ScreenInv'
<1> SUFFICES ASSUME ScreenInv, [ScreenNext]_screenVars PROVE ScreenInv'
  OBVIOUS
<1>1. ASSUME NEW refused \in SUBSET Sites, NEW attempt \in Attempts,
             NEW rebuilds \in BOOLEAN, EnterHook(refused, attempt, rebuilds)
      PROVE  ScreenInv'
  BY <1>1, EnterHookKeepsInv
<1>2. ASSUME NEW rebuilds \in BOOLEAN, OpensUnhooked(rebuilds)
      PROVE  ScreenInv'
  <2>1. /\ ui_rebuild_pending' = ui_rebuild_pending /\ pairs' = pairs
        /\ unlisted' = unlisted
        /\ GameOpens(Untouched, rebuilds)
    BY <1>2 DEF OpensUnhooked, screenHistory
  <2>2. /\ furniture_mode' = TRUE /\ dirty' = FALSE
        /\ rows' \in [Rows -> Row]
        /\ \A r \in Rows : /\ ~rows'[r].inverted
                           /\ rows'[r].shows \in {"current", rows[r].shows}
    BY <2>1, OpeningSettles, UntouchedIsAnAttempt
  <2>3. ScreenTypeOK'
    BY <2>1, <2>2 DEF ScreenInv, ScreenTypeOK
  <2>4. KeysAreOwn' /\ KeylessIsCurrent' /\ AnnouncedIsOwed'
    BY <2>1, <2>2, KeylessAssumption
       DEF ScreenInv, KeysAreOwn, KeylessIsCurrent, AnnouncedIsOwed, Rows
  <2> QED BY <2>3, <2>4 DEF ScreenInv
<1>3. CASE LeaveFurnitureMode
  <2>1. ScreenTypeOK'
    BY <1>3 DEF LeaveFurnitureMode, screenHistory, ScreenInv, ScreenTypeOK
  <2> QED
    BY <1>3, <2>1
       DEF LeaveFurnitureMode, screenHistory, ScreenInv, KeysAreOwn,
           KeylessIsCurrent, AnnouncedIsOwed
<1>4. ASSUME NEW r \in Rows, NEW last \in BOOLEAN, Combines(r, last)
      PROVE  ScreenInv'
  BY <1>4, CombinesKeepsInv
<1>5. CASE UNCHANGED <<screen, ui_rebuild_pending, screenHistory>>
  <2>1. ScreenTypeOK'
    BY <1>5 DEF screen, screenHistory, ScreenInv, ScreenTypeOK
  <2> QED
    BY <1>5, <2>1
       DEF screen, screenHistory, ScreenInv, KeysAreOwn, KeylessIsCurrent,
           AnnouncedIsOwed
<1> QED
  BY <1>1, <1>2, <1>3, <1>4, <1>5 DEF ScreenNext, LifecycleStep, screenVars

(***************************************************************************)
(* Every variable of the screen keeps its type.                            *)
(***************************************************************************)
THEOREM ScreenTypes == ScreenSpec => []ScreenTypeOK
<1>1. ScreenInv => ScreenTypeOK
  BY DEF ScreenInv
<1> QED BY <1>1, ScreenInitInv, ScreenStepKeepsInv, PTL DEF ScreenSpec

(***************************************************************************)
(* However often the attempts on a list of any length failed, and at       *)
(* whichever row, an open screen shows what finished batches combined, or  *)
(* the mod still owes the rebuild, or the last rebuild was settled by an   *)
(* attempt for which the game had no list.  An attempt that is given the   *)
(* list makes up for it, whatever the one before it left.                  *)
(***************************************************************************)
THEOREM FinishedIsAlwaysShownOrOwed == ScreenSpec => []FinishedIsShownOrOwed
<1>1. ScreenInv => FinishedIsShownOrOwed
  BY DEF ScreenInv, AnnouncedIsOwed, FinishedIsShownOrOwed
<1> QED BY <1>1, ScreenInitInv, ScreenStepKeepsInv, PTL DEF ScreenSpec

(***************************************************************************)
(* A rebuild is settled only by rows that the patched code computes.       *)
(***************************************************************************)
THEOREM AlwaysRebuildsOnlyPatched == ScreenSpec => RebuildsOnlyPatched
<1> DEFINE Settles == ui_rebuild_pending /\ ~ui_rebuild_pending' =>
                         \A s \in Sites : site'[s] = "patched"
<1>1. TypeOK /\ [ScreenNext]_screenVars => [Settles]_screenVars
  <2> SUFFICES ASSUME TypeOK, ScreenNext,
                      ui_rebuild_pending, ~ui_rebuild_pending'
               PROVE  \A s \in Sites : site'[s] = "patched"
    OBVIOUS
  <2>1. ASSUME NEW refused \in SUBSET Sites, NEW attempt \in Attempts,
               NEW rebuilds \in BOOLEAN, EnterHook(refused, attempt, rebuilds)
        PROVE  \A s \in Sites : site'[s] = "patched"
    <3>1. audit'.success
      BY <2>1 DEF EnterHook, Pending, Wanted
    <3>2. EnsureEnhancedPatches(refused)
      BY <2>1 DEF EnterHook, FurnitureModeEnterHook
    <3> QED BY <3>1, <3>2, PatchingIsReported
  <2> QED
    BY <2>1 DEF ScreenNext, OpensUnhooked, LeaveFurnitureMode, Combines,
                LifecycleStep
<1> QED
  BY <1>1, ScreenIsLifecycle, LifecycleTypes, PTL
     DEF ScreenSpec, RebuildsOnlyPatched
=============================================================================
