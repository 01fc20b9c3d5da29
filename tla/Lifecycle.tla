------------------------------ MODULE Lifecycle ------------------------------
(***************************************************************************)
(* How the mod gets into the game and out of it (mod_main.cpp,             *)
(* native_api.c): CombineDuplicateFurniture_Initialize validates the       *)
(* game's code, patches the sites that compute a furniture's attributes    *)
(* and hooks two of the game's functions; any of these may fail half way,  *)
(* the call may be repeated, and other mods write to the same code.        *)
(*                                                                         *)
(* Code is abstracted to what comparing it with the expected bytes tells.  *)
(* Every change by somebody else costs one of MaxMoves moves.              *)
(***************************************************************************)
EXTENDS Naturals, FiniteSets

CONSTANTS
    Sites,      \* the seven patched sites: six values and the effect count
    MaxMoves    \* how many changes others make

ASSUME SitesAssumption == Sites # {}
ASSUME MaxMovesAssumption == MaxMoves \in Nat

\* "original" the game's bytes; "patched" the mod's; "foreign" others, or
\* bytes that cannot be read or follow other instructions than expected
SiteState == {"original", "patched", "foreign"}

\* the functions hooked, and what their first instructions are
Hook == {"mode_enter", "scene_ready"}
Prologue == {"original", "hooked", "foreign"}

VARIABLES
    \* the process
    loader,      \* Mewjector: "absent", "old" (before version 3) or "ready"
    site,        \* the patched sites
    prologue,    \* the first instructions of the hooked functions
    runtime,     \* the other code and tables of the signatures are expected
    installed,   \* how often each hook has been installed
    \* the mod
    layout,      \* g_layout is set
    trampoline,  \* g_next_furniture_mode_enter and g_next_scene_ready are set
    enabled,     \* g_enabled
    audit,       \* the last answer of EnsureEnhancedFurniturePatches
    \* history
    moves        \* changes made by others

code == <<site, prologue, runtime, installed>>
vars == <<loader, code, layout, trampoline, enabled, audit, moves>>

Audit == [success : BOOLEAN, patched_mask : SUBSET Sites,
          repaired_mask : SUBSET Sites, conflict_mask : SUBSET Sites]

Init ==
    /\ loader \in {"absent", "old", "ready"}
    /\ site = [s \in Sites |-> "original"]
    /\ prologue = [f \in Hook |-> "original"]
    /\ runtime \in BOOLEAN      \* FALSE: a build of the game not supported
    /\ installed = [f \in Hook |-> 0]
    /\ layout = FALSE
    /\ trampoline = [f \in Hook |-> FALSE]
    /\ enabled = FALSE
    /\ audit = [success |-> FALSE, patched_mask |-> {},
                repaired_mask |-> {}, conflict_mask |-> {}]
    /\ moves = 0
-----------------------------------------------------------------------------
(***************************************************************************)
(* The signatures.  The layout is found once, and only if the prologues    *)
(* are untouched; the runtime signatures leave the prologues out, for the  *)
(* mod's own hooks change them.                                            *)
(***************************************************************************)
FunctionSignatureValid(f) == prologue[f] = "original"

RuntimeSignaturesValid ==
    runtime /\ \A s \in Sites : site[s] \in {"original", "patched"}

\* mutant of LayoutSignaturesValid: the function about to be hooked is not asked
LayoutSignaturesOfRuntime ==
    RuntimeSignaturesValid /\ FunctionSignatureValid("mode_enter")

LayoutSignaturesValid ==
    RuntimeSignaturesValid /\ \A f \in Hook : FunctionSignatureValid(f)

CurrentLayout == layout \/ LayoutSignaturesValid
SignaturesValid == CurrentLayout /\ RuntimeSignaturesValid

\* mutant of Supported: a layout found earlier is as good as a new comparison
SupportedSinceFound == CurrentLayout /\ RuntimeSignaturesValid

\* ResolveNativeLayout and FurnitureModeEnterRefreshSupported
Supported ==
    /\ CurrentLayout /\ LayoutSignaturesValid
    /\ FunctionSignatureValid("mode_enter") /\ runtime
-----------------------------------------------------------------------------
(***************************************************************************)
(* cdf_native_ensure_enhanced_patches, where the pages of the sites in     *)
(* `refused' cannot be made writable: nothing is written unless all code   *)
(* is as expected; then the sites are patched one by one, past failures.   *)
(***************************************************************************)
Original == {s \in Sites : site[s] = "original"}

\* mutant of Ensured: conflict_mask is not set when a write fails
EnsuredUnnoticed(refused) ==
    IF ~SignaturesValid
    THEN [success |-> FALSE, patched_mask |-> {}, repaired_mask |-> {},
          conflict_mask |-> Sites]
    ELSE [success |-> TRUE,
          patched_mask |-> Sites,
          repaired_mask |-> Original,
          conflict_mask |-> {}]

\* mutant of Ensured: all_sites_mask is one bit too wide
EnsuredWideMask(refused) ==
    IF ~SignaturesValid
    THEN [success |-> FALSE, patched_mask |-> {}, repaired_mask |-> {},
          conflict_mask |-> Sites \cup {"bit 7"}]
    ELSE [success |-> Original \cap refused = {},
          patched_mask |-> Sites \ (Original \cap refused),
          repaired_mask |-> Original \ refused,
          conflict_mask |-> Original \cap refused]

Ensured(refused) ==
    IF ~SignaturesValid
    THEN [success |-> FALSE, patched_mask |-> {}, repaired_mask |-> {},
          conflict_mask |-> Sites]
    ELSE [success |-> Original \cap refused = {},
          patched_mask |-> Sites \ (Original \cap refused),
          repaired_mask |-> Original \ refused,
          conflict_mask |-> Original \cap refused]

EnsureEnhancedPatches(refused) ==
    /\ audit' = Ensured(refused)
    /\ site' = [s \in Sites |->
                   IF SignaturesValid /\ s \in Original \ refused
                   THEN "patched" ELSE site[s]]
-----------------------------------------------------------------------------
(***************************************************************************)
(* CombineDuplicateFurniture_Initialize: DllMain calls it when the library *)
(* is loaded, and the loader may call it again.  Without a loader of       *)
(* version 3, on code that is not as expected, and when the mod is enabled *)
(* it returns with nothing changed; the other ends are the actions below.  *)
(***************************************************************************)
Resolved ==
    /\ ~enabled
    /\ loader = "ready"
    /\ Supported
    /\ layout' = TRUE
    /\ UNCHANGED <<loader, runtime, moves>>

PatchesRefused(refused) ==
    /\ Resolved
    /\ EnsureEnhancedPatches(refused)
    /\ ~audit'.success
    /\ UNCHANGED <<prologue, installed, trampoline, enabled>>

\* MJ_InstallHook writes a jump over the prologue, or returns 0
Installs(hooks) ==
    /\ prologue' = [f \in Hook |->
                       IF f \in hooks THEN "hooked" ELSE prologue[f]]
    /\ installed' = [f \in Hook |->
                        IF f \in hooks THEN installed[f] + 1 ELSE installed[f]]
    /\ trampoline' = [f \in Hook |-> f \in hooks \/ trampoline[f]]

HookRefused(refused, hooks) ==
    /\ Resolved
    /\ EnsureEnhancedPatches(refused)
    /\ audit'.success
    /\ hooks \in {{}, {"mode_enter"}}     \* the first or the second fails
    /\ Installs(hooks)
    /\ UNCHANGED enabled

\* mutant of Loads: enabled before the second hook is there
LoadsEarly(refused) ==
    /\ Resolved
    /\ EnsureEnhancedPatches(refused)
    /\ audit'.success
    /\ Installs({"mode_enter"})
    /\ enabled' = TRUE

Loads(refused) ==
    /\ Resolved
    /\ EnsureEnhancedPatches(refused)
    /\ audit'.success
    /\ Installs(Hook)
    /\ enabled' = TRUE

Shutdown ==
    /\ enabled
    /\ enabled' = FALSE
    /\ UNCHANGED <<loader, code, layout, trampoline, audit, moves>>

\* the part of FurnitureModeEnterHook that runs whether or not enabled
FurnitureModeEnterHook(refused) ==
    /\ installed["mode_enter"] > 0
    /\ EnsureEnhancedPatches(refused)
    /\ layout' = CurrentLayout
    /\ UNCHANGED <<loader, prologue, runtime, installed, trampoline, enabled,
                   moves>>
-----------------------------------------------------------------------------
(***************************************************************************)
(* Other mods: they overwrite a site or put its bytes back, hook a         *)
(* function that is not hooked yet or take their hook out again, and       *)
(* change other code of the signatures.  Nobody takes out this mod's hook. *)
(***************************************************************************)
Moves == moves < MaxMoves /\ moves' = moves + 1
              /\ UNCHANGED <<loader, installed, layout, trampoline, enabled,
                             audit>>

OtherWritesSite(s, bytes) ==
    /\ Moves
    /\ site[s] # bytes
    /\ site' = [site EXCEPT ![s] = bytes]
    /\ UNCHANGED <<prologue, runtime>>

OtherHooks(f) ==
    /\ Moves
    /\ prologue[f] = "original"
    /\ prologue' = [prologue EXCEPT ![f] = "foreign"]
    /\ UNCHANGED <<site, runtime>>

OtherUnhooks(f) ==
    /\ Moves
    /\ prologue[f] = "foreign"
    /\ prologue' = [prologue EXCEPT ![f] = "original"]
    /\ UNCHANGED <<site, runtime>>

OtherChangesRuntime ==
    /\ Moves
    /\ runtime' = ~runtime
    /\ UNCHANGED <<site, prologue>>

\* everything but the hook
BesidesHook ==
    \/ \E refused \in SUBSET Sites :
          \/ PatchesRefused(refused)
          \/ \E hooks \in SUBSET Hook : HookRefused(refused, hooks)
          \/ Loads(refused)
    \/ Shutdown
    \/ \E s \in Sites, bytes \in {"original", "foreign"} :
          OtherWritesSite(s, bytes)
    \/ \E f \in Hook : OtherHooks(f) \/ OtherUnhooks(f)
    \/ OtherChangesRuntime

Next ==
    \/ BesidesHook
    \/ \E refused \in SUBSET Sites : FurnitureModeEnterHook(refused)

Spec == Init /\ [][Next]_vars
-----------------------------------------------------------------------------
\* Every variable has its type.
TypeOK ==
    /\ loader \in {"absent", "old", "ready"}
    /\ site \in [Sites -> SiteState]
    /\ prologue \in [Hook -> Prologue]
    /\ runtime \in BOOLEAN
    /\ installed \in [Hook -> Nat]
    /\ layout \in BOOLEAN
    /\ trampoline \in [Hook -> BOOLEAN]
    /\ enabled \in BOOLEAN
    /\ audit \in Audit
    /\ moves \in 0..MaxMoves

(***************************************************************************)
(* However often loading failed, half succeeded or followed a shutdown, no *)
(* hook is installed twice (each frame would run the batch twice), and an  *)
(* enabled mod has both, each with a way on into the game's function.      *)
(* (ResolveAndHook, mod_main.cpp:896-974: nothing there counts the hooks.) *)
(***************************************************************************)
HooksAreWhole ==
    /\ \A f \in Hook : installed[f] <= 1
    /\ enabled => \A f \in Hook : installed[f] = 1 /\ trampoline[f]

(***************************************************************************)
(* The mod writes to the game's code only while every signature holds: it  *)
(* replaces no bytes but the game's own, at a site or under a hook, and on *)
(* a game that it does not support it writes nothing.  (README.md:10)      *)
(***************************************************************************)
WritesOnlyExpectedCode ==
    [][moves' = moves /\ code' # code =>
         /\ RuntimeSignaturesValid
         /\ \A s \in Sites : site'[s] # site[s] => site[s] = "original"
         /\ \A f \in Hook :
               installed'[f] # installed[f] => prologue[f] = "original"]_vars

(***************************************************************************)
(* The audit can be relied on by those who use it, loading and the rebuild *)
(* of the list: when it succeeds every site is patched, otherwise it names *)
(* a conflict, and what it calls patched is.  (native_api.c:1235-1330)     *)
(***************************************************************************)
AuditIsTrue ==
    [][moves' = moves /\ (audit' # audit \/ site' # site) =>
         /\ audit'.success <=> audit'.conflict_mask = {}
         /\ audit'.success => \A s \in Sites : site'[s] = "patched"
         /\ \A s \in audit'.patched_mask : site'[s] = "patched"
         /\ audit'.repaired_mask
               = {s \in Sites : site[s] # "patched" /\ site'[s] = "patched"}
      ]_vars

(***************************************************************************)
(* Once its first hook is in, a mod that is not enabled stays so: neither  *)
(* after a shutdown nor after the second hook failed can another call of   *)
(* Initialize bring it back, because its own jump is not the prologue that *)
(* the layout's signatures want.  (mod_main.cpp:911, 979-989)              *)
(***************************************************************************)
HookedStaysDisabled ==
    [][installed["mode_enter"] > 0 /\ ~enabled => ~enabled']_vars
==============================================================================
