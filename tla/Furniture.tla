------------------------------ MODULE Furniture ------------------------------
(***************************************************************************)
(* The furniture values that every other module passes around: entries of  *)
(* the game's storage as a scan reports them, their placement flags, and   *)
(* the catalogue of item definitions.                                      *)
(***************************************************************************)
EXTENDS Naturals, FiniteSets

CONSTANTS
    Items,    \* item ids; their order stands for the order of the strings
    Keys,     \* stable keys; 0 is the key of no furniture
    Catalog   \* item id -> [can_be_rare], for the items the catalogue defines

ASSUME ItemsAssumption == Items \subseteq Nat /\ IsFiniteSet(Items)
ASSUME KeysAssumption == Keys \subseteq Nat
ASSUME CatalogAssumption ==
    /\ DOMAIN Catalog \subseteq Items
    /\ \A i \in DOMAIN Catalog : Catalog[i] \in [can_be_rare : BOOLEAN]

(***************************************************************************)
(* placement_flags is a 64-bit word.  The code tests bit 1 (rare), bit 2   *)
(* (enhanced) and whether any other bit is set ("unknown").                *)
(***************************************************************************)
Flag == {"rare", "enhanced", "unknown"}
Flags == SUBSET Flag
KnownFurnitureFlags == {"rare", "enhanced"}

FurnitureInstance ==
    [stable_key : Keys \cup {0}, item_id : Items, placed : BOOLEAN,
     placement_flags : Flags, delete_pending : BOOLEAN,
     runtime_match_count : Nat]

IsRare(i) == "rare" \in i.placement_flags
IsEnhanced(i) == "enhanced" \in i.placement_flags
HasOnlyKnownFlags(i) == i.placement_flags \subseteq KnownFurnitureFlags

CanBeRare(item) == item \in DOMAIN Catalog /\ Catalog[item].can_be_rare

(***************************************************************************)
(* How many times its base attributes a furniture is worth once the game's *)
(* attribute code is patched to multiply by 1 + ((flags >> 1) & 3).        *)
(***************************************************************************)
Multiplier(flags) == 1 + (IF "rare" \in flags THEN 1 ELSE 0)
                       + (IF "enhanced" \in flags THEN 2 ELSE 0)
==============================================================================
