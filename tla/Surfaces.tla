------------------------------ MODULE Surfaces ------------------------------
(***************************************************************************)
(* The hot-reloaded surfaces that promise what FreshRead says.  They share *)
(* nothing but the shape, so a behaviour is about one of them, chosen at   *)
(* the start: the settings, in the variables of PanelSettings, or the      *)
(* catalog or the theme, in a second set of the same variables.            *)
(***************************************************************************)
EXTENDS PanelSettings

CONSTANTS Apps, Html, Statics, Others, Editors

VARIABLES
  surface,
  clock, saving, rows, kept, mutex, caller, shown,
  order      \* history: "kept" until a write overtakes another

Cat == INSTANCE Catalog WITH Writers <- Editors, now <- clock, writing <- saving,
  table <- rows, cache <- kept, lock <- mutex, reader <- caller, seen <- shown
Thm == INSTANCE ThemeEngine WITH Writers <- Editors, now <- clock, writing <- saving,
  table <- rows, cache <- kept, lock <- mutex, reader <- caller, seen <- shown

ASSUME SurfacesAssumption ==
  Cat!CatalogAssumption /\ Thm!ThemeAssumption /\ SettingsAssumption

\* A stamp is taken before its statement commits, so a write may commit before one
\* with an earlier stamp.
Overtakes ==
  \E v, w \in Editors : /\ saving[v] # None /\ saving[w] # None /\ saving[v] < saving[w]
                        /\ saving'[w] = None

InOrder == order = "kept"
Ordering == order' = IF InOrder /\ ~Overtakes THEN "kept" ELSE "broken"

othervars == <<clock, saving, rows, kept, mutex, caller, shown>>
allvars == <<vars, surface, othervars, order>>

NoSettings == Init /\ \A key \in Keys : table[key].at = 1

NoOther ==
  /\ clock = None /\ saving = None /\ rows = None /\ kept = None
  /\ mutex = None /\ caller = None /\ shown = None

SurfacesInit ==
  /\ order = "kept"
  /\ \/ surface = "settings" /\ Init /\ NoOther
     \/ surface = "catalog" /\ Cat!Init /\ NoSettings
     \/ surface = "theme" /\ Thm!Init /\ NoSettings

SurfacesNext ==
  \/ surface = "settings" /\ Next /\ UNCHANGED <<surface, othervars, order>>
  \/ surface = "catalog" /\ Cat!Next /\ Ordering /\ UNCHANGED <<surface, vars>>
  \/ surface = "theme" /\ Thm!Next /\ Ordering /\ UNCHANGED <<surface, vars>>

SurfacesSpec == SurfacesInit /\ [][SurfacesNext]_allvars

ReloadTypeOK ==
  /\ TypeOK
  /\ surface = "catalog" => Cat!TypeOK
  /\ surface = "theme" => Thm!TypeOK

\* As long as no write of an editor has overtaken another's, the catalog implements
\* FreshRead: a list that is returned is one the table held during the call
\* (Catalog.List in apps.go).
CatalogFollowsTable ==
  /\ surface = "catalog" => Cat!Fresh!Init
  /\ [][surface = "catalog" /\ InOrder => Cat!Fresh!Next \/ UNCHANGED Cat!Fresh!vars]_allvars

\* As long as no write of an editor has overtaken another's, the theme implements
\* FreshRead: each part that is served is as it was during the call, or its row was
\* deleted (Engine.Render and ServeStatic in theme.go).
ThemeFollowsTables ==
  /\ surface = "theme" => Thm!Fresh!Init
  /\ [][surface = "theme" /\ InOrder => Thm!Fresh!Next \/ UNCHANGED Thm!Fresh!vars]_allvars
=============================================================================
