----------------------------- MODULE MCDashboard -----------------------------
(* RoleList, UserList and ErrorRecovery for TLC: parts of one application  *)
(* that share no state, so each is explored while the others stand still.  *)
EXTENDS ErrorRecovery, TLC

CONSTANTS Change, Load, MaxVersion, Page, Limit, Initial, Fetch, Handler,
          None

VARIABLES part, version, roles, dialog, selected, change, load, known, newest,
          page, limit, loading, error, data, isFormOpen, fetch, handler, outdated

Roles == INSTANCE RoleList
Users == INSTANCE UserList

roleVars == <<version, roles, dialog, selected, change, load, known, newest>>
userVars == <<page, limit, loading, error, data, isFormOpen, fetch, handler, outdated>>

InitDashboard ==
  /\ part \in {"roles", "users", "recovery"}
  /\ Roles!Init /\ Users!Init /\ Init

NextDashboard ==
  /\ UNCHANGED part
  /\ \/ part = "roles" /\ Roles!Next /\ UNCHANGED <<userVars, vars>>
     \/ part = "users" /\ Users!Next /\ UNCHANGED <<roleVars, vars>>
     \/ part = "recovery" /\ Next /\ UNCHANGED <<roleVars, userVars>>

SpecDashboard ==
  InitDashboard /\ [][NextDashboard]_<<part, roleVars, userVars, vars>>

Symmetry ==
  Permutations(Change) \cup Permutations(Load) \cup Permutations(Fetch)
    \cup Permutations(Handler) \cup Permutations(Attempt)

(* The list shows what was loaded last, with the changes of the screen:    *)
(* RoleList.tsx, useApi.ts.                                                *)
ListCatchesUp == Roles!ListCatchesUp

(* The screen shows the page it says: UserList.tsx, usePagination.ts.      *)
PageAndDataAgree == Users!PageAndDataAgree
=============================================================================
