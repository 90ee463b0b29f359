------------------------------- MODULE RoleList -------------------------------
(***************************************************************************)
(* The screen of roles: components/roles/RoleList.tsx with its RoleForm,   *)
(* over the hook useApi.  The list is what the last answer to a loadRoles  *)
(* set, whichever execution it belongs to; a deletion, an assignment of    *)
(* permissions and a submitted form each load the list again when they     *)
(* end.  Each of them goes on after an await with the functions of the     *)
(* rendering it began in, whatever the screen shows by then.               *)
(***************************************************************************)
EXTENDS Naturals, FiniteSets

CONSTANTS
  Change,      \* deletions, assignments and forms under way together
  Load,        \* executions of loadRoles under way together
  MaxVersion,  \* bound: changes of the roles on the server
  None         \* null

VARIABLES
  version,   \* the server: how often the roles have changed
  roles,     \* the state of useApi(fetchRoles); data is a version
  dialog,    \* isFormOpen, isPermissionDialogOpen
  selected,  \* whether selectedRole is set
  change,    \* local state of each change
  load,      \* local state of each execution of loadRoles
  known,     \* history: the last version a change of this screen ended with
  newest     \* history: the load begun last, and whether one was under way

vars == <<version, roles, dialog, selected, change, load, known, newest>>

Idle == [pc |-> "idle"]

Init ==
  /\ version = 0 /\ known = 0
  /\ roles = [data |-> None, loading |-> FALSE, error |-> FALSE]
  /\ dialog = [form |-> FALSE, permissions |-> FALSE]
  /\ selected = FALSE
  /\ change = [x \in Change |-> Idle]
  /\ load = [l \in Load |-> Idle]
  /\ newest = [load |-> None, alone |-> TRUE]

-----------------------------------------------------------------------------
Loading == {l \in Load : load[l] # Idle}

(* The list and its buttons are there, and no dialog is in front of them.  *)
Clickable == ~ roles.error /\ ~ dialog.form /\ ~ dialog.permissions
Rows == Clickable /\ ~ roles.loading /\ roles.data # None

(* execute of useApi, for loadRoles                                        *)
LoadRoles(l) ==
  /\ load[l] = Idle
  /\ load' = [load EXCEPT ![l] = [pc |-> "sent", data |-> None]]
  /\ roles' = [data |-> None, loading |-> TRUE, error |-> FALSE]
  /\ newest' = [load |-> l, alone |-> Loading = {}]

(* The server reads the roles for one execution.                           *)
FetchRoles(l) ==
  /\ load[l].pc = "sent"
  /\ load' = [load EXCEPT ![l] = [pc |-> "served", data |-> version]]
  /\ UNCHANGED <<version, roles, dialog, selected, change, known, newest>>

(* Its answer, or an error, becomes the state.                             *)
Resolve(l) ==
  /\ load[l].pc = "served"
  /\ roles' = [data |-> load[l].data, loading |-> FALSE, error |-> FALSE]
  /\ load' = [load EXCEPT ![l] = Idle]
  /\ UNCHANGED <<version, dialog, selected, change, known, newest>>

Reject(l) ==
  /\ load[l] # Idle
  /\ roles' = [data |-> None, loading |-> FALSE, error |-> TRUE]
  /\ load' = [load EXCEPT ![l] = Idle]
  /\ UNCHANGED <<version, dialog, selected, change, known, newest>>

-----------------------------------------------------------------------------
Show(form, permissions) == dialog' = [form |-> form, permissions |-> permissions]

(* handleEdit, handlePermissionClick                                       *)
OpenForRole(form) ==
  /\ Rows
  /\ selected' = TRUE
  /\ Show(form, ~ form)
  /\ UNCHANGED <<version, roles, change, load, known, newest>>

(* 'Create Role', which leaves selectedRole as it is                       *)
OpenCreate ==
  /\ Clickable
  /\ Show(TRUE, FALSE)
  /\ UNCHANGED <<version, roles, selected, change, load, known, newest>>

(* onClose, 'Cancel'                                                       *)
Close ==
  /\ ~ roles.error
  /\ dialog.form \/ dialog.permissions
  /\ Show(FALSE, FALSE)
  /\ UNCHANGED <<version, roles, selected, change, load, known, newest>>

Begin(x, kind) ==
  /\ change[x] = Idle
  /\ change' = [change EXCEPT ![x] = [pc |-> "sent", kind |-> kind, version |-> 0]]
  /\ UNCHANGED <<version, roles, dialog, selected, load, known, newest>>

HandleDeleteClick(x) == Rows /\ Begin(x, "delete")

HandlePermissionSave(x) ==
  ~ roles.error /\ dialog.permissions /\ selected /\ Begin(x, "permissions")

(* handleSubmit of a valid form; one that was closed goes on submitting.   *)
HandleSubmit(x) == ~ roles.error /\ dialog.form /\ Begin(x, "form")

(* The server changes the roles: for x, or for another administrator.      *)
Apply(x) ==
  /\ change[x].pc = "sent"
  /\ version < MaxVersion
  /\ version' = version + 1
  /\ change' = [change EXCEPT ![x].pc = "applied", ![x].version = version + 1]
  /\ UNCHANGED <<roles, dialog, selected, load, known, newest>>

ChangeElsewhere ==
  /\ version < MaxVersion
  /\ version' = version + 1
  /\ UNCHANGED <<roles, dialog, selected, change, load, known, newest>>

(* What follows the await: close the own kind of dialog, load the list.    *)
Finish(x, l) ==
  /\ Show(dialog.form /\ change[x].kind # "form",
          dialog.permissions /\ change[x].kind # "permissions")
  /\ change' = [change EXCEPT ![x] = Idle]
  /\ known' = IF change[x].version > known THEN change[x].version ELSE known
  /\ LoadRoles(l)
  /\ UNCHANGED <<version, selected>>

(* Mutant: only a form loads the list again; the handlers close and stop.  *)
AnswerReloadingForms(x, l) ==
  /\ change[x].pc = "applied"
  /\ \/ change[x].kind = "form" /\ Finish(x, l)
     \/ /\ change[x].kind # "form"
        /\ Show(dialog.form, FALSE)
        /\ change' = [change EXCEPT ![x] = Idle]
        /\ known' = IF change[x].version > known THEN change[x].version ELSE known
        /\ UNCHANGED <<version, roles, selected, load, newest>>

Answer(x, l) ==
  /\ change[x].pc = "applied"
  /\ Finish(x, l)

(* The request failed, or its answer was lost.  useApi keeps the error to  *)
(* itself, and the handler goes on as after a success; the form does not,  *)
(* and stays open.                                                         *)
FailForm(x) ==
  /\ change[x] # Idle /\ change[x].kind = "form"
  /\ change' = [change EXCEPT ![x] = Idle]
  /\ UNCHANGED <<version, roles, dialog, selected, load, known, newest>>

FailHandler(x, l) ==
  /\ change[x] # Idle /\ change[x].kind # "form"
  /\ Finish(x, l)

Next ==
  \/ \E l \in Load : FetchRoles(l) \/ Resolve(l) \/ Reject(l)
  \/ \E form \in BOOLEAN : OpenForRole(form)
  \/ OpenCreate \/ Close \/ ChangeElsewhere
  \/ \E x \in Change :
       \/ HandleDeleteClick(x) \/ HandlePermissionSave(x) \/ HandleSubmit(x)
       \/ Apply(x) \/ FailForm(x)
       \/ \E l \in Load : Answer(x, l) \/ FailHandler(x, l)

Spec == Init /\ [][Next]_vars

-----------------------------------------------------------------------------
(* "useApi", "loadRoles": once every load has been answered, the last one  *)
(* begun is what the screen shows, with every change this screen has made, *)
(* whatever else was under way; unless another load was in flight when it  *)
(* began, which may have answered after it.                                *)
ListCatchesUp ==
  Loading = {} /\ newest.load # None /\ newest.alone =>
    ~ roles.loading /\ (roles.error \/ roles.data >= known)
=============================================================================
