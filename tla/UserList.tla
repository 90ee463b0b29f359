------------------------------- MODULE UserList -------------------------------
(***************************************************************************)
(* The screen of users: components/users/UserList.tsx with its UserForm,   *)
(* over the hook usePagination.  A fetch uses the page and limit of the    *)
(* rendering that its function belongs to; handleDeleteClick and the form  *)
(* call that function after an await, when newer ones may have been        *)
(* rendered, and changeLimit calls it in the same breath as setLimit, with *)
(* the limit before.                                                       *)
(***************************************************************************)
EXTENDS Naturals

CONSTANTS
  Page,      \* pages, from 1
  Limit,     \* rows per page that can be chosen
  Initial,   \* initialLimit
  Fetch,     \* executions of fetchPage under way together
  Handler,   \* deletions and submitted forms under way together
  None       \* null

VARIABLES
  page, limit, loading, error,   \* the state of the hook
  data,                          \* the page and limit of what is shown
  isFormOpen,
  fetch, handler,                \* local state of each
  outdated                       \* history: what was begun before setLimit

vars == <<page, limit, loading, error, data, isFormOpen, fetch, handler, outdated>>

Idle == [page |-> None, limit |-> None]

Init ==
  /\ page = 1 /\ limit = Initial
  /\ loading = FALSE /\ error = FALSE
  /\ data = Idle /\ isFormOpen = FALSE
  /\ fetch = [f \in Fetch |-> Idle]
  /\ handler = [h \in Handler |-> Idle]
  /\ outdated = {}

-----------------------------------------------------------------------------
Fetching == {f \in Fetch : fetch[f] # Idle}

(* fetchPage(newPage), of a rendering whose limit was closureLimit, up to  *)
(* its await; pageNow is the page that the screen has meanwhile.           *)
FetchPage(f, newPage, closureLimit, pageNow) ==
  /\ fetch[f] = Idle
  /\ fetch' = [fetch EXCEPT ![f] = [page |-> newPage, limit |-> closureLimit]]
  /\ loading' = TRUE /\ error' = FALSE
  /\ page' = pageNow

Clickable == ~ error /\ ~ isFormOpen

(* onPageChange, whose buttons are of no use without data                  *)
ChangePage(f, newPage) ==
  /\ Clickable /\ data # Idle
  /\ FetchPage(f, newPage, limit, page)
  /\ outdated' = outdated \ {f}
  /\ UNCHANGED <<limit, data, isFormOpen, handler>>

(* onRowsPerPageChange: the fetch does not yet know the new limit.         *)
ChangeLimit(f, newLimit) ==
  /\ Clickable
  /\ newLimit # limit
  /\ limit' = newLimit
  /\ FetchPage(f, 1, limit, 1)
  /\ outdated' = {"data", f} \cup Fetching \cup {h \in Handler : handler[h] # Idle}
  /\ UNCHANGED <<data, isFormOpen, handler>>

(* handleEdit, of a row, and the button that adds a user                   *)
OpenForm ==
  /\ Clickable
  /\ isFormOpen' = TRUE
  /\ UNCHANGED <<page, limit, loading, error, data, fetch, handler, outdated>>

(* handleFormClose by the user, who may leave a submitted form behind      *)
CloseForm(f) ==
  /\ ~ error /\ isFormOpen
  /\ isFormOpen' = FALSE
  /\ FetchPage(f, page, limit, page)
  /\ outdated' = outdated \ {f}
  /\ UNCHANGED <<limit, data, handler>>

(* handleDeleteClick on a row, handleSubmit of the form: up to the await   *)
Begin(h) ==
  /\ ~ error
  /\ isFormOpen \/ (~ loading /\ data # Idle)
  /\ handler[h] = Idle
  /\ handler' = [handler EXCEPT ![h] =
       [page |-> page, limit |-> limit, form |-> isFormOpen]]
  /\ outdated' = outdated \ {h}
  /\ UNCHANGED <<page, limit, loading, error, data, isFormOpen, fetch>>

(* ... and after it: whether or not the user could be deleted, and when    *)
(* the form was saved, by handleFormClose of the rendering it began in     *)
Finish(h, f) ==
  /\ handler[h] # Idle
  /\ isFormOpen' = (isFormOpen /\ ~ handler[h].form)
  /\ FetchPage(f, handler[h].page, handler[h].limit, page)
  /\ handler' = [handler EXCEPT ![h] = Idle]
  /\ outdated' = IF h \in outdated THEN (outdated \ {h}) \cup {f} ELSE outdated \ {f}
  /\ UNCHANGED <<limit, data>>

(* A form that could not be saved stays as it is.                          *)
FailForm(h) ==
  /\ handler[h] # Idle /\ handler[h].form
  /\ handler' = [handler EXCEPT ![h] = Idle]
  /\ outdated' = outdated \ {h}
  /\ UNCHANGED <<page, limit, loading, error, data, isFormOpen, fetch>>

(* Mutant: the data arrives, and the page is not set with it.              *)
ResolveKeepingPage(f) ==
  /\ fetch[f] # Idle
  /\ data' = fetch[f]
  /\ loading' = FALSE
  /\ fetch' = [fetch EXCEPT ![f] = Idle]
  /\ outdated' = IF f \in outdated THEN (outdated \ {f}) \cup {"data"}
                 ELSE outdated \ {"data"}
  /\ UNCHANGED <<page, limit, error, isFormOpen, handler>>

(* fetchPage after its await: setData, setPage; or setError                *)
Resolve(f) ==
  /\ fetch[f] # Idle
  /\ data' = fetch[f] /\ page' = fetch[f].page
  /\ loading' = FALSE
  /\ fetch' = [fetch EXCEPT ![f] = Idle]
  /\ outdated' = IF f \in outdated THEN (outdated \ {f}) \cup {"data"}
                 ELSE outdated \ {"data"}
  /\ UNCHANGED <<limit, error, isFormOpen, handler>>

Reject(f) ==
  /\ fetch[f] # Idle
  /\ error' = TRUE /\ loading' = FALSE
  /\ fetch' = [fetch EXCEPT ![f] = Idle]
  /\ outdated' = outdated \ {f}
  /\ UNCHANGED <<page, limit, data, isFormOpen, handler>>

Next ==
  \/ \E f \in Fetch :
       \/ \E p \in Page : ChangePage(f, p)
       \/ \E n \in Limit : ChangeLimit(f, n)
       \/ \E h \in Handler : Finish(h, f)
       \/ CloseForm(f)
       \/ Resolve(f) \/ Reject(f)
  \/ OpenForm
  \/ \E h \in Handler : Begin(h) \/ FailForm(h)

Spec == Init /\ [][Next]_vars

-----------------------------------------------------------------------------
(* "usePagination": once nothing is under way, and no error hides it, the  *)
(* screen shows the page that it says it shows, in whatever order answers  *)
(* and errors arrived; and rows in the number it says, unless the fetch    *)
(* that brought them belongs to a rendering from before the last setLimit. *)
PageAndDataAgree ==
  Fetching = {} /\ ~ error /\ data # Idle =>
    /\ ~ loading
    /\ data.page = page
    /\ data.limit = limit \/ "data" \in outdated
=============================================================================
