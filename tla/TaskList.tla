------------------------------ MODULE TaskList ------------------------------
(***************************************************************************)
(* The task centre page (app.js: renderTasksPage, loadTasks, navigate).    *)
(* tasksState survives navigation; the elements of the page do not.  A     *)
(* request remembers the table element it found and the query it was sent  *)
(* with, and its answer is written there whatever happened in between.     *)
(* The two filters are handled alike: a filter stands for both.            *)
(***************************************************************************)
EXTENDS Pager

CONSTANTS
  Filter,    \* values of the filters
  All,       \* the value shown first
  Total,     \* number of tasks that match a filter
  Size,      \* tasksState.size
  Patient,   \* the user waits for the table before using its controls
  Slot,      \* bound: requests in flight
  MaxViews   \* bound: times the page is rendered

FilterAssumption == All \in Filter /\ Total \in [Filter -> Nat]
SizeAssumption == Size \in Nat \ {0} /\ MaxViews \in Nat \ {0}
                         /\ Patient \in BOOLEAN

VARIABLES
  page, status,  \* tasksState
  view,          \* number of the rendered page, 0 while elsewhere
  views,         \* pages rendered so far
  select,        \* what the filter element shows
  table,         \* content of the table: loading, an error or an answer
  pages,         \* page count the pager's buttons were built with, 0: no pager
  flight         \* requests in flight

vars == <<page, status, view, views, select, table, pages, flight>>

Current == [page |-> page, status |-> status]
Loading == [page |-> 0, status |-> All]
Failed  == [page |-> -1, status |-> All]
Idle == [view |-> 0, query |-> Loading]

Pending(v) == {f \in Slot : flight[f].view = v /\ v # 0}

\* The controls of the page are used.
CanUse == view # 0 /\ (Patient => Pending(view) = {})

\* The request of loadTasks.
Send(f, v, q) ==
  /\ flight[f] = Idle
  /\ flight' = [flight EXCEPT ![f] = [view |-> v, query |-> q]]

\* loadTasks up to its await: skeletons, no pager, a request with tasksState.
LoadTasks(f, v, q) ==
  /\ table' = Loading /\ pages' = 0
  /\ Send(f, v, q)

\* renderTasksPage: new elements, the filter elements show their first option.
RenderTasksPage(f) ==
  /\ views < MaxViews
  /\ views' = views + 1 /\ view' = views + 1
  /\ select' = All
  /\ LoadTasks(f, views + 1, Current)
  /\ UNCHANGED <<page, status>>

\* navigate to another page.
Leave ==
  /\ view # 0
  /\ view' = 0
  /\ UNCHANGED <<page, status, views, select, table, pages, flight>>

\* Mutant: the page number is kept.
ChangeFilterKeepsPage(f, s) ==
  /\ CanUse /\ s # select
  /\ select' = s /\ status' = s
  /\ LoadTasks(f, view, [page |-> page, status |-> s])
  /\ UNCHANGED <<page, view, views>>

\* onchange of a filter: back to the first page.
ChangeFilter(f, s) ==
  /\ CanUse /\ s # select
  /\ select' = s /\ status' = s /\ page' = 1
  /\ LoadTasks(f, view, [page |-> 1, status |-> s])
  /\ UNCHANGED <<view, views>>

Refresh(f) ==
  /\ CanUse
  /\ LoadTasks(f, view, Current)
  /\ UNCHANGED <<page, status, view, views, select>>

\* The pager's buttons: `pages` is the one of the answer they were built for.
Turn(f, by) ==
  /\ CanUse /\ pages # 0
  /\ \/ by = -1 /\ page > 1
     \/ by = 1 /\ page < pages
  /\ page' = page + by
  /\ LoadTasks(f, view, [page |-> page + by, status |-> status])
  /\ UNCHANGED <<status, view, views, select>>

\* An answer: the rows go into the table the request found; one that is no
\* longer in the document changes nothing that can be seen.
Answered(f) ==
  LET r == flight[f] IN
  /\ r # Idle
  /\ flight' = [flight EXCEPT ![f] = Idle]
  /\ IF r.view = view
       THEN table' = r.query /\ pages' = Pages(Total[r.query.status], Size)
       ELSE UNCHANGED <<table, pages>>
  /\ UNCHANGED <<page, status, view, views, select>>

\* A failure is shown in the table; the pager stays as it is.
RequestFails(f) ==
  LET r == flight[f] IN
  /\ r # Idle
  /\ flight' = [flight EXCEPT ![f] = Idle]
  /\ table' = IF r.view = view THEN Failed ELSE table
  /\ UNCHANGED <<page, status, view, views, select, pages>>

Init ==
  /\ page = 1 /\ status = All
  /\ view = 0 /\ views = 0 /\ select = All
  /\ table = Loading /\ pages = 0
  /\ flight = [f \in Slot |-> Idle]

Arrival(f) == Answered(f) \/ RequestFails(f)

Next ==
  \/ \E f \in Slot : \/ RenderTasksPage(f) \/ Refresh(f)
                     \/ \E s \in Filter : ChangeFilter(f, s)
                     \/ \E by \in {-1, 1} : Turn(f, by)
                     \/ Arrival(f)
  \/ Leave

Spec == Init /\ [][Next]_vars

\* Every request is answered or fails.
FairSpec == Spec /\ \A f \in Slot : WF_vars(Arrival(f))

-----------------------------------------------------------------------------
(* Properties *)

\* A user who waits for each answer sees the tasks of the page and the filter
\* in tasksState: leaving while a request is under way, coming back, failures
\* and page turns never leave the rows of another query.
TableCurrent ==
  view # 0 /\ Pending(view) = {} => table \in {Current, Failed}

\* The page asked for exists under the filter in force, for a user who waits
\* for each answer: changing a filter cannot leave a page behind the end.
PageExists == page \in 1 .. Pages(Total[status], Size)

\* The skeleton rows go away.
LoadingEnds == view # 0 /\ table = Loading ~> view = 0 \/ table # Loading
=============================================================================
