------------------------------ MODULE Discover ------------------------------
(***************************************************************************)
(* The problem discovery page (app/discover/page.tsx) over the list it     *)
(* pages through (api/discover/problems/route.ts).                         *)
(*                                                                         *)
(* Every change of page or page size starts a request and none is ever     *)
(* cancelled, so replies arrive in any order and the last one wins.  A     *)
(* scan runs for seconds, cannot be stopped once started, and when it ends *)
(* refetches the page the operator was on when it began.                   *)
(***************************************************************************)
EXTENDS Integers

CONSTANTS
  Total,         \* problems the list holds
  Limits,        \* page sizes offered by the selector
  FirstLimit,    \* the page size the page opens with
  RequestSlots,  \* bound: one for each list request in flight
  ScanSlots,     \* bound: one for each scan running
  Filters,       \* the problems each choice of filters and search lets through
  MaxDrift       \* bound: pages asked for beyond either end of the list

ASSUME DiscoverAssumption ==
  /\ Total \in Nat \ {0}
  /\ Limits \subseteq Nat \ {0}
  /\ FirstLimit \in Limits
  /\ Filters \subseteq SUBSET (1..Total) /\ 1..Total \in Filters
  /\ MaxDrift \in Nat

VARIABLES
  page, limit,   \* what the operator asked for
  filter,        \* what the filters and the search let through
  shown,         \* the page and limit of the reply on screen, NoReply before one
  requests,      \* list requests in flight
  loading,       \* the spinner replaces the cards
  scans,         \* runs of runAIScan that have not ended
  scanState,     \* "idle", "scanning" or "complete"
  showScanModal, \* the scan's modal covers the page
  scanResults,   \* whether the modal has numbers to show
  newest,        \* history: the slot of the list request sent last
  behind         \* history: that request was lost, overtaken by an older one, or
                 \* for another page than the operator's

discoverVars == <<page, limit, filter, shown, requests, loading, scans, scanState,
                  showScanModal, scanResults, newest, behind>>
listVars == <<page, limit, filter, shown, requests, loading, newest, behind>>
scanVars == <<scans, scanState, showScanModal, scanResults>>

NoReply == [page |-> 0, limit |-> 0]
Views == [page : Int, limit : Limits]
Requests == [slot : RequestSlots, page : Int, limit : Limits]
Scans == [slot : ScanSlots, page : Int, limit : Limits]

-----------------------------------------------------------------------------
(* The list endpoint. *)

\* Array.prototype.slice(begin, end) over the list: a negative index counts
\* from the end, and the result holds what lies from begin to before end.
Position(i) == IF i < 0 THEN (IF Total + i > 0 THEN Total + i ELSE 0) ELSE i
Slice(begin, end) == {i \in 1..Total : Position(begin) < i /\ i <= Position(end)}

Rows(view) == Slice((view.page - 1) * view.limit,
                    (view.page - 1) * view.limit + view.limit)
TotalPages(l) == (Total + l - 1) \div l
HasNext(view) == view # NoReply /\ view.page < TotalPages(view.limit)
HasPrev(view) == view # NoReply /\ view.page > 1

-----------------------------------------------------------------------------
(* The page. *)

DiscoverInit ==
  /\ page = 1 /\ limit = FirstLimit /\ filter = 1..Total
  /\ shown = NoReply
  /\ newest \in RequestSlots /\ behind = FALSE
  /\ requests = {[slot |-> newest, page |-> 1, limit |-> FirstLimit]}
  /\ loading = TRUE
  /\ scans = {} /\ scanState = "idle" /\ showScanModal = FALSE
  /\ scanResults = FALSE

\* fetchProblems, called for the page p and limit l its closure holds.
FetchProblems(p, l) ==
  \E slot \in RequestSlots :
    /\ \A r \in requests : r.slot # slot
    /\ requests' = requests \cup {[slot |-> slot, page |-> p, limit |-> l]}
    /\ loading' = TRUE
    /\ newest' = slot /\ behind' = (p # page' \/ l # limit')

\* Mutant: the effect depends on the page alone.
Ask_PageOnly(p, l) ==
  /\ ~showScanModal
  /\ p \in 1 - MaxDrift .. TotalPages(l) + MaxDrift
  /\ page' = p /\ limit' = l
  /\ IF p = page
       THEN UNCHANGED <<requests, loading, newest, behind>>
       ELSE FetchProblems(p, l)
  /\ UNCHANGED <<shown, scanVars>>

\* A new page or limit is a new fetchProblems, and the effect runs it.  The
\* same values change nothing and fetch nothing.  The modal covers it all.
Ask(p, l) ==
  /\ ~showScanModal
  /\ p \in 1 - MaxDrift .. TotalPages(l) + MaxDrift
  /\ page' = p /\ limit' = l
  /\ IF p = page /\ l = limit
       THEN UNCHANGED <<requests, loading, newest, behind>>
       ELSE FetchProblems(p, l)
  /\ UNCHANGED <<shown, scanVars>>

\* Previous, Next and Load more move from the page asked for, but are enabled
\* by the reply on screen.
NextPage == HasNext(shown) /\ Ask(page + 1, limit) /\ UNCHANGED filter
PreviousPage == HasPrev(shown) /\ Ask(page - 1, limit) /\ UNCHANGED filter
GoToPage(p) == /\ shown # NoReply /\ p \in 1..TotalPages(shown.limit)
               /\ \/ p = 1 \/ p = TotalPages(shown.limit)
                  \/ p \in page - 1 .. page + 1
               /\ Ask(p, limit) /\ UNCHANGED filter

\* Any filter, sort or search term resets the page.  The server is not told of
\* it: the page filters the rows of the reply itself.
ChangeFilter(f) == Ask(1, limit) /\ filter' = f

\* The selector is drawn only when there is more than one page.
ChangeLimit(l) == /\ shown # NoReply /\ TotalPages(shown.limit) > 1
                  /\ Ask(1, l) /\ UNCHANGED filter

\* The cards drawn: the rows of the reply on screen that pass the filters.
Cards == Rows(shown) \cap filter

\* The request sent last has not come back.
NewestDue == \E r \in requests : r.slot = newest

Answered(r) ==
  /\ r \in requests
  /\ shown' = [page |-> r.page, limit |-> r.limit]
  /\ requests' = requests \ {r}
  /\ loading' = FALSE
  /\ behind' = (behind \/ ~NewestDue)
  /\ UNCHANGED <<page, limit, filter, newest, scanVars>>

\* The catch keeps the rows of whatever page was on screen.
Lost(r) ==
  /\ r \in requests
  /\ requests' = requests \ {r}
  /\ loading' = FALSE
  /\ behind' = (behind \/ r.slot = newest)
  /\ UNCHANGED <<page, limit, filter, shown, newest, scanVars>>

RunScan ==
  /\ scanState # "scanning" /\ ~showScanModal
  /\ \E slot \in ScanSlots :
       /\ \A s \in scans : s.slot # slot
       /\ scans' = scans \cup {[slot |-> slot, page |-> page, limit |-> limit]}
  /\ scanState' = "scanning" /\ showScanModal' = TRUE /\ scanResults' = FALSE
  /\ UNCHANGED listVars

\* Eight steps of 600 ms, which nothing interrupts, and then the request, for
\* which numbers of its own stand in when it fails.
ScanEnds(s) ==
  /\ s \in scans
  /\ scans' = scans \ {s}
  /\ scanState' = "complete" /\ scanResults' = TRUE
  /\ UNCHANGED <<page, limit, filter, shown, showScanModal>>
  /\ FetchProblems(s.page, s.limit)

\* Cancel and "View updated opportunities" do the same: the modal goes, the
\* state is idle, the scan is not told.
CloseScan ==
  /\ showScanModal /\ showScanModal' = FALSE
  /\ scanState' = "idle"
  /\ UNCHANGED <<listVars, scans, scanResults>>

DiscoverNext ==
  \/ NextPage \/ PreviousPage
  \/ \E f \in Filters : ChangeFilter(f)
  \/ \E p \in 1..Total : GoToPage(p)
  \/ \E l \in Limits : ChangeLimit(l)
  \/ \E r \in requests : Answered(r) \/ Lost(r)
  \/ RunScan \/ CloseScan
  \/ \E s \in scans : ScanEnds(s)

DiscoverSpec == DiscoverInit /\ [][DiscoverNext]_discoverVars

-----------------------------------------------------------------------------
DiscoverTypeOK ==
  /\ page \in Int /\ limit \in Limits /\ filter \in Filters
  /\ shown \in Views \cup {NoReply}
  /\ requests \subseteq Requests
  /\ loading \in BOOLEAN
  /\ scans \subseteq Scans
  /\ scanState \in {"idle", "scanning", "complete"}
  /\ showScanModal \in BOOLEAN /\ scanResults \in BOOLEAN
  /\ newest \in RequestSlots /\ behind \in BOOLEAN

\* Requests overlap, replies come in any order and older ones get lost.  If the
\* request sent last was for the operator's page and was the last to answer,
\* then once nothing is in flight the cards on screen are those of the problems
\* from a to b, of the label "Showing a-b", that pass the filters.  So it is at
\* every page and size: also past the last page, where hurried clicks lead and
\* no card is drawn, though not before the first, where slice() wraps around.
ShowingStart == (page - 1) * limit + 1
ShowingEnd == IF page * limit < Total THEN page * limit ELSE Total
LabelCountsRows ==
  requests = {} /\ ~behind /\ page >= 1
    => Cards = filter \cap (ShowingStart..ShowingEnd)

\* The modal never announces a scan as complete without its numbers, however
\* many scans overlap: each sets the two together, and starting one clears
\* both.
CompleteHasResults == scanState = "complete" => scanResults
=============================================================================
