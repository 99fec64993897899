------------------------------- MODULE Crisis -------------------------------
(***************************************************************************)
(* The crisis console: one operator's page (app/build/crisis/page.tsx),    *)
(* the handlers its buttons reach (services/backbone/crisis_console.py)    *)
(* and the same handlers reached from other sessions.                      *)
(*                                                                         *)
(* A handler reads the incident, appends to a copy of its timeline and     *)
(* writes the copy back, under no lock and no version check.  The page     *)
(* asks for the detail of what it clicked or changed and shows whatever    *)
(* detail arrives last.  No code in the repository publishes the           *)
(* "incident-update" events the page listens for, so they never arrive.    *)
(***************************************************************************)
EXTENDS Naturals, Sequences, Functions

CONSTANTS
  Incidents,     \* incidents of the workspace
  HandlerSlots,  \* bound: one for each handler running
  MaxEvents,     \* bound: entries written to one incident before a handler reads
  AskedSlots,    \* bound: one for each detail request in flight
  NoIncident     \* nothing selected

ASSUME CrisisAssumption ==
  /\ MaxEvents \in Nat \ {0}
  /\ NoIncident \notin Incidents

VARIABLES
  incident,      \* the committed row of each incident: status and timeline
  handlers,      \* requests being handled: what they change and what they read
  asked,         \* detail requests in flight: a snapshot once the server has read
  selectedIncident,  \* the detail on screen
  written        \* history: for each entry committed to an incident, in order, how
                 \* many had been committed before its handler read

crisisVars == <<incident, handlers, asked, selectedIncident, written>>

\* A timeline holds the numbers of its entries, in the order of their commits:
\* what tells two of them apart is their text and time.  0 is the creation.
Kinds == {"note", "lockdown", "resolve"}
Statuses == {"active", "contained", "resolved"}
CrisisRows == [status : Statuses, timeline : Seq(Nat)]
Unread == [status |-> "active", timeline |-> <<>>]

\* The status a handler assigns; a timeline entry assigns none.
StatusSet(kind, before) ==
  CASE kind = "lockdown" -> "contained"
    [] kind = "resolve" -> "resolved"
    [] OTHER -> before

CrisisInit ==
  /\ incident = [i \in Incidents |->
                   [status |-> "active", timeline |-> <<0>>]]
  /\ handlers = {} /\ asked = {}
  /\ selectedIncident = [id |-> NoIncident, row |-> Unread]
  /\ written = [i \in Incidents |-> <<>>]

-----------------------------------------------------------------------------
(* The handlers. *)

Begin(kind, i, fromPage) ==
  \E slot \in HandlerSlots :
    /\ \A h \in handlers : h.slot # slot
    /\ handlers' = handlers \cup
         {[slot |-> slot, kind |-> kind, id |-> i, page |-> fromPage,
           read |-> FALSE, row |-> Unread, saw |-> 0]}

Read(h) ==
  /\ h \in handlers /\ ~h.read
  /\ Len(written[h.id]) < MaxEvents
  /\ handlers' = (handlers \ {h}) \cup
                 {[h EXCEPT !.read = TRUE, !.row = incident[h.id],
                            !.saw = Len(written[h.id])]}
  /\ UNCHANGED <<incident, asked, selectedIncident, written>>

\* loadDetail(id): the request leaves the page.
LoadDetail(i) ==
  \E slot \in AskedSlots :
    /\ \A a \in asked : a.slot # slot
    /\ asked' = asked \cup {[slot |-> slot, id |-> i, read |-> FALSE, row |-> Unread]}

\* The number of an entry committed to i now, and the note of what it saw.
NextEntry(i) == Len(written[i]) + 1
Record(h) == written' = [written EXCEPT ![h.id] = Append(@, h.saw)]

\* Mutant: the list is appended to in place, which the ORM does not notice.
Commit_InPlace(h) ==
  LET status == StatusSet(h.kind, h.row.status) IN
  /\ h \in handlers /\ h.read
  /\ incident' = [incident EXCEPT ![h.id].status =
                    IF status = h.row.status THEN @ ELSE status]
  /\ Record(h)
  /\ handlers' = handlers \ {h}
  /\ IF h.page THEN LoadDetail(h.id) ELSE UNCHANGED asked
  /\ UNCHANGED selectedIncident

\* The ORM writes the columns whose value differs from the one it loaded: the
\* timeline always, the status only when the handler changed it.  The page
\* that posted then asks for the detail of the incident it posted to.
Commit(h) ==
  LET status == StatusSet(h.kind, h.row.status) IN
  /\ h \in handlers /\ h.read
  /\ incident' = [incident EXCEPT ![h.id] =
       [status |-> IF status = h.row.status THEN @.status ELSE status,
        timeline |-> Append(h.row.timeline, NextEntry(h.id))]]
  /\ Record(h)
  /\ handlers' = handlers \ {h}
  /\ IF h.page THEN LoadDetail(h.id) ELSE UNCHANGED asked
  /\ UNCHANGED selectedIncident

\* A handler that fails before its commit changes nothing, and its page
\* neither reloads nor clears the form.
Fail(h) ==
  /\ h \in handlers
  /\ handlers' = handlers \ {h}
  /\ UNCHANGED <<incident, asked, selectedIncident, written>>

-----------------------------------------------------------------------------
(* The page. *)

Click(i) ==
  /\ LoadDetail(i)
  /\ UNCHANGED <<incident, handlers, selectedIncident, written>>

\* The forms offered are those the row on screen allows.  Nothing disables
\* them while a post is in flight.
Offered == CASE selectedIncident.row.status = "active" -> Kinds
             [] selectedIncident.row.status = "contained" -> {"note", "resolve"}
             [] OTHER -> {}

Post(kind) ==
  /\ selectedIncident.id # NoIncident /\ kind \in Offered
  /\ Begin(kind, selectedIncident.id, TRUE)
  /\ UNCHANGED <<incident, asked, selectedIncident, written>>

\* Another session, whose screen may be older still.
PostElsewhere(kind, i) ==
  /\ Begin(kind, i, FALSE)
  /\ UNCHANGED <<incident, asked, selectedIncident, written>>

Serve(a) ==
  /\ a \in asked /\ ~a.read
  /\ asked' = (asked \ {a}) \cup {[a EXCEPT !.read = TRUE, !.row = incident[a.id]]}
  /\ UNCHANGED <<incident, handlers, selectedIncident, written>>

\* The detail that arrives is the one shown, whatever was clicked since; an
\* error is logged and the screen kept.
Arrive(a) ==
  /\ a \in asked
  /\ asked' = asked \ {a}
  /\ selectedIncident' = IF a.read THEN [id |-> a.id, row |-> a.row] ELSE selectedIncident
  /\ UNCHANGED <<incident, handlers, written>>

CrisisNext ==
  \/ \E h \in handlers : Read(h) \/ Commit(h) \/ Fail(h)
  \/ \E i \in Incidents : Click(i) \/ \E kind \in Kinds : PostElsewhere(kind, i)
  \/ \E kind \in Kinds : Post(kind)
  \/ \E a \in asked : Serve(a) \/ Arrive(a)

CrisisSpec == CrisisInit /\ [][CrisisNext]_crisisVars

-----------------------------------------------------------------------------
CrisisTypeOK ==
  /\ incident \in [Incidents -> CrisisRows]
  /\ handlers \subseteq [slot : HandlerSlots, kind : Kinds, id : Incidents,
                         page : BOOLEAN, read : BOOLEAN, row : CrisisRows, saw : Nat]
  /\ asked \subseteq [slot : AskedSlots, id : Incidents, read : BOOLEAN, row : CrisisRows]
  /\ selectedIncident \in [id : Incidents \cup {NoIncident}, row : CrisisRows]
  /\ written \in [Incidents -> Seq(Nat)]

\* What may become of k entries: the timeline holds them in the order of their
\* commits, each once, and one that is missing was committed between the read
\* and the commit of a later one.
Accounts(timeline, i, k) ==
  /\ \A a, b \in DOMAIN timeline : a < b => timeline[a] < timeline[b]
  /\ Range(timeline) \subseteq 0..k
  /\ \A n \in 0..k \ Range(timeline) : \E m \in n + 1..k : written[i][m] < n

\* However many sessions write to an incident at once, its timeline loses an
\* acknowledged entry to an overlap and to nothing else: only a handler that
\* had read before that entry was committed, and committed after it, may drop
\* it.  Entries are never doubled nor out of order, and one writer at a time
\* loses none.
TimelineKeepsAcknowledged ==
  \A i \in Incidents : Accounts(incident[i].timeline, i, Len(written[i]))

\* The detail on screen may be old, but is one the incident could have had: it
\* accounts in the same way for the entries committed when it was read.
ScreenIsAPastState ==
  selectedIncident.id # NoIncident =>
    \E k \in 0..Len(written[selectedIncident.id]) :
      Accounts(selectedIncident.row.timeline, selectedIncident.id, k)

\* A resolution is undone only by a lockdown: no note, and no handler that
\* read the incident as contained already, brings back a resolved incident.
OnlyLockdownReopens ==
  [][\A i \in Incidents :
       incident[i].status = "resolved" /\ incident'[i].status # "resolved" =>
         /\ incident'[i].status = "contained"
         /\ \E h \in handlers : /\ h.id = i /\ h.kind = "lockdown"
                                /\ h.row.status # "contained"]_crisisVars
=============================================================================
