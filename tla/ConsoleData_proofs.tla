-------------------------- MODULE ConsoleData_proofs --------------------------
(***************************************************************************)
(* Proofs about the pages of the console that show what servers answer:    *)
(* the crisis console, for any incidents and any number of handlers and    *)
(* detail requests, the discovery page over a list of any length, the      *)
(* fulfilment page's checklist, the playbook library and its audits, and   *)
(* the composer of combined offers, for any catalogue.                     *)
(***************************************************************************)
EXTENDS Crisis, Discover, Deliver, Playbooks, Composer, FiniteSetTheorems,
        SequenceTheorems, TLAPS

-----------------------------------------------------------------------------
(* The crisis console *)

Handlers == [slot : HandlerSlots, kind : Kinds, id : Incidents, page : BOOLEAN,
             read : BOOLEAN, row : CrisisRows, saw : Nat]
Details == [slot : AskedSlots, id : Incidents, read : BOOLEAN, row : CrisisRows]

\* Accounts, of any timeline and any record of what the commits had seen.
AccountsFor(timeline, seen, k) ==
  /\ \A a, b \in DOMAIN timeline : a < b => timeline[a] < timeline[b]
  /\ Range(timeline) \subseteq 0..k
  /\ \A n \in 0..k \ Range(timeline) : \E m \in n + 1..k : seen[m] < n

\* The copy a handler holds accounts for the entries committed when it read.
ReadInv ==
  \A h \in handlers : h.read =>
    /\ h.saw \in 0..Len(written[h.id])
    /\ AccountsFor(h.row.timeline, written[h.id], h.saw)

\* So does every detail the server has read, on its way or on screen.
PastInv ==
  /\ \A a \in asked : a.read =>
       \E k \in 0..Len(written[a.id]) : AccountsFor(a.row.timeline, written[a.id], k)
  /\ ScreenIsAPastState

CrisisInv == CrisisTypeOK /\ ReadInv /\ TimelineKeepsAcknowledged /\ PastInv

\* A commit takes nothing from what a timeline accounted for before it.
LEMMA AccountsLast ==
  ASSUME NEW t, NEW s \in Seq(Nat), NEW x \in Nat, NEW k \in 0..Len(s),
         AccountsFor(t, s, k)
  PROVE  k \in 0..Len(Append(s, x)) /\ AccountsFor(t, Append(s, x), k)
<1>1. Len(s) \in Nat /\ Len(Append(s, x)) = Len(s) + 1  OBVIOUS
<1>2. \A m \in 1..k : Append(s, x)[m] = s[m]  BY <1>1
<1>3. ASSUME NEW n \in 0..k \ Range(t) PROVE \E m \in n + 1..k : Append(s, x)[m] < n
  <2>1. PICK m \in n + 1..k : s[m] < n  BY DEF AccountsFor
  <2>2. m \in 1..k  BY <1>1
  <2>3. Append(s, x)[m] < n  BY <1>2, <2>1, <2>2
  <2> QED BY <2>3
<1> QED BY <1>1, <1>3 DEF AccountsFor

\* The timeline a handler writes back accounts for its own entry too: what it
\* drops was committed after it had read, and it commits after that.
LEMMA CommitAccounts ==
  ASSUME NEW t \in Seq(Nat), NEW s \in Seq(Nat), NEW k \in 0..Len(s),
         AccountsFor(t, s, k)
  PROVE  AccountsFor(Append(t, Len(s) + 1), Append(s, k), Len(s) + 1)
<1> DEFINE e == Len(s) + 1
           u == Append(t, e)
           r == Append(s, k)
<1>1. Len(s) \in Nat /\ Len(t) \in Nat /\ e \in Nat /\ k \in Nat /\ k < e  OBVIOUS
<1>2. /\ DOMAIN t = 1..Len(t) /\ DOMAIN u = 1..(Len(t) + 1)
      /\ \A a \in 1..Len(t) : u[a] = t[a]
      /\ u[Len(t) + 1] = e
  BY <1>1
<1>3. r[e] = k /\ \A m \in 1..k : r[m] = s[m]  BY <1>1
<1>4. \A a \in DOMAIN t : t[a] \in 0..k  BY DEF AccountsFor, Range
<1>5. \A n \in Range(t) : n \in 0..k  BY DEF AccountsFor
<1> HIDE DEF e, u, r
<1>6. Range(t) \subseteq Range(u) /\ e \in Range(u) /\ Range(u) \subseteq Range(t) \cup {e}
  <2>1. Len(t) + 1 \in DOMAIN u /\ \A a \in DOMAIN t : a \in DOMAIN u  BY <1>1, <1>2
  <2>2. \A a \in DOMAIN u : a \in DOMAIN t \/ a = Len(t) + 1  BY <1>1, <1>2
  <2>3. \A a \in DOMAIN t : u[a] = t[a]  BY <1>2
  <2> QED BY <1>2, <2>1, <2>2, <2>3 DEF Range
<1>7. ASSUME NEW a \in DOMAIN u, NEW b \in DOMAIN u, a < b PROVE u[a] < u[b]
  <2>1. a \in 1..Len(t)  BY <1>1, <1>2, <1>7
  <2>2. CASE b \in 1..Len(t)
    <3>1. t[a] < t[b]  BY <1>2, <1>7, <2>1, <2>2 DEF AccountsFor
    <3> QED BY <1>2, <2>1, <2>2, <3>1
  <2>3. CASE b = Len(t) + 1
    <3>1. t[a] \in 0..k  BY <1>2, <1>4, <2>1
    <3>2. u[a] = t[a] /\ u[b] = e  BY <1>2, <2>1, <2>3
    <3> QED BY <1>1, <3>1, <3>2
  <2> QED BY <1>1, <1>2, <2>2, <2>3
<1>8. Range(u) \subseteq 0..e
  <2>1. ASSUME NEW n \in Range(u) PROVE n \in 0..e
    <3>1. n \in Range(t) \/ n = e  BY <1>6
    <3> QED BY <1>1, <1>5, <3>1
  <2> QED BY <2>1
<1>9. ASSUME NEW n \in 0..e \ Range(u) PROVE \E m \in n + 1..e : r[m] < n
  <2>1. n \in Nat /\ n < e /\ n \notin Range(t)  BY <1>1, <1>6
  <2>2. CASE n <= k
    <3>1. n \in 0..k \ Range(t)  BY <1>1, <2>1, <2>2
    <3>2. PICK m \in n + 1..k : s[m] < n  BY <3>1 DEF AccountsFor
    <3>3. m \in 1..k /\ m \in n + 1..e  BY <1>1, <2>1
    <3>4. r[m] < n  BY <1>3, <3>2, <3>3
    <3> QED BY <3>3, <3>4
  <2>3. CASE k < n
    <3>1. e \in n + 1..e  BY <1>1, <2>1
    <3>2. r[e] < n  BY <1>3, <2>3
    <3> QED BY <3>1, <3>2
  <2> QED BY <1>1, <2>1, <2>2, <2>3
<1> QED BY <1>7, <1>8, <1>9 DEF AccountsFor, e, u, r

LEMMA EmptyRow == Unread \in CrisisRows
<1>1. <<>> \in Seq(Nat)  OBVIOUS
<1> QED BY <1>1 DEF Unread, CrisisRows, Statuses

\* A request for a detail has the type of one.
LEMMA LoadDetailType ==
  ASSUME CrisisTypeOK, NEW i \in Incidents, LoadDetail(i)
  PROVE  /\ asked' \subseteq Details
         /\ \A a \in asked' : a.read => a \in asked
<1>1. PICK slot \in AskedSlots :
        asked' = asked \cup {[slot |-> slot, id |-> i, read |-> FALSE, row |-> Unread]}
  BY DEF LoadDetail
<1>2. [slot |-> slot, id |-> i, read |-> FALSE, row |-> Unread] \in Details
  BY EmptyRow DEF Details
<1>3. asked \subseteq Details  BY DEF CrisisTypeOK, Details
<1>4. asked' \subseteq Details  BY <1>1, <1>2, <1>3, Zenon
<1>5. \A a \in asked' : a.read => a \in asked  BY <1>1
<1> QED BY <1>4, <1>5

\* A handler that begins has the type of one, and has read nothing.
LEMMA BeginType ==
  ASSUME CrisisTypeOK, NEW i \in Incidents, NEW kind \in Kinds, NEW p \in BOOLEAN,
         Begin(kind, i, p)
  PROVE  /\ handlers' \subseteq Handlers
         /\ \A h \in handlers' : h.read => h \in handlers
<1>1. PICK slot \in HandlerSlots :
        handlers' = handlers \cup
          {[slot |-> slot, kind |-> kind, id |-> i, page |-> p,
            read |-> FALSE, row |-> Unread, saw |-> 0]}
  BY DEF Begin
<1>2. [slot |-> slot, kind |-> kind, id |-> i, page |-> p,
       read |-> FALSE, row |-> Unread, saw |-> 0] \in Handlers
  BY EmptyRow DEF Handlers
<1>3. handlers \subseteq Handlers  BY DEF CrisisTypeOK, Handlers
<1>4. handlers' \subseteq Handlers  BY <1>1, <1>2, <1>3, Zenon
<1>5. \A h \in handlers' : h.read => h \in handlers  BY <1>1
<1> QED BY <1>4, <1>5

\* What a commit puts on record.
LEMMA CommitRow ==
  ASSUME CrisisTypeOK, NEW h \in handlers, Commit(h)
  PROVE  /\ h \in Handlers /\ h.id \in Incidents /\ h.kind \in Kinds
         /\ h.row.timeline \in Seq(Nat)
         /\ incident' \in [Incidents -> CrisisRows]
         /\ incident'[h.id].timeline = Append(h.row.timeline, Len(written[h.id]) + 1)
         /\ incident'[h.id].status =
              IF StatusSet(h.kind, h.row.status) = h.row.status
                THEN incident[h.id].status ELSE StatusSet(h.kind, h.row.status)
         /\ \A i \in Incidents \ {h.id} : incident'[i] = incident[i]
<1> DEFINE status == StatusSet(h.kind, h.row.status)
           entry == Len(written[h.id]) + 1
           row == [status |-> IF status = h.row.status THEN incident[h.id].status ELSE status,
                   timeline |-> Append(h.row.timeline, entry)]
<1>1. h \in Handlers /\ incident \in [Incidents -> CrisisRows]  BY DEF CrisisTypeOK, Handlers
<1>2. h.id \in Incidents /\ h.kind \in Kinds /\ h.row \in CrisisRows  BY <1>1 DEF Handlers
<1>3. h.row.timeline \in Seq(Nat) /\ h.row.status \in Statuses
  BY <1>2 DEF CrisisRows
<1>4. incident[h.id].status \in Statuses  BY <1>1, <1>2 DEF CrisisRows
<1>5. status \in Statuses  BY <1>2, <1>3 DEF StatusSet, Kinds, Statuses
<1>6. entry \in Nat
  <2>1. written[h.id] \in Seq(Nat)  BY <1>2 DEF CrisisTypeOK
  <2> QED BY <2>1
<1>7. Append(h.row.timeline, entry) \in Seq(Nat)  BY <1>3, <1>6
<1>8. row \in CrisisRows  BY <1>4, <1>5, <1>7 DEF CrisisRows
<1>9. incident' = [incident EXCEPT ![h.id] = row]  BY DEF Commit, NextEntry
<1> QED BY <1>1, <1>2, <1>3, <1>8, <1>9

\* The note a commit leaves of what its handler saw.
LEMMA CommitRecord ==
  ASSUME CrisisTypeOK, NEW h \in handlers, Commit(h)
  PROVE  /\ written' \in [Incidents -> Seq(Nat)]
         /\ written'[h.id] = Append(written[h.id], h.saw)
         /\ \A i \in Incidents \ {h.id} : written'[i] = written[i]
         /\ h.saw \in Nat
<1>1. h.id \in Incidents /\ h.saw \in Nat  BY DEF CrisisTypeOK
<1>2. written \in [Incidents -> Seq(Nat)]  BY DEF CrisisTypeOK
<1>3. written[h.id] \in Seq(Nat)  BY <1>1, <1>2
<1>4. Append(written[h.id], h.saw) \in Seq(Nat)  BY <1>1, <1>3
<1>5. written' = [written EXCEPT ![h.id] = Append(@, h.saw)]  BY DEF Commit, Record
<1> QED BY <1>1, <1>2, <1>4, <1>5

(***************************************************************************)
(* Every step keeps the types.                                             *)
(***************************************************************************)
LEMMA CrisisTypeStep == CrisisTypeOK /\ [CrisisNext]_crisisVars => CrisisTypeOK'
<1> SUFFICES ASSUME CrisisTypeOK, [CrisisNext]_crisisVars PROVE CrisisTypeOK'
  OBVIOUS
<1>0. /\ handlers \subseteq Handlers /\ asked \subseteq Details
      /\ incident \in [Incidents -> CrisisRows]
      /\ selectedIncident \in [id : Incidents \cup {NoIncident}, row : CrisisRows]
      /\ written \in [Incidents -> Seq(Nat)]
  BY DEF CrisisTypeOK, Handlers, Details
<1> DEFINE G == /\ handlers' \subseteq Handlers /\ asked' \subseteq Details
                /\ incident' \in [Incidents -> CrisisRows]
                /\ selectedIncident' \in [id : Incidents \cup {NoIncident}, row : CrisisRows]
                /\ written' \in [Incidents -> Seq(Nat)]
<1>1. ASSUME NEW h \in handlers, Read(h) PROVE G
  <2>1. h \in Handlers /\ h.id \in Incidents /\ incident[h.id] \in CrisisRows
    BY <1>0 DEF Handlers
  <2>2. Len(written[h.id]) \in Nat
    <3>1. written[h.id] \in Seq(Nat)  BY <1>0, <2>1
    <3> QED BY <3>1
  <2>3. [h EXCEPT !.read = TRUE, !.row = incident[h.id], !.saw = Len(written[h.id])]
          \in Handlers
    BY <2>1, <2>2 DEF Handlers
  <2>4. handlers' \subseteq Handlers  BY <1>0, <1>1, <2>3 DEF Read
  <2> QED BY <1>0, <1>1, <2>4 DEF Read
<1>2. ASSUME NEW h \in handlers, Commit(h) PROVE G
  <2>1. h.id \in Incidents /\ incident' \in [Incidents -> CrisisRows]
    BY <1>2, CommitRow
  <2>2. asked' \subseteq Details  BY <1>0, <1>2, <2>1, LoadDetailType DEF Commit
  <2>3. written' \in [Incidents -> Seq(Nat)]  BY <1>2, CommitRecord
  <2>4. handlers' \subseteq Handlers  BY <1>0, <1>2 DEF Commit
  <2> QED BY <1>0, <1>2, <2>1, <2>2, <2>3, <2>4 DEF Commit
<1>3. ASSUME NEW h \in handlers, Fail(h) PROVE G
  BY <1>0, <1>3 DEF Fail
<1>4. ASSUME NEW i \in Incidents, Click(i) PROVE G
  BY <1>0, <1>4, LoadDetailType DEF Click
<1>5. ASSUME NEW i \in Incidents, NEW kind \in Kinds, PostElsewhere(kind, i) PROVE G
  BY <1>0, <1>5, BeginType DEF PostElsewhere
<1>6. ASSUME NEW kind \in Kinds, Post(kind) PROVE G
  <2>1. selectedIncident.id \in Incidents  BY <1>0, <1>6 DEF Post
  <2> QED BY <1>0, <1>6, <2>1, BeginType DEF Post
<1>7. ASSUME NEW a \in asked, Serve(a) PROVE G
  <2>1. a \in Details /\ incident[a.id] \in CrisisRows  BY <1>0 DEF Details
  <2>2. [a EXCEPT !.read = TRUE, !.row = incident[a.id]] \in Details  BY <2>1 DEF Details
  <2> QED BY <1>0, <1>7, <2>2 DEF Serve
<1>8. ASSUME NEW a \in asked, Arrive(a) PROVE G
  <2>1. a.id \in Incidents /\ a.row \in CrisisRows  BY <1>0 DEF Details
  <2> QED BY <1>0, <1>8, <2>1 DEF Arrive
<1>9. ASSUME UNCHANGED crisisVars PROVE G
  <2>1. UNCHANGED <<incident, handlers, asked, selectedIncident, written>>
    BY <1>9 DEF crisisVars
  <2> QED BY <1>0, <2>1
<1> HIDE DEF G
<1>10. G
  BY <1>1, <1>2, <1>3, <1>4, <1>5, <1>6, <1>7, <1>8, <1>9 DEF CrisisNext
<1> QED BY <1>10 DEF G, CrisisTypeOK, Handlers, Details

\* A step that puts nothing on record.
LEMMA QuietSteps ==
  ASSUME CrisisTypeOK, [CrisisNext]_crisisVars
  PROVE  \/ \E h \in handlers : Commit(h)
         \/ \E h \in handlers : Read(h)
         \/ /\ UNCHANGED <<incident, written>>
            /\ \A h \in handlers' : h.read => h \in handlers
<1> DEFINE G == \/ \E h \in handlers : Commit(h)
                \/ \E h \in handlers : Read(h)
                \/ /\ UNCHANGED <<incident, written>>
                   /\ \A h \in handlers' : h.read => h \in handlers
<1>1. ASSUME NEW h \in handlers, Fail(h) PROVE G
  BY <1>1 DEF Fail
<1>2. ASSUME NEW i \in Incidents, NEW kind \in Kinds, PostElsewhere(kind, i)
      PROVE  G
  BY <1>2, BeginType DEF PostElsewhere
<1>3. ASSUME NEW kind \in Kinds, Post(kind) PROVE G
  <2>1. selectedIncident.id \in Incidents  BY <1>3 DEF Post, CrisisTypeOK
  <2> QED BY <1>3, <2>1, BeginType DEF Post
<1>4. ASSUME \/ \E i \in Incidents : Click(i)
             \/ \E a \in asked : Serve(a) \/ Arrive(a)
             \/ UNCHANGED crisisVars
      PROVE  G
  BY <1>4 DEF Click, Serve, Arrive, crisisVars
<1> QED BY <1>1, <1>2, <1>3, <1>4 DEF CrisisNext

\* Whatever a step does, what a timeline accounted for it still does.
LEMMA AccountsStay ==
  ASSUME CrisisTypeOK, [CrisisNext]_crisisVars, NEW i \in Incidents,
         NEW t, NEW k \in 0..Len(written[i]), AccountsFor(t, written[i], k)
  PROVE  k \in 0..Len(written'[i]) /\ AccountsFor(t, written'[i], k)
<1>1. written[i] \in Seq(Nat)  BY DEF CrisisTypeOK
<1>2. CASE written'[i] = written[i]  BY <1>2
<1>3. ASSUME NEW x \in Nat, written'[i] = Append(written[i], x)
      PROVE  k \in 0..Len(written'[i]) /\ AccountsFor(t, written'[i], k)
  BY <1>1, <1>3, AccountsLast
<1>4. written'[i] = written[i] \/ \E x \in Nat : written'[i] = Append(written[i], x)
  <2>1. ASSUME NEW h \in handlers, Commit(h)
        PROVE  written'[i] = written[i] \/ \E x \in Nat : written'[i] = Append(written[i], x)
    BY <2>1, CommitRecord
  <2>2. ASSUME NEW h \in handlers, Read(h) PROVE written' = written
    BY <2>2 DEF Read
  <2> QED BY <2>1, <2>2, QuietSteps
<1> QED BY <1>2, <1>3, <1>4

(***************************************************************************)
(* Every step keeps what was read of an incident, and its record, such     *)
(* that they account for the entries committed.                            *)
(***************************************************************************)
LEMMA RecordStep ==
  CrisisTypeOK /\ ReadInv /\ TimelineKeepsAcknowledged /\ [CrisisNext]_crisisVars
    => ReadInv' /\ TimelineKeepsAcknowledged'
<1> SUFFICES ASSUME CrisisTypeOK, ReadInv, TimelineKeepsAcknowledged,
                    [CrisisNext]_crisisVars
             PROVE  ReadInv' /\ TimelineKeepsAcknowledged'
  OBVIOUS
<1> DEFINE G == ReadInv' /\ TimelineKeepsAcknowledged'
<1>0. /\ handlers \subseteq Handlers
      /\ incident \in [Incidents -> CrisisRows]
      /\ written \in [Incidents -> Seq(Nat)]
  BY DEF CrisisTypeOK, Handlers
<1>1. \A i \in Incidents :
        AccountsFor(incident[i].timeline, written[i], Len(written[i]))
  BY DEF TimelineKeepsAcknowledged, Accounts, AccountsFor
<1>2. \A i \in Incidents : Len(written[i]) \in Nat  BY <1>0
<1>3. ASSUME NEW h \in handlers, h.read
      PROVE  /\ h.id \in Incidents /\ h.saw \in 0..Len(written'[h.id])
             /\ AccountsFor(h.row.timeline, written'[h.id], h.saw)
  <2>1. h.id \in Incidents  BY <1>0 DEF Handlers
  <2>2. h.saw \in 0..Len(written[h.id]) /\ AccountsFor(h.row.timeline, written[h.id], h.saw)
    BY <1>3 DEF ReadInv
  <2> QED BY <2>1, <2>2, AccountsStay
<1>4. ASSUME NEW h \in handlers, Commit(h) PROVE G
  <2>1. /\ h.id \in Incidents /\ h.read /\ h.row.timeline \in Seq(Nat)
        /\ incident'[h.id].timeline = Append(h.row.timeline, Len(written[h.id]) + 1)
        /\ \A i \in Incidents \ {h.id} : incident'[i] = incident[i]
    BY <1>4, CommitRow DEF Commit
  <2>2. /\ written'[h.id] = Append(written[h.id], h.saw)
        /\ \A i \in Incidents \ {h.id} : written'[i] = written[i]
    BY <1>4, CommitRecord
  <2>3. handlers' = handlers \ {h}  BY <1>4 DEF Commit
  <2>4. ReadInv'  BY <1>3, <2>3 DEF ReadInv
  <2>5. ASSUME NEW i \in Incidents
        PROVE  AccountsFor(incident'[i].timeline, written'[i], Len(written'[i]))
    <3>1. CASE i = h.id
      <4>1. h.saw \in 0..Len(written[i]) /\ AccountsFor(h.row.timeline, written[i], h.saw)
        BY <2>1, <3>1 DEF ReadInv
      <4>2. written[i] \in Seq(Nat) /\ h.saw \in Nat  BY <1>0, <1>2, <4>1
      <4>3. AccountsFor(Append(h.row.timeline, Len(written[i]) + 1),
                        Append(written[i], h.saw), Len(written[i]) + 1)
        BY <2>1, <4>1, <4>2, CommitAccounts
      <4>4. Len(written'[i]) = Len(written[i]) + 1  BY <2>2, <3>1, <4>2
      <4> QED BY <2>1, <2>2, <3>1, <4>3, <4>4
    <3>2. CASE i # h.id
      <4>1. incident'[i] = incident[i] /\ written'[i] = written[i]  BY <2>1, <2>2, <3>2
      <4> QED BY <1>1, <4>1
    <3> QED BY <3>1, <3>2
  <2>6. TimelineKeepsAcknowledged'
    BY <2>5 DEF TimelineKeepsAcknowledged, Accounts, AccountsFor
  <2> QED BY <2>4, <2>6
<1>5. ASSUME NEW h \in handlers, Read(h) PROVE G
  <2> DEFINE r == [h EXCEPT !.read = TRUE, !.row = incident[h.id],
                            !.saw = Len(written[h.id])]
  <2>1. h \in Handlers  BY <1>0
  <2>2. /\ r.id = h.id /\ r.row = incident[h.id] /\ r.saw = Len(written[h.id])
        /\ h.id \in Incidents
    BY <2>1 DEF Handlers
  <2>3. /\ handlers' = (handlers \ {h}) \cup {r}
        /\ incident' = incident /\ written' = written
    BY <1>5 DEF Read
  <2> HIDE DEF r
  <2>4. ASSUME NEW k \in handlers', k.read
        PROVE  /\ k.saw \in 0..Len(written'[k.id])
               /\ AccountsFor(k.row.timeline, written'[k.id], k.saw)
    <3>1. CASE k = r  BY <1>1, <1>2, <2>2, <2>3, <3>1
    <3>2. CASE k # r  BY <1>3, <2>3, <2>4, <3>2
    <3> QED BY <3>1, <3>2
  <2>5. ReadInv'  BY <2>4 DEF ReadInv
  <2>6. TimelineKeepsAcknowledged'
    BY <2>3 DEF TimelineKeepsAcknowledged, Accounts
  <2> QED BY <2>5, <2>6
<1>6. ASSUME UNCHANGED <<incident, written>>,
             \A h \in handlers' : h.read => h \in handlers
      PROVE  G
  <2>1. ReadInv'  BY <1>3, <1>6 DEF ReadInv
  <2>2. TimelineKeepsAcknowledged'
    BY <1>6 DEF TimelineKeepsAcknowledged, Accounts
  <2> QED BY <2>1, <2>2
<1> HIDE DEF G
<1>7. G  BY <1>4, <1>5, <1>6, QuietSteps
<1> QED BY <1>7 DEF G

\* Where the details that arrive, and the one on screen, come from.
LEMMA DetailSteps ==
  ASSUME CrisisTypeOK, [CrisisNext]_crisisVars
  PROVE  /\ \A a \in asked' : a.read => \/ a \in asked
                                        \/ /\ a.id \in Incidents
                                           /\ a.row = incident[a.id] /\ written' = written
         /\ \/ selectedIncident' = selectedIncident
            \/ \E a \in asked : a.read /\ selectedIncident' = [id |-> a.id, row |-> a.row]
<1> DEFINE G == /\ \A a \in asked' : a.read => \/ a \in asked
                                               \/ /\ a.id \in Incidents
                                                  /\ a.row = incident[a.id]
                                                  /\ written' = written
                /\ \/ selectedIncident' = selectedIncident
                   \/ \E a \in asked : /\ a.read
                                       /\ selectedIncident' = [id |-> a.id, row |-> a.row]
<1>1. ASSUME NEW h \in handlers, Commit(h) PROVE G
  <2>1. h.id \in Incidents  BY <1>1, CommitRow
  <2> QED BY <1>1, <2>1, LoadDetailType DEF Commit
<1>2. ASSUME NEW i \in Incidents, Click(i) PROVE G
  BY <1>2, LoadDetailType DEF Click
<1>3. ASSUME NEW d \in asked, Serve(d) PROVE G
  <2> DEFINE r == [d EXCEPT !.read = TRUE, !.row = incident[d.id]]
  <2>1. d \in Details  BY DEF CrisisTypeOK, Details
  <2>2. r.id = d.id /\ r.row = incident[d.id] /\ d.id \in Incidents
    BY <2>1 DEF Details
  <2>3. /\ asked' = (asked \ {d}) \cup {r} /\ written' = written
        /\ selectedIncident' = selectedIncident
    BY <1>3 DEF Serve
  <2> HIDE DEF r
  <2> QED BY <2>2, <2>3
<1>4. ASSUME NEW d \in asked, Arrive(d) PROVE G
  BY <1>4 DEF Arrive
<1>5. ASSUME UNCHANGED <<asked, selectedIncident>> PROVE G
  BY <1>5
<1>6. \/ UNCHANGED <<asked, selectedIncident>>
      \/ \E h \in handlers : Commit(h)
      \/ \E i \in Incidents : Click(i)
      \/ \E d \in asked : Serve(d) \/ Arrive(d)
  BY DEF CrisisNext, crisisVars, Read, Fail, PostElsewhere, Post
<1> HIDE DEF G
<1>7. G  BY <1>1, <1>2, <1>3, <1>4, <1>5, <1>6
<1> QED BY <1>7 DEF G

(***************************************************************************)
(* Every step keeps every detail one that accounts for the entries there   *)
(* were when it was read.                                                  *)
(***************************************************************************)
LEMMA PastStep ==
  CrisisTypeOK /\ TimelineKeepsAcknowledged /\ PastInv /\ [CrisisNext]_crisisVars => PastInv'
<1> SUFFICES ASSUME CrisisTypeOK, TimelineKeepsAcknowledged, PastInv,
                    [CrisisNext]_crisisVars
             PROVE  PastInv'
  OBVIOUS
<1>0. /\ asked \subseteq Details /\ written \in [Incidents -> Seq(Nat)]
      /\ selectedIncident.id \in Incidents \cup {NoIncident}
  BY DEF CrisisTypeOK, Details
<1>1. ASSUME NEW a \in asked, a.read
      PROVE  \E k \in 0..Len(written'[a.id]) :
               AccountsFor(a.row.timeline, written'[a.id], k)
  <2>1. a.id \in Incidents  BY <1>0 DEF Details
  <2>2. PICK k \in 0..Len(written[a.id]) : AccountsFor(a.row.timeline, written[a.id], k)
    BY <1>1 DEF PastInv
  <2>3. k \in 0..Len(written'[a.id]) /\ AccountsFor(a.row.timeline, written'[a.id], k)
    BY <2>1, <2>2, AccountsStay
  <2> QED BY <2>3
<1>2. ASSUME NEW a \in asked', a.read
      PROVE  \E k \in 0..Len(written'[a.id]) :
               AccountsFor(a.row.timeline, written'[a.id], k)
  <2>1. CASE a \in asked  BY <1>1, <1>2, <2>1
  <2>2. CASE a.id \in Incidents /\ a.row = incident[a.id] /\ written' = written
    <3>1. AccountsFor(incident[a.id].timeline, written[a.id], Len(written[a.id]))
      BY <2>2 DEF TimelineKeepsAcknowledged, Accounts, AccountsFor
    <3>2. Len(written[a.id]) \in 0..Len(written[a.id])
      <4>1. written[a.id] \in Seq(Nat)  BY <1>0, <2>2
      <4> QED BY <4>1
    <3> QED BY <2>2, <3>1, <3>2
  <2> QED BY <1>2, <2>1, <2>2, DetailSteps
<1> DEFINE Past(s) == \E k \in 0..Len(written'[s.id]) :
                        AccountsFor(s.row.timeline, written'[s.id], k)
<1>3. ASSUME selectedIncident'.id # NoIncident PROVE Past(selectedIncident')
  <2>1. CASE selectedIncident' = selectedIncident
    <3> DEFINE i == selectedIncident.id
               t == selectedIncident.row.timeline
    <3>1. i \in Incidents  BY <1>0, <1>3, <2>1
    <3>2. PICK k \in 0..Len(written[i]) : AccountsFor(t, written[i], k)
      BY <1>3, <2>1 DEF PastInv, ScreenIsAPastState, Accounts, AccountsFor
    <3>3. k \in 0..Len(written'[i]) /\ AccountsFor(t, written'[i], k)
      BY <3>1, <3>2, AccountsStay
    <3> QED BY <2>1, <3>3
  <2>2. ASSUME NEW a \in asked, a.read, selectedIncident' = [id |-> a.id, row |-> a.row]
        PROVE  Past(selectedIncident')
    <3>1. selectedIncident'.id = a.id /\ selectedIncident'.row = a.row  BY <2>2
    <3> QED BY <1>1, <2>2, <3>1
  <2> HIDE DEF Past
  <2> QED BY <2>1, <2>2, DetailSteps
<1>4. ScreenIsAPastState'
  BY <1>3 DEF ScreenIsAPastState, Accounts, AccountsFor
<1> QED BY <1>2, <1>4 DEF PastInv

LEMMA CrisisInvAlways == CrisisSpec => []CrisisInv
<1>1. CrisisInit => CrisisInv
  <2> SUFFICES ASSUME CrisisInit PROVE CrisisInv  OBVIOUS
  <2>1. /\ <<0>> \in Seq(Nat) /\ DOMAIN <<0>> = {1} /\ <<0>>[1] = 0
        /\ <<>> \in Seq(Nat) /\ Len(<<>>) = 0
    OBVIOUS
  <2>2. [status |-> "active", timeline |-> <<0>>] \in CrisisRows
    BY <2>1 DEF CrisisRows, Statuses
  <2>3. CrisisTypeOK  BY <2>1, <2>2, EmptyRow DEF CrisisInit, CrisisTypeOK
  <2>4. AccountsFor(<<0>>, <<>>, 0)
    <3>1. Range(<<0>>) = {0}  BY <2>1 DEF Range
    <3>2. 0..0 = {0}  OBVIOUS
    <3> QED BY <2>1, <3>1, <3>2 DEF AccountsFor
  <2>5. TimelineKeepsAcknowledged
    <3> SUFFICES ASSUME NEW i \in Incidents
                 PROVE  AccountsFor(incident[i].timeline, written[i], Len(written[i]))
      BY DEF TimelineKeepsAcknowledged, Accounts, AccountsFor
    <3>1. incident[i].timeline = <<0>> /\ written[i] = <<>>  BY DEF CrisisInit
    <3> QED BY <2>1, <2>4, <3>1
  <2>6. ReadInv  BY DEF CrisisInit, ReadInv
  <2>7. PastInv  BY DEF CrisisInit, PastInv, ScreenIsAPastState
  <2> QED BY <2>3, <2>5, <2>6, <2>7 DEF CrisisInv
<1>2. CrisisInv /\ [CrisisNext]_crisisVars => CrisisInv'
  BY CrisisTypeStep, RecordStep, PastStep DEF CrisisInv
<1> QED BY <1>1, <1>2, PTL DEF CrisisSpec

(***************************************************************************)
(* The rows, the handlers and the console keep their types.                *)
(***************************************************************************)
THEOREM CrisisTypeCorrect == CrisisSpec => []CrisisTypeOK
<1>1. CrisisInv => CrisisTypeOK  BY DEF CrisisInv
<1> QED BY <1>1, CrisisInvAlways, PTL

(***************************************************************************)
(* However the handlers overlap, an entry committed to an incident is on   *)
(* its timeline, once and in order, or was lost to a handler that had read *)
(* before that commit and committed after it.                              *)
(***************************************************************************)
THEOREM TimelineKept == CrisisSpec => []TimelineKeepsAcknowledged
<1>1. CrisisInv => TimelineKeepsAcknowledged  BY DEF CrisisInv
<1> QED BY <1>1, CrisisInvAlways, PTL

(***************************************************************************)
(* The detail on the console, however old and in whatever order details    *)
(* arrive, accounts in that way for the first k commits, for some k.       *)
(***************************************************************************)
THEOREM ScreenPast == CrisisSpec => []ScreenIsAPastState
<1>1. CrisisInv => ScreenIsAPastState  BY DEF CrisisInv, PastInv
<1> QED BY <1>1, CrisisInvAlways, PTL

(***************************************************************************)
(* Nothing but a lockdown brings back a resolved incident, however the     *)
(* handlers overlap.                                                       *)
(***************************************************************************)
THEOREM LockdownReopens == CrisisSpec => OnlyLockdownReopens
<1>1. ASSUME CrisisInv, [CrisisNext]_crisisVars, NEW i \in Incidents,
             incident[i].status = "resolved", incident'[i].status # "resolved"
      PROVE  /\ incident'[i].status = "contained"
             /\ \E h \in handlers : /\ h.id = i /\ h.kind = "lockdown"
                                    /\ h.row.status # "contained"
  <2>1. CrisisTypeOK  BY <1>1 DEF CrisisInv
  <2>2. PICK h \in handlers : Commit(h)
    <3>1. ~UNCHANGED incident  BY <1>1
    <3> QED BY <1>1, <2>1, <3>1, QuietSteps DEF Read
  <2>3. i = h.id  BY <1>1, <2>1, <2>2, CommitRow
  <2>4. /\ h.kind \in Kinds
        /\ StatusSet(h.kind, h.row.status) # h.row.status
        /\ incident'[i].status = StatusSet(h.kind, h.row.status)
    BY <1>1, <2>1, <2>2, <2>3, CommitRow
  <2>5. h.kind = "lockdown"  BY <1>1, <2>4 DEF StatusSet, Kinds
  <2> QED BY <2>3, <2>4, <2>5 DEF StatusSet
<1>2. CrisisInv /\ [CrisisNext]_crisisVars =>
        [\A i \in Incidents :
           incident[i].status = "resolved" /\ incident'[i].status # "resolved" =>
             /\ incident'[i].status = "contained"
             /\ \E h \in handlers : /\ h.id = i /\ h.kind = "lockdown"
                                    /\ h.row.status # "contained"]_crisisVars
  BY <1>1
<1> QED BY <1>2, CrisisInvAlways, PTL DEF CrisisSpec, OnlyLockdownReopens

-----------------------------------------------------------------------------
(* The discovery page *)

(***************************************************************************)
(* A scan is never announced as complete without its numbers, however many *)
(* run and whichever modal they end under.                                 *)
(***************************************************************************)
THEOREM ScanHasResults == DiscoverSpec => []CompleteHasResults
<1>1. DiscoverInit => CompleteHasResults
  BY DEF DiscoverInit, CompleteHasResults
<1>2. CompleteHasResults /\ [DiscoverNext]_discoverVars => CompleteHasResults'
  <2> SUFFICES ASSUME CompleteHasResults, [DiscoverNext]_discoverVars
               PROVE  CompleteHasResults'
    OBVIOUS
  <2>1. CASE UNCHANGED scanVars  BY <2>1 DEF scanVars, CompleteHasResults
  <2>2. CASE RunScan  BY <2>2 DEF RunScan, CompleteHasResults
  <2>3. CASE CloseScan  BY <2>3 DEF CloseScan, CompleteHasResults
  <2>4. ASSUME NEW s \in scans, ScanEnds(s) PROVE CompleteHasResults'
    BY <2>4 DEF ScanEnds, CompleteHasResults
  <2>5. UNCHANGED scanVars \/ RunScan \/ CloseScan \/ \E s \in scans : ScanEnds(s)
    BY DEF DiscoverNext, discoverVars, scanVars, NextPage, PreviousPage, ChangeFilter,
           GoToPage, ChangeLimit, Ask, Answered, Lost
  <2> QED BY <2>1, <2>2, <2>3, <2>4, <2>5
<1> QED BY <1>1, <1>2, PTL DEF DiscoverSpec

\* Unless it is behind, the request sent last is for the operator's page; until
\* it answers it is in flight, and from then on its reply is on screen.
FollowsInv ==
  ~behind => /\ \A r \in requests : r.slot = newest => r.page = page /\ r.limit = limit
             /\ ~NewestDue => shown = [page |-> page, limit |-> limit]

DiscoverInv == DiscoverTypeOK /\ FollowsInv

\* A page size is positive and makes a whole number of pages.
LEMMA PagesOfList ==
  ASSUME NEW l \in Limits
  PROVE  l \in Nat \ {0} /\ TotalPages(l) \in Int
<1>1. l \in Nat \ {0} /\ Total \in Nat \ {0}  BY DiscoverAssumption
<1>2. Total + l - 1 \in Int  BY <1>1
<1> QED BY <1>1, <1>2 DEF TotalPages

\* A request joins those in flight, and becomes the one sent last.
LEMMA Fetched ==
  ASSUME NEW p \in Int, NEW l \in Limits, requests \subseteq Requests, FetchProblems(p, l)
  PROVE  /\ requests' \subseteq Requests /\ loading' = TRUE
         /\ newest' \in RequestSlots /\ behind' \in BOOLEAN
         /\ FollowsInv'
<1>1. PICK slot \in RequestSlots :
        /\ \A r \in requests : r.slot # slot
        /\ requests' = requests \cup {[slot |-> slot, page |-> p, limit |-> l]}
        /\ loading' = TRUE
        /\ newest' = slot /\ behind' = (p # page' \/ l # limit')
  BY DEF FetchProblems
<1> DEFINE new == [slot |-> slot, page |-> p, limit |-> l]
<1>2. new \in Requests /\ new.slot = slot /\ new.page = p /\ new.limit = l
  BY DEF Requests
<1> HIDE DEF new
<1>3. requests' = requests \cup {new}  BY <1>1 DEF new
<1>4. requests' \subseteq Requests  BY <1>2, <1>3
<1>5. \A r \in requests' : r.slot = newest' => r = new  BY <1>1, <1>3
<1>6. NewestDue'  BY <1>1, <1>2, <1>3 DEF NewestDue
<1>7. ~behind' => p = page' /\ l = limit'  BY <1>1
<1>8. FollowsInv'  BY <1>2, <1>5, <1>6, <1>7 DEF FollowsInv
<1> QED BY <1>1, <1>4, <1>8

\* Asking for a page makes the request for it the last, or changes nothing.
LEMMA AskStep ==
  ASSUME DiscoverInv, NEW p \in Int, NEW l \in Limits, Ask(p, l), filter' \in Filters
  PROVE  DiscoverInv'
<1>1. /\ page' = p /\ limit' = l
      /\ UNCHANGED <<shown, scans, scanState, showScanModal, scanResults>>
  BY DEF Ask, scanVars
<1>2. CASE p = page /\ l = limit
  <2>1. UNCHANGED <<page, limit, shown, requests, loading, newest, behind>>
    BY <1>1, <1>2 DEF Ask
  <2>2. DiscoverTypeOK'  BY <1>1, <2>1 DEF DiscoverInv, DiscoverTypeOK
  <2>3. FollowsInv'  BY <2>1 DEF DiscoverInv, FollowsInv, NewestDue
  <2> QED BY <2>2, <2>3 DEF DiscoverInv
<1>3. CASE ~(p = page /\ l = limit)
  <2>1. FetchProblems(p, l)  BY <1>3 DEF Ask
  <2>2. /\ requests' \subseteq Requests /\ loading' = TRUE
        /\ newest' \in RequestSlots /\ behind' \in BOOLEAN
        /\ FollowsInv'
    BY <2>1, Fetched DEF DiscoverInv, DiscoverTypeOK
  <2>3. DiscoverTypeOK'  BY <1>1, <2>2 DEF DiscoverInv, DiscoverTypeOK
  <2> QED BY <2>2, <2>3 DEF DiscoverInv
<1> QED BY <1>2, <1>3

LEMMA DiscoverInvInit == DiscoverInit => DiscoverInv
<1> SUFFICES ASSUME DiscoverInit PROVE DiscoverInv  OBVIOUS
<1> DEFINE new == [slot |-> newest, page |-> 1, limit |-> FirstLimit]
<1>1. /\ page = 1 /\ limit = FirstLimit /\ filter = 1..Total /\ shown = NoReply
      /\ newest \in RequestSlots /\ behind = FALSE
      /\ requests = {new} /\ loading = TRUE
      /\ scans = {} /\ scanState = "idle" /\ showScanModal = FALSE
      /\ scanResults = FALSE
  BY DEF DiscoverInit
<1>2. FirstLimit \in Limits /\ 1..Total \in Filters  BY DiscoverAssumption
<1>3. new \in Requests /\ new.slot = newest /\ new.page = 1 /\ new.limit = FirstLimit
  BY <1>1, <1>2 DEF Requests
<1> HIDE DEF new
<1>4. DiscoverTypeOK
  <2>1. page \in Int /\ requests \subseteq Requests  BY <1>1, <1>3
  <2> QED BY <1>1, <1>2, <2>1, Zenon DEF DiscoverTypeOK
<1>5. NewestDue  BY <1>1, <1>3 DEF NewestDue
<1>6. FollowsInv  BY <1>1, <1>3, <1>5 DEF FollowsInv
<1> QED BY <1>4, <1>6 DEF DiscoverInv

LEMMA DiscoverInvStep == DiscoverInv /\ [DiscoverNext]_discoverVars => DiscoverInv'
<1> SUFFICES ASSUME DiscoverInv, [DiscoverNext]_discoverVars PROVE DiscoverInv'
  OBVIOUS
<1>t. /\ page \in Int /\ limit \in Limits /\ filter \in Filters
      /\ requests \subseteq Requests /\ scans \subseteq Scans
  BY DEF DiscoverInv, DiscoverTypeOK
<1>1. CASE NextPage
  BY <1>1, <1>t, AskStep DEF NextPage
<1>2. CASE PreviousPage
  BY <1>2, <1>t, AskStep DEF PreviousPage
<1>3. ASSUME NEW p \in 1..Total, GoToPage(p) PROVE DiscoverInv'
  BY <1>3, <1>t, AskStep DEF GoToPage
<1>4. ASSUME NEW f \in Filters, ChangeFilter(f) PROVE DiscoverInv'
  BY <1>4, <1>t, AskStep DEF ChangeFilter
<1>5. ASSUME NEW l \in Limits, ChangeLimit(l) PROVE DiscoverInv'
  BY <1>5, <1>t, AskStep DEF ChangeLimit
<1>6. ASSUME NEW r \in requests, Answered(r) PROVE DiscoverInv'
  <2> DEFINE view == [page |-> r.page, limit |-> r.limit]
  <2>1. r.page \in Int /\ r.limit \in Limits  BY <1>t DEF Requests
  <2>2. view \in Views  BY <2>1 DEF Views
  <2>3. /\ shown' = view /\ requests' = requests \ {r} /\ loading' = FALSE
        /\ behind' = (behind \/ ~NewestDue)
        /\ UNCHANGED <<page, limit, filter, newest, scans, scanState, showScanModal,
                       scanResults>>
    BY <1>6 DEF Answered, scanVars
  <2>4. behind' \in BOOLEAN  BY <2>3
  <2>5. ASSUME ~behind', ~NewestDue' PROVE view = [page |-> page, limit |-> limit]
    <3>1. ~behind /\ NewestDue  BY <2>3, <2>5
    <3>2. r.slot = newest  BY <2>3, <2>5, <3>1 DEF NewestDue
    <3>3. r.page = page /\ r.limit = limit  BY <3>1, <3>2 DEF DiscoverInv, FollowsInv
    <3> QED BY <3>3
  <2> HIDE DEF view
  <2>6. DiscoverTypeOK'
    BY <2>2, <2>3, <2>4 DEF DiscoverInv, DiscoverTypeOK
  <2>7. FollowsInv'  BY <2>3, <2>5 DEF DiscoverInv, FollowsInv
  <2> QED BY <2>6, <2>7 DEF DiscoverInv
<1>7. ASSUME NEW r \in requests, Lost(r) PROVE DiscoverInv'
  <2>1. /\ requests' = requests \ {r} /\ loading' = FALSE
        /\ behind' = (behind \/ r.slot = newest)
        /\ UNCHANGED <<page, limit, filter, shown, newest, scans, scanState,
                       showScanModal, scanResults>>
    BY <1>7 DEF Lost, scanVars
  <2>2. behind' \in BOOLEAN  BY <2>1
  <2>3. ~behind' => ~behind /\ (NewestDue => NewestDue')  BY <2>1 DEF NewestDue
  <2>4. DiscoverTypeOK'  BY <2>1, <2>2 DEF DiscoverInv, DiscoverTypeOK
  <2>5. FollowsInv'  BY <2>1, <2>3 DEF DiscoverInv, FollowsInv
  <2> QED BY <2>4, <2>5 DEF DiscoverInv
<1>8. UNCHANGED listVars => FollowsInv'
  BY DEF listVars, DiscoverInv, FollowsInv, NewestDue
<1>9. CASE RunScan
  <2>1. PICK slot \in ScanSlots :
          scans' = scans \cup {[slot |-> slot, page |-> page, limit |-> limit]}
    BY <1>9 DEF RunScan
  <2> DEFINE new == [slot |-> slot, page |-> page, limit |-> limit]
  <2>2. new \in Scans  BY <1>t DEF Scans
  <2> HIDE DEF new
  <2>3. /\ scans' = scans \cup {new} /\ scanState' = "scanning"
        /\ showScanModal' = TRUE /\ scanResults' = FALSE
        /\ UNCHANGED listVars
    BY <1>9, <2>1 DEF RunScan, new
  <2>4. DiscoverTypeOK'  BY <2>2, <2>3 DEF listVars, DiscoverInv, DiscoverTypeOK
  <2> QED BY <1>8, <2>3, <2>4 DEF DiscoverInv
<1>10. ASSUME NEW s \in scans, ScanEnds(s) PROVE DiscoverInv'
  <2>1. s.page \in Int /\ s.limit \in Limits  BY <1>t DEF Scans
  <2>2. /\ requests' \subseteq Requests /\ loading' = TRUE
        /\ newest' \in RequestSlots /\ behind' \in BOOLEAN
        /\ FollowsInv'
    BY <1>10, <1>t, <2>1, Fetched DEF ScanEnds
  <2>3. DiscoverTypeOK'  BY <1>10, <2>2 DEF ScanEnds, DiscoverInv, DiscoverTypeOK
  <2> QED BY <2>2, <2>3 DEF DiscoverInv
<1>11. CASE CloseScan
  <2>1. DiscoverTypeOK'
    BY <1>11 DEF CloseScan, listVars, DiscoverInv, DiscoverTypeOK
  <2> QED BY <1>8, <1>11, <2>1 DEF CloseScan, DiscoverInv
<1>12. CASE UNCHANGED discoverVars
  <2>1. DiscoverTypeOK'  BY <1>12 DEF discoverVars, DiscoverInv, DiscoverTypeOK
  <2>2. UNCHANGED listVars  BY <1>12 DEF discoverVars, listVars
  <2> QED BY <1>8, <2>1, <2>2 DEF DiscoverInv
<1> QED BY <1>1, <1>2, <1>3, <1>4, <1>5, <1>6, <1>7, <1>9, <1>10, <1>11, <1>12
        DEF DiscoverNext

LEMMA DiscoverInvAlways == DiscoverSpec => []DiscoverInv
BY DiscoverInvInit, DiscoverInvStep, PTL DEF DiscoverSpec

\* The discovery page: every variable keeps its type, for a list of any length,
\* any page sizes and any filters.
THEOREM DiscoverTypeCorrect == DiscoverSpec => []DiscoverTypeOK
<1>1. DiscoverInv => DiscoverTypeOK  BY DEF DiscoverInv
<1> QED BY <1>1, DiscoverInvAlways, PTL

\* The endpoint returns, for any page from the first on, the rows the label
\* counts: none past the last page.
LEMMA RowsOfPage ==
  ASSUME NEW l \in Limits, NEW p \in Int, p >= 1
  PROVE  Rows([page |-> p, limit |-> l])
           = (p - 1) * l + 1 .. (IF p * l < Total THEN p * l ELSE Total)
<1> DEFINE b == (p - 1) * l
           e == p * l
           v == [page |-> p, limit |-> l]
<1>1. l \in Nat \ {0} /\ Total \in Nat \ {0}  BY DiscoverAssumption
<1>2. b \in Nat /\ e = b + l /\ e \in Nat  BY <1>1
<1>3. v.page = p /\ v.limit = l  OBVIOUS
<1> HIDE DEF v
<1>4. Rows(v) = Slice(b, b + l)  BY <1>3 DEF Rows
<1> HIDE DEF b, e
<1>5. Position(b) = b /\ Position(b + l) = e  BY <1>1, <1>2 DEF Position
<1>6. Rows(v) = {i \in 1..Total : b < i /\ i <= e}  BY <1>4, <1>5 DEF Slice
<1>7. Rows(v) = b + 1 .. (IF e < Total THEN e ELSE Total)  BY <1>1, <1>2, <1>6
<1> QED BY <1>7 DEF b, e, v

\* The pages the endpoint serves divide the list, whatever its length and the
\* page size: each problem is on one page that can be asked for, and on no
\* other, so one who walks the list without leaving or losing a page sees
\* every problem once.
THEOREM PagesDivideTheList ==
  ASSUME NEW l \in Limits, NEW i \in 1..Total
  PROVE  /\ \E p \in 1..TotalPages(l) : i \in Rows([page |-> p, limit |-> l])
         /\ \A p, q \in 1..TotalPages(l) :
              i \in Rows([page |-> p, limit |-> l]) /\ i \in Rows([page |-> q, limit |-> l])
                => p = q
<1> DEFINE last == (i - 1) \div l
           all == TotalPages(l)
           On(p) == i \in Rows([page |-> p, limit |-> l])
<1>1. /\ l \in Nat /\ l >= 1 /\ Total \in Nat /\ Total >= 1
      /\ i \in Nat /\ i >= 1 /\ i <= Total /\ all \in Int
  BY PagesOfList, DiscoverAssumption
<1>2. \A p \in 1..all : On(p) <=> (p - 1) * l < i /\ i <= p * l
  <2> SUFFICES ASSUME NEW p \in 1..all PROVE On(p) <=> (p - 1) * l < i /\ i <= p * l
    OBVIOUS
  <2> DEFINE b == (p - 1) * l
             e == p * l
  <2>1. b \in Int /\ e \in Int  BY <1>1
  <2>2. Rows([page |-> p, limit |-> l]) = b + 1 .. (IF e < Total THEN e ELSE Total)
    BY RowsOfPage
  <2> HIDE DEF b, e
  <2>3. On(p) <=> b < i /\ i <= e  BY <1>1, <2>1, <2>2
  <2> QED BY <2>3 DEF b, e
<1> HIDE DEF On
<1>3. \E p \in 1..all : On(p)
  <2>1. last \in Nat /\ last * l <= i - 1 /\ i - 1 < (last + 1) * l  BY <1>1
  <2>2. last + 1 \in 1..all
    <3> DEFINE x == Total + l - 1
    <3>1. all = x \div l  BY DEF TotalPages
    <3>2. (last + 1) * l <= x
      <4>1. (last + 1) * l = last * l + l /\ last * l \in Int  BY <1>1, <2>1
      <4> QED BY <1>1, <2>1, <4>1
    <3>3. x < (all + 1) * l
      <4>1. x \in Nat  BY <1>1
      <4> HIDE DEF x
      <4> QED BY <1>1, <3>1, <4>1
    <3> HIDE DEF x, last, all
    <3>4. last + 1 <= all
      <4>1. SUFFICES ASSUME all + 1 <= last + 1 PROVE FALSE  BY <1>1, <2>1
      <4>2. (all + 1) * l <= (last + 1) * l  BY <1>1, <2>1, <4>1
      <4>3. (all + 1) * l \in Int /\ (last + 1) * l \in Int /\ x \in Int
        BY <1>1, <2>1 DEF x
      <4> QED BY <3>2, <3>3, <4>2, <4>3
    <3> QED BY <1>1, <2>1, <3>4
  <2> DEFINE n == last + 1
  <2>3. (n - 1) * l < i /\ i <= n * l
    <3> HIDE DEF last, all
    <3>1. n - 1 = last /\ last * l \in Int /\ n * l \in Int  BY <1>1, <2>1
    <3> QED BY <1>1, <2>1, <3>1
  <2> HIDE DEF last, all, n
  <2>4. n \in 1..all  BY <2>2 DEF n
  <2>5. On(n)  BY <1>2, <2>3, <2>4
  <2> QED BY <2>4, <2>5
<1>4. \A p, q \in 1..all : On(p) /\ On(q) => p = q
  <2> HIDE DEF all
  <2>1. ASSUME NEW p \in 1..all, NEW q \in 1..all, On(p), On(q) PROVE ~(p < q)
    <3>1. p \in Int /\ q \in Int  BY <1>1
    <3>2. p < q => p * l <= (q - 1) * l
      <4>1. p < q => p <= q - 1  BY <3>1
      <4> QED BY <1>1, <3>1, <4>1
    <3>3. p * l \in Int /\ (q - 1) * l \in Int  BY <1>1, <3>1
    <3>4. i <= p * l /\ (q - 1) * l < i  BY <1>2, <2>1
    <3> QED BY <1>1, <3>2, <3>3, <3>4
  <2>2. \A p, q \in 1..all : p \in Int /\ q \in Int  BY <1>1
  <2>3. \A p, q \in Int : ~(p < q) /\ ~(q < p) => p = q  OBVIOUS
  <2> QED BY <2>1, <2>2, <2>3
<1> QED BY <1>3, <1>4 DEF On

\* If the request sent last was for the operator's page and the last to answer,
\* then once nothing is in flight the cards on screen are the problems that the
\* label counts and the filters let through, for a list of any length and any
\* page sizes and filters, on every page from the first on.
THEOREM LabelCounts == DiscoverSpec => []LabelCountsRows
<1>1. DiscoverInv => LabelCountsRows
  <2> SUFFICES ASSUME DiscoverInv, requests = {}, ~behind, page >= 1
               PROVE  Cards = filter \cap (ShowingStart..ShowingEnd)
    BY DEF LabelCountsRows
  <2>1. limit \in Limits /\ page \in Int  BY DEF DiscoverInv, DiscoverTypeOK
  <2>2. shown = [page |-> page, limit |-> limit]
    BY DEF DiscoverInv, FollowsInv, NewestDue
  <2>3. Rows(shown) = ShowingStart..ShowingEnd
    BY <2>1, <2>2, RowsOfPage DEF ShowingStart, ShowingEnd
  <2> QED BY <2>3 DEF Cards
<1> QED BY <1>1, DiscoverInvAlways, PTL

-----------------------------------------------------------------------------
(* The fulfilment page *)

\* What is selected is listed, unless the rows changed over it.
RowsInv == ~retabbed => selectedIds \subseteq Filtered

\* Unless a drawer was opened over a timer, one timer at most runs, for the
\* drawer it was started in, whose button stays disabled.
TimerInv ==
  ~reopened => /\ \A t, u \in delivering : t = u
               /\ \A t \in delivering : detailDrawer \in {t.for, NoDeliverable}
               /\ delivering # {} /\ detailDrawer # NoDeliverable => pressed

DeliverInv == DeliverTypeOK /\ RowsInv /\ TimerInv

LEMMA DeliverTypeStep == DeliverTypeOK /\ [DeliverNext]_deliverVars => DeliverTypeOK'
<1> SUFFICES ASSUME DeliverTypeOK, [DeliverNext]_deliverVars PROVE DeliverTypeOK'
  OBVIOUS
<1> USE DEF DeliverTypeOK, tableVars, qaVars, drawerVars
<1>1. ASSUME NEW t \in DOMAIN TabRows, SetTab(t) PROVE DeliverTypeOK'
  <2>1. retabbed' \in BOOLEAN  BY <1>1 DEF SetTab
  <2> QED BY <1>1, <2>1 DEF SetTab
<1>2. ASSUME NEW d \in Deliverables, ToggleId(d) PROVE DeliverTypeOK'
  BY <1>2 DEF ToggleId
<1>3. CASE ToggleAllVisible
  <2>1. Filtered \subseteq Deliverables  BY DeliverAssumption DEF Filtered
  <2>2. selectedIds' \subseteq Deliverables  BY <1>3, <2>1 DEF ToggleAllVisible
  <2> QED BY <1>3, <2>2 DEF ToggleAllVisible
<1>4. ASSUME NEW d \in Deliverables, NEW i \in Items, ToggleQaItem(d, i) PROVE DeliverTypeOK'
  <2>1. qaChecked' \in [Deliverables -> SUBSET Items]  BY <1>4 DEF ToggleQaItem
  <2> QED BY <1>4, <2>1 DEF ToggleQaItem
<1>5. CASE MarkAllQa
  <2>1. qaDrawer \in Deliverables  BY <1>5 DEF MarkAllQa
  <2>2. qaChecked' \in [Deliverables -> SUBSET Items]  BY <1>5 DEF MarkAllQa
  <2> QED BY <1>5, <2>1, <2>2 DEF MarkAllQa
<1>6. ASSUME NEW d \in Deliverables, OpenQa(d) PROVE DeliverTypeOK'
  BY <1>6 DEF OpenQa
<1>7. CASE CloseQa \/ CloseDetail
  BY <1>7 DEF CloseQa, CloseDetail
<1>8. ASSUME NEW d \in Deliverables, OpenDetail(d) PROVE DeliverTypeOK'
  <2>1. reopened' \in BOOLEAN  BY <1>8 DEF OpenDetail
  <2> QED BY <1>8, <2>1 DEF OpenDetail
<1>9. CASE MarkDelivered
  <2>1. PICK slot \in TimerSlots :
          delivering' = delivering \cup {[slot |-> slot, for |-> detailDrawer]}
    BY <1>9 DEF MarkDelivered
  <2>2. detailDrawer \in Deliverables  BY <1>9 DEF MarkDelivered
  <2>3. delivering' \subseteq [slot : TimerSlots, for : Deliverables]  BY <2>1, <2>2
  <2> QED BY <1>9, <2>3 DEF MarkDelivered
<1>10. ASSUME NEW t \in delivering, DeliveredTimer(t) PROVE DeliverTypeOK'
  BY <1>10 DEF DeliveredTimer
<1>11. CASE UNCHANGED deliverVars
  BY <1>11 DEF deliverVars
<1> HIDE DEF DeliverTypeOK
<1> QED BY <1>1, <1>2, <1>3, <1>4, <1>5, <1>6, <1>7, <1>8, <1>9, <1>10, <1>11 DEF DeliverNext

LEMMA RowsStep == RowsInv /\ [DeliverNext]_deliverVars => RowsInv'
<1> SUFFICES ASSUME RowsInv, [DeliverNext]_deliverVars PROVE RowsInv'
  OBVIOUS
<1>1. CASE UNCHANGED tableVars  BY <1>1 DEF tableVars, RowsInv, Filtered
<1>2. ASSUME NEW t \in DOMAIN TabRows, SetTab(t) PROVE RowsInv'
  BY <1>2 DEF SetTab, RowsInv
<1>3. ASSUME NEW d \in Deliverables, ToggleId(d) PROVE RowsInv'
  BY <1>3 DEF ToggleId, RowsInv, Filtered
<1>4. CASE ToggleAllVisible  BY <1>4 DEF ToggleAllVisible, RowsInv, Filtered
<1>5. \/ UNCHANGED tableVars \/ ToggleAllVisible
      \/ \E t \in DOMAIN TabRows : SetTab(t)
      \/ \E d \in Deliverables : ToggleId(d)
  BY DEF DeliverNext, deliverVars, OpenQa, OpenDetail, ToggleQaItem, MarkAllQa, CloseQa,
         CloseDetail, MarkDelivered, DeliveredTimer
<1> QED BY <1>1, <1>2, <1>3, <1>4, <1>5

LEMMA TimerStep == DeliverTypeOK /\ TimerInv /\ [DeliverNext]_deliverVars => TimerInv'
<1> SUFFICES ASSUME DeliverTypeOK, TimerInv, [DeliverNext]_deliverVars PROVE TimerInv'
  OBVIOUS
<1>1. CASE UNCHANGED <<detailDrawer, pressed, delivering, reopened>>  BY <1>1 DEF TimerInv
<1>2. ASSUME NEW d \in Deliverables, OpenDetail(d) PROVE TimerInv'
  BY <1>2 DEF OpenDetail, TimerInv
<1>3. CASE CloseDetail  BY <1>3 DEF CloseDetail, TimerInv
<1>4. CASE MarkDelivered
  <2> SUFFICES ASSUME ~reopened' PROVE TimerInv'  BY DEF TimerInv
  <2>1. PICK slot \in TimerSlots :
          delivering' = delivering \cup {[slot |-> slot, for |-> detailDrawer]}
    BY <1>4 DEF MarkDelivered
  <2>2. delivering = {}  BY <1>4 DEF MarkDelivered, TimerInv
  <2>3. delivering' = {[slot |-> slot, for |-> detailDrawer]}  BY <2>1, <2>2
  <2>4. \A t, u \in delivering' : t = u  BY <2>3
  <2>5. \A t \in delivering' : t.for = detailDrawer  BY <2>3
  <2> QED BY <1>4, <2>4, <2>5 DEF MarkDelivered, TimerInv
<1>5. ASSUME NEW t \in delivering, DeliveredTimer(t) PROVE TimerInv'
  BY <1>5 DEF DeliveredTimer, TimerInv
<1>6. \/ UNCHANGED <<detailDrawer, pressed, delivering, reopened>>
      \/ CloseDetail \/ MarkDelivered
      \/ \E d \in Deliverables : OpenDetail(d)
      \/ \E t \in delivering : DeliveredTimer(t)
  BY DEF DeliverNext, deliverVars, drawerVars, SetTab, ToggleId, ToggleAllVisible, OpenQa,
         ToggleQaItem, MarkAllQa, CloseQa
<1> QED BY <1>1, <1>2, <1>3, <1>4, <1>5, <1>6

LEMMA DeliverInvAlways == DeliverSpec => []DeliverInv
<1>1. DeliverInit => DeliverInv
  <2> SUFFICES ASSUME DeliverInit PROVE DeliverInv  OBVIOUS
  <2>1. DeliverTypeOK  BY DeliverAssumption DEF DeliverInit, DeliverTypeOK
  <2> QED BY <2>1 DEF DeliverInit, DeliverInv, RowsInv, TimerInv
<1>2. DeliverInv /\ [DeliverNext]_deliverVars => DeliverInv'
  BY DeliverTypeStep, RowsStep, TimerStep DEF DeliverInv
<1> QED BY <1>1, <1>2, PTL DEF DeliverSpec

(***************************************************************************)
(* The state of the fulfilment page keeps its types.                       *)
(***************************************************************************)
THEOREM DeliverTypeCorrect == DeliverSpec => []DeliverTypeOK
<1>1. DeliverInv => DeliverTypeOK  BY DEF DeliverInv
<1> QED BY <1>1, DeliverInvAlways, PTL

(***************************************************************************)
(* The box above the table stands for the rows below it unless the rows    *)
(* changed over a selection.                                               *)
(***************************************************************************)
THEOREM SelectAllRows == DeliverSpec => []SelectAllMeansRows
<1>1. DeliverInv => SelectAllMeansRows
  <2> SUFFICES ASSUME DeliverInv, ~retabbed, AllBoxChecked PROVE selectedIds = Filtered
    BY DEF SelectAllMeansRows
  <2>1. selectedIds \subseteq Filtered  BY DEF DeliverInv, RowsInv
  <2>2. Filtered \subseteq Deliverables
    BY DeliverAssumption DEF DeliverInv, DeliverTypeOK, Filtered
  <2>3. IsFiniteSet(Filtered)  BY <2>2, DeliverAssumption, FS_Subset
  <2>4. Cardinality(selectedIds) = Cardinality(Filtered)  BY DEF AllBoxChecked, SameSize
  <2> QED BY <2>1, <2>3, <2>4, FS_Subset
<1> QED BY <1>1, DeliverInvAlways, PTL

(***************************************************************************)
(* Unless a drawer opens over a running timer, a deliverable is marked     *)
(* once per opening and the timer closes the drawer it was started in.     *)
(***************************************************************************)
THEOREM MarkedOnce == DeliverSpec => []MarkedOncePerOpening
<1>1. DeliverInv => MarkedOncePerOpening
  <2> SUFFICES ASSUME DeliverInv, ~reopened
               PROVE  /\ Cardinality(delivering) <= 1
                      /\ \A t \in delivering : detailDrawer \in {t.for, NoDeliverable}
    BY DEF MarkedOncePerOpening
  <2>1. TimerInv  BY DEF DeliverInv
  <2>2. ASSUME NEW t \in delivering PROVE Cardinality(delivering) = 1
    <3>1. delivering = {t}  BY <2>1, <2>2 DEF TimerInv
    <3> QED BY <3>1, FS_Singleton
  <2>3. delivering = {} => Cardinality(delivering) = 0  BY FS_EmptySet
  <2>4. Cardinality(delivering) <= 1  BY <2>2, <2>3
  <2> QED BY <2>1, <2>4 DEF TimerInv
<1> QED BY <1>1, DeliverInvAlways, PTL

(***************************************************************************)
(* A tick of a checklist that was touched is undone by a click on its box  *)
(* and by nothing else.                                                    *)
(***************************************************************************)
THEOREM TicksKept == DeliverSpec => TicksAreKept
<1>1. DeliverTypeOK /\ [DeliverNext]_deliverVars =>
        [\A d \in qaTouched : \A i \in Boxes(d) \ Boxes(d)' : ToggleQaItem(d, i)]_deliverVars
  <2> SUFFICES ASSUME DeliverTypeOK, DeliverNext, NEW d \in qaTouched,
                      NEW i \in Boxes(d) \ Boxes(d)'
               PROVE  ToggleQaItem(d, i)
    OBVIOUS
  <2>1. ASSUME UNCHANGED qaVars PROVE FALSE
    <3>1. UNCHANGED <<qaTouched, qaChecked>>  BY <2>1 DEF qaVars
    <3> QED BY <3>1 DEF Boxes
  <2>2. ASSUME NEW e \in Deliverables, NEW k \in Items, ToggleQaItem(e, k)
        PROVE  ToggleQaItem(d, i)
    <3>1. /\ qaChecked' = [qaChecked EXCEPT ![e] = IF k \in @ THEN @ \ {k} ELSE @ \cup {k}]
          /\ qaTouched' = qaTouched \cup {e}
      BY <2>2 DEF ToggleQaItem
    <3>2. d \in Deliverables /\ qaChecked \in [Deliverables -> SUBSET Items]
      BY DEF DeliverTypeOK
    <3>3. i \in qaChecked[d] \ qaChecked'[d]  BY <3>1 DEF Boxes
    <3>4. d = e /\ i = k  BY <3>1, <3>2, <3>3
    <3> QED BY <2>2, <3>4
  <2>3. ASSUME MarkAllQa PROVE FALSE
    <3>1. /\ qaChecked' = [qaChecked EXCEPT ![qaDrawer] = Items]
          /\ qaTouched' = qaTouched \cup {qaDrawer}
      BY <2>3 DEF MarkAllQa
    <3>2. d \in Deliverables /\ qaChecked \in [Deliverables -> SUBSET Items]
      BY DEF DeliverTypeOK
    <3>3. i \in qaChecked[d] \ qaChecked'[d]  BY <3>1 DEF Boxes
    <3>4. i \in Items  BY <3>2, <3>3
    <3> QED BY <3>1, <3>2, <3>3, <3>4
  <2>4. \/ UNCHANGED qaVars
        \/ \E e \in Deliverables, k \in Items : ToggleQaItem(e, k)
        \/ MarkAllQa
    BY DEF DeliverNext, SetTab, ToggleId, ToggleAllVisible, OpenQa, CloseQa, OpenDetail,
           CloseDetail, MarkDelivered, DeliveredTimer
  <2> QED BY <2>1, <2>2, <2>3, <2>4
<1> QED BY <1>1, DeliverTypeCorrect, PTL DEF DeliverSpec, TicksAreKept

-----------------------------------------------------------------------------
(* The playbook library *)

AuditRequests == [slot : AuditSlots, of : Library, drawer : BOOLEAN, second : BOOLEAN]
AuditResults == [known : BOOLEAN, passed : BOOLEAN,
                 issues : SUBSET (Dimensions \cup {Unreachable})]

\* The playbook that shows the spinner is being audited.
SpinnerInv ==
  auditLoading # NoPlaybook => \E a \in audits : ~a.second /\ a.of = auditLoading

\* What is on record is what the service says of the playbook or that it did not
\* answer, and what is announced has passed.
VerdictInv ==
  /\ \A p \in Library : auditResults[p] \in {NoResult, Verdict(p), Unanswered}
  /\ fixToast # NoPlaybook => Passes(Fails[fixToast])

PlaybooksInv == PlaybooksTypeOK /\ SpinnerInv /\ VerdictInv

\* An answer has the type of one, and what it announces has passed.
LEMMA AnswerType ==
  ASSUME NEW p \in Library, NEW answer \in {Verdict(p), Unanswered}
  PROVE  answer \in AuditResults /\ (answer.passed => Passes(Fails[p]))
<1>1. Unanswered \in AuditResults /\ Unanswered.passed = FALSE
  BY DEF Unanswered, AuditResults
<1>2. Fails[p] \subseteq Dimensions  BY PlaybooksAssumption
<1> DEFINE passes == Passes(Fails[p])
<1>3. passes \in BOOLEAN  BY DEF Passes
<1>4. Verdict(p) = [known |-> TRUE, passed |-> passes, issues |-> Fails[p]]  BY DEF Verdict
<1> HIDE DEF passes
<1>5. Verdict(p) \in AuditResults /\ Verdict(p).passed = passes
  BY <1>2, <1>3, <1>4 DEF AuditResults
<1>6. Verdict(p).passed => Passes(Fails[p])  BY <1>5 DEF passes
<1> QED BY <1>1, <1>5, <1>6

\* An audit begins: its playbook shows the spinner.
LEMMA AuditBegins ==
  ASSUME PlaybooksInv, NEW p \in Library, NEW drawer \in BOOLEAN, Audit(p, drawer)
  PROVE  /\ audits' \subseteq AuditRequests /\ auditLoading' \in Library \cup {NoPlaybook}
         /\ SpinnerInv'
<1>1. PICK slot \in AuditSlots :
        audits' = audits \cup {[slot |-> slot, of |-> p, drawer |-> drawer, second |-> FALSE]}
  BY DEF Audit
<1> DEFINE new == [slot |-> slot, of |-> p, drawer |-> drawer, second |-> FALSE]
<1>2. new \in AuditRequests /\ new.of = p /\ ~new.second  BY DEF AuditRequests
<1> HIDE DEF new
<1>3. audits' = audits \cup {new}  BY <1>1 DEF new
<1>4. audits \subseteq AuditRequests
  BY DEF PlaybooksInv, PlaybooksTypeOK, AuditRequests
<1>5. auditLoading' = p  BY DEF Audit
<1>6. SpinnerInv'  BY <1>2, <1>3, <1>5 DEF SpinnerInv
<1> QED BY <1>2, <1>3, <1>4, <1>5, <1>6

LEMMA PlaybooksInvNext == PlaybooksInv /\ [PlaybooksNext]_playbooksVars => PlaybooksInv'
<1> SUFFICES ASSUME PlaybooksInv, [PlaybooksNext]_playbooksVars PROVE PlaybooksInv'
  OBVIOUS
<1>t. /\ auditLoading \in Library \cup {NoPlaybook} /\ fixing \in Library \cup {NoPlaybook}
      /\ audits \subseteq AuditRequests
      /\ auditResults \in [Library -> AuditResults]
      /\ fixResolved \in [Library -> SUBSET (Dimensions \cup {Unreachable})]
      /\ fixToast \in Library \cup {NoPlaybook}
  BY DEF PlaybooksInv, PlaybooksTypeOK, AuditRequests, AuditResults
<1>i. SpinnerInv /\ VerdictInv  BY DEF PlaybooksInv
<1>g. ASSUME /\ auditLoading' \in Library \cup {NoPlaybook}
             /\ fixing' \in Library \cup {NoPlaybook}
             /\ audits' \subseteq AuditRequests
             /\ auditResults' \in [Library -> AuditResults]
             /\ fixResolved' \in [Library -> SUBSET (Dimensions \cup {Unreachable})]
             /\ fixToast' \in Library \cup {NoPlaybook},
             SpinnerInv', VerdictInv'
      PROVE  PlaybooksInv'
  BY <1>g DEF PlaybooksInv, PlaybooksTypeOK, AuditRequests, AuditResults
<1>q. ASSUME UNCHANGED <<audits, auditLoading>>
      PROVE  SpinnerInv'
  BY <1>q, <1>i DEF SpinnerInv
<1>v. ASSUME UNCHANGED auditResults, UNCHANGED fixToast \/ fixToast' = NoPlaybook
      PROVE  VerdictInv'
  BY <1>v, <1>i DEF VerdictInv
<1>1. ASSUME NEW p \in Library, RunAudit(p) PROVE PlaybooksInv'
  <2>1. /\ audits' \subseteq AuditRequests /\ auditLoading' \in Library \cup {NoPlaybook}
        /\ SpinnerInv'
    BY <1>1, AuditBegins DEF RunAudit
  <2> QED BY <1>1, <2>1, <1>t, <1>v, <1>g DEF RunAudit
<1>2. ASSUME NEW p \in Library, OpenFixIssues(p) PROVE PlaybooksInv'
  BY <1>2, <1>t, <1>q, <1>v, <1>g DEF OpenFixIssues
<1>3. CASE CloseFixIssues  BY <1>3, <1>t, <1>q, <1>v, <1>g DEF CloseFixIssues
<1>4. CASE HideToast  BY <1>4, <1>t, <1>q, <1>v, <1>g DEF HideToast
<1>5. CASE RerunAudit
  <2>1. fixing \in Library /\ Audit(fixing, TRUE)  BY <1>5, <1>t DEF RerunAudit
  <2>2. /\ audits' \subseteq AuditRequests /\ auditLoading' \in Library \cup {NoPlaybook}
        /\ SpinnerInv'
    BY <2>1, AuditBegins
  <2> QED BY <1>5, <2>2, <1>t, <1>v, <1>g DEF RerunAudit
<1>6. ASSUME NEW issue \in Dimensions \cup {Unreachable}, TickIssue(issue) PROVE PlaybooksInv'
  <2>1. fixing \in Library  BY <1>6, <1>t DEF TickIssue
  <2>2. fixResolved' \in [Library -> SUBSET (Dimensions \cup {Unreachable})]
    BY <1>6, <2>1, <1>t DEF TickIssue
  <2> QED BY <1>6, <2>2, <1>t, <1>q, <1>v, <1>g DEF TickIssue
<1>7. ASSUME NEW a \in audits, NEW answer \in {Verdict(a.of), Unanswered}, AuditEnds(a, answer)
      PROVE  PlaybooksInv'
  <2>1. a.of \in Library /\ answer \in AuditResults
    BY <1>t, AnswerType DEF AuditRequests
  <2> DEFINE left == IF a.drawer THEN {[a EXCEPT !.second = TRUE]} ELSE {}
  <2>2. left \subseteq AuditRequests /\ \A b \in left : b.second  BY <1>t DEF AuditRequests
  <2> HIDE DEF left
  <2>3. audits' = (audits \ {a}) \cup left /\ ~a.second  BY <1>7 DEF AuditEnds, left
  <2>4. SpinnerInv'  BY <1>7 DEF AuditEnds, SpinnerInv
  <2>5. auditResults' = [auditResults EXCEPT ![a.of] = answer] /\ UNCHANGED fixToast
    BY <1>7 DEF AuditEnds
  <2>6. auditResults' \in [Library -> AuditResults]  BY <2>1, <2>5, <1>t
  <2>7. \A p \in Library : auditResults'[p] \in {NoResult, Verdict(p), Unanswered}
    BY <2>1, <2>5, <1>t, <1>i DEF VerdictInv
  <2>8. VerdictInv'  BY <2>5, <2>7, <1>i DEF VerdictInv
  <2> QED BY <1>7, <2>2, <2>3, <2>4, <2>6, <2>8, <1>t, <1>g DEF AuditEnds
<1>8. ASSUME NEW a \in audits, NEW answer \in {Verdict(a.of), Unanswered},
             SecondAnswer(a, answer)
      PROVE  PlaybooksInv'
  <2>1. a.of \in Library /\ (answer.passed => Passes(Fails[a.of]))
    BY <1>t, AnswerType DEF AuditRequests
  <2>2. SpinnerInv'  BY <1>8, <1>i DEF SecondAnswer, SpinnerInv
  <2>3. VerdictInv'  BY <1>8, <2>1, <1>i DEF SecondAnswer, VerdictInv
  <2> QED BY <1>8, <2>1, <2>2, <2>3, <1>t, <1>g DEF SecondAnswer
<1>9. CASE UNCHANGED playbooksVars  BY <1>9, <1>t, <1>q, <1>v, <1>g DEF playbooksVars
<1> QED BY <1>1, <1>2, <1>3, <1>4, <1>5, <1>6, <1>7, <1>8, <1>9 DEF PlaybooksNext

LEMMA PlaybooksInvAlways == PlaybooksSpec => []PlaybooksInv
<1>1. PlaybooksInit => PlaybooksInv
  <2> SUFFICES ASSUME PlaybooksInit PROVE PlaybooksInv
    OBVIOUS
  <2>1. NoResult \in AuditResults  BY DEF NoResult, AuditResults
  <2>2. auditResults \in [Library -> AuditResults]  BY <2>1 DEF PlaybooksInit
  <2>3. PlaybooksTypeOK
    BY <2>2 DEF PlaybooksInit, PlaybooksTypeOK, AuditResults
  <2>4. SpinnerInv /\ VerdictInv  BY DEF PlaybooksInit, SpinnerInv, VerdictInv
  <2> QED BY <2>3, <2>4 DEF PlaybooksInv
<1> QED BY <1>1, PlaybooksInvNext, PTL DEF PlaybooksSpec

\* The playbook page keeps its types.
THEOREM PlaybooksTypeCorrect == PlaybooksSpec => []PlaybooksTypeOK
<1>1. PlaybooksInv => PlaybooksTypeOK  BY DEF PlaybooksInv
<1> QED BY <1>1, PlaybooksInvAlways, PTL

\* However audits overlap, the playbook that shows the spinner is being audited,
\* and the result of each playbook is of an audit of its own.
THEOREM AuditsAnswered == PlaybooksSpec => []AuditsAnswerTheirOwn
<1>1. PlaybooksInv => AuditsAnswerTheirOwn
  BY DEF PlaybooksInv, SpinnerInv, VerdictInv, AuditsAnswerTheirOwn
<1> QED BY <1>1, PlaybooksInvAlways, PTL

\* Whatever audits cross and drawers open meanwhile, what is announced as ready
\* to activate can be, if the service answered the audit on record.
THEOREM ReadyActivates == PlaybooksSpec => []ReadyIsActivatable
<1>1. PlaybooksInv => ReadyIsActivatable
  <2> SUFFICES ASSUME PlaybooksInv, fixToast \in Library \ SeededFailed,
                      Unreachable \notin auditResults[fixToast].issues
               PROVE  ~FixOffered(fixToast)
    BY DEF ReadyIsActivatable
  <2>1. Unreachable \in Unanswered.issues  BY DEF Unanswered
  <2>2. auditResults[fixToast] \in {NoResult, Verdict(fixToast)} /\ Passes(Fails[fixToast])
    BY <2>1, PlaybooksAssumption DEF PlaybooksInv, VerdictInv
  <2>3. NoResult.known = FALSE /\ Verdict(fixToast).passed = Passes(Fails[fixToast])
    BY DEF NoResult, Verdict
  <2> QED BY <2>2, <2>3 DEF FixOffered
<1> QED BY <1>1, PlaybooksInvAlways, PTL

-----------------------------------------------------------------------------
(* The composer of combined offers *)

Activating == [slot : ActivatingSlots, slug : Catalogue, page : BOOLEAN, checked : BOOLEAN]
Activations == [slug : Catalogue, composition : Compositions]

\* The page asks for two playbooks or more and works on those on screen; its one
\* activation at a time is of the first of them.
PageInv ==
  /\ step = "compose" => Len(composingOf) >= 2
  /\ result # <<>> => Len(result) >= 2
  /\ step \in {"activate", "customize", "offer"} => result # <<>>
  /\ \A h \in activating : h.page => step = "activate" /\ h.slug = Head(result)
  /\ \A h, g \in activating : h.page /\ g.page => h = g
  /\ step \in {"customize", "offer"} =>
       /\ activationId \in DOMAIN activations
       /\ activations[activationId].slug = Head(result)
       /\ \A o \in offers : o.from # activationId
  /\ step = "offer" => activations[activationId].composition = result

\* An offer is made from an activation, and one activation makes one offer.
OfferInv ==
  /\ \A o \in offers : /\ o.from \in DOMAIN activations
                       /\ activations[o.from].slug = o.slug
                       /\ Len(o.composition) >= 2 /\ Head(o.composition) = o.slug
  /\ \A o, p \in offers : o.from = p.from => o = p

\* Unless two activations of one playbook were checked at once, what was checked
\* is not active yet, and each playbook is active once.
OnceInv ==
  ~raced => /\ \A i, j \in DOMAIN activations :
                 activations[i].slug = activations[j].slug => i = j
            /\ \A h \in activating : h.checked => ~IsActive(h.slug)
            /\ \A h, g \in activating : h.checked /\ g.checked /\ h.slug = g.slug => h = g

ComposerInv ==
  /\ ComposerTypeOK /\ activations \in Seq(Activations)
  /\ PageInv /\ OfferInv /\ OnceInv

\* A selection is a sequence of at most three playbooks, none twice.
LEMMA CompositionIsSeq ==
  ASSUME NEW s
  PROVE  s \in Compositions <=> /\ s \in Seq(Catalogue) /\ Len(s) <= 3
                                /\ \A i, j \in DOMAIN s : s[i] = s[j] => i = j
<1>1. ASSUME s \in Compositions
      PROVE  s \in Seq(Catalogue) /\ Len(s) <= 3
             /\ \A i, j \in DOMAIN s : s[i] = s[j] => i = j
  <2>1. PICK n \in 0..3 : s \in [1..n -> Catalogue]  BY <1>1 DEF Compositions
  <2>2. s \in Seq(Catalogue) /\ Len(s) = n  BY <2>1
  <2> QED BY <1>1, <2>2 DEF Compositions
<1>2. ASSUME s \in Seq(Catalogue), Len(s) <= 3,
             \A i, j \in DOMAIN s : s[i] = s[j] => i = j
      PROVE  s \in Compositions
  <2>0. Len(s) \in Nat /\ Len(s) <= 3  BY <1>2
  <2>1. Len(s) \in 0..3 /\ s \in [1..Len(s) -> Catalogue]
    <3>1. Len(s) \in 0..3
      <4> DEFINE n == Len(s)
      <4>1. n \in Nat /\ n <= 3  BY <2>0
      <4> HIDE DEF n
      <4>2. n \in 0..3  BY <4>1
      <4> QED BY <4>2 DEF n
    <3>2. s \in [1..Len(s) -> Catalogue]  BY <1>2
    <3> QED BY <3>1, <3>2
  <2>2. \E n \in 0..3 : [1..Len(s) -> Catalogue] = [1..n -> Catalogue]  BY <2>1, Zenon
  <2> QED BY <1>2, <2>1, <2>2 DEF Compositions
<1> QED BY <1>1, <1>2

\* The playbook a click is on is added while there is room, or taken out.
LEMMA AddedToComposition ==
  ASSUME NEW s \in Compositions, NEW slug \in Catalogue, ~Has(s, slug), Len(s) < 3
  PROVE  Append(s, slug) \in Compositions
<1>1. /\ s \in Seq(Catalogue) /\ Len(s) <= 3 /\ DOMAIN s = 1..Len(s)
      /\ \A i, j \in DOMAIN s : s[i] = s[j] => i = j
  BY CompositionIsSeq
<1> DEFINE t == Append(s, slug)
<1>2. /\ t \in Seq(Catalogue) /\ Len(t) = Len(s) + 1 /\ DOMAIN t = 1..Len(s) + 1
      /\ \A i \in 1..Len(s) : t[i] = s[i]
      /\ t[Len(s) + 1] = slug
  BY <1>1
<1>3. \A i \in 1..Len(s) : s[i] # slug  BY <1>1 DEF Has
<1> HIDE DEF t
<1>4. \A i, j \in DOMAIN t : t[i] = t[j] => i = j  BY <1>1, <1>2, <1>3
<1>5. Len(t) <= 3  BY <1>1, <1>2
<1> QED BY <1>2, <1>4, <1>5, CompositionIsSeq DEF t

LEMMA TakenOutOfComposition ==
  ASSUME NEW s \in Compositions, NEW slug, Has(s, slug)
  PROVE  Without(s, slug) \in Compositions
<1>1. /\ s \in Seq(Catalogue) /\ Len(s) \in 0..3 /\ DOMAIN s = 1..Len(s)
      /\ \A i, j \in DOMAIN s : s[i] = s[j] => i = j
  <2>1. /\ s \in Seq(Catalogue) /\ Len(s) <= 3
        /\ \A i, j \in DOMAIN s : s[i] = s[j] => i = j
    BY CompositionIsSeq
  <2>2. Len(s) \in Nat /\ DOMAIN s = 1..Len(s)  BY <2>1
  <2> QED BY <2>1, <2>2
<1> DEFINE i == CHOOSE k \in DOMAIN s : s[k] = slug
           before == SubSeq(s, 1, i - 1)
           after == SubSeq(s, i + 1, Len(s))
           t == before \o after
<1>2. i \in 1..Len(s)  BY <1>1 DEF Has
<1> HIDE DEF i
<1>3. before \in Seq(Catalogue) /\ Len(before) = i - 1
      /\ \A k \in 1..i - 1 : before[k] = s[k]
  <2>1. \A k \in 1..i - 1 : s[k] \in Catalogue  BY <1>1, <1>2
  <2>2. 1 \in Int /\ i - 1 \in Int /\ (i - 1) - 1 + 1 = i - 1  BY <1>2
  <2>3. /\ before \in Seq(Catalogue)
        /\ Len(before) = IF 1 <= i - 1 THEN (i - 1) - 1 + 1 ELSE 0
        /\ \A k \in 1..(i - 1) - 1 + 1 : before[k] = s[1 + k - 1]
    BY <2>1, <2>2, SubSeqProperties
  <2> HIDE DEF before
  <2> QED BY <2>3, <1>1, <1>2
<1>4. after \in Seq(Catalogue) /\ Len(after) = Len(s) - i
      /\ \A k \in 1..Len(s) - i : after[k] = s[i + k]
  <2>1. \A k \in i + 1..Len(s) : s[k] \in Catalogue  BY <1>1, <1>2
  <2>2. i + 1 \in Int /\ Len(s) \in Int  BY <1>1, <1>2
  <2>3. /\ after \in Seq(Catalogue)
        /\ Len(after) = IF i + 1 <= Len(s) THEN Len(s) - (i + 1) + 1 ELSE 0
        /\ \A k \in 1..Len(s) - (i + 1) + 1 : after[k] = s[(i + 1) + k - 1]
    BY <2>1, <2>2, SubSeqProperties
  <2> HIDE DEF after
  <2>4. \A k \in 1..Len(s) - i : after[k] = s[i + k]
    <3> TAKE k \in 1..Len(s) - i
    <3>1. k \in 1..Len(s) - (i + 1) + 1 /\ (i + 1) + k - 1 = i + k  BY <1>1, <1>2
    <3> QED BY <2>3, <3>1
  <2>5. Len(after) = Len(s) - i
    <3> DEFINE m == Len(s)
               c == Len(after)
    <3>1. m \in 0..3 /\ i \in 1..m /\ c = IF i + 1 <= m THEN m - (i + 1) + 1 ELSE 0
      BY <2>3, <1>1, <1>2
    <3> HIDE DEF m, c
    <3>2. c = m - i  BY <3>1
    <3> QED BY <3>2 DEF m, c
  <2> QED BY <2>3, <2>4, <2>5
<1> HIDE DEF before, after
<1>c. /\ t \in Seq(Catalogue) /\ Len(t) = Len(before) + Len(after)
      /\ \A k \in 1..Len(before) + Len(after) :
           t[k] = IF k <= Len(before) THEN before[k] ELSE after[k - Len(before)]
  BY <1>3, <1>4, ConcatProperties
<1> HIDE DEF t
<1>5. t \in Seq(Catalogue) /\ Len(t) = Len(s) - 1 /\ DOMAIN t = 1..Len(s) - 1
  BY <1>c, <1>1, <1>2, <1>3, <1>4
<1>6. \A k \in 1..Len(s) - 1 : t[k] = IF k < i THEN s[k] ELSE s[k + 1]
  <2> DEFINE m == Len(s)
             b == Len(before)
             c == Len(after)
  <2>0. m \in 0..3 /\ i \in 1..m /\ b = i - 1 /\ c = m - i
    BY <1>1, <1>2, <1>3, <1>4
  <2>1. /\ \A k \in 1..b + c : t[k] = IF k <= b THEN before[k] ELSE after[k - b]
        /\ \A k \in 1..i - 1 : before[k] = s[k]
        /\ \A k \in 1..m - i : after[k] = s[i + k]
    BY <1>c, <1>3, <1>4
  <2> HIDE DEF m, b, c
  <2>2. ASSUME NEW k \in 1..m - 1  PROVE t[k] = IF k < i THEN s[k] ELSE s[k + 1]
    <3>1. k \in 1..b + c  BY <2>0
    <3>2. CASE k < i
      <4>1. k <= b /\ k \in 1..i - 1  BY <2>0, <3>2
      <4>2. t[k] = before[k] /\ before[k] = s[k]  BY <3>1, <4>1, <2>1
      <4> QED BY <3>2, <4>2
    <3>3. CASE ~(k < i)
      <4>1. ~(k <= b) /\ k - b \in 1..m - i /\ i + (k - b) = k + 1  BY <2>0, <3>3
      <4>2. t[k] = after[k - b] /\ after[k - b] = s[i + (k - b)]  BY <3>1, <4>1, <2>1
      <4> QED BY <3>3, <4>1, <4>2
    <3> QED BY <3>2, <3>3
  <2> QED BY <2>2 DEF m
<1>7. \A j, k \in DOMAIN t : t[j] = t[k] => j = k  BY <1>1, <1>2, <1>5, <1>6
<1>8. Len(t) <= 3  BY <1>1, <1>5
<1>9. t \in Compositions  BY <1>5, <1>7, <1>8, CompositionIsSeq
<1> QED BY <1>9 DEF Without, RemoveAt, t, before, after, i

LEMMA EmptyComposition == <<>> \in Compositions
<1>1. << >> \in Seq(Catalogue) /\ Len(<< >>) <= 3 /\ DOMAIN << >> = {}  OBVIOUS
<1> QED BY <1>1, CompositionIsSeq

LEMMA ComposerInvInit == ComposerInit => ComposerInv
<1> SUFFICES ASSUME ComposerInit PROVE ComposerInv  OBVIOUS
<1>1. <<>> \in Compositions  BY EmptyComposition
<1>2. ComposerTypeOK
  <2>1. {picked, result, composingOf} \subseteq Compositions  BY <1>1 DEF ComposerInit
  <2>2. Len(activations) = 0 /\ DOMAIN activations = {}  BY DEF ComposerInit
  <2>3. 0 \in 0..MaxActivations /\ 0 <= MaxActivations  BY ComposerAssumption
  <2>4. /\ step = "idle" /\ activationId = 0 /\ activating = {}
        /\ ready \in BOOLEAN /\ raced = FALSE
    BY DEF ComposerInit
  <2> QED BY <2>1, <2>2, <2>3, <2>4, Zenon DEF ComposerTypeOK
<1>3. activations \in Seq(Activations) /\ PageInv /\ OfferInv /\ OnceInv
  BY DEF ComposerInit, PageInv, OfferInv, OnceInv
<1> QED BY <1>2, <1>3 DEF ComposerInv

\* A click on a card keeps the selection a composition.
LEMMA TogglePlaybookStep ==
  ASSUME ComposerInv, NEW slug \in Catalogue, TogglePlaybook(slug)
  PROVE  ComposerInv'
<1>1. picked \in Compositions  BY DEF ComposerInv, ComposerTypeOK
<1>2. picked' \in Compositions
  <2>1. CASE Has(picked, slug)
    <3>1. Without(picked, slug) \in Compositions  BY <2>1, <1>1, TakenOutOfComposition
    <3> QED BY <2>1, <3>1 DEF TogglePlaybook
  <2>2. CASE ~Has(picked, slug) /\ Len(picked) < 3
    <3>1. Append(picked, slug) \in Compositions  BY <2>2, <1>1, AddedToComposition
    <3> QED BY <2>2, <3>1 DEF TogglePlaybook
  <2> QED BY <2>1, <2>2, <1>1 DEF TogglePlaybook
<1> QED BY <1>2 DEF TogglePlaybook, serverVars, ComposerInv, ComposerTypeOK, PageInv,
                    OfferInv, OnceInv, IsActive

\* One more request to activate a playbook, from a page that waits for nothing
\* else or from another session, leaves what was settled as it was.
LEMMA ActivateStep ==
  ASSUME ComposerInv, NEW slug \in Catalogue, NEW fromPage \in BOOLEAN,
         Activate(slug, fromPage)
  PROVE  /\ activating' \subseteq Activating
         /\ \A h \in activating' : \/ h \in activating
                                   \/ h.slug = slug /\ h.page = fromPage /\ ~h.checked
         /\ \A h, g \in activating' : \/ h \in activating \/ g \in activating \/ h = g
<1>1. PICK slot \in ActivatingSlots :
        activating' = activating \cup
          {[slot |-> slot, slug |-> slug, page |-> fromPage, checked |-> FALSE]}
  BY DEF Activate
<1> DEFINE new == [slot |-> slot, slug |-> slug, page |-> fromPage, checked |-> FALSE]
<1>2. new \in Activating /\ new.slug = slug /\ new.page = fromPage /\ ~new.checked
  BY DEF Activating
<1> HIDE DEF new
<1>3. activating' = activating \cup {new}  BY <1>1 DEF new
<1>4. activating \subseteq Activating  BY DEF ComposerInv, ComposerTypeOK, Activating
<1> QED BY <1>2, <1>3, <1>4

\* What the steps below start from, with the domain of the activations.
LEMMA ComposerFacts ==
  ASSUME ComposerInv
  PROVE  /\ activations \in Seq(Activations) /\ Len(activations) \in Nat
         /\ DOMAIN activations = 1..Len(activations)
         /\ \A i \in DOMAIN activations : activations[i] \in Activations
         /\ activating \subseteq Activating
         /\ result # <<>> => result \in Compositions /\ Head(result) \in Catalogue
<1>1. /\ activations \in Seq(Activations) /\ Len(activations) \in Nat
      /\ DOMAIN activations = 1..Len(activations)
      /\ \A i \in DOMAIN activations : activations[i] \in Activations
  BY DEF ComposerInv
<1>2. activating \subseteq Activating  BY DEF ComposerInv, ComposerTypeOK, Activating
<1>3. result \in Compositions  BY DEF ComposerInv, ComposerTypeOK
<1>4. ASSUME result # <<>> PROVE Head(result) \in Catalogue
  <2>1. result \in Seq(Catalogue)  BY <1>3, CompositionIsSeq
  <2> QED BY <1>4, <2>1
<1> QED BY <1>1, <1>2, <1>3, <1>4

\* Composing, and whatever only moves the page's step, disturbs nothing else.
LEMMA ComposeSteps ==
  ASSUME ComposerInv, HandleCompose \/ ComposeAnswered \/ CallFails \/ Assess
  PROVE  ComposerInv'
<1>1. CASE HandleCompose
  BY <1>1 DEF HandleCompose, serverVars, ComposerInv, ComposerTypeOK, PageInv, OfferInv,
              OnceInv, IsActive
<1>2. CASE ComposeAnswered
  BY <1>2 DEF ComposeAnswered, serverVars, ComposerInv, ComposerTypeOK, PageInv,
              OfferInv, OnceInv, IsActive
<1>3. CASE CallFails
  BY <1>3 DEF CallFails, serverVars, ComposerInv, ComposerTypeOK, PageInv, OfferInv,
              OnceInv, IsActive
<1>4. CASE Assess
  BY <1>4 DEF Assess, pageVars, ComposerInv, ComposerTypeOK, PageInv, OfferInv, OnceInv,
              IsActive
<1> QED BY <1>1, <1>2, <1>3, <1>4

LEMMA HandleCreateStep ==
  ASSUME ComposerInv, HandleCreateCombinedOffer
  PROVE  ComposerInv'
<1>1. Head(result) \in Catalogue /\ TRUE \in BOOLEAN
  BY ComposerFacts DEF HandleCreateCombinedOffer
<1>2. /\ activating' \subseteq Activating
      /\ \A h \in activating' : \/ h \in activating
                                \/ h.slug = Head(result) /\ h.page = TRUE /\ ~h.checked
      /\ \A h, g \in activating' : \/ h \in activating \/ g \in activating \/ h = g
  BY <1>1, ActivateStep DEF HandleCreateCombinedOffer
<1>3. \A h \in activating : ~h.page
  BY DEF HandleCreateCombinedOffer, ComposerInv, PageInv
<1>4. ComposerTypeOK'
  BY <1>2 DEF HandleCreateCombinedOffer, ComposerInv, ComposerTypeOK, Activating
<1>5. PageInv'
  BY <1>2, <1>3 DEF HandleCreateCombinedOffer, ComposerInv, PageInv
<1>6. OfferInv' /\ OnceInv'
  BY <1>2 DEF HandleCreateCombinedOffer, ComposerInv, OfferInv, OnceInv, IsActive
<1> QED BY <1>4, <1>5, <1>6 DEF HandleCreateCombinedOffer, ComposerInv

LEMMA ActivateElsewhereStep ==
  ASSUME ComposerInv, NEW slug \in Catalogue, ActivateElsewhere(slug)
  PROVE  ComposerInv'
<1>1. /\ activating' \subseteq Activating
      /\ \A h \in activating' : \/ h \in activating
                                \/ h.slug = slug /\ h.page = FALSE /\ ~h.checked
      /\ \A h, g \in activating' : \/ h \in activating \/ g \in activating \/ h = g
  BY ActivateStep DEF ActivateElsewhere
<1>2. ComposerTypeOK'
  BY <1>1 DEF ActivateElsewhere, pageVars, ComposerInv, ComposerTypeOK, Activating
<1>3. PageInv' /\ OfferInv' /\ OnceInv'
  BY <1>1 DEF ActivateElsewhere, pageVars, ComposerInv, PageInv, OfferInv, OnceInv, IsActive
<1> QED BY <1>2, <1>3 DEF ActivateElsewhere, pageVars, ComposerInv

\* A request that is answered without an activation leaves the others; when it
\* was the page's, the page waits for nothing.
LEMMA GivenUp ==
  ASSUME ComposerInv, NEW h \in activating, activating' = activating \ {h}, GivesUp(h),
         UNCHANGED <<picked, result, composingOf, activationId, activations, offers, ready, raced>>
  PROVE  ComposerInv'
<1>1. step' \in {"idle", step}  BY DEF GivesUp
<1>2. ComposerTypeOK'  BY <1>1 DEF ComposerInv, ComposerTypeOK
<1>3. PageInv'
  <2>1. \A g \in activating' : g.page => step' = step
    BY DEF GivesUp, ComposerInv, PageInv
  <2> QED BY <1>1, <2>1 DEF ComposerInv, PageInv
<1>4. OfferInv' /\ OnceInv'  BY DEF ComposerInv, OfferInv, OnceInv, IsActive
<1> QED BY <1>2, <1>3, <1>4 DEF ComposerInv

LEMMA CheckActivatedStep ==
  ASSUME ComposerInv, NEW h \in activating, CheckActivated(h)
  PROVE  ComposerInv'
<1>1. CASE IsActive(h.slug)
  BY <1>1, GivenUp DEF CheckActivated
<1>2. CASE ~IsActive(h.slug)
  <2> DEFINE ch == [h EXCEPT !.checked = TRUE]
  <2>1. h \in Activating  BY ComposerFacts
  <2>2. ch \in Activating /\ ch.slug = h.slug /\ ch.page = h.page /\ ch.checked
    BY <2>1 DEF Activating
  <2> HIDE DEF ch
  <2>3. /\ activating' = (activating \ {h}) \cup {ch}
        /\ raced' = (raced \/ \E g \in activating : g.checked /\ g.slug = h.slug)
        /\ UNCHANGED <<picked, result, composingOf, step, activationId, activations,
                       offers, ready>>
    BY <1>2 DEF CheckActivated, ch
  <2>4. ComposerTypeOK'
    BY <2>2, <2>3, ComposerFacts DEF ComposerInv, ComposerTypeOK, Activating
  <2>5. PageInv'  BY <2>2, <2>3 DEF ComposerInv, PageInv
  <2>6. OfferInv'  BY <2>3 DEF ComposerInv, OfferInv
  <2>7. OnceInv'
    BY <1>2, <2>2, <2>3 DEF ComposerInv, ComposerTypeOK, OnceInv, IsActive
  <2> QED BY <2>3, <2>4, <2>5, <2>6, <2>7 DEF ComposerInv
<1> QED BY <1>1, <1>2

LEMMA ActivateFailsStep ==
  ASSUME ComposerInv, NEW h \in activating, ActivateFails(h)
  PROVE  ComposerInv'
BY GivenUp DEF ActivateFails

LEMMA ActivatePlaybookStep ==
  ASSUME ComposerInv, NEW h \in activating, ActivatePlaybook(h)
  PROVE  ComposerInv'
<1> DEFINE new == [slug |-> h.slug, composition |-> <<>>]
           n == Len(activations)
<1>1. h \in Activating /\ new.slug = h.slug /\ new.composition = <<>>  BY ComposerFacts
<1>2. new \in Activations
  <2>1. <<>> \in Compositions  BY EmptyComposition
  <2> QED BY <1>1, <2>1 DEF Activations, Activating
<1> HIDE DEF new
<1>3. /\ activations' = Append(activations, new) /\ n < MaxActivations /\ n \in Nat
      /\ activating' = activating \ {h} /\ h.checked
      /\ UNCHANGED <<picked, result, composingOf, offers, ready, raced>>
      /\ \/ GivesUp(h) /\ UNCHANGED activationId
         \/ h.page /\ step' = "customize" /\ activationId' = n + 1
  BY ComposerFacts DEF ActivatePlaybook, new
<1>4. /\ activations' \in Seq(Activations) /\ Len(activations') = n + 1
      /\ DOMAIN activations' = 1..n + 1 /\ DOMAIN activations = 1..n
      /\ \A i \in 1..n : activations'[i] = activations[i]
      /\ activations'[n + 1] = new
      /\ \A i \in 1..n : i \in 1..n + 1 /\ i # n + 1
      /\ n + 1 \in 1..n + 1
      /\ \A i \in 1..n + 1 : i \in 1..n \/ i = n + 1
      /\ \A i \in 1..n + 1 : activations'[i] \in Activations
  <2>1. /\ activations' \in Seq(Activations) /\ Len(activations') = n + 1
        /\ DOMAIN activations' = 1..n + 1 /\ DOMAIN activations = 1..n
        /\ \A i \in 1..n : activations'[i] = activations[i]
        /\ activations'[n + 1] = new
    BY <1>2, <1>3, ComposerFacts
  <2>2. /\ \A i \in 1..n : i \in 1..n + 1 /\ i # n + 1
        /\ n + 1 \in 1..n + 1
        /\ \A i \in 1..n + 1 : i \in 1..n \/ i = n + 1
    BY <1>3
  <2>3. \A i \in 1..n + 1 : activations'[i] \in Activations  BY <2>1
  <2> QED BY <2>1, <2>2, <2>3
<1>5. ComposerTypeOK'
  <2>1. n + 1 \in 0..MaxActivations /\ n + 1 <= MaxActivations
    BY <1>3, ComposerAssumption
  <2>2. step' \in {"idle", step, "customize"} /\ activationId' \in {activationId, n + 1}
    BY <1>3 DEF GivesUp
  <2> HIDE DEF n
  <2>3. \A i \in DOMAIN activations' : /\ activations'[i].slug \in Catalogue
                                       /\ activations'[i].composition \in Compositions
    BY <1>4 DEF Activations
  <2> QED BY <1>3, <1>4, <2>1, <2>2, <2>3 DEF ComposerInv, ComposerTypeOK
<1> HIDE DEF n
<1>6. PageInv'
  <2>1. CASE GivesUp(h) /\ UNCHANGED activationId
    <3>1. /\ step' \in {"idle", step}
          /\ \A g \in activating' : g.page => step' = step
      BY <1>3, <2>1 DEF GivesUp, ComposerInv, PageInv
    <3> QED BY <1>3, <1>4, <2>1, <3>1 DEF ComposerInv, PageInv
  <2>2. CASE h.page /\ step' = "customize" /\ activationId' = n + 1
    <3>1. h.slug = Head(result) /\ result # <<>> /\ \A g \in activating' : ~g.page
      BY <1>3, <2>2 DEF ComposerInv, PageInv
    <3>2. \A o \in offers : o.from # n + 1  BY <1>4 DEF ComposerInv, OfferInv
    <3> QED BY <1>1, <1>3, <1>4, <2>2, <3>1, <3>2 DEF ComposerInv, PageInv
  <2> QED BY <1>3, <2>1, <2>2
<1>7. OfferInv'  BY <1>3, <1>4 DEF ComposerInv, OfferInv
<1>8. OnceInv'
  <2> SUFFICES ASSUME ~raced PROVE OnceInv'  BY <1>3 DEF OnceInv
  <2>1. \A i \in 1..n : activations[i].slug # h.slug
    BY <1>3, <1>4 DEF ComposerInv, OnceInv, IsActive
  <2>2. \A g \in activating' : g.checked => g.slug # h.slug
    BY <1>3 DEF ComposerInv, OnceInv
  <2> QED BY <1>1, <1>3, <1>4, <2>1, <2>2 DEF ComposerInv, OnceInv, IsActive
<1> QED BY <1>4, <1>5, <1>6, <1>7, <1>8 DEF ComposerInv

LEMMA CustomizePlaybookStep ==
  ASSUME ComposerInv, CustomizePlaybook
  PROVE  ComposerInv'
<1> DEFINE a == activationId
           new == [activations[a] EXCEPT !.composition = result]
<1>1. a \in DOMAIN activations /\ activations[a] \in Activations /\ result \in Compositions
      /\ result # <<>>
  BY ComposerFacts DEF CustomizePlaybook, ComposerInv, PageInv
<1>2. new \in Activations /\ new.slug = activations[a].slug /\ new.composition = result
  BY <1>1 DEF Activations
<1>3. activations' = [activations EXCEPT ![a] = new]  BY DEF CustomizePlaybook
<1> HIDE DEF new
<1>4. /\ activations' \in Seq(Activations) /\ Len(activations') = Len(activations)
      /\ DOMAIN activations' = DOMAIN activations
      /\ activations'[a] = new
      /\ \A i \in DOMAIN activations : i # a => activations'[i] = activations[i]
      /\ \A i \in DOMAIN activations : activations'[i] \in Activations
  BY <1>1, <1>2, <1>3, ComposerFacts
<1>5. \A i \in DOMAIN activations : activations'[i].slug = activations[i].slug
  BY <1>2, <1>4
<1>6. ComposerTypeOK'
  <2>1. \A i \in DOMAIN activations' : /\ activations'[i].slug \in Catalogue
                                       /\ activations'[i].composition \in Compositions
    BY <1>4 DEF Activations
  <2> QED BY <1>4, <2>1 DEF CustomizePlaybook, ComposerInv, ComposerTypeOK
<1>7. PageInv'
  BY <1>1, <1>2, <1>4, <1>5 DEF CustomizePlaybook, ComposerInv, PageInv
<1>8. OfferInv' /\ OnceInv'
  BY <1>4, <1>5 DEF CustomizePlaybook, ComposerInv, OfferInv, OnceInv, IsActive
<1> QED BY <1>4, <1>6, <1>7, <1>8 DEF ComposerInv

LEMMA ActivateToOfferStep ==
  ASSUME ComposerInv, ActivateToOffer
  PROVE  ComposerInv'
<1> DEFINE a == activations[activationId]
           new == [from |-> activationId, slug |-> a.slug, composition |-> a.composition]
<1>1. /\ activationId \in DOMAIN activations /\ a.slug = Head(result)
      /\ a.composition = result /\ Len(result) >= 2
      /\ \A o \in offers : o.from # activationId
      /\ \A h \in activating : ~h.page
  BY DEF ActivateToOffer, ComposerInv, PageInv
<1>2. /\ new.from = activationId /\ new.slug = a.slug
      /\ Len(new.composition) >= 2 /\ Head(new.composition) = new.slug
  BY <1>1
<1>3. offers' = offers \cup {new}  BY DEF ActivateToOffer
<1> HIDE DEF new
<1>4. <<>> \in Compositions  BY EmptyComposition
<1>5. ComposerTypeOK' /\ (activations \in Seq(Activations))'
  BY <1>4 DEF ActivateToOffer, ComposerInv, ComposerTypeOK
<1>6. PageInv'  BY <1>1 DEF ActivateToOffer, ComposerInv, PageInv
<1>7. OfferInv'
  BY <1>1, <1>2, <1>3 DEF ActivateToOffer, ComposerInv, OfferInv
<1>8. OnceInv'  BY DEF ActivateToOffer, ComposerInv, OnceInv, IsActive
<1> QED BY <1>5, <1>6, <1>7, <1>8 DEF ComposerInv

LEMMA ComposerInvStep == ComposerInv /\ [ComposerNext]_composerVars => ComposerInv'
<1> SUFFICES ASSUME ComposerInv, [ComposerNext]_composerVars PROVE ComposerInv'
  OBVIOUS
<1>1. CASE UNCHANGED composerVars
  BY <1>1 DEF composerVars, pageVars, serverVars, ComposerInv, ComposerTypeOK, PageInv,
              OfferInv, OnceInv, IsActive
<1>2. CASE ComposerNext
  BY <1>2, TogglePlaybookStep, ActivateElsewhereStep, ComposeSteps, HandleCreateStep,
     CheckActivatedStep, ActivatePlaybookStep, ActivateFailsStep, CustomizePlaybookStep,
     ActivateToOfferStep DEF ComposerNext
<1> QED BY <1>1, <1>2

LEMMA ComposerInvAlways == ComposerSpec => []ComposerInv
BY ComposerInvInit, ComposerInvStep, PTL DEF ComposerSpec

\* The composer page: every variable keeps its type, for any catalogue and any
\* number of activations being handled.
THEOREM ComposerTypeCorrect == ComposerSpec => []ComposerTypeOK
<1>1. ComposerInv => ComposerTypeOK  BY DEF ComposerInv
<1> QED BY <1>1, ComposerInvAlways, PTL

\* An offer is what the operator composed, made from the activation of the first
\* playbook in it; without a race no playbook is activated twice and no second
\* offer is made of one first playbook, however calls were lost and tried again.
THEOREM OffersSound == ComposerSpec => []OffersAreSound
<1>1. ComposerInv => OffersAreSound
  BY DEF ComposerInv, OfferInv, OnceInv, OffersAreSound
<1> QED BY <1>1, ComposerInvAlways, PTL
=============================================================================
