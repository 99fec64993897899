----------------------------- MODULE MCConsoleData -----------------------------
(***************************************************************************)
(* The pages of the console that show what servers answer, and three       *)
(* services that keep rows several sessions write, for TLC.  A behaviour   *)
(* opens one of them: a page left is unmounted and no two of the services  *)
(* share a table, so two of these never share a state.                     *)
(***************************************************************************)
EXTENDS Discover, Crisis, Playbooks, Deliver, Composer, TemplateVersions,
        RetentionSweep, Drip, TLC

MCLimits == {2, 4}
MCFilters == {1..3, {1, 3}}

\* The dimensions these two slugs fail: one passes its audit, one does not.
MCFails == [medical |-> {"delivery"}, cyber |-> {"delivery", "competitive"}]
MCLibrary == DOMAIN MCFails
MCSeededFailed == {"cyber"}
MCCritical == {"competitive"}
MCDimensions == MCCritical \cup {"delivery"}

MCQaComplete == [brief |-> 1, report |-> 0]
MCDeliverables == DOMAIN MCQaComplete
MCTabRows == [all |-> MCDeliverables, active |-> {"brief"}]

MCClassOf == [brief |-> "evidence", entry |-> "audit_log"]
MCRetained == DOMAIN MCClassOf
MCClasses == {MCClassOf[r] : r \in MCRetained}

\* Slots tell requests apart and nothing else.  The list requests have their
\* own: one of them is in use from the start, on whatever page is open.
MCSymmetry == Permutations(RequestSlots) \cup Permutations(HandlerSlots)

VARIABLE opened  \* the page or service that is open

shownVars == <<discoverVars, crisisVars, playbooksVars, deliverVars, composerVars>>
rowVars == <<versionsVars, retentionVars, dripVars>>
consoleVars == <<opened, shownVars, rowVars>>
Open(name) == opened = name /\ UNCHANGED opened

\* What is not open stands still.  Records begin expired, and those of one class
\* to be deleted: SetPolicy leads to the other policies.
ConsoleInit ==
  /\ opened \in {"discover", "crisis", "playbooks", "deliver", "composer",
                 "versions", "retention", "drip"}
  /\ DiscoverInit /\ CrisisInit /\ PlaybooksInit /\ DeliverInit /\ ComposerInit
  /\ VersionsInit /\ RetentionInit /\ DripInit
  /\ ready \/ opened = "composer"
  /\ expired = Retained
  /\ autoDelete = {"evidence"}

ConsoleNext ==
  \/ /\ UNCHANGED rowVars
     /\ \/ /\ DiscoverNext /\ Open("discover")
           /\ UNCHANGED <<crisisVars, playbooksVars, deliverVars, composerVars>>
        \/ /\ CrisisNext /\ Open("crisis")
           /\ UNCHANGED <<discoverVars, playbooksVars, deliverVars, composerVars>>
        \/ /\ PlaybooksNext /\ Open("playbooks")
           /\ UNCHANGED <<discoverVars, crisisVars, deliverVars, composerVars>>
        \/ /\ DeliverNext /\ Open("deliver")
           /\ UNCHANGED <<discoverVars, crisisVars, playbooksVars, composerVars>>
        \/ /\ ComposerNext /\ Open("composer")
           /\ UNCHANGED <<discoverVars, crisisVars, playbooksVars, deliverVars>>
  \/ /\ UNCHANGED shownVars
     /\ \/ /\ VersionsNext /\ Open("versions")
           /\ UNCHANGED <<retentionVars, dripVars>>
        \/ /\ RetentionNext /\ Open("retention")
           /\ UNCHANGED <<versionsVars, dripVars>>
        \/ /\ DripNext /\ Open("drip")
           /\ UNCHANGED <<versionsVars, retentionVars>>

ConsoleSpec == ConsoleInit /\ [][ConsoleNext]_consoleVars

\* Each page and service keeps its types.
DataTypeOK ==
  /\ DiscoverTypeOK /\ CrisisTypeOK /\ PlaybooksTypeOK /\ DeliverTypeOK /\ ComposerTypeOK
  /\ VersionsTypeOK /\ RetentionTypeOK /\ DripTypeOK
=============================================================================
