------------------------------ MODULE Playbooks ------------------------------
(***************************************************************************)
(* The playbook library (app/playbooks/page.tsx) and its red-team audits   *)
(* (api/playbooks/[id]/red-team/route.ts): audits started from cards, the  *)
(* drawer where the issues of one are ticked off and the audit is run      *)
(* again.                                                                  *)
(*                                                                         *)
(* An audit takes seconds.  The page has one slot for the playbook being   *)
(* audited, and the audit that ends first clears it, whoever's it is.      *)
(***************************************************************************)
EXTENDS Integers, FiniteSets

CONSTANTS
  Library,       \* slugs of the playbooks listed
  Fails,         \* the dimensions the hash of each slug fails
  Dimensions,    \* what an audit scores
  Critical,      \* the dimensions that fail an audit alone
  SeededFailed,  \* playbooks listed as failed before any audit
  AuditSlots,    \* bound: one for each audit request in flight
  NoPlaybook

Unreachable == "unreachable"

ASSUME PlaybooksAssumption ==
  /\ NoPlaybook \notin Library
  /\ IsFiniteSet(Dimensions) /\ Critical \subseteq Dimensions
  /\ Fails \in [Library -> SUBSET Dimensions]
  /\ SeededFailed \subseteq Library

VARIABLES
  auditLoading,   \* the playbook whose buttons show a spinner
  audits,         \* requests in flight: the drawer's second one changes no result
  auditResults,   \* the last result of each playbook
  fixing,         \* the playbook of the drawer
  fixResolved,    \* issues ticked, per playbook
  fixToast        \* the playbook announced as ready to activate

playbooksVars == <<auditLoading, audits, auditResults, fixing, fixResolved, fixToast>>

NoResult == [known |-> FALSE, passed |-> FALSE, issues |-> {}]

PlaybooksInit ==
  /\ auditLoading = NoPlaybook /\ audits = {}
  /\ auditResults = [p \in Library |-> NoResult]
  /\ fixing = NoPlaybook /\ fixResolved = [p \in Library |-> {}] /\ fixToast = NoPlaybook

-----------------------------------------------------------------------------
(* The audit service, which answers one slug always the same. *)

Score(issues) == 100 - 18 * Cardinality(issues \cap Critical)
                     - 10 * Cardinality(issues \ Critical)
Passes(issues) == issues \cap Critical = {} /\ Score(issues) >= 75
Verdict(p) == [known |-> TRUE, passed |-> Passes(Fails[p]), issues |-> Fails[p]]

-----------------------------------------------------------------------------
(* Audits. *)

\* What the page stores when the service does not answer.
Unanswered == [known |-> TRUE, passed |-> FALSE, issues |-> {Unreachable}]

\* runRedTeamAudit(p), from a card, the detail panel or the drawer.
Audit(p, fromDrawer) ==
  \E slot \in AuditSlots :
    /\ \A a \in audits : a.slot # slot
    /\ audits' = audits \cup {[slot |-> slot, of |-> p, drawer |-> fromDrawer,
                               second |-> FALSE]}
    /\ auditLoading' = p

\* The button of a card or of the panel, which an open drawer covers.
RunAudit(p) ==
  /\ fixing = NoPlaybook /\ auditLoading # p
  /\ Audit(p, FALSE)
  /\ UNCHANGED <<auditResults, fixing, fixResolved, fixToast>>

\* Mutant: only an answer clears the spinner.
AuditEnds_IfAnswered(a, result) ==
  /\ a \in audits /\ ~a.second
  /\ auditResults' = [auditResults EXCEPT ![a.of] = result]
  /\ auditLoading' = IF result = Unanswered THEN auditLoading ELSE NoPlaybook
  /\ audits' = (audits \ {a}) \cup (IF a.drawer THEN {[a EXCEPT !.second = TRUE]} ELSE {})
  /\ UNCHANGED <<fixing, fixResolved, fixToast>>

\* Mutant: the result is stored for the playbook that shows the spinner.
AuditEnds_OfTheSpinner(a, result) ==
  /\ a \in audits /\ ~a.second
  /\ auditResults' = [p \in Library |-> IF p = auditLoading THEN result ELSE auditResults[p]]
  /\ auditLoading' = NoPlaybook
  /\ audits' = (audits \ {a}) \cup (IF a.drawer THEN {[a EXCEPT !.second = TRUE]} ELSE {})
  /\ UNCHANGED <<fixing, fixResolved, fixToast>>

\* The end of runRedTeamAudit: the result is stored and the slot cleared.  The
\* drawer's button then asks the service once more.
AuditEnds(a, result) ==
  /\ a \in audits /\ ~a.second
  /\ auditResults' = [auditResults EXCEPT ![a.of] = result]
  /\ auditLoading' = NoPlaybook
  /\ audits' = (audits \ {a}) \cup (IF a.drawer THEN {[a EXCEPT !.second = TRUE]} ELSE {})
  /\ UNCHANGED <<fixing, fixResolved, fixToast>>

\* Only a second answer that passes closes the drawer, whichever is open now.
SecondAnswer(a, result) ==
  /\ a \in audits /\ a.second
  /\ audits' = audits \ {a}
  /\ IF result.passed THEN fixing' = NoPlaybook /\ fixToast' = a.of
                      ELSE UNCHANGED <<fixing, fixToast>>
  /\ UNCHANGED <<auditLoading, auditResults, fixResolved>>

HideToast == fixToast # NoPlaybook /\ fixToast' = NoPlaybook
             /\ UNCHANGED <<auditLoading, audits, auditResults, fixing, fixResolved>>

-----------------------------------------------------------------------------
(* The drawer. *)

\* A card offers "Fix issues" instead of "Activate" on what was listed as
\* failed, for good, and on what failed its last audit.
FixOffered(p) == \/ p \in SeededFailed
                 \/ auditResults[p].known /\ ~auditResults[p].passed

\* Without a result the drawer shows issues of its own.
ShownIssues(p) == IF auditResults[p].known THEN auditResults[p].issues ELSE Dimensions
AllResolved(p) == ShownIssues(p) # {} /\ ShownIssues(p) \subseteq fixResolved[p]

OpenFixIssues(p) ==
  /\ fixing = NoPlaybook /\ FixOffered(p)
  /\ fixing' = p
  /\ UNCHANGED <<auditLoading, audits, auditResults, fixResolved, fixToast>>

CloseFixIssues ==
  /\ fixing # NoPlaybook /\ fixing' = NoPlaybook
  /\ UNCHANGED <<auditLoading, audits, auditResults, fixResolved, fixToast>>

TickIssue(issue) ==
  /\ fixing # NoPlaybook /\ issue \in ShownIssues(fixing)
  /\ fixResolved' = [fixResolved EXCEPT ![fixing] =
                       IF issue \in @ THEN @ \ {issue} ELSE @ \cup {issue}]
  /\ UNCHANGED <<auditLoading, audits, auditResults, fixing, fixToast>>

RerunAudit ==
  /\ fixing # NoPlaybook /\ AllResolved(fixing) /\ auditLoading # fixing
  /\ Audit(fixing, TRUE)
  /\ UNCHANGED <<auditResults, fixing, fixResolved, fixToast>>

PlaybooksNext ==
  \/ \E p \in Library : RunAudit(p) \/ OpenFixIssues(p)
  \/ \E a \in audits : \E result \in {Verdict(a.of), Unanswered} :
       AuditEnds(a, result) \/ SecondAnswer(a, result)
  \/ HideToast \/ CloseFixIssues \/ RerunAudit
  \/ \E issue \in Dimensions \cup {Unreachable} : TickIssue(issue)

PlaybooksSpec == PlaybooksInit /\ [][PlaybooksNext]_playbooksVars

-----------------------------------------------------------------------------
PlaybooksTypeOK ==
  /\ auditLoading \in Library \cup {NoPlaybook} /\ fixing \in Library \cup {NoPlaybook}
  /\ audits \subseteq [slot : AuditSlots, of : Library, drawer : BOOLEAN, second : BOOLEAN]
  /\ auditResults \in [Library -> [known : BOOLEAN, passed : BOOLEAN,
                                   issues : SUBSET (Dimensions \cup {Unreachable})]]
  /\ fixResolved \in [Library -> SUBSET (Dimensions \cup {Unreachable})]
  /\ fixToast \in Library \cup {NoPlaybook}

\* However audits overlap, whichever of them ends first and clears the one slot,
\* and though it leaves others running with no spinner, some twice at once: a
\* playbook that shows the spinner is being audited, so that no button stays
\* disabled, and the result under its card is of an audit of its own.
AuditsAnswerTheirOwn ==
  /\ auditLoading # NoPlaybook => \E a \in audits : ~a.second /\ a.of = auditLoading
  /\ \A p \in Library : auditResults[p] \in {NoResult, Verdict(p), Unanswered}

\* A playbook announced as ready to activate has Activate on its card, if it
\* was not listed as failed and the service answered the audit on record.
ReadyIsActivatable ==
  /\ fixToast \in Library \ SeededFailed
  /\ Unreachable \notin auditResults[fixToast].issues
  => ~FixOffered(fixToast)
=============================================================================
