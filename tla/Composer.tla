------------------------------ MODULE Composer ------------------------------
(***************************************************************************)
(* Combined offers: the cross-playbook composer page                       *)
(* (app/build/composer/page.tsx), the activation endpoints it calls        *)
(* (api/v1/playbooks.py, services/backbone/playbook_engine.py) and the     *)
(* same activation reached from other sessions.                            *)
(*                                                                         *)
(* An offer takes three calls in a row, each of which commits: activate    *)
(* the first playbook, write the composition into the activation, turn it  *)
(* into an offer.  Nothing undoes the earlier ones when a later one fails, *)
(* and the first refuses a playbook that is already active.                *)
(***************************************************************************)
EXTENDS Integers, Sequences, SequencesExt

CONSTANTS
  Catalogue,       \* slugs of the playbooks listed
  MaxActivations,  \* bound: activations on record
  ActivatingSlots  \* bound: one for each activation being handled

ASSUME ComposerAssumption == MaxActivations \in Nat

VARIABLES
  picked,        \* the page's selection, in the order of the clicks
  result,        \* the composition on screen: its source slugs, or <<>>
  step,          \* what "composing" waits for
  composingOf,   \* the slugs the composition in flight was asked for
  activationId,  \* the activation the running create works on
  activating,    \* activate requests being handled
  activations,   \* playbook_activations: slug and customizations of each
  offers,        \* offers made: from which activation, with what composition
  ready,         \* whether FounderReadiness.gate allows an offer
  raced          \* history: two activations of one playbook were checked at once

pageVars == <<picked, result, step, composingOf, activationId>>
serverVars == <<activating, activations, offers, ready, raced>>
composerVars == <<pageVars, serverVars>>

Compositions == {s \in UNION {[1..n -> Catalogue] : n \in 0..3} :
                   \A i, j \in DOMAIN s : s[i] = s[j] => i = j}
Has(s, slug) == \E i \in DOMAIN s : s[i] = slug
\* A selection names a slug once.
Without(s, slug) == RemoveAt(s, CHOOSE i \in DOMAIN s : s[i] = slug)

ComposerInit ==
  /\ picked = <<>> /\ result = <<>> /\ step = "idle" /\ composingOf = <<>>
  /\ activationId = 0
  /\ activating = {} /\ activations = <<>> /\ offers = {}
  /\ ready \in BOOLEAN /\ raced = FALSE

-----------------------------------------------------------------------------
(* Choosing and composing.  The cards stay enabled while a call runs. *)

TogglePlaybook(slug) ==
  /\ picked' = IF Has(picked, slug) THEN Without(picked, slug)
               ELSE IF Len(picked) < 3 THEN Append(picked, slug) ELSE picked
  /\ UNCHANGED <<result, step, composingOf, activationId, serverVars>>

HandleCompose ==
  /\ Len(picked) >= 2 /\ step = "idle"
  /\ step' = "compose" /\ composingOf' = picked
  /\ UNCHANGED <<picked, result, activationId, serverVars>>

\* An error leaves the composition that was on screen.
ComposeAnswered ==
  /\ step = "compose" /\ step' = "idle"
  /\ result' \in {composingOf, result}
  /\ UNCHANGED <<picked, composingOf, activationId, serverVars>>

-----------------------------------------------------------------------------
(* Activation, from this page or from any other session. *)

Activate(slug, fromPage) ==
  \E slot \in ActivatingSlots :
    /\ \A h \in activating : h.slot # slot
    /\ activating' = activating \cup
         {[slot |-> slot, slug |-> slug, page |-> fromPage, checked |-> FALSE]}

HandleCreateCombinedOffer ==
  /\ result # <<>> /\ step = "idle"
  /\ Activate(Head(result), TRUE)
  /\ step' = "activate"
  /\ UNCHANGED <<picked, result, composingOf, activationId, activations, offers, ready, raced>>

ActivateElsewhere(slug) ==
  Activate(slug, FALSE) /\ UNCHANGED <<pageVars, activations, offers, ready, raced>>

IsActive(slug) == \E i \in DOMAIN activations : activations[i].slug = slug

\* The page's call is over without an activation to go on with.
GivesUp(h) == step' = IF h.page THEN "idle" ELSE step

CheckActivated(h) ==
  /\ h \in activating /\ ~h.checked
  /\ IF IsActive(h.slug)
       THEN /\ activating' = activating \ {h}
            /\ GivesUp(h) /\ UNCHANGED raced
       ELSE /\ activating' = (activating \ {h}) \cup {[h EXCEPT !.checked = TRUE]}
            /\ raced' = (raced \/ \E g \in activating : g.checked /\ g.slug = h.slug)
            /\ UNCHANGED step
  /\ UNCHANGED <<picked, result, composingOf, activationId, activations, offers, ready>>

\* The row commits; its answer may still be lost.
ActivatePlaybook(h) ==
  /\ h \in activating /\ h.checked /\ Len(activations) < MaxActivations
  /\ activations' = Append(activations, [slug |-> h.slug, composition |-> <<>>])
  /\ activating' = activating \ {h}
  /\ \/ GivesUp(h) /\ UNCHANGED activationId
     \/ h.page /\ step' = "customize" /\ activationId' = Len(activations) + 1
  /\ UNCHANGED <<picked, result, composingOf, offers, ready, raced>>

ActivateFails(h) ==
  /\ h \in activating /\ activating' = activating \ {h} /\ GivesUp(h)
  /\ UNCHANGED <<picked, result, composingOf, activationId, activations, offers, ready, raced>>

-----------------------------------------------------------------------------
(* The two calls that follow. *)

\* Mutant: what is selected by now is written.
CustomizePlaybook_Picked ==
  /\ step = "customize"
  /\ activations' = [activations EXCEPT ![activationId].composition = picked]
  /\ step' \in {"offer", "idle"}
  /\ UNCHANGED <<picked, result, composingOf, activationId, activating, offers, ready, raced>>

CustomizePlaybook ==
  /\ step = "customize"
  /\ activations' = [activations EXCEPT ![activationId].composition = result]
  /\ step' \in {"offer", "idle"}
  /\ UNCHANGED <<picked, result, composingOf, activationId, activating, offers, ready, raced>>

\* With the answer the page leaves for the offer; coming back it is empty.
ActivateToOffer ==
  /\ step = "offer" /\ ready /\ step' = "idle"
  /\ offers' = offers \cup {[from |-> activationId,
                             slug |-> activations[activationId].slug,
                             composition |-> activations[activationId].composition]}
  /\ \/ picked' = <<>> /\ result' = <<>>
     \/ UNCHANGED <<picked, result>>
  /\ UNCHANGED <<composingOf, activationId, activating, activations, ready, raced>>

\* The call is lost, or the gate refuses it.
CallFails ==
  /\ step \in {"customize", "offer"} /\ step' = "idle"
  /\ UNCHANGED <<picked, result, composingOf, activationId, serverVars>>

\* Assessments of the founder come and go.
Assess == /\ ready' = ~ready
          /\ UNCHANGED <<pageVars, activating, activations, offers, raced>>

ComposerNext ==
  \/ \E slug \in Catalogue : TogglePlaybook(slug) \/ ActivateElsewhere(slug)
  \/ HandleCompose \/ ComposeAnswered \/ HandleCreateCombinedOffer
  \/ \E h \in activating : CheckActivated(h) \/ ActivatePlaybook(h) \/ ActivateFails(h)
  \/ CustomizePlaybook \/ ActivateToOffer \/ CallFails \/ Assess

ComposerSpec == ComposerInit /\ [][ComposerNext]_composerVars

-----------------------------------------------------------------------------
ComposerTypeOK ==
  /\ {picked, result, composingOf} \subseteq Compositions
  /\ step \in {"idle", "compose", "activate", "customize", "offer"}
  /\ activationId \in 0..MaxActivations
  /\ activating \subseteq [slot : ActivatingSlots, slug : Catalogue,
                           page : BOOLEAN, checked : BOOLEAN]
  /\ Len(activations) <= MaxActivations
  /\ \A i \in DOMAIN activations : /\ activations[i].slug \in Catalogue
                                   /\ activations[i].composition \in Compositions
  /\ ready \in BOOLEAN /\ raced \in BOOLEAN

\* An offer is what the operator composed: at least two playbooks, the first
\* of them the one whose activation it was made from, whatever was selected,
\* lost or retried in between.  Unless two activations of one playbook are
\* checked at the same time, no playbook is activated twice, and trying again
\* after a lost answer never makes a second offer of the same first playbook.
OffersAreSound ==
  /\ \A o \in offers : Len(o.composition) >= 2 /\ Head(o.composition) = o.slug
  /\ ~raced => /\ \A i, j \in DOMAIN activations :
                     activations[i].slug = activations[j].slug => i = j
               /\ \A o, p \in offers : o.slug = p.slug => o = p
=============================================================================
