------------------------------- MODULE Exports -------------------------------
(***************************************************************************)
(* The export suite (app/exports/page.tsx): the history with its           *)
(* selection and filter, and the modal that generates an export.           *)
(*                                                                         *)
(* Progress is an interval, and 400 ms after it is full a timer announces  *)
(* success.  Neither is cleared when the modal is closed, reopened or      *)
(* changed, and both write the one set of state that the modal shows.      *)
(***************************************************************************)
EXTENDS Integers, FiniteSets

CONSTANTS
  ExportChoices,       \* what can be chosen for an export: type, entity and format
  NoChoice,      \* the choice of a freshly opened modal
  Records,       \* the export history
  Types,         \* kinds of export
  TypeOf,        \* the kind of each record
  GeneratorSlots \* bound: one for each generator running

ASSUME ExportsAssumption ==
  /\ NoChoice \notin ExportChoices
  /\ IsFiniteSet(Records)
  /\ TypeOf \in [Records -> Types]

VARIABLES
  modalOpen, choice, generating, progressFull, downloadReady,
  generators,    \* runs of startGenerate: what for, and whether at the last timer
  overlapped,    \* history: the modal was changed or reopened over a generator
  filterType, selectedRows,
  refiltered     \* history: the filter changed over a selection

modalVars == <<modalOpen, choice, generating, progressFull, downloadReady,
               generators, overlapped>>
historyVars == <<filterType, selectedRows, refiltered>>
exportsVars == <<modalVars, historyVars>>

AllTypes == "all"
FilteredHistory == {r \in Records : filterType \in {AllTypes, TypeOf[r]}}

ExportsInit ==
  /\ modalOpen = FALSE /\ choice = NoChoice
  /\ generating = FALSE /\ progressFull = FALSE /\ downloadReady = FALSE
  /\ generators = {} /\ overlapped = FALSE
  /\ filterType = AllTypes /\ selectedRows = {} /\ refiltered = FALSE

-----------------------------------------------------------------------------
(* The modal. *)

OpenModal ==
  /\ ~modalOpen
  /\ modalOpen' = TRUE /\ choice' = NoChoice
  /\ generating' = FALSE /\ progressFull' = FALSE /\ downloadReady' = FALSE
  /\ overlapped' = (overlapped \/ generators # {})
  /\ UNCHANGED <<generators, historyVars>>

CloseModal ==
  /\ modalOpen /\ modalOpen' = FALSE
  /\ UNCHANGED <<choice, generating, progressFull, downloadReady, generators,
                 overlapped, historyVars>>

\* The selectors stay enabled while an export is generated.
Choose(c) ==
  /\ modalOpen /\ ~downloadReady /\ c # choice
  /\ choice' = c
  /\ overlapped' = (overlapped \/ generators # {})
  /\ UNCHANGED <<modalOpen, generating, progressFull, downloadReady, generators,
                 historyVars>>

\* Mutant: the button stays enabled while an export is generated.
StartGenerate_Again ==
  /\ modalOpen /\ ~downloadReady /\ choice # NoChoice
  /\ \E slot \in GeneratorSlots :
       /\ \A g \in generators : g.slot # slot
       /\ generators' = generators \cup {[slot |-> slot, for |-> choice, full |-> FALSE]}
  /\ generating' = TRUE /\ progressFull' = FALSE /\ downloadReady' = FALSE
  /\ UNCHANGED <<modalOpen, choice, overlapped, historyVars>>

StartGenerate ==
  /\ modalOpen /\ ~downloadReady /\ ~generating /\ choice # NoChoice
  /\ \E slot \in GeneratorSlots :
       /\ \A g \in generators : g.slot # slot
       /\ generators' = generators \cup {[slot |-> slot, for |-> choice, full |-> FALSE]}
  /\ generating' = TRUE /\ progressFull' = FALSE /\ downloadReady' = FALSE
  /\ UNCHANGED <<modalOpen, choice, overlapped, historyVars>>

\* The interval sets the one progress bar, and stops when it is full.
ProgressTick(g) ==
  /\ g \in generators /\ ~g.full
  /\ \/ progressFull' = FALSE /\ UNCHANGED generators
     \/ /\ progressFull' = TRUE
        /\ generators' = (generators \ {g}) \cup {[g EXCEPT !.full = TRUE]}
  /\ UNCHANGED <<modalOpen, choice, generating, downloadReady, overlapped, historyVars>>

Announce(g) ==
  /\ g \in generators /\ g.full
  /\ generators' = generators \ {g}
  /\ downloadReady' = TRUE
  /\ UNCHANGED <<modalOpen, choice, generating, progressFull, overlapped, historyVars>>

-----------------------------------------------------------------------------
(* The history, which an open modal covers. *)

SetFilterType(t) ==
  /\ ~modalOpen /\ t # filterType /\ filterType' = t
  /\ refiltered' = (refiltered \/ selectedRows # {})
  /\ UNCHANGED <<modalVars, selectedRows>>

ToggleSelect(r) ==
  /\ ~modalOpen /\ r \in FilteredHistory
  /\ selectedRows' = IF r \in selectedRows THEN selectedRows \ {r} ELSE selectedRows \cup {r}
  /\ UNCHANGED <<modalVars, filterType, refiltered>>

HeaderChecked ==
  /\ Cardinality(selectedRows) = Cardinality(FilteredHistory)
  /\ FilteredHistory # {}

ToggleAll ==
  /\ ~modalOpen
  /\ selectedRows' = IF Cardinality(selectedRows) = Cardinality(FilteredHistory)
                   THEN {} ELSE FilteredHistory
  /\ UNCHANGED <<modalVars, filterType, refiltered>>

ExportsNext ==
  \/ OpenModal \/ CloseModal \/ StartGenerate \/ ToggleAll
  \/ \E c \in ExportChoices \cup {NoChoice} : Choose(c)
  \/ \E g \in generators : ProgressTick(g) \/ Announce(g)
  \/ \E t \in Types \cup {AllTypes} : SetFilterType(t)
  \/ \E r \in Records : ToggleSelect(r)

ExportsSpec == ExportsInit /\ [][ExportsNext]_exportsVars

-----------------------------------------------------------------------------
ExportsTypeOK ==
  /\ modalOpen \in BOOLEAN /\ choice \in ExportChoices \cup {NoChoice}
  /\ generating \in BOOLEAN /\ progressFull \in BOOLEAN /\ downloadReady \in BOOLEAN
  /\ generators \subseteq [slot : GeneratorSlots, for : ExportChoices, full : BOOLEAN]
  /\ overlapped \in BOOLEAN /\ refiltered \in BOOLEAN
  /\ filterType \in Types \cup {AllTypes} /\ selectedRows \subseteq Records

\* As long as the modal is neither changed nor reopened over a generator, one
\* generator runs at most, for the choice on screen, and success is announced
\* only once it has ended.
AnnouncedWhenGenerated ==
  ~overlapped => /\ \A g \in generators : g.for = choice
                 /\ generators # {} => Cardinality(generators) = 1 /\ generating
                 /\ downloadReady => generators = {} /\ choice # NoChoice

\* The box in the header stands for the rows below it, as long as the filter
\* has not changed over a selection: it compares two sizes.
HeaderStandsForRows == ~refiltered => (HeaderChecked => selectedRows = FilteredHistory)
=============================================================================
