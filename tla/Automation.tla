----------------------------- MODULE Automation -----------------------------
(***************************************************************************)
(* Rules and automation (app/automation/page.tsx): the list of rules, the  *)
(* three-step rule builder and the templates that fill it in.              *)
(*                                                                         *)
(* A new rule is numbered by the length of the list, so deleting a rule    *)
(* from the middle lets a later one take a number that is in use.          *)
(***************************************************************************)
EXTENDS Integers, Sequences, FiniteSets

CONSTANTS
  Seeded,     \* number of rules the page opens with
  MaxRules    \* bound: rules in the list

ASSUME AutomationAssumption == Seeded \in Nat /\ MaxRules \in Nat

VARIABLES
  rules,          \* the list: id and whether active
  showBuilder, builderStep,
  filled,         \* builder fields that are not empty
  showTemplates,
  gap,            \* history: a rule other than the newest was deleted
  sinceOpen       \* history: fields filled in since the builder was last opened

automationVars == <<rules, showBuilder, builderStep, filled, showTemplates, gap, sinceOpen>>
builderVars == <<showBuilder, builderStep, filled, sinceOpen>>

Fields == {"name", "trigger", "actions", "condition"}
Required == {"name", "trigger", "actions"}

RULES == [i \in 1..Seeded |-> [id |-> i, active |-> i # 5]]

AutomationInit ==
  /\ rules = RULES
  /\ showBuilder = FALSE /\ builderStep = 1 /\ filled = {}
  /\ showTemplates = FALSE
  /\ gap = FALSE /\ sinceOpen = {}

-----------------------------------------------------------------------------
(* The list.  Both operations address a rule by its number. *)

ToggleRule(id) ==
  /\ ~showBuilder /\ \E i \in DOMAIN rules : rules[i].id = id
  /\ rules' = [i \in DOMAIN rules |->
                 IF rules[i].id = id THEN [rules[i] EXCEPT !.active = ~@] ELSE rules[i]]
  /\ UNCHANGED <<builderVars, showTemplates, gap>>

\* All of its number go; the others stay in their order.
DeleteRule(id) ==
  /\ ~showBuilder /\ \E i \in DOMAIN rules : rules[i].id = id
  /\ LET others == {i \in DOMAIN rules : rules[i].id # id}
         n == Cardinality(others)
     IN  \E order \in [1..n -> others] :
           /\ \A j, k \in 1..n : j < k => order[j] < order[k]
           /\ rules' = [k \in 1..n |-> rules[order[k]]]
  /\ gap' = (gap \/ id # rules[Len(rules)].id)
  /\ UNCHANGED <<builderVars, showTemplates>>

-----------------------------------------------------------------------------
(* The builder. *)

ResetBuilder == builderStep' = 1 /\ filled' = {}

\* Mutant: what was typed before is kept.
OpenBuilder_AsLeft == /\ ~showBuilder
                      /\ showBuilder' = TRUE /\ sinceOpen' = {}
                      /\ UNCHANGED <<rules, builderStep, filled, showTemplates, gap>>

\* "New rule", and "Edit" of any rule, which opens the same empty builder.
OpenBuilder == /\ ~showBuilder
               /\ ResetBuilder /\ showBuilder' = TRUE /\ sinceOpen' = {}
               /\ UNCHANGED <<rules, showTemplates, gap>>

\* Closing keeps what was typed.
CloseBuilder == /\ showBuilder /\ showBuilder' = FALSE
                /\ UNCHANGED <<rules, builderStep, filled, showTemplates, gap, sinceOpen>>

ToggleTemplates == /\ ~showBuilder /\ showTemplates' = ~showTemplates
                   /\ UNCHANGED <<rules, builderVars, gap>>

\* A template fills in name, trigger and action, and leaves the condition of
\* an abandoned rule where it is.
ApplyTemplate ==
  /\ showTemplates /\ ~showBuilder
  /\ filled' = filled \cup Required /\ sinceOpen' = Required
  /\ showTemplates' = FALSE /\ builderStep' = 1 /\ showBuilder' = TRUE
  /\ UNCHANGED <<rules, gap>>

\* The fields drawn: the name on every step, each of the others on its own.
Drawn == {"name", CASE builderStep = 1 -> "trigger"
                    [] builderStep = 2 -> "actions"
                    [] OTHER -> "condition"}
FillIn(field) == /\ showBuilder /\ field \in Drawn
                 /\ filled' = filled \cup {field}
                 /\ sinceOpen' = sinceOpen \cup {field}
                 /\ UNCHANGED <<rules, showBuilder, builderStep, showTemplates, gap>>
\* A trigger can only be exchanged for another one.
ClearField(field) == /\ showBuilder /\ field \in Drawn \ {"trigger"}
                     /\ filled' = filled \ {field}
                     /\ UNCHANGED <<rules, showBuilder, builderStep, showTemplates, gap, sinceOpen>>

\* Mutant: "Next", with no last step.
SetBuilderStep_Next(s) == /\ showBuilder /\ builderStep' = builderStep + 1
                          /\ UNCHANGED <<rules, showBuilder, filled, showTemplates, gap, sinceOpen>>

\* The numbered tabs lead to any step.
SetBuilderStep(s) == /\ showBuilder /\ builderStep' = s
                     /\ UNCHANGED <<rules, showBuilder, filled, showTemplates, gap, sinceOpen>>

\* Mutant: the number is the length before the rule is added.
HandleSaveRule_OneTooLow ==
  /\ showBuilder /\ builderStep = 3 /\ Required \subseteq filled
  /\ Len(rules) < MaxRules
  /\ rules' = Append(rules, [id |-> Len(rules), active |-> TRUE])
  /\ showBuilder' = FALSE /\ ResetBuilder
  /\ UNCHANGED <<showTemplates, gap, sinceOpen>>

\* The condition is shown in the summary and not stored.
HandleSaveRule ==
  /\ showBuilder /\ builderStep = 3 /\ Required \subseteq filled
  /\ Len(rules) < MaxRules
  /\ rules' = Append(rules, [id |-> Len(rules) + 1, active |-> TRUE])
  /\ showBuilder' = FALSE /\ ResetBuilder
  /\ UNCHANGED <<showTemplates, gap, sinceOpen>>

AutomationNext ==
  \/ \E id \in 1..MaxRules : ToggleRule(id) \/ DeleteRule(id)
  \/ OpenBuilder \/ CloseBuilder \/ ToggleTemplates \/ ApplyTemplate \/ HandleSaveRule
  \/ \E field \in Fields : FillIn(field) \/ ClearField(field)
  \/ \E s \in 1..3 : SetBuilderStep(s)

AutomationSpec == AutomationInit /\ [][AutomationNext]_automationVars

-----------------------------------------------------------------------------
AutomationTypeOK ==
  /\ rules \in Seq([id : Nat, active : BOOLEAN])
  /\ showBuilder \in BOOLEAN /\ showTemplates \in BOOLEAN
  /\ builderStep \in 1..3
  /\ filled \subseteq Fields /\ sinceOpen \subseteq Fields
  /\ gap \in BOOLEAN

\* As long as only the newest rule is ever deleted, every rule has a number
\* of its own, so that a toggle or a deletion meets one rule.
OneRulePerNumber ==
  ~gap => \A i, j \in DOMAIN rules : rules[i].id = rules[j].id => i = j

\* A builder on screen holds nothing of a rule abandoned before it was
\* opened, except a condition under a template.
BuilderStartsClean == showBuilder => filled \subseteq sinceOpen \cup {"condition"}
                                  /\ (Required \subseteq sinceOpen \/ filled \subseteq sinceOpen)
=============================================================================
