------------------------------- MODULE Planning -------------------------------
(***************************************************************************)
(* The construction of TestRuns: the case-run-configurations that the      *)
(* event takes from the library, run_subset's choice among them, and the   *)
(* workflows and report senders made for them.  It goes on where the       *)
(* preparation ends, in the same thread.                                   *)
(*                                                                         *)
(* A configuration is a function from some keys to values.  Queries of the *)
(* library and of run_subset are external: they are the sets that they     *)
(* accept.                                                                 *)
(***************************************************************************)
EXTENDS Preparation

CONSTANTS
  Case,                \* test cases
  Plan,                \* ids of test plans
  ConfKey, ConfValue   \* keys and values of configurations

Configuration == UNION {[K -> ConfValue] : K \in SUBSET ConfKey}
NoKey == "None"        \* what configuration.get returns for a missing key

(* The elements of list that are in S, in their order. *)
Only(list, S) ==
  FoldLeft(LAMBDA chosen, x : IF x \in S THEN Append(chosen, x) ELSE chosen, <<>>, list)

VARIABLES
  stage,      \* where the construction is
  plansLeft,  \* test plans of the library still to be looked at
  crcs,       \* caseRunConfigurations: a list
  workflows,  \* the workflows: lists of crcs with the type of their cases
  senders     \* the report senders, with their crcs

planningVars == <<stage, plansLeft, crcs, workflows, senders>>

TestPlan == [id : Plan, artifact : Seq(STRING), executeOn : BOOLEAN,
             configurations : Seq(Configuration), cases : Seq(Case),
             reporting : Seq(Seq(ConfKey))]
TestCase == [configured : BOOLEAN, configurations : Seq(Configuration), type : STRING]

(* What the library and the event have for the planning: the test plans in *)
(* their order, which the library keeps by their ids, the test cases,      *)
(* reportings for all plans, and what run_subset accepts.                  *)
PlansOK(s) ==
  /\ s.plans \in Seq(TestPlan) /\ s.cases \in [Case -> TestCase]
  /\ \A i, j \in DOMAIN s.plans : s.plans[i].id = s.plans[j].id => i = j
  /\ s.additional \in Seq(Seq(ConfKey))
  /\ s.subset.plans \subseteq Plan /\ s.subset.queriedPlans \subseteq Plan
  /\ s.subset.cases \subseteq Case
  /\ s.subset.configurations \subseteq Configuration

ASSUME PlanningAssumption == \A s \in Setups : PlansOK(s)

PlanningInit ==
  /\ PreparationInit
  /\ stage = "generate"
  /\ plansLeft = setup.plans
  /\ crcs = <<>>
  /\ workflows = {}
  /\ senders = {}

----------------------------------------------------------------------------
(* Configurations.                                                         *)

Method == Setting("defaultCaseConfigMergeMethod")

(* compatible_with of the two kinds of ConfigurationDict. *)
Compatible(s, o) ==
  IF Method = "intersection" THEN s = o
  ELSE \A k \in DOMAIN s \cap DOMAIN o : s[k] = o[k]

(* Their merge: the other one, extended by the keys it does not have. *)
Merged(s, o) ==
  IF Method = "intersection" THEN o
  ELSE [k \in DOMAIN s \cup DOMAIN o |-> IF k \in DOMAIN o THEN o[k] ELSE s[k]]

(* ConfigurationsList.merge: a test plan without configurations takes those *)
(* of the test case, and one without any is one with an empty one.         *)
MergedList(self, case) ==
  LET other == IF case.configured THEN case.configurations ELSE <<<<>>>>
      With(s) == LET fits == Only(other, {o \in ToSet(other) : Compatible(s, o)})
                 IN [i \in DOMAIN fits |-> Merged(s, fits[i])]
  IN IF self = <<>> THEN other
     ELSE FlattenSeq([i \in DOMAIN self |-> With(self[i])])

----------------------------------------------------------------------------
(* Case-run-configurations.                                                *)

(* CaseRunConfiguration.__eq__. *)
Same(a, b) == a.case = b.case /\ a.configuration = b.configuration

(* CaseRunConfigurationsList.append, with __iadd__. *)
AppendCrc(list, crc) ==
  LET equal == {i \in DOMAIN list : Same(list[i], crc)}
  IN IF equal = {} THEN Append(list, crc)
     ELSE LET i == CHOOSE i \in equal : \A j \in equal : i <= j
          IN [list EXCEPT ![i].runningFor = @ \cup crc.runningFor]

(* handles_testplan_artifact_type and execute_on. *)
Selected(p) == StartsWith(setup.type, p.artifact) /\ p.executeOn

(* The crcs of a test plan, in the order in which they are made. *)
CrcsOf(p) ==
  LET Of(c) == LET confs == MergedList(p.configurations, setup.cases[c])
               IN [i \in DOMAIN confs |-> [case |-> c, configuration |-> confs[i],
                                           runningFor |-> {p.id}]]
  IN FlattenSeq([i \in DOMAIN p.cases |-> Of(p.cases[i])])

(* The next test plan of the library; it is passed over if the event does  *)
(* not select it.                                                          *)
AddTestPlan ==
  /\ phase = "ready" /\ stage = "generate" /\ plansLeft # <<>>
  /\ LET p == Head(plansLeft)
     IN /\ Selected(p) => Method \in {"intersection", "extension"}
        /\ crcs' = IF Selected(p) THEN FoldLeft(AppendCrc, crcs, CrcsOf(p)) ELSE crcs
  /\ plansLeft' = Tail(plansLeft)
  /\ UNCHANGED <<stage, workflows, senders>>

(* UnknownTestConfigurationMergeMethod. *)
MethodUnknown ==
  /\ phase = "ready" /\ stage = "generate" /\ plansLeft # <<>>
  /\ Selected(Head(plansLeft)) /\ Method \notin {"intersection", "extension"}
  /\ stage' = "raised"
  /\ UNCHANGED <<plansLeft, crcs, workflows, senders>>

Generated ==
  /\ phase = "ready" /\ stage = "generate" /\ plansLeft = <<>>
  /\ stage' = "filter"
  /\ UNCHANGED <<plansLeft, crcs, workflows, senders>>

----------------------------------------------------------------------------
(* run_subset.                                                             *)

(* Mutant of Narrowed: the test plans of a crc are left as they are. *)
NotNarrowed(crc) == crc

(* A crc runs for the test plans that are listed and queried. *)
Narrowed(crc) ==
  [crc EXCEPT !.runningFor = @ \cap setup.subset.plans \cap setup.subset.queriedPlans]

(* Wanted configurations, which are parts of those of crcs. *)
HasConfiguration(crc) ==
  \E wanted \in setup.subset.configurations :
    \A k \in DOMAIN wanted : k \in DOMAIN crc.configuration /\ crc.configuration[k] = wanted[k]

(* The filters after the test plans. *)
Passes(crc) ==
  /\ crc.runningFor # {}
  /\ crc.case \in setup.subset.cases
  /\ HasConfiguration(crc)

(* generate_caseRunConfigurations of RunSubsetEvent after that of the       *)
(* original event.                                                         *)
FilterSubset ==
  /\ stage = "filter"
  /\ crcs' = IF setup.subset.on
             THEN LET narrowed == [i \in DOMAIN crcs |-> Narrowed(crcs[i])]
                  IN Only(narrowed, {crc \in ToSet(narrowed) : Passes(crc)})
             ELSE crcs
  /\ stage' = "workflows"
  /\ UNCHANGED <<plansLeft, workflows, senders>>

----------------------------------------------------------------------------
(* Groups.                                                                 *)

(* by_key: the list split by the keys of its crcs, as a set of lists. *)
ByKey(list, keyOf) ==
  {Only(list, {crc \in ToSet(list) : keyOf[crc] = k}) : k \in {keyOf[crc] : crc \in ToSet(list)}}

(* The key of by_configuration. *)
Values(crc, keys) ==
  [i \in DOMAIN keys |->
     IF keys[i] \in DOMAIN crc.configuration THEN crc.configuration[keys[i]] ELSE NoKey]

TypeOf(crc) == setup.cases[crc.case].type

(* What the factory of a workflow groups by: the architecture, or the id,  *)
(* which tells crcs apart that are not equal.                              *)
WorkflowKey(crc) ==
  IF TypeOf(crc) = "kickstart-test" THEN Values(crc, <<"architecture">>)
  ELSE <<crc.case, crc.configuration>>

(* WorkflowFactory.assign: unknown types have a class, too. *)
AssignWorkflows ==
  /\ stage = "workflows"
  /\ LET type == [crc \in ToSet(crcs) |-> TypeOf(crc)]
         key == [crc \in ToSet(crcs) |-> WorkflowKey(crc)]
     IN workflows' = UNION {{[type |-> type[list[1]], crcs |-> group] : group \in ByKey(list, key)}
                            : list \in ByKey(crcs, type)}
  /\ stage' = "senders"
  /\ UNCHANGED <<plansLeft, crcs, senders>>

(* Mutant of OfPlan: the senders of a test plan get all crcs. *)
OfAnyPlan(p) == crcs

(* by_testplan. *)
OfPlan(p) == Only(crcs, {crc \in ToSet(crcs) : p \in crc.runningFor})

(* The senders of a test plan: one for each group of each of its reportings *)
(* and of the additional ones; without group_by all crcs are one group.    *)
SendersOf(p) ==
  LET reportings == p.reporting \o setup.additional
  IN UNION {{[plan |-> p.id, reporting |-> r, group |-> Values(group[1], reportings[r]), crcs |-> group]
              : group \in ByKey(OfPlan(p.id), [crc \in ToSet(crcs) |-> Values(crc, reportings[r])])}
             : r \in DOMAIN reportings}

(* ReportSenderFactory.assign. *)
AssignSenders ==
  /\ stage = "senders"
  /\ senders' = UNION {SendersOf(setup.plans[i]) : i \in DOMAIN setup.plans}
  /\ stage' = "planned"
  /\ UNCHANGED <<plansLeft, crcs, workflows>>

PlanStep ==
  \/ AddTestPlan \/ MethodUnknown \/ Generated \/ FilterSubset \/ AssignWorkflows
  \/ AssignSenders

PlanningNext ==
  \/ PreparationNext /\ UNCHANGED planningVars
  \/ PlanStep /\ UNCHANGED preparationVars

PlanningSpec ==
  /\ PlanningInit
  /\ [][PlanningNext]_<<preparationVars, planningVars>>

----------------------------------------------------------------------------
(* Properties.                                                             *)

(* s is a part of conf. *)
PartOf(s, conf) == \A k \in DOMAIN s : k \in DOMAIN conf /\ conf[k] = s[k]

(* Test plan p asks for test case c in configuration conf: conf is what     *)
(* both have, or the least that extends one of each.                       *)
Asks(p, c, conf) ==
  LET other == IF setup.cases[c].configured THEN ToSet(setup.cases[c].configurations) ELSE {<<>>}
  IN /\ Selected(p) /\ c \in ToSet(p.cases)
     /\ IF p.configurations = <<>> THEN conf \in other
        ELSE \E s \in ToSet(p.configurations), o \in other :
               /\ PartOf(s, conf) /\ PartOf(o, conf)
               /\ DOMAIN conf = DOMAIN s \cup DOMAIN o
               /\ Method = "intersection" => s = o

(* The test plans that ask for c in conf. *)
AskedBy(c, conf) == {p.id : p \in {q \in ToSet(setup.plans) : Asks(q, c, conf)}}

(* What run_subset leaves of them. *)
LeftOf(c, conf) ==
  IF ~setup.subset.on THEN AskedBy(c, conf)
  ELSE IF c \in setup.subset.cases /\ \E w \in setup.subset.configurations : PartOf(w, conf)
       THEN AskedBy(c, conf) \cap setup.subset.plans \cap setup.subset.queriedPlans
       ELSE {}

(* A test case is run once in each configuration that some test plan asks  *)
(* for, for exactly the test plans that do; what a subset excludes is      *)
(* neither executed nor reported to a test plan that is not part of it.    *)
PlannedOnce ==
  stage \in {"filter", "workflows", "senders", "planned"} =>
    LET Wanted(c, conf) == IF stage = "filter" THEN AskedBy(c, conf) ELSE LeftOf(c, conf)
    IN /\ \A i, j \in DOMAIN crcs : Same(crcs[i], crcs[j]) => i = j
       /\ \A c \in Case, conf \in Configuration :
            Wanted(c, conf) # {} =>
              \E i \in DOMAIN crcs : crcs[i].case = c /\ crcs[i].configuration = conf
       /\ \A i \in DOMAIN crcs :
            crcs[i].runningFor = Wanted(crcs[i].case, crcs[i].configuration)

(* Each crc has one workflow, of the type of its test case; the crcs of a  *)
(* kickstart workflow have one architecture, any other has one crc.        *)
OneWorkflowEach ==
  stage \in {"senders", "planned"} =>
    /\ \A i \in DOMAIN crcs :
         Cardinality({w \in workflows : crcs[i] \in ToSet(w.crcs)}) = 1
    /\ \A w \in workflows : \A i, j \in DOMAIN w.crcs :
         /\ TypeOf(w.crcs[i]) = w.type
         /\ IF w.type = "kickstart-test"
            THEN LET A(conf) == IF "architecture" \in DOMAIN conf THEN conf["architecture"] ELSE NoKey
                 IN A(w.crcs[i].configuration) = A(w.crcs[j].configuration)
            ELSE i = j

(* Every reporting of a test plan covers each of its crcs by one sender,    *)
(* and crcs that differ in a key of group_by go to different ones.         *)
SendersCover ==
  stage = "planned" =>
    \A n \in DOMAIN setup.plans, i \in DOMAIN crcs :
      LET p == setup.plans[n]
          reportings == p.reporting \o setup.additional
      IN \A r \in DOMAIN reportings :
           LET Of == {s \in senders : s.plan = p.id /\ s.reporting = r /\ crcs[i] \in ToSet(s.crcs)}
           IN /\ Cardinality(Of) = IF p.id \in crcs[i].runningFor THEN 1 ELSE 0
              /\ \A s \in Of : \A b \in ToSet(s.crcs), k \in ToSet(reportings[r]) :
                   Values(crcs[i], <<k>>) = Values(b, <<k>>)

(* Every planned crc is run once and told to everyone who is to know. *)
EachServed == OneWorkflowEach /\ SendersCover
=============================================================================
