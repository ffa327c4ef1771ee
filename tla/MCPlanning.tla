----------------------------- MODULE MCPlanning -----------------------------
(* Planning with two kinds of inputs: events whose type, structures,       *)
(* settings and library branches vary, and libraries whose test plans and  *)
(* subsets vary.                                                           *)
EXTENDS Planning, TLC

DottedNames == <<".", "a", "b">>

X == [architecture |-> "x86"]
A == [architecture |-> "arm"]
XB == [architecture |-> "x86", boot |-> "efi"]
B == [boot |-> "efi"]

AllOptions == {"github", "reportSenders"} \X {"issues"} \cup
              {"library"} \X {"defaultCaseConfigMergeMethod", "branchNameStrategy", "directPath"}

NoSettings == [i \in {} |-> ""]
Sources == [default |-> (<<"library", "defaultCaseConfigMergeMethod">> :> "extension")
                        @@ (<<"library", "branchNameStrategy">> :> "drop-least-significant")
                        @@ (<<"reportSenders", "issues">> :> "no"),
            plugins |-> (<<"github", "issues">> :> "no"),
            custom |-> NoSettings, library |-> NoSettings,
            environment |-> NoSettings, overrides |-> NoSettings]

SetIn(sources, source, option, value) == [sources EXCEPT ![source] = (option :> value) @@ @]

NoSubset == [on |-> FALSE, plans |-> {}, queriedPlans |-> {}, cases |-> {}, configurations |-> {}]

Basic == [
  type |-> <<"a", ".", "b">>, registered |-> {<<"a">>},
  sources |-> Sources, library |-> NoSettings,
  structures |-> <<>>, asks |-> [t \in Thread |-> <<>>], baseurl |-> TRUE, trees |-> TRUE,
  branch |-> <<"Foo", "1", "2">>, existing |-> {<<"Foo", "1", "2">>},
  plans |-> <<>>, additional |-> <<>>, subset |-> NoSubset,
  cases |-> [c \in Case |-> [configured |-> FALSE, configurations |-> <<>>, type |-> "manual"]]]

(* Event types, settings and branches. *)
Types == {[Basic EXCEPT !.type = t, !.registered = r] :
           t \in {<<"a", ".", "b">>, <<"a", "b">>, <<"b">>},
           r \in SUBSET {<<"a">>, <<"a", ".", "b">>, <<"a", "b">>, <<"a", "b", ".", "a">>}}

IssuesOption == {<<"github", "issues">>, <<"reportSenders", "issues">>}
Overridden ==
  {[Basic EXCEPT !.sources = SetIn(SetIn(Sources, s1, o1, "yes"), s2, o2, "maybe"),
                 !.library = l :> "library"] :
     s1, s2 \in {"overrides", "environment", "custom"}, o1, o2, l \in IssuesOption}

Branches ==
  {[Basic EXCEPT !.existing = e, !.sources = SetIn(SetIn(Sources, "custom", <<"library", "branchNameStrategy">>, s),
                                              "custom", <<"library", "directPath">>, d)] :
     e \in SUBSET {<<"Foo", "1", "2">>, <<"Foo", "1">>, <<"Foo">>, <<"Bar">>},
     s \in {"exact-match", "drop-least-significant"}, d \in {"unset", "directory"}}
  \cup {[Basic EXCEPT !.branch = b, !.existing = e] :
           b \in {<<"Foo", "1", "">>, <<"Foo", "", "2">>, <<"", "1", "2">>},
           e \in SUBSET {<<"Foo">>, <<"Foo", "">>, <<"Foo", "1">>, <<"", "1">>, <<"">>}}

(* Two threads that ask for structures. *)
Wanted == {<<"compose", "product">>, <<"bootIso", "compose", "bootIso">>,
           <<"beakerCompose", "product">>, <<"InstallationSource">>}
Structures ==
  {[Basic EXCEPT !.structures = s, !.asks = a, !.baseurl = b, !.trees = t] :
     s \in {<<"koji_build">>, <<"compose">>, <<"koji_build", "kstestParams">>},
     a \in [Thread -> Wanted], b, t \in BOOLEAN}

(* Libraries with two test plans and two test cases. *)
PlanA(confs, group) == [id |-> "A", artifact |-> <<"a">>, executeOn |-> TRUE,
  configurations |-> confs, cases |-> <<"one", "two">>, reporting |-> <<group>>]
PlanB(artifact, on) == [id |-> "B", artifact |-> artifact, executeOn |-> on,
  configurations |-> <<X, A>>, cases |-> <<"one">>, reporting |-> <<<<>>, <<"boot", "architecture">>>>]

Cases(configured, confs, type) ==
  [c \in Case |-> IF c = "one" THEN [configured |-> configured, configurations |-> confs, type |-> type]
                  ELSE [configured |-> TRUE, configurations |-> <<X, B>>, type |-> "kickstart-test"]]

Libraries ==
  {[Basic EXCEPT !.plans = <<PlanA(self, group), PlanB(<<"a">>, TRUE)>>,
                 !.library = <<"library", "defaultCaseConfigMergeMethod">> :> method,
                 !.cases = Cases(other # <<>>, other, type), !.additional = more] :
     self \in {<<>>, <<X>>, <<X, B>>}, group \in {<<>>, <<"architecture">>, <<"boot">>},
     method \in {"extension", "intersection", "union"},
     other \in {<<>>, <<X, A>>, <<X, B, X>>, <<XB>>},
     type \in {"manual", "kickstart-test"}, more \in {<<>>, <<<<>>>>}}

Subsets ==
  {[Basic EXCEPT !.plans = <<PlanA(<<X, B>>, <<"boot">>), PlanB(artifact, on)>>,
                 !.cases = Cases(TRUE, <<X, B>>, "manual"),
                 !.subset = [on |-> TRUE, plans |-> p, queriedPlans |-> q, cases |-> c,
                             configurations |-> w]] :
     artifact \in {<<"a">>, <<"b">>}, on \in BOOLEAN,
     p \in SUBSET Plan, q \in {{"A"}, Plan}, c \in SUBSET Case,
     w \in {{}, {<<>>}, {X}, {XB, A}}}

AllSetups == Types \cup Overridden \cup Branches \cup Structures \cup Libraries \cup Subsets
=============================================================================
