----------------------------- MODULE MCPipeline -----------------------------
(* A run of the pipeline whose workers are the report senders of Issues.   *)
EXTENDS Pipeline, Issues, TLC

CONSTANTS c1, c2, k1, s1, s2

(* Callbacks of the program, of plugins/jenkins and shutdown_delay, and one *)
(* more that may raise.                                                    *)
Starting == <<"signalWhenStarted", "plugin_on_starting">>
Started == <<"webUIStartedMsg", "set_jenkins_build_info">>
AtEnd == <<"render_static", "shutdownDelay">>
Rendered == <<"set_jenkins_build_info_static_webui">>

OneKey == (c1 :> {k1}) @@ (c2 :> {})
TwoAndOne == (s1 :> {c1, c2}) @@ (s2 :> {c1})

Finals(a, b) == (c1 :> a) @@ (c2 :> b)
Pass == Res("complete", "PASS", TRUE)
NoOutcome == Res("complete", "None", TRUE)
Usual == [results |-> Finals(Pass, Pass), submitters |-> Sender, resolved |-> {},
          create |-> TRUE, update |-> TRUE, insteadOfUpdate |-> FALSE]
SomeInputs ==
  {Usual,
   [Usual EXCEPT !.insteadOfUpdate = TRUE, !.results = Finals(NoOutcome, Pass)],
   [Usual EXCEPT !.create = FALSE, !.update = FALSE, !.submitters = {s1},
                 !.results = Finals(Res("complete", "FAIL", TRUE), Pass)],
   [Usual EXCEPT !.resolved = {k1}, !.update = FALSE, !.submitters = {s1}],
   [Usual EXCEPT !.results = Finals(Res("canceled", "None", TRUE), Pass), !.submitters = {s1}],
   [Usual EXCEPT !.results = Finals(NoOutcome, NoOutcome), !.submitters = {s1}]}

mcVars == <<pipelineVars, issueVars>>

Init == PipelineInit /\ IssuesInit

(* A sender runs while its thread is alive, and its thread ends with it.   *)
(* Other threads do not care for senders: a plugin's hook is called after   *)
(* all else they do, and a daemon thread does not end while they work.     *)
(* TestRuns.wait returns false if a sender raised.                         *)
MainStep ==
  /\ MainThread /\ UNCHANGED issueVars
  /\ main = "wait" => (returnCode' = 1 <=> \E s \in Sender : pc[s] = "failed")
WebUIStep == WebUIThread /\ UNCHANGED issueVars
SignalStep == SignalThread /\ UNCHANGED issueVars
EndStep(t) ==
  /\ t.name \in Sender => pc[t.name] \in {"done", "failed"}
  /\ t.daemon => main # "wait" \/ \A s \in Sender : pc[s] \in {"done", "failed"}
  /\ ThreadEnds(t) /\ UNCHANGED issueVars
SenderStep(s) ==
  /\ [name |-> s, daemon |-> FALSE] \in alive
  /\ IssueStep(s) /\ UNCHANGED pipelineVars
PluginStep ==
  /\ \A s \in Sender : pc[s] \in {"done", "failed"}
  /\ PluginHook /\ UNCHANGED issueVars
OthersStep ==
  /\ main = "wait"
  /\ (\E o \in Object : ForceSync(o)) \/ (\E k \in Key : FiledByOthers(k))
  /\ UNCHANGED pipelineVars

Next ==
  \/ MainStep \/ WebUIStep \/ SignalStep \/ OthersStep
  \/ (PortTaken \/ PollRaises) /\ UNCHANGED issueVars
  \/ PluginStep
  \/ \E t \in Thread : EndStep(t)
  \/ \E s \in Sender : SenderStep(s)

Spec ==
  /\ Init /\ [][Next]_mcVars
  /\ WF_mcVars(MainStep) /\ WF_mcVars(WebUIStep) /\ WF_mcVars(SignalStep)
  /\ \A t \in [name : Names, daemon : {FALSE}] : WF_mcVars(EndStep(t))
  /\ \A s \in Sender : WF_mcVars(SenderStep(s))
=============================================================================
