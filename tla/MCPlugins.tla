----------------------------- MODULE MCPlugins -----------------------------
(* A kickstart batch and a lookup, which share nothing: the inputs of one  *)
(* vary while the other has little to do.                                  *)
EXTENDS KickstartBatch, Lookups

CONSTANTS c1, c2, c3, tA, tB

TwoTests == (c1 :> tA) @@ (c2 :> tA) @@ (c3 :> tB)

TimedTasks == [kind : {"beaker"}, timeout : {-1, 0, 1, 4}, step : {1, 3}]
              \cup [kind : {"koji"}, timeout : {-1, 0, 1, 4}, step : {0, 1, 3}]
CountedTasks == [kind : {"ip", "port"}, attempts : {0, 1, 3}, step : {2}, growth : {1}]
                \cup [kind : {"retry"}, attempts : {0, 1, 4}, step : {1}, growth : {1, 2, 3}]
Id == {<<1>>, <<1, 1>>, <<1, 2>>, <<2>>, <<2, 1>>}
Lists == {<<>>} \cup {<<i>> : i \in Id} \cup Id \X Id \cup Id \X Id \X {<<1>>, <<1, 2>>}
ComposedTasks == [kind : {"accepted"}, lists : {<<a, b>> : a, b \in Lists}]
                 \cup [kind : {"previous"}, lists : {<<a>> : a \in Lists}, own : Id]

AllTasks == TimedTasks \cup CountedTasks \cup ComposedTasks

(* One of the two is nearly idle. *)
SomeBatch == [arch |-> "unsupported", params |-> FALSE, urls |-> FALSE, bootIso |-> "none",
              localRepo |-> FALSE, retry |-> FALSE, dryRun |-> FALSE]
SomeTask == [kind |-> "previous", lists |-> <<<<>>>>, own |-> <<1>>]

Init ==
  /\ \/ given = SomeBatch /\ task \in Tasks
     \/ given \in Inputs /\ task = SomeTask
  /\ appears \in IF task.kind \in Composed THEN {0} ELSE 0..(MaxTime + 1)
  /\ KickstartInit /\ LookupInit

Next ==
  \/ KickstartNext /\ UNCHANGED lookupVars
  \/ LookupNext /\ UNCHANGED kickstartVars

Spec ==
  /\ Init /\ [][Next]_<<kickstartVars, lookupVars>>
  /\ WF_<<kickstartVars, lookupVars>>(KickstartNext /\ UNCHANGED lookupVars)
  /\ WF_<<kickstartVars, lookupVars>>(LookupNext /\ UNCHANGED kickstartVars)
=============================================================================
