---------------------------- MODULE ReportSenders ----------------------------
(***************************************************************************)
(* The report sender threads of libpermian/reportsenders/base.py.  Each    *)
(* sender owns a FIFO of result updates and a private copy (view) of the   *)
(* results it reports; other threads only append to the FIFO.              *)
(*                                                                         *)
(* On its own the module is run against an environment that may deliver    *)
(* any result at any time; TestRuns replaces that environment by the       *)
(* threads that really call resultUpdate.                                  *)
(***************************************************************************)
EXTENDS Results, Sequences, FiniteSets

CONSTANTS
  CRC,          \* case-run-configurations
  TestCase,     \* test cases
  testcaseOf,   \* [CRC -> TestCase]
  Sender,       \* report senders
  crcsOf,       \* [Sender -> SUBSET CRC]: caseRunConfigurations of the sender
  Throttled,    \* senders with a nonzero throttleInterval
  HooksFail,    \* may the plugin hooks (and issue trackers) raise?
  Reports,      \* the results the environment or the workflows report
  MaxQueue      \* bound on a queue fed by the free environment

ASSUME SenderAssumption ==
  /\ testcaseOf \in [CRC -> TestCase]
  /\ crcsOf \in [Sender -> (SUBSET CRC) \ {{}}]
  /\ Throttled \subseteq Sender
  /\ HooksFail \in BOOLEAN
  /\ Reports \subseteq Result
  /\ MaxQueue \in Nat

VARIABLES
  spc,       \* [Sender -> where the thread is]
  queue,     \* resultsQueue
  view,      \* results of the sender's own caseRunConfigurations
  dirty,     \* crcs of the view whose result.dirty is set
  exc,       \* sender.exception is set
  reported,  \* crcs whose final result left through processFinalResult or flush
  closed     \* test cases passed to processCaseRunFinished

senderVars == <<spc, queue, view, dirty, exc, reported, closed>>

Message == [crc : CRC, res : Result]

SenderTypeOK ==
  /\ spc \in [Sender -> {"new", "setUp", "loop", "tearDown", "ended"}]
  /\ queue \in [Sender -> Seq(Message)]
  /\ view \in [Sender -> [CRC -> Result]]
  /\ dirty \in [Sender -> SUBSET CRC]
  /\ exc \in [Sender -> BOOLEAN]
  /\ reported \in [Sender -> SUBSET CRC]
  /\ closed \in [Sender -> SUBSET TestCase]

SenderInit ==
  /\ spc = [s \in Sender |-> "new"]
  /\ queue = [s \in Sender |-> <<>>]
  /\ view = [s \in Sender |-> [c \in CRC |-> NotStarted]]
  /\ dirty = [s \in Sender |-> crcsOf[s]]
  /\ exc = [s \in Sender |-> FALSE]
  /\ reported = [s \in Sender |-> {}]
  /\ closed = [s \in Sender |-> {}]

----------------------------------------------------------------------------

(* Thread.start, called by TestRuns.start. *)
StartSender(s) ==
  /\ spc[s] = "new"
  /\ spc' = [spc EXCEPT ![s] = "setUp"]
  /\ UNCHANGED <<queue, view, dirty, exc, reported, closed>>

(* Mutant of ResultUpdate: a LifoQueue. *)
ResultUpdateLifo(s, m) ==
  /\ m.crc \in crcsOf[s]
  /\ queue' = [queue EXCEPT ![s] = <<m>> \o @]
  /\ UNCHANGED <<spc, view, dirty, exc, reported, closed>>

(* resultUpdate, called by any other thread for a crc of the sender. *)
ResultUpdate(s, m) ==
  /\ m.crc \in crcsOf[s]
  /\ queue' = [queue EXCEPT ![s] = Append(@, m)]
  /\ UNCHANGED <<spc, view, dirty, exc, reported, closed>>

(* An exception anywhere in run: it is kept and the thread ends. *)
Fail(s) ==
  /\ HooksFail
  /\ exc' = [exc EXCEPT ![s] = TRUE]
  /\ spc' = [spc EXCEPT ![s] = "ended"]

(* setUp, processTestRunStarted, and the initial results marked clean. *)
SetUp(s) ==
  /\ spc[s] = "setUp"
  /\ \/ /\ spc' = [spc EXCEPT ![s] = "loop"]
        /\ dirty' = [dirty EXCEPT ![s] = {}]
        /\ UNCHANGED exc
     \/ Fail(s) /\ UNCHANGED dirty
  /\ UNCHANGED <<queue, view, reported, closed>>

(* Mutants of AllFinal: one final crc is enough; only complete ones count. *)
AnyFinal(s, results) == \E c \in crcsOf[s] : results[c].final
AllComplete(s, results) == \A c \in crcsOf[s] : results[c].state = "complete"

AllFinal(s, results) == \A c \in crcsOf[s] : results[c].final

(* Mutant of CaseFinal: crcs of the other test cases count too. *)
PlanFinal(s, tc, results) == \A c \in crcsOf[s] : results[c].final

CaseFinal(s, tc, results) ==
  \A c \in crcsOf[s] : testcaseOf[c] = tc => results[c].final

(* Mutant of FinalHook: called only when the own copy accepted the update. *)
FinalHookIfAccepted(s, m) ==
  IF m.res.final /\ s \notin Throttled /\ Accepts(view[s][m.crc], m.res)
  THEN reported' = [reported EXCEPT ![s] = @ \cup {m.crc}]
  ELSE UNCHANGED reported

(* processFinalResult, for a final update of a sender that is not throttled. *)
FinalHook(s, m) ==
  IF m.res.final /\ s \notin Throttled
  THEN reported' = [reported EXCEPT ![s] = @ \cup {m.crc}]
  ELSE UNCHANGED reported

(* processCaseRunFinished, if it also was the last crc of its test case. *)
CaseHook(s, m, results) ==
  LET tc == testcaseOf[m.crc]
  IN IF m.res.final /\ s \notin Throttled /\ CaseFinal(s, tc, results)
     THEN closed' = [closed EXCEPT ![s] = @ \cup {tc}]
     ELSE UNCHANGED closed

(* One item of the queue: processResult.  The own copy is updated first;   *)
(* then the hooks are called, one of which may raise.                      *)
Process(s) ==
  /\ spc[s] = "loop"
  /\ queue[s] # <<>>
  /\ LET m == Head(queue[s])
         results == [view[s] EXCEPT ![m.crc] = Updated(@, m.res)]
     IN /\ view' = [view EXCEPT ![s] = results]
        /\ dirty' = [dirty EXCEPT ![s] =
                       IF Accepts(view[s][m.crc], m.res) THEN @ \cup {m.crc} ELSE @]
        /\ \/ /\ FinalHook(s, m)
              /\ CaseHook(s, m, results)
              /\ spc' = [spc EXCEPT ![s] =
                           IF AllFinal(s, results) THEN "tearDown" ELSE "loop"]
              /\ UNCHANGED exc
           \/ Fail(s) /\ UNCHANGED <<reported, closed>>
           \/ Fail(s) /\ FinalHook(s, m) /\ UNCHANGED closed
           \/ Fail(s) /\ FinalHook(s, m) /\ CaseHook(s, m, results)
  /\ queue' = [queue EXCEPT ![s] = Tail(@)]

(* Mutant of Flush: flushes only when some dirty result is final. *)
FlushFinalOnly(s) ==
  /\ spc[s] = "loop" /\ s \in Throttled /\ queue[s] = <<>>
  /\ \E c \in dirty[s] : view[s][c].final
  /\ dirty' = [dirty EXCEPT ![s] = {}]
  /\ reported' = [reported EXCEPT ![s] = @ \cup {c \in dirty[s] : view[s][c].final}]
  /\ UNCHANGED <<spc, exc, queue, view, closed>>

(* queue.Empty after the throttle interval: flush what is dirty.  A flush  *)
(* that returns a false value leaves everything as it was.                 *)
Flush(s) ==
  /\ spc[s] = "loop"
  /\ s \in Throttled
  /\ queue[s] = <<>>
  /\ dirty[s] # {}
  /\ \/ /\ dirty' = [dirty EXCEPT ![s] = {}]
        /\ reported' = [reported EXCEPT ![s] =
                          @ \cup {c \in dirty[s] : view[s][c].final}]
        /\ UNCHANGED <<spc, exc>>
     \/ Fail(s) /\ UNCHANGED <<dirty, reported>>
  /\ UNCHANGED <<queue, view, closed>>

(* tearDown and checkEmptyQueue. *)
TearDown(s) ==
  /\ spc[s] = "tearDown"
  /\ \/ /\ spc' = [spc EXCEPT ![s] = "ended"]
        /\ exc' = [exc EXCEPT ![s] = (queue[s] # <<>>)]
     \/ Fail(s)
  /\ UNCHANGED <<queue, view, dirty, reported, closed>>

SenderStep(s) == SetUp(s) \/ Process(s) \/ Flush(s) \/ TearDown(s)

----------------------------------------------------------------------------

(* The free environment: any result for any crc, at any time. *)
Deliver(s) ==
  /\ Len(queue[s]) < MaxQueue
  /\ \E c \in CRC, r \in Reports : ResultUpdate(s, [crc |-> c, res |-> r])

SenderNext == \E s \in Sender : StartSender(s) \/ SenderStep(s) \/ Deliver(s)

SenderSpec == SenderInit /\ [][SenderNext]_senderVars

SenderFairness == \A s \in Sender : WF_senderVars(SenderStep(s))

FairSenderSpec == SenderSpec /\ SenderFairness

----------------------------------------------------------------------------
(* Properties, whatever the environment delivers.                          *)

(* The view of a sender only moves forward and keeps a final result, even  *)
(* when updates reach it out of order or after the final one.              *)
ViewOnlyAdvances ==
  [][\A s \in Sender : \A c \in CRC : Precedes(view[s][c], view'[s][c])]_senderVars

(* The thread left its loop normally, or is still in it. *)
Working(s) == spc[s] # "ended" \/ ~exc[s]

(* A sender that is not throttled has called processFinalResult for        *)
(* exactly the crcs final in its view, and processCaseRunFinished for      *)
(* exactly the test cases all of whose crcs are final in its view.         *)
HooksFollowView ==
  \A s \in Sender \ Throttled : Working(s) =>
    /\ reported[s] = {c \in crcsOf[s] : view[s][c].final}
    /\ closed[s] = {testcaseOf[c] : c \in {d \in crcsOf[s] :
                       CaseFinal(s, testcaseOf[d], view[s])}}

(* A final result for each crc of the sender is in its view or its queue. *)
AllDelivered(s) ==
  \A c \in crcsOf[s] :
    \/ view[s][c].final
    \/ \E i \in 1..Len(queue[s]) : queue[s][i].crc = c /\ queue[s][i].res.final

(* A started sender to which a final result of each crc was delivered ends *)
(* its thread, whatever the order of what else was delivered.              *)
EndsOnceDelivered ==
  \A s \in Sender :
    (spc[s] # "new" /\ AllDelivered(s)) ~> (spc[s] = "ended")

(* A throttled sender that receives nothing any more flushes what is dirty *)
(* in its own copies, unless it has left its loop, provided the plugin's   *)
(* flush does not return a false value for ever.                           *)
FlushedWhenQuiet ==
  \A s \in Throttled :
    <>[](queue[s] = <<>> /\ spc[s] = "loop") => <>[](dirty[s] = {})
=============================================================================
