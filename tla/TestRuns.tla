------------------------------- MODULE TestRuns -------------------------------
(***************************************************************************)
(* One pipeline run from TestRuns.start to the end of TestRuns.wait: the   *)
(* main thread, the workflow threads, the report senders (ReportSenders)   *)
(* and the WebUI request threads that cancel.  They share the results of   *)
(* the case-run-configurations (master) without any lock, so Result.update *)
(* is one step per statement that touches the shared object.               *)
(***************************************************************************)
EXTENDS ReportSenders

CONSTANTS
  Workflow,     \* workflow threads
  workflowOf,   \* [CRC -> Workflow]
  Canceller,    \* WebUI request threads that will call cancel
  Main,         \* the main thread
  None,         \* no call in progress
  MaxReports,   \* bound on the group reports of one workflow
  LateReports,  \* may a workflow report, or raise, after a final result?
  Answers       \* what groupTerminate may return

Thread == Workflow \cup Canceller \cup {Main}

ASSUME TestRunsAssumption ==
  /\ workflowOf \in [CRC -> Workflow]
  /\ \A w \in Workflow : \E c \in CRC : workflowOf[c] = w
  /\ Main \notin Workflow \cup Canceller
  /\ Workflow \cap Canceller = {}
  /\ None \notin Message
  /\ MaxReports \in Nat
  /\ LateReports \in BOOLEAN
  /\ Answers \subseteq BOOLEAN

VARIABLES
  master,      \* results of testRuns.caseRunConfigurations, shared by all threads
  runningFor,  \* crcs whose running_for flags are still set
  local,       \* results of the copies in the crcList of each workflow
  at, arg, to, \* each thread's place in TestRuns.update, its argument (later
               \* the read-only copy) and the senders still to be given it
  wpc,         \* [Workflow -> where the thread is]
  todo, given, \* crcs left of the group report in progress, and its Result
  reports,     \* number of group reports made
  asked,       \* cancellers whose request has arrived
  cancelling,  \* crcs a canceller has still to cancel
  mpc,         \* where the main thread is
  undecided,   \* crcs the loop of TestRuns.wait has still to visit
  unjoined,    \* senders TestRuns.wait has still to join
  returnCode   \* pipeline.return_code

updateVars == <<at, arg, to>>
workflowVars == <<local, wpc, todo, given, reports>>
cancelVars == <<runningFor, asked, cancelling>>
mainVars == <<mpc, undecided, unjoined, returnCode>>
vars == <<senderVars, master, updateVars, workflowVars, cancelVars, mainVars>>

CrcsOfWorkflow(w) == {c \in CRC : workflowOf[c] = w}

UpdateTypeOK ==
  /\ master \in [CRC -> Result]
  /\ at \in [Thread -> {"idle", "begin", "terminate", "check", "setFinal",
                        "checkState", "setState", "setOutcome", "copy", "deliver"}]
  /\ arg \in [Thread -> Message \cup {None}]
  /\ \A t \in Thread : at[t] # "idle" => arg[t] \in Message
  /\ to \in [Thread -> SUBSET Sender]

WorkflowTypeOK ==
  /\ local \in [CRC -> Result]
  /\ wpc \in [Workflow -> {"new", "execute", "tearDown", "ended"}]
  /\ todo \in [Workflow -> SUBSET CRC]
  /\ given \in [Workflow -> Result]
  /\ reports \in [Workflow -> 0..MaxReports]

CancelTypeOK ==
  /\ runningFor \in SUBSET CRC
  /\ asked \in SUBSET Canceller
  /\ cancelling \in [Canceller -> SUBSET CRC]

MainTypeOK ==
  /\ mpc \in {"start", "wait", "join", "done"}
  /\ undecided \in SUBSET CRC
  /\ unjoined \in SUBSET Sender
  /\ returnCode \in {0, 1}

TypeOK ==
  SenderTypeOK /\ UpdateTypeOK /\ WorkflowTypeOK /\ CancelTypeOK /\ MainTypeOK

Init ==
  /\ SenderInit
  /\ master = [c \in CRC |-> NotStarted]
  /\ runningFor = CRC
  /\ local = [c \in CRC |-> NotStarted]
  /\ at = [t \in Thread |-> "idle"]
  /\ arg = [t \in Thread |-> None]
  /\ to = [t \in Thread |-> {}]
  /\ wpc = [w \in Workflow |-> "new"]
  /\ todo = [w \in Workflow |-> {}]
  /\ given = [w \in Workflow |-> NotStarted]
  /\ reports = [w \in Workflow |-> 0]
  /\ asked = {}
  /\ cancelling = [k \in Canceller |-> {}]
  /\ mpc = "start"
  /\ undecided = CRC
  /\ unjoined = Sender
  /\ returnCode = 0

----------------------------------------------------------------------------
(* TestRuns.update, run by any thread t.                                   *)

Idle(t) == at[t] = "idle"

Goto(t, label) == at' = [at EXCEPT ![t] = label]

(* t calls TestRuns.update with a crc whose result is r. *)
CallUpdate(t, c, r) ==
  /\ Goto(t, "check")
  /\ arg' = [arg EXCEPT ![t] = [crc |-> c, res |-> r]]
  /\ UNCHANGED to

Target(t) == master[arg[t].crc]

(* t found c not final and is about to copy it. *)
BeginCopy(t, c) ==
  /\ Goto(t, "begin")
  /\ arg' = [arg EXCEPT ![t] = [crc |-> c, res |-> NotStarted]]
  /\ UNCHANGED to

(* if self.final: raise; the exception is swallowed by updateResult. *)
CheckFinal(t) ==
  /\ at[t] = "check"
  /\ Goto(t, IF Target(t).final THEN "copy" ELSE "setFinal")
  /\ UNCHANGED <<master, arg, to>>

(* self.final = result.final *)
SetFinal(t) ==
  /\ at[t] = "setFinal"
  /\ master' = [master EXCEPT ![arg[t].crc].final = arg[t].res.final]
  /\ Goto(t, "checkState")
  /\ UNCHANGED <<arg, to>>

(* if the new state comes before the present one: raise *)
CheckState(t) ==
  /\ at[t] = "checkState"
  /\ Goto(t, IF Backward(Target(t), arg[t].res) THEN "copy" ELSE "setState")
  /\ UNCHANGED <<master, arg, to>>

(* self.state = result.state *)
SetState(t) ==
  /\ at[t] = "setState"
  /\ master' = [master EXCEPT ![arg[t].crc].state = arg[t].res.state]
  /\ Goto(t, "setOutcome")
  /\ UNCHANGED <<arg, to>>

(* if the new outcome ranks higher: self.result = result.result *)
SetOutcome(t) ==
  /\ at[t] = "setOutcome"
  /\ master' = [master EXCEPT ![arg[t].crc].outcome = Worst(@, arg[t].res.outcome)]
  /\ Goto(t, "copy")
  /\ UNCHANGED <<arg, to>>

Interested(c) == {s \in Sender : c \in crcsOf[s]}

(* Mutant of CopyResult: the copy loses the outcome. *)
CopyResultNoOutcome(t) ==
  /\ at[t] = "copy"
  /\ to' = [to EXCEPT ![t] = Interested(arg[t].crc)]
  /\ Goto(t, IF Interested(arg[t].crc) = {} THEN "idle" ELSE "deliver")
  /\ arg' = [arg EXCEPT ![t].res = Res(Target(t).state, "None", Target(t).final)]
  /\ UNCHANGED master

(* readOnlyCopy of the shared crc, made whether the update was accepted or *)
(* refused.                                                                *)
CopyResult(t) ==
  /\ at[t] = "copy"
  /\ LET senders == Interested(arg[t].crc)
     IN /\ to' = [to EXCEPT ![t] = senders]
        /\ Goto(t, IF senders = {} THEN "idle" ELSE "deliver")
        /\ arg' = [arg EXCEPT ![t] =
                     IF senders = {} THEN None
                     ELSE [crc |-> arg[t].crc, res |-> Target(t)]]
  /\ UNCHANGED master

UpdateStep(t) ==
  /\ \/ CheckFinal(t)
     \/ SetFinal(t)
     \/ CheckState(t)
     \/ SetState(t)
     \/ SetOutcome(t)
     \/ CopyResult(t)
  /\ UNCHANGED <<senderVars, workflowVars, cancelVars, mainVars>>

(* reportSender.resultUpdate(copy) for the next sender. *)
DeliverTo(t, s) ==
  /\ at[t] = "deliver"
  /\ s \in to[t]
  /\ ResultUpdate(s, arg[t])
  /\ to' = [to EXCEPT ![t] = @ \ {s}]
  /\ Goto(t, IF to[t] = {s} THEN "idle" ELSE "deliver")
  /\ arg' = [arg EXCEPT ![t] = IF to[t] = {s} THEN None ELSE @]
  /\ UNCHANGED <<master, workflowVars, cancelVars, mainVars>>

----------------------------------------------------------------------------
(* A workflow thread: GroupedWorkflow.run.  What setup, execute and        *)
(* teardown of a plugin do is left open: they report any Result of Reports *)
(* for any of their crcs, at most MaxReports times.                        *)

Free(w) == Idle(w) /\ todo[w] = {}

BeginReport(w, S, r) ==
  /\ todo' = [todo EXCEPT ![w] = S]
  /\ given' = [given EXCEPT ![w] = r]

(* groupReportResult(crcs, r) called by the plugin's code. *)
Report(w) ==
  /\ wpc[w] \in {"execute", "tearDown"}
  /\ Free(w)
  /\ reports[w] < MaxReports
  /\ \E S \in SUBSET CrcsOfWorkflow(w) \ {{}}, r \in Reports :
        /\ LateReports \/ \A c \in S : ~local[c].final
        /\ BeginReport(w, S, r)
  /\ reports' = [reports EXCEPT ![w] = @ + 1]
  /\ UNCHANGED <<senderVars, master, updateVars, local, wpc, cancelVars, mainVars>>

(* The next turn of the loop in groupReportResult: update the own copy and *)
(* pass what it has become to TestRuns.update.                             *)
ReportNext(w) ==
  /\ Idle(w)
  /\ \E c \in todo[w] :
        LET r == Updated(local[c], given[w])
        IN /\ local' = [local EXCEPT ![c] = r]
           /\ CallUpdate(w, c, r)
           /\ BeginReport(w, todo[w] \ {c},
                          IF todo[w] = {c} THEN NotStarted ELSE given[w])
  /\ UNCHANGED <<senderVars, master, wpc, reports, cancelVars, mainVars>>

(* setup or execute raised: every crc is reported as DNF. *)
ExecuteRaises(w) ==
  /\ wpc[w] = "execute"
  /\ Free(w)
  /\ LateReports \/ \A c \in CrcsOfWorkflow(w) : ~local[c].final
  /\ wpc' = [wpc EXCEPT ![w] = "tearDown"]
  /\ BeginReport(w, CrcsOfWorkflow(w), Res("DNF", "ERROR", TRUE))
  /\ UNCHANGED <<senderVars, master, updateVars, local, reports, cancelVars, mainVars>>

(* execute returned (or raised, and writing the log of the report raised). *)
ExecuteReturns(w) ==
  /\ wpc[w] = "execute"
  /\ Free(w)
  /\ wpc' = [wpc EXCEPT ![w] = "tearDown"]
  /\ UNCHANGED <<senderVars, master, updateVars, local, todo, given, reports,
                 cancelVars, mainVars>>

(* teardown returned or raised: the thread ends. *)
WorkflowEnds(w) ==
  /\ wpc[w] = "tearDown"
  /\ Free(w)
  /\ wpc' = [wpc EXCEPT ![w] = "ended"]
  /\ UNCHANGED <<senderVars, master, updateVars, local, todo, given, reports,
                 cancelVars, mainVars>>

WorkflowStep(w) ==
  \/ Report(w)
  \/ ReportNext(w)
  \/ ExecuteRaises(w)
  \/ ExecuteReturns(w)
  \/ WorkflowEnds(w)

----------------------------------------------------------------------------
(* A WebUI request thread: cancel or cancel_filtered.                      *)

(* The request arrives and names the crcs to be cancelled. *)
CancelRequest(k) ==
  /\ k \notin asked
  /\ asked' = asked \cup {k}
  /\ \E S \in SUBSET CRC \ {{}} : cancelling' = [cancelling EXCEPT ![k] = S]
  /\ UNCHANGED <<senderVars, master, updateVars, workflowVars, runningFor, mainVars>>

(* CaseRunConfiguration.cancel: a final crc is left alone. *)
Cancel(k, c) ==
  /\ Idle(k)
  /\ c \in cancelling[k]
  /\ cancelling' = [cancelling EXCEPT ![k] = @ \ {c}]
  /\ \/ /\ master[c].final
        /\ UNCHANGED <<runningFor, updateVars>>
     \/ /\ ~master[c].final
        /\ runningFor' = runningFor \ {c}
        /\ BeginCopy(k, c)
  /\ UNCHANGED <<senderVars, master, workflowVars, asked, mainVars>>

(* crc_copy = self.copy(), before groupTerminate is called. *)
CancelCopies(k) ==
  /\ at[k] = "begin"
  /\ Goto(k, "terminate")
  /\ arg' = [arg EXCEPT ![k] = [crc |-> arg[k].crc, res |-> Target(k)]]
  /\ UNCHANGED <<senderVars, master, to, workflowVars, cancelVars, mainVars>>

(* Mutant of CancelResult: the cancelled crc is not made final. *)
CancelResultOpen(stopped) ==
  Res("canceled", IF stopped THEN "None" ELSE "ERROR", FALSE)

CancelResult(stopped) ==
  IF stopped THEN Res("canceled", "None", TRUE) ELSE Res("canceled", "ERROR", FALSE)

(* The rest of cancel, by what groupTerminate answers. *)
Terminate(k) ==
  /\ at[k] = "terminate"
  /\ \E stopped \in Answers :
        CallUpdate(k, arg[k].crc, Updated(arg[k].res, CancelResult(stopped)))
  /\ UNCHANGED <<senderVars, master, workflowVars, cancelVars, mainVars>>

(* groupTerminate raised: the request ends with an error. *)
TerminateRaises(k) ==
  /\ at[k] = "terminate"
  /\ Goto(k, "idle")
  /\ arg' = [arg EXCEPT ![k] = None]
  /\ cancelling' = [cancelling EXCEPT ![k] = {}]
  /\ UNCHANGED <<senderVars, master, to, workflowVars, runningFor, asked, mainVars>>

CancelStep(k) ==
  \/ \E c \in CRC : Cancel(k, c)
  \/ CancelCopies(k)
  \/ Terminate(k)
  \/ TerminateRaises(k)

----------------------------------------------------------------------------
(* The main thread: TestRuns.start, then TestRuns.wait.                    *)

MainStartsSender(s) ==
  /\ mpc = "start"
  /\ StartSender(s)
  /\ UNCHANGED <<master, updateVars, workflowVars, cancelVars, mainVars>>

(* The workflows are started after all the senders, each of them once. *)
MainStartsWorkflow(w) ==
  /\ mpc = "start"
  /\ \A s \in Sender : spc[s] # "new"
  /\ wpc[w] = "new"
  /\ wpc' = [wpc EXCEPT ![w] = "execute"]
  /\ mpc' = IF \A v \in Workflow \ {w} : wpc[v] # "new" THEN "wait" ELSE "start"
  /\ UNCHANGED <<senderVars, master, updateVars, local, todo, given, reports,
                 cancelVars, undecided, unjoined, returnCode>>

(* Mutant of Joined: the workflow is not waited for. *)
JoinedNot(c) == wpc[workflowOf[c]] # "new"

(* caserun.workflow.join() has returned. *)
Joined(c) == wpc[workflowOf[c]] = "ended"

DecidedAlways(c) == TRUE

Decided(c) == master[c].final

(* One turn of the first loop of wait: join the workflow of c, and finish  *)
(* c as DNF if the workflow left it without a final result.                *)
MainDecides(c) ==
  /\ mpc = "wait"
  /\ Idle(Main)
  /\ c \in undecided
  /\ Joined(c)
  /\ undecided' = undecided \ {c}
  /\ IF Decided(c) THEN UNCHANGED updateVars ELSE BeginCopy(Main, c)
  /\ UNCHANGED <<senderVars, master, workflowVars, cancelVars, mpc, unjoined, returnCode>>

(* self.update(caserun.copy().updateResult(Result('DNF', 'ERROR', True))) *)
MainFinishes ==
  /\ at[Main] = "begin"
  /\ CallUpdate(Main, arg[Main].crc, Updated(Target(Main), Res("DNF", "ERROR", TRUE)))
  /\ UNCHANGED <<senderVars, master, workflowVars, cancelVars, mainVars>>

(* Mutants of Verdict: failures are counted; failures are not looked at. *)
VerdictCounting(s) == IF exc[s] THEN returnCode + 1 ELSE returnCode
VerdictIgnored(s) == returnCode

(* The pipeline's return code once s, which ended, has been looked at. *)
Verdict(s) == IF exc[s] THEN 1 ELSE returnCode

(* One turn of the second loop: join a sender and look at its exception. *)
MainJoins(s) ==
  /\ mpc \in {"wait", "join"}
  /\ Idle(Main)
  /\ undecided = {}
  /\ s \in unjoined
  /\ spc[s] = "ended"
  /\ unjoined' = unjoined \ {s}
  /\ returnCode' = Verdict(s)
  /\ mpc' = IF unjoined = {s} THEN "done" ELSE "join"
  /\ UNCHANGED <<senderVars, master, updateVars, workflowVars, cancelVars, undecided>>

MainStep ==
  \/ \E s \in Sender : MainStartsSender(s) \/ MainJoins(s)
  \/ \E w \in Workflow : MainStartsWorkflow(w)
  \/ \E c \in CRC : MainDecides(c)
  \/ MainFinishes

----------------------------------------------------------------------------

SenderRuns(s) ==
  /\ SenderStep(s)
  /\ UNCHANGED <<master, updateVars, workflowVars, cancelVars, mainVars>>

UpdateRuns(t) == UpdateStep(t) \/ \E s \in Sender : DeliverTo(t, s)

(* wait has returned: nothing is left to do but the rest of the pipeline. *)
Returned == mpc = "done" /\ UNCHANGED vars

Next ==
  \/ MainStep
  \/ \E w \in Workflow : WorkflowStep(w)
  \/ \E k \in Canceller : CancelRequest(k) \/ CancelStep(k)
  \/ \E t \in Thread : UpdateRuns(t)
  \/ \E s \in Sender : SenderRuns(s)
  \/ Returned

Spec == Init /\ [][Next]_vars

(* Every started thread keeps running, and the code of a workflow's plugin *)
(* comes to an end; that a cancel request arrives is never owed.           *)
Fairness ==
  /\ WF_vars(MainStep \/ UpdateRuns(Main))
  /\ \A w \in Workflow : WF_vars(WorkflowStep(w) \/ UpdateRuns(w))
  /\ \A k \in Canceller : WF_vars(CancelStep(k) \/ UpdateRuns(k))
  /\ \A s \in Sender : WF_vars(SenderRuns(s))

FairSpec == Spec /\ Fairness

----------------------------------------------------------------------------
(* Properties.                                                             *)

InUpdate(t, c) ==
  /\ at[t] \in {"check", "setFinal", "checkState", "setState", "setOutcome"}
  /\ arg[t].crc = c

(* The new final mark is stored and the rest of the new value is not yet. *)
HalfUpdated(t, c) ==
  /\ at[t] \in {"checkState", "setState", "setOutcome"}
  /\ arg[t].crc = c

(* What the comment in CaseRunConfiguration.updateResult relies on to do   *)
(* without a lock: no two threads are ever inside Result.update of the     *)
(* same case-run-configuration.                                            *)
SingleUpdater ==
  \A c \in CRC : \A t, u \in Thread :
    InUpdate(t, c) /\ InUpdate(u, c) => t = u

(* A result that is final, and not in the middle of the update that made   *)
(* it so, is never changed again: the docstring of updateResult.           *)
FinalForever ==
  [][\A c \in CRC :
       master[c].final /\ (\A t \in Thread : ~HalfUpdated(t, c))
         => master'[c] = master[c]]_vars

(* For every case-run-configuration, a sender has in its view, then in its *)
(* queue, results that follow each other in the order of Precedes, and     *)
(* none that the shared result has not reached: each of them is followed,  *)
(* or equalled, by what the shared result is now.                          *)
OrderedDelivery ==
  \A s \in Sender :
    /\ \A c \in CRC : Precedes(view[s][c], master[c])
    /\ \A i \in 1..Len(queue[s]) :
         LET m == queue[s][i]
         IN /\ Precedes(view[s][m.crc], m.res)
            /\ Precedes(m.res, master[m.crc])
            /\ \A j \in 1..(i - 1) :
                 queue[s][j].crc = m.crc => Precedes(queue[s][j].res, m.res)

(* With one final report per crc, nothing is queued behind a final result: *)
(* this is what checkEmptyQueue expects of the rest of the program.        *)
FinalIsLast ==
  \A s \in Sender : \A i \in 1..Len(queue[s]) :
    LET c == queue[s][i].crc
    IN /\ ~view[s][c].final
       /\ \A j \in 1..(i - 1) : queue[s][j].crc = c => ~queue[s][j].res.final

(* What a sender holds as final is the final result of the pipeline.       *)
FinalViewsAgree ==
  \A s \in Sender : \A c \in crcsOf[s] :
    view[s][c].final => view[s][c] = master[c]

(* Once wait has passed a crc, its result is final: a workflow that ends,  *)
(* fails or reports nothing leaves no crc undecided.                       *)
AllDecided ==
  \A c \in CRC \ undecided :
    \/ at[Main] = "begin" /\ arg[Main].crc = c
    \/ InUpdate(Main, c)
    \/ master[c].final

(* Return code 0 means that every sender has seen a final result for each  *)
(* of its crcs and passed it on, or still marks it dirty if throttled.     *)
ZeroMeansReported ==
  mpc = "done" /\ returnCode = 0 =>
    \A s \in Sender : \A c \in crcsOf[s] :
      /\ view[s][c].final
      /\ c \in reported[s] \/ (s \in Throttled /\ c \in dirty[s])

(* When nothing fails and no crc is reported after its final result, that  *)
(* is also what every sender sees: none ends with an exception, and the    *)
(* return code is 0.                                                       *)
CleanRun == FinalIsLast /\ (\A s \in Sender : ~exc[s]) /\ returnCode = 0

(* wait returns.                                                           *)
WaitReturns == <>(mpc = "done")

----------------------------------------------------------------------------
(* The run implements ResultBoard: an accepted update takes effect when    *)
(* its final mark is stored.                                               *)

Board == INSTANCE ResultBoard WITH
  board <- [c \in CRC |->
              IF \E t \in Thread : HalfUpdated(t, c)
              THEN LET t == CHOOSE u \in Thread : HalfUpdated(u, c)
                   IN Updated([master[c] EXCEPT !.final = FALSE], arg[t].res)
              ELSE master[c]],
  over <- [s \in Sender |->
             IF spc[s] # "ended" THEN "working"
             ELSE IF exc[s] THEN "failed" ELSE "complete"],
  answer <- IF mpc # "done" THEN "none"
            ELSE IF returnCode = 0 THEN "success" ELSE "failure"

(* A run nobody cancels is a run of ResultBoard: results only advance,     *)
(* nobody completes early and the answer matches what happened.            *)
ImplementsBoard == Board!BoardSpec
=============================================================================
