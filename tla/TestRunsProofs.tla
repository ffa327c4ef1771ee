---------------------------- MODULE TestRunsProofs ----------------------------
(***************************************************************************)
(* Proofs about TestRuns, for every set of case-run-configurations,        *)
(* workflows and senders.                                                  *)
(***************************************************************************)
EXTENDS TestRuns, ReportSendersProofs

LEMMA ResType ==
  ASSUME NEW s \in State, NEW o \in Outcome, NEW f \in BOOLEAN
  PROVE  Res(s, o, f) \in Result
  BY DEF Res, Result

(* The results written as constants in the code are results. *)
LEMMA ConstantResults ==
  /\ NotStarted \in Result
  /\ Res("DNF", "ERROR", TRUE) \in Result
  /\ Res("canceled", "None", TRUE) \in Result
  /\ Res("canceled", "ERROR", FALSE) \in Result
  BY ResType DEF NotStarted, State, Outcome

LEMMA InitType == Init => TypeOK
<1> SUFFICES ASSUME Init PROVE TypeOK
  OBVIOUS
<1>1. SenderTypeOK
  BY SenderInitType DEF Init
<1>2. UpdateTypeOK
  BY ConstantResults DEF Init, UpdateTypeOK
<1>3. WorkflowTypeOK
  BY ConstantResults, TestRunsAssumption DEF Init, WorkflowTypeOK
<1>4. CancelTypeOK /\ MainTypeOK
  BY DEF Init, CancelTypeOK, MainTypeOK
<1> QED
  BY <1>1, <1>2, <1>3, <1>4 DEF TypeOK

(* TestRuns.update is called with a crc and a result. *)
LEMMA CallUpdateType ==
  ASSUME UpdateTypeOK, NEW t \in Thread, NEW c \in CRC, NEW r \in Result,
         CallUpdate(t, c, r), master' = master
  PROVE  UpdateTypeOK'
<1>1. [crc |-> c, res |-> r] \in Message
  BY DEF Message
<1> QED
  BY <1>1 DEF UpdateTypeOK, CallUpdate, Goto

LEMMA BeginCopyType ==
  ASSUME UpdateTypeOK, NEW t \in Thread, NEW c \in CRC,
         BeginCopy(t, c), master' = master
  PROVE  UpdateTypeOK'
<1>1. [crc |-> c, res |-> NotStarted] \in Message
  BY ConstantResults DEF Message
<1> QED
  BY <1>1 DEF UpdateTypeOK, BeginCopy, Goto

LEMMA CancelResultType == \A stopped \in BOOLEAN : CancelResult(stopped) \in Result
  BY ConstantResults DEF CancelResult

LEMMA UpdateStepType ==
  ASSUME UpdateTypeOK, NEW t \in Thread, UpdateStep(t)
  PROVE  UpdateTypeOK'
<1>1. at[t] # "idle" => arg[t].crc \in CRC /\ arg[t].res \in Result
  BY DEF UpdateTypeOK, Message
<1>2. CASE CheckFinal(t)
  BY <1>2 DEF UpdateTypeOK, CheckFinal, Goto
<1>3. CASE SetFinal(t)
  <2>1. [master[arg[t].crc] EXCEPT !.final = arg[t].res.final] \in Result
    BY <1>1, <1>3 DEF UpdateTypeOK, SetFinal, Result
  <2>2. master' \in [CRC -> Result]
    BY <1>1, <1>3, <2>1 DEF UpdateTypeOK, SetFinal
  <2> QED
    BY <1>3, <2>2 DEF UpdateTypeOK, SetFinal, Goto
<1>4. CASE CheckState(t)
  BY <1>4 DEF UpdateTypeOK, CheckState, Goto
<1>5. CASE SetState(t)
  <2>1. [master[arg[t].crc] EXCEPT !.state = arg[t].res.state] \in Result
    BY <1>1, <1>5 DEF UpdateTypeOK, SetState, Result
  <2>2. master' \in [CRC -> Result]
    BY <1>1, <1>5, <2>1 DEF UpdateTypeOK, SetState
  <2> QED
    BY <1>5, <2>2 DEF UpdateTypeOK, SetState, Goto
<1>6. CASE SetOutcome(t)
  <2>1. [master[arg[t].crc] EXCEPT !.outcome = Worst(@, arg[t].res.outcome)] \in Result
    BY <1>1, <1>6 DEF UpdateTypeOK, SetOutcome, Result, Worst
  <2>2. master' \in [CRC -> Result]
    BY <1>1, <1>6, <2>1 DEF UpdateTypeOK, SetOutcome
  <2> QED
    BY <1>6, <2>2 DEF UpdateTypeOK, SetOutcome, Goto
<1>7. CASE CopyResult(t)
  <2>1. [crc |-> arg[t].crc, res |-> Target(t)] \in Message
    BY <1>1, <1>7 DEF UpdateTypeOK, CopyResult, Target, Message
  <2>2. Interested(arg[t].crc) \in SUBSET Sender
    BY DEF Interested
  <2> HIDE DEF Interested
  <2> QED
    BY <1>7, <2>1, <2>2 DEF UpdateTypeOK, CopyResult, Goto
<1> QED
  BY <1>2, <1>3, <1>4, <1>5, <1>6, <1>7 DEF UpdateStep

LEMMA UpdateRunsType ==
  ASSUME TypeOK, NEW t \in Thread, UpdateRuns(t)
  PROVE  TypeOK'
<1>1. CASE UpdateStep(t)
  <2>1. UpdateTypeOK'
    BY <1>1, UpdateStepType DEF TypeOK
  <2> QED
    BY <1>1, <2>1 DEF TypeOK, UpdateStep, SenderTypeOK, WorkflowTypeOK, CancelTypeOK,
       MainTypeOK, senderVars, workflowVars, cancelVars, mainVars
<1>2. ASSUME NEW s \in Sender, DeliverTo(t, s)
      PROVE  TypeOK'
  <2>1. arg[t] \in Message /\ ResultUpdate(s, arg[t])
    BY <1>2 DEF TypeOK, UpdateTypeOK, DeliverTo
  <2>2. SenderTypeOK'
    BY <2>1, ResultUpdateType DEF TypeOK
  <2>3. UpdateTypeOK'
    BY <1>2 DEF TypeOK, UpdateTypeOK, DeliverTo, Goto
  <2> QED
    BY <1>2, <2>2, <2>3 DEF TypeOK, DeliverTo, WorkflowTypeOK, CancelTypeOK,
       MainTypeOK, workflowVars, cancelVars, mainVars
<1> QED
  BY <1>1, <1>2 DEF UpdateRuns

LEMMA WorkflowStepType ==
  ASSUME TypeOK, NEW w \in Workflow, WorkflowStep(w)
  PROVE  TypeOK'
<1>1. SenderTypeOK' /\ CancelTypeOK' /\ MainTypeOK'
  BY DEF TypeOK, WorkflowStep, Report, ReportNext, ExecuteRaises, ExecuteReturns,
         WorkflowEnds, SenderTypeOK, CancelTypeOK, MainTypeOK, senderVars,
         cancelVars, mainVars
<1>2. CASE Report(w)
  <2>1. PICK S \in SUBSET CrcsOfWorkflow(w) \ {{}}, r \in Reports : BeginReport(w, S, r)
    BY <1>2 DEF Report
  <2>2. S \in SUBSET CRC /\ r \in Result
    BY SenderAssumption DEF CrcsOfWorkflow
  <2>3. reports' \in [Workflow -> 0..MaxReports]
    BY <1>2, TestRunsAssumption DEF Report, TypeOK, WorkflowTypeOK
  <2> QED
    BY <1>1, <1>2, <2>1, <2>2, <2>3
       DEF Report, BeginReport, TypeOK, WorkflowTypeOK, UpdateTypeOK, updateVars
<1>3. CASE ReportNext(w)
  <2>1. PICK c \in todo[w] :
          LET r == Updated(local[c], given[w])
          IN /\ local' = [local EXCEPT ![c] = r]
             /\ CallUpdate(w, c, r)
             /\ BeginReport(w, todo[w] \ {c},
                            IF todo[w] = {c} THEN NotStarted ELSE given[w])
    BY <1>3 DEF ReportNext
  <2> DEFINE r == Updated(local[c], given[w])
  <2>2. c \in CRC /\ local[c] \in Result /\ given[w] \in Result
    BY DEF TypeOK, WorkflowTypeOK
  <2>3. r \in Result
    BY <2>2, UpdatedType
  <2>4. local' \in [CRC -> Result]
    BY <2>1, <2>3 DEF TypeOK, WorkflowTypeOK
  <2>5. todo' \in [Workflow -> SUBSET CRC] /\ given' \in [Workflow -> Result]
    BY <2>1, <2>2, ConstantResults DEF BeginReport, TypeOK, WorkflowTypeOK
  <2>6. w \in Thread /\ CallUpdate(w, c, r) /\ master' = master
    BY <1>3, <2>1 DEF ReportNext, Thread
  <2>7. UpdateTypeOK'
    <3> HIDE DEF r
    <3> QED
      BY <2>2, <2>3, <2>6, CallUpdateType DEF TypeOK
  <2> QED
    BY <1>1, <1>3, <2>4, <2>5, <2>7 DEF ReportNext, TypeOK, WorkflowTypeOK
<1>4. CASE ExecuteRaises(w)
  BY <1>1, <1>4, ConstantResults DEF ExecuteRaises, BeginReport, CrcsOfWorkflow, TypeOK,
     WorkflowTypeOK, UpdateTypeOK, updateVars
<1>5. CASE ExecuteReturns(w) \/ WorkflowEnds(w)
  BY <1>1, <1>5 DEF ExecuteReturns, WorkflowEnds, TypeOK, WorkflowTypeOK, UpdateTypeOK,
     updateVars
<1> QED
  BY <1>2, <1>3, <1>4, <1>5 DEF WorkflowStep

LEMMA CancellerType ==
  ASSUME TypeOK, NEW k \in Canceller, CancelRequest(k) \/ CancelStep(k)
  PROVE  TypeOK'
<1>1. SenderTypeOK' /\ WorkflowTypeOK' /\ MainTypeOK'
  BY DEF TypeOK, CancelRequest, CancelStep, Cancel, CancelCopies, Terminate,
         TerminateRaises, SenderTypeOK, WorkflowTypeOK, MainTypeOK, senderVars, workflowVars, mainVars
<1>2. k \in Thread
  BY DEF Thread
<1>3. CASE CancelRequest(k)
  BY <1>1, <1>3 DEF CancelRequest, TypeOK, UpdateTypeOK, updateVars, CancelTypeOK
<1>4. CASE Terminate(k)
  <2>1. arg[k] \in Message
    BY <1>2, <1>4 DEF Terminate, TypeOK, UpdateTypeOK
  <2>2. arg[k].crc \in CRC /\ arg[k].res \in Result
    BY <2>1 DEF Message
  <2>3. \E r \in Result : CallUpdate(k, arg[k].crc, r)
    BY <1>4, <2>2, UpdatedType, CancelResultType, TestRunsAssumption DEF Terminate
  <2>4. UpdateTypeOK'
    BY <1>2, <1>4, <2>2, <2>3, CallUpdateType DEF Terminate, TypeOK
  <2> QED
    BY <1>1, <1>4, <2>4 DEF Terminate, TypeOK, CancelTypeOK, cancelVars
<1>5. CASE TerminateRaises(k)
  BY <1>1, <1>2, <1>5 DEF TerminateRaises, Goto, TypeOK, UpdateTypeOK, CancelTypeOK
<1>6. ASSUME NEW c \in CRC, Cancel(k, c)
      PROVE  TypeOK'
  <2>1. CancelTypeOK'
    BY <1>6 DEF Cancel, TypeOK, CancelTypeOK
  <2>2. UpdateTypeOK'
    BY <1>2, <1>6, BeginCopyType DEF Cancel, TypeOK, UpdateTypeOK, updateVars
  <2> QED
    BY <1>1, <2>1, <2>2 DEF TypeOK
<1>7. CASE CancelCopies(k)
  <2>1. arg[k] \in Message
    BY <1>2, <1>7 DEF CancelCopies, TypeOK, UpdateTypeOK
  <2>2. [crc |-> arg[k].crc, res |-> Target(k)] \in Message
    BY <2>1 DEF Target, TypeOK, UpdateTypeOK, Message
  <2>3. UpdateTypeOK'
    BY <1>2, <1>7, <2>2 DEF CancelCopies, Goto, TypeOK, UpdateTypeOK
  <2> QED
    BY <1>1, <1>7, <2>3 DEF CancelCopies, TypeOK, CancelTypeOK, cancelVars
<1> QED
  BY <1>3, <1>4, <1>5, <1>6, <1>7 DEF CancelStep

LEMMA MainStepType ==
  ASSUME TypeOK, MainStep
  PROVE  TypeOK'
<1>1. Main \in Thread
  BY DEF Thread
<1>2. ASSUME NEW s \in Sender, MainStartsSender(s)
      PROVE  TypeOK'
  BY <1>2, StartSenderType DEF MainStartsSender, TypeOK, UpdateTypeOK, WorkflowTypeOK,
     CancelTypeOK, MainTypeOK, updateVars, workflowVars, cancelVars, mainVars
<1>3. ASSUME NEW s \in Sender, MainJoins(s)
      PROVE  TypeOK'
  BY <1>3 DEF MainJoins, Verdict, TypeOK, SenderTypeOK, UpdateTypeOK, WorkflowTypeOK, CancelTypeOK,
     MainTypeOK, senderVars, updateVars, workflowVars, cancelVars
<1>4. ASSUME NEW w \in Workflow, MainStartsWorkflow(w)
      PROVE  TypeOK'
  BY <1>4 DEF MainStartsWorkflow, TypeOK, SenderTypeOK, UpdateTypeOK, WorkflowTypeOK,
     CancelTypeOK, MainTypeOK, senderVars, updateVars, cancelVars
<1>5. ASSUME NEW c \in CRC, MainDecides(c)
      PROVE  TypeOK'
  <2>1. SenderTypeOK' /\ WorkflowTypeOK' /\ CancelTypeOK' /\ MainTypeOK'
    BY <1>5 DEF MainDecides, TypeOK, SenderTypeOK, WorkflowTypeOK, CancelTypeOK,
       MainTypeOK, senderVars, workflowVars, cancelVars
  <2>2. UpdateTypeOK'
    BY <1>1, <1>5, BeginCopyType DEF MainDecides, TypeOK, UpdateTypeOK, updateVars
  <2> QED
    BY <2>1, <2>2 DEF TypeOK
<1>6. CASE MainFinishes
  <2>1. arg[Main].crc \in CRC
    BY <1>1, <1>6 DEF MainFinishes, TypeOK, UpdateTypeOK, Message
  <2>2. Updated(Target(Main), Res("DNF", "ERROR", TRUE)) \in Result
    BY <2>1, UpdatedType, ConstantResults DEF Target, TypeOK, UpdateTypeOK
  <2>3. UpdateTypeOK'
    BY <1>1, <1>6, <2>1, <2>2, CallUpdateType DEF MainFinishes, TypeOK
  <2> QED
    BY <1>6, <2>3 DEF MainFinishes, TypeOK, SenderTypeOK, WorkflowTypeOK, CancelTypeOK,
       MainTypeOK, senderVars, workflowVars, cancelVars, mainVars
<1> QED
  BY <1>2, <1>3, <1>4, <1>5, <1>6 DEF MainStep

LEMMA SenderRunsType ==
  ASSUME TypeOK, NEW s \in Sender, SenderRuns(s)
  PROVE  TypeOK'
  BY SenderStepType DEF SenderRuns, TypeOK, UpdateTypeOK, WorkflowTypeOK, CancelTypeOK,
     MainTypeOK, updateVars, workflowVars, cancelVars, mainVars

LEMMA StutterType ==
  ASSUME TypeOK, UNCHANGED vars
  PROVE  TypeOK'
  BY DEF TypeOK, SenderTypeOK, UpdateTypeOK, WorkflowTypeOK, CancelTypeOK, MainTypeOK,
     vars, senderVars, updateVars, workflowVars, cancelVars, mainVars

(* The state of a run is well typed, with any number of cancellers.        *)
THEOREM TypeCorrect == Spec => []TypeOK
<1>1. TypeOK /\ [Next]_vars => TypeOK'
  BY UpdateRunsType, WorkflowStepType, CancellerType, MainStepType, SenderRunsType,
     StutterType DEF Next, Returned
<1> QED
  BY <1>1, InitType, PTL DEF Spec

----------------------------------------------------------------------------
(* One updater at a time.                                                  *)

(* Who but a canceller may be inside TestRuns.update for crc c: the        *)
(* workflow of c until its thread has ended, the main thread afterwards.   *)
Ownership ==
  /\ \A w \in Workflow : at[w] # "idle" =>
       wpc[w] # "ended" /\ workflowOf[arg[w].crc] = w
  /\ \A w \in Workflow : wpc[w] = "ended" => todo[w] = {}
  /\ \A w \in Workflow : todo[w] \subseteq CrcsOfWorkflow(w)
  /\ at[Main] # "idle" => wpc[workflowOf[arg[Main].crc]] = "ended"

(* A thread past the first check of Result.update works on a result that   *)
(* was not final, and a thread past the store of the final mark has        *)
(* stored its own.                                                         *)
UpdateProgress ==
  \A t \in Thread :
    /\ at[t] = "setFinal" => ~master[arg[t].crc].final
    /\ HalfUpdated(t, arg[t].crc) => master[arg[t].crc].final = arg[t].res.final

(* Two threads inside TestRuns.update work on different crcs. *)
LEMMA OwnersDiffer ==
  ASSUME Canceller = {}, TypeOK, Ownership, NEW t \in Thread, NEW u \in Thread,
         at[t] # "idle", at[u] # "idle", arg[t].crc = arg[u].crc
  PROVE  t = u
<1>1. arg[t].crc \in CRC
  BY DEF TypeOK, UpdateTypeOK, Message
<1>2. workflowOf[arg[t].crc] \in Workflow
  BY <1>1, TestRunsAssumption
<1> QED
  BY <1>2 DEF Ownership, Thread

(* What the steps of TestRuns.update leave alone, and what they do to the  *)
(* thread's own frame: it keeps its crc until the call has returned.       *)
LEMMA UpdateFrame ==
  ASSUME TypeOK, NEW t \in Thread, UpdateRuns(t)
  PROVE  /\ wpc' = wpc /\ todo' = todo
         /\ at[t] # "idle"
         /\ \A u \in Thread : at'[u] # "idle" =>
              at[u] # "idle" /\ arg'[u].crc = arg[u].crc
         /\ \A u \in Thread \ {t} : at'[u] = at[u] /\ arg'[u] = arg[u]
<1>1. CASE UpdateStep(t)
  <2>1. wpc' = wpc /\ todo' = todo /\ at[t] # "idle"
    BY <1>1 DEF UpdateStep, workflowVars, CheckFinal, SetFinal, CheckState, SetState,
       SetOutcome, CopyResult
  <2>2. CASE CopyResult(t)
    BY <2>1, <2>2 DEF CopyResult, Goto, TypeOK, UpdateTypeOK
  <2>3. CASE ~CopyResult(t)
    BY <1>1, <2>1, <2>3 DEF UpdateStep, CheckFinal, SetFinal, CheckState, SetState,
       SetOutcome, Goto, TypeOK, UpdateTypeOK
  <2> QED
    BY <2>2, <2>3
<1>2. ASSUME NEW s \in Sender, DeliverTo(t, s)
      PROVE  /\ wpc' = wpc /\ todo' = todo
             /\ at[t] # "idle"
             /\ \A u \in Thread : at'[u] # "idle" =>
                  at[u] # "idle" /\ arg'[u].crc = arg[u].crc
             /\ \A u \in Thread \ {t} : at'[u] = at[u] /\ arg'[u] = arg[u]
  BY <1>2 DEF DeliverTo, Goto, workflowVars, TypeOK, UpdateTypeOK
<1> QED
  BY <1>1, <1>2 DEF UpdateRuns

(* CallUpdate occupies the frame of t and no other. *)
LEMMA CallFrame ==
  ASSUME UpdateTypeOK, NEW t \in Thread, NEW c \in CRC, NEW r, CallUpdate(t, c, r)
  PROVE  /\ at'[t] = "check" /\ arg'[t].crc = c
         /\ \A u \in Thread \ {t} : at'[u] = at[u] /\ arg'[u] = arg[u]
  BY DEF UpdateTypeOK, CallUpdate, Goto

LEMMA BeginCopyFrame ==
  ASSUME UpdateTypeOK, NEW t \in Thread, NEW c \in CRC, BeginCopy(t, c)
  PROVE  /\ at'[t] = "begin" /\ arg'[t].crc = c
         /\ \A u \in Thread \ {t} : at'[u] = at[u] /\ arg'[u] = arg[u]
  BY DEF UpdateTypeOK, BeginCopy, Goto

(* What a canceller does outside TestRuns.update. *)
LEMMA CancellerFrame ==
  ASSUME TypeOK, NEW k \in Canceller, CancelRequest(k) \/ CancelStep(k)
  PROVE  /\ UNCHANGED <<senderVars, master, workflowVars, mainVars>>
         /\ \A u \in Thread \ {k} : at'[u] = at[u] /\ arg'[u] = arg[u]
<1>1. k \in Thread
  BY DEF Thread
<1>2. CASE CancelRequest(k)
  BY <1>2 DEF CancelRequest, updateVars
<1>3. ASSUME NEW c \in CRC, Cancel(k, c)
      PROVE  \A u \in Thread \ {k} : at'[u] = at[u] /\ arg'[u] = arg[u]
  BY <1>1, <1>3, BeginCopyFrame DEF Cancel, updateVars, TypeOK
<1>4. CASE Terminate(k)
  <2>1. arg[k].crc \in CRC
    BY <1>1, <1>4 DEF Terminate, TypeOK, UpdateTypeOK, Message
  <2>2. \A u \in Thread \ {k} : at'[u] = at[u] /\ arg'[u] = arg[u]
    BY <1>1, <1>4, <2>1, CallFrame DEF Terminate, TypeOK
  <2> QED
    BY <1>4, <2>2 DEF Terminate
<1>5. CASE CancelCopies(k) \/ TerminateRaises(k)
  BY <1>1, <1>5 DEF CancelCopies, TerminateRaises, Goto, TypeOK, UpdateTypeOK
<1>6. CASE \E c \in CRC : Cancel(k, c)
  BY <1>3, <1>6 DEF Cancel
<1> QED
  BY <1>2, <1>4, <1>5, <1>6 DEF CancelStep

LEMMA InitOwnership == Init => Ownership /\ UpdateProgress
  BY DEF Init, Ownership, UpdateProgress, HalfUpdated, Thread

(* Cancellers or not, the workflows and the main thread keep Ownership. *)
LEMMA OwnershipStep ==
  ASSUME TypeOK, Ownership, [Next]_vars
  PROVE  Ownership'
<1>1. Main \in Thread /\ Workflow \subseteq Thread /\ Main \notin Workflow
  BY TestRunsAssumption DEF Thread
<1>2. ASSUME NEW t \in Thread, UpdateRuns(t)
      PROVE  Ownership'
  BY <1>1, <1>2, UpdateFrame DEF Ownership
<1>3. ASSUME NEW w \in Workflow, WorkflowStep(w)
      PROVE  Ownership'
  <2>1. CASE Report(w)
    BY <2>1 DEF Report, BeginReport, Free, Idle, updateVars, Ownership, TypeOK, WorkflowTypeOK
  <2>2. CASE ReportNext(w)
    <3>1. PICK c \in todo[w] :
            /\ CallUpdate(w, c, Updated(local[c], given[w]))
            /\ BeginReport(w, todo[w] \ {c},
                           IF todo[w] = {c} THEN NotStarted ELSE given[w])
      BY <2>2 DEF ReportNext
    <3>2. c \in CRC /\ workflowOf[c] = w
      BY DEF Ownership, CrcsOfWorkflow
    <3>3. wpc' = wpc /\ wpc[w] # "ended"
      BY <2>2 DEF ReportNext, Ownership
    <3>4. /\ at'[w] = "check" /\ arg'[w].crc = c
          /\ \A u \in Thread \ {w} : at'[u] = at[u] /\ arg'[u] = arg[u]
      BY <1>1, <3>1, <3>2, CallFrame DEF TypeOK
    <3>5. todo' = [todo EXCEPT ![w] = todo[w] \ {c}]
      BY <3>1 DEF BeginReport
    <3> QED
      BY <1>1, <3>2, <3>3, <3>4, <3>5 DEF Ownership, TypeOK, WorkflowTypeOK
  <2>3. CASE ExecuteRaises(w)
    <3>1. /\ todo' = [todo EXCEPT ![w] = CrcsOfWorkflow(w)]
          /\ wpc' = [wpc EXCEPT ![w] = "tearDown"]
          /\ UNCHANGED <<at, arg>>
          /\ wpc[w] = "execute"
      BY <2>3 DEF ExecuteRaises, BeginReport, updateVars
    <3>2. \A v \in Workflow :
            /\ wpc'[v] = "ended" <=> wpc[v] = "ended"
            /\ todo'[v] = IF v = w THEN CrcsOfWorkflow(w) ELSE todo[v]
      BY <3>1 DEF TypeOK, WorkflowTypeOK
    <3>3. at[Main] # "idle" => workflowOf[arg[Main].crc] \in Workflow
      BY <1>1, TestRunsAssumption DEF TypeOK, UpdateTypeOK, Message
    <3> QED
      BY <3>1, <3>2, <3>3 DEF Ownership
  <2>4. CASE ExecuteReturns(w) \/ WorkflowEnds(w)
    <3>1. /\ UNCHANGED <<at, arg, todo>>
          /\ at[w] = "idle" /\ todo[w] = {} /\ wpc[w] # "ended"
          /\ \A v \in Workflow \ {w} : wpc'[v] = wpc[v]
      BY <2>4 DEF ExecuteReturns, WorkflowEnds, Free, Idle, updateVars, TypeOK, WorkflowTypeOK
    <3>2. at[Main] # "idle" => workflowOf[arg[Main].crc] \in Workflow
      BY <1>1, TestRunsAssumption DEF TypeOK, UpdateTypeOK, Message
    <3> QED
      BY <3>1, <3>2 DEF Ownership
  <2> QED
    BY <1>3, <2>1, <2>2, <2>3, <2>4 DEF WorkflowStep
<1>4. CASE MainStep
  <2>1. ASSUME NEW s \in Sender, MainStartsSender(s) \/ MainJoins(s)
        PROVE  Ownership'
    BY <2>1 DEF MainStartsSender, MainJoins, updateVars, workflowVars, Ownership
  <2>2. ASSUME NEW w \in Workflow, MainStartsWorkflow(w)
        PROVE  Ownership'
    BY <2>2 DEF MainStartsWorkflow, updateVars, Ownership, TypeOK, WorkflowTypeOK
  <2>3. ASSUME NEW c \in CRC, MainDecides(c)
        PROVE  Ownership'
    <3>1. CASE UNCHANGED updateVars
      BY <2>3, <3>1 DEF MainDecides, updateVars, workflowVars, Ownership
    <3>2. CASE BeginCopy(Main, c)
      <4>1. /\ arg'[Main].crc = c
            /\ \A u \in Thread \ {Main} : at'[u] = at[u] /\ arg'[u] = arg[u]
        BY <1>1, <3>2, BeginCopyFrame DEF TypeOK
      <4> QED
        BY <1>1, <2>3, <4>1 DEF MainDecides, Joined, workflowVars, Ownership
    <3> QED
      BY <2>3, <3>1, <3>2 DEF MainDecides
  <2>4. CASE MainFinishes
    <3>1. arg[Main].crc \in CRC
      BY <1>1, <2>4 DEF MainFinishes, TypeOK, UpdateTypeOK, Message
    <3>2. /\ arg'[Main].crc = arg[Main].crc
          /\ \A u \in Thread \ {Main} : at'[u] = at[u] /\ arg'[u] = arg[u]
      BY <1>1, <2>4, <3>1, CallFrame DEF MainFinishes, TypeOK
    <3> QED
      BY <1>1, <2>4, <3>2 DEF MainFinishes, workflowVars, Ownership
  <2> QED
    BY <1>4, <2>1, <2>2, <2>3, <2>4 DEF MainStep
<1>5. CASE (\E s \in Sender : SenderRuns(s)) \/ UNCHANGED vars
  BY <1>5 DEF SenderRuns, vars, updateVars, workflowVars, Ownership
<1>6. ASSUME NEW k \in Canceller, CancelRequest(k) \/ CancelStep(k)
      PROVE  Ownership'
  <2>1. k # Main /\ k \notin Workflow
    BY TestRunsAssumption
  <2>2. /\ wpc' = wpc /\ todo' = todo
        /\ \A u \in Thread \ {k} : at'[u] = at[u] /\ arg'[u] = arg[u]
    BY <1>6, CancellerFrame DEF workflowVars
  <2> QED
    BY <1>1, <2>1, <2>2 DEF Ownership
<1> QED
  BY <1>2, <1>3, <1>4, <1>5, <1>6 DEF Next, Returned

(* The kinds of steps of TestRuns.update, seen from the result they work   *)
(* on: t stores the final mark, stores the rest of the new value, or       *)
(* leaves the shared results alone.                                        *)
StoresFinal(t) ==
  /\ at[t] = "setFinal" /\ at'[t] = "checkState" /\ arg' = arg
  /\ master' = [master EXCEPT ![arg[t].crc].final = arg[t].res.final]

StoresRest(t) ==
  /\ at[t] \in {"setState", "setOutcome"} /\ arg' = arg
  /\ at'[t] \in {"setOutcome", "copy"}
  /\ \A c \in CRC : /\ master'[c].final = master[c].final
                    /\ c # arg[t].crc => master'[c] = master[c]

KeepsMaster(t) ==
  /\ master' = master
  /\ at'[t] = "setFinal" => ~master[arg[t].crc].final /\ arg' = arg
  /\ at'[t] \in {"checkState", "setState", "setOutcome"} =>
       at[t] = "checkState" /\ arg' = arg

LEMMA MasterSteps ==
  ASSUME TypeOK, NEW t \in Thread, UpdateRuns(t)
  PROVE  StoresFinal(t) \/ StoresRest(t) \/ KeepsMaster(t)
<1>1. \A c \in CRC : master[c] \in Result
  BY DEF TypeOK, UpdateTypeOK
<1>2. at[t] # "idle" => arg[t].crc \in CRC
  BY DEF TypeOK, UpdateTypeOK, Message
<1>3. CASE CheckFinal(t)
  BY <1>3 DEF CheckFinal, Goto, Target, TypeOK, UpdateTypeOK, KeepsMaster
<1>4. CASE SetFinal(t)
  BY <1>4 DEF SetFinal, Goto, TypeOK, UpdateTypeOK, StoresFinal
<1>5. CASE CheckState(t)
  BY <1>5 DEF CheckState, Goto, TypeOK, UpdateTypeOK, KeepsMaster
<1>6. CASE SetState(t)
  BY <1>1, <1>2, <1>6 DEF SetState, Goto, Result, TypeOK, UpdateTypeOK, StoresRest
<1>7. CASE SetOutcome(t)
  BY <1>1, <1>2, <1>7 DEF SetOutcome, Goto, Result, TypeOK, UpdateTypeOK, StoresRest
<1>8. CASE CopyResult(t)
  BY <1>8 DEF CopyResult, Goto, TypeOK, UpdateTypeOK, KeepsMaster
<1>9. ASSUME NEW s \in Sender, DeliverTo(t, s)
      PROVE  KeepsMaster(t)
  BY <1>9 DEF DeliverTo, Goto, TypeOK, UpdateTypeOK, KeepsMaster
<1> QED
  BY <1>3, <1>4, <1>5, <1>6, <1>7, <1>8, <1>9
     DEF UpdateRuns, UpdateStep

(* A step outside TestRuns.update leaves the shared results alone, and     *)
(* every thread where it was in the call or at its first statement.        *)
LEMMA OtherSteps ==
  ASSUME Canceller = {}, TypeOK, [Next]_vars, \A t \in Thread : ~UpdateRuns(t)
  PROVE  /\ master' = master
         /\ \A t \in Thread : \/ at'[t] = at[t] /\ arg'[t] = arg[t]
                              \/ /\ at[t] \in {"idle", "begin"}
                                 /\ at'[t] \in {"begin", "check"}
<1>1. Main \in Thread /\ Workflow \subseteq Thread
  BY DEF Thread
<1>2. ASSUME NEW w \in Workflow, WorkflowStep(w)
      PROVE  /\ master' = master
             /\ \A t \in Thread : \/ at'[t] = at[t] /\ arg'[t] = arg[t]
                                  \/ /\ at[t] \in {"idle", "begin"}
                                     /\ at'[t] \in {"begin", "check"}
  <2>1. CASE ReportNext(w)
    <3>1. PICK c \in todo[w] : CallUpdate(w, c, Updated(local[c], given[w]))
      BY <2>1 DEF ReportNext
    <3>2. c \in CRC
      BY DEF TypeOK, WorkflowTypeOK
    <3> QED
      BY <1>1, <2>1, <3>1, <3>2, CallFrame DEF ReportNext, Idle, TypeOK
  <2>2. CASE ~ReportNext(w)
    BY <1>2, <2>2 DEF WorkflowStep, Report, ExecuteRaises, ExecuteReturns,
       WorkflowEnds, updateVars
  <2> QED
    BY <2>1, <2>2
<1>3. ASSUME NEW c \in CRC, MainDecides(c)
      PROVE  /\ master' = master
             /\ \A t \in Thread : \/ at'[t] = at[t] /\ arg'[t] = arg[t]
                                  \/ /\ at[t] \in {"idle", "begin"}
                                     /\ at'[t] \in {"begin", "check"}
  BY <1>1, <1>3, BeginCopyFrame DEF MainDecides, Idle, updateVars, TypeOK
<1>5. CASE MainFinishes
  <2>1. arg[Main].crc \in CRC
    BY <1>1, <1>5 DEF MainFinishes, TypeOK, UpdateTypeOK, Message
  <2> QED
    BY <1>1, <1>5, <2>1, CallFrame DEF MainFinishes, TypeOK
<1>4. ASSUME \/ \E s \in Sender : MainStartsSender(s) \/ MainJoins(s) \/ SenderRuns(s)
             \/ \E w \in Workflow : MainStartsWorkflow(w)
             \/ UNCHANGED vars
      PROVE  master' = master /\ at' = at /\ arg' = arg
  BY <1>4 DEF MainStartsSender, MainJoins, SenderRuns, MainStartsWorkflow, updateVars, vars
<1> QED
  BY <1>2, <1>3, <1>4, <1>5 DEF Next, MainStep, Returned

LEMMA UpdateProgressStep ==
  ASSUME Canceller = {}, TypeOK, Ownership, UpdateProgress, [Next]_vars
  PROVE  UpdateProgress'
<1>1. CASE \A t \in Thread : ~UpdateRuns(t)
  BY <1>1, OtherSteps DEF UpdateProgress, HalfUpdated
<1>2. ASSUME NEW t \in Thread, UpdateRuns(t)
      PROVE  UpdateProgress'
  <2> SUFFICES ASSUME NEW u \in Thread
               PROVE  /\ at'[u] = "setFinal" => ~master'[arg'[u].crc].final
                      /\ at'[u] \in {"checkState", "setState", "setOutcome"} =>
                           master'[arg'[u].crc].final = arg'[u].res.final
    BY DEF UpdateProgress, HalfUpdated
  <2>1. at[u] # "idle" => arg[u].crc \in CRC
    BY DEF TypeOK, UpdateTypeOK, Message
  <2>2. at[t] # "idle" /\ arg[t].crc \in CRC
    BY <1>2, UpdateFrame DEF TypeOK, UpdateTypeOK, Message
  <2>3. CASE u # t
    <3>1. at'[u] = at[u] /\ arg'[u] = arg[u]
      BY <1>2, <2>3, UpdateFrame
    <3>2. at[u] # "idle" => arg[u].crc # arg[t].crc
      BY <2>2, <2>3, OwnersDiffer
    <3>3. at[u] # "idle" => master'[arg[u].crc].final = master[arg[u].crc].final
      <4> SUFFICES ASSUME at[u] # "idle"
                   PROVE  master'[arg[u].crc].final = master[arg[u].crc].final
        OBVIOUS
      <4>1. CASE StoresFinal(t)
        BY <2>1, <3>2, <4>1 DEF StoresFinal, TypeOK, UpdateTypeOK
      <4>2. CASE StoresRest(t)
        BY <2>1, <4>2 DEF StoresRest
      <4>3. CASE KeepsMaster(t)
        BY <4>3 DEF KeepsMaster
      <4> QED
        BY <1>2, <4>1, <4>2, <4>3, MasterSteps
    <3> QED
      BY <3>1, <3>3 DEF UpdateProgress, HalfUpdated
  <2>4. CASE u = t
    <3>1. master[arg[t].crc] \in Result
      BY <2>2 DEF TypeOK, UpdateTypeOK
    <3>2. CASE StoresFinal(t)
      BY <2>2, <2>4, <3>1, <3>2 DEF StoresFinal, TypeOK, UpdateTypeOK, Result
    <3>3. CASE StoresRest(t)
      BY <2>2, <2>4, <3>3 DEF StoresRest, UpdateProgress, HalfUpdated
    <3>4. CASE KeepsMaster(t)
      BY <2>4, <3>4 DEF KeepsMaster, UpdateProgress, HalfUpdated
    <3> QED
      BY <1>2, <3>2, <3>3, <3>4, MasterSteps
  <2> QED
    BY <2>3, <2>4
<1> QED
  BY <1>1, <1>2

(* A result that is final, and not half updated, keeps its value.          *)
LEMMA FinalStep ==
  ASSUME Canceller = {}, TypeOK, Ownership, UpdateProgress, [Next]_vars,
         NEW c \in CRC, master[c].final, \A t \in Thread : ~HalfUpdated(t, c)
  PROVE  master'[c] = master[c]
<1>1. CASE \A t \in Thread : ~UpdateRuns(t)
  BY <1>1, OtherSteps
<1>2. ASSUME NEW t \in Thread, UpdateRuns(t)
      PROVE  master'[c] = master[c]
  <2>1. arg[t].crc = c => at[t] \notin {"setState", "setOutcome"}
    BY DEF HalfUpdated
  <2>2. arg[t].crc = c => at[t] # "setFinal"
    BY DEF UpdateProgress
  <2>3. CASE StoresFinal(t)
    BY <2>2, <2>3 DEF StoresFinal, TypeOK, UpdateTypeOK
  <2>4. CASE StoresRest(t)
    BY <2>1, <2>4 DEF StoresRest
  <2>5. CASE KeepsMaster(t)
    BY <2>5 DEF KeepsMaster
  <2> QED
    BY <1>2, <2>3, <2>4, <2>5, MasterSteps
<1> QED
  BY <1>1, <1>2

(* Unless someone cancels, no two threads are inside Result.update of the  *)
(* same case-run-configuration: the workflow that owns it reports one      *)
(* result after the other, and TestRuns.wait touches it only when that     *)
(* workflow has ended.                                                     *)
THEOREM SingleUpdaterCorrect == Canceller = {} /\ Spec => []SingleUpdater
<1> SUFFICES ASSUME Canceller = {} PROVE Spec => []SingleUpdater
  OBVIOUS
<1>1. Init => Ownership
  BY InitOwnership
<1>2. TypeOK /\ Ownership /\ [Next]_vars => Ownership'
  BY OwnershipStep
<1>3. TypeOK /\ Ownership => SingleUpdater
  BY OwnersDiffer DEF SingleUpdater, InUpdate
<1> QED
  BY <1>1, <1>2, <1>3, TypeCorrect, PTL DEF Spec

(* Unless someone cancels, a final result is never changed again, though   *)
(* Result.update stores the final mark before anything else.               *)
THEOREM FinalIsForever == Canceller = {} /\ Spec => FinalForever
<1> SUFFICES ASSUME Canceller = {} PROVE Spec => FinalForever
  OBVIOUS
<1>1. Init => Ownership /\ UpdateProgress
  BY InitOwnership
<1>2. TypeOK /\ Ownership /\ UpdateProgress /\ [Next]_vars
        => Ownership' /\ UpdateProgress'
  BY OwnershipStep, UpdateProgressStep
<1>3. TypeOK /\ Ownership /\ UpdateProgress /\ [Next]_vars
        => [\A c \in CRC :
              master[c].final /\ (\A t \in Thread : ~HalfUpdated(t, c))
                => master'[c] = master[c]]_vars
  BY FinalStep
<1> QED
  BY <1>1, <1>2, <1>3, TypeCorrect, PTL DEF Spec, FinalForever

----------------------------------------------------------------------------
(* More about Result.update, used by the proofs below.                     *)

LEMMA PrecedesTransitive ==
  ASSUME NEW p \in Result, NEW q \in Result, NEW r \in Result,
         Precedes(p, q), Precedes(q, r)
  PROVE  Precedes(p, r)
<1>1. /\ StateIndex[p.state] \in Nat /\ StateIndex[q.state] \in Nat
      /\ StateIndex[r.state] \in Nat
      /\ OutcomeIndex[p.outcome] \in Nat /\ OutcomeIndex[q.outcome] \in Nat
      /\ OutcomeIndex[r.outcome] \in Nat
  BY IndexType DEF Result
<1> QED
  BY <1>1 DEF Precedes

(* No two outcomes have the same rank. *)
LEMMA OutcomeRanks ==
  \A o \in Outcome : \A p \in Outcome : OutcomeIndex[o] = OutcomeIndex[p] => o = p
  BY DEF Outcome, OutcomeIndex

(* Results that reach a sender in the order in which the shared result had *)
(* them are taken over as they are, never refused.                         *)
LEMMA UpdatedIsNew ==
  ASSUME NEW r \in Result, NEW q \in Result, Precedes(r, q)
  PROVE  Updated(r, q) = q
<1>1. CASE r.final
  BY <1>1 DEF Precedes, Updated
<1>2. CASE ~r.final
  <2>1. /\ StateIndex[r.state] \in Nat /\ StateIndex[q.state] \in Nat
        /\ OutcomeIndex[r.outcome] \in Nat /\ OutcomeIndex[q.outcome] \in Nat
    BY IndexType DEF Result
  <2>2. ~Backward(r, q)
    BY <2>1 DEF Precedes, Backward
  <2>3. Worst(r.outcome, q.outcome) = q.outcome
    <3>1. r.outcome \in Outcome /\ q.outcome \in Outcome
      BY DEF Result
    <3> QED
      BY <2>1, <3>1, OutcomeRanks DEF Precedes, Worst
  <2>4. q = [state |-> q.state, outcome |-> q.outcome, final |-> q.final]
    BY DEF Result
  <2> QED
    BY <1>2, <2>2, <2>3, <2>4 DEF Updated, Res
<1> QED
  BY <1>1, <1>2

----------------------------------------------------------------------------
(* The queue q and the view v of one sender, and the shared results ms.    *)

(* Each result of q follows the ones before it, none is ahead of ms. *)
Chained(q, v, ms) ==
  /\ \A c \in CRC : Precedes(v[c], ms[c])
  /\ \A i \in 1..Len(q) :
       /\ Precedes(v[q[i].crc], q[i].res)
       /\ Precedes(q[i].res, ms[q[i].crc])
       /\ \A j \in 1..(i - 1) : q[j].crc = q[i].crc => Precedes(q[j].res, q[i].res)

(* Nothing final is held or queued for c. *)
Open(q, v, c) ==
  /\ ~v[c].final
  /\ \A i \in 1..Len(q) : q[i].crc = c => ~q[i].res.final

(* Nothing is queued behind a final result. *)
NothingBehindFinal(q, v) ==
  \A i \in 1..Len(q) :
    /\ ~v[q[i].crc].final
    /\ \A j \in 1..(i - 1) : q[j].crc = q[i].crc => ~q[j].res.final

(* The fields of a result that Result.update stores one by one only grow. *)
Grows(r, q) ==
  /\ StateIndex[r.state] <= StateIndex[q.state]
  /\ OutcomeIndex[r.outcome] <= OutcomeIndex[q.outcome]

LEMMA MessageParts ==
  ASSUME NEW q \in Seq(Message)
  PROVE  \A i \in 1..Len(q) : q[i] \in Message /\ q[i].crc \in CRC /\ q[i].res \in Result
<1>1. \A i \in 1..Len(q) : q[i] \in Message
  OBVIOUS
<1> QED
  BY <1>1 DEF Message

(* The indices of the rest of a queue, and of a queue with one more item. *)
LEMMA TailItems ==
  ASSUME NEW q \in Seq(Message), q # <<>>
  PROVE  /\ Tail(q) \in Seq(Message) /\ Len(q) \in Nat /\ Len(q) >= 1
         /\ Len(Tail(q)) = Len(q) - 1
         /\ Head(q) = q[1]
         /\ \A i \in 1..Len(Tail(q)) : Tail(q)[i] = q[i + 1] /\ i + 1 \in 2..Len(q)
  OBVIOUS

LEMMA AppendItems ==
  ASSUME NEW q \in Seq(Message), NEW m \in Message
  PROVE  /\ Append(q, m) \in Seq(Message) /\ Len(q) \in Nat
         /\ Len(Append(q, m)) = Len(q) + 1
         /\ \A i \in 1..Len(q) : Append(q, m)[i] = q[i]
         /\ Append(q, m)[Len(q) + 1] = m
  OBVIOUS

(* The sender takes the first item over. *)
LEMMA ChainedTail ==
  ASSUME NEW q \in Seq(Message), q # <<>>,
         NEW v \in [CRC -> Result], NEW ms \in [CRC -> Result], Chained(q, v, ms),
         NEW w, w = [v EXCEPT ![Head(q).crc] = Updated(@, Head(q).res)]
  PROVE  /\ Chained(Tail(q), w, ms)
         /\ \A c \in CRC : w[c] = IF c = Head(q).crc THEN Head(q).res ELSE v[c]
<1>1. Head(q) = q[1] /\ Len(q) \in Nat /\ 1 \in 1..Len(q)
  BY TailItems
<1>2. Head(q).crc \in CRC /\ Head(q).res \in Result
  BY <1>1, MessageParts
<1>3. Updated(v[Head(q).crc], Head(q).res) = Head(q).res
  BY <1>1, <1>2, UpdatedIsNew DEF Chained
<1>4. \A c \in CRC : w[c] = IF c = Head(q).crc THEN Head(q).res ELSE v[c]
  BY <1>2, <1>3
<1>5. \A c \in CRC : Precedes(w[c], ms[c])
  BY <1>1, <1>2, <1>4 DEF Chained
<1>6. ASSUME NEW i \in 1..Len(Tail(q))
      PROVE  /\ Precedes(w[Tail(q)[i].crc], Tail(q)[i].res)
             /\ Precedes(Tail(q)[i].res, ms[Tail(q)[i].crc])
             /\ \A j \in 1..(i - 1) : Tail(q)[j].crc = Tail(q)[i].crc
                                        => Precedes(Tail(q)[j].res, Tail(q)[i].res)
  <2>1. Tail(q)[i] = q[i + 1] /\ i + 1 \in 2..Len(q) /\ i + 1 \in 1..Len(q) /\ i \in Nat
    BY <1>1, TailItems
  <2>2. q[i + 1].crc \in CRC
    BY <2>1, MessageParts
  <2>3. 1 \in 1..((i + 1) - 1)
    BY <2>1
  <2>4. Precedes(w[q[i + 1].crc], q[i + 1].res)
    BY <1>1, <1>4, <2>1, <2>2, <2>3 DEF Chained
  <2>5. Precedes(q[i + 1].res, ms[q[i + 1].crc])
    BY <2>1 DEF Chained
  <2>6. ASSUME NEW j \in 1..(i - 1), Tail(q)[j].crc = Tail(q)[i].crc
        PROVE  Precedes(Tail(q)[j].res, Tail(q)[i].res)
    <3>1. j \in 1..Len(Tail(q)) /\ j + 1 \in 1..((i + 1) - 1)
      BY <2>1
    <3>2. Tail(q)[j] = q[j + 1]
      BY <3>1, TailItems
    <3> QED
      BY <2>1, <2>6, <3>1, <3>2 DEF Chained
  <2> QED
    BY <2>1, <2>4, <2>5, <2>6
<1> QED
  BY <1>4, <1>5, <1>6 DEF Chained

(* The present shared result is queued. *)
LEMMA ChainedAppend ==
  ASSUME NEW q \in Seq(Message), NEW m \in Message,
         NEW v \in [CRC -> Result], NEW ms \in [CRC -> Result], Chained(q, v, ms),
         m.res = ms[m.crc]
  PROVE  Chained(Append(q, m), v, ms)
<1>1. m.crc \in CRC /\ m.res \in Result
  BY DEF Message
<1>2. Precedes(m.res, m.res)
  BY <1>1, PrecedesReflexive
<1> SUFFICES ASSUME NEW i \in 1..Len(Append(q, m))
             PROVE  /\ Precedes(v[Append(q, m)[i].crc], Append(q, m)[i].res)
                    /\ Precedes(Append(q, m)[i].res, ms[Append(q, m)[i].crc])
                    /\ \A j \in 1..(i - 1) :
                         Append(q, m)[j].crc = Append(q, m)[i].crc
                           => Precedes(Append(q, m)[j].res, Append(q, m)[i].res)
  BY DEF Chained
<1>3. CASE i \in 1..Len(q)
  <2>1. \A j \in 1..(i - 1) : j \in 1..Len(q)
    BY <1>3, AppendItems
  <2> QED
    BY <1>3, <2>1, AppendItems DEF Chained
<1>4. CASE i = Len(q) + 1
  <2>1. \A j \in 1..(i - 1) : j \in 1..Len(q)
    BY <1>4, AppendItems
  <2> QED
    BY <1>1, <1>2, <1>4, <2>1, AppendItems DEF Chained
<1> QED
  BY <1>3, <1>4, AppendItems

(* The shared result of some crcs is stored into, while nothing final is   *)
(* held or queued for them.                                                *)
LEMMA ChainedGrows ==
  ASSUME NEW q \in Seq(Message), NEW v \in [CRC -> Result],
         NEW ms \in [CRC -> Result], NEW ns \in [CRC -> Result], Chained(q, v, ms),
         \A c \in CRC : ns[c] = ms[c] \/ (Grows(ms[c], ns[c]) /\ Open(q, v, c))
  PROVE  Chained(q, v, ns)
<1>1. ASSUME NEW r \in Result, NEW c \in CRC, Precedes(r, ms[c]),
             Open(q, v, c) => ~r.final
      PROVE  Precedes(r, ns[c])
  <2>1. /\ StateIndex[r.state] \in Nat /\ OutcomeIndex[r.outcome] \in Nat
        /\ StateIndex[ms[c].state] \in Nat /\ OutcomeIndex[ms[c].outcome] \in Nat
        /\ StateIndex[ns[c].state] \in Nat /\ OutcomeIndex[ns[c].outcome] \in Nat
    <3>1. r \in Result /\ ms[c] \in Result /\ ns[c] \in Result
      OBVIOUS
    <3> QED
      BY <3>1, IndexType DEF Result
  <2> QED
    BY <1>1, <2>1 DEF Precedes, Grows
<1>2. \A c \in CRC : Precedes(v[c], ns[c])
  <2> TAKE c \in CRC
  <2>1. v[c] \in Result /\ Precedes(v[c], ms[c]) /\ (Open(q, v, c) => ~v[c].final)
    BY DEF Chained, Open
  <2> QED
    BY <1>1, <2>1
<1>3. \A i \in 1..Len(q) : Precedes(q[i].res, ns[q[i].crc])
  <2> TAKE i \in 1..Len(q)
  <2>1. q[i].crc \in CRC /\ q[i].res \in Result
    BY MessageParts
  <2>2. Precedes(q[i].res, ms[q[i].crc]) /\ (Open(q, v, q[i].crc) => ~q[i].res.final)
    BY DEF Chained, Open
  <2> QED
    BY <1>1, <2>1, <2>2
<1> QED
  BY <1>2, <1>3 DEF Chained

(* What is behind a result that is not final is not final. *)
LEMMA OpenBehind ==
  ASSUME NEW q \in Seq(Message), NEW v \in [CRC -> Result], NEW ms \in [CRC -> Result],
         Chained(q, v, ms), NEW c \in CRC, ~ms[c].final
  PROVE  Open(q, v, c)
  BY DEF Chained, Open, Precedes

LEMMA OpenTail ==
  ASSUME NEW q \in Seq(Message), q # <<>>, NEW v \in [CRC -> Result], NEW w,
         \A c \in CRC : w[c] = IF c = Head(q).crc THEN Head(q).res ELSE v[c],
         NEW c \in CRC, Open(q, v, c)
  PROVE  Open(Tail(q), w, c)
<1>1. Head(q) = q[1] /\ Len(q) \in Nat /\ 1 \in 1..Len(q)
  BY TailItems
<1>2. ~w[c].final
  BY <1>1 DEF Open
<1>3. \A i \in 1..Len(Tail(q)) : Tail(q)[i] = q[i + 1] /\ i + 1 \in 1..Len(q)
  BY TailItems
<1> QED
  BY <1>2, <1>3 DEF Open

LEMMA OpenAppend ==
  ASSUME NEW q \in Seq(Message), NEW m \in Message, NEW v, NEW c, Open(q, v, c),
         m.crc # c
  PROVE  Open(Append(q, m), v, c)
<1>1. \A i \in 1..Len(Append(q, m)) : i \in 1..Len(q) \/ i = Len(q) + 1
  BY AppendItems
<1> QED
  BY <1>1, AppendItems DEF Open

LEMMA NothingBehindTail ==
  ASSUME NEW q \in Seq(Message), q # <<>>, NEW v \in [CRC -> Result], NEW w,
         \A c \in CRC : w[c] = IF c = Head(q).crc THEN Head(q).res ELSE v[c],
         NothingBehindFinal(q, v)
  PROVE  NothingBehindFinal(Tail(q), w)
<1>1. Head(q) = q[1] /\ Len(q) \in Nat /\ 1 \in 1..Len(q)
  BY TailItems
<1> SUFFICES ASSUME NEW i \in 1..Len(Tail(q))
             PROVE  /\ ~w[Tail(q)[i].crc].final
                    /\ \A j \in 1..(i - 1) :
                         Tail(q)[j].crc = Tail(q)[i].crc => ~Tail(q)[j].res.final
  BY DEF NothingBehindFinal
<1>2. Tail(q)[i] = q[i + 1] /\ i + 1 \in 1..Len(q) /\ i \in Nat /\ 1 \in 1..((i + 1) - 1)
  BY <1>1, TailItems
<1>3. q[i + 1].crc \in CRC
  BY <1>2, MessageParts
<1>4. ~w[q[i + 1].crc].final
  BY <1>1, <1>2, <1>3 DEF NothingBehindFinal
<1>5. ASSUME NEW j \in 1..(i - 1), Tail(q)[j].crc = Tail(q)[i].crc
      PROVE  ~Tail(q)[j].res.final
  <2>1. j \in 1..Len(Tail(q)) /\ j + 1 \in 1..((i + 1) - 1)
    BY <1>2
  <2>2. Tail(q)[j] = q[j + 1]
    BY <2>1, TailItems
  <2> QED
    BY <1>2, <1>5, <2>1, <2>2 DEF NothingBehindFinal
<1> QED
  BY <1>2, <1>4, <1>5

LEMMA NothingBehindAppend ==
  ASSUME NEW q \in Seq(Message), NEW m \in Message, NEW v,
         NothingBehindFinal(q, v), Open(q, v, m.crc)
  PROVE  NothingBehindFinal(Append(q, m), v)
<1> SUFFICES ASSUME NEW i \in 1..Len(Append(q, m))
             PROVE  /\ ~v[Append(q, m)[i].crc].final
                    /\ \A j \in 1..(i - 1) :
                         Append(q, m)[j].crc = Append(q, m)[i].crc
                           => ~Append(q, m)[j].res.final
  BY DEF NothingBehindFinal
<1>1. CASE i \in 1..Len(q)
  <2>1. \A j \in 1..(i - 1) : j \in 1..Len(q)
    BY <1>1, AppendItems
  <2> QED
    BY <1>1, <2>1, AppendItems DEF NothingBehindFinal
<1>2. CASE i = Len(q) + 1
  <2>1. \A j \in 1..(i - 1) : j \in 1..Len(q)
    BY <1>2, AppendItems
  <2> QED
    BY <1>2, <2>1, AppendItems DEF Open
<1> QED
  BY <1>1, <1>2, AppendItems

----------------------------------------------------------------------------
(* Steps of a run, by what they do to the senders and the shared results.  *)

(* A sender only ever takes items off its queue, into its view. *)
LEMMA SenderMoves ==
  ASSUME SenderTypeOK, NEW s \in Sender, SenderStep(s)
  PROVE  \A q \in Sender :
           \/ queue'[q] = queue[q] /\ view'[q] = view[q]
           \/ /\ q = s /\ queue[s] # <<>> /\ Process(s)
              /\ queue'[s] = Tail(queue[s])
              /\ view'[s] = [view[s] EXCEPT ![Head(queue[s]).crc] =
                                              Updated(@, Head(queue[s]).res)]
<1>1. CASE Process(s)
  BY <1>1 DEF Process, SenderTypeOK
<1>2. CASE SetUp(s) \/ Flush(s) \/ TearDown(s)
  BY <1>2 DEF SetUp, Flush, TearDown
<1> QED
  BY <1>1, <1>2 DEF SenderStep

(* What is neither a step of TestRuns.update nor of a sender touches no    *)
(* result and no queue.                                                    *)
LEMMA OutsideSteps ==
  ASSUME TypeOK, [Next]_vars,
         \A t \in Thread : ~UpdateRuns(t), \A s \in Sender : ~SenderRuns(s)
  PROVE  /\ UNCHANGED <<master, to, queue, view, dirty, exc, reported, closed>>
         /\ spc' = spc \/ \E s \in Sender : StartSender(s)
<1>1. ASSUME NEW w \in Workflow, WorkflowStep(w) \/ MainStartsWorkflow(w)
      PROVE  UNCHANGED <<master, to, senderVars>>
  BY <1>1 DEF WorkflowStep, Report, ReportNext, CallUpdate, ExecuteRaises, ExecuteReturns,
     WorkflowEnds, MainStartsWorkflow, updateVars
<1>2. ASSUME NEW k \in Canceller, CancelRequest(k) \/ CancelStep(k)
      PROVE  UNCHANGED <<master, to, senderVars>>
  BY <1>2 DEF CancelRequest, CancelStep, Cancel, BeginCopy, CancelCopies, Terminate,
     CallUpdate, TerminateRaises, updateVars
<1>3. ASSUME \/ \E s \in Sender : MainJoins(s)
             \/ \E c \in CRC : MainDecides(c)
             \/ MainFinishes
             \/ UNCHANGED vars
      PROVE  UNCHANGED <<master, to, senderVars>>
  BY <1>3 DEF MainJoins, MainDecides, BeginCopy, MainFinishes, CallUpdate, updateVars, vars
<1>4. ASSUME NEW s \in Sender, MainStartsSender(s)
      PROVE  /\ UNCHANGED <<master, to, queue, view, dirty, exc, reported, closed>>
             /\ StartSender(s)
  BY <1>4 DEF MainStartsSender, StartSender, updateVars
<1> QED
  BY <1>1, <1>2, <1>3, <1>4 DEF Next, MainStep, Returned, senderVars

Changing == {"setFinal", "checkState", "setState", "setOutcome"}

(* A thread stores into the result it was called for, which grows. *)
LEMMA UpdateGrows ==
  ASSUME TypeOK, NEW t \in Thread, UpdateStep(t),
         at[t] = "setState" => ~Backward(master[arg[t].crc], arg[t].res)
  PROVE  \A c \in CRC :
           \/ master'[c] = master[c]
           \/ c = arg[t].crc /\ at[t] \in Changing /\ Grows(master[c], master'[c])
<1>1. at[t] # "idle" /\ arg[t].crc \in CRC /\ arg[t].res \in Result
  BY UpdateFrame DEF UpdateRuns, TypeOK, UpdateTypeOK, Message
<1>2. /\ \A r \in Result : StateIndex[r.state] \in Nat /\ OutcomeIndex[r.outcome] \in Nat
      /\ \A c \in CRC : master[c] \in Result
  BY IndexType DEF Result, TypeOK, UpdateTypeOK
<1>3. CASE SetFinal(t)
  <2>1. \A c \in CRC : /\ c # arg[t].crc => master'[c] = master[c]
                       /\ master'[c].state = master[c].state
                       /\ master'[c].outcome = master[c].outcome
    BY <1>1, <1>2, <1>3 DEF SetFinal, TypeOK, UpdateTypeOK, Result
  <2> QED
    BY <1>2, <1>3, <2>1 DEF SetFinal, Changing, Grows
<1>4. CASE SetState(t)
  <2>1. \A c \in CRC : /\ c # arg[t].crc => master'[c] = master[c]
                       /\ c = arg[t].crc => master'[c].state = arg[t].res.state
                       /\ master'[c].outcome = master[c].outcome
    BY <1>1, <1>2, <1>4 DEF SetState, TypeOK, UpdateTypeOK, Result
  <2> QED
    BY <1>1, <1>2, <1>4, <2>1 DEF SetState, Changing, Grows, Backward
<1>5. CASE SetOutcome(t)
  <2>1. \A c \in CRC : /\ c # arg[t].crc => master'[c] = master[c]
                       /\ c = arg[t].crc =>
                            master'[c].outcome = Worst(master[c].outcome, arg[t].res.outcome)
                       /\ master'[c].state = master[c].state
    BY <1>1, <1>2, <1>5 DEF SetOutcome, TypeOK, UpdateTypeOK, Result
  <2>2. at[t] \in Changing BY <1>5 DEF SetOutcome, Changing
  <2>3. \A old, new \in {r.outcome : r \in Result} :
          OutcomeIndex[old] <= OutcomeIndex[Worst(old, new)]
    BY <1>2 DEF Worst
  <2>4. /\ master[arg[t].crc].outcome \in {r.outcome : r \in Result}
        /\ arg[t].res.outcome \in {r.outcome : r \in Result}
        /\ StateIndex[master[arg[t].crc].state] \in Nat
    BY <1>1, <1>2
  <2>5. Grows(master[arg[t].crc], master'[arg[t].crc])
    BY <1>1, <2>1, <2>3, <2>4 DEF Grows
  <2> QED BY <2>1, <2>2, <2>5
<1>6. CASE CheckFinal(t) \/ CheckState(t) \/ CopyResult(t)
  BY <1>6 DEF CheckFinal, CheckState, CopyResult
<1> QED
  BY <1>3, <1>4, <1>5, <1>6 DEF UpdateStep

----------------------------------------------------------------------------
(* Results reach the senders in order.                                     *)

(* What holds of the call of TestRuns.update that t is in, by the place it *)
(* has reached.                                                            *)
CallPoint(t) ==
  /\ at[t] \in Changing => \A s \in Sender : Open(queue[s], view[s], arg[t].crc)
  /\ at[t] = "setState" => ~Backward(master[arg[t].crc], arg[t].res)
  /\ at[t] = "setOutcome" => master[arg[t].crc].state = arg[t].res.state
  /\ at[t] = "deliver" => arg[t].res = master[arg[t].crc]

(* Every sender lags behind the shared results, in their order, and while  *)
(* a result is being changed no sender has anything final for it.          *)
DeliveryInv ==
  /\ \A s \in Sender : Chained(queue[s], view[s], master)
  /\ \A t \in Thread : CallPoint(t)

LEMMA DeliveryTypes ==
  ASSUME TypeOK
  PROVE  /\ master \in [CRC -> Result]
         /\ \A s \in Sender : queue[s] \in Seq(Message) /\ view[s] \in [CRC -> Result]
         /\ \A t \in Thread : at[t] # "idle" =>
              arg[t] \in Message /\ arg[t].crc \in CRC /\ arg[t].res \in Result
  BY DEF TypeOK, SenderTypeOK, UpdateTypeOK, Message

(* A sender's step keeps the order, makes nothing final that was not       *)
(* queued, and leaves nothing behind a final result.                       *)
LEMMA TakesInOrder ==
  ASSUME TypeOK, DeliveryInv, NEW s \in Sender, SenderStep(s), NEW q \in Sender
  PROVE  /\ Chained(queue'[q], view'[q], master)
         /\ \A c \in CRC : Open(queue[q], view[q], c) => Open(queue'[q], view'[q], c)
         /\ NothingBehindFinal(queue[q], view[q]) => NothingBehindFinal(queue'[q], view'[q])
<1>1. CASE queue'[q] = queue[q] /\ view'[q] = view[q]
  BY <1>1 DEF DeliveryInv
<1>2. CASE ~(queue'[q] = queue[q] /\ view'[q] = view[q])
  <2>1. /\ q = s /\ queue[q] # <<>> /\ queue'[q] = Tail(queue[q])
        /\ view'[q] = [view[q] EXCEPT ![Head(queue[q]).crc] =
                                         Updated(@, Head(queue[q]).res)]
    BY <1>2, SenderMoves DEF TypeOK
  <2>2. /\ queue[q] \in Seq(Message) /\ queue[q] # <<>>
        /\ view[q] \in [CRC -> Result] /\ master \in [CRC -> Result]
    BY <2>1, DeliveryTypes
  <2>3. /\ Chained(Tail(queue[q]), view'[q], master)
        /\ \A c \in CRC : view'[q][c] = IF c = Head(queue[q]).crc
                                        THEN Head(queue[q]).res ELSE view[q][c]
    BY <2>1, <2>2, ChainedTail DEF DeliveryInv
  <2>4. ASSUME NEW c \in CRC, Open(queue[q], view[q], c)
        PROVE  Open(Tail(queue[q]), view'[q], c)
    BY <2>2, <2>3, <2>4, OpenTail
  <2>5. NothingBehindFinal(queue[q], view[q]) => NothingBehindFinal(Tail(queue[q]), view'[q])
    BY <2>2, <2>3, NothingBehindTail
  <2> QED
    BY <2>1, <2>3, <2>4, <2>5
<1> QED
  BY <1>1, <1>2

(* The call t is in, after a step of t that is not a delivery. *)
LEMMA CallPointStep ==
  ASSUME Canceller = {}, TypeOK, DeliveryInv, NEW t \in Thread, UpdateStep(t)
  PROVE  CallPoint(t)'
<1>1. at[t] # "idle" /\ arg[t].crc \in CRC /\ arg[t] \in Message /\ UNCHANGED senderVars
  BY UpdateFrame, DeliveryTypes DEF UpdateRuns, UpdateStep
<1>2. queue' = queue /\ view' = view
  BY <1>1 DEF senderVars
<1>3. CASE CheckFinal(t)
  <2>1. ~Target(t).final => \A s \in Sender : Open(queue[s], view[s], arg[t].crc)
    BY <1>1, DeliveryTypes, OpenBehind DEF DeliveryInv, Target
  <2> QED
    BY <1>2, <1>3, <2>1 DEF CheckFinal, Goto, TypeOK, UpdateTypeOK, CallPoint, Changing
<1>4. CASE SetFinal(t)
  BY <1>2, <1>4 DEF SetFinal, Goto, TypeOK, UpdateTypeOK, CallPoint, DeliveryInv, Changing
<1>5. CASE CheckState(t)
  BY <1>2, <1>5 DEF CheckState, Goto, Target, TypeOK, UpdateTypeOK, CallPoint,
     DeliveryInv, Changing
<1>6. CASE SetState(t)
  <2>1. master'[arg[t].crc].state = arg[t].res.state
    <3>1. master \in [CRC -> Result] /\ master[arg[t].crc] \in Result
      BY <1>1, DeliveryTypes
    <3>2. master' = [master EXCEPT ![arg[t].crc] =
                       [master[arg[t].crc] EXCEPT !.state = arg[t].res.state]]
      BY <1>6 DEF SetState
    <3>3. master'[arg[t].crc] = [master[arg[t].crc] EXCEPT !.state = arg[t].res.state]
      BY <1>1, <3>1, <3>2
    <3> QED
      BY <3>1, <3>3 DEF Result
  <2> QED
    BY <1>2, <1>6, <2>1 DEF SetState, Goto, TypeOK, UpdateTypeOK, CallPoint,
       DeliveryInv, Changing
<1>7. CASE SetOutcome(t)
  BY <1>7 DEF SetOutcome, Goto, TypeOK, UpdateTypeOK, CallPoint, Changing
<1>8. CASE CopyResult(t)
  <2>1. at'[t] \in {"idle", "deliver"} /\ master' = master
    BY <1>8 DEF CopyResult, Goto, TypeOK, UpdateTypeOK
  <2>2. at'[t] = "deliver" => arg'[t] = [crc |-> arg[t].crc, res |-> Target(t)]
    BY <1>8 DEF CopyResult, Goto, TypeOK, UpdateTypeOK
  <2> QED
    BY <2>1, <2>2 DEF CallPoint, Changing, Target
<1> QED
  BY <1>3, <1>4, <1>5, <1>6, <1>7, <1>8 DEF UpdateStep

LEMMA DeliveryStep ==
  ASSUME Canceller = {}, TypeOK, TypeOK', Ownership, DeliveryInv, [Next]_vars
  PROVE  DeliveryInv'
<1>1. ASSUME NEW t \in Thread, UpdateStep(t)
      PROVE  DeliveryInv'
  <2>1. queue' = queue /\ view' = view
    BY <1>1 DEF UpdateStep, senderVars
  <2>2. \A c \in CRC : \/ master'[c] = master[c]
                       \/ /\ c = arg[t].crc /\ at[t] \in Changing
                          /\ Grows(master[c], master'[c])
    BY <1>1, UpdateGrows DEF DeliveryInv, CallPoint
  <2>3. ASSUME NEW s \in Sender
        PROVE  Chained(queue[s], view[s], master')
    <3>1. \A c \in CRC : \/ master'[c] = master[c]
                         \/ Grows(master[c], master'[c]) /\ Open(queue[s], view[s], c)
      BY <2>2 DEF DeliveryInv, CallPoint
    <3>2. master \in [CRC -> Result] /\ master' \in [CRC -> Result]
      BY DEF TypeOK, UpdateTypeOK
    <3> QED
      BY <3>1, <3>2, DeliveryTypes, ChainedGrows DEF DeliveryInv
  <2>4. ASSUME NEW u \in Thread
        PROVE  CallPoint(u)'
    <3>1. CASE u = t
      BY <1>1, <3>1, CallPointStep
    <3>2. CASE u # t
      <4>1. at[t] # "idle" /\ at'[u] = at[u] /\ arg'[u] = arg[u]
        BY <1>1, <3>2, UpdateFrame DEF UpdateRuns
      <4>2. at[u] # "idle" => master'[arg[u].crc] = master[arg[u].crc]
        BY <2>2, <3>2, <4>1, OwnersDiffer, DeliveryTypes
      <4> QED
        BY <2>1, <4>1, <4>2 DEF DeliveryInv, CallPoint, Changing
    <3> QED
      BY <3>1, <3>2
  <2> QED
    BY <2>1, <2>3, <2>4 DEF DeliveryInv, Chained
<1>2. ASSUME NEW t \in Thread, NEW s \in Sender, DeliverTo(t, s)
      PROVE  DeliveryInv'
  <2>1. /\ at[t] = "deliver" /\ master' = master /\ view' = view
        /\ arg[t] \in Message /\ arg[t].res = master[arg[t].crc]
        /\ queue' = [queue EXCEPT ![s] = Append(@, arg[t])]
    BY <1>2, DeliveryTypes DEF DeliverTo, ResultUpdate, DeliveryInv, CallPoint
  <2>2. queue \in [Sender -> Seq(Message)]
    BY DEF TypeOK, SenderTypeOK
  <2>3. ASSUME NEW q \in Sender
        PROVE  Chained(queue'[q], view[q], master)
    <3>1. Chained(Append(queue[s], arg[t]), view[s], master)
      BY <2>1, DeliveryTypes, ChainedAppend DEF DeliveryInv
    <3> QED
      BY <2>1, <2>2, <3>1 DEF DeliveryInv
  <2>4. ASSUME NEW u \in Thread
        PROVE  CallPoint(u)'
    <3>1. CASE u = t
      BY <1>2, <2>1, <3>1 DEF DeliverTo, Goto, TypeOK, UpdateTypeOK, CallPoint, Changing
    <3>2. CASE u # t
      <4>1. at'[u] = at[u] /\ arg'[u] = arg[u]
        BY <1>2, <3>2, UpdateFrame DEF UpdateRuns
      <4>2. ASSUME at[u] \in Changing, NEW q \in Sender
            PROVE  Open(queue'[q], view[q], arg[u].crc)
        <5>1. at[u] # "idle" /\ Open(queue[q], view[q], arg[u].crc)
          BY <4>2 DEF DeliveryInv, CallPoint, Changing
        <5>2. arg[t].crc # arg[u].crc
          BY <2>1, <3>2, <5>1, OwnersDiffer
        <5>3. Open(Append(queue[q], arg[t]), view[q], arg[u].crc)
          BY <2>1, <2>2, <5>1, <5>2, OpenAppend
        <5> QED
          BY <2>1, <2>2, <5>1, <5>3
      <4> QED
        BY <2>1, <4>1, <4>2 DEF DeliveryInv, CallPoint
    <3> QED
      BY <3>1, <3>2
  <2> QED
    BY <2>1, <2>3, <2>4 DEF DeliveryInv
<1>3. ASSUME NEW s \in Sender, SenderRuns(s)
      PROVE  DeliveryInv'
  <2>1. UNCHANGED <<master, at, arg>> /\ SenderStep(s) /\ SenderTypeOK
    BY <1>3 DEF SenderRuns, updateVars, TypeOK
  <2>2. \A q \in Sender :
          /\ Chained(queue'[q], view'[q], master)
          /\ \A c \in CRC : Open(queue[q], view[q], c) => Open(queue'[q], view'[q], c)
    BY <2>1, TakesInOrder
  <2>3. ASSUME NEW u \in Thread
        PROVE  CallPoint(u)'
    <3>1. at'[u] = at[u] /\ arg'[u] = arg[u] /\ master' = master /\ CallPoint(u)
      BY <2>1 DEF DeliveryInv
    <3>2. ASSUME at[u] \in Changing, NEW q \in Sender
          PROVE  Open(queue'[q], view'[q], arg[u].crc)
      <4>1. arg[u].crc \in CRC /\ Open(queue[q], view[q], arg[u].crc)
        BY <3>1, <3>2, DeliveryTypes DEF CallPoint, Changing
      <4> QED
        BY <2>2, <4>1
    <3> QED
      BY <3>1, <3>2 DEF CallPoint
  <2> QED
    BY <2>1, <2>2, <2>3 DEF DeliveryInv
<1>4. ASSUME \A t \in Thread : ~UpdateRuns(t), \A s \in Sender : ~SenderRuns(s)
      PROVE  DeliveryInv'
  <2>1. UNCHANGED <<master, queue, view>>
    BY <1>4, OutsideSteps
  <2>2. \A t \in Thread : \/ at'[t] = at[t] /\ arg'[t] = arg[t]
                          \/ at'[t] \in {"begin", "check"}
    BY <1>4, OtherSteps
  <2> QED
    BY <2>1, <2>2 DEF DeliveryInv, CallPoint, Changing
<1> QED
  BY <1>1, <1>2, <1>3, <1>4 DEF UpdateRuns

LEMMA InitDelivery == Init => DeliveryInv
<1> SUFFICES ASSUME Init PROVE DeliveryInv
  OBVIOUS
<1>1. \A s \in Sender : queue[s] = <<>> /\ \A c \in CRC : view[s][c] = master[c]
  BY DEF Init, SenderInit
<1>2. \A c \in CRC : Precedes(master[c], master[c])
  BY InitType, PrecedesReflexive DEF TypeOK, UpdateTypeOK
<1> QED
  BY <1>1, <1>2 DEF Init, DeliveryInv, Chained, CallPoint, Changing

LEMMA DeliveryInvariant ==
  ASSUME Canceller = {}
  PROVE  Spec => [](TypeOK /\ Ownership /\ UpdateProgress /\ DeliveryInv)
<1>1. Init => TypeOK /\ Ownership /\ UpdateProgress /\ DeliveryInv
  BY InitType, InitOwnership, InitDelivery
<1>2. TypeOK /\ TypeOK' /\ Ownership /\ UpdateProgress /\ DeliveryInv /\ [Next]_vars
        => Ownership' /\ UpdateProgress' /\ DeliveryInv'
  BY OwnershipStep, UpdateProgressStep, DeliveryStep
<1> QED
  BY <1>1, <1>2, TypeCorrect, PTL DEF Spec

(* Unless someone cancels, the results of a crc reach each sender in the   *)
(* order in which the shared result had them, and none before it had them, *)
(* though TestRuns.update copies and delivers without a lock.              *)
THEOREM DeliveryInOrder == Canceller = {} /\ Spec => []OrderedDelivery
<1> SUFFICES ASSUME Canceller = {} PROVE Spec => []OrderedDelivery
  OBVIOUS
<1>1. DeliveryInv => OrderedDelivery
  BY DEF DeliveryInv, Chained, OrderedDelivery
<1> QED
  BY <1>1, DeliveryInvariant, PTL

(* Unless someone cancels, what a sender holds as final is the final       *)
(* result of the pipeline, at every moment and not only at the end.        *)
THEOREM ViewsAgree == Canceller = {} /\ Spec => []FinalViewsAgree
<1> SUFFICES ASSUME Canceller = {} PROVE Spec => []FinalViewsAgree
  OBVIOUS
<1>1. DeliveryInv => FinalViewsAgree
  BY SenderAssumption DEF DeliveryInv, Chained, Precedes, FinalViewsAgree
<1> QED
  BY <1>1, DeliveryInvariant, PTL

----------------------------------------------------------------------------
(* No crc is left undecided.                                               *)

(* The hypothesis: no request cancels, or the workflows that are told to   *)
(* terminate do, so that a canceller makes the result final.               *)
CancelsFinally == Canceller = {} \/ Answers \subseteq {TRUE}

(* The updates that come from outside the workflows are final ones, a crc  *)
(* is decided after its workflow has ended, and the main thread past the   *)
(* store of the final mark has left it set.                                *)
DecidedInv ==
  /\ \A t \in Canceller \cup {Main} : at[t] \in {"check"} \cup Changing => arg[t].res.final
  /\ \A c \in CRC \ undecided : wpc[workflowOf[c]] = "ended"
  /\ at[Main] \in {"checkState", "setState", "setOutcome"} => master[arg[Main].crc].final
  /\ AllDecided

(* A thread that has ended does not run again. *)
LEMMA EndedStays ==
  ASSUME TypeOK, [Next]_vars, NEW w \in Workflow, wpc[w] = "ended"
  PROVE  wpc'[w] = "ended"
<1>1. CASE \E t \in Thread : UpdateRuns(t)
  BY <1>1, UpdateFrame
<1>2. ASSUME NEW v \in Workflow, WorkflowStep(v) \/ MainStartsWorkflow(v)
      PROVE  wpc'[w] = "ended"
  BY <1>2 DEF WorkflowStep, Report, ReportNext, ExecuteRaises, ExecuteReturns, WorkflowEnds,
     MainStartsWorkflow, TypeOK, WorkflowTypeOK
<1>3. CASE \E k \in Canceller : CancelRequest(k) \/ CancelStep(k)
  BY <1>3, CancellerFrame DEF workflowVars
<1>4. CASE \/ \E s \in Sender : MainStartsSender(s) \/ MainJoins(s) \/ SenderRuns(s)
           \/ \E c \in CRC : MainDecides(c)
           \/ MainFinishes \/ UNCHANGED vars
  BY <1>4 DEF MainStartsSender, MainJoins, SenderRuns, MainDecides, MainFinishes,
     workflowVars, vars
<1> QED
  BY <1>1, <1>2, <1>3, <1>4 DEF Next, MainStep, Returned

(* A thread is still in Result.update only if it was, with the same value. *)
LEMMA UpdateStays ==
  ASSUME TypeOK, NEW t \in Thread, UpdateRuns(t), at'[t] \in {"check"} \cup Changing
  PROVE  at[t] \in {"check"} \cup Changing /\ arg' = arg
<1>1. CASE \E s \in Sender : DeliverTo(t, s)
  BY <1>1 DEF DeliverTo, Goto, TypeOK, UpdateTypeOK, Changing
<1>2. CASE UpdateStep(t)
  BY <1>2 DEF UpdateStep, CheckFinal, SetFinal, CheckState, SetState, SetOutcome, CopyResult,
     Goto, TypeOK, UpdateTypeOK, Changing
<1> QED
  BY <1>1, <1>2 DEF UpdateRuns

(* Once the workflow of c has ended, the final mark of c stays. *)
LEMMA FinalKept ==
  ASSUME TypeOK, Ownership, DecidedInv, NEW t \in Thread, UpdateRuns(t),
         NEW c \in CRC, wpc[workflowOf[c]] = "ended", master[c].final
  PROVE  master'[c].final
<1>1. CASE StoresFinal(t) /\ arg[t].crc = c
  <2>1. t \notin Workflow
    BY <1>1 DEF StoresFinal, Ownership
  <2>2. arg[t].res.final
    BY <1>1, <2>1 DEF StoresFinal, Thread, DecidedInv, Changing
  <2>3. master[c] \in Result /\ master \in [CRC -> Result]
    BY DeliveryTypes
  <2>4. master'[c] = [master[c] EXCEPT !.final = arg[t].res.final]
    BY <1>1, <2>3 DEF StoresFinal
  <2> QED
    BY <2>2, <2>3, <2>4 DEF Result
<1>2. CASE StoresFinal(t) /\ arg[t].crc # c
  BY <1>2, DeliveryTypes DEF StoresFinal
<1>3. CASE StoresRest(t) \/ KeepsMaster(t)
  BY <1>3 DEF StoresRest, KeepsMaster
<1> QED
  BY <1>1, <1>2, <1>3, MasterSteps

LEMMA DecidedUpdate ==
  ASSUME TypeOK, Ownership, DecidedInv, NEW t \in Thread, UpdateRuns(t)
  PROVE  DecidedInv'
<1>1. Main \in Thread
  BY DEF Thread
<1>2. wpc' = wpc /\ undecided' = undecided
  BY UpdateFrame DEF UpdateRuns, UpdateStep, DeliverTo, mainVars
<1>3. ASSUME NEW u \in Canceller \cup {Main}, at'[u] \in {"check"} \cup Changing
      PROVE  arg'[u].res.final
  <2>1. CASE u = t
    BY <1>3, <2>1, UpdateStays DEF DecidedInv
  <2>2. CASE u # t
    <3>1. at'[u] = at[u] /\ arg'[u] = arg[u]
      BY <2>2, UpdateFrame DEF Thread
    <3> QED
      BY <1>3, <3>1 DEF DecidedInv
  <2> QED
    BY <2>1, <2>2
<1>4. at'[Main] # "idle" => /\ at[Main] # "idle" /\ arg'[Main].crc = arg[Main].crc
                            /\ arg[Main].crc \in CRC
                            /\ wpc[workflowOf[arg[Main].crc]] = "ended"
  BY <1>1, UpdateFrame, DeliveryTypes DEF Ownership
<1>5. ASSUME at'[Main] \in {"checkState", "setState", "setOutcome"}
      PROVE  master'[arg'[Main].crc].final
  <2>1. CASE at[Main] \in {"checkState", "setState", "setOutcome"}
    BY <1>4, <1>5, <2>1, FinalKept DEF DecidedInv
  <2>2. CASE at[Main] \notin {"checkState", "setState", "setOutcome"}
    <3>1. t = Main
      BY <1>1, <1>5, <2>2, UpdateFrame
    <3>2. StoresFinal(t)
      BY <1>5, <2>2, <3>1, MasterSteps DEF StoresRest, KeepsMaster
    <3>3. arg[t].res.final
      BY <3>1, <3>2 DEF StoresFinal, DecidedInv, Changing
    <3>4. master[arg[t].crc] \in Result /\ master \in [CRC -> Result] /\ arg[t].crc \in CRC
      BY <1>4, <1>5, <3>1, DeliveryTypes
    <3>5. master'[arg[t].crc] = [master[arg[t].crc] EXCEPT !.final = arg[t].res.final]
      BY <3>2, <3>4 DEF StoresFinal
    <3> QED
      BY <1>4, <1>5, <3>1, <3>3, <3>4, <3>5 DEF Result
  <2> QED
    BY <2>1, <2>2
<1>6. ASSUME NEW c \in CRC \ undecided
      PROVE  \/ at'[Main] = "begin" /\ arg'[Main].crc = c
             \/ InUpdate(Main, c)'
             \/ master'[c].final
  <2>1. wpc[workflowOf[c]] = "ended"
    BY DEF DecidedInv
  <2>2. CASE master[c].final
    BY <2>1, <2>2, FinalKept
  <2>3. CASE at[Main] = "begin" /\ arg[Main].crc = c
    <3>1. t # Main
      BY <2>3 DEF UpdateRuns, UpdateStep, CheckFinal, SetFinal, CheckState, SetState,
         SetOutcome, CopyResult, DeliverTo
    <3> QED
      BY <1>1, <2>3, <3>1, UpdateFrame
  <2>4. CASE InUpdate(Main, c) /\ ~master[c].final
    <3>1. at[Main] \in {"check", "setFinal"} /\ arg[Main].crc = c
      BY <2>4 DEF InUpdate, DecidedInv
    <3>2. CASE t # Main
      BY <1>1, <2>4, <3>2, UpdateFrame DEF InUpdate
    <3>3. CASE t = Main
      BY <2>4, <3>1, <3>3 DEF UpdateRuns, UpdateStep, CheckFinal, SetFinal, CheckState,
         SetState, SetOutcome, CopyResult, DeliverTo, Goto, Target, TypeOK, UpdateTypeOK,
         InUpdate
    <3> QED
      BY <3>2, <3>3
  <2> QED
    BY <2>2, <2>3, <2>4 DEF DecidedInv, AllDecided
<1> QED
  BY <1>2, <1>3, <1>5, <1>6 DEF DecidedInv, AllDecided

(* A step that leaves the shared results and the calls of the main thread  *)
(* and the cancellers alone. *)
LEMMA DecidedFrame ==
  ASSUME DecidedInv, master' = master, undecided' = undecided,
         \A w \in Workflow : wpc[w] = "ended" => wpc'[w] = "ended",
         at'[Main] = at[Main], arg'[Main] = arg[Main],
         \A k \in Canceller : \/ at'[k] = at[k] /\ arg'[k] = arg[k]
                              \/ at'[k] \notin {"check"} \cup Changing
                              \/ arg'[k].res.final
  PROVE  DecidedInv'
<1>1. \A c \in CRC : workflowOf[c] \in Workflow
  BY TestRunsAssumption
<1> QED
  BY <1>1 DEF DecidedInv, AllDecided, InUpdate

LEMMA CancelerDecides ==
  ASSUME CancelsFinally, TypeOK, DecidedInv, NEW k \in Canceller,
         CancelRequest(k) \/ CancelStep(k)
  PROVE  DecidedInv'
<1>1. k \in Thread /\ Main \in Thread /\ k # Main /\ Canceller \subseteq Thread
  BY TestRunsAssumption DEF Thread
<1>2. /\ UNCHANGED <<master, wpc, undecided>>
      /\ \A u \in Thread \ {k} : at'[u] = at[u] /\ arg'[u] = arg[u]
  BY CancellerFrame DEF workflowVars, mainVars
<1>3. \/ at'[k] = at[k] /\ arg'[k] = arg[k]
      \/ at'[k] \notin {"check"} \cup Changing
      \/ arg'[k].res.final
  <2>1. CASE Terminate(k)
    <3>1. arg[k].crc \in CRC /\ arg[k].res \in Result
      BY <1>1, <2>1, DeliveryTypes DEF Terminate
    <3>2. CallUpdate(k, arg[k].crc, Updated(arg[k].res, CancelResult(TRUE)))
      BY <2>1 DEF Terminate, CancelsFinally
    <3>3. CancelResult(TRUE) \in Result /\ CancelResult(TRUE).final
      BY CancelResultType DEF CancelResult, Res
    <3>4. Updated(arg[k].res, CancelResult(TRUE)).final
      BY <3>1, <3>3, UpdatedFinal
    <3>5. arg'[k] = [crc |-> arg[k].crc, res |-> Updated(arg[k].res, CancelResult(TRUE))]
      BY <1>1, <3>2 DEF CallUpdate, TypeOK, UpdateTypeOK
    <3>6. arg'[k].res = Updated(arg[k].res, CancelResult(TRUE))
      BY <3>5
    <3> QED
      BY <3>4, <3>6
  <2>2. ASSUME NEW c \in CRC, Cancel(k, c)
        PROVE  \/ at'[k] = at[k] /\ arg'[k] = arg[k]
               \/ at'[k] \notin {"check"} \cup Changing
    BY <1>1, <2>2, BeginCopyFrame DEF Cancel, updateVars, TypeOK, Changing
  <2>3. CASE CancelRequest(k) \/ CancelCopies(k) \/ TerminateRaises(k)
    BY <1>1, <2>3 DEF CancelRequest, CancelCopies, TerminateRaises, Goto, updateVars,
       TypeOK, UpdateTypeOK, Changing
  <2> QED
    BY <2>1, <2>2, <2>3 DEF CancelStep
<1>4. \A j \in Canceller : \/ at'[j] = at[j] /\ arg'[j] = arg[j]
                           \/ at'[j] \notin {"check"} \cup Changing
                           \/ arg'[j].res.final
  BY <1>1, <1>2, <1>3
<1> QED
  BY <1>1, <1>2, <1>4, DecidedFrame

LEMMA MainDecidesStep ==
  ASSUME TypeOK, Ownership, DecidedInv, NEW c \in CRC, MainDecides(c)
  PROVE  DecidedInv'
<1>1. /\ UNCHANGED <<master, wpc>> /\ undecided' = undecided \ {c}
      /\ wpc[workflowOf[c]] = "ended" /\ at[Main] = "idle" /\ Main \in Thread
      /\ Canceller \subseteq Thread /\ Main \notin Canceller
  BY TestRunsAssumption DEF MainDecides, workflowVars, Joined, Idle, Thread
<1>2. \/ master[c].final /\ at' = at /\ arg' = arg
      \/ /\ at'[Main] = "begin" /\ arg'[Main].crc = c
         /\ \A u \in Thread \ {Main} : at'[u] = at[u] /\ arg'[u] = arg[u]
  BY <1>1, BeginCopyFrame DEF MainDecides, Decided, updateVars, TypeOK
<1>3. \A d \in CRC \ undecided : master[d].final
  BY <1>1 DEF DecidedInv, AllDecided, InUpdate
<1>4. AllDecided'
  BY <1>1, <1>2, <1>3 DEF AllDecided
<1>5. \A d \in CRC \ undecided' : wpc'[workflowOf[d]] = "ended"
  BY <1>1 DEF DecidedInv
<1> QED
  BY <1>1, <1>2, <1>4, <1>5 DEF DecidedInv, Changing

LEMMA MainFinishesStep ==
  ASSUME TypeOK, DecidedInv, MainFinishes
  PROVE  DecidedInv'
<1> DEFINE r == Updated(Target(Main), Res("DNF", "ERROR", TRUE))
<1>1. /\ UNCHANGED <<master, wpc, undecided>> /\ at[Main] = "begin" /\ Main \in Thread
      /\ Canceller \subseteq Thread /\ Main \notin Canceller
  BY TestRunsAssumption DEF MainFinishes, workflowVars, mainVars, Thread
<1>2. arg[Main].crc \in CRC
  BY <1>1, DeliveryTypes
<1>3. r.final
  <2>1. master[arg[Main].crc] \in Result
    BY <1>2, DeliveryTypes
  <2>2. Res("DNF", "ERROR", TRUE).final
    BY DEF Res
  <2> QED
    BY <2>1, <2>2, ConstantResults, UpdatedFinal DEF Target
<1>4. /\ at'[Main] = "check" /\ arg'[Main] = [crc |-> arg[Main].crc, res |-> r]
      /\ \A u \in Thread \ {Main} : at'[u] = at[u] /\ arg'[u] = arg[u]
  BY <1>1 DEF MainFinishes, CallUpdate, Goto, TypeOK, UpdateTypeOK
<1> HIDE DEF r
<1> QED
  BY <1>1, <1>3, <1>4 DEF DecidedInv, AllDecided, InUpdate, Changing

LEMMA DecidedStep ==
  ASSUME CancelsFinally, TypeOK, Ownership, DecidedInv, [Next]_vars
  PROVE  DecidedInv'
<1>1. Main \in Thread /\ Main \notin Workflow /\ Canceller \subseteq Thread
      /\ Workflow \subseteq Thread /\ Workflow \cap Canceller = {}
  BY TestRunsAssumption DEF Thread
<1>2. \A w \in Workflow : wpc[w] = "ended" => wpc'[w] = "ended"
  BY EndedStays
<1>3. ASSUME NEW w \in Workflow, WorkflowStep(w)
      PROVE  DecidedInv'
  <2>1. UNCHANGED <<master, undecided>>
    BY <1>3 DEF WorkflowStep, Report, ReportNext, ExecuteRaises, ExecuteReturns,
       WorkflowEnds, mainVars
  <2>2. \A u \in Thread \ {w} : at'[u] = at[u] /\ arg'[u] = arg[u]
    <3>1. CASE ReportNext(w)
      <4>1. PICK c \in todo[w] : CallUpdate(w, c, Updated(local[c], given[w]))
        BY <3>1 DEF ReportNext
      <4>2. c \in CRC
        BY DEF TypeOK, WorkflowTypeOK
      <4> QED
        BY <1>1, <4>1, <4>2, CallFrame DEF TypeOK
    <3>2. CASE ~ReportNext(w)
      BY <1>3, <3>2 DEF WorkflowStep, Report, ExecuteRaises, ExecuteReturns, WorkflowEnds,
         updateVars
    <3> QED
      BY <3>1, <3>2
  <2> QED
    BY <1>1, <1>2, <2>1, <2>2, DecidedFrame
<1>4. CASE \/ \E s \in Sender : MainStartsSender(s) \/ MainJoins(s) \/ SenderRuns(s)
           \/ \E w \in Workflow : MainStartsWorkflow(w)
           \/ UNCHANGED vars
  <2>1. UNCHANGED <<master, undecided, at, arg>>
    BY <1>4 DEF MainStartsSender, MainJoins, SenderRuns, MainStartsWorkflow, updateVars,
       mainVars, vars
  <2> QED
    BY <1>2, <2>1, DecidedFrame
<1> QED
  BY <1>3, <1>4, DecidedUpdate, CancelerDecides, MainDecidesStep, MainFinishesStep
     DEF Next, MainStep, Returned

LEMMA InitDecided == Init => DecidedInv
  BY DEF Init, DecidedInv, AllDecided, Changing, Thread

(* Unless a workflow refuses to terminate when cancelled, wait leaves no   *)
(* crc behind without a final result, whether its workflow ended, failed   *)
(* or reported nothing, and whenever the requests to cancel come.          *)
THEOREM WaitDecides ==
  (Canceller = {} \/ Answers \subseteq {TRUE}) /\ Spec => []AllDecided
<1> SUFFICES ASSUME CancelsFinally PROVE Spec => []AllDecided
  BY DEF CancelsFinally
<1>1. Init => Ownership /\ DecidedInv
  BY InitOwnership, InitDecided
<1>2. TypeOK /\ Ownership /\ DecidedInv /\ [Next]_vars => Ownership' /\ DecidedInv'
  BY OwnershipStep, DecidedStep
<1>3. DecidedInv => AllDecided
  BY DEF DecidedInv
<1> QED
  BY <1>1, <1>2, <1>3, TypeCorrect, PTL DEF Spec

----------------------------------------------------------------------------
(* The return code.                                                        *)

(* What a step of a run does to the senders is one of the things           *)
(* ReportSenders knows.                                                    *)
LEMMA RunSenderCases ==
  ASSUME TypeOK, [Next]_vars
  PROVE  \/ UNCHANGED senderVars
         \/ \E s \in Sender : \/ StartSender(s)
                              \/ SenderStep(s)
                              \/ \E m \in Message : ResultUpdate(s, m)
<1>1. ASSUME NEW t \in Thread, NEW s \in Sender, DeliverTo(t, s)
      PROVE  \E m \in Message : ResultUpdate(s, m)
  BY <1>1, DeliveryTypes DEF DeliverTo
<1>2. CASE \E t \in Thread : UpdateRuns(t)
  BY <1>1, <1>2 DEF UpdateRuns, UpdateStep
<1>3. CASE \E s \in Sender : SenderRuns(s)
  BY <1>3 DEF SenderRuns
<1>4. CASE (\A t \in Thread : ~UpdateRuns(t)) /\ (\A s \in Sender : ~SenderRuns(s))
  BY <1>4, OutsideSteps DEF senderVars
<1> QED
  BY <1>2, <1>3, <1>4

(* A sender has no final result before its loop and all of them after it,  *)
(* unless it failed; a throttled one has flushed or still marks dirty each *)
(* final result it holds.                                                  *)
PhaseOf(s) ==
  /\ spc[s] \in {"new", "setUp"} => \A c \in crcsOf[s] : ~view[s][c].final
  /\ spc[s] = "tearDown" \/ (spc[s] = "ended" /\ ~exc[s]) => AllFinal(s, view[s])
  /\ spc[s] # "ended" => ~exc[s]
  /\ s \in Throttled =>
       \A c \in crcsOf[s] : view[s][c].final => c \in reported[s] \/ c \in dirty[s]

Phases == \A s \in Sender : PhaseOf(s)

(* The first item of the queue of a throttled sender will be accepted, or  *)
(* leave nothing final.                                                    *)
NotRefused ==
  \A s \in Throttled : queue[s] # <<>> =>
    ~Backward(view[s][Head(queue[s]).crc], Head(queue[s]).res)

LEMMA ProcessPhase ==
  ASSUME SenderTypeOK, OwnMessages, NEW s \in Sender, PhaseOf(s), NotRefused, Process(s)
  PROVE  PhaseOf(s)'
<1> DEFINE m == Head(queue[s])
           rs == [view[s] EXCEPT ![m.crc] = Updated(@, m.res)]
<1>1. m.crc \in CRC /\ m.res \in Result /\ view[s] \in [CRC -> Result]
      /\ crcsOf[s] \subseteq CRC
  <2>1. Head(queue[s]) \in Message
    BY DEF Process, SenderTypeOK
  <2> QED
    BY <2>1, SenderAssumption DEF Message, SenderTypeOK
<1>2. /\ spc[s] = "loop" /\ ~exc[s]
      /\ view'[s] = rs
      /\ dirty'[s] = IF Accepts(view[s][m.crc], m.res) THEN dirty[s] \cup {m.crc} ELSE dirty[s]
      /\ reported[s] \subseteq reported'[s]
  <2>1. reported' = reported \/ FinalHook(s, m)
    BY DEF Process
  <2>2. reported[s] \subseteq reported'[s]
    BY <2>1 DEF FinalHook, SenderTypeOK
  <2> QED
    BY <2>2 DEF Process, SenderTypeOK, PhaseOf
<1>3. \/ spc'[s] = "ended" /\ exc'[s]
      \/ spc'[s] = (IF AllFinal(s, rs) THEN "tearDown" ELSE "loop") /\ exc'[s] = exc[s]
  <2>1. \/ /\ spc' = [spc EXCEPT ![s] = IF AllFinal(s, rs) THEN "tearDown" ELSE "loop"]
           /\ exc' = exc
        \/ /\ spc' = [spc EXCEPT ![s] = "ended"]
           /\ exc' = [exc EXCEPT ![s] = TRUE]
    BY DEF Process, Fail
  <2> HIDE DEF rs
  <2> QED
    BY <2>1 DEF SenderTypeOK
<1>4. ASSUME s \in Throttled, NEW c \in crcsOf[s], rs[c].final
      PROVE  c \in reported'[s] \/ c \in dirty'[s]
  <2>1. CASE view[s][c].final
    BY <1>2, <1>4, <2>1 DEF PhaseOf
  <2>2. CASE ~view[s][c].final
    <3>1. c = m.crc
      BY <1>1, <1>4, <2>2
    <3>2. ~Backward(view[s][m.crc], m.res)
      BY <1>4 DEF NotRefused, Process
    <3> QED
      BY <1>2, <2>2, <3>1, <3>2 DEF Accepts
  <2> QED
    BY <2>1, <2>2
<1> HIDE DEF rs
<1>5. spc'[s] = "tearDown" \/ (spc'[s] = "ended" /\ ~exc'[s]) => AllFinal(s, view'[s])
  BY <1>2, <1>3
<1>6. spc'[s] \notin {"new", "setUp"} /\ (spc'[s] # "ended" => ~exc'[s])
  BY <1>2, <1>3
<1> QED
  BY <1>2, <1>4, <1>5, <1>6 DEF PhaseOf, AllFinal

LEMMA PhasesStep ==
  ASSUME SenderTypeOK, OwnMessages, Phases, NotRefused, NEW s \in Sender,
         StartSender(s) \/ SenderStep(s) \/ (\E m \in Message : ResultUpdate(s, m))
  PROVE  Phases'
<1> SUFFICES ASSUME NEW q \in Sender PROVE PhaseOf(q)'
  BY DEF Phases
<1>1. PhaseOf(q)
  BY DEF Phases
<1>2. CASE Process(s)
  <2>1. CASE q = s
    BY <1>1, <1>2, <2>1, ProcessPhase
  <2>2. CASE q # s
    <3>1. /\ spc'[q] = spc[q] /\ exc'[q] = exc[q] /\ view'[q] = view[q]
          /\ dirty'[q] = dirty[q] /\ reported'[q] = reported[q]
      BY <1>2, <2>2 DEF Process, FinalHook, Fail, SenderTypeOK
    <3> QED
      BY <1>1, <3>1 DEF PhaseOf, AllFinal
  <2> QED
    BY <2>1, <2>2
<1>3. CASE SetUp(s)
  BY <1>1, <1>3 DEF SetUp, Fail, SenderTypeOK, PhaseOf, AllFinal
<1>4. CASE Flush(s)
  BY <1>1, <1>4 DEF Flush, Fail, SenderTypeOK, PhaseOf, AllFinal
<1>5. CASE TearDown(s)
  BY <1>1, <1>5 DEF TearDown, Fail, SenderTypeOK, PhaseOf, AllFinal
<1>6. CASE StartSender(s) \/ \E m \in Message : ResultUpdate(s, m)
  BY <1>1, <1>6 DEF StartSender, ResultUpdate, SenderTypeOK, PhaseOf, AllFinal
<1> QED
  BY <1>2, <1>3, <1>4, <1>5, <1>6 DEF SenderStep

(* What the return code says of the senders joined so far. *)
JoinInv ==
  /\ \A s \in Sender \ unjoined : spc[s] = "ended"
  /\ returnCode = 1 <=> \E s \in Sender \ unjoined : exc[s]
  /\ mpc = "done" => unjoined = {}

LEMMA JoinStep ==
  ASSUME TypeOK, JoinInv, [Next]_vars
  PROVE  JoinInv'
<1>1. \A s \in Sender : spc[s] = "ended" => spc'[s] = "ended" /\ exc'[s] = exc[s]
  BY RunSenderCases DEF StartSender, SenderStep, SetUp, Process, Flush, TearDown, Fail,
     ResultUpdate, senderVars, TypeOK, SenderTypeOK
<1>2. CASE UNCHANGED <<unjoined, returnCode>> /\ (mpc' = "done" => mpc = "done")
  BY <1>1, <1>2 DEF JoinInv
<1>3. ASSUME NEW s \in Sender, MainJoins(s)
      PROVE  JoinInv'
  BY <1>3 DEF MainJoins, Verdict, senderVars, JoinInv, TypeOK, MainTypeOK, SenderTypeOK
<1>4. CASE \A s \in Sender : ~MainJoins(s)
  <2>1. CASE \E t \in Thread : UpdateRuns(t)
    BY <1>2, <2>1 DEF UpdateRuns, UpdateStep, DeliverTo, mainVars
  <2>2. CASE \E w \in Workflow : WorkflowStep(w) \/ MainStartsWorkflow(w)
    BY <1>2, <2>2 DEF WorkflowStep, Report, ReportNext, ExecuteRaises, ExecuteReturns,
       WorkflowEnds, MainStartsWorkflow, mainVars
  <2>3. CASE \E k \in Canceller : CancelRequest(k) \/ CancelStep(k)
    BY <1>2, <2>3, CancellerFrame DEF mainVars
  <2>4. CASE \/ \E s \in Sender : MainStartsSender(s) \/ SenderRuns(s)
             \/ \E c \in CRC : MainDecides(c)
             \/ MainFinishes \/ UNCHANGED vars
    BY <1>2, <2>4 DEF MainStartsSender, SenderRuns, MainDecides, MainFinishes, mainVars, vars
  <2> QED
    BY <1>4, <2>1, <2>2, <2>3, <2>4 DEF Next, MainStep, Returned
<1> QED
  BY <1>3, <1>4

VerdictInv == OwnMessages /\ HooksFollowView /\ Phases /\ JoinInv

LEMMA VerdictStep ==
  ASSUME TypeOK, VerdictInv, NotRefused, [Next]_vars
  PROVE  VerdictInv'
<1>1. CASE UNCHANGED senderVars
  BY <1>1, JoinStep DEF senderVars, VerdictInv, OwnMessages, HooksFollowView, Working,
     CaseFinal, Phases, PhaseOf, AllFinal
<1>2. ASSUME NEW s \in Sender,
             StartSender(s) \/ SenderStep(s) \/ (\E m \in Message : ResultUpdate(s, m))
      PROVE  VerdictInv'
  BY <1>2, OwnMessagesStep, HooksFollowViewStep, PhasesStep, JoinStep DEF TypeOK, VerdictInv
<1> QED
  BY <1>1, <1>2, RunSenderCases

(* Results that arrive in order are not refused. *)
LEMMA InOrderNotRefused == TypeOK /\ DeliveryInv => NotRefused
<1> SUFFICES ASSUME TypeOK, DeliveryInv, NEW s \in Throttled, queue[s] # <<>>
             PROVE  ~Backward(view[s][Head(queue[s]).crc], Head(queue[s]).res)
  BY DEF NotRefused
<1>1. s \in Sender
  BY SenderAssumption
<1>2. queue[s] \in Seq(Message) /\ view[s] \in [CRC -> Result]
  BY <1>1, DeliveryTypes
<1>3. Head(queue[s]) = queue[s][1] /\ 1 \in 1..Len(queue[s])
  BY <1>2, TailItems
<1>4. Head(queue[s]).crc \in CRC /\ Head(queue[s]).res \in Result
  BY <1>2, <1>3, MessageParts
<1>5. Precedes(view[s][Head(queue[s]).crc], Head(queue[s]).res)
  BY <1>1, <1>3 DEF DeliveryInv, Chained
<1>6. /\ StateIndex[Head(queue[s]).res.state] \in Nat
      /\ StateIndex[view[s][Head(queue[s]).crc].state] \in Nat
  BY <1>2, <1>4, IndexType DEF Result
<1> QED
  BY <1>5, <1>6 DEF Precedes, Backward

LEMMA InitVerdict == Init => VerdictInv
<1> SUFFICES ASSUME Init PROVE VerdictInv
  OBVIOUS
<1>1. OwnMessages
  BY DEF Init, SenderInit, OwnMessages
<1>2. \A s \in Sender \ Throttled : HooksFollow(s)
  BY SenderAssumption DEF Init, SenderInit, HooksFollow, ReportedFollow, ClosedFollow,
                          CaseFinal, NotStarted, Res
<1>3. Phases
  BY SenderAssumption DEF Init, SenderInit, Phases, PhaseOf, NotStarted, Res
<1>4. JoinInv
  BY DEF Init, JoinInv
<1> QED
  BY <1>1, <1>2, <1>3, <1>4, HooksFollowViewEquiv DEF VerdictInv

LEMMA VerdictMeans == TypeOK /\ VerdictInv => ZeroMeansReported
<1> SUFFICES ASSUME TypeOK, VerdictInv, mpc = "done", returnCode = 0,
                    NEW s \in Sender, NEW c \in crcsOf[s]
             PROVE  /\ view[s][c].final
                    /\ c \in reported[s] \/ (s \in Throttled /\ c \in dirty[s])
  BY DEF ZeroMeansReported
<1>1. spc[s] = "ended" /\ ~exc[s]
  BY DEF VerdictInv, JoinInv
<1>2. view[s][c].final
  BY <1>1 DEF VerdictInv, Phases, PhaseOf, AllFinal
<1>3. CASE s \in Throttled
  BY <1>2, <1>3 DEF VerdictInv, Phases, PhaseOf
<1>4. CASE s \notin Throttled
  BY <1>1, <1>2, <1>4 DEF VerdictInv, HooksFollowView, Working
<1> QED
  BY <1>2, <1>3, <1>4

(* A return code of 0 means that every sender has seen a final result for  *)
(* each of its crcs and passed it on, a throttled one flushed it or still  *)
(* marks it dirty.  Requests to cancel are allowed if no sender is         *)
(* throttled: with them, a throttled one may take a final result that is   *)
(* refused for going back, which becomes final and is not marked dirty.    *)
THEOREM ZeroIsReported ==
  (Canceller = {} \/ Throttled = {}) /\ Spec => []ZeroMeansReported
<1>1. ASSUME Throttled = {} PROVE Spec => []ZeroMeansReported
  <2>1. TypeOK /\ VerdictInv /\ [Next]_vars => VerdictInv'
    BY <1>1, VerdictStep DEF NotRefused
  <2> QED
    BY <2>1, InitVerdict, VerdictMeans, TypeCorrect, PTL DEF Spec
<1>2. ASSUME Canceller = {} PROVE Spec => []ZeroMeansReported
  <2>1. TypeOK /\ DeliveryInv /\ VerdictInv /\ [Next]_vars => VerdictInv'
    BY VerdictStep, InOrderNotRefused
  <2>2. Spec => []DeliveryInv
    BY <1>2, DeliveryInvariant, PTL
  <2> QED
    BY <2>1, <2>2, InitVerdict, VerdictMeans, TypeCorrect, PTL DEF Spec
<1> QED
  BY <1>1, <1>2

----------------------------------------------------------------------------
(* A run in which nothing fails.                                           *)

(* What a workflow still has to report is not final in its own copy, and   *)
(* what it has reported as final is; so a call of TestRuns.update is for a *)
(* crc nothing final was sent out for, and an item that is not the last    *)
(* one for its crc is not final.                                           *)
ReportsOpen ==
  /\ \A w \in Workflow : \A c \in todo[w] : ~local[c].final
  /\ \A w \in Workflow : at[w] \in {"check"} \cup Changing =>
       (arg[w].res.final => local[arg[w].crc].final)
  /\ \A c \in CRC : master[c].final => local[c].final \/ wpc[workflowOf[c]] = "ended"

CallsOpen ==
  \A t \in Thread :
    /\ at[t] \in {"begin", "check", "copy"} =>
         \A s \in Sender : Open(queue[s], view[s], arg[t].crc)
    /\ at[t] = "deliver" =>
         \A s \in to[t] : Open(queue[s], view[s], arg[t].crc)

SendersQuiet ==
  \A s \in Sender :
    /\ NothingBehindFinal(queue[s], view[s])
    /\ spc[s] = "tearDown" => queue[s] = <<>>
    /\ ~exc[s]

QuietInv == ReportsOpen /\ CallsOpen /\ SendersQuiet

(* The workflow's own copies, in a step of TestRuns.update. *)
LEMMA ReportsOpenUpdate ==
  ASSUME Canceller = {}, TypeOK, Ownership, ReportsOpen, NEW t \in Thread, UpdateRuns(t)
  PROVE  ReportsOpen'
<1>1. wpc' = wpc /\ todo' = todo /\ local' = local
  BY UpdateFrame DEF UpdateRuns, UpdateStep, DeliverTo, workflowVars
<1>2. ASSUME NEW w \in Workflow, at'[w] \in {"check"} \cup Changing
      PROVE  arg'[w].res.final => local[arg'[w].crc].final
  <2>1. CASE w = t
    BY <1>2, <2>1, UpdateStays DEF ReportsOpen
  <2>2. CASE w # t
    <3>1. at'[w] = at[w] /\ arg'[w] = arg[w]
      BY <2>2, UpdateFrame DEF Thread
    <3> QED
      BY <1>2, <3>1 DEF ReportsOpen
  <2> QED
    BY <2>1, <2>2
<1>3. ASSUME NEW c \in CRC, master'[c].final
      PROVE  local[c].final \/ wpc[workflowOf[c]] = "ended"
  <2>1. CASE master[c].final
    BY <2>1 DEF ReportsOpen
  <2>2. CASE ~master[c].final
    <3>1. StoresFinal(t) /\ arg[t].crc = c
      BY <1>3, <2>2, MasterSteps, DeliveryTypes DEF StoresFinal, StoresRest, KeepsMaster
    <3>2. arg[t].res.final
      <4>1. master[c] \in Result /\ master \in [CRC -> Result]
        BY DeliveryTypes
      <4>2. master'[c] = [master[c] EXCEPT !.final = arg[t].res.final]
        BY <3>1, <4>1 DEF StoresFinal
      <4> QED
        BY <1>3, <4>1, <4>2 DEF Result
    <3>3. CASE t = Main
      BY <3>1, <3>3 DEF StoresFinal, Ownership
    <3>4. CASE t \in Workflow
      BY <3>1, <3>2, <3>4 DEF StoresFinal, ReportsOpen, Changing
    <3> QED
      BY <3>3, <3>4 DEF Thread
  <2> QED
    BY <2>1, <2>2
<1> QED
  BY <1>1, <1>2, <1>3 DEF ReportsOpen

(* ... and in a step of a workflow. *)
LEMMA ReportsOpenWorkflow ==
  ASSUME LateReports = FALSE, TypeOK, Ownership, ReportsOpen,
         NEW w \in Workflow, WorkflowStep(w)
  PROVE  ReportsOpen'
<1>1. w \in Thread /\ master' = master
  BY DEF Thread, WorkflowStep, Report, ReportNext, ExecuteRaises, ExecuteReturns, WorkflowEnds
<1>2. CASE Report(w)
  <2>1. PICK S \in SUBSET CrcsOfWorkflow(w) \ {{}}, r \in Reports :
          (\A c \in S : ~local[c].final) /\ BeginReport(w, S, r)
    BY <1>2 DEF Report
  <2>2. todo' = [todo EXCEPT ![w] = S] /\ UNCHANGED <<local, wpc, at, arg>>
    BY <1>2, <2>1 DEF Report, BeginReport, updateVars
  <2> QED
    BY <1>1, <2>1, <2>2 DEF ReportsOpen, TypeOK, WorkflowTypeOK
<1>3. CASE ExecuteRaises(w)
  <2>1. /\ \A c \in CrcsOfWorkflow(w) : ~local[c].final
        /\ todo' = [todo EXCEPT ![w] = CrcsOfWorkflow(w)]
        /\ UNCHANGED <<local, at, arg>>
        /\ \A v \in Workflow : wpc[v] = "ended" => wpc'[v] = "ended"
    BY <1>3 DEF ExecuteRaises, BeginReport, updateVars, TypeOK, WorkflowTypeOK
  <2>2. \A c \in CRC : workflowOf[c] \in Workflow
    BY TestRunsAssumption
  <2> QED
    BY <1>1, <2>1, <2>2 DEF ReportsOpen, TypeOK, WorkflowTypeOK
<1>4. CASE ExecuteReturns(w) \/ WorkflowEnds(w)
  <2>1. /\ UNCHANGED <<local, at, arg, todo>>
        /\ \A v \in Workflow : wpc[v] = "ended" => wpc'[v] = "ended"
    BY <1>4 DEF ExecuteReturns, WorkflowEnds, updateVars, TypeOK, WorkflowTypeOK
  <2>2. \A c \in CRC : workflowOf[c] \in Workflow
    BY TestRunsAssumption
  <2> QED
    BY <1>1, <2>1, <2>2 DEF ReportsOpen
<1>5. CASE ReportNext(w)
  <2>1. PICK c \in todo[w] :
          /\ local' = [local EXCEPT ![c] = Updated(local[c], given[w])]
          /\ CallUpdate(w, c, Updated(local[c], given[w]))
          /\ BeginReport(w, todo[w] \ {c},
                         IF todo[w] = {c} THEN NotStarted ELSE given[w])
    BY <1>5 DEF ReportNext
  <2> DEFINE r == Updated(local[c], given[w])
  <2>2. /\ c \in CRC /\ workflowOf[c] = w /\ local[c] \in Result /\ given[w] \in Result
        /\ wpc' = wpc
    BY <1>5 DEF ReportNext, TypeOK, WorkflowTypeOK, Ownership, CrcsOfWorkflow
  <2>3. /\ r \in Result
        /\ local[c].final => r.final
    BY <2>2, UpdatedType, UpdatedFinal
  <2>4. \A d \in CRC : local'[d] = IF d = c THEN r ELSE local[d]
    BY <2>1, <2>2, <2>3 DEF TypeOK, WorkflowTypeOK
  <2>5. /\ at'[w] = "check" /\ arg'[w] = [crc |-> c, res |-> r]
        /\ \A u \in Thread \ {w} : at'[u] = at[u] /\ arg'[u] = arg[u]
    BY <1>1, <2>1 DEF CallUpdate, Goto, TypeOK, UpdateTypeOK
  <2> HIDE DEF r
  <2>6. ASSUME NEW v \in Workflow, at'[v] \in {"check"} \cup Changing
        PROVE  arg'[v].res.final => local'[arg'[v].crc].final
    <3>1. CASE v = w
      BY <2>2, <2>4, <2>5, <3>1
    <3>2. CASE v # w
      <4>1. at'[v] = at[v] /\ arg'[v] = arg[v] /\ v \in Thread
        BY <2>5, <3>2 DEF Thread
      <4>2. at[v] # "idle" /\ arg[v].crc \in CRC
        BY <2>6, <4>1, DeliveryTypes DEF Changing
      <4>3. arg[v].crc # c
        BY <2>2, <3>2, <4>2 DEF Ownership
      <4> QED
        BY <2>4, <2>6, <4>1, <4>2, <4>3 DEF ReportsOpen
    <3> QED
      BY <3>1, <3>2
  <2>7. ASSUME NEW v \in Workflow, NEW d \in todo'[v]
        PROVE  ~local'[d].final
    <3>1. todo' = [todo EXCEPT ![w] = todo[w] \ {c}]
      BY <2>1 DEF BeginReport
    <3>2. d \in todo[v] /\ d # c
      <4>1. CASE v = w
        BY <2>7, <3>1, <4>1 DEF TypeOK, WorkflowTypeOK
      <4>2. CASE v # w
        BY <2>2, <2>7, <3>1, <4>2 DEF TypeOK, WorkflowTypeOK, Ownership, CrcsOfWorkflow
      <4> QED
        BY <4>1, <4>2
    <3>3. d \in CRC
      BY <3>2 DEF TypeOK, WorkflowTypeOK
    <3> QED
      BY <2>4, <3>2, <3>3 DEF ReportsOpen
  <2> QED
    BY <1>1, <2>2, <2>3, <2>4, <2>6, <2>7 DEF ReportsOpen
<1> QED
  BY <1>2, <1>3, <1>4, <1>5 DEF WorkflowStep

LEMMA ReportsOpenStep ==
  ASSUME Canceller = {}, LateReports = FALSE, TypeOK, Ownership, ReportsOpen, [Next]_vars
  PROVE  ReportsOpen'
<1>1. Main \notin Workflow /\ Workflow \subseteq Thread /\ Main \in Thread
  BY TestRunsAssumption DEF Thread
<1>2. ASSUME UNCHANGED <<master, local, todo>>,
             \A w \in Workflow : /\ wpc[w] = "ended" => wpc'[w] = "ended"
                                 /\ at'[w] = at[w] /\ arg'[w] = arg[w]
      PROVE  ReportsOpen'
  <2>1. \A c \in CRC : workflowOf[c] \in Workflow
    BY TestRunsAssumption
  <2> QED
    BY <1>2, <2>1 DEF ReportsOpen
<1>3. CASE \/ \E s \in Sender : MainStartsSender(s) \/ MainJoins(s) \/ SenderRuns(s)
           \/ \E w \in Workflow : MainStartsWorkflow(w)
           \/ UNCHANGED vars
  <2>1. UNCHANGED <<master, local, todo, at, arg>>
    BY <1>3 DEF MainStartsSender, MainJoins, SenderRuns, MainStartsWorkflow, updateVars,
       workflowVars, vars
  <2> QED
    BY <1>2, <2>1, EndedStays
<1>4. ASSUME NEW c \in CRC, MainDecides(c)
      PROVE  ReportsOpen'
  <2>1. \A u \in Thread \ {Main} : at'[u] = at[u] /\ arg'[u] = arg[u]
    BY <1>1, <1>4, BeginCopyFrame DEF MainDecides, updateVars, TypeOK
  <2>2. UNCHANGED <<master, local, todo, wpc>>
    BY <1>4 DEF MainDecides, workflowVars
  <2> QED
    BY <1>1, <1>2, <2>1, <2>2
<1>5. CASE MainFinishes
  <2>1. arg[Main].crc \in CRC
    BY <1>1, <1>5, DeliveryTypes DEF MainFinishes
  <2>2. \A u \in Thread \ {Main} : at'[u] = at[u] /\ arg'[u] = arg[u]
    BY <1>1, <1>5, <2>1, CallFrame DEF MainFinishes, TypeOK
  <2>3. UNCHANGED <<master, local, todo, wpc>>
    BY <1>5 DEF MainFinishes, workflowVars
  <2> QED
    BY <1>1, <1>2, <2>2, <2>3
<1> QED
  BY <1>3, <1>4, <1>5, ReportsOpenUpdate, ReportsOpenWorkflow DEF Next, MainStep, Returned

(* A call outside TestRuns.update's own steps begins only for a crc that   *)
(* nothing final was sent out for.                                         *)
LEMMA CallsBegin ==
  ASSUME Canceller = {}, TypeOK, Ownership, DeliveryInv, ReportsOpen, CallsOpen, [Next]_vars,
         \A t \in Thread : ~UpdateRuns(t), \A s \in Sender : ~SenderRuns(s),
         NEW u \in Thread
  PROVE  \/ at'[u] = at[u] /\ arg'[u] = arg[u]
         \/ /\ at'[u] \in {"begin", "check"}
            /\ \A s \in Sender : Open(queue[s], view[s], arg'[u].crc)
<1>1. Main \in Thread /\ Workflow \subseteq Thread
  BY DEF Thread
<1>2. \A c \in CRC : ~master[c].final => \A s \in Sender : Open(queue[s], view[s], c)
  BY DeliveryTypes, OpenBehind DEF DeliveryInv
<1>3. ASSUME NEW w \in Workflow, ReportNext(w)
      PROVE  \/ at'[u] = at[u] /\ arg'[u] = arg[u]
             \/ /\ at'[u] \in {"begin", "check"}
                /\ \A s \in Sender : Open(queue[s], view[s], arg'[u].crc)
  <2>1. PICK c \in todo[w] : CallUpdate(w, c, Updated(local[c], given[w]))
    BY <1>3 DEF ReportNext
  <2>2. c \in CRC /\ workflowOf[c] = w /\ wpc[w] # "ended"
    BY DEF TypeOK, WorkflowTypeOK, Ownership, CrcsOfWorkflow
  <2>3. ~master[c].final
    BY <2>2 DEF ReportsOpen
  <2> QED
    BY <1>1, <1>2, <2>1, <2>2, <2>3, CallFrame DEF TypeOK
<1>4. ASSUME NEW w \in Workflow,
             Report(w) \/ ExecuteRaises(w) \/ ExecuteReturns(w) \/ WorkflowEnds(w)
             \/ MainStartsWorkflow(w)
      PROVE  at' = at /\ arg' = arg
  BY <1>4 DEF Report, ExecuteRaises, ExecuteReturns, WorkflowEnds, MainStartsWorkflow, updateVars
<1>5. ASSUME NEW c \in CRC, MainDecides(c)
      PROVE  \/ at'[u] = at[u] /\ arg'[u] = arg[u]
             \/ /\ at'[u] \in {"begin", "check"}
                /\ \A s \in Sender : Open(queue[s], view[s], arg'[u].crc)
  BY <1>1, <1>2, <1>5, BeginCopyFrame DEF MainDecides, Decided, updateVars, TypeOK
<1>6. CASE MainFinishes
  <2>1. arg[Main].crc \in CRC /\ at[Main] = "begin"
    BY <1>1, <1>6, DeliveryTypes DEF MainFinishes
  <2>2. \A s \in Sender : Open(queue[s], view[s], arg[Main].crc)
    BY <1>1, <2>1 DEF CallsOpen
  <2> QED
    BY <1>1, <1>6, <2>1, <2>2, CallFrame DEF MainFinishes, TypeOK
<1>7. CASE (\E s \in Sender : MainStartsSender(s) \/ MainJoins(s)) \/ UNCHANGED vars
  BY <1>7 DEF MainStartsSender, MainJoins, updateVars, vars
<1> QED
  BY <1>3, <1>4, <1>5, <1>6, <1>7 DEF Next, MainStep, WorkflowStep, Returned

LEMMA CallsOpenStep ==
  ASSUME Canceller = {}, TypeOK, Ownership, DeliveryInv, ReportsOpen, CallsOpen, [Next]_vars
  PROVE  CallsOpen'
<1>1. ASSUME NEW t \in Thread, UpdateStep(t), NEW u \in Thread
      PROVE  /\ at'[u] \in {"begin", "check", "copy"} =>
                  \A s \in Sender : Open(queue[s], view[s], arg'[u].crc)
             /\ at'[u] = "deliver" =>
                  \A s \in to'[u] : Open(queue[s], view[s], arg'[u].crc)
  <2>1. CASE u # t
    <3>1. at'[u] = at[u] /\ arg'[u] = arg[u]
      BY <1>1, <2>1, UpdateFrame DEF UpdateRuns
    <3>2. to'[u] = to[u]
      BY <1>1, <2>1 DEF UpdateStep, CheckFinal, SetFinal, CheckState, SetState, SetOutcome,
         CopyResult, TypeOK, UpdateTypeOK
    <3> QED
      BY <3>1, <3>2 DEF CallsOpen
  <2>2. CASE u = t /\ CopyResult(t)
    <3>1. /\ at[t] = "copy" /\ at'[t] \in {"idle", "deliver"}
          /\ at'[t] = "deliver" => arg'[t].crc = arg[t].crc
          /\ to'[t] \subseteq Sender
      BY <2>2 DEF CopyResult, Goto, Interested, TypeOK, UpdateTypeOK
    <3> QED
      BY <2>2, <3>1 DEF CallsOpen
  <2>3. CASE u = t /\ ~CopyResult(t)
    <3>1. /\ at[t] \in {"check"} \cup Changing /\ arg' = arg
          /\ at'[t] \in {"setFinal", "checkState", "setState", "setOutcome", "copy"}
      BY <1>1, <2>3 DEF UpdateStep, CheckFinal, SetFinal, CheckState, SetState, SetOutcome,
         Goto, TypeOK, UpdateTypeOK, Changing
    <3> QED
      BY <2>3, <3>1 DEF CallsOpen, DeliveryInv, CallPoint
  <2> QED
    BY <2>1, <2>2, <2>3
<1>2. CASE \E t \in Thread : UpdateStep(t)
  <2>1. queue' = queue /\ view' = view
    BY <1>2 DEF UpdateStep, senderVars
  <2> QED
    BY <1>1, <1>2, <2>1 DEF CallsOpen
<1>3. ASSUME NEW t \in Thread, NEW s \in Sender, DeliverTo(t, s)
      PROVE  CallsOpen'
  <2>1. /\ at[t] = "deliver" /\ view' = view /\ arg[t] \in Message
        /\ queue' = [queue EXCEPT ![s] = Append(@, arg[t])]
        /\ to' = [to EXCEPT ![t] = @ \ {s}]
    BY <1>3, DeliveryTypes DEF DeliverTo, ResultUpdate
  <2>2. queue \in [Sender -> Seq(Message)] /\ to \in [Thread -> SUBSET Sender]
    BY DEF TypeOK, SenderTypeOK, UpdateTypeOK
  <2>3. ASSUME NEW u \in Thread, u # t, at[u] # "idle", NEW q \in Sender,
               Open(queue[q], view[q], arg[u].crc)
        PROVE  Open(queue'[q], view[q], arg[u].crc)
    <3>1. arg[t].crc # arg[u].crc
      BY <2>1, <2>3, OwnersDiffer
    <3>2. Open(Append(queue[q], arg[t]), view[q], arg[u].crc)
      BY <2>1, <2>2, <2>3, <3>1, OpenAppend
    <3> QED
      BY <2>1, <2>2, <2>3, <3>2
  <2> SUFFICES ASSUME NEW u \in Thread
               PROVE  /\ at'[u] \in {"begin", "check", "copy"} =>
                           \A q \in Sender : Open(queue'[q], view[q], arg'[u].crc)
                      /\ at'[u] = "deliver" =>
                           \A q \in to'[u] : Open(queue'[q], view[q], arg'[u].crc)
    BY <2>1 DEF CallsOpen
  <2>4. CASE u # t
    <3>1. at'[u] = at[u] /\ arg'[u] = arg[u] /\ to'[u] = to[u] /\ to[u] \subseteq Sender
      BY <1>3, <2>1, <2>2, <2>4, UpdateFrame DEF UpdateRuns
    <3> QED
      BY <2>3, <2>4, <3>1 DEF CallsOpen
  <2>5. CASE u = t
    <3>1. at'[t] \in {"idle", "deliver"} /\ (at'[t] = "deliver" => arg'[t] = arg[t])
      BY <1>3 DEF DeliverTo, Goto, TypeOK, UpdateTypeOK
    <3>2. \A q \in to'[t] : q \in to[t] /\ queue'[q] = queue[q]
      BY <2>1, <2>2
    <3> QED
      BY <2>1, <2>5, <3>1, <3>2 DEF CallsOpen
  <2> QED
    BY <2>4, <2>5
<1>4. ASSUME NEW s \in Sender, SenderRuns(s)
      PROVE  CallsOpen'
  <2>1. UNCHANGED <<at, arg, to>> /\ SenderStep(s)
    BY <1>4 DEF SenderRuns, updateVars
  <2>2. ASSUME NEW q \in Sender, NEW c \in CRC, Open(queue[q], view[q], c)
        PROVE  Open(queue'[q], view'[q], c)
    BY <2>1, <2>2, TakesInOrder
  <2>3. to \in [Thread -> SUBSET Sender]
    BY DEF TypeOK, UpdateTypeOK
  <2>4. \A u \in Thread : at[u] # "idle" => arg[u].crc \in CRC
    BY DeliveryTypes
  <2>5. \A u \in Thread : /\ at[u] \in {"begin", "check", "copy"} =>
                               \A q \in Sender : Open(queue'[q], view'[q], arg[u].crc)
                          /\ at[u] = "deliver" =>
                               \A q \in to[u] : Open(queue'[q], view'[q], arg[u].crc)
    BY <2>2, <2>3, <2>4 DEF CallsOpen
  <2> QED
    BY <2>1, <2>5 DEF CallsOpen
<1>5. ASSUME \A t \in Thread : ~UpdateRuns(t), \A s \in Sender : ~SenderRuns(s)
      PROVE  CallsOpen'
  <2>1. UNCHANGED <<queue, view, to>>
    BY <1>5, OutsideSteps
  <2>2. \A u \in Thread : \/ at'[u] = at[u] /\ arg'[u] = arg[u]
                          \/ /\ at'[u] \in {"begin", "check"}
                             /\ \A s \in Sender : Open(queue[s], view[s], arg'[u].crc)
    BY <1>5, CallsBegin
  <2> QED
    BY <2>1, <2>2 DEF CallsOpen
<1> QED
  BY <1>2, <1>3, <1>4, <1>5 DEF UpdateRuns

LEMMA SendersQuietStep ==
  ASSUME Canceller = {}, HooksFail = FALSE, TypeOK, Ownership, DeliveryInv, CallsOpen,
         OwnMessages, OwnMessages', Phases, SendersQuiet, [Next]_vars
  PROVE  SendersQuiet'
<1>1. CASE UNCHANGED senderVars
  BY <1>1 DEF senderVars, SendersQuiet, NothingBehindFinal
<1>2. ASSUME NEW t \in Thread, NEW s \in Sender, DeliverTo(t, s)
      PROVE  SendersQuiet'
  <2>1. /\ arg[t] \in Message /\ arg[t].crc \in crcsOf[s]
        /\ UNCHANGED <<spc, view, exc>>
        /\ queue' = [queue EXCEPT ![s] = Append(@, arg[t])]
    BY <1>2, DeliveryTypes DEF DeliverTo, ResultUpdate
  <2>2. queue \in [Sender -> Seq(Message)]
    BY DEF TypeOK, SenderTypeOK
  <2>3. Open(queue[s], view[s], arg[t].crc)
    BY <1>2 DEF DeliverTo, CallsOpen
  <2>4. NothingBehindFinal(Append(queue[s], arg[t]), view[s])
    BY <2>1, <2>2, <2>3, NothingBehindAppend DEF SendersQuiet
  <2>5. spc[s] # "tearDown"
    BY <2>1, <2>3 DEF Phases, PhaseOf, AllFinal, Open
  <2> QED
    BY <2>1, <2>2, <2>4, <2>5 DEF SendersQuiet
<1>3. ASSUME NEW s \in Sender, SenderRuns(s)
      PROVE  SendersQuiet'
  <2>1. SenderStep(s)
    BY <1>3 DEF SenderRuns
  <2>2. \A q \in Sender : NothingBehindFinal(queue'[q], view'[q])
    BY <2>1, TakesInOrder DEF SendersQuiet
  <2>3. CASE Process(s)
    <3> DEFINE rs == [view[s] EXCEPT ![Head(queue[s]).crc] = Updated(@, Head(queue[s]).res)]
    <3>1. /\ view'[s] = rs /\ exc' = exc
          /\ \A q \in Sender \ {s} : spc'[q] = spc[q] /\ queue'[q] = queue[q]
      BY <2>3 DEF Process, Fail, TypeOK, SenderTypeOK
    <3>2. spc' = [spc EXCEPT ![s] = IF AllFinal(s, rs) THEN "tearDown" ELSE "loop"]
      BY <2>3 DEF Process, Fail
    <3> HIDE DEF rs
    <3>3. spc'[s] = "tearDown" => AllFinal(s, view'[s])
      BY <3>1, <3>2 DEF TypeOK, SenderTypeOK
    <3>4. ASSUME AllFinal(s, view'[s]), queue'[s] # <<>>
          PROVE  FALSE
      <4> DEFINE Own == [crc : crcsOf[s], res : Result]
      <4>1. queue'[s] \in Seq(Own)
        BY DEF OwnMessages
      <4> HIDE DEF Own
      <4>2. 1 \in 1..Len(queue'[s]) /\ queue'[s][1] \in Own
        BY <3>4, <4>1
      <4>3. queue'[s][1].crc \in crcsOf[s]
        BY <4>2 DEF Own
      <4> QED
        BY <2>2, <3>4, <4>2, <4>3 DEF NothingBehindFinal, AllFinal
    <3> QED
      BY <2>2, <3>1, <3>3, <3>4 DEF SendersQuiet
  <2>4. CASE TearDown(s)
    BY <2>2, <2>4 DEF TearDown, Fail, TypeOK, SenderTypeOK, SendersQuiet
  <2>5. CASE SetUp(s) \/ Flush(s)
    BY <2>2, <2>5 DEF SetUp, Flush, Fail, TypeOK, SenderTypeOK, SendersQuiet
  <2> QED
    BY <2>1, <2>3, <2>4, <2>5 DEF SenderStep
<1>4. ASSUME \A t \in Thread : ~UpdateRuns(t), \A s \in Sender : ~SenderRuns(s),
             NEW s \in Sender, StartSender(s)
      PROVE  SendersQuiet'
  BY <1>4 DEF StartSender, TypeOK, SenderTypeOK, SendersQuiet
<1>5. CASE \E t \in Thread : UpdateStep(t)
  BY <1>1, <1>5 DEF UpdateStep
<1>6. CASE (\A t \in Thread : ~UpdateRuns(t)) /\ (\A s \in Sender : ~SenderRuns(s))
  BY <1>1, <1>4, <1>6, OutsideSteps DEF senderVars
<1> QED
  BY <1>2, <1>3, <1>5, <1>6 DEF UpdateRuns

LEMMA InitQuiet == Init => QuietInv
<1> SUFFICES ASSUME Init PROVE QuietInv
  OBVIOUS
<1>1. ReportsOpen /\ CallsOpen
  BY DEF Init, NotStarted, Res, ReportsOpen, CallsOpen, Changing, Thread
<1>2. SendersQuiet
  BY DEF Init, SenderInit, SendersQuiet, NothingBehindFinal
<1> QED
  BY <1>1, <1>2 DEF QuietInv

(* When nobody cancels, no hook of a sender raises and no crc is reported  *)
(* after its final result, no sender ever holds a result behind a final    *)
(* one, none ends with an exception, and the return code is 0.             *)
THEOREM RunIsClean ==
  Canceller = {} /\ HooksFail = FALSE /\ LateReports = FALSE /\ Spec => []CleanRun
<1> SUFFICES ASSUME Canceller = {}, HooksFail = FALSE, LateReports = FALSE
             PROVE  Spec => []CleanRun
  OBVIOUS
<1> DEFINE Inv == VerdictInv /\ QuietInv
<1>1. Init => Inv
  BY InitVerdict, InitQuiet
<1>2. TypeOK /\ Ownership /\ DeliveryInv /\ Inv /\ [Next]_vars => Inv'
  <2> SUFFICES ASSUME TypeOK, Ownership, DeliveryInv, Inv, [Next]_vars
               PROVE  Inv'
    OBVIOUS
  <2>1. VerdictInv'
    BY VerdictStep, InOrderNotRefused
  <2>2. ReportsOpen' /\ CallsOpen'
    BY ReportsOpenStep, CallsOpenStep DEF QuietInv
  <2>3. SendersQuiet'
    BY <2>1, SendersQuietStep DEF VerdictInv, QuietInv
  <2> QED
    BY <2>1, <2>2, <2>3 DEF QuietInv
<1>3. TypeOK /\ Inv => CleanRun
  BY DEF VerdictInv, JoinInv, QuietInv, SendersQuiet, NothingBehindFinal, CleanRun,
         FinalIsLast, TypeOK, MainTypeOK
<1>4. Spec => [](TypeOK /\ Ownership /\ DeliveryInv)
  BY DeliveryInvariant, PTL
<1> HIDE DEF Inv
<1> QED
  BY <1>1, <1>2, <1>3, <1>4, PTL DEF Spec

----------------------------------------------------------------------------
(* The run implements ResultBoard.                                         *)

(* The refinement mapping of Board. *)
BoardAt(c) ==
  IF \E t \in Thread : HalfUpdated(t, c)
  THEN LET t == CHOOSE u \in Thread : HalfUpdated(u, c)
       IN Updated([master[c] EXCEPT !.final = FALSE], arg[t].res)
  ELSE master[c]

MappedBoard == [c \in CRC |-> BoardAt(c)]

OverAt(s) ==
  IF spc[s] # "ended" THEN "working" ELSE IF exc[s] THEN "failed" ELSE "complete"

MappedOver == [s \in Sender |-> OverAt(s)]

MappedAnswer ==
  IF mpc # "done" THEN "none" ELSE IF returnCode = 0 THEN "success" ELSE "failure"

(* A result nobody is half through changing is shown as it is. *)
LEMMA BoardSettled ==
  ASSUME NEW c \in CRC, \A t \in Thread : ~HalfUpdated(t, c)
  PROVE  BoardAt(c) = master[c]
  BY DEF BoardAt

(* A result t is half through changing is shown as what it will be. *)
LEMMA BoardHalf ==
  ASSUME Canceller = {}, TypeOK, Ownership, NEW c \in CRC, NEW t \in Thread, HalfUpdated(t, c)
  PROVE  BoardAt(c) = Updated([master[c] EXCEPT !.final = FALSE], arg[t].res)
<1> DEFINE u == CHOOSE x \in Thread : HalfUpdated(x, c)
<1>1. u \in Thread /\ HalfUpdated(u, c)
  OBVIOUS
<1>2. u = t
  BY <1>1, OwnersDiffer DEF HalfUpdated
<1> QED
  BY <1>2 DEF BoardAt

LEMMA BoardSame ==
  ASSUME Canceller = {}, TypeOK, Ownership, NEW c \in CRC, master'[c] = master[c],
         \A u \in Thread : /\ HalfUpdated(u, c)' <=> HalfUpdated(u, c)
                           /\ HalfUpdated(u, c) => arg'[u] = arg[u]
  PROVE  BoardAt(c)' = BoardAt(c)
<1>1. CASE \A u \in Thread : ~HalfUpdated(u, c)
  BY <1>1 DEF BoardAt
<1>2. ASSUME NEW u \in Thread, HalfUpdated(u, c)
      PROVE  BoardAt(c)' = BoardAt(c)
  <2>1. BoardAt(c) = Updated([master[c] EXCEPT !.final = FALSE], arg[u].res)
    BY <1>2, BoardHalf
  <2>2. BoardAt(c)' = Updated([master'[c] EXCEPT !.final = FALSE], arg'[u].res)
    <3>1. HalfUpdated(u, c)'
      BY <1>2
    <3>2. \A x \in Thread : HalfUpdated(x, c)' => x = u
      BY <1>2, OwnersDiffer DEF HalfUpdated
    <3>3. (CHOOSE x \in Thread : HalfUpdated(x, c)') = u
      BY <3>1, <3>2
    <3> QED
      BY <3>1, <3>3 DEF BoardAt
  <2> QED
    BY <1>2, <2>1, <2>2
<1> QED
  BY <1>1, <1>2

(* The steps of Result.update after the store of the final mark do not     *)
(* show, and the store itself shows as the whole update.                   *)
LEMMA BoardUpdate ==
  ASSUME Canceller = {}, TypeOK, TypeOK', Ownership, Ownership', UpdateProgress, DeliveryInv,
         NEW t \in Thread, UpdateStep(t), NEW d \in CRC, d = arg[t].crc
  PROVE  /\ \A c \in CRC : c # d => BoardAt(c)' = BoardAt(c)
         /\ \/ BoardAt(d)' = BoardAt(d)
            \/ /\ ~BoardAt(d).final
               /\ BoardAt(d)' = Updated(BoardAt(d), arg[t].res)
<1> DEFINE r == arg[t].res
           old == [master[d] EXCEPT !.final = FALSE]
           new == [master'[d] EXCEPT !.final = FALSE]
<1>1. /\ at[t] # "idle" /\ d \in CRC /\ r \in Result
      /\ master \in [CRC -> Result] /\ master' \in [CRC -> Result]
      /\ master[d] \in Result /\ master'[d] \in Result
  <2>1. at[t] # "idle"
    BY UpdateFrame DEF UpdateRuns
  <2> QED
    BY <2>1, DeliveryTypes DEF TypeOK, UpdateTypeOK
<1>2. ASSUME NEW c \in CRC, c # d
      PROVE  BoardAt(c)' = BoardAt(c)
  <2>1. master'[c] = master[c]
    BY <1>2, UpdateGrows DEF DeliveryInv, CallPoint
  <2>2. \A u \in Thread : u # t => at'[u] = at[u] /\ arg'[u] = arg[u]
    BY UpdateFrame DEF UpdateRuns
  <2>3. ~HalfUpdated(t, c) /\ ~HalfUpdated(t, c)'
    BY <1>2, UpdateFrame DEF UpdateRuns, HalfUpdated
  <2>4. \A u \in Thread : /\ HalfUpdated(u, c)' <=> HalfUpdated(u, c)
                          /\ HalfUpdated(u, c) => arg'[u] = arg[u]
    BY <2>2, <2>3 DEF HalfUpdated
  <2> QED
    BY <2>1, <2>4, BoardSame
<1>3. \A u \in Thread : u # t => ~HalfUpdated(u, d) /\ ~HalfUpdated(u, d)'
  <2>1. \A u \in Thread : u # t => at'[u] = at[u] /\ arg'[u] = arg[u]
    BY UpdateFrame DEF UpdateRuns
  <2> QED
    BY <1>1, <2>1, OwnersDiffer DEF HalfUpdated
<1>4. BoardAt(d) = IF at[t] \in {"checkState", "setState", "setOutcome"}
                   THEN Updated(old, r) ELSE master[d]
  <2>1. CASE HalfUpdated(t, d)
    BY <1>1, <2>1, BoardHalf DEF HalfUpdated
  <2>2. CASE ~HalfUpdated(t, d)
    BY <1>1, <1>3, <2>2, BoardSettled DEF HalfUpdated
  <2> QED
    BY <2>1, <2>2
<1>5. ASSUME arg' = arg
      PROVE  BoardAt(d)' = IF at'[t] \in {"checkState", "setState", "setOutcome"}
                           THEN Updated(new, r) ELSE master'[d]
  <2>1. CASE HalfUpdated(t, d)'
    <3>1. (CHOOSE x \in Thread : HalfUpdated(x, d)') = t
      BY <1>3, <2>1
    <3> QED
      BY <1>5, <2>1, <3>1 DEF BoardAt, HalfUpdated
  <2>2. CASE ~HalfUpdated(t, d)'
    BY <1>3, <1>5, <2>2 DEF BoardAt, HalfUpdated
  <2> QED
    BY <2>1, <2>2
<1>6. CASE SetFinal(t)
  <2>1. ~master[d].final /\ at[t] = "setFinal" /\ at'[t] = "checkState" /\ arg' = arg
    BY <1>6 DEF SetFinal, Goto, TypeOK, UpdateTypeOK, UpdateProgress
  <2>2. master'[d] = [master[d] EXCEPT !.final = r.final]
    BY <1>1, <1>6 DEF SetFinal
  <2>3. new = master[d]
    BY <1>1, <2>1, <2>2 DEF Result
  <2> HIDE DEF old, new
  <2>4. BoardAt(d) = master[d] /\ BoardAt(d)' = Updated(master[d], r)
    BY <1>4, <1>5, <2>1, <2>3
  <2> QED
    BY <1>2, <2>1, <2>4
<1>7. CASE CheckState(t)
  <2>1. at[t] = "checkState" /\ arg' = arg /\ master' = master
        /\ at'[t] = (IF Backward(master[d], r) THEN "copy" ELSE "setState")
    BY <1>7 DEF CheckState, Goto, Target, TypeOK, UpdateTypeOK
  <2>2. CASE Backward(master[d], r)
    <3>1. master[d].final = r.final
      BY <1>1, <2>1 DEF UpdateProgress, HalfUpdated
    <3>2. old \in Result /\ ~old.final /\ Backward(old, r)
      BY <1>1, <2>2 DEF Result, Backward
    <3>3. Updated(old, r) = [old EXCEPT !.final = r.final]
      BY <3>2 DEF Updated
    <3>4. Updated(old, r) = master[d]
      <4>1. [old EXCEPT !.final = r.final] = [master[d] EXCEPT !.final = r.final]
        BY <1>1 DEF Result
      <4>2. [master[d] EXCEPT !.final = r.final] = master[d]
        BY <1>1, <3>1 DEF Result
      <4> QED
        BY <3>3, <4>1, <4>2
    <3> QED
      BY <1>2, <1>4, <1>5, <2>1, <2>2, <3>4
  <2>3. CASE ~Backward(master[d], r)
    BY <1>2, <1>4, <1>5, <2>1, <2>3
  <2> QED
    BY <2>2, <2>3
<1>8. CASE SetState(t)
  <2>1. at[t] = "setState" /\ arg' = arg /\ at'[t] = "setOutcome"
        /\ ~Backward(master[d], r)
    BY <1>8 DEF SetState, Goto, TypeOK, UpdateTypeOK, DeliveryInv, CallPoint
  <2>2. master'[d] = [master[d] EXCEPT !.state = r.state]
    BY <1>1, <1>8 DEF SetState
  <2>3. /\ old \in Result /\ new \in Result /\ ~old.final /\ ~new.final
        /\ old.outcome = new.outcome /\ old.state = master[d].state /\ new.state = r.state
    BY <1>1, <2>2 DEF Result
  <2>4. ~Backward(old, r) /\ ~Backward(new, r)
    <3>1. StateIndex[r.state] \in Nat
      BY <1>1, IndexType DEF Result
    <3> HIDE DEF old, new
    <3> QED
      BY <2>1, <2>3, <3>1 DEF Backward
  <2> HIDE DEF old, new
  <2>5. Updated(new, r) = Updated(old, r)
    BY <2>3, <2>4 DEF Updated
  <2> QED
    BY <1>2, <1>4, <1>5, <2>1, <2>5
<1>9. CASE SetOutcome(t)
  <2>1. at[t] = "setOutcome" /\ arg' = arg /\ at'[t] = "copy"
        /\ master[d].state = r.state /\ master[d].final = r.final
    BY <1>9 DEF SetOutcome, Goto, TypeOK, UpdateTypeOK, DeliveryInv, CallPoint,
       UpdateProgress, HalfUpdated
  <2>2. master'[d] = [master[d] EXCEPT !.outcome = Worst(@, r.outcome)]
    BY <1>1, <1>9 DEF SetOutcome
  <2>3. /\ old \in Result /\ ~old.final
        /\ old.outcome = master[d].outcome /\ old.state = r.state
    BY <1>1, <2>1 DEF Result
  <2>4. ~Backward(old, r)
    <3>1. StateIndex[r.state] \in Nat
      BY <1>1, IndexType DEF Result
    <3> HIDE DEF old
    <3> QED
      BY <2>3, <3>1 DEF Backward
  <2>5. Updated(old, r) = Res(r.state, Worst(master[d].outcome, r.outcome), r.final)
    <3> HIDE DEF old
    <3> QED
      BY <2>3, <2>4 DEF Updated
  <2>6. master'[d] = Res(r.state, Worst(master[d].outcome, r.outcome), r.final)
    BY <1>1, <2>1, <2>2 DEF Result, Res
  <2> HIDE DEF old, new
  <2> QED
    BY <1>2, <1>4, <1>5, <2>1, <2>5, <2>6
<1>10. CASE CheckFinal(t)
  <2>1. arg' = arg /\ master' = master /\ at[t] = "check" /\ at'[t] \in {"setFinal", "copy"}
    BY <1>10 DEF CheckFinal, Goto, TypeOK, UpdateTypeOK
  <2> QED
    BY <1>2, <1>4, <1>5, <2>1
<1>11. CASE CopyResult(t)
  <2>1. master' = master /\ at[t] = "copy" /\ at'[t] \in {"idle", "deliver"}
    BY <1>11 DEF CopyResult, Goto, TypeOK, UpdateTypeOK
  <2>2. \A u \in Thread : ~HalfUpdated(u, d)'
    BY <1>3, <2>1 DEF HalfUpdated
  <2>3. BoardAt(d)' = master'[d]
    BY <2>2 DEF BoardAt
  <2> QED
    BY <1>2, <1>4, <2>1, <2>3
<1> QED
  BY <1>6, <1>7, <1>8, <1>9, <1>10, <1>11 DEF UpdateStep

(* The other steps of a run do not change what the board shows. *)
LEMMA BoardKept ==
  ASSUME Canceller = {}, TypeOK, Ownership, [Next]_vars, \A t \in Thread : ~UpdateStep(t)
  PROVE  MappedBoard' = MappedBoard
<1>1. ASSUME master' = master,
             \A u \in Thread : \/ at'[u] = at[u] /\ arg'[u] = arg[u]
                               \/ /\ ~\E c \in CRC : HalfUpdated(u, c)
                                  /\ ~\E c \in CRC : HalfUpdated(u, c)'
      PROVE  MappedBoard' = MappedBoard
  <2>1. \A c \in CRC : \A u \in Thread :
           /\ HalfUpdated(u, c)' <=> HalfUpdated(u, c)
           /\ HalfUpdated(u, c) => arg'[u] = arg[u]
    BY <1>1 DEF HalfUpdated
  <2>2. \A c \in CRC : BoardAt(c)' = BoardAt(c)
    BY <1>1, <2>1, BoardSame
  <2> QED
    BY <2>2 DEF MappedBoard
<1>2. ASSUME NEW t \in Thread, NEW s \in Sender, DeliverTo(t, s)
      PROVE  MappedBoard' = MappedBoard
  <2>1. /\ master' = master
        /\ \A u \in Thread \ {t} : at'[u] = at[u] /\ arg'[u] = arg[u]
        /\ at[t] = "deliver" /\ at'[t] \in {"idle", "deliver"}
    BY <1>2 DEF DeliverTo, Goto, TypeOK, UpdateTypeOK
  <2> QED
    BY <1>1, <2>1 DEF HalfUpdated
<1>3. CASE \A t \in Thread : ~UpdateRuns(t)
  <2>1. /\ master' = master
        /\ \A u \in Thread : \/ at'[u] = at[u] /\ arg'[u] = arg[u]
                             \/ at[u] \in {"idle", "begin"} /\ at'[u] \in {"begin", "check"}
    BY <1>3, OtherSteps
  <2> QED
    BY <1>1, <2>1 DEF HalfUpdated
<1> QED
  BY <1>2, <1>3 DEF UpdateRuns

(* What a sender has as final is final on the board. *)
LEMMA ViewOnBoard ==
  ASSUME TypeOK, DeliveryInv, NEW s \in Sender, NEW c \in CRC, view[s][c].final
  PROVE  BoardAt(c).final
<1>1. \A t \in Thread : ~HalfUpdated(t, c)
  BY DEF DeliveryInv, CallPoint, Open, HalfUpdated, Changing
<1>2. master[c] = view[s][c]
  BY DEF DeliveryInv, Chained, Precedes
<1> QED
  BY <1>1, <1>2, BoardSettled

(* How a sender's step shows. *)
LEMMA OverStep ==
  ASSUME TypeOK, Phases, NEW s \in Sender, SenderStep(s)
  PROVE  /\ \A q \in Sender \ {s} : OverAt(q)' = OverAt(q)
         /\ \/ OverAt(s)' = OverAt(s)
            \/ /\ OverAt(s) = "working"
               /\ \/ OverAt(s)' = "failed"
                  \/ OverAt(s)' = "complete" /\ AllFinal(s, view[s])
<1>1. CASE Process(s)
  <2> DEFINE rs == [view[s] EXCEPT ![Head(queue[s]).crc] = Updated(@, Head(queue[s]).res)]
  <2>1. \/ /\ spc' = [spc EXCEPT ![s] = IF AllFinal(s, rs) THEN "tearDown" ELSE "loop"]
           /\ exc' = exc
        \/ /\ spc' = [spc EXCEPT ![s] = "ended"]
           /\ exc' = [exc EXCEPT ![s] = TRUE]
    BY <1>1 DEF Process, Fail
  <2>2. spc[s] = "loop"
    BY <1>1 DEF Process
  <2> HIDE DEF rs
  <2> QED
    BY <2>1, <2>2 DEF OverAt, TypeOK, SenderTypeOK
<1>2. CASE SetUp(s) \/ Flush(s)
  BY <1>2 DEF SetUp, Flush, Fail, OverAt, TypeOK, SenderTypeOK
<1>3. CASE TearDown(s)
  BY <1>3 DEF TearDown, Fail, OverAt, TypeOK, SenderTypeOK, Phases, PhaseOf
<1> QED
  BY <1>1, <1>2, <1>3 DEF SenderStep

(* When wait is about to return, everything is final and every sender is   *)
(* over. *)
LEMMA ReturnReady ==
  ASSUME TypeOK, Ownership, DecidedInv, JoinInv, NEW s \in Sender, MainJoins(s),
         unjoined = {s}, Canceller = {}
  PROVE  /\ \A c \in CRC : BoardAt(c).final
         /\ \A q \in Sender : OverAt(q) # "working"
         /\ returnCode' = 1 <=> \E q \in Sender : OverAt(q) = "failed"
         /\ returnCode' \in {0, 1}
<1>1. undecided = {} /\ at[Main] = "idle" /\ spc[s] = "ended"
  BY DEF MainJoins, Idle
<1>2. ASSUME NEW c \in CRC
      PROVE  BoardAt(c).final
  <2>1. master[c].final /\ wpc[workflowOf[c]] = "ended"
    BY <1>1 DEF DecidedInv, AllDecided, InUpdate
  <2>2. \A t \in Thread : ~HalfUpdated(t, c)
    BY <1>1, <2>1 DEF HalfUpdated, Ownership, Thread
  <2> QED
    BY <2>1, <2>2, BoardSettled
<1>3. \A q \in Sender : spc[q] = "ended"
  BY <1>1 DEF JoinInv
<1>4. \A q \in Sender : OverAt(q) = IF exc[q] THEN "failed" ELSE "complete"
  BY <1>3 DEF OverAt
<1>5. returnCode' = IF exc[s] THEN 1 ELSE returnCode
  BY DEF MainJoins, Verdict
<1>6. returnCode = 1 <=> \E q \in Sender \ {s} : exc[q]
  BY DEF JoinInv
<1>7. returnCode' = 1 <=> \E q \in Sender : exc[q]
  BY <1>5, <1>6
<1>8. returnCode' \in {0, 1}
  BY <1>5 DEF TypeOK, MainTypeOK
<1> QED
  BY <1>2, <1>4, <1>7, <1>8

LEMMA BoardDefs ==
  /\ \A r, q : Board!Precedes(r, q) <=> Precedes(r, q)
  /\ Board!Result = Result
  /\ Board!NotStarted = NotStarted
  BY DEF Board!Precedes, Board!Result, Board!NotStarted, Board!Res, Board!StateIndex,
         Board!OutcomeIndex, Board!State, Board!Outcome, Precedes, Result, NotStarted, Res,
         StateIndex, OutcomeIndex, State, Outcome

LEMMA BoardInitial == Init => Board!BoardInit
<1> SUFFICES ASSUME Init PROVE Board!BoardInit
  OBVIOUS
<1>1. \A c \in CRC : \A t \in Thread : ~HalfUpdated(t, c)
  BY DEF Init, HalfUpdated
<1>2. MappedBoard = [c \in CRC |-> NotStarted]
  BY <1>1, BoardSettled DEF Init, MappedBoard
<1>3. MappedOver = [s \in Sender |-> "working"] /\ MappedAnswer = "none"
  BY DEF Init, SenderInit, MappedOver, OverAt, MappedAnswer
<1> QED
  BY <1>2, <1>3, BoardDefs DEF Board!BoardInit, MappedBoard, MappedOver, MappedAnswer,
     BoardAt, OverAt

(* The actions of ResultBoard under the mapping. *)
LEMMA BoardActions ==
  /\ \A c : Board!Advance(c) <=>
       /\ ~MappedBoard[c].final
       /\ \E r \in Result : /\ Precedes(MappedBoard[c], r)
                            /\ MappedBoard' = [MappedBoard EXCEPT ![c] = r]
       /\ UNCHANGED <<MappedOver, MappedAnswer>>
  /\ \A s : Board!SenderOver(s) <=>
       /\ MappedOver[s] = "working"
       /\ \/ /\ \A c \in crcsOf[s] : MappedBoard[c].final
             /\ MappedOver' = [MappedOver EXCEPT ![s] = "complete"]
          \/ MappedOver' = [MappedOver EXCEPT ![s] = "failed"]
       /\ UNCHANGED <<MappedBoard, MappedAnswer>>
  /\ Board!Return <=>
       /\ MappedAnswer = "none"
       /\ \A c \in CRC : MappedBoard[c].final
       /\ \A s \in Sender : MappedOver[s] # "working"
       /\ MappedAnswer' = IF \E s \in Sender : MappedOver[s] = "failed"
                          THEN "failure" ELSE "success"
       /\ UNCHANGED <<MappedBoard, MappedOver>>
  BY BoardDefs DEF Board!Advance, Board!SenderOver, Board!Return, MappedBoard, MappedOver,
     MappedAnswer, BoardAt, OverAt

RunInv == TypeOK /\ Ownership /\ UpdateProgress /\ DeliveryInv /\ VerdictInv /\ DecidedInv

(* Every step of a run nobody cancels is a step of ResultBoard or does not *)
(* show.                                                                   *)
LEMMA BoardStep ==
  ASSUME Canceller = {}, RunInv, RunInv', [Next]_vars
  PROVE  [Board!BoardNext]_Board!boardVars
<1> USE DEF RunInv
<1>1. ASSUME UNCHANGED <<MappedBoard, MappedOver, MappedAnswer>>
      PROVE  [Board!BoardNext]_Board!boardVars
  BY <1>1 DEF Board!boardVars, MappedBoard, MappedOver, MappedAnswer, BoardAt, OverAt
<1>2. ASSUME NEW t \in Thread, UpdateStep(t)
      PROVE  [Board!BoardNext]_Board!boardVars
  <2>1. UNCHANGED <<MappedOver, MappedAnswer>>
    BY <1>2 DEF UpdateStep, senderVars, mainVars, MappedOver, OverAt, MappedAnswer
  <2>2. PICK d \in CRC : d = arg[t].crc
    BY <1>2, UpdateFrame, DeliveryTypes DEF UpdateRuns
  <2>3. /\ \A c \in CRC : c # d => BoardAt(c)' = BoardAt(c)
        /\ \/ BoardAt(d)' = BoardAt(d)
           \/ /\ ~BoardAt(d).final
              /\ BoardAt(d)' = Updated(BoardAt(d), arg[t].res)
    BY <1>2, <2>2, BoardUpdate
  <2>4. CASE BoardAt(d)' = BoardAt(d)
    <3>1. \A c \in CRC : BoardAt(c)' = BoardAt(c)
      BY <2>3, <2>4
    <3>2. MappedBoard' = MappedBoard
      BY <3>1 DEF MappedBoard
    <3> QED
      BY <1>1, <2>1, <3>2
  <2>5. CASE ~BoardAt(d).final /\ BoardAt(d)' = Updated(BoardAt(d), arg[t].res)
    <3> DEFINE r == Updated(BoardAt(d), arg[t].res)
    <3>1. BoardAt(d) \in Result /\ arg[t].res \in Result
      <4>1. arg[t].res \in Result
        BY <1>2, UpdateFrame, DeliveryTypes DEF UpdateRuns
      <4>2. CASE \A u \in Thread : ~HalfUpdated(u, d)
        BY <4>1, <4>2, BoardSettled, DeliveryTypes
      <4>3. ASSUME NEW u \in Thread, HalfUpdated(u, d)
            PROVE  BoardAt(d) \in Result
        <5>1. [master[d] EXCEPT !.final = FALSE] \in Result /\ arg[u].res \in Result
          <6>1. master[d] \in Result /\ at[u] # "idle"
            BY <4>3, DeliveryTypes DEF HalfUpdated
          <6> QED
            BY <6>1, DeliveryTypes DEF Result
        <5> QED
          BY <4>3, <5>1, BoardHalf, UpdatedType
      <4> QED
        BY <4>1, <4>2, <4>3
    <3>2. r \in Result /\ Precedes(BoardAt(d), r)
      BY <3>1, UpdatedType, UpdatedPrecedes
    <3>3. MappedBoard' = [MappedBoard EXCEPT ![d] = r]
      BY <2>3, <2>5 DEF MappedBoard
    <3>4. MappedBoard[d] = BoardAt(d)
      BY DEF MappedBoard
    <3> HIDE DEF r
    <3>5. Board!Advance(d)
      BY <2>1, <2>5, <3>2, <3>3, <3>4, BoardActions
    <3> QED
      BY <3>5 DEF Board!BoardNext
  <2> QED
    BY <2>3, <2>4, <2>5
<1>3. ASSUME \A t \in Thread : ~UpdateStep(t)
      PROVE  MappedBoard' = MappedBoard
  BY <1>3, BoardKept
<1>4. ASSUME NEW s \in Sender, SenderRuns(s), \A t \in Thread : ~UpdateStep(t)
      PROVE  [Board!BoardNext]_Board!boardVars
  <2>1. SenderStep(s) /\ MappedAnswer' = MappedAnswer /\ MappedBoard' = MappedBoard
    BY <1>3, <1>4 DEF SenderRuns, mainVars, MappedAnswer
  <2>2. /\ \A q \in Sender \ {s} : OverAt(q)' = OverAt(q)
        /\ \/ OverAt(s)' = OverAt(s)
           \/ /\ OverAt(s) = "working"
              /\ \/ OverAt(s)' = "failed"
                 \/ OverAt(s)' = "complete" /\ AllFinal(s, view[s])
    BY <2>1, OverStep DEF VerdictInv
  <2>3. CASE OverAt(s)' = OverAt(s)
    <3>1. \A q \in Sender : OverAt(q)' = OverAt(q)
      BY <2>2, <2>3
    <3>2. MappedOver' = MappedOver
      BY <3>1 DEF MappedOver
    <3> QED
      BY <1>1, <2>1, <3>2
  <2>4. CASE OverAt(s)' # OverAt(s)
    <3>1. MappedOver[s] = "working"
      BY <2>2, <2>4 DEF MappedOver
    <3>2. CASE OverAt(s)' = "failed"
      <4>1. MappedOver' = [MappedOver EXCEPT ![s] = "failed"]
        BY <2>2, <3>2 DEF MappedOver
      <4>2. Board!SenderOver(s)
        BY <2>1, <3>1, <4>1, BoardActions
      <4> QED
        BY <4>2 DEF Board!BoardNext
    <3>3. CASE OverAt(s)' = "complete" /\ AllFinal(s, view[s])
      <4>1. MappedOver' = [MappedOver EXCEPT ![s] = "complete"]
        BY <2>2, <3>3 DEF MappedOver
      <4>2. \A c \in crcsOf[s] : MappedBoard[c].final
        <5>1. \A c \in crcsOf[s] : c \in CRC /\ view[s][c].final
          BY <3>3, SenderAssumption DEF AllFinal
        <5> QED
          BY <5>1, ViewOnBoard DEF MappedBoard
      <4>3. Board!SenderOver(s)
        BY <2>1, <3>1, <4>1, <4>2, BoardActions
      <4> QED
        BY <4>3 DEF Board!BoardNext
    <3> QED
      BY <2>2, <2>4, <3>2, <3>3
  <2> QED
    BY <2>3, <2>4
<1>5. ASSUME NEW s \in Sender, MainJoins(s), \A t \in Thread : ~UpdateStep(t)
      PROVE  [Board!BoardNext]_Board!boardVars
  <2>1. MappedBoard' = MappedBoard /\ MappedOver' = MappedOver /\ MappedAnswer = "none"
    BY <1>3, <1>5 DEF MainJoins, senderVars, MappedOver, OverAt, MappedAnswer
  <2>2. CASE unjoined # {s}
    <3>1. MappedAnswer' = MappedAnswer
      BY <1>5, <2>2 DEF MainJoins, MappedAnswer
    <3> QED
      BY <1>1, <2>1, <3>1
  <2>3. CASE unjoined = {s}
    <3>1. /\ \A c \in CRC : BoardAt(c).final
          /\ \A q \in Sender : OverAt(q) # "working"
          /\ returnCode' = 1 <=> \E q \in Sender : OverAt(q) = "failed"
          /\ returnCode' \in {0, 1}
      BY <1>5, <2>3, ReturnReady DEF VerdictInv
    <3>2. /\ \A c \in CRC : MappedBoard[c].final
          /\ \A q \in Sender : MappedOver[q] = OverAt(q)
      BY <3>1 DEF MappedBoard, MappedOver
    <3>3. mpc' = "done"
      BY <1>5, <2>3 DEF MainJoins
    <3>4. MappedAnswer' = IF \E q \in Sender : MappedOver[q] = "failed"
                          THEN "failure" ELSE "success"
      BY <3>1, <3>2, <3>3 DEF MappedAnswer
    <3>5. Board!Return
      BY <2>1, <3>1, <3>2, <3>4, BoardActions
    <3> QED
      BY <3>5 DEF Board!BoardNext
  <2> QED
    BY <2>2, <2>3
<1>6. ASSUME \A t \in Thread : ~UpdateStep(t), \A s \in Sender : ~SenderRuns(s),
             \A s \in Sender : ~MainJoins(s)
      PROVE  [Board!BoardNext]_Board!boardVars
  <2>1. MappedOver' = MappedOver
    <3>1. /\ exc' = exc
          /\ \A s \in Sender : spc'[s] = spc[s] \/ (spc[s] # "ended" /\ spc'[s] # "ended")
      <4>1. CASE \E t \in Thread : UpdateRuns(t)
        BY <1>6, <4>1 DEF UpdateRuns, DeliverTo, ResultUpdate
      <4>2. CASE \A t \in Thread : ~UpdateRuns(t)
        BY <1>6, <4>2, OutsideSteps DEF StartSender, TypeOK, SenderTypeOK
      <4> QED
        BY <4>1, <4>2
    <3>2. \A s \in Sender : OverAt(s)' = OverAt(s)
      BY <3>1 DEF OverAt
    <3> QED
      BY <3>2 DEF MappedOver
  <2>2. MappedAnswer' = MappedAnswer
    <3>1. returnCode' = returnCode /\ (mpc' = "done" <=> mpc = "done")
      <4>1. CASE \E t \in Thread : UpdateRuns(t)
        BY <1>6, <4>1 DEF UpdateRuns, DeliverTo, mainVars
      <4>2. CASE \E w \in Workflow : WorkflowStep(w) \/ MainStartsWorkflow(w)
        BY <4>2 DEF WorkflowStep, Report, ReportNext, ExecuteRaises, ExecuteReturns,
           WorkflowEnds, MainStartsWorkflow, mainVars
      <4>3. CASE \/ \E s \in Sender : MainStartsSender(s)
                 \/ \E c \in CRC : MainDecides(c)
                 \/ MainFinishes \/ UNCHANGED vars
        BY <4>3 DEF MainStartsSender, MainDecides, MainFinishes, mainVars, vars
      <4> QED
        BY <1>6, <4>1, <4>2, <4>3 DEF Next, MainStep, Returned
    <3> QED
      BY <3>1 DEF MappedAnswer
  <2> QED
    BY <1>1, <1>3, <1>6, <2>1, <2>2
<1> QED
  BY <1>2, <1>4, <1>5, <1>6

(* A run nobody cancels, of any number of crcs, workflows and senders, is  *)
(* a run of ResultBoard: results only advance, no sender completes before  *)
(* its results are final, and the return code is given once, at the end,   *)
(* and says whether a sender failed.                                       *)
THEOREM RunImplementsBoard == Canceller = {} /\ Spec => ImplementsBoard
<1> SUFFICES ASSUME Canceller = {} PROVE Spec => Board!BoardSpec
  BY DEF ImplementsBoard
<1>1. Init => VerdictInv /\ DecidedInv
  BY InitVerdict, InitDecided
<1>2. TypeOK /\ Ownership /\ DeliveryInv /\ VerdictInv /\ DecidedInv /\ [Next]_vars
        => VerdictInv' /\ DecidedInv'
  BY VerdictStep, InOrderNotRefused, DecidedStep DEF CancelsFinally
<1>3. Spec => [](TypeOK /\ Ownership /\ UpdateProgress /\ DeliveryInv)
  BY DeliveryInvariant
<1>4. Spec => []RunInv
  BY <1>1, <1>2, <1>3, PTL DEF Spec, RunInv
<1>5. RunInv /\ RunInv' /\ [Next]_vars => [Board!BoardNext]_Board!boardVars
  BY BoardStep
<1> QED
  BY <1>4, <1>5, BoardInitial, PTL DEF Spec, Board!BoardSpec
=============================================================================
