--------------------------- MODULE MCReportSenders ---------------------------
(* A small instance of ReportSenders.  Senders share no state, so they are  *)
(* checked one at a time: alone is the one that runs.  s1 reports two crcs  *)
(* of one test case and a third of another; s2 is throttled and reports the *)
(* first two.                                                               *)
EXTENDS ReportSenders, TLC

CONSTANTS c1, c2, c3, tcA, tcB, s1, s2

VARIABLE alone

TwoCases == (c1 :> tcA) @@ (c2 :> tcA) @@ (c3 :> tcB)
TwoSenders == (s1 :> CRC) @@ (s2 :> {c1, c2})

(* A step forward, a later state, and two final results of which one may *)
(* come from an earlier state than the sender has already seen.            *)
SomeReports ==
  {Res("running", "None", FALSE), Res("complete", "FAIL", FALSE),
   Res("running", "PASS", TRUE), Res("DNF", "ERROR", TRUE)}

AloneInit == SenderInit /\ alone \in Sender

AloneNext ==
  /\ StartSender(alone) \/ SenderStep(alone) \/ Deliver(alone)
  /\ UNCHANGED alone

AloneSpec ==
  /\ AloneInit
  /\ [][AloneNext]_<<senderVars, alone>>
  /\ \A s \in Sender : WF_senderVars(alone = s /\ SenderStep(s))
=============================================================================
