----------------------------- MODULE ResultBoard -----------------------------
(***************************************************************************)
(* What a pipeline run promises, without its threads: the result of each   *)
(* case-run-configuration moves forward until it is final, a report sender *)
(* completes only when the results it is to report are final, and the run  *)
(* returns when everything is final and every sender is over, with a       *)
(* return code that says whether one of them failed.                       *)
(***************************************************************************)
EXTENDS Results

CONSTANTS CRC, Sender, crcsOf

VARIABLES board, over, answer

boardVars == <<board, over, answer>>

BoardInit ==
  /\ board = [c \in CRC |-> NotStarted]
  /\ over = [s \in Sender |-> "working"]
  /\ answer = "none"

(* The result of c changes, at most until it is final. *)
Advance(c) ==
  /\ ~board[c].final
  /\ \E r \in Result : Precedes(board[c], r) /\ board' = [board EXCEPT ![c] = r]
  /\ UNCHANGED <<over, answer>>

SenderOver(s) ==
  /\ over[s] = "working"
  /\ \/ /\ \A c \in crcsOf[s] : board[c].final
        /\ over' = [over EXCEPT ![s] = "complete"]
     \/ over' = [over EXCEPT ![s] = "failed"]
  /\ UNCHANGED <<board, answer>>

Return ==
  /\ answer = "none"
  /\ \A c \in CRC : board[c].final
  /\ \A s \in Sender : over[s] # "working"
  /\ answer' = IF \E s \in Sender : over[s] = "failed" THEN "failure" ELSE "success"
  /\ UNCHANGED <<board, over>>

BoardNext ==
  \/ \E c \in CRC : Advance(c)
  \/ \E s \in Sender : SenderOver(s)
  \/ Return

BoardSpec == BoardInit /\ [][BoardNext]_boardVars
=============================================================================
