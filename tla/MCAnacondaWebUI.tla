--------------------------- MODULE MCAnacondaWebUI ---------------------------
(* Two workflows of one branch; and one more of another branch.             *)
EXTENDS AnacondaWebUI, TLC

CONSTANTS w1, w2, w3, b1, b2

OneBranch == (w1 :> b1) @@ (w2 :> b1)
TwoBranches == OneBranch @@ (w3 :> b2)
=============================================================================
