---------------------------- MODULE MCBudgetLedger ----------------------------
(* Small instances of BudgetLedger: three calls over a day and a half.      *)
EXTENDS BudgetLedger, TLC

CONSTANTS c1, c2, c3

OneOfEach == c1 :> "direct" @@ c2 :> "openrouter" @@ c3 :> "proxy"
Bounds == c1 :> 2 @@ c2 :> 1 @@ c3 :> 2
==============================================================================
