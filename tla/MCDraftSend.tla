----------------------------- MODULE MCDraftSend -----------------------------
(* Small instances of DraftSend.                                           *)
EXTENDS DraftSend, TLC

CONSTANTS t1, s1, d1, e1, x1
Kind == (t1 :> "tool") @@ (s1 :> "slash") @@ (d1 :> "discard")
            @@ (e1 :> "edit") @@ (x1 :> "delete")
KindsHere == [r \in Requests |-> Kind[r]]
==============================================================================
