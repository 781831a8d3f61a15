----------------------------- MODULE MCMailSync -----------------------------
(* Small instances of MailSync.                                            *)
EXTENDS MailSync, TLC

CONSTANTS inbox, all, m1, m2, h, r1
FoldersHere == <<inbox, all>>
SentHere == (m1 :> 0) @@ (m2 :> 2) @@ (h :> 0)
UidsHere == [f \in FolderSet |-> IF f = inbox THEN 2 ELSE 1]
==============================================================================
