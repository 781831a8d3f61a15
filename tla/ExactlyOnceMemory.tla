-------------------------- MODULE ExactlyOnceMemory --------------------------
(***************************************************************************)
(* What the mnemonic harness promises the callers of submit(), with every  *)
(* lease, allowance, retry, cancelled turn, crash and fence left out: an   *)
(* event is open until it has one verdict; a committed verdict and the     *)
(* change of memory it stands for are one step; no other verdict comes     *)
(* with a change of memory; and a verdict is final but for a review, which *)
(* the owner may dismiss or reopen.                                        *)
(***************************************************************************)
EXTENDS Naturals

CONSTANTS Events, Blobs, InitialBlobs

VARIABLES
    verdict,    \* the answer each event has been given, "open" while it has none
    version,    \* how often each blob was written, 0 before it exists
    live        \* the blobs that exist

memory == <<version, live>>

Init ==
    /\ verdict = [e \in Events |-> "open"]
    /\ version = [b \in Blobs |-> IF b \in InitialBlobs THEN 1 ELSE 0]
    /\ live = InitialBlobs

(* One blob is created or rewritten, and at most one other is dropped.     *)
Change ==
    \E b \in Blobs, dropped \in SUBSET live :
        /\ b \in live \/ version[b] = 0
        /\ b \notin dropped
        /\ \A c, d \in dropped : c = d
        /\ version' = [version EXCEPT ![b] = @ + 1]
        /\ live' = (live \cup {b}) \ dropped

Commit(e) ==
    /\ verdict[e] = "open"
    /\ verdict' = [verdict EXCEPT ![e] = "committed"]
    /\ Change

Decline(e) ==
    /\ verdict[e] = "open"
    /\ \E v \in {"skipped", "review"} : verdict' = [verdict EXCEPT ![e] = v]
    /\ UNCHANGED memory

Resolve(e) ==
    /\ verdict[e] = "review"
    /\ \E v \in {"skipped", "open"} : verdict' = [verdict EXCEPT ![e] = v]
    /\ UNCHANGED memory

(* The owner restores or deletes a blob, outside every event.              *)
OwnerChange(b) ==
    /\ b \in live
    /\ \/ version' = [version EXCEPT ![b] = @ + 1] /\ live' = live
       \/ version' = version /\ live' = live \ {b}
    /\ UNCHANGED verdict

Next ==
    \/ \E e \in Events : Commit(e) \/ Decline(e) \/ Resolve(e)
    \/ \E b \in Blobs : OwnerChange(b)

Spec == Init /\ [][Next]_<<verdict, version, live>>
=============================================================================
