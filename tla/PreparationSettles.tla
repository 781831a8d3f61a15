-------------------------- MODULE PreparationSettles --------------------------
(***************************************************************************)
(* Bounded preparation with a point from which nothing disturbs it any     *)
(* more.  Until then its processes may crash, the owner pause, the budget  *)
(* and the company refuse, and runs end early, any number of times; after  *)
(* it the daemon starts runs, items are worked on, fail and back off.      *)
(***************************************************************************)
EXTENDS Preparation, TLC

VARIABLE calm    \* nothing disturbs the runs from here on

CalmInit == Init /\ calm = FALSE

(* What preparation does by itself.  An item that finds its run stopped is *)
(* refused; that it fails, or its task write is lost, is ordinary too.     *)
Ordinary ==
    \/ StartAny
    \/ \E w \in Workers : End(w)
    \/ \E i \in Items :
          \/ Progress(i) \/ Fail(i) \/ LoseDecision(i) \/ BackoffOver(i)
          \/ Refuse(i) /\ step[i] # "sent" /\ ~MayGo(by[i])

(* What the owner, the company, the budget and the machine do, and what    *)
(* takes a run's allowance or time from its items.  No guard tells one     *)
(* reason to stop from another, so that one interrupts for all.            *)
Disturbed ==
    \/ Pause
    \/ \E w \in Workers :
          Crash(w) \/ Auxiliary(w) \/ Interrupt(w, "interrupted")
    \/ \E i \in Items : Reset(i) \/ Fence(i) \/ AnotherCall(i) \/ Refuse(i)

CalmNext ==
    \/ Ordinary /\ UNCHANGED calm
    \/ ~calm /\ Disturbed /\ UNCHANGED calm
    \/ ~calm /\ calm' = TRUE /\ UNCHANGED vars

(* The daemon's loop starts a run on every tick, a worker goes on with its *)
(* items, and time passes.                                                 *)
CalmSpec ==
    /\ CalmInit /\ [][CalmNext]_<<vars, calm>>
    /\ WF_vars(\E w \in Workers, r \in RunIds : Start(w, r, FALSE))
    /\ WF_vars(\E w \in Workers : End(w))
    /\ \A i \in Items :
          /\ WF_vars(Progress(i) \/ Refuse(i) \/ Fail(i))
          /\ WF_vars(BackoffOver(i))

(* Once nothing interferes any more and the profile is not paused, every   *)
(* source is settled or suspended: whatever was in flight, waiting or half *)
(* done, no item starves behind one that keeps failing, none is left in    *)
(* flight for ever, and none is tried for ever.                            *)
Settles ==
    \A i \in Items : calm /\ ~paused ~> done[i] \/ failures[i] = MaxFailures
=============================================================================
