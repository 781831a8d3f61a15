--------------------------- MODULE PreparationProofs ---------------------------
(***************************************************************************)
(* What holds of bounded preparation for every set of processes, items and *)
(* runs, every allowance and every number of failures: one run at a time,  *)
(* work that is recorded where it is done, no paid attempt that the ledger *)
(* forgets, counters that add up, and a pause after which nothing is sent. *)
(***************************************************************************)
EXTENDS Preparation, FiniteSetTheorems, TLAPS

Working == {"in", "checked", "sent", "decided", "marked"}

(* A coroutine lives in a worker that is inside of a run.                  *)
Placed == \A i \in Items : by[i] # None => inRun[by[i]] # None

(* An item is admitted below the failures that suspend it, and what was    *)
(* sent for an item at work was noted.                                     *)
Below == \A i \in Items : inflight[i] => failures[i] < MaxFailures
Noted == \A i \in Items : step[i] \in Working /\ dispatched[i] => tries[i] >= 1

PrepInv ==
    TypeOK /\ OneRun /\ WorkIsRecorded /\ Placed /\ Below /\ Noted /\ EveryTryCounts

LEMMA Numbers == Limit \in Nat \ {0} /\ MaxFailures \in Nat \ {0} /\ None \notin Workers \cup RunIds
  BY PreparationAssumption

LEMMA FiniteItems == ASSUME NEW S \in SUBSET Items PROVE Cardinality(S) \in Nat
<1>1. IsFiniteSet(Items)
  BY PreparationAssumption, FS_Union DEF Items
<1>2. IsFiniteSet(S)
  BY <1>1, FS_Subset
<1> QED
  BY <1>2, FS_CardinalityType

LEMMA InitHolds == Init => PrepInv
<1>1. HAVE Init
<1>2. /\ MaxFailures \in Nat /\ MaxFailures > 0 /\ 0 \in 0..Limit /\ 0 \in 0..MaxFailures
  BY Numbers
<1>3. /\ paused = FALSE /\ run = None /\ running = FALSE /\ pid = None
      /\ attempted = 0 /\ completed = 0 /\ failed = 0 /\ stop = "" /\ others = 0
      /\ pausedSince = FALSE
  BY <1>1 DEF Init
<1>4. /\ failures \in [Items -> 0..MaxFailures] /\ tries \in [Items -> 0..MaxFailures]
      /\ \A i \in Items : failures[i] = 0 /\ tries[i] = 0
  BY <1>1, <1>2 DEF Init
<1>5. /\ waiting \in [Items -> BOOLEAN] /\ inflight \in [Items -> BOOLEAN]
      /\ dispatched \in [Items -> BOOLEAN] /\ done \in [Items -> BOOLEAN]
      /\ rowRun \in [Items -> RunIds \cup {None}]
      /\ \A i \in Items : ~inflight[i]
  BY <1>1 DEF Init
<1>6. /\ inRun \in [Workers -> RunIds \cup {None}] /\ by \in [Items -> Workers \cup {None}]
      /\ step \in [Items -> {"out", "asked", "in", "checked", "sent", "decided", "marked"}]
      /\ \A w \in Workers : inRun[w] = None
      /\ \A i \in Items : by[i] = None /\ step[i] = "out"
  BY <1>1 DEF Init
<1>7. TypeOK
  BY <1>2, <1>3, <1>4, <1>5, <1>6 DEF TypeOK, Reasons
<1>8. OneRun /\ WorkIsRecorded /\ Placed /\ Below /\ Noted
  BY <1>2, <1>4, <1>5, <1>6 DEF OneRun, WorkIsRecorded, Placed, Below, Noted, Working
<1>9. EveryTryCounts
  BY <1>4, <1>5 DEF EveryTryCounts
<1> QED
  BY <1>7, <1>8, <1>9 DEF PrepInv

(* An item at work owns its row.                                           *)
LEMMA OwnRow ==
    ASSUME PrepInv, NEW i \in Items, step[i] \in Working
    PROVE  Own(i) = {i} /\ inflight[i] /\ by[i] \in Workers /\ failures[i] < MaxFailures
<1>1. inflight[i] /\ rowRun[i] = inRun[by[i]]
  BY DEF PrepInv, WorkIsRecorded, Working
<1>2. by[i] \in Workers
  BY DEF PrepInv, TypeOK, Working
<1> QED
  BY <1>1, <1>2 DEF PrepInv, Below, Own

(* What an item's move from one step to another changes.                   *)
LEMMA MoveTo ==
    ASSUME TypeOK, NEW i \in Items, NEW s \in Working, At(i, s)
    PROVE  /\ step'[i] = s /\ \A j \in Items \ {i} : step'[j] = step[j]
           /\ step' \in [Items -> {"out", "asked", "in", "checked", "sent", "decided", "marked"}]
  BY DEF TypeOK, At, Working

LEMMA LeaveTo ==
    ASSUME TypeOK, NEW i \in Items, Leave(i)
    PROVE  /\ step'[i] = "out" /\ by'[i] = None
           /\ \A j \in Items \ {i} : step'[j] = step[j] /\ by'[j] = by[j]
           /\ step' \in [Items -> {"out", "asked", "in", "checked", "sent", "decided", "marked"}]
           /\ by' \in [Items -> Workers \cup {None}]
  BY DEF TypeOK, Leave, At

------------------------------------------------------------------------------
(* An item that goes on without touching the ledger.                       *)
LEMMA GoingOn ==
    ASSUME PrepInv, NEW i \in Items, step[i] \in Working, NEW s \in Working, At(i, s),
           done' \in [Items -> BOOLEAN],
           UNCHANGED <<state, rows, inRun, by, history>>
    PROVE  PrepInv'
<1> USE DEF PrepInv
<1>1. /\ step'[i] = s /\ \A j \in Items \ {i} : step'[j] = step[j]
      /\ step' \in [Items -> {"out", "asked", "in", "checked", "sent", "decided", "marked"}]
  BY MoveTo
<1>2. /\ paused' = paused /\ run' = run /\ running' = running /\ pid' = pid
      /\ attempted' = attempted /\ completed' = completed /\ failed' = failed /\ stop' = stop
      /\ failures' = failures /\ waiting' = waiting /\ inflight' = inflight
      /\ dispatched' = dispatched /\ rowRun' = rowRun /\ inRun' = inRun /\ by' = by
      /\ tries' = tries /\ others' = others /\ pausedSince' = pausedSince
  BY DEF state, rows, history
<1>3. TypeOK'
  BY <1>1, <1>2 DEF TypeOK, Working
<1>4. OneRun' /\ Placed' /\ Below' /\ EveryTryCounts'
  BY <1>2 DEF OneRun, Placed, Below, EveryTryCounts
<1>5. WorkIsRecorded' /\ Noted'
  BY <1>1, <1>2 DEF WorkIsRecorded, Noted, Working
<1> QED
  BY <1>3, <1>4, <1>5

(* An item that is left as it is.                                          *)
LEMMA Leaving ==
    ASSUME PrepInv, NEW i \in Items, Leave(i), UNCHANGED <<state, rows, done, inRun, history>>
    PROVE  PrepInv'
<1> USE DEF PrepInv
<1>1. /\ step'[i] = "out" /\ by'[i] = None
      /\ \A j \in Items \ {i} : step'[j] = step[j] /\ by'[j] = by[j]
      /\ step' \in [Items -> {"out", "asked", "in", "checked", "sent", "decided", "marked"}]
      /\ by' \in [Items -> Workers \cup {None}]
  BY LeaveTo
<1>2. /\ paused' = paused /\ run' = run /\ running' = running /\ pid' = pid
      /\ attempted' = attempted /\ completed' = completed /\ failed' = failed /\ stop' = stop
      /\ failures' = failures /\ waiting' = waiting /\ inflight' = inflight
      /\ dispatched' = dispatched /\ rowRun' = rowRun /\ inRun' = inRun /\ done' = done
      /\ tries' = tries /\ others' = others /\ pausedSince' = pausedSince
  BY DEF state, rows, history
<1>3. TypeOK'
  BY <1>1, <1>2 DEF TypeOK
<1>4. OneRun' /\ Below' /\ EveryTryCounts'
  BY <1>2 DEF OneRun, Below, EveryTryCounts
<1>5. WorkIsRecorded' /\ Noted' /\ Placed'
  BY <1>1, <1>2 DEF WorkIsRecorded, Noted, Placed, Working
<1> QED
  BY <1>3, <1>4, <1>5

LEMMA Asking ==
    ASSUME PrepInv, NEW w \in Workers, NEW i \in Items, Ask(w, i)
    PROVE  PrepInv'
<1> USE DEF PrepInv
<1>1. /\ inRun[w] # None /\ by' = [by EXCEPT ![i] = w] /\ step' = [step EXCEPT ![i] = "asked"]
  BY DEF Ask, At
<1>2. /\ paused' = paused /\ run' = run /\ running' = running /\ pid' = pid
      /\ attempted' = attempted /\ completed' = completed /\ failed' = failed /\ stop' = stop
      /\ failures' = failures /\ waiting' = waiting /\ inflight' = inflight
      /\ dispatched' = dispatched /\ rowRun' = rowRun /\ inRun' = inRun /\ done' = done
      /\ tries' = tries /\ others' = others /\ pausedSince' = pausedSince
  BY DEF Ask, state, rows, history
<1>3. /\ step'[i] = "asked" /\ by'[i] = w /\ w # None
      /\ \A j \in Items \ {i} : step'[j] = step[j] /\ by'[j] = by[j]
      /\ step' \in [Items -> {"out", "asked", "in", "checked", "sent", "decided", "marked"}]
      /\ by' \in [Items -> Workers \cup {None}]
  BY <1>1, Numbers DEF TypeOK
<1>4. TypeOK'
  BY <1>2, <1>3 DEF TypeOK
<1>5. OneRun' /\ Below' /\ EveryTryCounts'
  BY <1>2 DEF OneRun, Below, EveryTryCounts
<1>6. WorkIsRecorded' /\ Noted' /\ Placed'
  BY <1>1, <1>2, <1>3 DEF WorkIsRecorded, Noted, Placed, Working
<1> QED
  BY <1>4, <1>5, <1>6

LEMMA Admitting ==
    ASSUME PrepInv, NEW i \in Items, Admit(i)
    PROVE  PrepInv'
<1> USE DEF PrepInv
<1>1. CASE ~(run = inRun[by[i]] /\ Admittable(i))
  BY <1>1, Leaving DEF Admit, state, rows
<1>2. CASE run = inRun[by[i]] /\ Admittable(i)
  <2>1. /\ step[i] = "asked" /\ step' = [step EXCEPT ![i] = "in"] /\ by' = by
        /\ inflight' = [inflight EXCEPT ![i] = TRUE]
        /\ dispatched' = [dispatched EXCEPT ![i] = FALSE]
        /\ rowRun' = [rowRun EXCEPT ![i] = run]
        /\ attempted' = attempted + 1 /\ attempted < Limit /\ failures[i] < MaxFailures
        /\ ~inflight[i]
    BY <1>2 DEF Admit, At, Admittable
  <2>2. /\ paused' = paused /\ run' = run /\ running' = running /\ pid' = pid
        /\ completed' = completed /\ failed' = failed /\ stop' = stop
        /\ failures' = failures /\ waiting' = waiting /\ inRun' = inRun /\ done' = done
        /\ tries' = tries /\ others' = others /\ pausedSince' = pausedSince
    BY DEF Admit, history
  <2>3. /\ step'[i] = "in" /\ inflight'[i] /\ ~dispatched'[i] /\ rowRun'[i] = run
        /\ \A j \in Items \ {i} : /\ step'[j] = step[j] /\ inflight'[j] = inflight[j]
                                  /\ dispatched'[j] = dispatched[j] /\ rowRun'[j] = rowRun[j]
        /\ step' \in [Items -> {"out", "asked", "in", "checked", "sent", "decided", "marked"}]
        /\ inflight' \in [Items -> BOOLEAN] /\ dispatched' \in [Items -> BOOLEAN]
        /\ rowRun' \in [Items -> RunIds \cup {None}]
    BY <2>1 DEF TypeOK
  <2>4. attempted' \in 0..Limit
    BY <2>1, Numbers DEF TypeOK
  <2>5. TypeOK'
    BY <2>1, <2>2, <2>3, <2>4 DEF TypeOK
  <2>6. OneRun' /\ Placed'
    BY <2>1, <2>2 DEF OneRun, Placed
  <2>7. WorkIsRecorded'
    BY <1>2, <2>1, <2>2, <2>3 DEF WorkIsRecorded
  <2>8. Below' /\ Noted'
    BY <2>1, <2>2, <2>3 DEF Below, Noted, Working
  <2>9. EveryTryCounts'
    BY <2>1, <2>2, <2>3 DEF EveryTryCounts
  <2> QED
    BY <2>5, <2>6, <2>7, <2>8, <2>9
<1> QED
  BY <1>1, <1>2

LEMMA Dispatching ==
    ASSUME PrepInv, NEW i \in Items, Dispatch(i)
    PROVE  PrepInv'
<1> USE DEF PrepInv
<1>1. step[i] = "checked" /\ step[i] \in Working
  BY DEF Dispatch, Working
<1>2. Own(i) = {i} /\ inflight[i] /\ failures[i] < MaxFailures
  BY <1>1, OwnRow
<1>3. /\ step' = [step EXCEPT ![i] = "sent"] /\ by' = by
      /\ dispatched' = [j \in Items |-> dispatched[j] \/ j = i]
      /\ tries' = IF dispatched[i] THEN tries ELSE [tries EXCEPT ![i] = tries[i] + 1]
      /\ failures' = failures /\ waiting' = waiting /\ inflight' = inflight
      /\ rowRun' = rowRun /\ inRun' = inRun /\ done' = done
      /\ others' = others /\ pausedSince' = pausedSince
  BY <1>2 DEF Dispatch, At
<1>4. /\ paused' = paused /\ run' = run /\ running' = running /\ pid' = pid
      /\ attempted' = attempted /\ completed' = completed /\ failed' = failed /\ stop' = stop
  BY DEF Dispatch, state
<1>5. /\ step'[i] = "sent" /\ dispatched'[i]
      /\ \A j \in Items \ {i} : /\ step'[j] = step[j] /\ dispatched'[j] = dispatched[j]
                                /\ tries'[j] = tries[j]
      /\ step' \in [Items -> {"out", "asked", "in", "checked", "sent", "decided", "marked"}]
      /\ dispatched' \in [Items -> BOOLEAN]
  BY <1>3 DEF TypeOK
<1>6. /\ tries'[i] \in 0..MaxFailures /\ tries'[i] >= 1 /\ tries'[i] <= failures[i] + 1
      /\ tries' \in [Items -> 0..MaxFailures]
  <2>1. /\ failures[i] \in 0..MaxFailures /\ tries \in [Items -> 0..MaxFailures]
        /\ tries[i] \in 0..MaxFailures /\ MaxFailures \in Nat
    BY Numbers DEF TypeOK
  <2>2. CASE dispatched[i]
    <3>1. tries[i] >= 1 /\ tries[i] <= failures[i] + 1
      BY <1>1, <1>2, <2>2 DEF Noted, EveryTryCounts
    <3> QED
      BY <1>3, <2>1, <2>2, <3>1
  <2>3. CASE ~dispatched[i]
    <3>1. tries[i] <= failures[i]
      BY <2>1, <2>3 DEF EveryTryCounts
    <3>2. tries' = [tries EXCEPT ![i] = tries[i] + 1]
      BY <1>3, <2>3
    <3>3. tries[i] + 1 \in 0..MaxFailures
      BY <1>2, <2>1, <3>1
    <3> QED
      BY <2>1, <3>1, <3>2, <3>3
  <2> QED
    BY <2>2, <2>3
<1>7. TypeOK'
  <2>1. by[i] # None
    BY <1>1 DEF TypeOK
  <2> QED
    BY <2>1, <1>3, <1>4, <1>5, <1>6 DEF TypeOK
<1>8. OneRun' /\ Placed' /\ Below'
  BY <1>3, <1>4 DEF OneRun, Placed, Below
<1>9. WorkIsRecorded' /\ Noted'
  BY <1>1, <1>2, <1>3, <1>5, <1>6 DEF WorkIsRecorded, Noted, Working
<1>10. EveryTryCounts'
  BY <1>2, <1>3, <1>5, <1>6 DEF EveryTryCounts
<1> QED
  BY <1>7, <1>8, <1>9, <1>10

------------------------------------------------------------------------------
(* An item that ends closes its row, and its ledger accounts for what was  *)
(* sent.                                                                   *)
LEMMA Ending ==
    ASSUME PrepInv, NEW i \in Items, step[i] \in Working, Leave(i), Close(Own(i)),
           UNCHANGED <<paused, run, running, pid, dispatched, rowRun, inRun>>,
           attempted' = attempted, completed' \in Nat, failed' \in Nat, others' \in Nat,
           stop' \in Reasons, done' = done, pausedSince' = pausedSince,
           waiting' \in [Items -> BOOLEAN],
           failures' \in [Items -> 0..MaxFailures], tries' \in [Items -> 0..MaxFailures],
           \A j \in Items \ {i} : failures'[j] = failures[j] /\ tries'[j] = tries[j],
           tries'[i] <= failures'[i]
    PROVE  PrepInv'
<1> USE DEF PrepInv
<1>1. /\ step'[i] = "out" /\ by'[i] = None
      /\ \A j \in Items \ {i} : step'[j] = step[j] /\ by'[j] = by[j]
      /\ step' \in [Items -> {"out", "asked", "in", "checked", "sent", "decided", "marked"}]
      /\ by' \in [Items -> Workers \cup {None}]
  BY LeaveTo
<1>2. Own(i) = {i}
  BY OwnRow
<1>3. /\ inflight' \in [Items -> BOOLEAN] /\ ~inflight'[i]
      /\ \A j \in Items \ {i} : inflight'[j] = inflight[j]
  BY <1>2 DEF Close, TypeOK
<1>4. TypeOK'
  BY <1>1, <1>3 DEF TypeOK
<1>5. OneRun' /\ Placed'
  BY <1>1 DEF OneRun, Placed
<1>6. WorkIsRecorded' /\ Noted'
  BY <1>1, <1>3 DEF WorkIsRecorded, Noted, Working
<1>7. Below' /\ EveryTryCounts'
  BY <1>3 DEF Below, EveryTryCounts
<1> QED
  BY <1>4, <1>5, <1>6, <1>7

(* The number of tries an item at work was charged for.                    *)
LEMMA TriesAtWork ==
    ASSUME PrepInv, NEW i \in Items, step[i] \in Working
    PROVE  /\ failures[i] \in Nat /\ tries[i] \in Nat /\ failures[i] + 1 <= MaxFailures
           /\ MaxFailures \in Nat
           /\ tries[i] <= failures[i] + 1
           /\ dispatched[i] => tries[i] >= 1
           /\ ~dispatched[i] => tries[i] <= failures[i]
<1>1. inflight[i] /\ failures[i] < MaxFailures
  BY OwnRow
<1>2. failures[i] \in 0..MaxFailures /\ tries[i] \in 0..MaxFailures /\ dispatched[i] \in BOOLEAN
  BY DEF PrepInv, TypeOK
<1>3. tries[i] <= failures[i] + (IF inflight[i] /\ dispatched[i] THEN 1 ELSE 0)
  BY DEF PrepInv, EveryTryCounts
<1>4. dispatched[i] => tries[i] >= 1
  BY DEF PrepInv, Noted
<1> QED
  BY <1>1, <1>2, <1>3, <1>4, Numbers

LEMMA EndingFailed ==
    ASSUME PrepInv, NEW i \in Items, step[i] \in Working, FinishFailed(i), others' = others,
           stop' \in Reasons
    PROVE  PrepInv'
<1>1. Own(i) = {i}
  BY OwnRow
<1>2. /\ failures' = [j \in Items |-> IF j = i THEN failures[j] + 1 ELSE failures[j]]
      /\ waiting' = [j \in Items |-> waiting[j] \/ j = i]
  BY <1>1 DEF FinishFailed, CountFailure
<1>3. /\ Leave(i) /\ Close(Own(i)) /\ tries' = tries /\ failed' = failed + 1
      /\ UNCHANGED <<paused, run, running, pid, dispatched, rowRun, inRun>>
      /\ attempted' = attempted /\ completed' = completed /\ done' = done
      /\ pausedSince' = pausedSince
  BY DEF FinishFailed
<1>4. /\ tries[i] <= failures[i] + 1 /\ failures[i] + 1 \in 0..MaxFailures
  BY TriesAtWork
<1>5. /\ failures \in [Items -> 0..MaxFailures] /\ tries \in [Items -> 0..MaxFailures]
      /\ failed \in Nat /\ completed \in Nat /\ others \in Nat
  BY DEF PrepInv, TypeOK
<1>6. /\ failures' \in [Items -> 0..MaxFailures] /\ waiting' \in [Items -> BOOLEAN]
      /\ \A j \in Items \ {i} : failures'[j] = failures[j] /\ tries'[j] = tries[j]
      /\ failures'[i] = failures[i] + 1 /\ tries'[i] = tries[i]
  BY <1>2, <1>3, <1>4, <1>5
<1>7. failed' \in Nat /\ completed' \in Nat /\ others' \in Nat /\ tries' \in [Items -> 0..MaxFailures]
      /\ tries'[i] <= failures'[i]
  BY <1>3, <1>4, <1>5, <1>6
<1> QED
  BY <1>3, <1>6, <1>7, Ending

LEMMA EndingRefused ==
    ASSUME PrepInv, NEW i \in Items, step[i] \in Working, FinishRefused(i), stop' \in Reasons,
           tries' \in [Items -> 0..MaxFailures], tries'[i] <= failures[i],
           \A j \in Items \ {i} : tries'[j] = tries[j]
    PROVE  PrepInv'
<1>1. /\ Leave(i) /\ Close(Own(i)) /\ others' = others + 1 /\ failures' = failures
      /\ UNCHANGED <<paused, run, running, pid, dispatched, rowRun, inRun>>
      /\ attempted' = attempted /\ completed' = completed /\ done' = done /\ waiting' = waiting
      /\ pausedSince' = pausedSince /\ failed' = failed
  BY DEF FinishRefused
<1>2. /\ failures \in [Items -> 0..MaxFailures] /\ waiting \in [Items -> BOOLEAN]
      /\ failed \in Nat /\ completed \in Nat /\ others \in Nat
  BY DEF PrepInv, TypeOK
<1>3. /\ failures' \in [Items -> 0..MaxFailures] /\ waiting' \in [Items -> BOOLEAN]
      /\ failed' \in Nat /\ completed' \in Nat /\ others' \in Nat /\ tries'[i] <= failures'[i]
      /\ \A j \in Items \ {i} : failures'[j] = failures[j] /\ tries'[j] = tries[j]
  BY <1>1, <1>2
<1> QED
  BY <1>1, <1>3, Ending

LEMMA Refusing == ASSUME PrepInv, NEW i \in Items, Refuse(i) PROVE PrepInv'
<1>1. step[i] \in Working /\ stop' \in Reasons
  BY DEF Refuse, Working, Stop, Reasons, PrepInv, TypeOK
<1>2. CASE dispatched[i]
  <2>1. FinishFailed(i) /\ others' = others
    BY <1>2 DEF Refuse
  <2> QED
    BY <1>1, <2>1, EndingFailed
<1>3. CASE ~dispatched[i]
  <2>1. FinishRefused(i) /\ tries' = tries
    BY <1>3 DEF Refuse
  <2>2. tries[i] <= failures[i] /\ tries \in [Items -> 0..MaxFailures]
    BY <1>1, <1>3, TriesAtWork DEF PrepInv, TypeOK
  <2> QED
    BY <1>1, <2>1, <2>2, EndingRefused
<1> QED
  BY <1>2, <1>3

LEMMA Fencing == ASSUME PrepInv, NEW i \in Items, Fence(i) PROVE PrepInv'
<1>1. step[i] \in Working /\ stop' \in Reasons /\ FinishRefused(i)
  BY DEF Fence, Working, Stop, Reasons, PrepInv, TypeOK
<1>2. tries' = IF dispatched[i] THEN [tries EXCEPT ![i] = tries[i] - 1] ELSE tries
  BY DEF Fence
<1>3. /\ tries \in [Items -> 0..MaxFailures] /\ tries[i] \in 0..MaxFailures
      /\ failures[i] \in Nat /\ MaxFailures \in Nat
      /\ tries[i] <= failures[i] + 1
      /\ dispatched[i] => tries[i] >= 1
      /\ ~dispatched[i] => tries[i] <= failures[i]
  BY <1>1, TriesAtWork DEF PrepInv, TypeOK
<1>4. /\ tries' \in [Items -> 0..MaxFailures] /\ tries'[i] <= failures[i]
      /\ \A j \in Items \ {i} : tries'[j] = tries[j]
  <2>1. CASE dispatched[i]
    <3>1. tries[i] - 1 \in 0..MaxFailures /\ tries[i] - 1 <= failures[i]
      BY <1>3, <2>1
    <3> QED
      BY <1>2, <1>3, <2>1, <3>1
  <2>2. CASE ~dispatched[i]
    BY <1>2, <1>3, <2>2
  <2> QED
    BY <2>1, <2>2
<1> QED
  BY <1>1, <1>4, EndingRefused

LEMMA Failing == ASSUME PrepInv, NEW i \in Items, Fail(i) PROVE PrepInv'
<1>1. step[i] \in Working /\ FinishFailed(i) /\ others' = others /\ stop' = stop
  BY DEF Fail, Working
<1>2. stop' \in Reasons
  BY <1>1 DEF PrepInv, TypeOK
<1> QED
  BY <1>1, <1>2, EndingFailed

LEMMA Completing == ASSUME PrepInv, NEW i \in Items, Complete(i) PROVE PrepInv'
<1>1. step[i] \in Working
  BY DEF Complete, Working
<1>2. Own(i) = {i} /\ inflight[i]
  BY <1>1, OwnRow
<1>3. {j \in Own(i) : j \in Memory \/ inflight[j]} = Own(i)
  BY <1>2
<1>4. /\ failures' = [j \in Items |-> IF j = i THEN 0 ELSE failures[j]]
      /\ waiting' = [j \in Items |-> waiting[j] /\ j # i]
      /\ Close(Own(i)) /\ completed' = completed + 1
  BY <1>2, <1>3 DEF Complete, Forgive
<1>5. /\ Leave(i) /\ tries' = [tries EXCEPT ![i] = 0]
      /\ UNCHANGED <<paused, run, running, pid, dispatched, rowRun, inRun>>
      /\ attempted' = attempted /\ failed' = failed /\ done' = done /\ stop' = stop
      /\ pausedSince' = pausedSince /\ others' = others
  BY DEF Complete
<1>6. /\ failures \in [Items -> 0..MaxFailures] /\ tries \in [Items -> 0..MaxFailures]
      /\ failed \in Nat /\ completed \in Nat /\ others \in Nat /\ stop \in Reasons
      /\ MaxFailures \in Nat
  BY Numbers DEF PrepInv, TypeOK
<1>7. /\ failures' \in [Items -> 0..MaxFailures] /\ waiting' \in [Items -> BOOLEAN]
      /\ tries' \in [Items -> 0..MaxFailures]
      /\ \A j \in Items \ {i} : failures'[j] = failures[j] /\ tries'[j] = tries[j]
      /\ tries'[i] <= failures'[i]
  BY <1>4, <1>5, <1>6
<1>8. failed' \in Nat /\ completed' \in Nat /\ others' \in Nat /\ stop' \in Reasons
  BY <1>4, <1>5, <1>6
<1> QED
  BY <1>1, <1>4, <1>5, <1>7, <1>8, Ending

------------------------------------------------------------------------------
(* When no other worker is inside of a run, no coroutine lives elsewhere.  *)
LEMMA Alone ==
    ASSUME PrepInv, NEW w \in Workers, inRun[w] # None \/ ~(running /\ pid # None)
    PROVE  /\ \A v \in Workers \ {w} : inRun[v] = None
           /\ \A i \in Items : by[i] \in {w, None} /\ (inRun[w] = None => by[i] = None)
<1>1. \A v \in Workers \ {w} : inRun[v] = None
  BY Numbers DEF PrepInv, OneRun
<1>2. \A i \in Items : by[i] \in Workers \cup {None} /\ (by[i] # None => inRun[by[i]] # None)
  BY DEF PrepInv, Placed, TypeOK
<1> QED
  BY <1>1, <1>2

LEMMA Starting ==
    ASSUME PrepInv, NEW w \in Workers, NEW r \in RunIds, NEW explicit \in BOOLEAN,
           Start(w, r, explicit)
    PROVE  PrepInv'
<1> USE DEF PrepInv
<1>1. /\ inRun[w] = None /\ ~(running /\ pid # None)
      /\ run' = r /\ running' = TRUE /\ pid' = w
      /\ attempted' = 0 /\ completed' = 0 /\ failed' = 0 /\ stop' = ""
      /\ inRun' = [inRun EXCEPT ![w] = r] /\ others' = 0 /\ pausedSince' = FALSE
      /\ paused' = paused /\ dispatched' = dispatched /\ rowRun' = rowRun /\ done' = done
      /\ by' = by /\ step' = step /\ tries' = tries
  BY DEF Start
<1>2. /\ failures' = [i \in Items |-> IF i \in {j \in Items : inflight[j]}
                                      THEN failures[i] + 1 ELSE failures[i]]
      /\ waiting' = [i \in Items |-> waiting[i] \/ i \in {j \in Items : inflight[j]}]
      /\ inflight' = [i \in Items |-> inflight[i] /\ i \notin Items]
  BY DEF Start, CountFailure, Close
<1>3. /\ \A v \in Workers \ {w} : inRun[v] = None
      /\ \A i \in Items : by[i] = None /\ step[i] = "out"
  BY <1>1, Alone DEF TypeOK
<1>4. /\ inRun' \in [Workers -> RunIds \cup {None}] /\ inRun'[w] = r
      /\ \A v \in Workers \ {w} : inRun'[v] = None
  BY <1>1, <1>3 DEF TypeOK
<1>5. \A i \in Items : ~inflight'[i]
  BY <1>2
<1>6. \A i \in Items :
          /\ failures'[i] \in 0..MaxFailures
          /\ tries[i] <= failures'[i] + 0
  <2>1. TAKE i \in Items
  <2>2. /\ failures[i] \in 0..MaxFailures /\ tries[i] \in 0..MaxFailures /\ MaxFailures \in Nat
        /\ inflight[i] => failures[i] < MaxFailures
        /\ tries[i] <= failures[i] + (IF inflight[i] /\ dispatched[i] THEN 1 ELSE 0)
    BY Numbers DEF TypeOK, Below, EveryTryCounts
  <2>3. failures'[i] = IF inflight[i] THEN failures[i] + 1 ELSE failures[i]
    BY <1>2
  <2> QED
    BY <2>2, <2>3
<1>7. /\ failures' \in [Items -> 0..MaxFailures] /\ waiting' \in [Items -> BOOLEAN]
      /\ inflight' \in [Items -> BOOLEAN]
  BY <1>2, <1>6 DEF TypeOK
<1>8. 0 \in 0..Limit
  BY Numbers
<1>9. TypeOK'
  BY <1>1, <1>3, <1>4, <1>7, <1>8 DEF TypeOK, Reasons
<1>10. OneRun'
  BY <1>1, <1>4 DEF OneRun
<1>11. WorkIsRecorded' /\ Placed' /\ Below' /\ Noted'
  BY <1>1, <1>3, <1>5 DEF WorkIsRecorded, Placed, Below, Noted, Working
<1>12. EveryTryCounts'
  BY <1>1, <1>5, <1>6 DEF EveryTryCounts
<1> QED
  BY <1>9, <1>10, <1>11, <1>12

LEMMA EndingRun ==
    ASSUME PrepInv, NEW w \in Workers, End(w)
    PROVE  PrepInv'
<1> USE DEF PrepInv
<1> DEFINE left == {i \in Items : inflight[i] /\ rowRun[i] = inRun[w]}
<1>1. /\ inRun[w] # None /\ \A i \in Items : by[i] # w
      /\ inRun' = [inRun EXCEPT ![w] = None]
      /\ paused' = paused /\ run' = run /\ pid' = pid /\ attempted' = attempted
      /\ completed' = completed /\ dispatched' = dispatched /\ rowRun' = rowRun /\ done' = done
      /\ by' = by /\ step' = step
      /\ tries' = tries /\ others' = others /\ pausedSince' = pausedSince
  BY DEF End, history
<1>2. /\ failures' = [i \in Items |-> IF i \in left THEN failures[i] + 1 ELSE failures[i]]
      /\ waiting' = [i \in Items |-> waiting[i] \/ i \in left]
      /\ inflight' = [i \in Items |-> inflight[i] /\ i \notin left]
  BY DEF End, CountFailure, Close
<1>3. failed' \in Nat /\ running' \in BOOLEAN /\ stop' \in Reasons
  <2>1. Cardinality(left) \in Nat
    BY FiniteItems
  <2>2. failed' = failed \/ failed' = failed + Cardinality(left)
    BY DEF End
  <2>3. failed \in Nat /\ running \in BOOLEAN /\ stop \in Reasons
    BY DEF TypeOK
  <2>4. failed' \in Nat
    BY <2>1, <2>2, <2>3
  <2>5. running' \in BOOLEAN /\ stop' \in Reasons
    BY <2>3 DEF End, Reasons
  <2> QED
    BY <2>4, <2>5
<1>4. /\ \A v \in Workers \ {w} : inRun[v] = None
      /\ \A i \in Items : by[i] = None /\ step[i] = "out"
  BY <1>1, Alone DEF TypeOK
<1>5. inRun' \in [Workers -> RunIds \cup {None}] /\ \A v \in Workers : inRun'[v] = None
  BY <1>1, <1>4 DEF TypeOK
<1>6. \A i \in Items :
          /\ failures'[i] \in 0..MaxFailures
          /\ inflight'[i] => failures'[i] < MaxFailures
          /\ tries[i] <= failures'[i] + (IF inflight'[i] /\ dispatched[i] THEN 1 ELSE 0)
  <2>1. TAKE i \in Items
  <2>2. /\ failures[i] \in 0..MaxFailures /\ tries[i] \in 0..MaxFailures /\ MaxFailures \in Nat
        /\ inflight[i] => failures[i] < MaxFailures
        /\ tries[i] <= failures[i] + (IF inflight[i] /\ dispatched[i] THEN 1 ELSE 0)
    BY Numbers DEF TypeOK, Below, EveryTryCounts
  <2>3. CASE i \in left
    <3>1. failures'[i] = failures[i] + 1 /\ ~inflight'[i] /\ inflight[i]
      BY <1>2, <2>3
    <3> QED
      BY <2>2, <3>1
  <2>4. CASE i \notin left
    <3>1. failures'[i] = failures[i] /\ inflight'[i] = inflight[i]
      BY <1>2, <2>4 DEF TypeOK
    <3> QED
      BY <2>2, <3>1
  <2> QED
    BY <2>3, <2>4
<1>7. /\ failures' \in [Items -> 0..MaxFailures] /\ waiting' \in [Items -> BOOLEAN]
      /\ inflight' \in [Items -> BOOLEAN]
  BY <1>2, <1>6 DEF TypeOK
<1>8. TypeOK'
  BY <1>1, <1>3, <1>5, <1>7 DEF TypeOK
<1>9. OneRun'
  BY <1>5 DEF OneRun
<1>10. WorkIsRecorded' /\ Placed' /\ Noted'
  BY <1>1, <1>4 DEF WorkIsRecorded, Placed, Noted, Working
<1>11. Below' /\ EveryTryCounts'
  BY <1>1, <1>6 DEF Below, EveryTryCounts
<1> QED
  BY <1>8, <1>9, <1>10, <1>11

LEMMA Crashing ==
    ASSUME PrepInv, NEW w \in Workers, Crash(w)
    PROVE  PrepInv'
<1> USE DEF PrepInv
<1>1. /\ inRun[w] # None /\ pid' = (IF pid = w THEN None ELSE pid)
      /\ inRun' = [inRun EXCEPT ![w] = None]
      /\ step' = [i \in Items |-> IF by[i] = w THEN "out" ELSE step[i]]
      /\ by' = [i \in Items |-> IF by[i] = w THEN None ELSE by[i]]
      /\ paused' = paused /\ run' = run /\ running' = running /\ attempted' = attempted
      /\ completed' = completed /\ failed' = failed /\ stop' = stop /\ done' = done
  BY DEF Crash
<1>2. /\ failures' = failures /\ waiting' = waiting /\ inflight' = inflight
      /\ dispatched' = dispatched /\ rowRun' = rowRun
      /\ tries' = tries /\ others' = others /\ pausedSince' = pausedSince
  BY DEF Crash, rows, history
<1>3. /\ \A v \in Workers \ {w} : inRun[v] = None
      /\ \A i \in Items : by[i] \in {w, None}
  BY <1>1, Alone
<1>4. \A i \in Items : by'[i] = None /\ step'[i] = "out"
  BY <1>1, <1>3 DEF TypeOK
<1>5. /\ by' \in [Items -> Workers \cup {None}]
      /\ step' \in [Items -> {"out", "asked", "in", "checked", "sent", "decided", "marked"}]
  BY <1>1, <1>4
<1>6. /\ inRun' \in [Workers -> RunIds \cup {None}] /\ pid' \in Workers \cup {None}
      /\ \A v \in Workers : inRun'[v] = None
  BY <1>1, <1>3 DEF TypeOK
<1>7. TypeOK'
  BY <1>1, <1>2, <1>4, <1>5, <1>6 DEF TypeOK
<1>8. OneRun'
  BY <1>6 DEF OneRun
<1>9. WorkIsRecorded' /\ Placed' /\ Noted'
  BY <1>4 DEF WorkIsRecorded, Placed, Noted, Working
<1>10. Below' /\ EveryTryCounts'
  BY <1>2 DEF Below, EveryTryCounts
<1> QED
  BY <1>7, <1>8, <1>9, <1>10

(* A paid call outside any item, a pause, and an exception.                *)
LEMMA OutsideItems ==
    ASSUME PrepInv,
           \/ \E w \in Workers : Auxiliary(w)
           \/ Pause
           \/ \E w \in Workers, reason \in {"paused", "fenced", "interrupted"} : Interrupt(w, reason)
    PROVE  PrepInv'
<1> USE DEF PrepInv
<1>1. /\ run' = run /\ running' = running /\ pid' = pid
      /\ completed' = completed /\ failed' = failed
      /\ failures' = failures /\ waiting' = waiting /\ inflight' = inflight
      /\ dispatched' = dispatched /\ rowRun' = rowRun /\ done' = done
      /\ inRun' = inRun /\ by' = by /\ step' = step /\ tries' = tries
  BY DEF Auxiliary, Pause, Interrupt, rows, process, history
<1>2. /\ paused' \in BOOLEAN /\ stop' \in Reasons /\ pausedSince' \in BOOLEAN
      /\ attempted' \in 0..Limit /\ others' \in Nat
  <2>1. CASE \E w \in Workers : Auxiliary(w)
    <3>1. /\ attempted' = attempted + 1 /\ attempted < Limit /\ others' = others + 1
          /\ paused' = paused /\ stop' = stop /\ pausedSince' = pausedSince
      BY <2>1 DEF Auxiliary
    <3> QED
      BY <3>1, Numbers DEF TypeOK
  <2>2. CASE Pause
    BY <2>2 DEF Pause, Reasons, TypeOK
  <2>3. CASE \E w \in Workers, reason \in {"paused", "fenced", "interrupted"} : Interrupt(w, reason)
    <3>1. /\ stop' \in {stop, "paused", "fenced", "interrupted"} /\ paused' = paused
          /\ pausedSince' = pausedSince /\ attempted' = attempted /\ others' = others
      BY <2>3 DEF Interrupt, Stop, history
    <3> QED
      BY <3>1 DEF Reasons, TypeOK
  <2> QED
    BY <2>1, <2>2, <2>3
<1>3. TypeOK'
  BY <1>1, <1>2 DEF TypeOK
<1> QED
  BY <1>1, <1>3 DEF OneRun, WorkIsRecorded, Placed, Below, Noted, EveryTryCounts

(* The owner resets an item that is not at work, and a back-off ends.      *)
LEMMA Forgiving ==
    ASSUME PrepInv, NEW i \in Items, Reset(i) \/ BackoffOver(i)
    PROVE  PrepInv'
<1> USE DEF PrepInv
<1>1. /\ paused' = paused /\ run' = run /\ running' = running /\ pid' = pid
      /\ attempted' = attempted /\ completed' = completed /\ failed' = failed /\ stop' = stop
      /\ inflight' = inflight /\ done' = done /\ inRun' = inRun /\ by' = by /\ step' = step
      /\ others' = others /\ pausedSince' = pausedSince
      /\ waiting' = [waiting EXCEPT ![i] = FALSE]
  BY DEF Reset, BackoffOver, state, process, history
<1>2. CASE Reset(i)
  <2>1. /\ ~inflight[i]
        /\ failures' = [failures EXCEPT ![i] = 0] /\ tries' = [tries EXCEPT ![i] = 0]
        /\ dispatched' = [dispatched EXCEPT ![i] = FALSE] /\ rowRun' = [rowRun EXCEPT ![i] = None]
    BY <1>2 DEF Reset
  <2>2. 0 \in 0..MaxFailures
    BY Numbers
  <2>3. /\ failures' \in [Items -> 0..MaxFailures] /\ tries' \in [Items -> 0..MaxFailures]
        /\ dispatched' \in [Items -> BOOLEAN] /\ rowRun' \in [Items -> RunIds \cup {None}]
        /\ waiting' \in [Items -> BOOLEAN]
        /\ failures'[i] = 0 /\ tries'[i] = 0 /\ ~dispatched'[i]
        /\ \A j \in Items \ {i} : /\ failures'[j] = failures[j] /\ tries'[j] = tries[j]
                                  /\ dispatched'[j] = dispatched[j] /\ rowRun'[j] = rowRun[j]
    BY <1>1, <2>1, <2>2 DEF TypeOK
  <2>4. TypeOK'
    BY <1>1, <2>3 DEF TypeOK
  <2>5. OneRun' /\ Placed'
    BY <1>1 DEF OneRun, Placed
  <2>6. WorkIsRecorded' /\ Below' /\ Noted'
    BY <1>1, <2>1, <2>3 DEF WorkIsRecorded, Below, Noted, Working
  <2>7. EveryTryCounts'
    BY <1>1, <2>1, <2>3 DEF EveryTryCounts
  <2> QED
    BY <2>4, <2>5, <2>6, <2>7
<1>3. CASE BackoffOver(i)
  <2>1. /\ failures' = failures /\ tries' = tries /\ dispatched' = dispatched /\ rowRun' = rowRun
    BY <1>3 DEF BackoffOver, history
  <2>2. waiting' \in [Items -> BOOLEAN]
    BY <1>1 DEF TypeOK
  <2>3. TypeOK'
    BY <1>1, <2>1, <2>2 DEF TypeOK
  <2> QED
    BY <1>1, <2>1, <2>3 DEF OneRun, WorkIsRecorded, Placed, Below, Noted, EveryTryCounts
<1> QED
  BY <1>2, <1>3

LEMMA StepHolds == PrepInv /\ [Next]_vars => PrepInv'
<1> SUFFICES ASSUME PrepInv, [Next]_vars PROVE PrepInv'
  OBVIOUS
<1>1. CASE StartAny
  BY <1>1, Starting DEF StartAny
<1>2. CASE \/ \E w \in Workers : Auxiliary(w)
           \/ Pause
           \/ \E w \in Workers, reason \in {"paused", "fenced", "interrupted"} : Interrupt(w, reason)
  BY <1>2, OutsideItems
<1>3. ASSUME NEW w \in Workers, Crash(w) PROVE PrepInv'
  BY <1>3, Crashing
<1>4. ASSUME NEW w \in Workers, End(w)
      PROVE  PrepInv'
  BY <1>4, EndingRun
<1>5. ASSUME NEW i \in Items, Progress(i) PROVE PrepInv'
  <2>1. CASE \E w \in Workers : Ask(w, i)
    BY <2>1, Asking
  <2>2. CASE Admit(i)
    BY <2>2, Admitting
  <2>3. CASE Dispatch(i)
    BY <2>3, Dispatching
  <2>4. CASE Complete(i)
    BY <2>4, Completing
  <2>5. CASE Check(i) \/ Decide(i)
    <3>1. /\ step[i] \in Working /\ (At(i, "checked") \/ At(i, "decided"))
          /\ UNCHANGED <<state, rows, inRun, by, history>> /\ done' \in [Items -> BOOLEAN]
      BY <2>5 DEF Check, Decide, Working, PrepInv, TypeOK
    <3>2. step[i] \in Working
      BY <2>5 DEF Check, Decide, Working
    <3> QED
      BY <3>1, <3>2, GoingOn DEF Working
  <2>6. CASE Mark(i)
    <3>1. /\ step[i] \in Working /\ At(i, "marked")
          /\ UNCHANGED <<state, rows, inRun, by, history>> /\ done' \in [Items -> BOOLEAN]
      BY <2>6 DEF Mark, Working, PrepInv, TypeOK
    <3> QED
      BY <3>1, GoingOn DEF Working
  <2> QED
    BY <1>5, <2>1, <2>2, <2>3, <2>4, <2>5, <2>6 DEF Progress
<1>6. ASSUME NEW i \in Items, AnotherCall(i) PROVE PrepInv'
  <2>1. /\ step[i] \in Working /\ At(i, "in")
        /\ UNCHANGED <<state, rows, inRun, by, history>> /\ done' \in [Items -> BOOLEAN]
    BY <1>6 DEF AnotherCall, Working, PrepInv, TypeOK
  <2> QED
    BY <2>1, GoingOn DEF Working
<1>7. ASSUME NEW i \in Items, Refuse(i) \/ Fence(i) \/ Fail(i) PROVE PrepInv'
  BY <1>7, Refusing, Fencing, Failing
<1>8. ASSUME NEW i \in Items, LoseDecision(i) PROVE PrepInv'
  BY <1>8, Leaving DEF LoseDecision
<1>9. ASSUME NEW i \in Items, Reset(i) \/ BackoffOver(i) PROVE PrepInv'
  BY <1>9, Forgiving
<1>10. CASE UNCHANGED vars
  BY <1>10 DEF vars, state, rows, process, history, PrepInv, TypeOK, OneRun, WorkIsRecorded,
               Placed, Below, Noted, EveryTryCounts
<1> QED
  BY <1>1, <1>2, <1>3, <1>4, <1>5, <1>6, <1>7, <1>8, <1>9, <1>10 DEF Next

LEMMA InvHolds == Spec => []PrepInv
  BY InitHolds, StepHolds, PTL DEF Spec

(* The ledger and the processes are well typed; no run takes more than its *)
(* allowance, no item fails more often than suspends it.                   *)
THEOREM TypeCorrect == Spec => []TypeOK
<1>1. PrepInv => TypeOK
  BY DEF PrepInv
<1> QED
  BY <1>1, InvHolds, PTL

(* One run at a time across all processes of a profile, whichever crashes  *)
(* and takes over.                                                         *)
THEOREM RunsAreExclusive == Spec => []OneRun
<1>1. PrepInv => OneRun
  BY DEF PrepInv
<1> QED
  BY <1>1, InvHolds, PTL

(* Whatever works on an item finds its row in flight and its own.          *)
THEOREM RowsAreOwned == Spec => []WorkIsRecorded
<1>1. PrepInv => WorkIsRecorded
  BY DEF PrepInv
<1> QED
  BY <1>1, InvHolds, PTL

(* No restart, resume, refusal or crash makes a paid attempt free.         *)
THEOREM NoTryForgotten == Spec => []EveryTryCounts
<1>1. PrepInv => EveryTryCounts
  BY DEF PrepInv
<1> QED
  BY <1>1, InvHolds, PTL

------------------------------------------------------------------------------
(* What the panel shows.  Mine are the items the ledger's run has in       *)
(* flight: the part of its attempts that has no result yet.                *)
Mine == {i \in Items : inflight[i] /\ rowRun[i] = run}
InFlight == Cardinality(Mine)

LEMMA MineIsFinite == IsFiniteSet(Mine) /\ Cardinality(Mine) \in Nat
<1>1. IsFiniteSet(Items)
  BY PreparationAssumption, FS_Union DEF Items
<1>2. IsFiniteSet(Mine)
  BY <1>1, FS_Subset DEF Mine
<1> QED
  BY <1>2, FS_CardinalityType

LEMMA CountsOfMine ==
    CountsAddUp <=> attempted = completed + failed + others + InFlight
  BY DEF CountsAddUp, Mine, InFlight

LEMMA CountsOfMineNext ==
    CountsAddUp' <=> attempted' = completed' + failed' + others' + InFlight'
  BY DEF CountsAddUp, Mine, InFlight

(* An item at work is counted as in flight, and once it ends is not.       *)
LEMMA EndsOne ==
    ASSUME PrepInv, CountsAddUp, NEW i \in Items, step[i] \in Working, Close(Own(i)),
           rowRun' = rowRun, run' = run, attempted' = attempted,
           completed' + failed' + others' = completed + failed + others + 1,
           completed' \in Nat, failed' \in Nat, others' \in Nat
    PROVE  CountsAddUp'
<1>1. Own(i) = {i} /\ inflight[i] /\ by[i] \in Workers
  BY OwnRow
<1>2. rowRun[i] = inRun[by[i]] /\ inRun[by[i]] # None
  BY <1>1, Numbers DEF PrepInv, WorkIsRecorded, Placed, Working
<1>3. rowRun[i] = run
  BY <1>1, <1>2 DEF PrepInv, OneRun
<1>4. i \in Mine
  BY <1>1, <1>3 DEF Mine
<1>5. Mine' = Mine \ {i}
  BY <1>1 DEF Mine, Close, PrepInv, TypeOK
<1>6. InFlight' = InFlight - 1 /\ InFlight \in Nat
  BY <1>4, <1>5, MineIsFinite, FS_RemoveElement DEF InFlight
<1>7. attempted = completed + failed + others + InFlight
  BY CountsOfMine
<1>8. completed \in Nat /\ failed \in Nat /\ others \in Nat
  BY DEF PrepInv, TypeOK
<1>9. attempted \in Nat /\ InFlight' \in Nat
  <2>1. IsFiniteSet(Mine')
    BY <1>5, MineIsFinite, FS_Subset
  <2>2. InFlight' \in Nat
    BY <2>1, FS_CardinalityType DEF InFlight
  <2>3. attempted \in 0..Limit
    BY DEF PrepInv, TypeOK
  <2> QED
    BY <2>2, <2>3, Numbers
<1>10. attempted = completed + failed + others + 1 + InFlight'
  BY <1>6, <1>7, <1>8, <1>9
<1>11. attempted = completed' + failed' + others' + InFlight'
  BY <1>9, <1>10
<1> QED
  BY <1>11, CountsOfMineNext

(* A step that leaves what is counted as it is.                            *)
LEMMA CountsStay ==
    ASSUME CountsAddUp, Mine' = Mine, attempted' = attempted, completed' = completed,
           failed' = failed, others' = others
    PROVE  CountsAddUp'
  BY CountsOfMine, CountsOfMineNext DEF InFlight

(* A run that ends counts what it left in flight as failed.                *)
LEMMA RunEndsCounted ==
    ASSUME PrepInv, CountsAddUp, NEW w \in Workers, End(w)
    PROVE  CountsAddUp'
<1>0. /\ attempted = completed + failed + others + InFlight
      /\ completed \in Nat /\ failed \in Nat /\ others \in Nat /\ InFlight \in Nat
  BY CountsOfMine, MineIsFinite DEF PrepInv, TypeOK, InFlight
<1>1. run = inRun[w]
  BY DEF End, PrepInv, OneRun
<1>2. /\ failed' = failed + InFlight
      /\ inflight' = [i \in Items |-> inflight[i] /\ i \notin Mine]
      /\ attempted' = attempted /\ completed' = completed /\ others' = others
      /\ run' = run /\ rowRun' = rowRun
  BY <1>1 DEF End, Close, Mine, InFlight, history
<1>3. Mine' = {}
  BY <1>2 DEF Mine
<1>4. InFlight' = 0
  BY <1>3, FS_EmptySet DEF InFlight
<1>5. failed' \in Nat /\ completed' \in Nat /\ others' \in Nat /\ InFlight' \in Nat
  <2>1. failed' = failed + InFlight /\ completed' = completed /\ others' = others
    BY <1>2
  <2>2. InFlight' \in Nat
    BY <1>4
  <2>3. failed' \in Nat
    BY <1>0, <2>1
  <2> QED
    BY <1>0, <2>1, <2>2, <2>3
<1>6. attempted = completed' + failed' + others' + InFlight'
  BY <1>0, <1>2, <1>4, <1>5
<1> QED
  BY <1>2, <1>6, CountsOfMineNext

LEMMA CountsKept == PrepInv /\ CountsAddUp /\ [Next]_vars => CountsAddUp'
<1> SUFFICES ASSUME PrepInv, CountsAddUp, [Next]_vars PROVE CountsAddUp'
  OBVIOUS
<1>0. /\ attempted = completed + failed + others + InFlight
      /\ attempted \in Nat /\ completed \in Nat /\ failed \in Nat /\ others \in Nat
      /\ InFlight \in Nat
  BY CountsOfMine, MineIsFinite, Numbers DEF PrepInv, TypeOK, InFlight
<1>1. CASE StartAny
  <2>1. PICK w \in Workers, r \in RunIds, explicit \in BOOLEAN : Start(w, r, explicit)
    BY <1>1 DEF StartAny
  <2>2. /\ attempted' = 0 /\ completed' = 0 /\ failed' = 0 /\ others' = 0
        /\ inflight' = [i \in Items |-> inflight[i] /\ i \notin Items]
    BY <2>1 DEF Start, Close
  <2>3. Mine' = {}
    BY <2>2 DEF Mine
  <2>4. InFlight' = 0
    BY <2>3, FS_EmptySet DEF InFlight
  <2> QED
    BY <2>2, <2>4, CountsOfMineNext
<1>2. ASSUME NEW w \in Workers, Auxiliary(w) PROVE CountsAddUp'
  <2>1. /\ attempted' = attempted + 1 /\ others' = others + 1
        /\ completed' = completed /\ failed' = failed /\ run' = run
        /\ inflight' = inflight /\ rowRun' = rowRun
    BY <1>2 DEF Auxiliary, rows
  <2>2. InFlight' = InFlight
    BY <2>1 DEF Mine, InFlight
  <2>3. attempted' = completed' + failed' + others' + InFlight'
    BY <1>0, <2>1, <2>2
  <2> QED
    BY <2>3, CountsOfMineNext
<1>3. CASE \/ Pause
           \/ \E w \in Workers : Crash(w)
           \/ \E w \in Workers, reason \in {"paused", "fenced", "interrupted"} : Interrupt(w, reason)
  <2>1. /\ attempted' = attempted /\ others' = others /\ completed' = completed
        /\ failed' = failed /\ run' = run /\ inflight' = inflight /\ rowRun' = rowRun
    BY <1>3 DEF Pause, Crash, Interrupt, rows, history
  <2> QED
    BY <2>1, CountsStay DEF Mine
<1>4. ASSUME NEW w \in Workers, End(w)
      PROVE  CountsAddUp'
  BY <1>4, RunEndsCounted
<1>5. ASSUME NEW i \in Items, Admit(i) PROVE CountsAddUp'
  <2>1. CASE ~(run = inRun[by[i]] /\ Admittable(i))
    <3>1. /\ attempted' = attempted /\ others' = others /\ completed' = completed
          /\ failed' = failed /\ run' = run /\ inflight' = inflight /\ rowRun' = rowRun
      BY <1>5, <2>1 DEF Admit, history
    <3> QED
      BY <3>1, CountsStay DEF Mine
  <2>2. CASE run = inRun[by[i]] /\ Admittable(i)
    <3>1. /\ inflight' = [inflight EXCEPT ![i] = TRUE] /\ ~inflight[i]
          /\ rowRun' = [rowRun EXCEPT ![i] = run] /\ run' = run
          /\ attempted' = attempted + 1 /\ completed' = completed /\ failed' = failed
          /\ others' = others
      BY <1>5, <2>2 DEF Admit, Admittable, history
    <3>2. Mine' = Mine \cup {i} /\ i \notin Mine
      BY <3>1 DEF Mine, PrepInv, TypeOK
    <3>3. InFlight' = InFlight + 1
      BY <3>2, MineIsFinite, FS_AddElement DEF InFlight
    <3>4. attempted' = completed' + failed' + others' + InFlight'
      BY <1>0, <3>1, <3>3
    <3> QED
      BY <3>4, CountsOfMineNext
  <2> QED
    BY <2>1, <2>2
<1>6. ASSUME NEW i \in Items,
             \/ \E w \in Workers : Ask(w, i)
             \/ Check(i) \/ Dispatch(i) \/ Mark(i) \/ Decide(i)
             \/ AnotherCall(i) \/ LoseDecision(i) \/ BackoffOver(i)
      PROVE  CountsAddUp'
  <2>1. /\ attempted' = attempted /\ others' = others /\ completed' = completed
        /\ failed' = failed /\ run' = run /\ inflight' = inflight /\ rowRun' = rowRun
    BY <1>6 DEF Ask, Check, Dispatch, Mark, Decide, AnotherCall, LoseDecision, BackoffOver,
                state, rows, history
  <2> QED
    BY <2>1, CountsStay DEF Mine
<1>7. ASSUME NEW i \in Items, Reset(i) PROVE CountsAddUp'
  <2>1. /\ attempted' = attempted /\ others' = others /\ completed' = completed
        /\ failed' = failed /\ run' = run /\ inflight' = inflight /\ ~inflight[i]
        /\ rowRun' = [rowRun EXCEPT ![i] = None]
    BY <1>7 DEF Reset, state
  <2>2. Mine' = Mine
    BY <2>1 DEF Mine, PrepInv, TypeOK
  <2> QED
    BY <2>1, <2>2, CountsStay
<1>8. ASSUME NEW i \in Items, Refuse(i) \/ Fence(i) \/ Fail(i) PROVE CountsAddUp'
  <2>1. step[i] \in Working /\ ((FinishFailed(i) /\ others' = others) \/ FinishRefused(i))
    BY <1>8 DEF Refuse, Fence, Fail, Working
  <2>2. /\ Close(Own(i)) /\ rowRun' = rowRun /\ run' = run /\ attempted' = attempted
        /\ completed' = completed
        /\ \/ failed' = failed + 1 /\ others' = others
           \/ failed' = failed /\ others' = others + 1
    BY <2>1 DEF FinishFailed, FinishRefused
  <2>3. /\ completed' + failed' + others' = completed + failed + others + 1
        /\ completed' \in Nat /\ failed' \in Nat /\ others' \in Nat
    BY <1>0, <2>2
  <2> QED
    BY <2>1, <2>2, <2>3, EndsOne
<1>9. ASSUME NEW i \in Items, Complete(i) PROVE CountsAddUp'
  <2>1. step[i] \in Working
    BY <1>9 DEF Complete, Working
  <2>2. Own(i) = {i} /\ inflight[i]
    BY <2>1, OwnRow
  <2>3. {j \in Own(i) : j \in Memory \/ inflight[j]} = Own(i) /\ Own(i) # {}
    BY <2>2
  <2>4. /\ Close(Own(i)) /\ rowRun' = rowRun /\ run' = run /\ attempted' = attempted
        /\ completed' = completed + 1 /\ failed' = failed /\ others' = others
    BY <1>9, <2>3 DEF Complete
  <2>5. /\ completed' + failed' + others' = completed + failed + others + 1
        /\ completed' \in Nat /\ failed' \in Nat /\ others' \in Nat
    BY <1>0, <2>4
  <2> QED
    BY <2>1, <2>4, <2>5, EndsOne
<1>10. CASE UNCHANGED vars
  BY <1>10, CountsStay DEF vars, state, rows, history, Mine
<1> QED
  BY <1>1, <1>2, <1>3, <1>4, <1>5, <1>6, <1>7, <1>8, <1>9, <1>10 DEF Next, Progress

LEMMA CountsAtStart == Init => CountsAddUp
<1>1. HAVE Init
<1>2. /\ attempted = 0 /\ completed = 0 /\ failed = 0 /\ others = 0
      /\ \A i \in Items : ~inflight[i]
  BY <1>1 DEF Init
<1>3. Mine = {}
  BY <1>2 DEF Mine
<1>4. InFlight = 0
  BY <1>3, FS_EmptySet DEF InFlight
<1> QED
  BY <1>2, <1>4, CountsOfMine

(* What a run attempted is completed, failed, refused, spent outside of    *)
(* items or still in flight, whoever crashed or took the run over.         *)
THEOREM PanelAddsUp == Spec => []CountsAddUp
  BY CountsAtStart, CountsKept, InvHolds, PTL DEF Spec

------------------------------------------------------------------------------
(* A paused run has its reason to stop until another one starts.           *)
PauseHolds == pausedSince => stop # ""

LEMMA PauseKept == PauseHolds /\ [Next]_vars => PauseHolds'
<1> SUFFICES ASSUME PauseHolds, [Next]_vars PROVE PauseHolds'
  OBVIOUS
<1> USE DEF PauseHolds
<1>1. CASE StartAny \/ Pause
  BY <1>1 DEF StartAny, Start, Pause
<1>2. ASSUME NEW w \in Workers, Auxiliary(w) \/ Crash(w) PROVE PauseHolds'
  BY <1>2 DEF Auxiliary, Crash, history
<1>3. ASSUME NEW w \in Workers, End(w)
      PROVE  PauseHolds'
  <2>1. pausedSince' = pausedSince /\ (stop # "" => stop' # "")
    BY <1>3 DEF End, history
  <2> QED
    BY <2>1
<1>4. ASSUME NEW i \in Items, Progress(i) PROVE PauseHolds'
  <2>1. stop' = stop /\ pausedSince' = pausedSince
    BY <1>4 DEF Progress, Ask, Admit, Check, Dispatch, Mark, Decide, Complete, state, history
  <2> QED
    BY <2>1
<1>5. ASSUME NEW i \in Items,
             \/ AnotherCall(i) \/ Fail(i) \/ LoseDecision(i) \/ Reset(i) \/ BackoffOver(i)
      PROVE  PauseHolds'
  <2>1. stop' = stop /\ pausedSince' = pausedSince
    BY <1>5 DEF AnotherCall, Fail, FinishFailed, LoseDecision, Reset, BackoffOver, state, history
  <2> QED
    BY <2>1
<1>6. ASSUME NEW i \in Items, Refuse(i) \/ Fence(i) PROVE PauseHolds'
  <2>1. stop' \in {stop, "budget", "fenced"} /\ pausedSince' = pausedSince
    BY <1>6 DEF Refuse, Fence, Stop, FinishFailed, FinishRefused
  <2> QED
    BY <2>1
<1>7. CASE UNCHANGED vars
  BY <1>7 DEF vars, state, history
<1>8. ASSUME NEW w \in Workers, NEW reason \in {"paused", "fenced", "interrupted"},
             Interrupt(w, reason)
      PROVE  PauseHolds'
  <2>1. stop' \in {stop, reason} /\ pausedSince' = pausedSince
    BY <1>8 DEF Interrupt, Stop, history
  <2> QED
    BY <2>1
<1> QED
  BY <1>1, <1>2, <1>3, <1>4, <1>5, <1>6, <1>7, <1>8 DEF Next

(* Nothing a step does to an item whose call was checked but not sent      *)
(* sends it, except the dispatch, which looks for a reason to stop again.  *)
LEMMA OnlyDispatchSends ==
    ASSUME PrepInv, [Next]_vars, NEW i \in Items, step[i] = "checked", step'[i] = "sent"
    PROVE  stop = ""
<1>1. step[i] # step'[i]
  OBVIOUS
<1>2. ~(step' = step)
  BY <1>1
<1>3. ~(step'[i] = "out")
  OBVIOUS
<1>4. CASE StartAny \/ Pause
  BY <1>2, <1>4 DEF StartAny, Start, Pause, process
<1>5. ASSUME NEW w \in Workers, NEW reason \in {"paused", "fenced", "interrupted"},
             Auxiliary(w) \/ Interrupt(w, reason)
      PROVE  FALSE
  BY <1>2, <1>5 DEF Auxiliary, Interrupt, process
<1>6. ASSUME NEW w \in Workers, Crash(w) PROVE FALSE
  BY <1>1, <1>3, <1>6 DEF Crash
<1>7. ASSUME NEW w \in Workers, End(w)
      PROVE  FALSE
  BY <1>2, <1>7 DEF End
<1>8. ASSUME NEW j \in Items, Reset(j) \/ BackoffOver(j) PROVE FALSE
  BY <1>2, <1>8 DEF Reset, BackoffOver, process
<1>9. ASSUME NEW j \in Items, Dispatch(j) PROVE stop = ""
  BY <1>9 DEF Dispatch, MayGo
<1>10. ASSUME NEW j \in Items, NEW s \in {"out", "asked", "in", "checked", "decided", "marked"},
              step' = [step EXCEPT ![j] = s]
       PROVE  FALSE
  BY <1>1, <1>10 DEF PrepInv, TypeOK
<1>11. ASSUME NEW j \in Items,
              \/ \E w \in Workers : Ask(w, j)
              \/ Admit(j) \/ Check(j) \/ Mark(j) \/ Decide(j) \/ Complete(j)
       PROVE  FALSE
  BY <1>10, <1>11 DEF Ask, Admit, Check, Mark, Decide, Complete, Leave, At
<1>12. ASSUME NEW j \in Items,
              AnotherCall(j) \/ Refuse(j) \/ Fence(j) \/ Fail(j) \/ LoseDecision(j)
       PROVE  FALSE
  BY <1>10, <1>12 DEF AnotherCall, Refuse, Fence, Fail, LoseDecision, FinishFailed,
                      FinishRefused, Leave, At
<1>13. CASE UNCHANGED vars
  BY <1>2, <1>13 DEF vars, process
<1> QED
  BY <1>4, <1>5, <1>6, <1>7, <1>8, <1>9, <1>11, <1>12, <1>13 DEF Next, Progress

(* From the owner's pause to the next run nothing is sent, whatever was    *)
(* checked before the pause.                                               *)
THEOREM PauseIsKept == Spec => PausedSendsNothing
<1>1. Init => PauseHolds
  BY DEF Init, PauseHolds
<1>2. /\ PauseHolds /\ PrepInv /\ [Next]_vars
      => [pausedSince => \A i \in Items : ~(step[i] = "checked" /\ step'[i] = "sent")]_vars
  BY OnlyDispatchSends DEF PauseHolds
<1> QED
  BY <1>1, <1>2, PauseKept, InvHolds, PTL DEF Spec, PausedSendsNothing
==============================================================================
