------------------------------ MODULE Preparation ------------------------------
(***************************************************************************)
(* Bounded preparation (engine/zylch/services/preparation.py): the ledger  *)
(* every automatic paid step of a profile is admitted by.  A run is        *)
(* admitted across processes; within it, each source of each stage is an   *)
(* item that may fail three times; a pause stops what was not sent yet.    *)
(*                                                                         *)
(* The ledger lives in the profile's store, and each access to it is one   *)
(* BEGIN IMMEDIATE transaction and one action.  A worker is a process that *)
(* may hold a run: the daemon, the app's sidecar, the command line.  The   *)
(* clock of the back-off is abstracted to a flag that is lifted some time  *)
(* after it was raised.                                                    *)
(***************************************************************************)
EXTENDS Integers, FiniteSets

CONSTANTS
    Workers,       \* processes of one profile
    Memory,        \* items of the memory stages
    Tasks,         \* items of the task stages
    RunIds,        \* bound: run_id, fresh for every run
    None,
    Limit,         \* PREPARATION_BATCH_SIZE
    MaxFailures,   \* the three failures of an item
    Disturbances   \* bound: what an instance lets happen

Items == Memory \cup Tasks

ASSUME PreparationAssumption ==
    /\ None \notin Workers \cup RunIds
    /\ Memory \cap Tasks = {} /\ IsFiniteSet(Memory) /\ IsFiniteSet(Tasks)
    /\ Limit \in Nat \ {0} /\ MaxFailures \in Nat \ {0}
    /\ Disturbances \subseteq {"crash", "refuse", "fence", "reset", "pause"}

VARIABLES
    \* preparation_state
    paused, run, running,
    pid,           \* the process that pid names, None when it is gone
    attempted, completed, failed, stop,
    \* preparation_attempts
    failures, waiting, inflight, dispatched, rowRun,
    \* external: the source's own checkpoint column
    done,
    \* the processes
    inRun,         \* _current: the run a worker is inside of
    by, step,      \* the worker an item's coroutine runs in, and where it is
    \* history
    tries,         \* sent since the item's last success or reset, but for fenced ones
    others,        \* of this run: attempts that neither completed nor failed
    pausedSince    \* the owner paused since the run started

state == <<paused, run, running, pid, attempted, completed, failed, stop>>
rows == <<failures, waiting, inflight, dispatched, rowRun>>
process == <<inRun, by, step>>
history == <<tries, others, pausedSince>>
vars == <<state, rows, done, process, history>>

Reasons == {"", "paused", "budget", "fenced", "interrupted", "finished"}

Init ==
    /\ paused = FALSE /\ run = None /\ running = FALSE /\ pid = None
    /\ attempted = 0 /\ completed = 0 /\ failed = 0 /\ stop = ""
    /\ failures = [i \in Items |-> 0]
    /\ waiting = [i \in Items |-> FALSE]
    /\ inflight = [i \in Items |-> FALSE]
    /\ dispatched = [i \in Items |-> FALSE]
    /\ rowRun = [i \in Items |-> None]
    /\ done = [i \in Items |-> FALSE]
    /\ inRun = [w \in Workers |-> None]
    /\ by = [i \in Items |-> None]
    /\ step = [i \in Items |-> "out"]
    /\ tries = [i \in Items |-> 0]
    /\ others = 0 /\ pausedSince = FALSE

------------------------------------------------------------------------------
(* What the rows of a set of items become.                                 *)

Close(items) == inflight' = [i \in Items |-> inflight[i] /\ i \notin items]

(* Mutant: a failure backs off and is forgotten.                           *)
BackOffOnly(items) ==
    waiting' = [i \in Items |-> waiting[i] \/ i \in items] /\ UNCHANGED failures

(* A failure backs off before the item is admitted again.                  *)
CountFailure(items) ==
    /\ failures' = [i \in Items |-> IF i \in items THEN failures[i] + 1 ELSE failures[i]]
    /\ waiting' = [i \in Items |-> waiting[i] \/ i \in items]

Forgive(items) ==
    /\ failures' = [i \in Items |-> IF i \in items THEN 0 ELSE failures[i]]
    /\ waiting' = [i \in Items |-> waiting[i] /\ i \notin items]

(* The row an item's coroutine may still write: WHERE run_id = its run's.  *)
Own(i) == {j \in {i} : rowRun[j] = inRun[by[j]]}

At(i, s) == step' = [step EXCEPT ![i] = s]
Leave(i) == At(i, "out") /\ by' = [by EXCEPT ![i] = None]

(* preparation._stop                                                       *)
Stop(r, reason) == stop' = IF run = r THEN reason ELSE stop

------------------------------------------------------------------------------
(* preparation_run: one run across the processes.                          *)

(* Mutant: a run that has not ended is taken over.                         *)
StartBeside(w, r, explicit) ==
    /\ inRun[w] = None
    /\ r \notin {run} \cup {rowRun[i] : i \in Items}
    /\ ~paused \/ explicit
    /\ CountFailure({i \in Items : inflight[i]}) /\ Close(Items)
    /\ run' = r /\ running' = TRUE /\ pid' = w
    /\ attempted' = 0 /\ completed' = 0 /\ failed' = 0 /\ stop' = ""
    /\ inRun' = [inRun EXCEPT ![w] = r]
    /\ others' = 0 /\ pausedSince' = FALSE
    /\ UNCHANGED <<paused, dispatched, rowRun, done, by, step, tries>>

(* A run whose process is gone is over; what it left in flight may have    *)
(* incurred cost and counts as a failure.                                  *)
Start(w, r, explicit) ==
    /\ inRun[w] = None
    /\ r \notin {run} \cup {rowRun[i] : i \in Items}
    /\ ~(running /\ pid # None)
    /\ ~paused \/ explicit
    /\ CountFailure({i \in Items : inflight[i]}) /\ Close(Items)
    /\ run' = r /\ running' = TRUE /\ pid' = w
    /\ attempted' = 0 /\ completed' = 0 /\ failed' = 0 /\ stop' = ""
    /\ inRun' = [inRun EXCEPT ![w] = r]
    /\ others' = 0 /\ pausedSince' = FALSE
    /\ UNCHANGED <<paused, dispatched, rowRun, done, by, step, tries>>

MayGo(w) == run = inRun[w] /\ running /\ stop = ""

(* Mutant: a run may take more than its allowance.                         *)
AdmittableAlways(i) == failures[i] < MaxFailures /\ ~waiting[i] /\ ~inflight[i]

Admittable(i) == failures[i] < MaxFailures /\ ~waiting[i] /\ ~inflight[i] /\ attempted < Limit

(* An exception leaves the run: its reason is recorded first, in a         *)
(* transaction of its own.                                                 *)
Interrupt(w, reason) ==
    /\ inRun[w] # None /\ \A i \in Items : by[i] # w
    /\ Stop(inRun[w], reason)
    /\ UNCHANGED <<paused, run, running, pid, attempted, completed, failed, rows, done, process,
                   history>>

(* The run ends when the worker went over its sources or was told to stop. *)
End(w) ==
    LET left == {i \in Items : inflight[i] /\ rowRun[i] = inRun[w]} IN
    /\ inRun[w] # None /\ \A i \in Items : by[i] # w
    /\ stop # "" \/ \A i \in Items : done[i] \/ ~Admittable(i)
    /\ CountFailure(left) /\ Close(left)
    /\ IF run = inRun[w]
       THEN /\ failed' = failed + Cardinality(left)
            /\ running' = FALSE
            /\ stop' = IF stop = "" THEN "finished" ELSE stop
       ELSE UNCHANGED <<failed, running, stop>>
    /\ inRun' = [inRun EXCEPT ![w] = None]
    /\ UNCHANGED <<paused, run, pid, attempted, completed, dispatched, rowRun, done, by, step, history>>

(* A paid call outside any item: training, canaries, maintenance.          *)
Auxiliary(w) ==
    /\ inRun[w] # None /\ MayGo(w) /\ attempted < Limit
    /\ attempted' = attempted + 1
    /\ others' = others + 1
    /\ UNCHANGED <<paused, run, running, pid, completed, failed, stop, rows, done, process,
                   tries, pausedSince>>

------------------------------------------------------------------------------
(* One item of a run.                                                      *)

(* _admit asks check_dispatch first, in a transaction of its own.          *)
Ask(w, i) ==
    /\ inRun[w] # None /\ step[i] = "out" /\ ~done[i]
    /\ MayGo(w) /\ Admittable(i)
    /\ by' = [by EXCEPT ![i] = w] /\ At(i, "asked")
    /\ UNCHANGED <<state, rows, done, inRun, history>>

Admit(i) ==
    /\ step[i] = "asked"
    /\ IF run = inRun[by[i]] /\ Admittable(i)
       THEN /\ inflight' = [inflight EXCEPT ![i] = TRUE]
            /\ dispatched' = [dispatched EXCEPT ![i] = FALSE]
            /\ rowRun' = [rowRun EXCEPT ![i] = run]
            /\ attempted' = attempted + 1
            /\ At(i, "in") /\ UNCHANGED by
       ELSE Leave(i) /\ UNCHANGED <<inflight, dispatched, rowRun, attempted>>
    /\ UNCHANGED <<paused, run, running, pid, completed, failed, stop, failures, waiting, done,
                   inRun, history>>

(* check_dispatch, before the reservation of a paid call of the item.      *)
Check(i) ==
    /\ step[i] = "in" /\ MayGo(by[i])
    /\ At(i, "checked")
    /\ UNCHANGED <<state, rows, done, inRun, by, history>>

(* Mutant: the dispatch trusts the check made before the reservation.      *)
DispatchUnchecked(i) ==
    /\ step[i] = "checked"
    /\ dispatched' = [j \in Items |-> dispatched[j] \/ j \in Own(i)]
    /\ tries' = IF dispatched[i] THEN tries ELSE [tries EXCEPT ![i] = @ + 1]
    /\ At(i, "sent")
    /\ UNCHANGED <<state, failures, waiting, inflight, rowRun, done, inRun, by, others, pausedSince>>

(* record_dispatch, right before the request leaves.                       *)
Dispatch(i) ==
    /\ step[i] = "checked" /\ MayGo(by[i])
    /\ dispatched' = [j \in Items |-> dispatched[j] \/ j \in Own(i)]
    /\ tries' = IF dispatched[i] THEN tries ELSE [tries EXCEPT ![i] = @ + 1]
    /\ At(i, "sent")
    /\ UNCHANGED <<state, failures, waiting, inflight, rowRun, done, inRun, by, others, pausedSince>>

AnotherCall(i) ==
    /\ step[i] = "sent" /\ At(i, "in")
    /\ UNCHANGED <<state, rows, done, inRun, by, history>>

(* _finish with a failure.                                                 *)
FinishFailed(i) ==
    /\ CountFailure(Own(i)) /\ Close(Own(i))
    /\ failed' = failed + 1
    /\ Leave(i)
    /\ UNCHANGED <<paused, run, running, pid, attempted, completed, dispatched, rowRun, done,
                   inRun, tries, pausedSince>>

(* Mutant: a refused attempt is shown as a failed one.                     *)
FinishRefusedShown(i) ==
    /\ Close(Own(i))
    /\ failed' = failed + 1
    /\ others' = others + 1
    /\ Leave(i)
    /\ UNCHANGED <<paused, run, running, pid, attempted, completed, failures, waiting,
                   dispatched, rowRun, done, inRun, pausedSince>>

(* _finish with a refusal: an attempt it interrupted before anything was   *)
(* sent does not count.                                                    *)
FinishRefused(i) ==
    /\ Close(Own(i))
    /\ others' = others + 1
    /\ Leave(i)
    /\ UNCHANGED <<paused, run, running, pid, attempted, completed, failed, failures, waiting,
                   dispatched, rowRun, done, inRun, pausedSince>>

(* Mutant: whatever was sent, a refusal does not count.                    *)
RefuseFree(i) ==
    /\ step[i] \in {"in", "checked", "sent"}
    /\ \/ step[i] # "sent" /\ ~MayGo(by[i])
       \/ step[i] # "in" /\ "refuse" \in Disturbances
    /\ Stop(inRun[by[i]], "budget")
    /\ FinishRefused(i) /\ UNCHANGED tries

(* A BudgetError ends the item and stops the run: the check or the         *)
(* dispatch record finds the run stopped, the budget refuses the           *)
(* reservation, or the answer's usage cannot be verified.                  *)
Refuse(i) ==
    /\ step[i] \in {"in", "checked", "sent"}
    /\ \/ step[i] # "sent" /\ ~MayGo(by[i])
       \/ step[i] # "in" /\ "refuse" \in Disturbances
    /\ Stop(inRun[by[i]], "budget")
    /\ IF dispatched[i] THEN FinishFailed(i) /\ UNCHANGED others
       ELSE FinishRefused(i) /\ UNCHANGED tries

(* CompanyFenced: a company join froze the memory under the item.          *)
Fence(i) ==
    /\ "fence" \in Disturbances /\ i \in Memory
    /\ step[i] \in {"in", "checked", "sent"}
    /\ Stop(inRun[by[i]], "fenced")
    /\ FinishRefused(i)
    /\ tries' = IF dispatched[i] THEN [tries EXCEPT ![i] = @ - 1] ELSE tries

Fail(i) ==
    /\ step[i] \in {"in", "checked", "sent"}
    /\ FinishFailed(i)
    /\ UNCHANGED <<stop, others>>

(* A task's decision waits for the write of the task it decided.           *)
Decide(i) ==
    /\ i \in Tasks /\ step[i] \in {"in", "sent"}
    /\ At(i, "decided")
    /\ UNCHANGED <<state, rows, done, inRun, by, history>>

(* The write failed: the item stays in flight until the run ends.          *)
LoseDecision(i) ==
    /\ step[i] = "decided" /\ Leave(i)
    /\ UNCHANGED <<state, rows, done, inRun, history>>

(* The source's own checkpoint, in the store of the source.                *)
Mark(i) ==
    /\ step[i] \in (IF i \in Tasks THEN {"decided"} ELSE {"in", "sent"})
    /\ done' = [done EXCEPT ![i] = TRUE]
    /\ At(i, "marked")
    /\ UNCHANGED <<state, rows, inRun, by, history>>

(* _finish with a result, task_checkpoint after the write.                 *)
Complete(i) ==
    /\ step[i] = "marked"
    /\ LET written == {j \in Own(i) : j \in Memory \/ inflight[j]} IN
       /\ Forgive(written) /\ Close(written)
       /\ completed' = IF i \in Memory \/ written # {} THEN completed + 1 ELSE completed
    /\ tries' = [tries EXCEPT ![i] = 0]
    /\ Leave(i)
    /\ UNCHANGED <<paused, run, running, pid, attempted, failed, stop, dispatched, rowRun, done,
                   inRun, others, pausedSince>>

------------------------------------------------------------------------------
(* From outside.                                                           *)

Pause ==
    /\ "pause" \in Disturbances
    /\ paused' = TRUE /\ stop' = "paused"
    /\ pausedSince' = TRUE
    /\ UNCHANGED <<run, running, pid, attempted, completed, failed, rows, done, process, tries, others>>

(* Mutant: the history of an item in flight is reset.                      *)
ResetInFlight(i) ==
    /\ "reset" \in Disturbances
    /\ failures' = [failures EXCEPT ![i] = 0]
    /\ waiting' = [waiting EXCEPT ![i] = FALSE]
    /\ inflight' = [inflight EXCEPT ![i] = FALSE]
    /\ dispatched' = [dispatched EXCEPT ![i] = FALSE]
    /\ rowRun' = [rowRun EXCEPT ![i] = None]
    /\ tries' = [tries EXCEPT ![i] = 0]
    /\ UNCHANGED <<state, done, process, others, pausedSince>>

Reset(i) ==
    /\ "reset" \in Disturbances /\ ~inflight[i]
    /\ failures' = [failures EXCEPT ![i] = 0]
    /\ waiting' = [waiting EXCEPT ![i] = FALSE]
    /\ dispatched' = [dispatched EXCEPT ![i] = FALSE]
    /\ rowRun' = [rowRun EXCEPT ![i] = None]
    /\ tries' = [tries EXCEPT ![i] = 0]
    /\ UNCHANGED <<state, inflight, done, process, others, pausedSince>>

(* time.time() passes retry_at.                                            *)
BackoffOver(i) ==
    /\ waiting[i] /\ waiting' = [waiting EXCEPT ![i] = FALSE]
    /\ UNCHANGED <<state, failures, inflight, dispatched, rowRun, done, process, history>>

(* A process dies; its pid names nobody from then on.                      *)
Crash(w) ==
    /\ "crash" \in Disturbances /\ inRun[w] # None
    /\ pid' = IF pid = w THEN None ELSE pid
    /\ inRun' = [inRun EXCEPT ![w] = None]
    /\ step' = [i \in Items |-> IF by[i] = w THEN "out" ELSE step[i]]
    /\ by' = [i \in Items |-> IF by[i] = w THEN None ELSE by[i]]
    /\ UNCHANGED <<paused, run, running, attempted, completed, failed, stop, rows, done, history>>

------------------------------------------------------------------------------
StartAny == \E w \in Workers, r \in RunIds, explicit \in BOOLEAN : Start(w, r, explicit)

Progress(i) ==
    \/ (\E w \in Workers : Ask(w, i)) \/ Admit(i) \/ Check(i) \/ Dispatch(i)
    \/ Mark(i) \/ Decide(i) \/ Complete(i)

Next ==
    \/ StartAny
    \/ \E w \in Workers :
          \/ Auxiliary(w) \/ Crash(w) \/ End(w)
          \/ \E reason \in {"paused", "fenced", "interrupted"} : Interrupt(w, reason)
    \/ \E i \in Items :
          \/ Progress(i) \/ AnotherCall(i) \/ Refuse(i) \/ Fence(i) \/ Fail(i)
          \/ LoseDecision(i) \/ Reset(i) \/ BackoffOver(i)
    \/ Pause

Spec == Init /\ [][Next]_vars

------------------------------------------------------------------------------
(* What must hold.                                                         *)

(* The type of every variable; an item's coroutine runs in a worker, and a *)
(* run never takes more than its allowance.                                *)
TypeOK ==
    /\ paused \in BOOLEAN /\ running \in BOOLEAN /\ pausedSince \in BOOLEAN
    /\ run \in RunIds \cup {None} /\ pid \in Workers \cup {None}
    /\ attempted \in 0..Limit /\ completed \in Nat /\ failed \in Nat /\ others \in Nat
    /\ stop \in Reasons
    /\ failures \in [Items -> 0..MaxFailures]
    /\ waiting \in [Items -> BOOLEAN] /\ inflight \in [Items -> BOOLEAN]
    /\ dispatched \in [Items -> BOOLEAN] /\ done \in [Items -> BOOLEAN]
    /\ rowRun \in [Items -> RunIds \cup {None}]
    /\ inRun \in [Workers -> RunIds \cup {None}]
    /\ by \in [Items -> Workers \cup {None}]
    /\ step \in [Items -> {"out", "asked", "in", "checked", "sent", "decided", "marked"}]
    /\ tries \in [Items -> 0..MaxFailures]
    /\ \A i \in Items : step[i] = "out" <=> by[i] = None

(* One run at a time across the processes, through crashes and takeovers:  *)
(* a worker inside a run holds the ledger's one run.                       *)
OneRun ==
    \A w \in Workers :
        inRun[w] # None => run = inRun[w] /\ running /\ pid = w

(* An item is at work in one place: its row is in flight and belongs to    *)
(* the run of the worker that works on it.                                 *)
WorkIsRecorded ==
    \A i \in Items :
        step[i] \notin {"out", "asked"} => inflight[i] /\ rowRun[i] = inRun[by[i]]

(* Restarting, resuming or a crash never makes a paid attempt free: every  *)
(* one since the last success or reset is a counted failure, or is still   *)
(* in flight.  As an item is admitted only below MaxFailures, it is paid   *)
(* for at most that often.                                                 *)
EveryTryCounts ==
    \A i \in Items :
        tries[i] <= failures[i] + (IF inflight[i] /\ dispatched[i] THEN 1 ELSE 0)

(* The counters the panel shows add up: what a run attempted is completed, *)
(* failed, refused, spent outside items or still in flight.                *)
CountsAddUp ==
    attempted = completed + failed + others
                + Cardinality({i \in Items : inflight[i] /\ rowRun[i] = run})

(* After the owner paused, nothing more of the run is sent.                *)
PausedSendsNothing ==
    [][pausedSince => \A i \in Items : ~(step[i] = "checked" /\ step'[i] = "sent")]_vars
==============================================================================
