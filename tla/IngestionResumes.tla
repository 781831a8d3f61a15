-------------------------- MODULE IngestionResumes --------------------------
(***************************************************************************)
(* Ingestion with a point from which nothing disturbs it any more: until   *)
(* then workers may fail, be stopped and crash, and the company be fenced, *)
(* any number of times.  Whether a run resumes what the last one left is a *)
(* question about what comes after; a crash is also the step of a run that *)
(* gave up, so that the steps alone do not tell.                           *)
(***************************************************************************)
EXTENDS Ingestion, TLC

VARIABLE calm    \* nothing disturbs the workers from here on

CalmInit == Init /\ calm = FALSE

Disturbed == PlaceFence \/ \E w \in Workers : Disturb(w)

CalmNext ==
    \/ /\ (\E w \in Workers : Step(w)) \/ ReleaseFence \/ Owner
       /\ UNCHANGED calm
    \/ ~calm /\ Disturbed /\ UNCHANGED calm
    \/ ~calm /\ calm' = TRUE /\ UNCHANGED vars

(* The worker's schedule runs again while its source is unprocessed.       *)
CalmSpec ==
    /\ CalmInit /\ [][CalmNext]_<<vars, calm>>
    /\ \A w \in Workers : WF_vars(Step(w))

=============================================================================
