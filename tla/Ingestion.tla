------------------------------ MODULE Ingestion ------------------------------
(***************************************************************************)
(* One ingested source through the harness, from extraction to checkpoint  *)
(* (engine/zylch/memory/mnemonic/ingestion.py, manifest.py), and the       *)
(* owner's resolution of what it parked (reviews.py).                      *)
(*                                                                         *)
(* The source is a parent row of the company's operation journal; each     *)
(* entity its extraction yields is a child row, decided by submit() on its *)
(* own.  Workers are runs of ingest() in different profiles of one account *)
(* (the event ids derive from the account, the company and the source), so *)
(* each has a checkpoint of its own.  Inside one child's submit() only the *)
(* two ends are seen here: what it reads when it opens the row, and the    *)
(* verdict it records or fails to record; MemoryOperations is what happens *)
(* between them.                                                           *)
(***************************************************************************)
EXTENDS Naturals

CONSTANTS
    Workers,        \* runs of ingest() for this source
    MaxEntities,    \* bound: entities one extraction yields (MAX_EXTRACTED_ENTITIES)
    Disturbances,   \* bound: what an instance lets happen from outside
    NoWorker

ASSUME IngestionAssumption ==
    /\ MaxEntities \in Nat \ {0}
    /\ NoWorker \notin Workers
    /\ Disturbances \subseteq
          {"failure", "stop", "crash", "fence", "dismiss parent", "dismiss child", "retry"}

Kids == 1..MaxEntities

VARIABLES
    parent,     \* MemoryOperation.state of the source
    lease,      \* the parent row's lease
    manifest,   \* how many entities the recorded manifest holds, 0 while there is none
    child,      \* MemoryOperation.state of each child row
    fenced,     \* a join fence holds the company
    processed,  \* the profile's checkpoint of the source, per worker
    waived,     \* history: the source was settled over children still open
    pc, found, turn, results, revoked, outcome  \* per worker

journalVars == <<parent, lease, manifest, child, waived>>
workerVars  == <<pc, found, turn, results, revoked, outcome>>
vars == <<journalVars, workerVars, fenced, processed>>

Settled   == {"committed", "skipped"}
Terminal  == Settled \cup {"review"}
Unsettled == {"review", "failed", "pending"}
Verdicts  == Terminal \cup {"failed"}
States    == {"none", "pending", "failed"} \cup Terminal
Steps     == {"idle", "claim", "reread", "manifest", "extract", "record", "settle",
              "children", "deciding", "rereading", "checkpoint"}

Rows == {k \in Kids : child[k] # "none"}
OpenRows == {k \in Rows : child[k] \notin Settled}

Init ==
    /\ parent = "none" /\ lease = NoWorker /\ manifest = 0
    /\ child = [k \in Kids |-> "none"]
    /\ fenced = FALSE /\ waived = FALSE
    /\ processed = [w \in Workers |-> FALSE]
    /\ pc = [w \in Workers |-> "idle"]
    /\ found = [w \in Workers |-> 0]
    /\ turn = [w \in Workers |-> 1]
    /\ results = [w \in Workers |-> [k \in Kids |-> "none"]]
    /\ revoked = [w \in Workers |-> FALSE]
    /\ outcome = [w \in Workers |-> "none"]

Goto(w, step) == pc' = [pc EXCEPT ![w] = step]
Keep == UNCHANGED <<found, turn, results, revoked, outcome>>

(* ingest() answers a retryable failure, or raises the refusal it met: the *)
(* worker leaves the source unprocessed for a later run.                   *)
GiveUp(w) ==
    /\ Goto(w, "idle")
    /\ found' = [found EXCEPT ![w] = 0]
    /\ turn' = [turn EXCEPT ![w] = 1]
    /\ results' = [results EXCEPT ![w] = [k \in Kids |-> "none"]]
    /\ revoked' = [revoked EXCEPT ![w] = FALSE]
    /\ outcome' = [outcome EXCEPT ![w] = "none"]

(* It answers an outcome, and the worker looks whether that advances the   *)
(* checkpoint.                                                             *)
Answers(w, o) ==
    /\ Goto(w, "checkpoint")
    /\ outcome' = [outcome EXCEPT ![w] = o]
    /\ UNCHANGED <<found, turn, results, revoked>>

------------------------------------------------------------------------------
(* ingest(): the parent row.                                               *)

Open(w) ==
    /\ pc[w] = "idle" /\ ~processed[w]
    /\ \/ /\ parent = "none" /\ ~fenced
          /\ parent' = "pending"
          /\ Goto(w, "claim") /\ Keep
       \/ /\ parent \in {"pending", "failed"} /\ ~fenced
          /\ Goto(w, "claim") /\ Keep
          /\ UNCHANGED parent
       \/ parent \in Terminal /\ Answers(w, parent) /\ UNCHANGED parent
    /\ UNCHANGED <<lease, manifest, child, waived, fenced, processed>>

Claim(w) ==
    /\ pc[w] = "claim"
    /\ \/ parent \in Terminal /\ Goto(w, "reread") /\ Keep /\ UNCHANGED lease
       \/ parent \notin Terminal /\ fenced /\ GiveUp(w) /\ UNCHANGED lease
       \/ /\ parent \notin Terminal /\ ~fenced
          /\ lease' = w
          /\ Goto(w, "manifest") /\ Keep
    /\ UNCHANGED <<parent, manifest, child, waived, fenced, processed>>

(* Settled before it was claimed: answered from the row, as a review when  *)
(* the owner reopened it in between.                                       *)
Reread(w) ==
    /\ pc[w] = "reread"
    /\ \/ parent \in Terminal /\ Answers(w, parent)
       \/ parent \notin Terminal /\ fenced /\ GiveUp(w)
       \/ parent \notin Terminal /\ ~fenced /\ Answers(w, "review")
    /\ UNCHANGED <<journalVars, fenced, processed>>

ReadManifest(w) ==
    /\ pc[w] = "manifest"
    /\ found' = [found EXCEPT ![w] = manifest]
    /\ Goto(w, IF manifest = 0 THEN "extract" ELSE "children")
    /\ UNCHANGED <<journalVars, turn, results, revoked, outcome, fenced, processed>>

(* The paid extraction, which may yield other entities each time it runs.  *)
(* An empty or oversized one, and a refusal before the grant, settle the   *)
(* parent.                                                                 *)
Extract(w) ==
    /\ pc[w] = "extract"
    /\ \/ /\ \E n \in Kids : found' = [found EXCEPT ![w] = n]
          /\ Goto(w, "record")
          /\ UNCHANGED <<turn, results, revoked, outcome>>
       \/ /\ \E o \in {"skipped", "review"} : outcome' = [outcome EXCEPT ![w] = o]
          /\ Goto(w, "settle")
          /\ UNCHANGED <<found, turn, results, revoked>>
    /\ UNCHANGED <<journalVars, fenced, processed>>

(* Any other failure leaves the parent for a later run.                    *)
ExtractionFails(w) ==
    /\ "failure" \in Disturbances
    /\ pc[w] = "extract" /\ GiveUp(w)
    /\ UNCHANGED <<journalVars, fenced, processed>>

(* manifest.record_manifest: the manifest and its children, in one         *)
(* transaction that must hold the parent.  A child that exists is kept: an *)
(* entity's text is no part of the digest its id is checked against.       *)
RecordManifest(w) ==
    LET owns == lease = w /\ parent \notin Terminal
        mine == 1..found[w] IN
    /\ pc[w] = "record"
    /\ \/ /\ ~owns \/ fenced
          /\ GiveUp(w)
          /\ UNCHANGED journalVars
       \/ /\ owns /\ ~fenced
          /\ manifest' = found[w]
          /\ child' = [k \in Kids |->
                         IF k \in mine /\ child[k] = "none" THEN "pending" ELSE child[k]]
          /\ Goto(w, "children") /\ Keep
          /\ UNCHANGED <<parent, lease, waived>>
    /\ UNCHANGED <<fenced, processed>>

------------------------------------------------------------------------------
(* The children, one submit() after the other.                             *)

Told(w, verdict) ==
    /\ results' = [results EXCEPT ![w][turn[w]] = verdict]
    /\ turn' = [turn EXCEPT ![w] = @ + 1]
    /\ Goto(w, "children")
    /\ UNCHANGED <<found, revoked, outcome>>


(* Between two children a stop or a revoked turn ends the run; a fenced    *)
(* company is refused when the child's row is opened.                      *)
SubmitChild(w) ==
    /\ pc[w] = "children" /\ turn[w] <= found[w]
    /\ \/ revoked[w] /\ GiveUp(w)
       \/ ~revoked[w] /\ child[turn[w]] \in Terminal /\ Told(w, child[turn[w]])
       \/ ~revoked[w] /\ child[turn[w]] \notin Terminal /\ fenced /\ GiveUp(w)
       \/ /\ ~revoked[w] /\ child[turn[w]] \notin Terminal /\ ~fenced
          /\ Goto(w, "deciding")
          /\ Keep
    /\ UNCHANGED <<journalVars, fenced, processed>>

(* submit() ends.  It records a verdict on an open row, which a turn       *)
(* revoked meanwhile does not commit; or it finds the row settled by       *)
(* another attempt or by the owner, and answers what it finds, or a        *)
(* retryable failure when its own verdict was refused; or it is refused.   *)
DecideChild(w) ==
    LET k == turn[w] IN
    /\ pc[w] = "deciding"
    /\ \/ /\ child[k] \notin Terminal /\ ~fenced
          /\ \E v \in Terminal :
                /\ revoked[w] => v # "committed"
                /\ child' = [child EXCEPT ![k] = v]
                /\ Told(w, v)
       \/ /\ child[k] \in Terminal
          /\ \/ \E v \in {child[k], "failed"} : Told(w, v)
             \/ Goto(w, "rereading") /\ Keep
          /\ UNCHANGED child
       \/ fenced /\ GiveUp(w) /\ UNCHANGED child
    /\ UNCHANGED <<parent, lease, manifest, waived, fenced, processed>>

(* Or it fails, and records that or not.  A pause or a budget refusal is   *)
(* recorded and raised.                                                    *)
SubmissionFails(w) ==
    LET k == turn[w] IN
    /\ "failure" \in Disturbances
    /\ pc[w] = "deciding"
    /\ \/ /\ child[k] \notin Terminal /\ ~fenced
          /\ child' = [child EXCEPT ![k] = "failed"]
          /\ Told(w, "failed") \/ GiveUp(w)
       \/ Told(w, "failed") /\ UNCHANGED child
    /\ UNCHANGED <<parent, lease, manifest, waived, fenced, processed>>

(* The row was settled before submit() claimed it, and is read again: the  *)
(* owner may have reopened it since, and then the answer is a review that  *)
(* no row records.                                                         *)
RereadChild(w) ==
    LET k == turn[w] IN
    /\ pc[w] = "rereading"
    /\ \/ child[k] \in Terminal /\ Told(w, child[k])
       \/ child[k] \notin Terminal /\ fenced /\ GiveUp(w)
       \/ child[k] \notin Terminal /\ ~fenced /\ Told(w, "review")
    /\ UNCHANGED <<journalVars, fenced, processed>>

(* Mutants: a failed child does not keep its parent open; a parent commits *)
(* as soon as one child did.                                               *)
SettlementIgnoringFailures(verdicts) ==
    IF "review" \in verdicts THEN "review"
    ELSE IF "committed" \in verdicts THEN "committed" ELSE "skipped"
SettlementByCommit(verdicts) ==
    IF "committed" \in verdicts THEN "committed"
    ELSE IF "failed" \in verdicts THEN "failed"
    ELSE IF "review" \in verdicts THEN "review" ELSE "skipped"

(* ingestion.parent_settlement: how a parent settles from its children.    *)
Settlement(verdicts) ==
    IF "failed" \in verdicts THEN "failed"
    ELSE IF "review" \in verdicts THEN "review"
    ELSE IF "committed" \in verdicts THEN "committed" ELSE "skipped"

Verdict(w) == Settlement({results[w][k] : k \in 1..found[w]})

(* Mutant: the aggregate of a failed child is recorded like any other.     *)
AggregateAll(w) ==
    /\ pc[w] = "children" /\ turn[w] > found[w]
    /\ outcome' = [outcome EXCEPT ![w] = Verdict(w)]
    /\ Goto(w, "settle")
    /\ UNCHANGED <<found, turn, results, revoked, journalVars, fenced, processed>>

Aggregate(w) ==
    /\ pc[w] = "children" /\ turn[w] > found[w]
    /\ \/ Verdict(w) = "failed" /\ GiveUp(w)
       \/ /\ Verdict(w) # "failed"
          /\ outcome' = [outcome EXCEPT ![w] = Verdict(w)]
          /\ Goto(w, "settle")
          /\ UNCHANGED <<found, turn, results, revoked>>
    /\ UNCHANGED <<journalVars, fenced, processed>>

(* Mutant: record_result writes over a settled parent.                     *)
SettleParentOver(w) ==
    /\ pc[w] = "settle" /\ ~fenced
    /\ parent' = outcome[w]
    /\ manifest' = IF outcome[w] = "review" THEN manifest ELSE 0
    /\ lease' = NoWorker
    /\ Answers(w, outcome[w])
    /\ UNCHANGED <<child, waived, fenced, processed>>

(* _settle_parent: record_result, which asks for no lease.  A review keeps *)
(* the manifest, anything else prunes it; also a manifest recorded since,  *)
(* when what settles is an extraction that found nothing.                  *)
SettleParent(w) ==
    /\ pc[w] = "settle"
    /\ \/ /\ parent \in Terminal \/ fenced
          /\ GiveUp(w)
          /\ UNCHANGED <<parent, manifest, lease, waived>>
       \/ /\ parent \notin Terminal /\ ~fenced
          /\ parent' = outcome[w]
          /\ manifest' = IF outcome[w] = "review" THEN manifest ELSE 0
          /\ lease' = NoWorker
          /\ waived' = (outcome[w] = "skipped" /\ found[w] = 0 /\ OpenRows # {})
          /\ Answers(w, outcome[w])
    /\ UNCHANGED <<child, fenced, processed>>

(* The worker marks its source in the profile's own store.                 *)
Checkpoint(w) ==
    /\ pc[w] = "checkpoint"
    /\ processed' = [processed EXCEPT ![w] = outcome[w] \in Settled]
    /\ GiveUp(w)
    /\ UNCHANGED <<journalVars, fenced>>

------------------------------------------------------------------------------
(* Stops, crashes, the fence.                                              *)

Revoke(w) ==
    /\ "stop" \in Disturbances
    /\ pc[w] \in {"children", "deciding"} /\ ~revoked[w]
    /\ revoked' = [revoked EXCEPT ![w] = TRUE]
    /\ UNCHANGED <<journalVars, pc, found, turn, results, outcome, fenced, processed>>

Crash(w) ==
    /\ "crash" \in Disturbances
    /\ pc[w] # "idle"
    /\ GiveUp(w)
    /\ UNCHANGED <<journalVars, fenced, processed>>

PlaceFence ==
    /\ "fence" \in Disturbances /\ ~fenced
    /\ fenced' = TRUE
    /\ UNCHANGED <<journalVars, workerVars, processed>>

ReleaseFence ==
    /\ fenced
    /\ fenced' = FALSE
    /\ UNCHANGED <<journalVars, workerVars, processed>>

------------------------------------------------------------------------------
(* zylch memory-reviews: each resolution is one transaction.               *)

DismissParent ==
    /\ "dismiss parent" \in Disturbances
    /\ parent \in Unsettled /\ ~fenced
    /\ parent' = "skipped"
    /\ manifest' = 0
    /\ lease' = NoWorker
    /\ waived' = (OpenRows # {})
    /\ UNCHANGED <<child, workerVars, fenced, processed>>

(* A dismissed child settles its parent once no child is unsettled.        *)
DismissChild(k) ==
    LET after == [child EXCEPT ![k] = "skipped"]
        verdicts == {after[j] : j \in Rows} IN
    /\ "dismiss child" \in Disturbances
    /\ child[k] \in Unsettled /\ ~fenced
    /\ child' = after
    /\ IF parent \notin Settled /\ verdicts \subseteq Settled
       THEN parent' = Settlement(verdicts) /\ manifest' = 0 /\ lease' = NoWorker
       ELSE UNCHANGED <<parent, manifest, lease>>
    /\ UNCHANGED <<waived, workerVars, fenced, processed>>

(* Mutant: a child is reopened without asking for its parent's manifest.   *)
RetryChildUnasked(k) ==
    /\ "retry" \in Disturbances
    /\ child[k] = "review" /\ ~fenced
    /\ child' = [child EXCEPT ![k] = "failed"]
    /\ parent' = "failed"
    /\ lease' = NoWorker
    /\ UNCHANGED <<manifest, waived, workerVars, fenced, processed>>

(* A reviewed child is reopened together with its parent, while the parent *)
(* keeps its manifest.                                                     *)
RetryChild(k) ==
    /\ "retry" \in Disturbances
    /\ child[k] = "review" /\ manifest # 0 /\ ~fenced
    /\ child' = [child EXCEPT ![k] = "failed"]
    /\ parent' = "failed"
    /\ lease' = NoWorker
    /\ UNCHANGED <<manifest, waived, workerVars, fenced, processed>>

(* A parent reviewed before it had a child is extracted again.             *)
RetryParent ==
    /\ "retry" \in Disturbances
    /\ parent = "review" /\ Rows = {} /\ ~fenced
    /\ parent' = "failed"
    /\ lease' = NoWorker
    /\ UNCHANGED <<manifest, child, waived, workerVars, fenced, processed>>

------------------------------------------------------------------------------
(* What a worker does of its own; it may also fail.                        *)
Step(w) ==
    \/ Open(w) \/ Claim(w) \/ Reread(w) \/ ReadManifest(w) \/ Extract(w)
    \/ RecordManifest(w) \/ SubmitChild(w) \/ DecideChild(w) \/ RereadChild(w)
    \/ Aggregate(w) \/ SettleParent(w) \/ Checkpoint(w)

Disturb(w) == ExtractionFails(w) \/ SubmissionFails(w) \/ Revoke(w) \/ Crash(w)

Owner ==
    \/ DismissParent \/ RetryParent
    \/ \E k \in Kids : DismissChild(k) \/ RetryChild(k)

Next ==
    \/ \E w \in Workers : Step(w) \/ Disturb(w)
    \/ PlaceFence \/ ReleaseFence
    \/ Owner

Spec == Init /\ [][Next]_vars

------------------------------------------------------------------------------
(* What must hold.                                                         *)

(* The type of every variable.                                             *)
TypeOK ==
    /\ parent \in States
    /\ lease \in Workers \cup {NoWorker}
    /\ manifest \in 0..MaxEntities
    /\ child \in [Kids -> States]
    /\ fenced \in BOOLEAN /\ waived \in BOOLEAN
    /\ processed \in [Workers -> BOOLEAN]
    /\ pc \in [Workers -> Steps]
    /\ found \in [Workers -> 0..MaxEntities]
    /\ turn \in [Workers -> 1..(MaxEntities + 1)]
    /\ results \in [Workers -> [Kids -> Verdicts \cup {"none"}]]
    /\ revoked \in [Workers -> BOOLEAN]
    /\ outcome \in [Workers -> Terminal \cup {"none"}]

(* A source is committed only when all it was extracted into is: some      *)
(* child committed, and no child is left in review, failed or pending, so  *)
(* a checkpoint never passes over one.                                     *)
CommittedIsComplete ==
    parent = "committed" =>
        /\ \E k \in Kids : child[k] = "committed"
        /\ \A k \in Rows : child[k] \in Settled

(* Children exist only with the manifest they are resumed from, until the  *)
(* source is settled: a second extraction never meets children of a first. *)
ManifestOfChildren ==
    parent \notin Settled => Rows = 1..manifest

(* The manifest is recorded once: no later extraction replaces it.         *)
ManifestOnce ==
    [][manifest # 0 => manifest' \in {manifest, 0} /\ (manifest' = 0 => parent' \in Settled)]_vars

(* A settled child keeps its verdict, and a settled source keeps its own.  *)
SettledStays ==
    [][/\ parent \in Settled => parent' = parent
       /\ \A k \in Kids : child[k] \in Settled => child'[k] = child[k]]_vars

(* A profile marks the source processed only when every child is settled,  *)
(* with any number of workers, crashes and retries.  Two ways of settling  *)
(* a source over its open children are left to history: the owner's        *)
(* dismissal of it, and a second extraction that found nothing, which is   *)
(* settled without the lease.                                              *)
ProcessedIsComplete ==
    (\E w \in Workers : processed[w]) =>
        parent \in Settled /\ (waived \/ OpenRows = {})
=============================================================================
