--------------------------- MODULE MemoryOperations ---------------------------
(***************************************************************************)
(* The write half of the mnemonic harness: one company store, the          *)
(* operation journal beside its blobs, and the engines that submit events  *)
(* to it (engine/zylch/memory/mnemonic/commit.py, journal.py, agent.py,    *)
(* authorization.py; the compare-and-swap of memory/blob_commits.py; the   *)
(* owner's resolution of reviews.py for rows without a parent).            *)
(*                                                                         *)
(* An attempt is one call of submit() on one thread of one engine process. *)
(* Every step below is one transaction on the company store, or the code   *)
(* between two of them, so attempts interleave exactly where the code      *)
(* gives up the store's write lock.  A crash of an engine ends its         *)
(* attempts and empties its in-process table of allowances.                *)
(***************************************************************************)
EXTENDS Integers, FiniteSets

CONSTANTS
    Ordinary,             \* events of chat, solve and ingestion: CREATE or UPDATE
    Pairs,                \* events of consolidation: MERGE only
    Attempts,             \* threads that call submit()
    Engines,              \* engine processes
    EngineOf,             \* [Attempts -> Engines]
    Blobs,                \* blob identities
    InitialBlobs,         \* the blobs that exist at the start, at version 1
    MaxDecisionAttempts,  \* contracts.MAX_DECISION_ATTEMPTS
    Allowance,            \* contracts.EVENT_DISPATCH_ALLOWANCE
    MaxVersion,           \* bound: external rewrites stop at this version
    Disturbances,         \* bound: what an instance lets happen from outside
    NoAttempt, NoEvent, NoBlob, Owner

Events == Ordinary \cup Pairs

ASSUME ConstantsAssumption ==
    /\ IsFiniteSet(Attempts)
    /\ EngineOf \in [Attempts -> Engines]
    /\ InitialBlobs \subseteq Blobs
    /\ MaxDecisionAttempts \in Nat \ {0}
    /\ Allowance \in Nat \ {0}
    /\ MaxVersion \in Nat
    /\ Disturbances \subseteq {"resubmit", "refusal", "failure", "cancel", "crash",
                         "fence", "dismiss", "retry", "restore", "delete"}
    /\ Ordinary \cap Pairs = {}
    /\ NoAttempt \notin Attempts
    /\ NoEvent \notin Events
    /\ NoBlob \notin Blobs
    /\ Owner \notin Events

VARIABLES
    state,      \* MemoryOperation.state of each event, "none" before its row exists
    lease,      \* MemoryOperation.lease: the attempt that claimed the row last
    allowance,  \* MemoryOperation.allowance, the durable paid calls left
    pairedAt,   \* the versions a pair event was paired at, 0 for a blob it does not name
    fenced,     \* a join fence holds the company (fence.ACTIVE)
    version,    \* blobs.updated_at as a counter, 0 before the blob exists
    live,       \* the blobs that exist
    cache,      \* authorization._ALLOWANCE of each engine
    pc, job, round, calls, seen, draft, cancelled, answer,  \* per attempt
    writes,     \* history: every rewrite or drop of a blob, with the version it was decided on
    paid        \* history: the paid calls of each event since its allowance was last granted

rowVars     == <<state, lease, allowance, pairedAt>>
memoryVars  == <<version, live, writes>>
attemptVars == <<pc, job, round, calls, seen, draft, cancelled, answer>>
vars == <<rowVars, memoryVars, attemptVars, fenced, cache, paid>>

Terminal  == {"committed", "skipped", "review"}
Unsettled == {"review", "failed", "pending"}
States    == {"none", "failed", "pending"} \cup Terminal

(* What an attempt holds between the decision and its end: a proposal to   *)
(* write, or the outcome it is about to record.                            *)
Mutations == {"CREATE", "UPDATE", "MERGE"}
Outcomes  == {"skipped", "review", "failed"}
Draft(action, target, donor) ==
    [action |-> action, target |-> target, donor |-> donor]
Drafts    == [action: Mutations \cup Outcomes,
              target: Blobs \cup {NoBlob}, donor: Blobs \cup {NoBlob}]
Outcome(outcome) == Draft(outcome, NoBlob, NoBlob)
Answer(e, outcome) == [event |-> e, outcome |-> outcome]
NoAnswer == Answer(NoEvent, "none")

Steps == {"idle", "claim", "reread", "gather", "decide", "dispatch", "spend",
          "reply", "record", "commit", "settle", "elsewhere"}

Init ==
    /\ state = [e \in Events |-> "none"]
    /\ lease = [e \in Events |-> NoAttempt]
    /\ allowance = [e \in Events |-> 0]
    /\ pairedAt = [e \in Events |-> [b \in Blobs |-> 0]]
    /\ fenced = FALSE
    /\ version = [b \in Blobs |-> IF b \in InitialBlobs THEN 1 ELSE 0]
    /\ live = InitialBlobs
    /\ cache = [g \in Engines |-> [e \in Events |-> 0]]
    /\ pc = [a \in Attempts |-> "idle"]
    /\ job = [a \in Attempts |-> NoEvent]
    /\ round = [a \in Attempts |-> 0]
    /\ calls = [a \in Attempts |-> 0]
    /\ seen = [a \in Attempts |-> [b \in Blobs |-> 0]]
    /\ draft = [a \in Attempts |-> Outcome("failed")]
    /\ cancelled = [a \in Attempts |-> FALSE]
    /\ answer = [a \in Attempts |-> NoAnswer]
    /\ writes = {}
    /\ paid = [e \in Events |-> 0]

------------------------------------------------------------------------------
(* Helpers: where an attempt goes next.                                    *)

Goto(a, step) == pc' = [pc EXCEPT ![a] = step]

(* submit() returns: the attempt forgets everything but its answer.        *)
Return(a, outcome) ==
    /\ Goto(a, "idle")
    /\ answer' = [answer EXCEPT ![a] = Answer(job[a], outcome)]
    /\ job' = [job EXCEPT ![a] = NoEvent]
    /\ round' = [round EXCEPT ![a] = 0]
    /\ calls' = [calls EXCEPT ![a] = 0]
    /\ seen' = [seen EXCEPT ![a] = [b \in Blobs |-> 0]]
    /\ draft' = [draft EXCEPT ![a] = Outcome("failed")]
    /\ cancelled' = [cancelled EXCEPT ![a] = FALSE]

KeepScratch == UNCHANGED <<job, round, calls, seen, cancelled, answer>>

(* The attempt will record this outcome: after record_attempt when the     *)
(* decision itself ended in it, directly when the commit turned it down.   *)
Conclude(a, step, outcome) ==
    /\ Goto(a, step)
    /\ draft' = [draft EXCEPT ![a] = Outcome(outcome)]
    /\ KeepScratch

IsTerminal(e) == state[e] \in Terminal

(* The versions at which some pair of live blobs can be paired now.        *)
Pairings ==
    {[b \in Blobs |-> IF b \in {p[1], p[2]} THEN version[b] ELSE 0] :
        p \in {q \in live \X live : q[1] # q[2]}}

------------------------------------------------------------------------------
(* journal.open_operation: the first transaction of submit().              *)

CreateRow(e) ==
    /\ state' = [state EXCEPT ![e] = "pending"]
    /\ allowance' = [allowance EXCEPT ![e] = Allowance]
    /\ IF e \in Pairs
       THEN \E at \in Pairings : pairedAt' = [pairedAt EXCEPT ![e] = at]
       ELSE UNCHANGED pairedAt
    /\ UNCHANGED lease

Submit(a, e) ==
    /\ pc[a] = "idle"
    /\ answer[a] = NoAnswer \/ "resubmit" \in Disturbances
    /\ (state[e] = "none" /\ e \in Pairs) => Pairings # {}
    /\ \/ /\ state[e] = "none" /\ ~fenced
          /\ CreateRow(e)
          /\ Goto(a, "claim")
          /\ job' = [job EXCEPT ![a] = e]
          /\ answer' = [answer EXCEPT ![a] = NoAnswer]
       \/ /\ state[e] \in {"pending", "failed"} /\ ~fenced
          /\ Goto(a, "claim")
          /\ job' = [job EXCEPT ![a] = e]
          /\ answer' = [answer EXCEPT ![a] = NoAnswer]
          /\ UNCHANGED rowVars
       \/ /\ ~IsTerminal(e) /\ fenced
          /\ answer' = [answer EXCEPT ![a] = Answer(e, "failed")]
          /\ UNCHANGED <<rowVars, pc, job>>
       \/ /\ IsTerminal(e)
          /\ answer' = [answer EXCEPT ![a] = Answer(e, state[e])]
          /\ UNCHANGED <<rowVars, pc, job>>
    /\ UNCHANGED <<memoryVars, fenced, cache, paid,
                   round, calls, seen, draft, cancelled>>

(* An id that exists with other input, another owner or another company    *)
(* (EventIdReused), or private finance evidence: a review that touches no  *)
(* row.                                                                    *)
RefuseInput(a, e) ==
    /\ "refusal" \in Disturbances
    /\ pc[a] = "idle"
    /\ answer[a] = NoAnswer \/ "resubmit" \in Disturbances
    /\ answer' = [answer EXCEPT ![a] = Answer(e, "refused")]
    /\ UNCHANGED <<rowVars, memoryVars, fenced, cache, paid,
                   pc, job, round, calls, seen, draft, cancelled>>

(* Mutant: the claim does not look at the join fence.                      *)
ClaimUnfenced(a) ==
    LET e == job[a] IN
    /\ pc[a] = "claim" /\ ~IsTerminal(e)
    /\ lease' = [lease EXCEPT ![e] = a]
    /\ round' = [round EXCEPT ![a] = 1]
    /\ Goto(a, "gather")
    /\ UNCHANGED <<job, calls, seen, draft, cancelled, answer,
                   state, allowance, pairedAt, memoryVars, fenced, cache, paid>>

(* journal.claim: a fresh lease, whoever held the row before.              *)
Claim(a) ==
    LET e == job[a] IN
    /\ pc[a] = "claim"
    /\ \/ /\ IsTerminal(e)
          /\ Goto(a, "reread")
          /\ UNCHANGED <<lease, job, round, calls, seen, draft, cancelled, answer>>
       \/ /\ ~IsTerminal(e) /\ fenced
          /\ Return(a, "failed")
          /\ UNCHANGED lease
       \/ /\ ~IsTerminal(e) /\ ~fenced
          /\ lease' = [lease EXCEPT ![e] = a]
          /\ round' = [round EXCEPT ![a] = 1]
          /\ Goto(a, "gather")
          /\ UNCHANGED <<job, calls, seen, draft, cancelled, answer>>
    /\ UNCHANGED <<state, allowance, pairedAt, memoryVars, fenced, cache, paid>>

(* Claimed too late: the recorded answer is read again.  The owner may     *)
(* have reopened the row in between, and then the answer is a review.      *)
Reread(a) ==
    LET e == job[a] IN
    /\ pc[a] = "reread"
    /\ \/ IsTerminal(e) /\ Return(a, state[e])
       \/ ~IsTerminal(e) /\ fenced /\ Return(a, "failed")
       \/ ~IsTerminal(e) /\ ~fenced /\ Return(a, "refused")
    /\ UNCHANGED <<rowVars, memoryVars, fenced, cache, paid>>

------------------------------------------------------------------------------
(* One decide-and-commit round.                                            *)

(* candidates_for and the pinned pair's check: every live blob retrieval   *)
(* chose to show, at its version now.                                      *)
Shown(blobs) == [b \in Blobs |-> IF b \in blobs THEN version[b] ELSE 0]
PairMembers(e) == {b \in Blobs : pairedAt[e][b] # 0}
PairIntact(e) == \A b \in PairMembers(e) : b \in live /\ version[b] = pairedAt[e][b]

Gather(a) ==
    LET e == job[a] IN
    /\ pc[a] = "gather"
    /\ \/ /\ e \in Pairs /\ ~PairIntact(e)
          /\ Conclude(a, "settle", "skipped")
       \/ /\ e \in Pairs /\ PairIntact(e)
          /\ seen' = [seen EXCEPT ![a] = Shown(PairMembers(e))]
          /\ Goto(a, "decide")
          /\ UNCHANGED <<job, round, calls, draft, cancelled, answer>>
       \/ /\ e \in Ordinary
          /\ \E blobs \in SUBSET live : seen' = [seen EXCEPT ![a] = Shown(blobs)]
          /\ Goto(a, "decide")
          /\ UNCHANGED <<job, round, calls, draft, cancelled, answer>>
    /\ UNCHANGED <<rowVars, memoryVars, fenced, cache, paid>>

(* decide() opens: the request is authorized, and the grant refreshes the  *)
(* engine's table from the durable allowance.                              *)
IssueGrant(a) ==
    LET e == job[a] IN
    /\ pc[a] = "decide"
    /\ \/ /\ cancelled[a]
          /\ Conclude(a, "record", "review")
          /\ UNCHANGED cache
       \/ /\ ~cancelled[a]
          /\ cache' = [cache EXCEPT ![EngineOf[a]][e] = allowance[e]]
          /\ calls' = [calls EXCEPT ![a] = 0]
          /\ Goto(a, "dispatch")
          /\ UNCHANGED <<job, round, seen, draft, cancelled, answer>>
    /\ UNCHANGED <<rowVars, memoryVars, fenced, paid>>

(* Admission of one paid call, up to note_dispatch's look at the table.    *)
(* A cancelled turn is a failure at the loop's own test and a review at    *)
(* the client's, so it may end as either; the daily budget and             *)
(* preparation may refuse any call.                                        *)
Admit(a) ==
    LET left == cache[EngineOf[a]][job[a]] IN
    /\ pc[a] = "dispatch"
    /\ \/ cancelled[a] /\ \E o \in {"failed", "review"} : Conclude(a, "record", o)
       \/ ~cancelled[a] /\ left <= 0 /\ Conclude(a, "record", "review")
       \/ ~cancelled[a] /\ left > 0 /\ Conclude(a, "record", "failed")
       \/ /\ ~cancelled[a] /\ left > 0
          /\ Goto(a, "spend")
          /\ KeepScratch
          /\ UNCHANGED draft
    /\ UNCHANGED <<rowVars, memoryVars, fenced, cache, paid>>

(* Mutant: the remaining calls are not floored at zero.                    *)
SpendPastZero(a) ==
    LET e == job[a] IN
    /\ pc[a] = "spend" /\ ~fenced
    /\ allowance' = [allowance EXCEPT ![e] = @ - 1]
    /\ cache' = [cache EXCEPT ![EngineOf[a]][e] = allowance[e] - 1]
    /\ paid' = [paid EXCEPT ![e] = @ + 1]
    /\ calls' = [calls EXCEPT ![a] = @ + 1]
    /\ Goto(a, "reply")
    /\ UNCHANGED <<job, round, seen, draft, cancelled, answer,
                   state, lease, pairedAt, memoryVars, fenced>>

(* Mutant: the engine's table keeps what it held when the grant was issued. *)
SpendFromTable(a) ==
    LET e == job[a]
        left == IF allowance[e] > 0 THEN allowance[e] - 1 ELSE 0 IN
    /\ pc[a] = "spend" /\ ~fenced
    /\ allowance' = [allowance EXCEPT ![e] = left]
    /\ paid' = [paid EXCEPT ![e] = @ + 1]
    /\ calls' = [calls EXCEPT ![a] = @ + 1]
    /\ Goto(a, "reply")
    /\ UNCHANGED <<job, round, seen, draft, cancelled, answer, cache,
                   state, lease, pairedAt, memoryVars, fenced>>

(* journal.spend_allowance, before the request goes out; the table then    *)
(* takes the journal's answer.  Nothing re-checks the row here: neither    *)
(* its lease nor that a call was left.                                     *)
Spend(a) ==
    LET e == job[a]
        left == IF allowance[e] > 0 THEN allowance[e] - 1 ELSE 0 IN
    /\ pc[a] = "spend"
    /\ \/ /\ fenced
          /\ Return(a, "failed")
          /\ UNCHANGED <<allowance, cache, paid>>
       \/ /\ ~fenced
          /\ allowance' = [allowance EXCEPT ![e] = left]
          /\ cache' = [cache EXCEPT ![EngineOf[a]][e] = left]
          /\ paid' = [paid EXCEPT ![e] = @ + 1]
          /\ calls' = [calls EXCEPT ![a] = @ + 1]
          /\ Goto(a, "reply")
          /\ UNCHANGED <<job, round, seen, draft, cancelled, answer>>
    /\ UNCHANGED <<state, lease, pairedAt, memoryVars, fenced>>

(* The provider answers.  An unusable answer, or a proposal the validator  *)
(* rejects, is asked for again while calls are left to this decision; a    *)
(* valid proposal names only blobs it was shown, at the versions shown.    *)
Proposals(a) ==
    LET shown == {b \in Blobs : seen[a][b] # 0} IN
    {Draft("CREATE", NoBlob, NoBlob)}
        \cup {Draft("UPDATE", b, NoBlob) : b \in shown}
        \cup {Draft("MERGE", p[1], p[2]) : p \in {q \in shown \X shown : q[1] # q[2]}}

Reply(a) ==
    /\ pc[a] = "reply"
    /\ \/ /\ calls[a] < MaxDecisionAttempts
          /\ Goto(a, "dispatch")
          /\ KeepScratch
          /\ UNCHANGED draft
       \/ calls[a] >= MaxDecisionAttempts /\ Conclude(a, "record", "review")
       \/ \E o \in {"skipped", "review"} : Conclude(a, "record", o)
       \/ /\ \E d \in Proposals(a) : draft' = [draft EXCEPT ![a] = d]
          /\ Goto(a, "record")
          /\ KeepScratch
    /\ UNCHANGED <<rowVars, memoryVars, fenced, cache, paid>>

(* The caller's proposal validator may refuse first; else the attempt is   *)
(* recorded (a terminal or fenced row refuses it), and the decision's own  *)
(* outcome or a proposal this path does not admit is settled, anything     *)
(* else goes to the commit.                                                *)
Admitted(e) == IF e \in Pairs THEN {"MERGE"} ELSE {"CREATE", "UPDATE"}

RecordAttempt(a) ==
    LET e == job[a] IN
    /\ pc[a] = "record"
    /\ \/ Conclude(a, "settle", "review")
       \/ (IsTerminal(e) \/ fenced) /\ Return(a, "failed")
       \/ /\ ~IsTerminal(e) /\ ~fenced
          /\ draft[a].action \in Outcomes
          /\ Goto(a, "settle")
          /\ KeepScratch
          /\ UNCHANGED draft
       \/ /\ ~IsTerminal(e) /\ ~fenced
          /\ draft[a].action \in Mutations \ Admitted(e)
          /\ Conclude(a, "settle", "review")
       \/ /\ ~IsTerminal(e) /\ ~fenced
          /\ draft[a].action \in Admitted(e)
          /\ Goto(a, "commit")
          /\ KeepScratch
          /\ UNCHANGED draft
    /\ UNCHANGED <<rowVars, memoryVars, fenced, cache, paid>>

------------------------------------------------------------------------------
(* The commit: one transaction under the company store's write lock.       *)

(* Mutant: the commit asks only whether the row is open.                  *)
OwnsAnyLease(a) == ~IsTerminal(job[a])

Owns(a) == lease[job[a]] = a /\ ~IsTerminal(job[a])

(* The compare-and-swap of blob_commits: a member that is gone or moved.   *)
Current(a, b) == b \in live /\ version[b] = seen[a][b]

(* Mutant: a merge looks only at its keeper.                               *)
FreshKeeper(a) ==
    draft[a].action \in {"UPDATE", "MERGE"} => Current(a, draft[a].target)

Fresh(a) ==
    LET d == draft[a] IN
    CASE d.action = "UPDATE" -> Current(a, d.target)
      [] d.action = "MERGE"  -> Current(a, d.target) /\ Current(a, d.donor)
      [] OTHER -> TRUE

Write(e, action, b, base) == [event |-> e, action |-> action, blob |-> b, base |-> base]

SemanticCreate(a) ==
    \E b \in Blobs \ live :
        /\ version[b] = 0
        /\ version' = [version EXCEPT ![b] = 1]
        /\ live' = live \cup {b}
        /\ writes' = writes \cup {Write(job[a], "rewrite", b, 0)}

SemanticUpdate(a) ==
    LET b == draft[a].target IN
    /\ version' = [version EXCEPT ![b] = @ + 1]
    /\ writes' = writes \cup {Write(job[a], "rewrite", b, seen[a][b])}
    /\ UNCHANGED live

SemanticMerge(a) ==
    LET keeper == draft[a].target
        donor  == draft[a].donor IN
    /\ version' = [version EXCEPT ![keeper] = @ + 1]
    /\ live' = live \ {donor}
    /\ writes' = writes \cup {Write(job[a], "rewrite", keeper, seen[a][keeper]),
                              Write(job[a], "drop", donor, seen[a][donor])}

(* journal.receipt in a terminal state: the outcome, and the lease goes.   *)
Receipt(e, outcome) ==
    /\ state' = [state EXCEPT ![e] = outcome]
    /\ lease' = IF outcome \in Terminal THEN [lease EXCEPT ![e] = NoAttempt] ELSE lease
    /\ UNCHANGED <<allowance, pairedAt>>

(* Mutant: the commit does not re-check that the turn still stands.        *)
CommitUnauthorized(a) ==
    /\ pc[a] = "commit" /\ Owns(a) /\ Fresh(a) /\ ~fenced
    /\ \/ draft[a].action = "CREATE" /\ SemanticCreate(a)
       \/ draft[a].action = "UPDATE" /\ SemanticUpdate(a)
       \/ draft[a].action = "MERGE" /\ SemanticMerge(a)
    /\ Receipt(job[a], "committed")
    /\ Return(a, "committed")
    /\ UNCHANGED <<fenced, cache, paid>>

CommitWrite(a) ==
    /\ pc[a] = "commit"
    /\ Owns(a)
    /\ ~cancelled[a]
    /\ Fresh(a)
    /\ ~fenced
    /\ \/ draft[a].action = "CREATE" /\ SemanticCreate(a)
       \/ draft[a].action = "UPDATE" /\ SemanticUpdate(a)
       \/ draft[a].action = "MERGE" /\ SemanticMerge(a)
    /\ Receipt(job[a], "committed")
    /\ Return(a, "committed")
    /\ UNCHANGED <<fenced, cache, paid>>

(* The transaction rolled back, for the first of these reasons that held.  *)
CommitRefused(a) ==
    /\ pc[a] = "commit"
    /\ \/ ~Owns(a) /\ Goto(a, "elsewhere") /\ KeepScratch /\ UNCHANGED draft
       \/ Owns(a) /\ cancelled[a] /\ Conclude(a, "settle", "review")
       \/ /\ Owns(a) /\ ~cancelled[a] /\ ~Fresh(a)
          /\ \/ /\ round[a] < MaxDecisionAttempts
                /\ round' = [round EXCEPT ![a] = @ + 1]
                /\ Goto(a, "gather")
                /\ UNCHANGED <<job, calls, seen, draft, cancelled, answer>>
             \/ round[a] >= MaxDecisionAttempts /\ Conclude(a, "settle", "review")
       \/ /\ Owns(a) /\ ~cancelled[a] /\ Fresh(a) /\ fenced
          /\ Goto(a, "elsewhere") /\ KeepScratch /\ UNCHANGED draft
       \/ Conclude(a, "settle", "failed")   \* embedding or storage error
    /\ UNCHANGED <<rowVars, memoryVars, fenced, cache, paid>>

(* Mutant: record_result writes over a settled row.                        *)
SettleOver(a) ==
    /\ pc[a] = "settle" /\ ~fenced
    /\ Receipt(job[a], draft[a].action)
    /\ Return(a, draft[a].action)
    /\ UNCHANGED <<memoryVars, fenced, cache, paid>>

(* Mutant: a refused record is tried again until it is accepted.           *)
SettleAgain(a) ==
    /\ pc[a] = "settle" /\ ~IsTerminal(job[a])
    /\ SettleOver(a)

(* _settle: the outcome is recorded by whoever reaches the row first; the  *)
(* lease is not asked for.  A refused record is a retryable failure.       *)
Settle(a) ==
    LET e == job[a] IN
    /\ pc[a] = "settle"
    /\ \/ /\ IsTerminal(e) \/ fenced
          /\ Return(a, "failed")
          /\ UNCHANGED rowVars
       \/ /\ ~IsTerminal(e) /\ ~fenced
          /\ Receipt(e, draft[a].action)
          /\ Return(a, draft[a].action)
    /\ UNCHANGED <<memoryVars, fenced, cache, paid>>

(* Mutant: whoever took the lease is assumed to have committed.            *)
ElsewhereCommitted(a) ==
    /\ pc[a] = "elsewhere"
    /\ Return(a, "committed")
    /\ UNCHANGED <<rowVars, memoryVars, fenced, cache, paid>>

(* _settled_elsewhere: the lease was lost, or the company is fenced.       *)
Elsewhere(a) ==
    LET e == job[a] IN
    /\ pc[a] = "elsewhere"
    /\ \/ IsTerminal(e) /\ Return(a, state[e])
       \/ ~IsTerminal(e) /\ Return(a, "failed")
    /\ UNCHANGED <<rowVars, memoryVars, fenced, cache, paid>>

------------------------------------------------------------------------------
(* What happens to an attempt from outside.                                *)

(* The store cannot answer, or the provider's client raises: submit()      *)
(* answers a retryable failure and records nothing.                        *)
Fails(a) ==
    /\ "failure" \in Disturbances
    /\ pc[a] \notin {"idle", "commit"}
    /\ Return(a, "failed")
    /\ UNCHANGED <<rowVars, memoryVars, fenced, cache, paid>>

(* turn.revoke: the turn's shared handle is cancelled, on another thread.  *)
Cancel(a) ==
    /\ "cancel" \in Disturbances
    /\ pc[a] # "idle" /\ ~cancelled[a]
    /\ cancelled' = [cancelled EXCEPT ![a] = TRUE]
    /\ UNCHANGED <<rowVars, memoryVars, fenced, cache, paid,
                   pc, job, round, calls, seen, draft, answer>>

(* An engine process ends: its attempts and its table go with it.          *)
Crash(g) ==
    LET down(a) == EngineOf[a] = g IN
    /\ "crash" \in Disturbances
    /\ \E a \in Attempts : down(a) /\ pc[a] # "idle"
    /\ pc' = [a \in Attempts |-> IF down(a) THEN "idle" ELSE pc[a]]
    /\ job' = [a \in Attempts |-> IF down(a) THEN NoEvent ELSE job[a]]
    /\ round' = [a \in Attempts |-> IF down(a) THEN 0 ELSE round[a]]
    /\ calls' = [a \in Attempts |-> IF down(a) THEN 0 ELSE calls[a]]
    /\ seen' = [a \in Attempts |-> IF down(a) THEN [b \in Blobs |-> 0] ELSE seen[a]]
    /\ draft' = [a \in Attempts |-> IF down(a) THEN Outcome("failed") ELSE draft[a]]
    /\ cancelled' = [a \in Attempts |-> cancelled[a] /\ ~down(a)]
    /\ answer' = [a \in Attempts |-> IF down(a) THEN NoAnswer ELSE answer[a]]
    /\ cache' = [cache EXCEPT ![g] = [e \in Events |-> 0]]
    /\ UNCHANGED <<rowVars, memoryVars, fenced, paid>>

------------------------------------------------------------------------------
(* The owner, the join fence, and the writers outside the harness.         *)

(* zylch memory-reviews --dismiss, for a row without a parent.             *)
Dismiss(e) ==
    /\ "dismiss" \in Disturbances
    /\ state[e] \in Unsettled /\ ~fenced
    /\ state' = [state EXCEPT ![e] = "skipped"]
    /\ lease' = [lease EXCEPT ![e] = NoAttempt]
    /\ UNCHANGED <<allowance, pairedAt, memoryVars, attemptVars, fenced, cache, paid>>

(* zylch memory-reviews --retry: only a pair's review is taken up again    *)
(* among rows without a parent.                                            *)
Retry(e) ==
    /\ "retry" \in Disturbances
    /\ e \in Pairs /\ state[e] = "review" /\ ~fenced
    /\ state' = [state EXCEPT ![e] = "failed"]
    /\ lease' = [lease EXCEPT ![e] = NoAttempt]
    /\ allowance' = [allowance EXCEPT ![e] = Allowance]
    /\ paid' = [paid EXCEPT ![e] = 0]
    /\ UNCHANGED <<pairedAt, memoryVars, attemptVars, fenced, cache>>

PlaceFence ==
    /\ "fence" \in Disturbances
    /\ ~fenced
    /\ fenced' = TRUE
    /\ UNCHANGED <<rowVars, memoryVars, attemptVars, cache, paid>>

ReleaseFence ==
    /\ fenced
    /\ fenced' = FALSE
    /\ UNCHANGED <<rowVars, memoryVars, attemptVars, cache, paid>>

(* The owner restores an older version of a blob, or deletes one.          *)
Restore(b) ==
    /\ "restore" \in Disturbances
    /\ b \in live /\ version[b] < MaxVersion
    /\ version' = [version EXCEPT ![b] = @ + 1]
    /\ writes' = writes \cup {Write(Owner, "rewrite", b, version[b])}
    /\ UNCHANGED <<live, rowVars, attemptVars, fenced, cache, paid>>

Delete(b) ==
    /\ "delete" \in Disturbances
    /\ b \in live /\ version[b] < MaxVersion
    /\ live' = live \ {b}
    /\ writes' = writes \cup {Write(Owner, "drop", b, version[b])}
    /\ UNCHANGED <<version, rowVars, attemptVars, fenced, cache, paid>>

------------------------------------------------------------------------------
(* The steps an attempt takes on its own.                                  *)
Step(a) ==
    \/ Claim(a) \/ Reread(a) \/ Gather(a) \/ IssueGrant(a) \/ Admit(a)
    \/ Spend(a) \/ Reply(a) \/ RecordAttempt(a) \/ CommitWrite(a)
    \/ CommitRefused(a) \/ Settle(a) \/ Elsewhere(a) \/ Fails(a)

Next ==
    \/ \E a \in Attempts : Step(a) \/ Cancel(a)
    \/ \E a \in Attempts, e \in Events : Submit(a, e) \/ RefuseInput(a, e)
    \/ \E g \in Engines : Crash(g)
    \/ \E e \in Events : Dismiss(e) \/ Retry(e)
    \/ PlaceFence \/ ReleaseFence
    \/ \E b \in Blobs : Restore(b) \/ Delete(b)

Spec == Init /\ [][Next]_vars

(* submit() is one synchronous call: an attempt that was started keeps     *)
(* running until it returns or its process ends.                           *)
FairSpec == Spec /\ \A a \in Attempts : WF_vars(Step(a))

------------------------------------------------------------------------------
(* What must hold.                                                         *)

(* The promise of submit(), with a row that is not settled seen as open.   *)
Verdict == [e \in Events |-> IF IsTerminal(e) THEN state[e] ELSE "open"]
Promise == INSTANCE ExactlyOnceMemory WITH verdict <- Verdict

(* The journal, the leases and the compare-and-swap implement the promise: *)
(* a verdict comes in one step with the change of memory it stands for.    *)
KeepsPromise == Promise!Spec

(* The type of every variable.                                             *)
TypeOK ==
    /\ state \in [Events -> States]
    /\ lease \in [Events -> Attempts \cup {NoAttempt}]
    /\ allowance \in [Events -> 0..Allowance]
    /\ pairedAt \in [Events -> [Blobs -> Nat]]
    /\ fenced \in BOOLEAN
    /\ version \in [Blobs -> Nat]
    /\ live \in SUBSET Blobs
    /\ cache \in [Engines -> [Events -> 0..Allowance]]
    /\ pc \in [Attempts -> Steps]
    /\ job \in [Attempts -> Events \cup {NoEvent}]
    /\ round \in [Attempts -> 0..MaxDecisionAttempts]
    /\ calls \in [Attempts -> Nat]
    /\ seen \in [Attempts -> [Blobs -> Nat]]
    /\ draft \in [Attempts -> Drafts]
    /\ cancelled \in [Attempts -> BOOLEAN]
    /\ answer \in [Attempts -> [event: Events \cup {NoEvent}, outcome: States \cup {"refused"}]]
    /\ writes \in SUBSET [event: Events \cup {Owner}, action: {"rewrite", "drop"},
                          blob: Blobs, base: Nat]
    /\ paid \in [Events -> Nat]

(* submit() is exactly once: an event changes memory if and only if its    *)
(* row says committed, however often it is submitted, retried, taken over  *)
(* by another engine, or interrupted by a crash.                           *)
CommittedIffWritten ==
    \A e \in Events : state[e] = "committed" <=> \E w \in writes : w.event = e

(* One event rewrites one blob once, and drops at most one.                *)
OneWritePerEvent ==
    \A v, w \in writes :
        v.event = w.event /\ v.event # Owner /\ v.action = w.action => v = w

(* No lost update: the text a decision was made about is the text its      *)
(* commit replaces, so two writers never both build on one version of a    *)
(* blob, and a blob that was dropped is not rewritten.                     *)
NoLostUpdate ==
    \A v, w \in writes : v.blob = w.blob /\ v.base = w.base => v = w

(* A recorded answer stays: no attempt, however late, changes a committed  *)
(* or skipped row, and a review changes only by the owner's own hand.      *)
AnswerStays ==
    [][\A e \in Events :
          /\ state[e] \in {"committed", "skipped"} => state'[e] = state[e]
          /\ state[e] = "review" /\ state'[e] # "review" => UNCHANGED attemptVars
      ]_vars

(* A caller told "committed" or "skipped" was told what the journal        *)
(* records, whoever recorded it.                                           *)
AnswersAreRecorded ==
    \A a \in Attempts :
        answer[a].outcome \in {"committed", "skipped"} =>
            state[answer[a].event] = answer[a].outcome

(* An attempt that another attempt has taken over never writes memory,     *)
(* even when the row is not settled yet.                                   *)
SupersededNeverWrites ==
    [][\A w \in writes' \ writes :
          w.event # Owner =>
            \E a \in Attempts : job[a] = w.event /\ job'[a] = NoEvent /\ lease[w.event] = a
      ]_vars

(* A turn that was revoked while its decision was being made writes        *)
(* nothing: the authorization is re-checked under the lock.                *)
RevokedNeverWrites ==
    [][\A a \in Attempts :
          cancelled[a] /\ answer'[a] # answer[a] => answer'[a].outcome # "committed"
             \/ state[job[a]] = "committed"]_vars

(* While a join fence holds the company, neither the journal nor the       *)
(* memory changes under an event.                                          *)
FenceFreezes ==
    [][fenced /\ fenced' =>
          /\ UNCHANGED rowVars
          /\ \A w \in writes' \ writes : w.event = Owner]_vars

(* Past the end of the allowance, each other attempt that had already read *)
(* its engine's table may still send one call, and no more than that.      *)
OverspendBounded ==
    \A e \in Events : paid[e] <= Allowance + Cardinality(Attempts) - 1

(* Every call of submit() ends: no conflict and no rejection makes it      *)
(* retry for ever.                                                         *)
SubmitReturns == \A a \in Attempts : pc[a] # "idle" ~> pc[a] = "idle"
=============================================================================
