-------------------------- MODULE MemoryAnswersProofs --------------------------
(***************************************************************************)
(* What a caller of submit() and the owner may rely on, for every number   *)
(* of events, attempts and engines: a recorded answer stays and is the     *)
(* answer given, a superseded or revoked attempt writes nothing, a fence   *)
(* freezes the journal, and the paid calls of one event are bounded.  All  *)
(* of it rests on the journal's invariant of MemoryOperationsProofs.       *)
(***************************************************************************)
EXTENDS MemoryOperationsProofs, FiniteSetTheorems

------------------------------------------------------------------------------
(* What one step may do to the rows.                                       *)

(* The attempts' own steps other than the two that write a receipt.        *)
Unrecorded(a) ==
    \/ Claim(a) \/ Reread(a) \/ Gather(a) \/ IssueGrant(a) \/ Admit(a) \/ Spend(a) \/ Reply(a)
    \/ RecordAttempt(a) \/ CommitRefused(a) \/ Elsewhere(a) \/ Fails(a) \/ Cancel(a)

LEMMA UnrecordedKeepsStates ==
    ASSUME NEW a \in Attempts, Unrecorded(a)
    PROVE  UNCHANGED <<state, writes>>
<1>1. CASE Claim(a) \/ Reread(a) \/ Gather(a) \/ IssueGrant(a) \/ Admit(a) \/ Spend(a)
  BY <1>1 DEF Claim, Reread, Gather, IssueGrant, Admit, Spend, rowVars, memoryVars
<1>2. CASE Reply(a) \/ RecordAttempt(a) \/ CommitRefused(a) \/ Elsewhere(a) \/ Fails(a) \/ Cancel(a)
  BY <1>2 DEF Reply, RecordAttempt, CommitRefused, Elsewhere, Fails, Cancel, rowVars, memoryVars
<1> QED
  BY <1>1, <1>2 DEF Unrecorded

(* A step changes at most one row: an attempt or a submission one that is  *)
(* not settled, the owner one that is not settled or a review.             *)
OneRowMoves ==
    \/ UNCHANGED state
    \/ \E e \in Events, s \in States :
          /\ state' = [state EXCEPT ![e] = s]
          /\ \/ ~IsTerminal(e)
             \/ state[e] = "review" /\ UNCHANGED attemptVars

LEMMA StepMovesOneRow ==
    ASSUME JournalInv, [Next]_vars
    PROVE  OneRowMoves
<1>1. CASE UNCHANGED vars
  BY <1>1 DEF vars, rowVars, OneRowMoves
<1>2. ASSUME NEW a \in Attempts, Step(a) \/ Cancel(a) PROVE OneRowMoves
  <2>1. CASE Unrecorded(a)
    BY <2>1, UnrecordedKeepsStates DEF OneRowMoves
  <2>2. CASE CommitWrite(a)
    <3>1. job[a] \in Events /\ state' = [state EXCEPT ![job[a]] = "committed"]
      BY <2>2, CommitWrites
    <3>2. ~IsTerminal(job[a]) /\ "committed" \in States
      BY <2>2 DEF CommitWrite, Owns, States, Terminal
    <3> QED
      BY <3>1, <3>2 DEF OneRowMoves
  <2>3. CASE Settle(a)
    <3>1. \/ UNCHANGED state
          \/ ~IsTerminal(job[a]) /\ state' = [state EXCEPT ![job[a]] = draft[a].action]
      BY <2>3 DEF Settle, Receipt, rowVars
    <3>2. job[a] \in Events /\ draft[a].action \in States
      BY <2>3 DEF JournalInv, AttemptsHaveRows, DraftsWellFormed, Settle, Outcomes, States, Terminal
    <3> QED
      BY <3>1, <3>2 DEF OneRowMoves
  <2> QED
    BY <1>2, <2>1, <2>2, <2>3 DEF Step, Unrecorded
<1>3. ASSUME NEW a \in Attempts, NEW e \in Events, Submit(a, e) \/ RefuseInput(a, e)
      PROVE  OneRowMoves
  <2>1. \/ UNCHANGED state
        \/ state[e] = "none" /\ state' = [state EXCEPT ![e] = "pending"]
    BY <1>3 DEF Submit, RefuseInput, CreateRow, rowVars
  <2> QED
    BY <2>1 DEF OneRowMoves, IsTerminal, Terminal, States
<1>4. ASSUME NEW e \in Events, Dismiss(e) \/ Retry(e) PROVE OneRowMoves
  <2>1. /\ state[e] \in {"review", "failed", "pending"}
        /\ \E s \in {"skipped", "failed"} : state' = [state EXCEPT ![e] = s]
        /\ UNCHANGED attemptVars
    BY <1>4 DEF Dismiss, Retry, Unsettled
  <2> QED
    BY <2>1 DEF OneRowMoves, IsTerminal, Terminal, States
<1>5. CASE \/ \E g \in Engines : Crash(g)
           \/ PlaceFence \/ ReleaseFence
           \/ \E b \in Blobs : Restore(b) \/ Delete(b)
  BY <1>5 DEF Crash, PlaceFence, ReleaseFence, Restore, Delete, rowVars, OneRowMoves
<1> QED
  BY <1>1, <1>2, <1>3, <1>4, <1>5 DEF Next

(* A recorded answer stays, however late an attempt comes back to it; only *)
(* the owner reopens or dismisses a review.                                *)
THEOREM AnswersStay == Spec => AnswerStays
<1> DEFINE Stays ==
       \A e \in Events :
          /\ state[e] \in {"committed", "skipped"} => state'[e] = state[e]
          /\ state[e] = "review" /\ state'[e] # "review" => UNCHANGED attemptVars
<1>1. JournalInv /\ [Next]_vars => Stays
  <2> SUFFICES ASSUME JournalInv, [Next]_vars PROVE Stays
    OBVIOUS
  <2>1. OneRowMoves /\ state \in [Events -> States]
    BY StepMovesOneRow DEF JournalInv, TypeOK
  <2> QED
    BY <2>1 DEF OneRowMoves, IsTerminal, Terminal
<1> QED
  BY <1>1, JournalInvariant, PTL DEF Spec, AnswerStays

------------------------------------------------------------------------------
(* The answers an attempt gives.                                           *)

(* Told(a, x): attempt a may end this step with the answer x.              *)
Told(a, x) ==
    x.outcome \in {"committed", "skipped"} =>
        x.event \in Events /\ state'[x.event] = x.outcome

(* What is told names an event; NoEvent has no row the answer could match.  *)
AnswersInv ==
    \A a \in Attempts :
        answer[a].outcome \in {"committed", "skipped"} =>
            answer[a].event \in Events /\ state[answer[a].event] = answer[a].outcome

(* A step gives an answer to at most the attempts it ends, and a "committed" *)
(* or "skipped" it gives is in the journal when it is given.               *)
LEMMA ReturnTells ==
    ASSUME JournalInv, NEW a \in Attempts, NEW o, Return(a, o), pc[a] # "idle",
           o \in {"committed", "skipped"} => state'[job[a]] = o
    PROVE  \A b \in Attempts : answer'[b] = answer[b] \/ Told(b, answer'[b])
<1>1. job[a] \in Events
  BY DEF JournalInv, AttemptsHaveRows
<1> QED
  BY <1>1 DEF JournalInv, TypeOK, Return, Told, Answer

LEMMA AttemptTells ==
    ASSUME JournalInv, NEW a \in Attempts, Step(a) \/ Cancel(a)
    PROVE  \A b \in Attempts : answer'[b] = answer[b] \/ Told(b, answer'[b])
<1>0. ASSUME Step(a) PROVE pc[a] # "idle"
  BY <1>0 DEF Step, Claim, Reread, Gather, IssueGrant, Admit, Spend, Reply, RecordAttempt,
              CommitWrite, CommitRefused, Settle, Elsewhere, Fails
<1>1. /\ state \in [Events -> States]
      /\ pc[a] # "idle" => job[a] \in Events
  BY DEF JournalInv, TypeOK, AttemptsHaveRows
<1>2. CASE UNCHANGED answer
  BY <1>2
<1>3. CASE Gather(a) \/ IssueGrant(a) \/ Admit(a) \/ Reply(a) \/ CommitRefused(a) \/ Cancel(a)
  <2>1. UNCHANGED answer
    BY <1>3 DEF Gather, IssueGrant, Admit, Reply, CommitRefused, Cancel, Conclude, KeepScratch
  <2> QED
    BY <1>2, <2>1
<1>4. CASE Claim(a) \/ Spend(a) \/ RecordAttempt(a) \/ Fails(a)
  <2>1. UNCHANGED answer \/ Return(a, "failed")
    BY <1>4 DEF Claim, Spend, RecordAttempt, Fails, Conclude, KeepScratch
  <2> QED
    BY <1>0, <1>2, <1>4, <2>1, ReturnTells DEF Step
<1>5. CASE Reread(a) \/ Elsewhere(a)
  <2>1. UNCHANGED state /\ \E o \in {state[job[a]], "failed", "refused"} : Return(a, o)
    BY <1>5 DEF Reread, Elsewhere, rowVars
  <2> QED
    BY <1>0, <1>5, <2>1, ReturnTells DEF Step
<1>6. CASE CommitWrite(a)
  <2>1. Return(a, "committed") /\ state'[job[a]] = "committed"
    <3>1. job[a] \in Events /\ state' = [state EXCEPT ![job[a]] = "committed"]
      BY <1>6, CommitWrites
    <3> QED
      BY <1>1, <1>6, <3>1 DEF CommitWrite
  <2> QED
    BY <1>0, <1>6, <2>1, ReturnTells DEF Step
<1>7. CASE Settle(a)
  <2>1. CASE Return(a, "failed")
    BY <1>0, <1>7, <2>1, ReturnTells DEF Step
  <2>2. CASE Receipt(job[a], draft[a].action) /\ Return(a, draft[a].action)
    <3>1. state'[job[a]] = draft[a].action
      BY <1>1, <1>7, <2>2 DEF Receipt, Settle
    <3> QED
      BY <1>0, <1>7, <2>2, <3>1, ReturnTells DEF Step
  <2> QED
    BY <1>7, <2>1, <2>2 DEF Settle
<1> QED
  BY <1>3, <1>4, <1>5, <1>6, <1>7 DEF Step

LEMMA OutsideTells ==
    ASSUME JournalInv,
           \/ UNCHANGED vars
           \/ \E a \in Attempts, e \in Events : Submit(a, e) \/ RefuseInput(a, e)
           \/ \E g \in Engines : Crash(g)
           \/ \E e \in Events : Dismiss(e) \/ Retry(e)
           \/ PlaceFence \/ ReleaseFence
           \/ \E b \in Blobs : Restore(b) \/ Delete(b)
    PROVE  \A b \in Attempts : answer'[b] = answer[b] \/ Told(b, answer'[b])
<1>1. answer \in [Attempts -> [event: Events \cup {NoEvent}, outcome: States \cup {"refused"}]]
  BY DEF JournalInv, TypeOK
<1>2. CASE UNCHANGED answer
  BY <1>2
<1>3. ASSUME NEW a \in Attempts, NEW e \in Events, Submit(a, e)
      PROVE  \A b \in Attempts : answer'[b] = answer[b] \/ Told(b, answer'[b])
  <2>1. CASE answer' = [answer EXCEPT ![a] = NoAnswer]
    BY <1>1, <2>1 DEF Told, NoAnswer, Answer
  <2>2. CASE answer' = [answer EXCEPT ![a] = Answer(e, "failed")]
    BY <1>1, <2>2 DEF Told, Answer
  <2>3. CASE answer' = [answer EXCEPT ![a] = Answer(e, state[e])] /\ UNCHANGED rowVars
    BY <1>1, <2>3 DEF Told, Answer, rowVars
  <2> QED
    BY <1>3, <2>1, <2>2, <2>3 DEF Submit
<1>4. ASSUME NEW a \in Attempts, NEW e \in Events, RefuseInput(a, e)
      PROVE  \A b \in Attempts : answer'[b] = answer[b] \/ Told(b, answer'[b])
  BY <1>1, <1>4 DEF RefuseInput, Told, Answer
<1>5. ASSUME NEW g \in Engines, Crash(g)
      PROVE  \A b \in Attempts : answer'[b] = answer[b] \/ Told(b, answer'[b])
  BY <1>5 DEF Crash, Told, NoAnswer, Answer
<1>6. CASE \/ UNCHANGED vars
           \/ \E e \in Events : Dismiss(e) \/ Retry(e)
           \/ PlaceFence \/ ReleaseFence
           \/ \E b \in Blobs : Restore(b) \/ Delete(b)
  <2>1. UNCHANGED answer
    BY <1>6 DEF vars, Dismiss, Retry, PlaceFence, ReleaseFence, Restore, Delete, attemptVars
  <2> QED
    BY <1>2, <2>1
<1> QED
  BY <1>3, <1>4, <1>5, <1>6

LEMMA StepKeepsAnswers ==
    ASSUME JournalInv, AnswersInv, [Next]_vars
    PROVE  AnswersInv'
<1>1. \A b \in Attempts : answer'[b] = answer[b] \/ Told(b, answer'[b])
  BY AttemptTells, OutsideTells DEF Next
<1>2. SUFFICES ASSUME NEW b \in Attempts, answer'[b].outcome \in {"committed", "skipped"}
               PROVE  answer'[b].event \in Events /\ state'[answer'[b].event] = answer'[b].outcome
  BY DEF AnswersInv
<1>3. CASE Told(b, answer'[b])
  BY <1>2, <1>3 DEF Told
<1>4. CASE answer'[b] = answer[b]
  <2>1. answer[b].event \in Events /\ state[answer[b].event] = answer[b].outcome
    BY <1>2, <1>4 DEF AnswersInv
  <2>2. OneRowMoves /\ state \in [Events -> States]
    BY StepMovesOneRow DEF JournalInv, TypeOK
  <2> QED
    BY <1>2, <1>4, <2>1, <2>2 DEF OneRowMoves, IsTerminal, Terminal
<1> QED
  BY <1>1, <1>3, <1>4

(* What a caller was told, the journal says, whoever wrote it there.       *)
THEOREM AnswersRecorded == Spec => []AnswersAreRecorded
<1>1. Init => AnswersInv
  BY DEF Init, AnswersInv, NoAnswer, Answer
<1>2. AnswersInv => AnswersAreRecorded
  BY DEF AnswersInv, AnswersAreRecorded
<1> QED
  BY <1>1, <1>2, JournalInvariant, StepKeepsAnswers, PTL DEF Spec

------------------------------------------------------------------------------
(* Who writes memory, and when.                                            *)

(* A step that adds a write of an event is that event's commit.            *)
LEMMA WritesAreCommits ==
    ASSUME JournalInv, [Next]_vars, NEW w \in writes' \ writes, w.event # Owner
    PROVE  \E a \in Attempts : CommitWrite(a) /\ w.event = job[a]
<1>1. CASE UNCHANGED writes
  BY <1>1
<1>2. ASSUME NEW a \in Attempts, Step(a) \/ Cancel(a)
      PROVE  UNCHANGED writes \/ (CommitWrite(a) /\ w.event = job[a])
  <2>1. CASE Unrecorded(a)
    BY <2>1, UnrecordedKeepsStates
  <2>2. CASE Settle(a)
    BY <2>2 DEF Settle, memoryVars
  <2>3. CASE CommitWrite(a)
    BY <2>3, CommitWrites DEF Write
  <2> QED
    BY <1>2, <2>1, <2>2, <2>3 DEF Step, Unrecorded
<1>3. CASE \/ UNCHANGED vars
           \/ \E a \in Attempts, e \in Events : Submit(a, e) \/ RefuseInput(a, e)
           \/ \E g \in Engines : Crash(g)
           \/ \E e \in Events : Dismiss(e) \/ Retry(e)
           \/ PlaceFence \/ ReleaseFence
  BY <1>1, <1>3, OutsideRecordsNothing DEF vars, memoryVars
<1>4. ASSUME NEW b \in Blobs, Restore(b) \/ Delete(b) PROVE FALSE
  BY <1>4 DEF Restore, Delete, Write
<1> QED
  BY <1>1, <1>2, <1>3, <1>4 DEF Next

(* An attempt whose row another attempt has claimed since writes nothing.  *)
THEOREM SupersededIsHarmless == Spec => SupersededNeverWrites
<1> DEFINE ByHolder ==
       \A w \in writes' \ writes :
          w.event # Owner =>
            \E a \in Attempts : job[a] = w.event /\ job'[a] = NoEvent /\ lease[w.event] = a
<1>1. JournalInv /\ [Next]_vars => ByHolder
  <2> SUFFICES ASSUME JournalInv, [Next]_vars, NEW w \in writes' \ writes, w.event # Owner
               PROVE  \E a \in Attempts : /\ job[a] = w.event
                                          /\ job'[a] = NoEvent
                                          /\ lease[w.event] = a
    OBVIOUS
  <2>1. PICK a \in Attempts : CommitWrite(a) /\ w.event = job[a]
    BY WritesAreCommits
  <2>2. lease[job[a]] = a /\ job'[a] = NoEvent
    BY <2>1 DEF CommitWrite, Owns, Return, JournalInv, TypeOK
  <2> QED
    BY <2>1, <2>2
<1> QED
  BY <1>1, JournalInvariant, PTL DEF Spec, SupersededNeverWrites

(* While the fence stands, the rows and what events wrote stand still.     *)
THEOREM FenceHolds == Spec => FenceFreezes
<1> DEFINE Frozen ==
       fenced /\ fenced' =>
          /\ UNCHANGED rowVars
          /\ \A w \in writes' \ writes : w.event = Owner
<1>1. JournalInv /\ [Next]_vars => Frozen
  <2> SUFFICES ASSUME JournalInv, [Next]_vars, fenced PROVE
               UNCHANGED rowVars /\ \A w \in writes' \ writes : w.event = Owner
    OBVIOUS
  <2>1. \A w \in writes' \ writes : w.event = Owner
    BY WritesAreCommits DEF CommitWrite
  <2>2. ASSUME NEW a \in Attempts, Step(a) \/ Cancel(a) PROVE UNCHANGED rowVars
    <3>1. CASE Claim(a) \/ Reread(a) \/ Gather(a) \/ IssueGrant(a) \/ Admit(a) \/ Spend(a)
      BY <3>1 DEF Claim, Reread, Gather, IssueGrant, Admit, Spend, rowVars
    <3>2. CASE \/ Reply(a) \/ RecordAttempt(a) \/ CommitWrite(a) \/ CommitRefused(a)
               \/ Settle(a) \/ Elsewhere(a) \/ Fails(a) \/ Cancel(a)
      BY <3>2 DEF Reply, RecordAttempt, CommitWrite, CommitRefused, Settle, Elsewhere, Fails, Cancel
    <3> QED
      BY <2>2, <3>1, <3>2 DEF Step
  <2>3. ASSUME NEW a \in Attempts, NEW e \in Events, Submit(a, e) \/ RefuseInput(a, e)
        PROVE  UNCHANGED rowVars
    BY <2>3 DEF Submit, RefuseInput
  <2>4. CASE \E e \in Events : Dismiss(e) \/ Retry(e)
    BY <2>1, <2>4 DEF Dismiss, Retry
  <2>5. CASE \/ UNCHANGED vars
             \/ \E g \in Engines : Crash(g)
             \/ PlaceFence \/ ReleaseFence
             \/ \E b \in Blobs : Restore(b) \/ Delete(b)
    BY <2>1, <2>5 DEF vars, Crash, PlaceFence, ReleaseFence, Restore, Delete
  <2> QED
    BY <2>1, <2>2, <2>3, <2>4, <2>5 DEF Next
<1> QED
  BY <1>1, JournalInvariant, PTL DEF Spec, FenceFreezes

------------------------------------------------------------------------------
(* A revoked turn.                                                         *)

(* An idle attempt carries no cancellation: submit() clears its handle.    *)
IdleIsClear == \A a \in Attempts : pc[a] = "idle" => ~cancelled[a]

LEMMA StepKeepsIdleClear ==
    ASSUME JournalInv, IdleIsClear, [Next]_vars
    PROVE  IdleIsClear'
<1>1. cancelled \in [Attempts -> BOOLEAN] /\ pc \in [Attempts -> Steps]
  BY DEF JournalInv, TypeOK
<1>2. CASE UNCHANGED <<pc, cancelled>>
  BY <1>2 DEF IdleIsClear
<1>3. ASSUME NEW a \in Attempts, NEW o, Return(a, o) PROVE IdleIsClear'
  BY <1>1, <1>3 DEF Return, Goto, IdleIsClear
<1>4. ASSUME NEW a \in Attempts, NEW s, s # "idle", Goto(a, s), UNCHANGED cancelled
      PROVE  IdleIsClear'
  BY <1>1, <1>4 DEF Goto, IdleIsClear
<1>5. ASSUME NEW a \in Attempts, Step(a) PROVE IdleIsClear'
  <2>1. \/ \E o : Return(a, o)
        \/ \E s : s # "idle" /\ Goto(a, s) /\ UNCHANGED cancelled
    <3>1. CASE Claim(a) \/ Reread(a) \/ Gather(a) \/ IssueGrant(a) \/ Admit(a)
      BY <3>1 DEF Claim, Reread, Gather, IssueGrant, Admit, Conclude, KeepScratch
    <3>2. CASE Spend(a) \/ Reply(a) \/ RecordAttempt(a)
      BY <3>2 DEF Spend, Reply, RecordAttempt, Conclude, KeepScratch
    <3>3. CASE CommitWrite(a) \/ CommitRefused(a) \/ Settle(a) \/ Elsewhere(a) \/ Fails(a)
      BY <3>3 DEF CommitWrite, CommitRefused, Settle, Elsewhere, Fails, Conclude, KeepScratch
    <3> QED
      BY <1>5, <3>1, <3>2, <3>3 DEF Step
  <2> QED
    BY <1>3, <1>4, <2>1
<1>6. ASSUME NEW a \in Attempts, Cancel(a) PROVE IdleIsClear'
  BY <1>1, <1>6 DEF Cancel, IdleIsClear
<1>7. ASSUME NEW a \in Attempts, NEW e \in Events, Submit(a, e) \/ RefuseInput(a, e)
      PROVE  IdleIsClear'
  BY <1>1, <1>2, <1>4, <1>7 DEF Submit, RefuseInput
<1>8. ASSUME NEW g \in Engines, Crash(g) PROVE IdleIsClear'
  BY <1>1, <1>8 DEF Crash, IdleIsClear
<1>9. CASE \/ UNCHANGED vars
           \/ \E e \in Events : Dismiss(e) \/ Retry(e)
           \/ PlaceFence \/ ReleaseFence
           \/ \E b \in Blobs : Restore(b) \/ Delete(b)
  BY <1>2, <1>9 DEF vars, Dismiss, Retry, PlaceFence, ReleaseFence, Restore, Delete, attemptVars
<1> QED
  BY <1>5, <1>6, <1>7, <1>8, <1>9 DEF Next

(* The answer of a revoked attempt is not a commit of its own.             *)
Unrevoked ==
    \A a \in Attempts :
        cancelled[a] /\ answer'[a] # answer[a] => answer'[a].outcome # "committed"
           \/ state[job[a]] = "committed"

LEMMA RevokedAttempts ==
    ASSUME JournalInv, NEW a \in Attempts, Step(a) \/ Cancel(a)
    PROVE  Unrevoked
<1>1. /\ state \in [Events -> States]
      /\ answer \in [Attempts -> [event: Events \cup {NoEvent}, outcome: States \cup {"refused"}]]
  BY DEF JournalInv, TypeOK
<1>2. CASE UNCHANGED answer
  BY <1>2 DEF Unrevoked
<1>3. ASSUME NEW o, Return(a, o),
             cancelled[a] => o # "committed" \/ state[job[a]] = "committed"
      PROVE  Unrevoked
  BY <1>1, <1>3 DEF Return, Answer, Unrevoked
<1>4. CASE Gather(a) \/ IssueGrant(a) \/ Admit(a) \/ Reply(a) \/ CommitRefused(a) \/ Cancel(a)
  <2>1. UNCHANGED answer
    BY <1>4 DEF Gather, IssueGrant, Admit, Reply, CommitRefused, Cancel, Conclude, KeepScratch
  <2> QED
    BY <1>2, <2>1
<1>5. CASE Claim(a) \/ Spend(a) \/ RecordAttempt(a) \/ Fails(a)
  <2>1. UNCHANGED answer \/ Return(a, "failed")
    BY <1>5 DEF Claim, Spend, RecordAttempt, Fails, Conclude, KeepScratch
  <2> QED
    BY <1>2, <1>3, <2>1
<1>6. CASE Reread(a) \/ Elsewhere(a)
  <2>1. \E o \in {state[job[a]], "failed", "refused"} : Return(a, o)
    BY <1>6 DEF Reread, Elsewhere
  <2> QED
    BY <1>3, <2>1
<1>7. CASE CommitWrite(a)
  BY <1>3, <1>7 DEF CommitWrite
<1>8. CASE Settle(a)
  <2>1. draft[a].action # "committed"
    BY <1>8 DEF JournalInv, DraftsWellFormed, Settle, Outcomes
  <2> QED
    BY <1>3, <1>8, <2>1 DEF Settle
<1> QED
  BY <1>4, <1>5, <1>6, <1>7, <1>8 DEF Step

LEMMA RevokedOutside ==
    ASSUME JournalInv, IdleIsClear,
           \/ UNCHANGED vars
           \/ \E a \in Attempts, e \in Events : Submit(a, e) \/ RefuseInput(a, e)
           \/ \E g \in Engines : Crash(g)
           \/ \E e \in Events : Dismiss(e) \/ Retry(e)
           \/ PlaceFence \/ ReleaseFence
           \/ \E b \in Blobs : Restore(b) \/ Delete(b)
    PROVE  Unrevoked
<1>1. answer \in [Attempts -> [event: Events \cup {NoEvent}, outcome: States \cup {"refused"}]]
  BY DEF JournalInv, TypeOK
<1>2. ASSUME NEW a \in Attempts, NEW e \in Events, Submit(a, e) \/ RefuseInput(a, e)
      PROVE  Unrevoked
  <2>1. ~cancelled[a] /\ \E x : answer' = [answer EXCEPT ![a] = x]
    BY <1>2 DEF Submit, RefuseInput, IdleIsClear
  <2> QED
    BY <1>1, <2>1 DEF Unrevoked
<1>3. ASSUME NEW g \in Engines, Crash(g) PROVE Unrevoked
  BY <1>3 DEF Crash, Unrevoked, NoAnswer, Answer
<1>4. CASE \/ UNCHANGED vars
           \/ \E e \in Events : Dismiss(e) \/ Retry(e)
           \/ PlaceFence \/ ReleaseFence
           \/ \E b \in Blobs : Restore(b) \/ Delete(b)
  <2>1. UNCHANGED answer
    BY <1>4 DEF vars, Dismiss, Retry, PlaceFence, ReleaseFence, Restore, Delete, attemptVars
  <2> QED
    BY <2>1 DEF Unrevoked
<1> QED
  BY <1>2, <1>3, <1>4

(* A turn revoked at any point before the commit's transaction commits     *)
(* nothing.                                                                *)
THEOREM RevocationHolds == Spec => RevokedNeverWrites
<1>1. Init => IdleIsClear
  BY DEF Init, IdleIsClear
<1>2. JournalInv /\ IdleIsClear /\ [Next]_vars => Unrevoked
  BY RevokedAttempts, RevokedOutside DEF Next
<1> QED
  BY <1>1, <1>2, JournalInvariant, StepKeepsIdleClear, PTL DEF Spec, RevokedNeverWrites, Unrevoked

------------------------------------------------------------------------------
(* The paid calls of one event.                                            *)

(* The attempts that can still send a call for the event: admitted already, *)
(* or on an engine whose table still shows a call left.                    *)
Ready(e) ==
    {a \in Attempts : (pc[a] = "spend" /\ job[a] = e) \/ cache[EngineOf[a]][e] > 0}

(* While calls are left every paid one was taken off the allowance; past   *)
(* its end each attempt that pays drops out of the ready ones for good, and *)
(* the attempt that paid the last call is not among them.                  *)
Accounted(e) ==
    IF allowance[e] > 0
    THEN paid[e] + allowance[e] = Allowance
    ELSE paid[e] + Cardinality(Ready(e)) <= Allowance + Cardinality(Attempts) - 1

SpendInv == \A e \in Events : Accounted(e)

LEMMA ReadyIsFinite ==
    ASSUME NEW e \in Events
    PROVE  /\ IsFiniteSet(Ready(e))
           /\ Cardinality(Ready(e)) \in Nat /\ Cardinality(Attempts) \in Nat
           /\ Cardinality(Ready(e)) <= Cardinality(Attempts)
<1>1. IsFiniteSet(Attempts) /\ Ready(e) \in SUBSET Attempts
  BY ConstantsAssumption DEF Ready
<1>2. IsFiniteSet(Ready(e)) /\ Cardinality(Ready(e)) <= Cardinality(Attempts)
  BY <1>1, FS_Subset
<1> QED
  BY <1>1, <1>2, FS_CardinalityType

(* An event none of whose counters moves, and whose ready attempts do not  *)
(* grow once its allowance is spent, stays accounted for.                  *)
LEMMA QuietEvent ==
    ASSUME JournalInv, NEW e \in Events, Accounted(e),
           allowance'[e] = allowance[e], paid'[e] = paid[e],
           allowance[e] = 0 => Ready(e)' \subseteq Ready(e)
    PROVE  Accounted(e)'
<1>1. allowance[e] \in Nat /\ paid[e] \in Nat /\ Allowance \in Nat
  BY ConstantsAssumption DEF JournalInv, TypeOK
<1>2. CASE allowance[e] > 0
  BY <1>2 DEF Accounted
<1>3. CASE allowance[e] = 0
  <2>1. /\ Cardinality(Ready(e)') \in Nat
        /\ Cardinality(Ready(e)') <= Cardinality(Ready(e))
    BY <1>3, ReadyIsFinite, FS_Subset, FS_CardinalityType
  <2>2. Cardinality(Ready(e)) \in Nat /\ Cardinality(Attempts) \in Nat
    BY ReadyIsFinite
  <2>3. paid[e] + Cardinality(Ready(e)) <= Allowance + Cardinality(Attempts) - 1
    BY <1>3 DEF Accounted
  <2>4. paid[e] + Cardinality(Ready(e)') <= Allowance + Cardinality(Attempts) - 1
    BY <1>1, <2>1, <2>2, <2>3
  <2>5. /\ allowance'[e] = 0
        /\ paid'[e] + Cardinality(Ready(e)') <= Allowance + Cardinality(Attempts) - 1
    BY <1>3, <2>4
  <2> QED
    BY <2>5 DEF Accounted
<1> QED
  BY <1>1, <1>2, <1>3

(* A step in which nobody's table gains a call and nobody becomes admitted *)
(* keeps every account it does not move.                                   *)
LEMMA QuietStepKeepsAccounts ==
    ASSUME JournalInv, SpendInv, UNCHANGED <<allowance, paid>>,
           \A a \in Attempts, e \in Events :
              allowance[e] = 0 /\ a \in Ready(e)' => a \in Ready(e)
    PROVE  SpendInv'
<1>1. ASSUME NEW e \in Events PROVE Accounted(e)'
  <2>1. Ready(e)' \subseteq Attempts
    BY DEF Ready
  <2> QED
    BY <2>1, QuietEvent DEF SpendInv
<1> QED
  BY <1>1 DEF SpendInv

LEMMA SpendKeepsAccounts ==
    ASSUME JournalInv, SpendInv, NEW a \in Attempts, NEW e \in Events, e = job[a],
           Spend(a), ~fenced
    PROVE  SpendInv'
<1> DEFINE left == IF allowance[e] > 0 THEN allowance[e] - 1 ELSE 0
<1>1. /\ TypeOK /\ EngineOf[a] \in Engines
      /\ Allowance \in Nat \ {0}
  BY ConstantsAssumption DEF JournalInv
<1>2. /\ pc[a] = "spend"
      /\ allowance' = [allowance EXCEPT ![e] = left]
      /\ cache' = [cache EXCEPT ![EngineOf[a]][e] = left]
      /\ paid' = [paid EXCEPT ![e] = @ + 1]
      /\ pc' = [pc EXCEPT ![a] = "reply"]
      /\ job' = job
  BY DEF Spend, Goto
<1>3. allowance[e] \in Nat /\ paid[e] \in Nat
  BY <1>1 DEF TypeOK
<1>4. allowance'[e] = left /\ paid'[e] = paid[e] + 1 /\ pc'[a] # "spend"
  BY <1>1, <1>2 DEF TypeOK
<1>5. cache'[EngineOf[a]][e] = left
  BY <1>1, <1>2 DEF TypeOK
<1>6. ASSUME NEW f \in Events, NEW b \in Attempts
      PROVE  /\ pc'[b] = "spend" => pc[b] = "spend"
             /\ cache'[EngineOf[b]][f] = IF EngineOf[b] = EngineOf[a] /\ f = e
                                         THEN left ELSE cache[EngineOf[b]][f]
  <2>1. EngineOf[b] \in Engines
    BY ConstantsAssumption
  <2> QED
    BY <1>1, <1>2, <2>1 DEF TypeOK
<1>7. ASSUME NEW f \in Events, f # e PROVE Accounted(f)'
  <2>1. allowance'[f] = allowance[f] /\ paid'[f] = paid[f]
    BY <1>1, <1>2, <1>7 DEF TypeOK
  <2>2. Ready(f)' \subseteq Ready(f)
    BY <1>2, <1>6, <1>7 DEF Ready
  <2> QED
    BY <2>1, <2>2, QuietEvent DEF SpendInv
<1>8. Accounted(e)'
  <2>1. CASE left > 0
    <3>1. allowance[e] > 0 /\ left = allowance[e] - 1
      BY <1>3, <2>1
    <3>2. paid[e] + allowance[e] = Allowance
      BY <1>1, <3>1 DEF SpendInv, Accounted
    <3>3. paid'[e] + allowance'[e] = Allowance
      BY <1>1, <1>3, <1>4, <3>1, <3>2
    <3> QED
      BY <1>4, <1>2, <2>1, <3>3 DEF Accounted
  <2>2. CASE left = 0
    <3>1. Ready(e)' \subseteq Attempts \ {a}
      BY <1>4, <1>5, <2>2 DEF Ready
    <3>2. Ready(e)' \subseteq Ready(e) \ {a}
      BY <1>2, <1>4, <1>5, <1>6, <2>2 DEF Ready
    <3>3. /\ IsFiniteSet(Attempts) /\ a \in Attempts
          /\ IsFiniteSet(Ready(e)) /\ a \in Ready(e)
          /\ Cardinality(Ready(e)) \in Nat /\ Cardinality(Attempts) \in Nat
      BY <1>1, <1>2, ReadyIsFinite, ConstantsAssumption DEF Ready
    <3>4. /\ Cardinality(Attempts \ {a}) = Cardinality(Attempts) - 1
          /\ IsFiniteSet(Attempts \ {a})
          /\ Cardinality(Ready(e) \ {a}) = Cardinality(Ready(e)) - 1
          /\ IsFiniteSet(Ready(e) \ {a})
      BY <3>3, FS_RemoveElement
    <3>5. /\ Cardinality(Ready(e)') <= Cardinality(Attempts) - 1
          /\ Cardinality(Ready(e)') <= Cardinality(Ready(e)) - 1
          /\ Cardinality(Ready(e)') \in Nat
      BY <3>1, <3>2, <3>4, FS_Subset, FS_CardinalityType
    <3>6. CASE allowance[e] > 0
      <4>1. paid[e] + allowance[e] = Allowance /\ allowance[e] = 1
        BY <1>1, <1>3, <2>2, <3>6 DEF SpendInv, Accounted
      <4>2. paid'[e] = Allowance
        BY <1>1, <1>3, <1>4, <4>1
      <4>3. paid'[e] + Cardinality(Ready(e)') <= Allowance + Cardinality(Attempts) - 1
        BY <1>1, <3>3, <3>5, <4>2
      <4> QED
        BY <1>2, <1>4, <2>2, <4>3 DEF Accounted
    <3>7. CASE allowance[e] = 0
      <4>1. paid[e] + Cardinality(Ready(e)) <= Allowance + Cardinality(Attempts) - 1
        BY <1>1, <3>7 DEF SpendInv, Accounted
      <4>2. paid'[e] + Cardinality(Ready(e)') <= Allowance + Cardinality(Attempts) - 1
        BY <1>1, <1>3, <1>4, <3>3, <3>5, <4>1
      <4> QED
        BY <1>2, <1>4, <2>2, <4>2 DEF Accounted
    <3> QED
      BY <1>3, <3>6, <3>7
  <2>3. left = 0 \/ left > 0
    BY <1>3
  <2> QED
    BY <2>1, <2>2, <2>3
<1> QED
  BY <1>7, <1>8 DEF SpendInv

(* A new row, or a pair's second review, is granted the whole allowance.   *)
LEMMA GrantKeepsAccounts ==
    ASSUME JournalInv, SpendInv, NEW e \in Events,
           allowance' = [allowance EXCEPT ![e] = Allowance],
           paid' = [paid EXCEPT ![e] = 0],
           \A a \in Attempts, f \in Events :
              f # e /\ a \in Ready(f)' => a \in Ready(f)
    PROVE  SpendInv'
<1>1. /\ allowance \in [Events -> 0..Allowance] /\ paid \in [Events -> Nat]
      /\ Allowance \in Nat \ {0}
  BY ConstantsAssumption DEF JournalInv, TypeOK
<1>2. Accounted(e)'
  <2>1. allowance'[e] = Allowance /\ paid'[e] = 0
    BY <1>1
  <2>2. allowance'[e] > 0 /\ paid'[e] + allowance'[e] = Allowance
    BY <1>1, <2>1
  <2> QED
    BY <2>2 DEF Accounted
<1>3. ASSUME NEW f \in Events, f # e PROVE Accounted(f)'
  <2>1. allowance'[f] = allowance[f] /\ paid'[f] = paid[f]
    BY <1>1, <1>3
  <2>2. Ready(f)' \subseteq Ready(f)
    <3>1. Ready(f)' \subseteq Attempts
      BY DEF Ready
    <3> QED
      BY <1>3, <3>1
  <2> QED
    BY <2>1, <2>2, QuietEvent DEF SpendInv
<1> QED
  BY <1>2, <1>3 DEF SpendInv

(* A step that moves no attempt to the sending of a call, and leaves the   *)
(* tables alone, makes nobody ready.                                       *)
LEMMA NobodyReadied ==
    ASSUME UNCHANGED cache,
           \A b \in Attempts : pc'[b] = "spend" => pc[b] = "spend" /\ job'[b] = job[b]
    PROVE  \A b \in Attempts, f \in Events : b \in Ready(f)' => b \in Ready(f)
BY DEF Ready

LEMMA AttemptKeepsAccounts ==
    ASSUME JournalInv, SpendInv, NEW a \in Attempts, Step(a) \/ Cancel(a)
    PROVE  SpendInv'
<1>1. /\ pc \in [Attempts -> Steps] /\ job \in [Attempts -> Events \cup {NoEvent}]
      /\ cache \in [Engines -> [Events -> 0..Allowance]]
      /\ allowance \in [Events -> 0..Allowance]
  BY DEF JournalInv, TypeOK
<1>2. ASSUME UNCHANGED <<allowance, paid, cache>>,
             \A b \in Attempts : pc'[b] = "spend" => pc[b] = "spend" /\ job'[b] = job[b]
      PROVE  SpendInv'
  BY <1>2, NobodyReadied, QuietStepKeepsAccounts
<1>3. ASSUME NEW o, Return(a, o), UNCHANGED <<allowance, paid, cache>> PROVE SpendInv'
  BY <1>1, <1>2, <1>3 DEF Return, Goto
<1>4. ASSUME NEW s, s # "spend", Goto(a, s), UNCHANGED <<job, allowance, paid, cache>>
      PROVE  SpendInv'
  BY <1>1, <1>2, <1>4 DEF Goto
<1>5. CASE Claim(a) \/ Reread(a) \/ Gather(a) \/ Reply(a) \/ RecordAttempt(a)
  <2>1. UNCHANGED <<allowance, paid, cache>>
    BY <1>5 DEF Claim, Reread, Gather, Reply, RecordAttempt, rowVars
  <2>2. \/ \E o : Return(a, o)
        \/ \E s : s # "spend" /\ Goto(a, s) /\ UNCHANGED job
    BY <1>5 DEF Claim, Reread, Gather, Reply, RecordAttempt, Conclude, KeepScratch
  <2> QED
    BY <1>3, <1>4, <2>1, <2>2
<1>6. CASE CommitWrite(a) \/ CommitRefused(a) \/ Settle(a) \/ Elsewhere(a) \/ Fails(a)
  <2>1. UNCHANGED <<allowance, paid, cache>>
    BY <1>6 DEF CommitWrite, CommitRefused, Settle, Elsewhere, Fails, Receipt, rowVars
  <2>2. \/ \E o : Return(a, o)
        \/ \E s : s # "spend" /\ Goto(a, s) /\ UNCHANGED job
    BY <1>6 DEF CommitWrite, CommitRefused, Settle, Elsewhere, Fails, Conclude, KeepScratch
  <2> QED
    BY <1>3, <1>4, <2>1, <2>2
<1>7. CASE Cancel(a)
  BY <1>2, <1>7 DEF Cancel, rowVars
<1>8. CASE IssueGrant(a)
  <2>1. UNCHANGED <<allowance, paid>>
    BY <1>8 DEF IssueGrant, rowVars
  <2>2. CASE Conclude(a, "record", "review") /\ UNCHANGED cache
    BY <1>4, <2>1, <2>2 DEF Conclude, KeepScratch
  <2>3. CASE ~cancelled[a]
    <3>1. /\ cache' = [cache EXCEPT ![EngineOf[a]][job[a]] = allowance[job[a]]]
          /\ Goto(a, "dispatch") /\ UNCHANGED job
      BY <1>8, <2>3 DEF IssueGrant
    <3>2. ASSUME NEW b \in Attempts, NEW f \in Events, allowance[f] = 0, b \in Ready(f)'
          PROVE  b \in Ready(f)
      <4>1. EngineOf[b] \in Engines
        BY ConstantsAssumption
      <4>2. cache'[EngineOf[b]][f] > 0 => cache[EngineOf[b]][f] > 0
        BY <1>1, <3>1, <3>2, <4>1
      <4>3. pc'[b] = "spend" => pc[b] = "spend"
        BY <1>1, <3>1 DEF Goto
      <4> QED
        BY <3>1, <3>2, <4>2, <4>3 DEF Ready
    <3> QED
      BY <2>1, <3>2, QuietStepKeepsAccounts
  <2> QED
    BY <1>8, <2>2, <2>3 DEF IssueGrant
<1>9. CASE Admit(a)
  <2>1. UNCHANGED <<allowance, paid, cache>>
    BY <1>9 DEF Admit, rowVars
  <2>2. CASE \E o : Conclude(a, "record", o)
    BY <1>4, <2>1, <2>2 DEF Conclude, KeepScratch
  <2>3. CASE cache[EngineOf[a]][job[a]] > 0 /\ Goto(a, "spend") /\ KeepScratch
    <3>1. \A b \in Attempts, f \in Events : b \in Ready(f)' => b \in Ready(f)
      BY <1>1, <2>1, <2>3 DEF Ready, Goto, KeepScratch
    <3> QED
      BY <2>1, <3>1, QuietStepKeepsAccounts
  <2> QED
    BY <1>9, <2>2, <2>3 DEF Admit
<1>10. CASE Spend(a)
  <2>1. CASE fenced
    BY <1>3, <1>10, <2>1 DEF Spend
  <2>2. CASE ~fenced
    <3>1. job[a] \in Events
      BY <1>10 DEF JournalInv, AttemptsHaveRows, Spend
    <3> QED
      BY <1>10, <2>2, <3>1, SpendKeepsAccounts
  <2> QED
    BY <2>1, <2>2
<1> QED
  BY <1>5, <1>6, <1>7, <1>8, <1>9, <1>10 DEF Step

LEMMA OutsideKeepsAccounts ==
    ASSUME JournalInv, SpendInv,
           \/ UNCHANGED vars
           \/ \E a \in Attempts, e \in Events : Submit(a, e) \/ RefuseInput(a, e)
           \/ \E g \in Engines : Crash(g)
           \/ \E e \in Events : Dismiss(e) \/ Retry(e)
           \/ PlaceFence \/ ReleaseFence
           \/ \E b \in Blobs : Restore(b) \/ Delete(b)
    PROVE  SpendInv'
<1>1. /\ pc \in [Attempts -> Steps] /\ job \in [Attempts -> Events \cup {NoEvent}]
      /\ cache \in [Engines -> [Events -> 0..Allowance]]
      /\ paid \in [Events -> Nat]
  BY DEF JournalInv, TypeOK
<1>2. ASSUME UNCHANGED <<allowance, paid, cache>>,
             \A b \in Attempts : pc'[b] = "spend" => pc[b] = "spend" /\ job'[b] = job[b]
      PROVE  SpendInv'
  BY <1>2, NobodyReadied, QuietStepKeepsAccounts
<1>3. ASSUME NEW a \in Attempts, NEW e \in Events, Submit(a, e) \/ RefuseInput(a, e)
      PROVE  SpendInv'
  <2>1. /\ UNCHANGED <<cache, paid>>
        /\ \/ UNCHANGED <<pc, job>>
           \/ Goto(a, "claim") /\ job' = [job EXCEPT ![a] = e]
        /\ \/ UNCHANGED rowVars
           \/ state[e] = "none" /\ CreateRow(e)
    BY <1>3 DEF Submit, RefuseInput
  <2>2. \A b \in Attempts : pc'[b] = "spend" => pc[b] = "spend" /\ job'[b] = job[b]
    BY <1>1, <2>1 DEF Goto
  <2>3. CASE UNCHANGED rowVars
    BY <1>2, <2>1, <2>2, <2>3 DEF rowVars
  <2>4. CASE state[e] = "none" /\ CreateRow(e)
    <3>1. paid[e] = 0
      BY <2>4 DEF JournalInv, UnopenedUnpaid
    <3>2. allowance' = [allowance EXCEPT ![e] = Allowance] /\ paid' = [paid EXCEPT ![e] = 0]
      BY <1>1, <2>1, <2>4, <3>1 DEF CreateRow
    <3> QED
      BY <2>1, <2>2, <3>2, NobodyReadied, GrantKeepsAccounts
  <2> QED
    BY <2>1, <2>3, <2>4
<1>4. ASSUME NEW e \in Events, Retry(e) PROVE SpendInv'
  <2>1. /\ allowance' = [allowance EXCEPT ![e] = Allowance] /\ paid' = [paid EXCEPT ![e] = 0]
        /\ UNCHANGED <<pc, job, cache>>
    BY <1>4 DEF Retry, attemptVars
  <2> QED
    BY <2>1, NobodyReadied, GrantKeepsAccounts
<1>5. ASSUME NEW g \in Engines, Crash(g) PROVE SpendInv'
  <2>1. /\ UNCHANGED <<allowance, paid>>
        /\ cache' = [cache EXCEPT ![g] = [e \in Events |-> 0]]
        /\ \A b \in Attempts : pc'[b] = "spend" => pc[b] = "spend" /\ job'[b] = job[b]
    BY <1>5 DEF Crash, rowVars
  <2>2. ASSUME NEW b \in Attempts, NEW f \in Events, b \in Ready(f)' PROVE b \in Ready(f)
    <3>1. EngineOf[b] \in Engines
      BY ConstantsAssumption
    <3>2. cache'[EngineOf[b]][f] > 0 => cache[EngineOf[b]][f] > 0
      BY <1>1, <2>1, <3>1
    <3> QED
      BY <2>1, <2>2, <3>2 DEF Ready
  <2> QED
    BY <2>1, <2>2, QuietStepKeepsAccounts
<1>6. CASE \/ UNCHANGED vars
           \/ \E e \in Events : Dismiss(e)
           \/ PlaceFence \/ ReleaseFence
           \/ \E b \in Blobs : Restore(b) \/ Delete(b)
  <2>1. UNCHANGED <<allowance, paid, cache, pc, job>>
    BY <1>6 DEF vars, Dismiss, PlaceFence, ReleaseFence, Restore, Delete, rowVars, attemptVars
  <2> QED
    BY <1>2, <2>1
<1> QED
  BY <1>3, <1>4, <1>5, <1>6

(* However many engines decide one event, its paid calls pass the allowance *)
(* by fewer than there are attempts.                                       *)
THEOREM OverspendStaysBounded == Spec => []OverspendBounded
<1>1. Init => SpendInv
  <2> SUFFICES ASSUME Init, NEW e \in Events PROVE Accounted(e)
    BY DEF SpendInv
  <2>1. allowance[e] = 0 /\ paid[e] = 0
    BY DEF Init
  <2>2. 0 + Cardinality(Ready(e)) <= Allowance + Cardinality(Attempts) - 1
    BY ReadyIsFinite, ConstantsAssumption
  <2> QED
    BY <2>1, <2>2 DEF Accounted
<1>2. JournalInv /\ SpendInv /\ [Next]_vars => SpendInv'
  BY AttemptKeepsAccounts, OutsideKeepsAccounts DEF Next
<1>3. JournalInv /\ SpendInv => OverspendBounded
  <2> SUFFICES ASSUME JournalInv, SpendInv, NEW e \in Events
               PROVE  paid[e] <= Allowance + Cardinality(Attempts) - 1
    BY DEF OverspendBounded
  <2>1. /\ allowance[e] \in Nat /\ paid[e] \in Nat /\ Allowance \in Nat
        /\ Cardinality(Ready(e)) \in Nat /\ Cardinality(Attempts) \in Nat
    BY ReadyIsFinite, ConstantsAssumption DEF JournalInv, TypeOK
  <2>2. Accounted(e)
    BY DEF SpendInv
  <2> QED
    BY <2>1, <2>2 DEF Accounted
<1> QED
  BY <1>1, <1>2, <1>3, JournalInvariant, PTL DEF Spec

==============================================================================
