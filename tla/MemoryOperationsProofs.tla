------------------------ MODULE MemoryOperationsProofs ------------------------
(***************************************************************************)
(* What holds of MemoryOperations for every number of events, attempts,    *)
(* engines and blobs.  The inductive invariant adds to the properties of   *)
(* the specification what a step needs to know of the step before it: an   *)
(* attempt at work has a row, a draft about to be settled is an outcome, a *)
(* merge names two different blobs, and every write in the history lies    *)
(* behind the blob's version.                                              *)
(***************************************************************************)
EXTENDS MemoryOperations, TLAPS

(* An attempt that is not idle works on an event whose row exists.         *)
AttemptsHaveRows ==
    \A a \in Attempts : pc[a] # "idle" => job[a] \in Events /\ state[job[a]] # "none"

(* An attempt about to settle holds an outcome; a proposal to update or    *)
(* merge names the blobs it is about, and a merge names two.               *)
DraftsWellFormed ==
    \A a \in Attempts :
        /\ pc[a] = "settle" => draft[a].action \in Outcomes
        /\ draft[a].action = "UPDATE" => draft[a].target \in Blobs
        /\ draft[a].action = "MERGE" =>
              /\ draft[a].target \in Blobs
              /\ draft[a].donor \in Blobs
              /\ draft[a].target # draft[a].donor

(* Every write lies behind the version its blob has now; a dropped blob is *)
(* not live, and every live blob has a version.                            *)
WritesBehindVersion ==
    /\ \A b \in live : version[b] > 0
    /\ \A w \in writes :
          /\ version[w.blob] > 0
          /\ w.action = "rewrite" => w.base < version[w.blob]
          /\ w.action = "drop" => w.blob \notin live

(* Nothing was paid for an event that has no row.                          *)
UnopenedUnpaid == \A e \in Events : state[e] = "none" => paid[e] = 0

JournalInv ==
    /\ TypeOK
    /\ AttemptsHaveRows
    /\ DraftsWellFormed
    /\ UnopenedUnpaid

MemoryInv ==
    /\ CommittedIffWritten
    /\ OneWritePerEvent
    /\ WritesBehindVersion
    /\ NoLostUpdate

------------------------------------------------------------------------------
(* What an attempt that returns leaves behind.                             *)
LEMMA ReturnKeeps ==
    ASSUME TypeOK, NEW a \in Attempts, NEW o \in States \cup {"refused"},
           job[a] \in Events, Return(a, o)
    PROVE  /\ pc' \in [Attempts -> Steps]
           /\ job' \in [Attempts -> Events \cup {NoEvent}]
           /\ round' \in [Attempts -> 0..MaxDecisionAttempts]
           /\ calls' \in [Attempts -> Nat]
           /\ seen' \in [Attempts -> [Blobs -> Nat]]
           /\ draft' \in [Attempts -> Drafts]
           /\ cancelled' \in [Attempts -> BOOLEAN]
           /\ answer' \in [Attempts -> [event: Events \cup {NoEvent},
                                        outcome: States \cup {"refused"}]]
           /\ pc'[a] = "idle"
           /\ draft'[a].action = "failed"
           /\ \A b \in Attempts \ {a} : /\ pc'[b] = pc[b]
                                        /\ job'[b] = job[b]
                                        /\ draft'[b] = draft[b]
                                        /\ answer'[b] = answer[b]
           /\ answer'[a] = Answer(job[a], o)
<1>1. Outcome("failed") \in Drafts /\ Outcome("failed").action = "failed"
  BY DEF Outcome, Draft, Drafts, Outcomes
<1>2. MaxDecisionAttempts \in Nat
  BY ConstantsAssumption
<1>3. pc' \in [Attempts -> Steps] /\ round' \in [Attempts -> 0..MaxDecisionAttempts]
  BY <1>2 DEF TypeOK, Return, Goto, Steps
<1>4. /\ job' \in [Attempts -> Events \cup {NoEvent}]
      /\ calls' \in [Attempts -> Nat]
      /\ seen' \in [Attempts -> [Blobs -> Nat]]
      /\ cancelled' \in [Attempts -> BOOLEAN]
  BY DEF TypeOK, Return, Goto
<1>5. draft' \in [Attempts -> Drafts] /\ draft'[a].action = "failed"
  BY <1>1 DEF TypeOK, Return
<1>6. Answer(job[a], o) \in [event: Events \cup {NoEvent}, outcome: States \cup {"refused"}]
  BY DEF Answer
<1>7. answer' \in [Attempts -> [event: Events \cup {NoEvent},
                                outcome: States \cup {"refused"}]]
  BY <1>6 DEF TypeOK, Return
<1>8. pc'[a] = "idle" /\ answer'[a] = Answer(job[a], o)
  BY DEF TypeOK, Return, Goto
<1>9. \A b \in Attempts \ {a} : /\ pc'[b] = pc[b]
                                /\ job'[b] = job[b]
                                /\ draft'[b] = draft[b]
                                /\ answer'[b] = answer[b]
  BY DEF TypeOK, Return, Goto
<1> QED
  BY <1>3, <1>4, <1>5, <1>7, <1>8, <1>9

(* What an attempt that concludes leaves behind.                           *)
LEMMA ConcludeKeeps ==
    ASSUME TypeOK, NEW a \in Attempts, NEW o \in Outcomes,
           NEW s \in {"record", "settle"}, Conclude(a, s, o)
    PROVE  /\ pc' \in [Attempts -> Steps]
           /\ draft' \in [Attempts -> Drafts]
           /\ pc'[a] = s
           /\ draft'[a].action = o
           /\ \A b \in Attempts \ {a} : pc'[b] = pc[b] /\ draft'[b] = draft[b]
           /\ UNCHANGED <<job, round, calls, seen, cancelled, answer>>
<1>1. Outcome(o) \in Drafts /\ Outcome(o).action = o
  BY DEF Outcome, Draft, Drafts, Outcomes
<1>2. s \in Steps
  BY DEF Steps
<1> QED
  BY <1>1, <1>2 DEF TypeOK, Conclude, Goto, KeepScratch

(* A step that returns, and touches neither rows nor memory, keeps the     *)
(* journal's invariant.                                                    *)
LEMMA ReturnOnly ==
    ASSUME JournalInv, NEW a \in Attempts, NEW o \in States \cup {"refused"},
           pc[a] # "idle", Return(a, o), UNCHANGED <<rowVars, memoryVars, fenced, cache, paid>>
    PROVE  JournalInv'
<1> USE DEF JournalInv
<1>0. job[a] \in Events
  BY DEF AttemptsHaveRows
<1>1. TypeOK'
  BY <1>0, ReturnKeeps DEF TypeOK, rowVars, memoryVars
<1>2. AttemptsHaveRows'
  <2>1. SUFFICES ASSUME NEW b \in Attempts, pc'[b] # "idle"
                 PROVE  job'[b] \in Events /\ state'[job'[b]] # "none"
    BY DEF AttemptsHaveRows
  <2>2. b # a /\ pc'[b] = pc[b] /\ job'[b] = job[b]
    BY <1>0, <2>1, ReturnKeeps
  <2> QED
    BY <2>1, <2>2 DEF AttemptsHaveRows, rowVars
<1>3. DraftsWellFormed'
  <2>1. /\ pc'[a] = "idle" /\ draft'[a].action = "failed"
        /\ \A b \in Attempts \ {a} : pc'[b] = pc[b] /\ draft'[b] = draft[b]
    BY <1>0, ReturnKeeps
  <2> QED
    BY <2>1 DEF DraftsWellFormed
<1>4. UnopenedUnpaid'
  BY DEF UnopenedUnpaid, rowVars
<1> QED
  BY <1>1, <1>2, <1>3, <1>4

(* So does a step that only moves an attempt towards an outcome.           *)
LEMMA ConcludeOnly ==
    ASSUME JournalInv, NEW a \in Attempts, NEW o \in Outcomes,
           NEW s \in {"record", "settle"}, pc[a] # "idle",
           Conclude(a, s, o), UNCHANGED <<rowVars, memoryVars, fenced, cache, paid>>
    PROVE  JournalInv'
<1> USE DEF JournalInv
<1>1. TypeOK'
  BY ConcludeKeeps DEF TypeOK, rowVars, memoryVars
<1>2. AttemptsHaveRows'
  BY ConcludeKeeps DEF AttemptsHaveRows, rowVars
<1>3. DraftsWellFormed'
  BY ConcludeKeeps DEF DraftsWellFormed, Outcomes
<1>4. UnopenedUnpaid'
  BY DEF UnopenedUnpaid, rowVars
<1> QED
  BY <1>1, <1>2, <1>3, <1>4

(* And a step that moves an attempt to a step other than settling and      *)
(* changes none of its event and its draft.                                *)
LEMMA MoveOnly ==
    ASSUME JournalInv, NEW a \in Attempts, NEW s \in Steps \ {"settle"}, pc[a] # "idle",
           Goto(a, s), UNCHANGED <<rowVars, memoryVars, fenced, paid, job, draft, answer, cancelled>>,
           round' \in [Attempts -> 0..MaxDecisionAttempts],
           calls' \in [Attempts -> Nat],
           seen' \in [Attempts -> [Blobs -> Nat]],
           cache' \in [Engines -> [Events -> 0..Allowance]]
    PROVE  JournalInv'
<1> USE DEF JournalInv
<1>1. TypeOK'
  BY DEF TypeOK, rowVars, memoryVars, Goto
<1>2. AttemptsHaveRows'
  BY DEF AttemptsHaveRows, rowVars, Goto, TypeOK
<1>3. DraftsWellFormed'
  BY DEF DraftsWellFormed, Goto, TypeOK
<1>4. UnopenedUnpaid'
  BY DEF UnopenedUnpaid, rowVars
<1> QED
  BY <1>1, <1>2, <1>3, <1>4

------------------------------------------------------------------------------
(* Every step of the specification keeps the journal's invariant.          *)

LEMMA SubmitKeepsJournal ==
    ASSUME JournalInv, NEW a \in Attempts, NEW e \in Events,
           Submit(a, e) \/ RefuseInput(a, e)
    PROVE  JournalInv'
<1> DEFINE AnswerType == [event: Events \cup {NoEvent}, outcome: States \cup {"refused"}]
<1>1. TypeOK /\ AttemptsHaveRows /\ DraftsWellFormed /\ UnopenedUnpaid
  BY DEF JournalInv
<1>2. Answer(e, "failed") \in AnswerType /\ Answer(e, "refused") \in AnswerType
      /\ Answer(e, state[e]) \in AnswerType /\ NoAnswer \in AnswerType
  BY <1>1 DEF Answer, NoAnswer, TypeOK, States
<1>3. UNCHANGED <<memoryVars, fenced, cache, paid, round, calls, seen, draft, cancelled>>
  BY DEF Submit, RefuseInput
<1>4. pc[a] = "idle"
  BY DEF Submit, RefuseInput
<1>5. CreateRow(e) \/ UNCHANGED rowVars
  BY DEF Submit, RefuseInput
<1>6. CASE Goto(a, "claim") /\ job' = [job EXCEPT ![a] = e]
           /\ answer' = [answer EXCEPT ![a] = NoAnswer] /\ state'[e] # "none"
           /\ (\A f \in Events : state[f] # "none" => state'[f] # "none")
           /\ (\A h \in Events : state'[h] = "none" => state[h] = "none")
  <2>1. /\ pc' \in [Attempts -> Steps] /\ job' \in [Attempts -> Events \cup {NoEvent}]
        /\ answer' \in [Attempts -> AnswerType]
    BY <1>1, <1>2, <1>6 DEF TypeOK, Goto, Steps
  <2>2. rowVars' = rowVars \/ CreateRow(e)
    BY <1>5
  <2>3. /\ state' \in [Events -> States]
        /\ lease' \in [Events -> Attempts \cup {NoAttempt}]
        /\ allowance' \in [Events -> 0..Allowance]
    <3>1. Allowance \in 0..Allowance
      BY ConstantsAssumption
    <3>2. CASE CreateRow(e)
      <4>1. /\ state' = [state EXCEPT ![e] = "pending"]
            /\ allowance' = [allowance EXCEPT ![e] = Allowance]
            /\ lease' = lease
        BY <3>2 DEF CreateRow
      <4> QED
        BY <1>1, <3>1, <4>1 DEF TypeOK, States
    <3>3. CASE rowVars' = rowVars
      BY <1>1, <3>3 DEF TypeOK, rowVars
    <3> QED
      BY <2>2, <3>2, <3>3
  <2>4. pairedAt' \in [Events -> [Blobs -> Nat]]
    <3>1. ASSUME NEW at \in Pairings PROVE at \in [Blobs -> Nat]
      <4>1. PICK p \in live \X live :
                at = [b \in Blobs |-> IF b \in {p[1], p[2]} THEN version[b] ELSE 0]
        BY <3>1 DEF Pairings
      <4> QED
        BY <1>1, <4>1 DEF TypeOK
    <3>2. CASE \E at \in Pairings : pairedAt' = [pairedAt EXCEPT ![e] = at]
      BY <1>1, <3>1, <3>2 DEF TypeOK
    <3>3. CASE UNCHANGED pairedAt
      BY <1>1, <3>3 DEF TypeOK
    <3> QED
      BY <2>2, <3>2, <3>3 DEF CreateRow, rowVars
  <2>5. TypeOK'
    BY <1>1, <1>3, <2>1, <2>3, <2>4 DEF TypeOK, memoryVars
  <2>6. AttemptsHaveRows'
    BY <1>1, <1>6 DEF AttemptsHaveRows, Goto, TypeOK
  <2>7. DraftsWellFormed'
    BY <1>1, <1>3, <1>6 DEF DraftsWellFormed, Goto, TypeOK
  <2>8. UnopenedUnpaid'
    BY <1>1, <1>3, <1>6 DEF UnopenedUnpaid
  <2> QED
    BY <2>5, <2>6, <2>7, <2>8 DEF JournalInv
<1>7. CASE UNCHANGED <<rowVars, pc, job>>
           /\ \E x \in AnswerType : answer' = [answer EXCEPT ![a] = x]
  <2>1. TypeOK'
    BY <1>1, <1>3, <1>7 DEF TypeOK, memoryVars, rowVars
  <2>2. AttemptsHaveRows' /\ DraftsWellFormed' /\ UnopenedUnpaid'
    BY <1>1, <1>3, <1>7 DEF AttemptsHaveRows, DraftsWellFormed, UnopenedUnpaid, rowVars
  <2> QED
    BY <2>1, <2>2 DEF JournalInv
<1>8. CASE RefuseInput(a, e)
  BY <1>2, <1>7, <1>8 DEF RefuseInput
<1>9. CASE Submit(a, e)
  <2>1. \/ /\ CreateRow(e) \/ (UNCHANGED rowVars /\ state[e] \in {"pending", "failed"})
           /\ Goto(a, "claim") /\ job' = [job EXCEPT ![a] = e]
           /\ answer' = [answer EXCEPT ![a] = NoAnswer]
        \/ /\ UNCHANGED <<rowVars, pc, job>>
           /\ \E x \in {"failed", state[e]} : answer' = [answer EXCEPT ![a] = Answer(e, x)]
    BY <1>9 DEF Submit
  <2>2. CASE CreateRow(e) \/ (UNCHANGED rowVars /\ state[e] \in {"pending", "failed"})
    <3>1. /\ state'[e] # "none"
          /\ \A f \in Events : state[f] # "none" => state'[f] # "none"
          /\ \A f \in Events : state'[f] = "none" => state[f] = "none"
      BY <1>1, <2>2 DEF CreateRow, TypeOK, rowVars
    <3> QED
      BY <1>2, <1>6, <1>7, <2>1, <3>1
  <2> QED
    BY <1>2, <1>7, <2>1, <2>2
<1> QED
  BY <1>8, <1>9

LEMMA ClaimKeepsJournal ==
    ASSUME JournalInv, NEW a \in Attempts, Claim(a) \/ Reread(a) \/ Elsewhere(a) \/ Fails(a)
    PROVE  JournalInv'
<1> USE DEF JournalInv
<1>0. job[a] \in Events /\ state[job[a]] \in States /\ pc[a] # "idle"
  BY DEF AttemptsHaveRows, Claim, Reread, Elsewhere, Fails, TypeOK
<1>1. ASSUME NEW o \in States \cup {"refused"}, Return(a, o),
             UNCHANGED <<rowVars, memoryVars, fenced, cache, paid>>
      PROVE  JournalInv'
  BY <1>0, <1>1, ReturnOnly
<1>2. CASE Reread(a) \/ Elsewhere(a) \/ Fails(a)
  <2>1. \E o \in States \cup {"refused"} :
            Return(a, o) /\ UNCHANGED <<rowVars, memoryVars, fenced, cache, paid>>
    BY <1>0, <1>2 DEF Reread, Elsewhere, Fails, States
  <2> QED
    BY <1>1, <2>1
<1>3. CASE Claim(a) /\ fenced /\ ~IsTerminal(job[a])
  <2>1. Return(a, "failed") /\ UNCHANGED <<rowVars, memoryVars, fenced, cache, paid>>
    BY <1>3 DEF Claim, rowVars
  <2> QED
    BY <1>1, <2>1 DEF States
<1>4. CASE Claim(a) /\ IsTerminal(job[a])
  <2>1. Goto(a, "reread") /\ UNCHANGED <<rowVars, memoryVars, fenced, cache, paid,
                                        job, round, calls, seen, draft, cancelled, answer>>
    BY <1>4 DEF Claim, rowVars
  <2> QED
    BY <1>0, <2>1, MoveOnly DEF Steps, TypeOK
<1>5. CASE Claim(a) /\ ~fenced /\ ~IsTerminal(job[a])
  <2>0. /\ lease' = [lease EXCEPT ![job[a]] = a]
        /\ round' = [round EXCEPT ![a] = 1]
        /\ Goto(a, "gather")
        /\ UNCHANGED <<job, calls, seen, draft, cancelled, answer,
                       state, allowance, pairedAt, memoryVars, fenced, cache, paid>>
    BY <1>5 DEF Claim
  <2>1. TypeOK'
    BY <1>0, <2>0, ConstantsAssumption DEF TypeOK, Goto, Steps, memoryVars
  <2>2. AttemptsHaveRows'
    BY <1>0, <1>5 DEF AttemptsHaveRows, Claim, TypeOK, Goto
  <2>3. DraftsWellFormed'
    BY <1>5 DEF DraftsWellFormed, Claim, TypeOK, Goto
  <2>4. UnopenedUnpaid'
    BY <1>5 DEF UnopenedUnpaid, Claim
  <2> QED
    BY <2>1, <2>2, <2>3, <2>4
<1> QED
  BY <1>2, <1>3, <1>4, <1>5 DEF Claim

LEMMA RoundKeepsJournal ==
    ASSUME JournalInv, NEW a \in Attempts, Gather(a) \/ IssueGrant(a) \/ Admit(a)
    PROVE  JournalInv'
<1> USE DEF JournalInv
<1>0. job[a] \in Events /\ pc[a] # "idle"
  BY DEF AttemptsHaveRows, Gather, IssueGrant, Admit
<1>1. ASSUME NEW o \in Outcomes, NEW s \in {"record", "settle"}, Conclude(a, s, o),
             UNCHANGED <<rowVars, memoryVars, fenced, cache, paid>>
      PROVE  JournalInv'
  BY <1>0, <1>1, ConcludeOnly
<1>2. CASE Gather(a)
  <2>1. CASE Conclude(a, "settle", "skipped")
    BY <1>1, <1>2, <2>1 DEF Gather, Outcomes
  <2>2. ASSUME NEW blobs \in SUBSET Blobs PROVE Shown(blobs) \in [Blobs -> Nat]
    BY DEF Shown, TypeOK
  <2>3. PairMembers(job[a]) \in SUBSET Blobs
    BY DEF PairMembers
  <2>4. CASE seen' = [seen EXCEPT ![a] = Shown(PairMembers(job[a]))] /\ Goto(a, "decide")
             /\ UNCHANGED <<job, round, calls, draft, cancelled, answer>>
    BY <1>0, <1>2, <2>2, <2>3, <2>4, MoveOnly DEF Gather, TypeOK, Steps
  <2>5. CASE (\E blobs \in SUBSET live : seen' = [seen EXCEPT ![a] = Shown(blobs)])
             /\ Goto(a, "decide") /\ UNCHANGED <<job, round, calls, draft, cancelled, answer>>
    <3>1. seen' \in [Attempts -> [Blobs -> Nat]]
      BY <2>2, <2>5 DEF TypeOK
    <3> QED
      BY <1>0, <1>2, <2>5, <3>1, MoveOnly DEF Gather, TypeOK, Steps
  <2> QED
    BY <1>2, <2>1, <2>4, <2>5 DEF Gather
<1>3. CASE IssueGrant(a)
  <2>1. CASE Conclude(a, "record", "review") /\ UNCHANGED cache
    BY <1>1, <1>3, <2>1 DEF IssueGrant, Outcomes
  <2>2. CASE ~cancelled[a]
    <3>0. /\ cache' = [cache EXCEPT ![EngineOf[a]][job[a]] = allowance[job[a]]]
          /\ calls' = [calls EXCEPT ![a] = 0]
      BY <1>3, <2>2 DEF IssueGrant
    <3>1. cache' \in [Engines -> [Events -> 0..Allowance]]
      BY <1>0, <3>0, ConstantsAssumption DEF TypeOK
    <3>2. calls' \in [Attempts -> Nat]
      BY <3>0 DEF TypeOK
    <3> QED
      BY <1>0, <1>3, <2>2, <3>1, <3>2, MoveOnly DEF IssueGrant, TypeOK, Steps
  <2> QED
    BY <1>3, <2>1, <2>2 DEF IssueGrant
<1>4. CASE Admit(a)
  <2>1. CASE \E o \in Outcomes : Conclude(a, "record", o)
    BY <1>1, <1>4, <2>1 DEF Admit
  <2>2. CASE Goto(a, "spend") /\ KeepScratch /\ UNCHANGED draft
    BY <1>0, <1>4, <2>2, MoveOnly DEF Admit, KeepScratch, TypeOK, Steps
  <2> QED
    BY <1>4, <2>1, <2>2 DEF Admit, Outcomes
<1> QED
  BY <1>2, <1>3, <1>4

LEMMA DecisionKeepsJournal ==
    ASSUME JournalInv, NEW a \in Attempts, Spend(a) \/ Reply(a) \/ RecordAttempt(a)
    PROVE  JournalInv'
<1>1. TypeOK /\ AttemptsHaveRows /\ DraftsWellFormed /\ UnopenedUnpaid
  BY DEF JournalInv
<1>2. job[a] \in Events /\ state[job[a]] # "none" /\ pc[a] # "idle"
  BY <1>1 DEF AttemptsHaveRows, Spend, Reply, RecordAttempt
<1>3. ASSUME NEW o \in Outcomes, NEW s \in {"record", "settle"}, Conclude(a, s, o),
             UNCHANGED <<rowVars, memoryVars, fenced, cache, paid>>
      PROVE  JournalInv'
  BY <1>2, <1>3, ConcludeOnly
<1>4. CASE Spend(a) /\ fenced
  <2>1. Return(a, "failed") /\ UNCHANGED <<rowVars, memoryVars, fenced, cache, paid>>
    BY <1>4 DEF Spend, rowVars
  <2> QED
    BY <1>2, <2>1, ReturnOnly DEF States
<1>5. CASE Spend(a) /\ ~fenced
  <2> DEFINE left == IF allowance[job[a]] > 0 THEN allowance[job[a]] - 1 ELSE 0
  <2>1. /\ allowance' = [allowance EXCEPT ![job[a]] = left]
        /\ cache' = [cache EXCEPT ![EngineOf[a]][job[a]] = left]
        /\ paid' = [paid EXCEPT ![job[a]] = @ + 1]
        /\ calls' = [calls EXCEPT ![a] = @ + 1]
        /\ Goto(a, "reply")
        /\ UNCHANGED <<job, round, seen, draft, cancelled, answer,
                       state, lease, pairedAt, memoryVars, fenced>>
    BY <1>5 DEF Spend
  <2>2. left \in 0..Allowance
    BY <1>1, <1>2, ConstantsAssumption DEF TypeOK
  <2> HIDE DEF left
  <2>3. /\ allowance' \in [Events -> 0..Allowance]
        /\ cache' \in [Engines -> [Events -> 0..Allowance]]
        /\ paid' \in [Events -> Nat]
        /\ calls' \in [Attempts -> Nat]
        /\ pc' \in [Attempts -> Steps]
    <3>1. EngineOf[a] \in Engines
      BY ConstantsAssumption
    <3>2. allowance' \in [Events -> 0..Allowance] /\ paid' \in [Events -> Nat]
      BY <1>1, <1>2, <2>1, <2>2 DEF TypeOK
    <3>3. cache' \in [Engines -> [Events -> 0..Allowance]]
      BY <1>1, <1>2, <2>1, <2>2, <3>1 DEF TypeOK
    <3>4. calls' \in [Attempts -> Nat] /\ pc' \in [Attempts -> Steps]
      BY <1>1, <2>1 DEF TypeOK, Goto, Steps
    <3> QED
      BY <3>2, <3>3, <3>4
  <2>4. TypeOK'
    BY <1>1, <2>1, <2>3 DEF TypeOK, memoryVars
  <2>5. AttemptsHaveRows' /\ DraftsWellFormed'
    BY <1>1, <1>2, <2>1 DEF AttemptsHaveRows, DraftsWellFormed, Goto, TypeOK
  <2>6. UnopenedUnpaid'
    BY <1>1, <1>2, <2>1 DEF UnopenedUnpaid, TypeOK
  <2> QED
    BY <2>4, <2>5, <2>6 DEF JournalInv
<1>6. CASE Reply(a)
  <2>1. UNCHANGED <<rowVars, memoryVars, fenced, cache, paid>>
    BY <1>6 DEF Reply
  <2>2. CASE Goto(a, "dispatch") /\ KeepScratch /\ UNCHANGED draft
    BY <1>1, <1>2, <2>1, <2>2, MoveOnly DEF KeepScratch, TypeOK, Steps
  <2>3. CASE \E o \in Outcomes : Conclude(a, "record", o)
    BY <1>3, <2>1, <2>3
  <2>4. ASSUME NEW d \in Proposals(a), draft' = [draft EXCEPT ![a] = d],
               Goto(a, "record"), KeepScratch
        PROVE  JournalInv'
    <3>1. /\ d \in Drafts
          /\ d.action = "UPDATE" => d.target \in Blobs
          /\ d.action = "MERGE" => d.target \in Blobs /\ d.donor \in Blobs /\ d.target # d.donor
      BY <2>4 DEF Proposals, Draft, Drafts, Mutations, Outcomes
    <3>2. TypeOK'
      BY <1>1, <2>1, <2>4, <3>1 DEF TypeOK, Goto, Steps, KeepScratch, rowVars, memoryVars
    <3>3. AttemptsHaveRows' /\ UnopenedUnpaid'
      BY <1>1, <1>2, <2>1, <2>4
         DEF AttemptsHaveRows, UnopenedUnpaid, Goto, TypeOK, KeepScratch, rowVars
    <3>4. DraftsWellFormed'
      BY <1>1, <2>4, <3>1 DEF DraftsWellFormed, Goto, TypeOK
    <3> QED
      BY <3>2, <3>3, <3>4 DEF JournalInv
  <2> QED
    BY <1>6, <2>2, <2>3, <2>4 DEF Reply, Outcomes
<1>7. CASE RecordAttempt(a)
  <2>1. UNCHANGED <<rowVars, memoryVars, fenced, cache, paid>>
    BY <1>7 DEF RecordAttempt
  <2>2. CASE Conclude(a, "settle", "review")
    BY <1>3, <2>1, <2>2 DEF Outcomes
  <2>3. CASE Return(a, "failed")
    BY <1>2, <2>1, <2>3, ReturnOnly DEF States
  <2>4. CASE Goto(a, "commit") /\ KeepScratch /\ UNCHANGED draft
    BY <1>1, <1>2, <2>1, <2>4, MoveOnly DEF KeepScratch, TypeOK, Steps
  <2>5. CASE Goto(a, "settle") /\ KeepScratch /\ UNCHANGED draft
             /\ draft[a].action \in Outcomes
    <3>1. TypeOK'
      BY <1>1, <2>1, <2>5 DEF TypeOK, Goto, Steps, KeepScratch, rowVars, memoryVars
    <3>2. AttemptsHaveRows' /\ UnopenedUnpaid'
      BY <1>1, <1>2, <2>1, <2>5
         DEF AttemptsHaveRows, UnopenedUnpaid, Goto, TypeOK, KeepScratch, rowVars
    <3>3. DraftsWellFormed'
      BY <1>1, <2>5 DEF DraftsWellFormed, Goto, TypeOK
    <3> QED
      BY <3>1, <3>2, <3>3 DEF JournalInv
  <2> QED
    BY <1>7, <2>2, <2>3, <2>4, <2>5 DEF RecordAttempt
<1> QED
  BY <1>4, <1>5, <1>6, <1>7

(* A settled outcome is never "committed": only the commit's own           *)
(* transaction writes that receipt.                                        *)
LEMMA SettleKeepsJournal ==
    ASSUME JournalInv, NEW a \in Attempts, Settle(a)
    PROVE  JournalInv'
<1>1. TypeOK /\ AttemptsHaveRows /\ DraftsWellFormed /\ UnopenedUnpaid
  BY DEF JournalInv
<1>2. job[a] \in Events /\ state[job[a]] # "none" /\ pc[a] # "idle"
  BY <1>1 DEF AttemptsHaveRows, Settle
<1>3. UNCHANGED <<memoryVars, fenced, cache, paid>>
  BY DEF Settle
<1>4. CASE Return(a, "failed") /\ UNCHANGED rowVars
  BY <1>2, <1>3, <1>4, ReturnOnly DEF States
<1>5. CASE Receipt(job[a], draft[a].action) /\ Return(a, draft[a].action)
  <2>1. draft[a].action \in Outcomes
    BY <1>1 DEF DraftsWellFormed, Settle
  <2>2. draft[a].action \in States /\ draft[a].action # "none"
    BY <2>1 DEF Outcomes, States, Terminal
  <2>3. state' \in [Events -> States] /\ state' = [state EXCEPT ![job[a]] = draft[a].action]
    BY <1>1, <1>5, <2>2 DEF Receipt, TypeOK
  <2>4. lease' \in [Events -> Attempts \cup {NoAttempt}]
    BY <1>1, <1>5 DEF Receipt, TypeOK
  <2>5. TypeOK'
    BY <1>1, <1>2, <1>3, <1>5, <2>2, <2>3, <2>4, ReturnKeeps DEF TypeOK, Receipt, memoryVars
  <2>6. AttemptsHaveRows'
    <3>1. SUFFICES ASSUME NEW b \in Attempts, pc'[b] # "idle"
                   PROVE  job'[b] \in Events /\ state'[job'[b]] # "none"
      BY DEF AttemptsHaveRows
    <3>2. b # a /\ pc'[b] = pc[b] /\ job'[b] = job[b]
      BY <1>1, <1>2, <1>5, <2>2, <3>1, ReturnKeeps
    <3> QED
      BY <1>1, <2>2, <2>3, <3>1, <3>2 DEF AttemptsHaveRows, TypeOK
  <2>7. DraftsWellFormed'
    <3>1. /\ pc'[a] = "idle" /\ draft'[a].action = "failed"
          /\ \A b \in Attempts \ {a} : pc'[b] = pc[b] /\ draft'[b] = draft[b]
      BY <1>1, <1>2, <1>5, <2>2, ReturnKeeps
    <3> QED
      BY <1>1, <3>1 DEF DraftsWellFormed
  <2>8. UnopenedUnpaid'
    BY <1>1, <1>3, <2>2, <2>3 DEF UnopenedUnpaid, TypeOK
  <2> QED
    BY <2>5, <2>6, <2>7, <2>8 DEF JournalInv
<1> QED
  BY <1>4, <1>5 DEF Settle

LEMMA RefusalKeepsJournal ==
    ASSUME JournalInv, NEW a \in Attempts, CommitRefused(a)
    PROVE  JournalInv'
<1>1. TypeOK /\ AttemptsHaveRows /\ DraftsWellFormed /\ UnopenedUnpaid
  BY DEF JournalInv
<1>2. pc[a] # "idle" /\ UNCHANGED <<rowVars, memoryVars, fenced, cache, paid>>
  BY DEF CommitRefused
<1>3. CASE \E o \in Outcomes : Conclude(a, "settle", o)
  BY <1>2, <1>3, ConcludeOnly
<1>4. CASE Goto(a, "elsewhere") /\ KeepScratch /\ UNCHANGED draft
  BY <1>1, <1>2, <1>4, MoveOnly DEF KeepScratch, TypeOK, Steps
<1>5. CASE /\ round[a] < MaxDecisionAttempts
           /\ round' = [round EXCEPT ![a] = @ + 1]
           /\ Goto(a, "gather")
           /\ UNCHANGED <<job, calls, seen, draft, cancelled, answer>>
  <2>1. round' \in [Attempts -> 0..MaxDecisionAttempts]
    BY <1>1, <1>5, ConstantsAssumption DEF TypeOK
  <2> QED
    BY <1>1, <1>2, <1>5, <2>1, MoveOnly DEF TypeOK, Steps
<1> QED
  BY <1>3, <1>4, <1>5 DEF CommitRefused, Outcomes

(* The blobs and versions a commit leaves are of their types.              *)
LEMMA SemanticWriteTypes ==
    ASSUME JournalInv, NEW a \in Attempts, CommitWrite(a)
    PROVE  /\ version' \in [Blobs -> Nat]
           /\ live' \in SUBSET Blobs
           /\ writes' \in SUBSET [event: Events \cup {Owner}, action: {"rewrite", "drop"},
                                  blob: Blobs, base: Nat]
<1> DEFINE Log == [event: Events \cup {Owner}, action: {"rewrite", "drop"},
                   blob: Blobs, base: Nat]
<1>1. TypeOK /\ AttemptsHaveRows /\ DraftsWellFormed
  BY DEF JournalInv
<1>2. job[a] \in Events
  BY <1>1 DEF AttemptsHaveRows, CommitWrite
<1>3. ASSUME NEW b \in Blobs, NEW n \in Nat, NEW k \in {"rewrite", "drop"}
      PROVE  Write(job[a], k, b, n) \in Log
  BY <1>2 DEF Write
<1>4. \A b \in Blobs : seen[a][b] \in Nat
  BY <1>1 DEF TypeOK
<1>5. CASE SemanticCreate(a)
  <2>1. PICK b \in Blobs \ live :
           /\ version' = [version EXCEPT ![b] = 1]
           /\ live' = live \cup {b}
           /\ writes' = writes \cup {Write(job[a], "rewrite", b, 0)}
    BY <1>5 DEF SemanticCreate
  <2>2. Write(job[a], "rewrite", b, 0) \in Log
    BY <1>3
  <2> QED
    BY <1>1, <2>1, <2>2 DEF TypeOK
<1>6. CASE draft[a].action = "UPDATE" /\ SemanticUpdate(a)
  <2>1. draft[a].target \in Blobs
    BY <1>1, <1>6 DEF DraftsWellFormed
  <2>2. /\ version' = [version EXCEPT ![draft[a].target] = @ + 1]
        /\ live' = live
        /\ writes' = writes \cup {Write(job[a], "rewrite", draft[a].target,
                                        seen[a][draft[a].target])}
    BY <1>6 DEF SemanticUpdate
  <2>3. Write(job[a], "rewrite", draft[a].target, seen[a][draft[a].target]) \in Log
    BY <1>3, <1>4, <2>1
  <2>4. version \in [Blobs -> Nat] /\ live \in SUBSET Blobs /\ writes \in SUBSET Log
    BY <1>1 DEF TypeOK
  <2> QED
    BY <2>1, <2>2, <2>3, <2>4
<1>7. CASE draft[a].action = "MERGE" /\ SemanticMerge(a)
  <2> DEFINE keeper == draft[a].target
             donor == draft[a].donor
  <2>1. keeper \in Blobs /\ donor \in Blobs
    BY <1>1, <1>7 DEF DraftsWellFormed
  <2>2. /\ version' = [version EXCEPT ![keeper] = @ + 1]
        /\ live' = live \ {donor}
        /\ writes' = writes \cup {Write(job[a], "rewrite", keeper, seen[a][keeper]),
                                  Write(job[a], "drop", donor, seen[a][donor])}
    BY <1>7 DEF SemanticMerge
  <2>3. Write(job[a], "rewrite", keeper, seen[a][keeper]) \in Log
        /\ Write(job[a], "drop", donor, seen[a][donor]) \in Log
    BY <1>3, <1>4, <2>1
  <2>4. version \in [Blobs -> Nat] /\ live \in SUBSET Blobs /\ writes \in SUBSET Log
    BY <1>1 DEF TypeOK
  <2>5. version' \in [Blobs -> Nat]
    BY <2>1, <2>2, <2>4
  <2>6. live' \in SUBSET Blobs /\ writes' \in SUBSET Log
    <3> HIDE DEF keeper, donor, Log
    <3> QED
      BY <2>2, <2>3, <2>4
  <2> QED
    BY <2>5, <2>6
<1> QED
  BY <1>5, <1>6, <1>7 DEF CommitWrite

LEMMA CommitKeepsJournal ==
    ASSUME JournalInv, NEW a \in Attempts, CommitWrite(a)
    PROVE  JournalInv'
<1>1. TypeOK /\ AttemptsHaveRows /\ DraftsWellFormed /\ UnopenedUnpaid
  BY DEF JournalInv
<1>2. job[a] \in Events /\ pc[a] # "idle" /\ Return(a, "committed")
      /\ UNCHANGED <<allowance, pairedAt, fenced, cache, paid>>
  BY <1>1 DEF AttemptsHaveRows, CommitWrite, Receipt
<1>3. /\ state' = [state EXCEPT ![job[a]] = "committed"]
      /\ lease' = [lease EXCEPT ![job[a]] = NoAttempt]
  BY DEF CommitWrite, Receipt, Terminal
<1>4. state' \in [Events -> States] /\ lease' \in [Events -> Attempts \cup {NoAttempt}]
  BY <1>1, <1>3 DEF TypeOK, States, Terminal
<1>5. "committed" \in States
  BY DEF States, Terminal
<1>6. TypeOK'
  BY <1>1, <1>2, <1>4, <1>5, ReturnKeeps, SemanticWriteTypes DEF TypeOK
<1>7. AttemptsHaveRows'
  <2>1. SUFFICES ASSUME NEW b \in Attempts, pc'[b] # "idle"
                 PROVE  job'[b] \in Events /\ state'[job'[b]] # "none"
    BY DEF AttemptsHaveRows
  <2>2. b # a /\ pc'[b] = pc[b] /\ job'[b] = job[b]
    BY <1>1, <1>2, <1>5, <2>1, ReturnKeeps
  <2> QED
    BY <1>1, <1>3, <2>1, <2>2 DEF AttemptsHaveRows, TypeOK
<1>8. DraftsWellFormed'
  BY <1>1, <1>2, <1>5, ReturnKeeps DEF DraftsWellFormed
<1>9. UnopenedUnpaid'
  BY <1>1, <1>2, <1>3 DEF UnopenedUnpaid, TypeOK
<1> QED
  BY <1>6, <1>7, <1>8, <1>9 DEF JournalInv

LEMMA OutsideKeepsJournal ==
    ASSUME JournalInv,
           \/ \E a \in Attempts : Cancel(a)
           \/ \E g \in Engines : Crash(g)
           \/ \E e \in Events : Dismiss(e) \/ Retry(e)
           \/ PlaceFence \/ ReleaseFence
           \/ \E b \in Blobs : Restore(b) \/ Delete(b)
    PROVE  JournalInv'
<1>1. TypeOK /\ AttemptsHaveRows /\ DraftsWellFormed /\ UnopenedUnpaid
  BY DEF JournalInv
<1>2. ASSUME NEW a \in Attempts, Cancel(a) PROVE JournalInv'
  BY <1>1, <1>2 DEF JournalInv, TypeOK, AttemptsHaveRows, DraftsWellFormed, UnopenedUnpaid,
                    Cancel, rowVars, memoryVars
<1>3. ASSUME NEW g \in Engines, Crash(g) PROVE JournalInv'
  <2>1. /\ Outcome("failed") \in Drafts
        /\ Outcome("failed").action = "failed"
        /\ NoAnswer \in [event: Events \cup {NoEvent}, outcome: States \cup {"refused"}]
        /\ [e \in Events |-> 0] \in [Events -> 0..Allowance]
        /\ 0 \in 0..MaxDecisionAttempts
    BY ConstantsAssumption DEF Outcome, Draft, Drafts, Outcomes, NoAnswer, Answer, States
  <2>2. UNCHANGED <<rowVars, memoryVars, fenced, paid>>
    BY <1>3 DEF Crash
  <2>3. /\ pc' \in [Attempts -> Steps] /\ job' \in [Attempts -> Events \cup {NoEvent}]
        /\ round' \in [Attempts -> 0..MaxDecisionAttempts] /\ calls' \in [Attempts -> Nat]
    BY <1>1, <1>3, <2>1 DEF Crash, TypeOK, Steps
  <2>4. /\ seen' \in [Attempts -> [Blobs -> Nat]]
        /\ draft' \in [Attempts -> Drafts]
        /\ cancelled' \in [Attempts -> BOOLEAN]
    BY <1>1, <1>3, <2>1 DEF Crash, TypeOK
  <2>5. answer' \in [Attempts -> [event: Events \cup {NoEvent},
                                  outcome: States \cup {"refused"}]]
        /\ cache' \in [Engines -> [Events -> 0..Allowance]]
    BY <1>1, <1>3, <2>1 DEF Crash, TypeOK
  <2>6. TypeOK'
    BY <1>1, <2>2, <2>3, <2>4, <2>5 DEF TypeOK, rowVars, memoryVars
  <2>7. AttemptsHaveRows' /\ DraftsWellFormed' /\ UnopenedUnpaid'
    BY <1>1, <1>3, <2>1, <2>2
       DEF Crash, AttemptsHaveRows, DraftsWellFormed, UnopenedUnpaid, rowVars
  <2> QED
    BY <2>6, <2>7 DEF JournalInv
<1>4. ASSUME NEW e \in Events, Dismiss(e) \/ Retry(e) PROVE JournalInv'
  <2>1. Allowance \in 0..Allowance
    BY ConstantsAssumption
  <2>2. /\ \E s \in {"skipped", "failed"} : state' = [state EXCEPT ![e] = s]
        /\ lease' = [lease EXCEPT ![e] = NoAttempt]
        /\ allowance' = [allowance EXCEPT ![e] = Allowance] \/ UNCHANGED allowance
        /\ paid' = [paid EXCEPT ![e] = 0] \/ UNCHANGED paid
        /\ UNCHANGED <<pairedAt, memoryVars, attemptVars, fenced, cache>>
    BY <1>4 DEF Dismiss, Retry
  <2>3. /\ state' \in [Events -> States]
        /\ lease' \in [Events -> Attempts \cup {NoAttempt}]
        /\ allowance' \in [Events -> 0..Allowance]
        /\ paid' \in [Events -> Nat]
    <3>1. {"skipped", "failed"} \subseteq States
      BY DEF States, Terminal
    <3>2. allowance' \in [Events -> 0..Allowance]
      BY <1>1, <2>1, <2>2 DEF TypeOK
    <3>3. paid' \in [Events -> Nat]
      <4>1. paid \in [Events -> Nat] /\ 0 \in Nat
        BY <1>1 DEF TypeOK
      <4> QED
        BY <2>2, <4>1
    <3>4. state' \in [Events -> States] /\ lease' \in [Events -> Attempts \cup {NoAttempt}]
      BY <1>1, <2>2, <3>1 DEF TypeOK
    <3> QED
      BY <3>2, <3>3, <3>4
  <2>4. TypeOK'
    BY <1>1, <2>2, <2>3 DEF TypeOK, memoryVars, attemptVars
  <2>5. AttemptsHaveRows' /\ DraftsWellFormed' /\ UnopenedUnpaid'
    BY <1>1, <2>2 DEF AttemptsHaveRows, DraftsWellFormed, UnopenedUnpaid, attemptVars, TypeOK
  <2> QED
    BY <2>4, <2>5 DEF JournalInv
<1>5. ASSUME PlaceFence \/ ReleaseFence PROVE JournalInv'
  BY <1>1, <1>5 DEF JournalInv, TypeOK, AttemptsHaveRows, DraftsWellFormed, UnopenedUnpaid,
                    PlaceFence, ReleaseFence, rowVars, memoryVars, attemptVars
<1>6. ASSUME NEW b \in Blobs, Restore(b) \/ Delete(b) PROVE JournalInv'
  <2>1. /\ version' \in [Blobs -> Nat] /\ live' \in SUBSET Blobs
        /\ \E k \in {"rewrite", "drop"} :
              writes' = writes \cup {Write(Owner, k, b, version[b])}
        /\ UNCHANGED <<rowVars, attemptVars, fenced, cache, paid>>
    <3>1. CASE Restore(b)
      BY <1>1, <3>1 DEF Restore, TypeOK
    <3>2. CASE Delete(b)
      BY <1>1, <3>2 DEF Delete, TypeOK
    <3> QED
      BY <1>6, <3>1, <3>2
  <2>2. writes' \in SUBSET [event: Events \cup {Owner}, action: {"rewrite", "drop"},
                            blob: Blobs, base: Nat]
    BY <1>1, <2>1 DEF TypeOK, Write
  <2>3. TypeOK'
    BY <1>1, <2>1, <2>2 DEF TypeOK, rowVars, attemptVars
  <2>4. AttemptsHaveRows' /\ DraftsWellFormed' /\ UnopenedUnpaid'
    BY <1>1, <2>1 DEF AttemptsHaveRows, DraftsWellFormed, UnopenedUnpaid, rowVars, attemptVars
  <2> QED
    BY <2>3, <2>4 DEF JournalInv
<1> QED
  BY <1>2, <1>3, <1>4, <1>5, <1>6

------------------------------------------------------------------------------
LEMMA InitJournal == ASSUME Init PROVE JournalInv
<1>1. /\ Outcome("failed") \in Drafts
      /\ Outcome("failed").action = "failed"
      /\ NoAnswer \in [event: Events \cup {NoEvent}, outcome: States \cup {"refused"}]
      /\ 0 \in 0..MaxDecisionAttempts /\ 0 \in 0..Allowance
      /\ InitialBlobs \in SUBSET Blobs
  BY ConstantsAssumption DEF Outcome, Draft, Drafts, Outcomes, NoAnswer, Answer, States
<1>2. TypeOK
  <2>1. /\ state \in [Events -> States]
        /\ lease \in [Events -> Attempts \cup {NoAttempt}]
        /\ allowance \in [Events -> 0..Allowance]
        /\ pairedAt \in [Events -> [Blobs -> Nat]]
        /\ paid \in [Events -> Nat]
    BY <1>1 DEF Init, States
  <2>2. /\ fenced \in BOOLEAN
        /\ version \in [Blobs -> Nat]
        /\ live \in SUBSET Blobs
        /\ cache \in [Engines -> [Events -> 0..Allowance]]
        /\ writes = {}
    BY <1>1 DEF Init
  <2>3. /\ pc \in [Attempts -> Steps]
        /\ job \in [Attempts -> Events \cup {NoEvent}]
        /\ round \in [Attempts -> 0..MaxDecisionAttempts]
        /\ calls \in [Attempts -> Nat]
        /\ seen \in [Attempts -> [Blobs -> Nat]]
        /\ draft \in [Attempts -> Drafts]
        /\ cancelled \in [Attempts -> BOOLEAN]
        /\ answer \in [Attempts -> [event: Events \cup {NoEvent},
                                    outcome: States \cup {"refused"}]]
    BY <1>1 DEF Init, Steps
  <2> QED
    BY <2>1, <2>2, <2>3 DEF TypeOK
<1>3. AttemptsHaveRows /\ DraftsWellFormed /\ UnopenedUnpaid
  BY <1>1 DEF Init, AttemptsHaveRows, DraftsWellFormed, UnopenedUnpaid
<1> QED
  BY <1>2, <1>3 DEF JournalInv

LEMMA StepKeepsJournal == JournalInv /\ [Next]_vars => JournalInv'
<1> SUFFICES ASSUME JournalInv, [Next]_vars PROVE JournalInv'
  OBVIOUS
<1>1. CASE UNCHANGED vars
  BY <1>1 DEF JournalInv, TypeOK, AttemptsHaveRows, DraftsWellFormed, UnopenedUnpaid,
              vars, rowVars, memoryVars, attemptVars
<1>2. ASSUME NEW a \in Attempts, Step(a) PROVE JournalInv'
  BY <1>2, ClaimKeepsJournal, RoundKeepsJournal, DecisionKeepsJournal, CommitKeepsJournal,
     RefusalKeepsJournal, SettleKeepsJournal DEF Step
<1>3. ASSUME NEW a \in Attempts, NEW e \in Events, Submit(a, e) \/ RefuseInput(a, e)
      PROVE  JournalInv'
  BY <1>3, SubmitKeepsJournal
<1>4. CASE \/ \E a \in Attempts : Cancel(a)
           \/ \E g \in Engines : Crash(g)
           \/ \E e \in Events : Dismiss(e) \/ Retry(e)
           \/ PlaceFence \/ ReleaseFence
           \/ \E b \in Blobs : Restore(b) \/ Delete(b)
  BY <1>4, OutsideKeepsJournal
<1> QED
  BY <1>1, <1>2, <1>3, <1>4 DEF Next

(* The types of the specification hold in every state it reaches, with the *)
(* facts an attempt relies on between two transactions of submit().        *)
THEOREM JournalInvariant == Spec => []JournalInv
<1> QED
  BY InitJournal, StepKeepsJournal, PTL DEF Spec

THEOREM TypeCorrect == Spec => []TypeOK
<1>1. JournalInv => TypeOK
  BY DEF JournalInv
<1> QED
  BY <1>1, JournalInvariant, PTL

------------------------------------------------------------------------------
(* Exactly once: the memory and the journal change together or not at all. *)

(* Only the commit's own transaction makes a row committed, and no step    *)
(* makes a committed row anything else.                                    *)
Recorded(e) == state[e] = "committed"

LEMMA QuietStep ==
    ASSUME MemoryInv, UNCHANGED memoryVars,
           \A e \in Events : Recorded(e)' = Recorded(e)
    PROVE  MemoryInv'
BY DEF MemoryInv, memoryVars, Recorded, CommittedIffWritten, OneWritePerEvent,
       WritesBehindVersion, NoLostUpdate

LEMMA OnlyCommitRecords ==
    ASSUME JournalInv, NEW a \in Attempts,
           \/ Claim(a) \/ Reread(a) \/ Gather(a) \/ IssueGrant(a) \/ Admit(a)
           \/ Spend(a) \/ Reply(a) \/ RecordAttempt(a)
           \/ CommitRefused(a) \/ Settle(a) \/ Elsewhere(a) \/ Fails(a) \/ Cancel(a)
    PROVE  UNCHANGED memoryVars /\ \A e \in Events : Recorded(e)' = Recorded(e)
<1>1. CASE Settle(a)
  <2>1. \/ UNCHANGED rowVars
        \/ ~IsTerminal(job[a]) /\ state' = [state EXCEPT ![job[a]] = draft[a].action]
    BY <1>1 DEF Settle, Receipt
  <2>2. draft[a].action # "committed"
    BY <1>1 DEF JournalInv, DraftsWellFormed, Settle, Outcomes
  <2>3. state \in [Events -> States]
    BY DEF JournalInv, TypeOK
  <2>4. UNCHANGED memoryVars
    BY <1>1 DEF Settle
  <2> QED
    BY <2>1, <2>2, <2>3, <2>4 DEF Recorded, IsTerminal, Terminal, rowVars
<1>2. CASE Claim(a) \/ Reread(a) \/ Gather(a) \/ IssueGrant(a) \/ Admit(a)
  BY <1>2 DEF Claim, Reread, Gather, IssueGrant, Admit, Recorded, rowVars
<1>3. CASE \/ Spend(a) \/ Reply(a) \/ RecordAttempt(a) \/ CommitRefused(a)
           \/ Elsewhere(a) \/ Fails(a) \/ Cancel(a)
  BY <1>3 DEF Spend, Reply, RecordAttempt, CommitRefused, Elsewhere, Fails, Cancel,
              Recorded, rowVars
<1> QED
  BY <1>1, <1>2, <1>3

LEMMA OutsideRecordsNothing ==
    ASSUME JournalInv,
           \/ \E a \in Attempts, e \in Events : Submit(a, e) \/ RefuseInput(a, e)
           \/ \E g \in Engines : Crash(g)
           \/ \E e \in Events : Dismiss(e) \/ Retry(e)
           \/ PlaceFence \/ ReleaseFence
    PROVE  UNCHANGED memoryVars /\ \A e \in Events : Recorded(e)' = Recorded(e)
<1>1. state \in [Events -> States]
  BY DEF JournalInv, TypeOK
<1>2. ASSUME NEW a \in Attempts, NEW e \in Events, Submit(a, e) \/ RefuseInput(a, e)
      PROVE  UNCHANGED memoryVars /\ \A f \in Events : Recorded(f)' = Recorded(f)
  <2>1. \/ UNCHANGED state
        \/ state[e] = "none" /\ state' = [state EXCEPT ![e] = "pending"]
    BY <1>2 DEF Submit, RefuseInput, CreateRow, rowVars
  <2>2. UNCHANGED memoryVars
    BY <1>2 DEF Submit, RefuseInput
  <2> QED
    BY <1>1, <2>1, <2>2 DEF Recorded
<1>3. ASSUME NEW e \in Events, Dismiss(e) \/ Retry(e)
      PROVE  UNCHANGED memoryVars /\ \A f \in Events : Recorded(f)' = Recorded(f)
  <2>1. state[e] # "committed" /\ \E s \in {"skipped", "failed"} : state' = [state EXCEPT ![e] = s]
    BY <1>3 DEF Dismiss, Retry, Unsettled
  <2>2. UNCHANGED memoryVars
    BY <1>3 DEF Dismiss, Retry
  <2> QED
    BY <1>1, <2>1, <2>2 DEF Recorded
<1>4. ASSUME (\E g \in Engines : Crash(g)) \/ PlaceFence \/ ReleaseFence
      PROVE  UNCHANGED memoryVars /\ \A f \in Events : Recorded(f)' = Recorded(f)
  BY <1>4 DEF Crash, PlaceFence, ReleaseFence, Recorded, rowVars
<1> QED
  BY <1>2, <1>3, <1>4

(* A write of the current version of a live blob, or of a blob nobody      *)
(* wrote before, collides with no earlier write.                           *)
LEMMA FreshBase ==
    ASSUME JournalInv, MemoryInv, NEW b \in Blobs, NEW w \in writes,
           b \in live \/ version[b] = 0
    PROVE  ~(w.blob = b /\ w.base = version[b])
<1>1. /\ version[w.blob] > 0
      /\ w.action = "rewrite" => w.base < version[w.blob]
      /\ w.action = "drop" => w.blob \notin live
      /\ w.action \in {"rewrite", "drop"}
      /\ w.blob \in Blobs /\ w.base \in Nat
  BY DEF MemoryInv, WritesBehindVersion, JournalInv, TypeOK
<1>2. version[b] \in Nat
  BY DEF JournalInv, TypeOK
<1> QED
  BY <1>1, <1>2

LEMMA OwnerKeepsMemory ==
    ASSUME JournalInv, MemoryInv, NEW b \in Blobs, Restore(b) \/ Delete(b)
    PROVE  MemoryInv'
<1>1. /\ version \in [Blobs -> Nat] /\ live \subseteq Blobs
      /\ writes \subseteq [event: Events \cup {Owner}, action: {"rewrite", "drop"},
                         blob: Blobs, base: Nat]
  BY DEF JournalInv, TypeOK
<1>2. b \in live /\ UNCHANGED state
  BY DEF Restore, Delete, rowVars
<1>3. PICK k \in {"rewrite", "drop"} :
         /\ writes' = writes \cup {Write(Owner, k, b, version[b])}
         /\ k = "rewrite" => version' = [version EXCEPT ![b] = @ + 1] /\ live' = live
         /\ k = "drop" => live' = live \ {b} /\ version' = version
  BY DEF Restore, Delete
<1>4. Owner \notin Events
  BY ConstantsAssumption
<1> DEFINE new == Write(Owner, k, b, version[b])
<1>5. new.event = Owner /\ new.action = k /\ new.blob = b /\ new.base = version[b]
  BY DEF Write
<1>6. CommittedIffWritten'
  BY <1>2, <1>3, <1>4, <1>5 DEF MemoryInv, CommittedIffWritten
<1>7. OneWritePerEvent'
  BY <1>3, <1>5 DEF MemoryInv, OneWritePerEvent
<1>8. NoLostUpdate'
  BY <1>2, <1>3, <1>5, FreshBase DEF MemoryInv, NoLostUpdate
<1>9. WritesBehindVersion'
  <2>1. CASE k = "rewrite"
    BY <1>1, <1>2, <1>3, <1>5, <2>1 DEF MemoryInv, WritesBehindVersion
  <2>2. CASE k = "drop"
    BY <1>1, <1>2, <1>3, <1>5, <2>2 DEF MemoryInv, WritesBehindVersion
  <2> QED
    BY <2>1, <2>2
<1> QED
  BY <1>6, <1>7, <1>8, <1>9 DEF MemoryInv

(* What a commit writes: one rewrite, and for a merge the donor's drop,    *)
(* each decided on the version that is current under the lock.             *)
LEMMA CommitWrites ==
    ASSUME JournalInv, NEW a \in Attempts, CommitWrite(a)
    PROVE  /\ job[a] \in Events /\ ~Recorded(job[a])
           /\ state' = [state EXCEPT ![job[a]] = "committed"]
           /\ \E b \in Blobs, D \in SUBSET Blobs :
                /\ b \in live \/ version[b] = 0
                /\ b \notin D /\ D \subseteq live
                /\ \A c, d \in D : c = d
                /\ version' = [version EXCEPT ![b] = @ + 1]
                /\ live' = (live \cup {b}) \ D
                /\ writes' = writes \cup {Write(job[a], "rewrite", b, version[b])}
                                    \cup {Write(job[a], "drop", d, version[d]) : d \in D}
<1>1. TypeOK /\ AttemptsHaveRows /\ DraftsWellFormed
  BY DEF JournalInv
<1>2. job[a] \in Events /\ ~Recorded(job[a])
  BY <1>1 DEF AttemptsHaveRows, CommitWrite, Owns, IsTerminal, Terminal, Recorded
<1>3. state' = [state EXCEPT ![job[a]] = "committed"]
  BY DEF CommitWrite, Receipt
<1> DEFINE Shape(b, D) ==
       /\ b \in live \/ version[b] = 0
       /\ b \notin D /\ D \subseteq live
       /\ \A c, d \in D : c = d
       /\ version' = [version EXCEPT ![b] = @ + 1]
       /\ live' = (live \cup {b}) \ D
       /\ writes' = writes \cup {Write(job[a], "rewrite", b, version[b])}
                           \cup {Write(job[a], "drop", d, version[d]) : d \in D}
<1>4. CASE SemanticCreate(a)
  <2>1. PICK b \in Blobs \ live :
           /\ version[b] = 0
           /\ version' = [version EXCEPT ![b] = 1]
           /\ live' = live \cup {b}
           /\ writes' = writes \cup {Write(job[a], "rewrite", b, 0)}
    BY <1>4 DEF SemanticCreate
  <2>2. Shape(b, {})
    BY <2>1
  <2> QED
    BY <1>2, <1>3, <2>2
<1>5. CASE draft[a].action = "UPDATE" /\ SemanticUpdate(a)
  <2>1. Current(a, draft[a].target) /\ draft[a].target \in Blobs
    BY <1>1, <1>5 DEF CommitWrite, Fresh, DraftsWellFormed
  <2>2. Shape(draft[a].target, {})
    BY <1>5, <2>1 DEF SemanticUpdate, Current
  <2> QED
    BY <1>2, <1>3, <2>1, <2>2
<1>6. CASE draft[a].action = "MERGE" /\ SemanticMerge(a)
  <2>1. /\ Current(a, draft[a].target) /\ Current(a, draft[a].donor)
        /\ draft[a].target \in Blobs /\ draft[a].donor \in Blobs
        /\ draft[a].target # draft[a].donor
    BY <1>1, <1>6 DEF CommitWrite, Fresh, DraftsWellFormed
  <2>2. Shape(draft[a].target, {draft[a].donor})
    BY <1>6, <2>1 DEF SemanticMerge, Current
  <2> QED
    BY <1>2, <1>3, <2>1, <2>2
<1> QED
  BY <1>4, <1>5, <1>6 DEF CommitWrite

LEMMA CommitKeepsMemory ==
    ASSUME JournalInv, MemoryInv, NEW a \in Attempts, CommitWrite(a)
    PROVE  MemoryInv'
<1>1. /\ version \in [Blobs -> Nat] /\ live \subseteq Blobs /\ state \in [Events -> States]
      /\ writes \subseteq [event: Events \cup {Owner}, action: {"rewrite", "drop"},
                         blob: Blobs, base: Nat]
  BY DEF JournalInv, TypeOK
<1> DEFINE e == job[a]
<1>2. e \in Events /\ ~Recorded(e) /\ state' = [state EXCEPT ![e] = "committed"]
  BY CommitWrites
<1>3. PICK b \in Blobs, D \in SUBSET Blobs :
         /\ b \in live \/ version[b] = 0
         /\ b \notin D /\ D \subseteq live
         /\ \A c, d \in D : c = d
         /\ version' = [version EXCEPT ![b] = @ + 1]
         /\ live' = (live \cup {b}) \ D
         /\ writes' = writes \cup {Write(e, "rewrite", b, version[b])}
                             \cup {Write(e, "drop", d, version[d]) : d \in D}
  BY CommitWrites
<1> HIDE DEF e
<1>4. ASSUME NEW k, NEW c, NEW n
      PROVE  /\ Write(e, k, c, n).event = e /\ Write(e, k, c, n).action = k
             /\ Write(e, k, c, n).blob = c /\ Write(e, k, c, n).base = n
  BY DEF Write
<1>5. \A w \in writes : w.event # e
  BY <1>2 DEF MemoryInv, CommittedIffWritten, Recorded
<1>6. \A w \in writes' \ writes :
         /\ w.event = e
         /\ \/ w.action = "rewrite" /\ w.blob = b /\ w.base = version[b]
               /\ w = Write(e, "rewrite", b, version[b])
            \/ w.action = "drop" /\ w.blob \in D /\ w.base = version[w.blob]
               /\ w = Write(e, "drop", w.blob, version[w.blob])
  BY <1>3, <1>4
<1>7. Write(e, "rewrite", b, version[b]) \in writes' /\ writes \subseteq writes'
  BY <1>3
<1>8. CommittedIffWritten'
  <2>1. SUFFICES ASSUME NEW f \in Events
                 PROVE  state'[f] = "committed" <=> \E w \in writes' : w.event = f
    BY DEF CommittedIffWritten
  <2>2. CASE f = e
    BY <1>1, <1>2, <1>4, <1>7, <2>2
  <2>3. CASE f # e
    BY <1>1, <1>2, <1>6, <1>7, <2>3 DEF MemoryInv, CommittedIffWritten
  <2> QED
    BY <2>2, <2>3
<1>9. OneWritePerEvent'
  <2>1. SUFFICES ASSUME NEW v \in writes', NEW w \in writes', v.event = w.event,
                        v.event # Owner, v.action = w.action
                 PROVE  v = w
    BY DEF OneWritePerEvent
  <2>2. CASE v \in writes /\ w \in writes
    BY <2>1, <2>2 DEF MemoryInv, OneWritePerEvent
  <2>3. CASE v \notin writes /\ w \notin writes
    BY <1>3, <1>6, <2>1, <2>3
  <2> QED
    BY <1>5, <1>6, <2>1, <2>2, <2>3
<1>10. NoLostUpdate'
  <2>1. SUFFICES ASSUME NEW v \in writes', NEW w \in writes', v.blob = w.blob, v.base = w.base
                 PROVE  v = w
    BY DEF NoLostUpdate
  <2>2. CASE v \in writes /\ w \in writes
    BY <2>1, <2>2 DEF MemoryInv, NoLostUpdate
  <2>3. CASE v \notin writes /\ w \notin writes
    BY <1>3, <1>6, <2>1, <2>3
  <2>4. ASSUME NEW x \in writes, NEW y \in writes' \ writes
        PROVE  ~(x.blob = y.blob /\ x.base = y.base)
    BY <1>3, <1>6, <2>4, FreshBase
  <2> QED
    BY <2>1, <2>2, <2>3, <2>4
<1>11. WritesBehindVersion'
  <2>1. \A c \in Blobs : version'[c] = IF c = b THEN version[c] + 1 ELSE version[c]
    BY <1>1, <1>3
  <2>2. \A c \in live' : version'[c] > 0
    BY <1>1, <1>3, <2>1 DEF MemoryInv, WritesBehindVersion
  <2>3. ASSUME NEW w \in writes
        PROVE  /\ version'[w.blob] > 0
               /\ w.action = "rewrite" => w.base < version'[w.blob]
               /\ w.action = "drop" => w.blob \notin live'
    <3>1. /\ version[w.blob] > 0
          /\ w.action = "rewrite" => w.base < version[w.blob]
          /\ w.action = "drop" => w.blob \notin live
          /\ w.blob \in Blobs /\ w.base \in Nat /\ version[w.blob] \in Nat
      BY <1>1 DEF MemoryInv, WritesBehindVersion
    <3> QED
      BY <1>3, <2>1, <3>1
  <2>4. ASSUME NEW w \in writes' \ writes
        PROVE  /\ version'[w.blob] > 0
               /\ w.action = "rewrite" => w.base < version'[w.blob]
               /\ w.action = "drop" => w.blob \notin live'
    <3>1. CASE w.action = "rewrite"
      BY <1>1, <1>6, <2>1, <2>4, <3>1
    <3>2. CASE w.action = "drop"
      <4>1. w.blob \in D /\ w.blob \in live /\ w.blob # b
        BY <1>3, <1>6, <2>4, <3>2
      <4>2. version[w.blob] > 0
        BY <4>1 DEF MemoryInv, WritesBehindVersion
      <4> QED
        BY <1>1, <1>3, <2>1, <3>2, <4>1, <4>2
    <3> QED
      BY <1>6, <2>4, <3>1, <3>2
  <2> QED
    BY <2>2, <2>3, <2>4 DEF WritesBehindVersion
<1> QED
  BY <1>8, <1>9, <1>10, <1>11 DEF MemoryInv

LEMMA InitMemory == ASSUME Init PROVE MemoryInv
<1>1. InitialBlobs \subseteq Blobs
  BY ConstantsAssumption
<1> QED
  BY <1>1 DEF Init, MemoryInv, CommittedIffWritten, OneWritePerEvent, WritesBehindVersion,
              NoLostUpdate

LEMMA StepKeepsMemory == JournalInv /\ MemoryInv /\ [Next]_vars => MemoryInv'
<1> SUFFICES ASSUME JournalInv, MemoryInv, [Next]_vars PROVE MemoryInv'
  OBVIOUS
<1>1. CASE UNCHANGED vars
  BY <1>1, QuietStep DEF vars, rowVars, Recorded
<1>2. ASSUME NEW a \in Attempts, Step(a) \/ Cancel(a) PROVE MemoryInv'
  BY <1>2, OnlyCommitRecords, QuietStep, CommitKeepsMemory DEF Step
<1>3. CASE \/ \E a \in Attempts, e \in Events : Submit(a, e) \/ RefuseInput(a, e)
           \/ \E g \in Engines : Crash(g)
           \/ \E e \in Events : Dismiss(e) \/ Retry(e)
           \/ PlaceFence \/ ReleaseFence
  BY <1>3, OutsideRecordsNothing, QuietStep
<1>4. ASSUME NEW b \in Blobs, Restore(b) \/ Delete(b) PROVE MemoryInv'
  BY <1>4, OwnerKeepsMemory
<1> QED
  BY <1>1, <1>2, <1>3, <1>4 DEF Next

LEMMA MemoryInvariant == Spec => []MemoryInv
<1> QED
  BY JournalInvariant, InitMemory, StepKeepsMemory, PTL DEF Spec

(* An event changed memory exactly when its row says committed.            *)
THEOREM ExactlyOnce == Spec => []CommittedIffWritten
<1>1. MemoryInv => CommittedIffWritten
  BY DEF MemoryInv
<1> QED
  BY <1>1, MemoryInvariant, PTL

(* One event rewrites one blob once and drops at most one.                 *)
THEOREM OneWrite == Spec => []OneWritePerEvent
<1>1. MemoryInv => OneWritePerEvent
  BY DEF MemoryInv
<1> QED
  BY <1>1, MemoryInvariant, PTL

(* No commit, of whichever engine, replaces a text it did not decide on.   *)
THEOREM NothingLost == Spec => []NoLostUpdate
<1>1. MemoryInv => NoLostUpdate
  BY DEF MemoryInv
<1> QED
  BY <1>1, MemoryInvariant, PTL

------------------------------------------------------------------------------
(* The journal implements the promise.                                     *)

LEMMA InitPromise == ASSUME Init PROVE Promise!Init
BY DEF Init, Promise!Init, Verdict, IsTerminal, Terminal

(* A step that leaves every state alone, and the memory, is a stutter.     *)
LEMMA Stutter ==
    ASSUME UNCHANGED <<state, version, live>>
    PROVE  UNCHANGED <<Verdict, version, live>>
BY DEF Verdict, IsTerminal

(* What changing one row does to the verdicts.                             *)
LEMMA VerdictOf ==
    ASSUME state \in [Events -> States], NEW e \in Events, NEW s \in States,
           state' = [state EXCEPT ![e] = s]
    PROVE  /\ Verdict' = [Verdict EXCEPT ![e] = IF s \in Terminal THEN s ELSE "open"]
           /\ Verdict[e] = IF state[e] \in Terminal THEN state[e] ELSE "open"
BY DEF Verdict, IsTerminal

LEMMA CommitKeepsPromise ==
    ASSUME JournalInv, NEW a \in Attempts, CommitWrite(a)
    PROVE  Promise!Commit(job[a])
<1>1. state \in [Events -> States]
  BY DEF JournalInv, TypeOK
<1>2. job[a] \in Events /\ state' = [state EXCEPT ![job[a]] = "committed"]
  BY CommitWrites
<1>3. ~IsTerminal(job[a])
  BY DEF CommitWrite, Owns
<1>4. Verdict[job[a]] = "open" /\ Verdict' = [Verdict EXCEPT ![job[a]] = "committed"]
  BY <1>1, <1>2, <1>3, VerdictOf DEF IsTerminal, States, Terminal
<1>5. Promise!Change
  BY CommitWrites DEF Promise!Change
<1> QED
  BY <1>4, <1>5 DEF Promise!Commit

LEMMA SettleKeepsPromise ==
    ASSUME JournalInv, NEW a \in Attempts, Settle(a)
    PROVE  Promise!Decline(job[a]) \/ UNCHANGED <<Verdict, version, live>>
<1>1. state \in [Events -> States] /\ job[a] \in Events
  BY DEF JournalInv, TypeOK, AttemptsHaveRows, Settle
<1>2. draft[a].action \in {"skipped", "review", "failed"}
  BY DEF JournalInv, DraftsWellFormed, Settle, Outcomes
<1>3. UNCHANGED <<version, live>>
  BY DEF Settle, memoryVars
<1>4. CASE UNCHANGED rowVars
  BY <1>3, <1>4, Stutter DEF rowVars
<1>5. CASE ~IsTerminal(job[a]) /\ state' = [state EXCEPT ![job[a]] = draft[a].action]
  <2>1. draft[a].action \in States
    BY <1>2 DEF States, Terminal
  <2>2. /\ Verdict[job[a]] = "open"
        /\ Verdict' = [Verdict EXCEPT ![job[a]] =
                          IF draft[a].action \in Terminal THEN draft[a].action ELSE "open"]
    BY <1>1, <1>5, <2>1, VerdictOf DEF IsTerminal
  <2>3. CASE draft[a].action = "failed"
    <3>1. Verdict' = Verdict
      BY <2>2, <2>3 DEF Terminal, Verdict
    <3> QED
      BY <1>3, <3>1
  <2>4. CASE draft[a].action \in {"skipped", "review"}
    BY <1>3, <2>2, <2>4 DEF Promise!Decline, Promise!memory, Terminal
  <2> QED
    BY <1>2, <2>3, <2>4
<1> QED
  BY <1>4, <1>5 DEF Settle, Receipt

LEMMA OwnerKeepsPromise ==
    ASSUME JournalInv, NEW e \in Events, Dismiss(e) \/ Retry(e)
    PROVE  Promise!Decline(e) \/ Promise!Resolve(e)
<1>1. state \in [Events -> States]
  BY DEF JournalInv, TypeOK
<1>2. UNCHANGED <<version, live>>
  BY DEF Dismiss, Retry, memoryVars
<1>3. CASE Dismiss(e)
  <2>1. state[e] \in Unsettled /\ state' = [state EXCEPT ![e] = "skipped"]
    BY <1>3 DEF Dismiss
  <2>2. /\ Verdict' = [Verdict EXCEPT ![e] = "skipped"]
        /\ Verdict[e] \in {"open", "review"}
    BY <1>1, <2>1, VerdictOf DEF States, Terminal, Unsettled
  <2> QED
    BY <1>2, <2>2 DEF Promise!Decline, Promise!Resolve, Promise!memory
<1>4. CASE Retry(e)
  <2>1. state[e] = "review" /\ state' = [state EXCEPT ![e] = "failed"]
    BY <1>4 DEF Retry
  <2>2. Verdict' = [Verdict EXCEPT ![e] = "open"] /\ Verdict[e] = "review"
    BY <1>1, <2>1, VerdictOf DEF States, Terminal
  <2> QED
    BY <1>2, <2>2 DEF Promise!Resolve, Promise!memory
<1> QED
  BY <1>3, <1>4

LEMMA OpeningIsStutter ==
    ASSUME JournalInv, NEW a \in Attempts, NEW e \in Events, Submit(a, e) \/ RefuseInput(a, e)
    PROVE  UNCHANGED <<Verdict, version, live>>
<1>1. \/ UNCHANGED state
      \/ state[e] = "none" /\ state' = [state EXCEPT ![e] = "pending"]
  BY DEF Submit, RefuseInput, CreateRow, rowVars
<1>2. UNCHANGED <<version, live>>
  BY DEF Submit, RefuseInput, memoryVars
<1>3. state \in [Events -> States]
  BY DEF JournalInv, TypeOK
<1>4. CASE state[e] = "none" /\ state' = [state EXCEPT ![e] = "pending"]
  <2>1. Verdict' = [Verdict EXCEPT ![e] = "open"] /\ Verdict[e] = "open"
    BY <1>3, <1>4, VerdictOf DEF States, Terminal
  <2> QED
    BY <1>2, <2>1 DEF Verdict
<1> QED
  BY <1>1, <1>2, <1>4, Stutter

LEMMA StepKeepsPromise ==
    ASSUME JournalInv, [Next]_vars
    PROVE  [Promise!Next]_<<Verdict, version, live>>
<1>1. CASE UNCHANGED vars
  BY <1>1, Stutter DEF vars, rowVars, memoryVars
<1>2. ASSUME NEW a \in Attempts, Step(a) \/ Cancel(a)
      PROVE  [Promise!Next]_<<Verdict, version, live>>
  <2>1. CASE CommitWrite(a)
    <3>1. job[a] \in Events
      BY <2>1, CommitWrites
    <3> QED
      BY <2>1, <3>1, CommitKeepsPromise DEF Promise!Next
  <2>2. CASE Settle(a)
    <3>1. job[a] \in Events
      BY <2>2 DEF JournalInv, AttemptsHaveRows, Settle
    <3> QED
      BY <2>2, <3>1, SettleKeepsPromise DEF Promise!Next
  <2>3. CASE Claim(a) \/ Reread(a) \/ Gather(a) \/ IssueGrant(a) \/ Admit(a)
    BY <2>3, Stutter DEF Claim, Reread, Gather, IssueGrant, Admit, rowVars, memoryVars
  <2>4. CASE \/ Spend(a) \/ Reply(a) \/ RecordAttempt(a) \/ CommitRefused(a)
             \/ Elsewhere(a) \/ Fails(a) \/ Cancel(a)
    BY <2>4, Stutter DEF Spend, Reply, RecordAttempt, CommitRefused, Elsewhere, Fails, Cancel,
                         rowVars, memoryVars
  <2> QED
    BY <1>2, <2>1, <2>2, <2>3, <2>4 DEF Step
<1>3. ASSUME NEW a \in Attempts, NEW e \in Events, Submit(a, e) \/ RefuseInput(a, e)
      PROVE  [Promise!Next]_<<Verdict, version, live>>
  BY <1>3, OpeningIsStutter
<1>4. ASSUME NEW e \in Events, Dismiss(e) \/ Retry(e)
      PROVE  [Promise!Next]_<<Verdict, version, live>>
  BY <1>4, OwnerKeepsPromise DEF Promise!Next
<1>5. CASE (\E g \in Engines : Crash(g)) \/ PlaceFence \/ ReleaseFence
  BY <1>5, Stutter DEF Crash, PlaceFence, ReleaseFence, rowVars, memoryVars
<1>6. ASSUME NEW b \in Blobs, Restore(b) \/ Delete(b)
      PROVE  [Promise!Next]_<<Verdict, version, live>>
  <2>1. Promise!OwnerChange(b)
    <3>1. Verdict' = Verdict
      BY <1>6 DEF Restore, Delete, rowVars, Verdict, IsTerminal
    <3> QED
      BY <1>6, <3>1 DEF Restore, Delete, Promise!OwnerChange
  <2> QED
    BY <2>1 DEF Promise!Next
<1> QED
  BY <1>1, <1>2, <1>3, <1>4, <1>5, <1>6 DEF Next

(* submit() keeps its promise: every step of the journal's protocol gives  *)
(* one event a verdict with the change of memory it stands for, or is      *)
(* invisible to the caller.                                                *)
THEOREM PromiseKept == Spec => KeepsPromise
<1>1. Init => Promise!Init
  BY InitPromise
<1>2. JournalInv /\ [Next]_vars => [Promise!Next]_<<Verdict, version, live>>
  BY StepKeepsPromise
<1> QED
  BY <1>1, <1>2, JournalInvariant, PTL DEF Spec, KeepsPromise, Promise!Spec
=============================================================================
