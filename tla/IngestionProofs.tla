--------------------------- MODULE IngestionProofs ---------------------------
(***************************************************************************)
(* What holds of Ingestion for every number of workers and entities: a     *)
(* source recorded as committed is complete, and children never outlive    *)
(* the manifest they are resumed from.  The argument is about what a       *)
(* worker still knows after the journal moved on: the settled verdicts it  *)
(* was told are the rows' own, because settled rows never change; and the  *)
(* manifest it follows is the recorded one, because only a worker that     *)
(* holds the parent and saw no manifest writes one.                        *)
(***************************************************************************)
EXTENDS Ingestion, TLAPS

Following == {"children", "deciding", "rereading"}
Starting  == {"idle", "claim", "reread", "manifest", "extract", "record"}

(* A settled verdict a worker was told is the row's own.                   *)
ToldTheTruth ==
    \A w \in Workers, k \in Kids : results[w][k] \in Settled => child[k] = results[w][k]

(* A worker among the children follows the recorded manifest, its children *)
(* have rows, and it was told a verdict for each child behind it.          *)
FollowsManifest ==
    \A w \in Workers :
        /\ pc[w] \in Following =>
              /\ found[w] > 0
              /\ 1..found[w] \subseteq Rows
              /\ parent \notin Settled => found[w] = manifest
              /\ \A k \in Kids : k < turn[w] => results[w][k] \in Verdicts
        /\ pc[w] \in {"deciding", "rereading"} => turn[w] <= found[w]
        /\ pc[w] = "record" => found[w] > 0
        /\ pc[w] \in Starting => turn[w] = 1

(* A settled source keeps no manifest.                                     *)
PrunedWhenSettled == parent \in Settled => manifest = 0

(* A worker that holds the parent after it saw no manifest is the only one *)
(* that may write one.                                                     *)
HolderSawNone ==
    \A w \in Workers : pc[w] \in {"extract", "record"} /\ lease = w => manifest = 0

(* A worker about to settle the parent as committed was told of all of the *)
(* children, and all are settled.                                          *)
CommitIsEarned ==
    \A w \in Workers :
        pc[w] = "settle" =>
            /\ outcome[w] # "none"
            /\ outcome[w] = "committed" =>
                  /\ parent \notin Settled => found[w] = manifest
                  /\ \A k \in 1..found[w] : results[w][k] \in Settled
                  /\ \E k \in 1..found[w] : results[w][k] = "committed"

IngestionInv ==
    /\ TypeOK
    /\ ManifestOfChildren
    /\ PrunedWhenSettled
    /\ ToldTheTruth
    /\ FollowsManifest
    /\ HolderSawNone
    /\ CommitIsEarned
    /\ CommittedIsComplete

------------------------------------------------------------------------------
(* Steps that leave the journal alone.                                     *)

LEMMA GiveUpKeeps ==
    ASSUME IngestionInv, NEW w \in Workers, GiveUp(w), UNCHANGED journalVars,
           fenced' \in BOOLEAN, processed' \in [Workers -> BOOLEAN]
    PROVE  IngestionInv'
<1> USE DEF IngestionInv
<1>0. /\ MaxEntities \in Nat /\ 0 \in 0..MaxEntities /\ 1 \in 1..(MaxEntities + 1)
      /\ [k \in Kids |-> "none"] \in [Kids -> Verdicts \cup {"none"}]
  <2>1. MaxEntities \in Nat
    BY IngestionAssumption
  <2> QED
    BY <2>1
<1>1. /\ pc' = [pc EXCEPT ![w] = "idle"]
      /\ found' = [found EXCEPT ![w] = 0]
      /\ turn' = [turn EXCEPT ![w] = 1]
      /\ results' = [results EXCEPT ![w] = [k \in Kids |-> "none"]]
      /\ revoked' = [revoked EXCEPT ![w] = FALSE]
      /\ outcome' = [outcome EXCEPT ![w] = "none"]
      /\ parent' = parent /\ lease' = lease /\ manifest' = manifest /\ child' = child
      /\ waived' = waived
  BY DEF GiveUp, Goto, journalVars
<1>2. TypeOK'
  BY <1>0, <1>1 DEF TypeOK, Steps
<1>3. ManifestOfChildren' /\ PrunedWhenSettled' /\ CommittedIsComplete'
  BY <1>1 DEF ManifestOfChildren, PrunedWhenSettled, CommittedIsComplete, Rows
<1>4. ToldTheTruth'
  BY <1>1 DEF ToldTheTruth, TypeOK, Settled
<1>5. FollowsManifest' /\ HolderSawNone' /\ CommitIsEarned'
  BY <1>1 DEF FollowsManifest, HolderSawNone, CommitIsEarned, TypeOK, Following, Starting, Rows
<1> QED
  BY <1>2, <1>3, <1>4, <1>5

LEMMA AnswersKeep ==
    ASSUME IngestionInv, NEW w \in Workers, NEW o \in Terminal, Answers(w, o),
           UNCHANGED <<journalVars, fenced, processed>>
    PROVE  IngestionInv'
<1> USE DEF IngestionInv
<1>1. /\ pc' = [pc EXCEPT ![w] = "checkpoint"]
      /\ outcome' = [outcome EXCEPT ![w] = o]
      /\ UNCHANGED <<found, turn, results, revoked, fenced, processed>>
      /\ parent' = parent /\ lease' = lease /\ manifest' = manifest /\ child' = child
      /\ waived' = waived
  BY DEF Answers, Goto, journalVars
<1>2. TypeOK'
  BY <1>1 DEF TypeOK, Steps
<1>3. ManifestOfChildren' /\ PrunedWhenSettled' /\ CommittedIsComplete' /\ ToldTheTruth'
  BY <1>1 DEF ManifestOfChildren, PrunedWhenSettled, CommittedIsComplete, Rows, ToldTheTruth
<1>4. FollowsManifest' /\ HolderSawNone' /\ CommitIsEarned'
  BY <1>1 DEF FollowsManifest, HolderSawNone, CommitIsEarned, TypeOK, Following, Starting, Rows
<1> QED
  BY <1>2, <1>3, <1>4

(* A worker that moves on, and changes nothing else, to a step that asks   *)
(* nothing of it.                                                          *)
LEMMA MoveKeeps ==
    ASSUME IngestionInv, NEW w \in Workers, NEW s \in {"claim", "reread", "manifest"},
           pc[w] \in Starting, Goto(w, s), Keep, UNCHANGED <<journalVars, fenced, processed>>
    PROVE  IngestionInv'
<1> USE DEF IngestionInv
<1>1. /\ pc' = [pc EXCEPT ![w] = s]
      /\ UNCHANGED <<found, turn, results, revoked, outcome, fenced, processed>>
      /\ parent' = parent /\ lease' = lease /\ manifest' = manifest /\ child' = child
      /\ waived' = waived
  BY DEF Goto, Keep, journalVars
<1>2. TypeOK'
  BY <1>1 DEF TypeOK, Steps
<1>3. ManifestOfChildren' /\ PrunedWhenSettled' /\ CommittedIsComplete' /\ ToldTheTruth'
  BY <1>1 DEF ManifestOfChildren, PrunedWhenSettled, CommittedIsComplete, Rows, ToldTheTruth
<1>4. HolderSawNone' /\ CommitIsEarned'
  BY <1>1 DEF HolderSawNone, CommitIsEarned, TypeOK
<1>5. FollowsManifest'
  <2>1. Rows' = Rows /\ s \notin Following /\ turn[w] = 1
    BY <1>1 DEF Rows, Following, FollowsManifest
  <2>2. pc'[w] = s /\ \A x \in Workers \ {w} : pc'[x] = pc[x]
    BY <1>1 DEF TypeOK
  <2> QED
    BY <1>1, <2>1, <2>2 DEF FollowsManifest
<1> QED
  BY <1>2, <1>3, <1>4, <1>5

(* A worker is told the verdict of the child it is at, which may have been *)
(* recorded in the same step.                                              *)
LEMMA ToldKeeps ==
    ASSUME IngestionInv, NEW w \in Workers, NEW v \in Verdicts, pc[w] \in Following,
           turn[w] <= found[w], Told(w, v),
           child' = child \/ (child[turn[w]] \notin Terminal /\ child' = [child EXCEPT ![turn[w]] = v]),
           v \in Settled => child'[turn[w]] = v,
           UNCHANGED <<parent, lease, manifest, waived, fenced, processed>>
    PROVE  IngestionInv'
<1> USE DEF IngestionInv
<1> DEFINE k == turn[w]
<1>0. /\ k \in Nat /\ k \in Kids /\ k \in 1..found[w] /\ k \in Rows
      /\ found[w] \in 0..MaxEntities /\ MaxEntities \in Nat
  <2>1. MaxEntities \in Nat
    BY IngestionAssumption
  <2>2. found[w] \in 0..MaxEntities /\ k \in 1..(MaxEntities + 1)
    BY DEF TypeOK
  <2>3. k \in 1..found[w] /\ k \in Kids
    BY <2>1, <2>2 DEF Kids
  <2>4. 1..found[w] \subseteq Rows
    BY DEF FollowsManifest
  <2> QED
    BY <2>1, <2>2, <2>3, <2>4
<1>1. /\ pc' = [pc EXCEPT ![w] = "children"]
      /\ results' = [results EXCEPT ![w][k] = v]
      /\ turn' = [turn EXCEPT ![w] = k + 1]
      /\ UNCHANGED <<found, revoked, outcome, parent, lease, manifest, waived, fenced, processed>>
  BY DEF Told, Goto
<1>2. child' \in [Kids -> States] /\ v \in States /\ v # "none"
  <2>1. v \in States /\ v # "none"
    BY DEF States, Verdicts, Terminal, Settled
  <2>2. child \in [Kids -> States]
    BY DEF TypeOK
  <2> QED
    BY <1>0, <2>1, <2>2
<1>3. Rows' = Rows
  BY <1>0, <1>2 DEF Rows, TypeOK
<1>4. \A j \in Kids : child[j] \in Settled => child'[j] = child[j]
  BY <1>0 DEF TypeOK, Terminal
<1>5. TypeOK'
  BY <1>0, <1>1, <1>2 DEF TypeOK, Steps
<1>6. ManifestOfChildren' /\ PrunedWhenSettled'
  BY <1>1, <1>3 DEF ManifestOfChildren, PrunedWhenSettled
<1>7. CommittedIsComplete'
  BY <1>0, <1>1, <1>3, <1>4 DEF CommittedIsComplete, Terminal, Settled, Rows
<1>8. ToldTheTruth'
  <2>1. SUFFICES ASSUME NEW x \in Workers, NEW j \in Kids, results'[x][j] \in Settled
                 PROVE  child'[j] = results'[x][j]
    BY DEF ToldTheTruth
  <2>2. CASE x = w /\ j = k
    BY <1>0, <1>1, <2>1, <2>2 DEF TypeOK
  <2>3. CASE ~(x = w /\ j = k)
    <3>1. results'[x][j] = results[x][j]
      BY <1>0, <1>1, <2>3 DEF TypeOK
    <3> QED
      BY <1>4, <2>1, <3>1 DEF ToldTheTruth
  <2> QED
    BY <2>2, <2>3
<1>9. FollowsManifest'
  <2>1. SUFFICES ASSUME NEW x \in Workers
        PROVE  /\ pc'[x] \in Following =>
                    /\ found'[x] > 0
                    /\ 1..found'[x] \subseteq Rows'
                    /\ parent' \notin Settled => found'[x] = manifest'
                    /\ \A j \in Kids : j < turn'[x] => results'[x][j] \in Verdicts
               /\ pc'[x] \in {"deciding", "rereading"} => turn'[x] <= found'[x]
               /\ pc'[x] = "record" => found'[x] > 0
               /\ pc'[x] \in Starting => turn'[x] = 1
    BY DEF FollowsManifest
  <2>2. CASE x # w
    BY <1>0, <1>1, <1>3, <2>2 DEF FollowsManifest, TypeOK
  <2>3. CASE x = w
    <3>1. \A j \in Kids : j < k + 1 => results'[w][j] \in Verdicts
      BY <1>0, <1>1 DEF FollowsManifest, TypeOK, Kids
    <3> QED
      BY <1>0, <1>1, <1>3, <2>3, <3>1 DEF FollowsManifest, TypeOK, Starting
  <2> QED
    BY <2>2, <2>3
<1>10. HolderSawNone'
  BY <1>1 DEF HolderSawNone, TypeOK
<1>11. CommitIsEarned'
  <2>1. SUFFICES ASSUME NEW x \in Workers, pc'[x] = "settle"
        PROVE  /\ outcome'[x] # "none"
               /\ outcome'[x] = "committed" =>
                     /\ parent' \notin Settled => found'[x] = manifest'
                     /\ \A j \in 1..found'[x] : results'[x][j] \in Settled
                     /\ \E j \in 1..found'[x] : results'[x][j] = "committed"
    BY DEF CommitIsEarned
  <2>2. x # w /\ pc[x] = "settle" /\ results'[x] = results[x]
    BY <1>1, <2>1 DEF TypeOK
  <2> QED
    BY <1>1, <2>2 DEF CommitIsEarned
<1> QED
  BY <1>5, <1>6, <1>7, <1>8, <1>9, <1>10, <1>11

------------------------------------------------------------------------------
(* The steps of a worker.                                                  *)

LEMMA OpenKeeps ==
    ASSUME IngestionInv, NEW w \in Workers, Open(w) \/ Claim(w) \/ Reread(w)
    PROVE  IngestionInv'
<1> USE DEF IngestionInv
<1>0. fenced \in BOOLEAN /\ processed \in [Workers -> BOOLEAN]
  BY DEF TypeOK
<1>1. CASE Open(w) /\ parent = "none"
  <2>1. /\ pc' = [pc EXCEPT ![w] = "claim"]
        /\ UNCHANGED <<found, turn, results, revoked, outcome, fenced, processed,
                       lease, manifest, child, waived>>
        /\ parent' = "pending" /\ parent = "none" /\ pc[w] = "idle"
    BY <1>1 DEF Open, Goto, Keep, Terminal, Settled
  <2>2. TypeOK'
    BY <2>1 DEF TypeOK, Steps, States
  <2>3. ManifestOfChildren' /\ PrunedWhenSettled' /\ CommittedIsComplete' /\ ToldTheTruth'
    BY <2>1 DEF ManifestOfChildren, PrunedWhenSettled, CommittedIsComplete, Rows, ToldTheTruth, Settled
  <2>4. HolderSawNone' /\ CommitIsEarned'
    BY <2>1 DEF HolderSawNone, CommitIsEarned, TypeOK, Settled
  <2>5. FollowsManifest'
    <3>1. Rows' = Rows /\ turn[w] = 1
      BY <2>1 DEF Rows, FollowsManifest, Starting
    <3>2. pc'[w] = "claim" /\ \A x \in Workers \ {w} : pc'[x] = pc[x]
      BY <2>1 DEF TypeOK
    <3> QED
      BY <2>1, <3>1, <3>2 DEF FollowsManifest, Following, Settled
  <2> QED
    BY <2>2, <2>3, <2>4, <2>5
<1>2. CASE Open(w) /\ parent # "none"
  <2>1. \/ Goto(w, "claim") /\ Keep /\ UNCHANGED <<journalVars, fenced, processed>>
        \/ parent \in Terminal /\ Answers(w, parent) /\ UNCHANGED <<journalVars, fenced, processed>>
    BY <1>2 DEF Open, journalVars
  <2>2. pc[w] \in Starting
    BY <1>2 DEF Open, Starting
  <2> QED
    BY <2>1, <2>2, MoveKeeps, AnswersKeep
<1>3. CASE Claim(w) /\ (parent \in Terminal \/ fenced)
  <2>1. UNCHANGED <<journalVars, fenced, processed>>
    BY <1>3 DEF Claim, journalVars
  <2>2. pc[w] \in Starting /\ ((Goto(w, "reread") /\ Keep) \/ GiveUp(w))
    BY <1>3 DEF Claim, Starting
  <2> QED
    BY <1>0, <2>1, <2>2, MoveKeeps, GiveUpKeeps
<1>4. CASE Claim(w) /\ ~(parent \in Terminal \/ fenced)
  <2>1. /\ pc' = [pc EXCEPT ![w] = "manifest"]
        /\ UNCHANGED <<found, turn, results, revoked, outcome, fenced, processed,
                       parent, manifest, child, waived>>
        /\ lease' = w /\ pc[w] = "claim"
    BY <1>4 DEF Claim, Goto, Keep
  <2>2. TypeOK'
    BY <2>1 DEF TypeOK, Steps
  <2>3. ManifestOfChildren' /\ PrunedWhenSettled' /\ CommittedIsComplete' /\ ToldTheTruth'
    BY <2>1 DEF ManifestOfChildren, PrunedWhenSettled, CommittedIsComplete, Rows, ToldTheTruth
  <2>4. HolderSawNone' /\ CommitIsEarned'
    BY <2>1 DEF HolderSawNone, CommitIsEarned, TypeOK, Settled
  <2>5. FollowsManifest'
    <3>1. Rows' = Rows /\ turn[w] = 1
      BY <2>1 DEF Rows, FollowsManifest, Starting
    <3>2. pc'[w] = "manifest" /\ \A x \in Workers \ {w} : pc'[x] = pc[x]
      BY <2>1 DEF TypeOK
    <3> QED
      BY <2>1, <3>1, <3>2 DEF FollowsManifest, Following, Settled
  <2> QED
    BY <2>2, <2>3, <2>4, <2>5
<1>5. CASE Reread(w)
  <2>1. UNCHANGED <<journalVars, fenced, processed>>
    BY <1>5 DEF Reread
  <2>2. GiveUp(w) \/ \E o \in Terminal : Answers(w, o)
    BY <1>5 DEF Reread, Terminal
  <2> QED
    BY <1>0, <2>1, <2>2, AnswersKeep, GiveUpKeeps
<1> QED
  BY <1>1, <1>2, <1>3, <1>4, <1>5

LEMMA ExtractKeeps ==
    ASSUME IngestionInv, NEW w \in Workers, ReadManifest(w) \/ Extract(w) \/ ExtractionFails(w)
    PROVE  IngestionInv'
<1> USE DEF IngestionInv
<1>0. fenced \in BOOLEAN /\ processed \in [Workers -> BOOLEAN]
      /\ MaxEntities \in Nat /\ manifest \in 0..MaxEntities
  BY IngestionAssumption DEF TypeOK
<1>1. CASE ReadManifest(w)
  <2>1. /\ pc' = [pc EXCEPT ![w] = IF manifest = 0 THEN "extract" ELSE "children"]
        /\ found' = [found EXCEPT ![w] = manifest]
        /\ UNCHANGED <<turn, results, revoked, outcome, fenced, processed>>
        /\ parent' = parent /\ lease' = lease /\ manifest' = manifest /\ child' = child
        /\ pc[w] = "manifest" /\ waived' = waived
    BY <1>1 DEF ReadManifest, Goto, journalVars
  <2>2. TypeOK'
    BY <1>0, <2>1 DEF TypeOK, Steps
  <2>3. ManifestOfChildren' /\ PrunedWhenSettled' /\ CommittedIsComplete' /\ ToldTheTruth'
    BY <2>1 DEF ManifestOfChildren, PrunedWhenSettled, CommittedIsComplete, Rows, ToldTheTruth
  <2>4. FollowsManifest'
    <3>1. turn[w] = 1 /\ found'[w] = manifest
      BY <2>1 DEF FollowsManifest, Starting, TypeOK
    <3>2. manifest # 0 => manifest > 0 /\ parent \notin Settled /\ Rows = 1..manifest
      BY <1>0 DEF ManifestOfChildren, PrunedWhenSettled
    <3>3. Rows' = Rows /\ \A j \in Kids : ~(j < 1)
      BY <2>1 DEF Rows, Kids
    <3>4. /\ pc'[w] \in Following => manifest # 0
          /\ pc'[w] \notin {"deciding", "rereading", "record"}
      BY <2>1 DEF TypeOK, Following
    <3>5. \A x \in Workers \ {w} : pc'[x] = pc[x] /\ found'[x] = found[x]
      BY <2>1 DEF TypeOK
    <3> QED
      BY <2>1, <3>1, <3>2, <3>3, <3>4, <3>5 DEF FollowsManifest
  <2>5. HolderSawNone' /\ CommitIsEarned'
    BY <2>1 DEF HolderSawNone, CommitIsEarned, TypeOK
  <2> QED
    BY <2>2, <2>3, <2>4, <2>5
<1>2. CASE ExtractionFails(w)
  BY <1>0, <1>2, GiveUpKeeps DEF ExtractionFails
<1>3. CASE Extract(w)
  <2>1. PICK n \in 0..MaxEntities, o \in Terminal \cup {"none"}, s \in {"record", "settle"} :
           /\ pc' = [pc EXCEPT ![w] = s]
           /\ found' = [found EXCEPT ![w] = n]
           /\ outcome' = [outcome EXCEPT ![w] = o]
           /\ s = "record" => n > 0
           /\ s = "settle" => o \in {"skipped", "review"}
    <3>1. CASE Goto(w, "record") /\ \E n \in Kids : found' = [found EXCEPT ![w] = n]
      <4>1. outcome' = [outcome EXCEPT ![w] = outcome[w]] /\ outcome[w] \in Terminal \cup {"none"}
        BY <1>3, <3>1 DEF Extract, TypeOK, Goto
      <4>2. PICK n \in Kids : found' = [found EXCEPT ![w] = n]
        BY <3>1
      <4>3. n \in 0..MaxEntities /\ n > 0
        BY <1>0 DEF Kids
      <4> QED
        BY <3>1, <4>1, <4>2, <4>3 DEF Goto
    <3>2. CASE Goto(w, "settle") /\ \E o \in {"skipped", "review"} :
                                      outcome' = [outcome EXCEPT ![w] = o]
      <4>1. found' = [found EXCEPT ![w] = found[w]] /\ found[w] \in 0..MaxEntities
        BY <1>3, <3>2 DEF Extract, TypeOK, Goto
      <4> QED
        BY <3>2, <4>1 DEF Goto, Terminal, Settled
    <3> QED
      BY <1>3, <3>1, <3>2 DEF Extract
  <2>2. /\ UNCHANGED <<turn, results, revoked, fenced, processed>>
        /\ parent' = parent /\ lease' = lease /\ manifest' = manifest /\ child' = child
        /\ pc[w] = "extract" /\ waived' = waived
    BY <1>3 DEF Extract, journalVars
  <2>3. TypeOK'
    BY <2>1, <2>2 DEF TypeOK, Steps
  <2>4. ManifestOfChildren' /\ PrunedWhenSettled' /\ CommittedIsComplete' /\ ToldTheTruth'
    BY <2>2 DEF ManifestOfChildren, PrunedWhenSettled, CommittedIsComplete, Rows, ToldTheTruth
  <2>5. FollowsManifest' /\ HolderSawNone'
    BY <2>1, <2>2 DEF FollowsManifest, HolderSawNone, TypeOK, Following, Starting, Rows
  <2>6. CommitIsEarned'
    BY <2>1, <2>2 DEF CommitIsEarned, TypeOK
  <2> QED
    BY <2>3, <2>4, <2>5, <2>6
<1> QED
  BY <1>1, <1>2, <1>3

LEMMA RecordKeeps ==
    ASSUME IngestionInv, NEW w \in Workers, RecordManifest(w)
    PROVE  IngestionInv'
<1> USE DEF IngestionInv
<1>0. fenced \in BOOLEAN /\ processed \in [Workers -> BOOLEAN] /\ MaxEntities \in Nat
  BY IngestionAssumption DEF TypeOK
<1>1. CASE GiveUp(w) /\ UNCHANGED journalVars
  BY <1>0, <1>1, GiveUpKeeps DEF RecordManifest
<1>2. CASE ~(GiveUp(w) /\ UNCHANGED journalVars)
  <2> DEFINE n == found[w]
  <2>1. /\ lease = w /\ parent \notin Terminal /\ pc[w] = "record"
        /\ manifest' = n
        /\ child' = [k \in Kids |->
                        IF k \in 1..n /\ child[k] = "none" THEN "pending" ELSE child[k]]
        /\ pc' = [pc EXCEPT ![w] = "children"]
        /\ UNCHANGED <<found, turn, results, revoked, outcome, parent, lease, waived, fenced, processed>>
    BY <1>2 DEF RecordManifest, Goto, Keep
  <2>2. n \in 1..MaxEntities /\ manifest = 0 /\ parent \notin Settled
    BY <1>0, <2>1 DEF FollowsManifest, HolderSawNone, TypeOK, Terminal
  <2>3. Rows = {}
    BY <1>0, <2>2 DEF ManifestOfChildren
  <2>4. child' = [k \in Kids |-> IF k \in 1..n THEN "pending" ELSE "none"]
    BY <2>1, <2>3 DEF Rows, TypeOK
  <2>5. Rows' = 1..n
    BY <1>0, <2>2, <2>4 DEF Rows, Kids
  <2>6. TypeOK'
    BY <1>0, <2>1, <2>2, <2>4 DEF TypeOK, Steps, States
  <2>7. ManifestOfChildren' /\ PrunedWhenSettled' /\ CommittedIsComplete'
    BY <2>1, <2>2, <2>5 DEF ManifestOfChildren, PrunedWhenSettled, CommittedIsComplete, Settled
  <2>8. ToldTheTruth'
    BY <2>1, <2>3 DEF ToldTheTruth, Rows, Settled
  <2>9. FollowsManifest'
    <3>1. SUFFICES ASSUME NEW x \in Workers
          PROVE  /\ pc'[x] \in Following =>
                      /\ found'[x] > 0
                      /\ 1..found'[x] \subseteq Rows'
                      /\ parent' \notin Settled => found'[x] = manifest'
                      /\ \A j \in Kids : j < turn'[x] => results'[x][j] \in Verdicts
                 /\ pc'[x] \in {"deciding", "rereading"} => turn'[x] <= found'[x]
                 /\ pc'[x] = "record" => found'[x] > 0
                 /\ pc'[x] \in Starting => turn'[x] = 1
      BY DEF FollowsManifest
    <3>2. CASE x # w
      <4>1. pc[x] \notin Following
        BY <1>0, <2>2, <2>3, <3>2 DEF FollowsManifest, TypeOK
      <4> QED
        BY <2>1, <3>2, <4>1 DEF FollowsManifest, TypeOK, Following, Starting
    <3>3. CASE x = w
      <4>1. turn[w] = 1
        BY <2>1 DEF FollowsManifest, Starting
      <4> QED
        BY <1>0, <2>1, <2>2, <2>5, <3>3, <4>1 DEF TypeOK, Kids, Starting
    <3> QED
      BY <3>2, <3>3
  <2>10. HolderSawNone'
    BY <2>1 DEF HolderSawNone, TypeOK
  <2>11. CommitIsEarned'
    BY <2>1, <2>2 DEF CommitIsEarned, TypeOK
  <2> QED
    BY <2>6, <2>7, <2>8, <2>9, <2>10, <2>11
<1> QED
  BY <1>1, <1>2

LEMMA SubmitChildKeeps ==
    ASSUME IngestionInv, NEW w \in Workers,
           SubmitChild(w) \/ RereadChild(w) \/ DecideChild(w) \/ SubmissionFails(w)
    PROVE  IngestionInv'
<1> USE DEF IngestionInv
<1> DEFINE k == turn[w]
<1>0. /\ fenced \in BOOLEAN /\ processed \in [Workers -> BOOLEAN]
      /\ pc[w] \in Following /\ k <= found[w]
      /\ UNCHANGED <<parent, lease, manifest, waived, fenced, processed>>
  BY DEF SubmitChild, RereadChild, DecideChild, SubmissionFails, TypeOK, Following,
         FollowsManifest, journalVars
<1>k. k \in Kids /\ k \in Rows
  <2>1. MaxEntities \in Nat
    BY IngestionAssumption
  <2>2. found[w] \in 0..MaxEntities /\ k \in 1..(MaxEntities + 1)
    BY DEF TypeOK
  <2>3. k \in 1..found[w] /\ k \in Kids
    BY <1>0, <2>1, <2>2 DEF Kids
  <2>4. 1..found[w] \subseteq Rows
    BY <1>0 DEF FollowsManifest
  <2> QED
    BY <2>3, <2>4
<1>1. CASE GiveUp(w) /\ child' = child
  BY <1>0, <1>1, GiveUpKeeps DEF journalVars
<1>2. CASE child[k] \in Terminal /\ Told(w, child[k]) /\ child' = child
  <2>1. child[k] \in Verdicts
    BY <1>2 DEF Verdicts
  <2> QED
    BY <1>0, <1>2, <2>1, ToldKeeps
<1>3. CASE (\E v \in {"failed", "review"} : Told(w, v)) /\ child' = child
  BY <1>0, <1>3, ToldKeeps DEF Verdicts, Terminal, Settled
<1>4. CASE (\E s \in {"deciding", "rereading"} : Goto(w, s) /\ Keep) /\ child' = child
  <2>1. PICK s \in {"deciding", "rereading"} :
           /\ pc' = [pc EXCEPT ![w] = s]
           /\ UNCHANGED <<found, turn, results, revoked, outcome>>
    BY <1>4 DEF Goto, Keep
  <2>2. TypeOK'
    BY <1>0, <1>4, <2>1 DEF TypeOK, Steps
  <2>3. ManifestOfChildren' /\ PrunedWhenSettled' /\ CommittedIsComplete' /\ ToldTheTruth'
    BY <1>0, <1>4, <2>1
       DEF ManifestOfChildren, PrunedWhenSettled, CommittedIsComplete, Rows, ToldTheTruth
  <2>4. HolderSawNone' /\ CommitIsEarned'
    BY <1>0, <2>1 DEF HolderSawNone, CommitIsEarned, TypeOK
  <2>5. FollowsManifest'
    <3>1. Rows' = Rows /\ s \in Following /\ s \notin Starting /\ s # "record"
      BY <1>4 DEF Rows, Following, Starting
    <3>2. pc'[w] = s /\ \A x \in Workers \ {w} : pc'[x] = pc[x]
      BY <2>1 DEF TypeOK
    <3> QED
      BY <1>0, <2>1, <3>1, <3>2 DEF FollowsManifest
  <2> QED
    BY <2>2, <2>3, <2>4, <2>5
<1>5. ASSUME NEW v \in Verdicts, child[k] \notin Terminal, child' = [child EXCEPT ![k] = v],
             Told(w, v)
      PROVE  IngestionInv'
  <2>1. child'[k] = v
    BY <1>5, <1>k DEF TypeOK
  <2> QED
    BY <1>0, <1>5, <2>1, ToldKeeps
<1>6. ASSUME child[k] \notin Terminal, child' = [child EXCEPT ![k] = "failed"], GiveUp(w)
      PROVE  IngestionInv'
  <2>1. k \in Kids /\ k \in Rows
    BY <1>k
  <2>2. /\ pc' = [pc EXCEPT ![w] = "idle"]
        /\ found' = [found EXCEPT ![w] = 0]
        /\ turn' = [turn EXCEPT ![w] = 1]
        /\ results' = [results EXCEPT ![w] = [j \in Kids |-> "none"]]
        /\ revoked' = [revoked EXCEPT ![w] = FALSE]
        /\ outcome' = [outcome EXCEPT ![w] = "none"]
    BY <1>6 DEF GiveUp, Goto
  <2>3. Rows' = Rows /\ \A j \in Kids : child[j] \in Settled => child'[j] = child[j]
    BY <1>6, <2>1 DEF Rows, TypeOK, Terminal
  <2>4. TypeOK'
    <3>1. MaxEntities \in Nat
      BY IngestionAssumption
    <3>2. child' \in [Kids -> States] /\ results' \in [Workers -> [Kids -> Verdicts \cup {"none"}]]
      BY <1>6, <2>2 DEF TypeOK, States
    <3> QED
      BY <1>0, <2>2, <3>1, <3>2 DEF TypeOK, Steps
  <2>5. ManifestOfChildren' /\ PrunedWhenSettled'
    BY <1>0, <2>3 DEF ManifestOfChildren, PrunedWhenSettled
  <2>6. CommittedIsComplete'
    BY <1>0, <1>6, <2>1, <2>3 DEF CommittedIsComplete, Terminal, Settled, Rows
  <2>7. ToldTheTruth'
    BY <2>2, <2>3 DEF ToldTheTruth, TypeOK, Settled
  <2>8. HolderSawNone' /\ CommitIsEarned'
    BY <1>0, <2>2 DEF HolderSawNone, CommitIsEarned, TypeOK
  <2>9. FollowsManifest'
    BY <1>0, <2>2, <2>3 DEF FollowsManifest, TypeOK, Following
  <2> QED
    BY <2>4, <2>5, <2>6, <2>7, <2>8, <2>9
<1>7. CASE SubmitChild(w) \/ RereadChild(w)
  <2>1. child' = child
    BY <1>7 DEF SubmitChild, RereadChild, journalVars
  <2> QED
    BY <1>1, <1>2, <1>3, <1>4, <1>7, <2>1 DEF SubmitChild, RereadChild
<1>8. CASE DecideChild(w)
  <2>1. \/ /\ child[k] \notin Terminal
           /\ \E v \in Verdicts : child' = [child EXCEPT ![k] = v] /\ Told(w, v)
        \/ /\ child[k] \in Terminal /\ child' = child
           /\ Told(w, child[k]) \/ Told(w, "failed") \/ (Goto(w, "rereading") /\ Keep)
        \/ child' = child /\ GiveUp(w)
    BY <1>8 DEF DecideChild, Verdicts
  <2> QED
    BY <1>1, <1>2, <1>3, <1>4, <1>5, <2>1
<1>9. CASE SubmissionFails(w)
  <2>1. \/ /\ child[k] \notin Terminal /\ child' = [child EXCEPT ![k] = "failed"]
           /\ Told(w, "failed") \/ GiveUp(w)
        \/ child' = child /\ Told(w, "failed")
    BY <1>9 DEF SubmissionFails
  <2>2. "failed" \in Verdicts
    BY DEF Verdicts
  <2> QED
    BY <1>3, <1>5, <1>6, <2>1, <2>2
<1> QED
  BY <1>7, <1>8, <1>9

(* A verdict over all of the children is committed only when each of them  *)
(* is settled and one committed.                                           *)
LEMMA AggregateKeeps ==
    ASSUME IngestionInv, NEW w \in Workers, Aggregate(w)
    PROVE  IngestionInv'
<1> USE DEF IngestionInv
<1>0. /\ fenced \in BOOLEAN /\ processed \in [Workers -> BOOLEAN]
      /\ pc[w] = "children" /\ turn[w] > found[w] /\ UNCHANGED <<journalVars, fenced, processed>>
  BY DEF Aggregate, TypeOK
<1>1. CASE GiveUp(w)
  BY <1>0, <1>1, GiveUpKeeps
<1>2. CASE ~GiveUp(w)
  <2> DEFINE verdicts == {results[w][k] : k \in 1..found[w]}
  <2>1. /\ pc' = [pc EXCEPT ![w] = "settle"]
        /\ outcome' = [outcome EXCEPT ![w] = Settlement(verdicts)]
        /\ UNCHANGED <<found, turn, results, revoked>>
        /\ Settlement(verdicts) # "failed"
        /\ parent' = parent /\ lease' = lease /\ manifest' = manifest /\ child' = child
        /\ waived' = waived
    BY <1>0, <1>2 DEF Aggregate, Goto, Verdict, journalVars
  <2>2. found[w] \in 0..MaxEntities /\ MaxEntities \in Nat /\ turn[w] \in Nat
    <3>1. MaxEntities \in Nat
      BY IngestionAssumption
    <3>2. found[w] \in 0..MaxEntities /\ turn[w] \in 1..(MaxEntities + 1)
      BY DEF TypeOK
    <3> QED
      BY <3>1, <3>2
  <2>3. \A k \in 1..found[w] : results[w][k] \in Verdicts
    <3>1. \A k \in Kids : k < turn[w] => results[w][k] \in Verdicts
      BY <1>0 DEF FollowsManifest, Following
    <3>2. \A k \in 1..found[w] : k \in Kids /\ k < turn[w]
      BY <1>0, <2>2 DEF Kids
    <3> QED
      BY <3>1, <3>2
  <2>4. Settlement(verdicts) \in Terminal
    BY <2>1 DEF Settlement, Terminal, Settled
  <2>5. Settlement(verdicts) = "committed" =>
           /\ \A k \in 1..found[w] : results[w][k] \in Settled
           /\ \E k \in 1..found[w] : results[w][k] = "committed"
    <3>1. HAVE Settlement(verdicts) = "committed"
    <3>2. "failed" \notin verdicts /\ "review" \notin verdicts /\ "committed" \in verdicts
      <4> HIDE DEF verdicts
      <4> QED
        BY <3>1 DEF Settlement
    <3>3. \A k \in 1..found[w] : results[w][k] \notin {"failed", "review"}
      BY <3>2
    <3>4. \E k \in 1..found[w] : results[w][k] = "committed"
      BY <3>2
    <3> QED
      BY <2>3, <3>3, <3>4 DEF Verdicts, Terminal, Settled
  <2>6. TypeOK'
    BY <1>0, <2>1, <2>4 DEF TypeOK, Steps
  <2>7. ManifestOfChildren' /\ PrunedWhenSettled' /\ CommittedIsComplete' /\ ToldTheTruth'
    BY <2>1 DEF ManifestOfChildren, PrunedWhenSettled, CommittedIsComplete, Rows, ToldTheTruth
  <2>8. HolderSawNone' /\ CommitIsEarned'
    <3>1. HolderSawNone'
      BY <2>1 DEF HolderSawNone, TypeOK
    <3>2. parent \notin Settled => found[w] = manifest
      BY <1>0 DEF FollowsManifest, Following
    <3>3. outcome'[w] = Settlement(verdicts) /\ Settlement(verdicts) # "none"
      BY <2>1, <2>4 DEF TypeOK, Terminal, Settled
    <3>4. \A x \in Workers \ {w} : pc'[x] = pc[x] /\ outcome'[x] = outcome[x]
      BY <2>1 DEF TypeOK
    <3> HIDE DEF verdicts
    <3>5. CommitIsEarned'
      BY <2>1, <2>5, <3>2, <3>3, <3>4 DEF CommitIsEarned
    <3> QED
      BY <3>1, <3>5
  <2>9. FollowsManifest'
    <3>1. Rows' = Rows
      BY <2>1 DEF Rows
    <3>2. pc'[w] = "settle" /\ \A x \in Workers \ {w} : pc'[x] = pc[x]
      BY <2>1 DEF TypeOK
    <3> QED
      BY <2>1, <3>1, <3>2 DEF FollowsManifest, Following, Starting
  <2> QED
    BY <2>6, <2>7, <2>8, <2>9
<1> QED
  BY <1>1, <1>2

(* The parent settles as committed only when every row is settled: the     *)
(* worker's children are all of the rows, and what it was told is theirs.  *)
LEMMA SettleParentKeeps ==
    ASSUME IngestionInv, NEW w \in Workers, SettleParent(w)
    PROVE  IngestionInv'
<1> USE DEF IngestionInv
<1>0. /\ fenced \in BOOLEAN /\ processed \in [Workers -> BOOLEAN]
      /\ pc[w] = "settle" /\ UNCHANGED <<child, fenced, processed>>
  BY DEF SettleParent, TypeOK
<1>1. CASE parent \in Terminal \/ fenced
  BY <1>0, <1>1, GiveUpKeeps DEF SettleParent, journalVars
<1>2. CASE ~(parent \in Terminal \/ fenced)
  <2>1. /\ parent \notin Terminal
        /\ parent' = outcome[w]
        /\ manifest' = IF outcome[w] = "review" THEN manifest ELSE 0
        /\ lease' = NoWorker
        /\ pc' = [pc EXCEPT ![w] = "checkpoint"]
        /\ outcome' = [outcome EXCEPT ![w] = outcome[w]]
        /\ UNCHANGED <<found, turn, results, revoked, child, fenced, processed>>
        /\ waived' \in BOOLEAN
    BY <1>0, <1>2 DEF SettleParent, Answers, Goto
  <2>2. outcome[w] \in Terminal /\ outcome' = outcome /\ parent \notin Settled
    BY <1>0, <2>1 DEF CommitIsEarned, TypeOK, Terminal
  <2>3. MaxEntities \in Nat
    BY IngestionAssumption
  <2>4. Rows' = Rows
    BY <2>1 DEF Rows
  <2>5. pc'[w] = "checkpoint" /\ \A x \in Workers \ {w} : pc'[x] = pc[x]
    BY <2>1 DEF TypeOK
  <2>6. TypeOK'
    <3>1. parent' \in States /\ manifest' \in 0..MaxEntities
      BY <2>1, <2>2, <2>3 DEF TypeOK, States
    <3>2. lease' \in Workers \cup {NoWorker} /\ pc' \in [Workers -> Steps]
      BY <2>1 DEF TypeOK, Steps
    <3> QED
      BY <2>1, <2>2, <3>1, <3>2 DEF TypeOK
  <2>7. ManifestOfChildren' /\ PrunedWhenSettled'
    BY <2>1, <2>2, <2>4 DEF ManifestOfChildren, PrunedWhenSettled, Terminal, Settled
  <2>8. ToldTheTruth'
    BY <2>1 DEF ToldTheTruth
  <2>9. FollowsManifest'
    <3>1. parent' \notin Settled => manifest' = manifest
      BY <2>1, <2>2 DEF Terminal
    <3> QED
      BY <2>1, <2>2, <2>4, <2>5, <3>1 DEF FollowsManifest, Following, Starting
  <2>10. HolderSawNone'
    BY <2>1, <2>5, IngestionAssumption DEF HolderSawNone
  <2>11. CommitIsEarned'
    <3>1. parent' \notin Settled => manifest' = manifest
      BY <2>1, <2>2 DEF Terminal
    <3> QED
      BY <2>1, <2>2, <2>5, <3>1 DEF CommitIsEarned
  <2>12. CommittedIsComplete'
    <3>1. SUFFICES ASSUME parent' = "committed"
                   PROVE  /\ \E k \in Kids : child'[k] = "committed"
                          /\ \A k \in Rows : child'[k] \in Settled
      BY <2>4 DEF CommittedIsComplete
    <3>2. /\ Rows = 1..found[w]
          /\ \A k \in 1..found[w] : results[w][k] \in Settled
          /\ \E k \in 1..found[w] : results[w][k] = "committed"
      BY <1>0, <2>1, <2>2, <3>1 DEF CommitIsEarned, ManifestOfChildren
    <3>3. \A k \in 1..found[w] : k \in Kids /\ child[k] = results[w][k]
      BY <3>2 DEF ToldTheTruth, Rows
    <3> QED
      BY <2>1, <3>2, <3>3
  <2> QED
    BY <2>6, <2>7, <2>8, <2>9, <2>10, <2>11, <2>12
<1> QED
  BY <1>1, <1>2

LEMMA CheckpointKeeps ==
    ASSUME IngestionInv, NEW w \in Workers, Checkpoint(w) \/ Crash(w)
    PROVE  IngestionInv'
<1>1. fenced \in BOOLEAN /\ processed \in [Workers -> BOOLEAN]
  BY DEF IngestionInv, TypeOK
<1>2. processed' \in [Workers -> BOOLEAN] /\ fenced' = fenced /\ GiveUp(w) /\ UNCHANGED journalVars
  <2>1. fenced' = fenced /\ GiveUp(w) /\ UNCHANGED journalVars
    BY DEF Checkpoint, Crash
  <2>2. \E b \in BOOLEAN : processed' = [processed EXCEPT ![w] = b] \/ processed' = processed
    <3>1. CASE Crash(w)
      BY <3>1 DEF Crash
    <3>2. CASE Checkpoint(w)
      <4>1. (outcome[w] \in Settled) \in BOOLEAN
        OBVIOUS
      <4> QED
        BY <3>2, <4>1, Zenon DEF Checkpoint
    <3> QED
      BY <3>1, <3>2
  <2> QED
    BY <1>1, <2>1, <2>2
<1> QED
  BY <1>1, <1>2, GiveUpKeeps

------------------------------------------------------------------------------
(* The steps of everyone else.                                             *)

LEMMA FenceKeeps ==
    ASSUME IngestionInv, PlaceFence \/ ReleaseFence \/ \E w \in Workers : Revoke(w)
    PROVE  IngestionInv'
<1> USE DEF IngestionInv
<1>1. /\ parent' = parent /\ lease' = lease /\ manifest' = manifest /\ child' = child
      /\ pc' = pc /\ found' = found /\ turn' = turn /\ results' = results /\ outcome' = outcome
      /\ processed' = processed /\ waived' = waived
  BY DEF PlaceFence, ReleaseFence, Revoke, journalVars, workerVars
<1>2. fenced' \in BOOLEAN /\ revoked' \in [Workers -> BOOLEAN]
  BY DEF PlaceFence, ReleaseFence, Revoke, workerVars, TypeOK
<1>3. TypeOK'
  BY <1>1, <1>2 DEF TypeOK
<1>4. Rows' = Rows
  BY <1>1 DEF Rows
<1> QED
  BY <1>1, <1>3, <1>4 DEF ManifestOfChildren, PrunedWhenSettled, ToldTheTruth, FollowsManifest,
                          HolderSawNone, CommitIsEarned, CommittedIsComplete

(* A dismissal settles the parent as committed only over settled children. *)
LEMMA DismissKeeps ==
    ASSUME IngestionInv, DismissParent \/ \E k \in Kids : DismissChild(k)
    PROVE  IngestionInv'
<1> USE DEF IngestionInv
<1>0. /\ pc' = pc /\ found' = found /\ turn' = turn /\ results' = results /\ outcome' = outcome
      /\ revoked' = revoked /\ fenced' = fenced /\ processed' = processed
      /\ waived' \in BOOLEAN
  BY DEF DismissParent, DismissChild, workerVars, TypeOK
<1>m. MaxEntities \in Nat /\ 0 \in 0..MaxEntities
  <2>1. MaxEntities \in Nat
    BY IngestionAssumption
  <2> QED
    BY <2>1
<1>1. CASE DismissParent
  <2>1. /\ parent' = "skipped" /\ manifest' = 0 /\ lease' = NoWorker /\ child' = child
    BY <1>1 DEF DismissParent
  <2>2. TypeOK'
    BY <1>0, <1>m, <2>1 DEF TypeOK, States, Terminal, Settled
  <2>3. Rows' = Rows
    BY <2>1 DEF Rows
  <2>4. ManifestOfChildren' /\ PrunedWhenSettled' /\ ToldTheTruth' /\ CommittedIsComplete'
    BY <1>0, <2>1 DEF ManifestOfChildren, PrunedWhenSettled, ToldTheTruth, CommittedIsComplete, Settled
  <2>5. FollowsManifest' /\ HolderSawNone' /\ CommitIsEarned'
    BY <1>0, <2>1, <2>3 DEF FollowsManifest, HolderSawNone, CommitIsEarned, Settled
  <2> QED
    BY <2>2, <2>4, <2>5
<1>2. ASSUME NEW k \in Kids, DismissChild(k)
      PROVE  IngestionInv'
  <2> DEFINE after == [child EXCEPT ![k] = "skipped"]
             verdicts == {after[j] : j \in Rows}
  <2>1. child[k] \in Unsettled /\ child' = after
    BY <1>2 DEF DismissChild
  <2>2. k \in Rows /\ Rows' = Rows
    BY <2>1 DEF Rows, Unsettled, TypeOK
  <2>3. \A j \in Kids : child[j] \in Settled => child'[j] = child[j]
    BY <2>1 DEF Unsettled, Settled, TypeOK
  <2>4. \/ parent' = parent /\ manifest' = manifest /\ lease' = lease
        \/ /\ parent \notin Settled /\ verdicts \subseteq Settled
           /\ parent' = Settlement(verdicts) /\ manifest' = 0 /\ lease' = NoWorker
    BY <1>2 DEF DismissChild
  <2>5. verdicts \subseteq Settled =>
           /\ Settlement(verdicts) \in Settled
           /\ Settlement(verdicts) = "committed" => "committed" \in verdicts
    <3> HIDE DEF verdicts
    <3> QED
      BY DEF Settlement, Settled
  <2>6. parent' = parent \/ parent' \in Settled
    BY <2>4, <2>5
  <2>7. /\ parent' \notin Settled => parent \notin Settled /\ manifest' = manifest
        /\ manifest' \in {manifest, 0}
        /\ lease' \in {lease, NoWorker}
    <3> HIDE DEF verdicts
    <3> QED
      BY <2>4, <2>5
  <2>8. TypeOK'
    <3>1. child' \in [Kids -> States]
      BY <2>1 DEF TypeOK, States, Terminal, Settled
    <3>2. parent' \in States /\ manifest' \in 0..MaxEntities /\ lease' \in Workers \cup {NoWorker}
      BY <1>m, <2>6, <2>7 DEF TypeOK, States, Terminal
    <3> QED
      BY <1>0, <3>1, <3>2 DEF TypeOK
  <2>9. ManifestOfChildren'
    BY <2>2, <2>7 DEF ManifestOfChildren
  <2>10. PrunedWhenSettled'
    <3> HIDE DEF verdicts
    <3> QED
      BY <2>4 DEF PrunedWhenSettled
  <2>11. ToldTheTruth'
    BY <1>0, <2>3 DEF ToldTheTruth
  <2>12. FollowsManifest'
    BY <1>0, <2>2, <2>7 DEF FollowsManifest
  <2>13. HolderSawNone'
    <3>1. \A w \in Workers : lease' = w => lease = w
      BY <2>7, IngestionAssumption
    <3> QED
      BY <1>0, <2>7, <3>1 DEF HolderSawNone
  <2>14. CommitIsEarned'
    BY <1>0, <2>7 DEF CommitIsEarned
  <2>15. CommittedIsComplete'
    <3>1. CASE parent' = parent
      BY <2>1, <2>2, <2>3, <3>1 DEF CommittedIsComplete, Settled, Rows
    <3>2. CASE parent' # parent
      <4>1. verdicts \subseteq Settled /\ parent' = Settlement(verdicts)
        BY <2>4, <3>2
      <4>2. \A j \in Rows : child'[j] \in Settled
        BY <2>1, <4>1
      <4>3. parent' = "committed" => \E j \in Rows : child'[j] = "committed"
        BY <2>1, <2>5, <4>1
      <4> QED
        BY <2>2, <4>2, <4>3 DEF CommittedIsComplete, Rows
    <3> QED
      BY <3>1, <3>2
  <2> QED
    BY <2>8, <2>9, <2>10, <2>11, <2>12, <2>13, <2>14, <2>15
<1> QED
  BY <1>1, <1>2

LEMMA RetryKeeps ==
    ASSUME IngestionInv, RetryParent \/ \E k \in Kids : RetryChild(k)
    PROVE  IngestionInv'
<1> USE DEF IngestionInv
<1>0. /\ pc' = pc /\ found' = found /\ turn' = turn /\ results' = results /\ outcome' = outcome
      /\ revoked' = revoked /\ fenced' = fenced /\ processed' = processed
      /\ parent' = "failed" /\ lease' = NoWorker /\ manifest' = manifest /\ waived' = waived
  BY DEF RetryParent, RetryChild, workerVars
<1>1. parent \notin Settled
  <2>1. CASE RetryParent
    BY <2>1 DEF RetryParent, Settled
  <2>2. CASE \E k \in Kids : RetryChild(k)
    BY <2>2 DEF RetryChild, PrunedWhenSettled
  <2> QED
    BY <2>1, <2>2
<1>2. /\ child' \in [Kids -> States] /\ Rows' = Rows
      /\ \A j \in Kids : child[j] \in Settled => child'[j] = child[j]
  <2>1. CASE RetryParent
    BY <2>1 DEF RetryParent, TypeOK, Rows
  <2>2. CASE \E k \in Kids : RetryChild(k)
    <3>1. PICK k \in Kids : child[k] = "review" /\ child' = [child EXCEPT ![k] = "failed"]
      BY <2>2 DEF RetryChild
    <3> QED
      BY <3>1 DEF TypeOK, Rows, States, Settled
  <2> QED
    BY <2>1, <2>2
<1>3. TypeOK'
  BY <1>0, <1>2 DEF TypeOK, States
<1>4. ManifestOfChildren' /\ PrunedWhenSettled' /\ CommittedIsComplete'
  BY <1>0, <1>1, <1>2 DEF ManifestOfChildren, PrunedWhenSettled, CommittedIsComplete, Settled
<1>5. ToldTheTruth'
  BY <1>0, <1>2 DEF ToldTheTruth
<1>6. FollowsManifest' /\ CommitIsEarned'
  BY <1>0, <1>1, <1>2 DEF FollowsManifest, CommitIsEarned
<1>7. HolderSawNone'
  BY <1>0, IngestionAssumption DEF HolderSawNone
<1> QED
  BY <1>3, <1>4, <1>5, <1>6, <1>7

------------------------------------------------------------------------------

LEMMA InitHolds == Init => IngestionInv
<1>1. HAVE Init
<1>m. MaxEntities \in Nat /\ 0 \in 0..MaxEntities /\ 1 \in 1..(MaxEntities + 1)
  <2>1. MaxEntities \in Nat
    BY IngestionAssumption
  <2> QED
    BY <2>1
<1>2. TypeOK
  BY <1>1, <1>m DEF Init, TypeOK, States, Steps
<1>3. Rows = {}
  BY <1>1 DEF Init, Rows
<1>4. ManifestOfChildren /\ PrunedWhenSettled /\ CommittedIsComplete
  BY <1>1, <1>3 DEF Init, ManifestOfChildren, PrunedWhenSettled, CommittedIsComplete
<1>5. ToldTheTruth /\ FollowsManifest /\ HolderSawNone /\ CommitIsEarned
  BY <1>1 DEF Init, ToldTheTruth, FollowsManifest, HolderSawNone, CommitIsEarned, Settled,
              Following, Starting
<1> QED
  BY <1>2, <1>4, <1>5 DEF IngestionInv

LEMMA NextKeeps == IngestionInv /\ [Next]_vars => IngestionInv'
<1>1. HAVE IngestionInv /\ [Next]_vars
<1>2. CASE UNCHANGED vars
  <2>1. UNCHANGED <<parent, lease, manifest, child, pc, found, turn, results, revoked, outcome,
                    waived, fenced, processed>>
    BY <1>2 DEF vars, journalVars, workerVars
  <2> QED
    BY <1>1, <2>1 DEF IngestionInv, TypeOK, ManifestOfChildren, PrunedWhenSettled, ToldTheTruth,
                      FollowsManifest, HolderSawNone, CommitIsEarned, CommittedIsComplete, Rows
<1>3. ASSUME NEW w \in Workers, Step(w) \/ Disturb(w)
      PROVE  IngestionInv'
  BY <1>1, <1>3, OpenKeeps, ExtractKeeps, RecordKeeps, SubmitChildKeeps, AggregateKeeps,
     SettleParentKeeps, CheckpointKeeps, FenceKeeps DEF Step, Disturb
<1> QED
  BY <1>1, <1>2, <1>3, FenceKeeps, DismissKeeps, RetryKeeps DEF Next, Owner

(* Every reachable state of ingest(), its workers and the owner's          *)
(* resolutions satisfies the invariant the safety properties are parts of. *)
LEMMA IngestionInvariant == Spec => []IngestionInv
  BY InitHolds, NextKeeps, PTL DEF Spec

(* Every variable keeps its type: every step of ingest() and of the        *)
(* owner's resolutions leaves a row in a state of the journal.             *)
THEOREM TypeCorrect == Spec => []TypeOK
<1>1. IngestionInv => TypeOK
  BY DEF IngestionInv
<1> QED
  BY <1>1, IngestionInvariant, PTL

(* A source is recorded as committed, by a worker's aggregate or by the    *)
(* owner's last dismissal, only when no child of it is left undecided.     *)
THEOREM SourceComplete == Spec => []CommittedIsComplete
<1>1. IngestionInv => CommittedIsComplete
  BY DEF IngestionInv
<1> QED
  BY <1>1, IngestionInvariant, PTL

(* The child rows of an unsettled source are those of its one recorded     *)
(* manifest, whichever worker recorded it.                                 *)
THEOREM ChildrenOfManifest == Spec => []ManifestOfChildren
<1>1. IngestionInv => ManifestOfChildren
  BY DEF IngestionInv
<1> QED
  BY <1>1, IngestionInvariant, PTL

(* No step of anyone replaces a recorded manifest by another one, and none *)
(* drops it but the one that settles the source.                           *)
THEOREM OneManifest == Spec => ManifestOnce
<1>1. ASSUME IngestionInv, [Next]_vars
      PROVE  [manifest # 0 => /\ manifest' \in {manifest, 0}
                              /\ (manifest' = 0 => parent' \in Settled)]_vars
  <2>1. SUFFICES ASSUME manifest # 0, manifest' # manifest, Next
                 PROVE  manifest' = 0 /\ parent' \in Settled
    BY <1>1 DEF vars, journalVars
  <2>2. ASSUME NEW w \in Workers, RecordManifest(w)
        PROVE  FALSE
    BY <1>1, <2>1, <2>2
       DEF RecordManifest, IngestionInv, HolderSawNone, journalVars
  <2>3. ASSUME NEW w \in Workers, SettleParent(w)
        PROVE  manifest' = 0 /\ parent' \in Settled
    <3>1. outcome[w] \in Terminal
      BY <1>1, <2>3 DEF SettleParent, IngestionInv, CommitIsEarned, TypeOK
    <3> QED
      BY <2>1, <2>3, <3>1 DEF SettleParent, Terminal
  <2>4. CASE DismissParent
    BY <2>4 DEF DismissParent, Settled
  <2>5. ASSUME NEW k \in Kids, DismissChild(k)
        PROVE  manifest' = 0 /\ parent' \in Settled
    <3>1. PICK verdicts \in SUBSET Settled : parent' = Settlement(verdicts) /\ manifest' = 0
      BY <2>1, <2>5 DEF DismissChild
    <3> QED
      BY <3>1 DEF Settlement, Settled
  <2> QED
    BY <2>1, <2>2, <2>3, <2>4, <2>5
       DEF Next, Step, Disturb, Owner, Open, Claim, Reread, ReadManifest, Extract, SubmitChild,
           DecideChild, RereadChild, Aggregate, Checkpoint, ExtractionFails, SubmissionFails,
           Revoke, Crash, PlaceFence, ReleaseFence, RetryParent, RetryChild, journalVars
<1> QED
  BY <1>1, IngestionInvariant, PTL DEF Spec, ManifestOnce

(* A settled row is never written again.                                   *)
LEMMA FinalVerdicts ==
    ASSUME IngestionInv, Next
    PROVE  /\ parent \in Settled => parent' = parent
           /\ \A k \in Kids : child[k] \in Settled => child'[k] = child[k]
<1>1. child \in [Kids -> States] /\ parent \in States
  BY DEF IngestionInv, TypeOK
<1>2. ASSUME NEW w \in Workers, RecordManifest(w) \/ DecideChild(w) \/ SubmissionFails(w)
      PROVE  /\ parent' = parent
             /\ \A k \in Kids : child[k] \in Settled => child'[k] = child[k]
  BY <1>1, <1>2 DEF RecordManifest, DecideChild, SubmissionFails, journalVars, Settled, Terminal
<1>3. ASSUME NEW w \in Workers, Open(w) \/ SettleParent(w)
      PROVE  child' = child /\ (parent \in Settled => parent' = parent)
  BY <1>3 DEF Open, SettleParent, Settled, Terminal
<1>4. CASE DismissParent \/ RetryParent
  BY <1>4 DEF DismissParent, RetryParent, Settled, Unsettled
<1>5. ASSUME NEW k \in Kids, DismissChild(k) \/ RetryChild(k)
      PROVE  /\ parent \in Settled => parent' = parent
             /\ \A j \in Kids : child[j] \in Settled => child'[j] = child[j]
  <2>1. parent \in Settled => parent' = parent
    BY <1>5 DEF DismissChild, RetryChild, IngestionInv, PrunedWhenSettled
  <2>2. child[k] \notin Settled
    BY <1>5 DEF DismissChild, RetryChild, Settled, Unsettled
  <2>3. \/ child' = [child EXCEPT ![k] = "skipped"]
        \/ child' = [child EXCEPT ![k] = "failed"]
    BY <1>5 DEF DismissChild, RetryChild
  <2> QED
    BY <1>1, <2>1, <2>2, <2>3
<1> QED
  BY <1>2, <1>3, <1>4, <1>5
     DEF Next, Step, Disturb, Owner, Claim, Reread, ReadManifest, Extract, SubmitChild,
         RereadChild, Aggregate, Checkpoint, ExtractionFails, Revoke, Crash, PlaceFence,
         ReleaseFence, journalVars

(* A verdict is final: no worker, stop, crash or resolution of the owner's *)
(* changes a settled child, or a settled source.  The owner's retry of a   *)
(* child reaches no settled source because that one kept no manifest.      *)
THEOREM VerdictsAreFinal == Spec => SettledStays
<1>1. ASSUME IngestionInv, [Next]_vars
      PROVE  [/\ parent \in Settled => parent' = parent
              /\ \A k \in Kids : child[k] \in Settled => child'[k] = child[k]]_vars
  BY <1>1, FinalVerdicts
<1> QED
  BY <1>1, IngestionInvariant, PTL DEF Spec, SettledStays

------------------------------------------------------------------------------
(* The checkpoint.                                                         *)

(* A profile that marked the source, or is about to, did so over a settled *)
(* parent.                                                                 *)
MarkedIsSettled ==
    \A w \in Workers :
        processed[w] \/ (pc[w] = "checkpoint" /\ outcome[w] \in Settled) => parent \in Settled

(* An extraction starts without a manifest in hand; a worker about to      *)
(* settle the source by its children was told of all of them, and all are  *)
(* settled; and a settled source was waived or has no open child.          *)
ExtractsAfresh == \A w \in Workers : pc[w] = "extract" => found[w] = 0
SettlingIsComplete ==
    \A w \in Workers :
        pc[w] = "settle" /\ outcome[w] \in Settled /\ found[w] # 0 =>
            /\ parent \notin Settled => found[w] = manifest
            /\ \A k \in 1..found[w] : results[w][k] \in Settled
SettledIsComplete == parent \in Settled => waived \/ OpenRows = {}

CompleteInv ==
    /\ IngestionInv
    /\ ExtractsAfresh
    /\ SettlingIsComplete
    /\ SettledIsComplete

LEMMA MarkingKeeps ==
    ASSUME IngestionInv, MarkedIsSettled, Next
    PROVE  MarkedIsSettled'
<1>1. parent \in Settled => parent' \in Settled
  BY FinalVerdicts
<1>t. /\ processed \in [Workers -> BOOLEAN] /\ pc \in [Workers -> Steps]
      /\ outcome \in [Workers -> Terminal \cup {"none"}]
  BY DEF IngestionInv, TypeOK
<1>2. ASSUME NEW w \in Workers, Open(w) \/ Reread(w) \/ SettleParent(w)
      PROVE  MarkedIsSettled'
  <2>1. /\ processed' = processed /\ \A x \in Workers \ {w} : pc'[x] = pc[x] /\ outcome'[x] = outcome[x]
    BY <1>2, <1>t DEF Open, Reread, SettleParent, Answers, GiveUp, Goto, Keep
  <2>2. pc'[w] = "checkpoint" => outcome'[w] \notin Settled \/ parent' = outcome'[w]
    BY <1>2, <1>t DEF Open, Reread, SettleParent, Answers, GiveUp, Goto, Keep, journalVars, Settled
  <2> QED
    BY <1>1, <2>1, <2>2 DEF MarkedIsSettled
<1>3. ASSUME NEW w \in Workers,
             \/ Claim(w) \/ ReadManifest(w) \/ Extract(w) \/ RecordManifest(w) \/ SubmitChild(w)
             \/ DecideChild(w) \/ RereadChild(w) \/ Aggregate(w)
             \/ ExtractionFails(w) \/ SubmissionFails(w) \/ Crash(w)
      PROVE  MarkedIsSettled'
  <2>1. processed' = processed
    BY <1>3 DEF Claim, ReadManifest, Extract, RecordManifest, SubmitChild, DecideChild,
                RereadChild, Aggregate, ExtractionFails, SubmissionFails, Crash
  <2>2. /\ pc'[w] # "checkpoint"
        /\ \A x \in Workers \ {w} : pc'[x] = pc[x] /\ outcome'[x] = outcome[x]
    <3>1. CASE Claim(w) \/ ReadManifest(w) \/ Extract(w) \/ ExtractionFails(w) \/ Crash(w)
      BY <1>t, <3>1 DEF Claim, ReadManifest, Extract, ExtractionFails, Crash, GiveUp, Goto, Keep
    <3>2. CASE RecordManifest(w) \/ SubmitChild(w) \/ DecideChild(w) \/ SubmissionFails(w)
      BY <1>t, <3>2 DEF RecordManifest, SubmitChild, DecideChild, SubmissionFails, Told, GiveUp,
                        Goto, Keep
    <3>3. CASE RereadChild(w) \/ Aggregate(w)
      BY <1>t, <3>3 DEF RereadChild, Aggregate, Told, GiveUp, Goto, Keep
    <3> QED
      BY <1>3, <3>1, <3>2, <3>3
  <2> QED
    BY <1>1, <2>1, <2>2 DEF MarkedIsSettled
<1>4. ASSUME NEW w \in Workers, Checkpoint(w)
      PROVE  MarkedIsSettled'
  <2>1. /\ pc'[w] = "idle" /\ pc[w] = "checkpoint"
        /\ processed'[w] => outcome[w] \in Settled
        /\ \A x \in Workers \ {w} : /\ pc'[x] = pc[x] /\ outcome'[x] = outcome[x]
                                    /\ processed'[x] = processed[x]
    BY <1>4, <1>t DEF Checkpoint, GiveUp, Goto
  <2> QED
    BY <1>1, <2>1 DEF MarkedIsSettled
<1>5. ASSUME NEW w \in Workers, Revoke(w)
      PROVE  MarkedIsSettled'
  BY <1>1, <1>5 DEF Revoke, MarkedIsSettled
<1>6. ASSUME UNCHANGED <<workerVars, processed>>
      PROVE  MarkedIsSettled'
  BY <1>1, <1>6 DEF workerVars, MarkedIsSettled
<1> QED
  BY <1>2, <1>3, <1>4, <1>5, <1>6
     DEF Next, Step, Disturb, Owner, PlaceFence, ReleaseFence, DismissParent, RetryParent,
         DismissChild, RetryChild

(* Whatever other profiles and the owner do, a profile marks the source    *)
(* processed only when the source is settled, and it stays so.             *)
THEOREM MarkedStaysSettled == Spec => [](\A w \in Workers : processed[w] => parent \in Settled)
<1>1. Init => MarkedIsSettled
  BY DEF Init, MarkedIsSettled
<1>2. IngestionInv /\ MarkedIsSettled /\ [Next]_vars => MarkedIsSettled'
  <2>1. ASSUME MarkedIsSettled, UNCHANGED vars PROVE MarkedIsSettled'
    BY <2>1 DEF vars, journalVars, workerVars, MarkedIsSettled
  <2> QED
    BY <2>1, MarkingKeeps
<1>3. MarkedIsSettled => \A w \in Workers : processed[w] => parent \in Settled
  BY DEF MarkedIsSettled
<1> QED
  BY <1>1, <1>2, <1>3, IngestionInvariant, PTL DEF Spec

(* What a recorded manifest may become.                                    *)
LEMMA ManifestKept ==
    ASSUME IngestionInv, Next, manifest # 0
    PROVE  manifest' = manifest \/ parent' \in Settled
<1>1. ASSUME NEW w \in Workers, RecordManifest(w)
      PROVE  manifest' = manifest
  BY <1>1 DEF RecordManifest, IngestionInv, HolderSawNone, journalVars
<1>2. ASSUME NEW w \in Workers, SettleParent(w)
      PROVE  manifest' = manifest \/ parent' \in Settled
  <2>1. outcome[w] \in Terminal
    BY <1>2 DEF SettleParent, IngestionInv, CommitIsEarned, TypeOK
  <2> QED
    BY <1>2, <2>1 DEF SettleParent, Terminal
<1>3. ASSUME NEW k \in Kids, DismissChild(k)
      PROVE  manifest' = manifest \/ parent' \in Settled
  BY <1>3 DEF DismissChild, Settlement, Settled
<1> QED
  BY <1>1, <1>2, <1>3
     DEF Next, Step, Disturb, Owner, Open, Claim, Reread, ReadManifest, Extract, SubmitChild,
         DecideChild, RereadChild, Aggregate, Checkpoint, ExtractionFails, SubmissionFails,
         Revoke, Crash, PlaceFence, ReleaseFence, DismissParent, RetryParent, RetryChild,
         journalVars, Settled

(* A settled source gets no further rows, and is not waived afterwards.    *)
LEMMA SettledIsClosed ==
    ASSUME IngestionInv, Next, parent \in Settled
    PROVE  Rows' = Rows /\ waived' = waived
<1>t. child \in [Kids -> States] /\ parent \in Terminal
  BY DEF IngestionInv, TypeOK, Terminal
<1>1. ASSUME NEW w \in Workers, RecordManifest(w) \/ SettleParent(w)
      PROVE  child' = child /\ waived' = waived
  BY <1>t, <1>1 DEF RecordManifest, SettleParent, journalVars
<1>2. ASSUME NEW w \in Workers, DecideChild(w) \/ SubmissionFails(w)
      PROVE  Rows' = Rows /\ waived' = waived
  <2>1. /\ turn[w] \in Rows /\ waived' = waived
        /\ child' = child \/ \E v \in Verdicts : child' = [child EXCEPT ![turn[w]] = v]
    <3>1. pc[w] = "deciding" /\ found[w] \in 0..MaxEntities /\ turn[w] \in 1..(MaxEntities + 1)
      BY <1>2 DEF DecideChild, SubmissionFails, IngestionInv, TypeOK
    <3>2. turn[w] <= found[w] /\ 1..found[w] \subseteq Rows
      BY <3>1 DEF IngestionInv, FollowsManifest, Following
    <3>3. turn[w] \in 1..found[w]
      <4>1. MaxEntities \in Nat
        BY IngestionAssumption
      <4> QED
        BY <3>1, <3>2, <4>1
    <3>4. waived' = waived
      BY <1>2 DEF DecideChild, SubmissionFails
    <3>5. child' = child \/ \E v \in Verdicts : child' = [child EXCEPT ![turn[w]] = v]
      BY <1>2 DEF DecideChild, SubmissionFails, Verdicts
    <3> QED
      BY <3>2, <3>3, <3>4, <3>5
  <2> QED
    BY <1>t, <2>1 DEF Rows, Verdicts, Terminal, Settled
<1>3. ASSUME NEW k \in Kids, DismissChild(k) \/ RetryChild(k)
      PROVE  Rows' = Rows /\ waived' = waived
  BY <1>t, <1>3 DEF DismissChild, RetryChild, Rows, Unsettled
<1>4. ~DismissParent
  BY DEF DismissParent, Unsettled, Settled
<1>5. ASSUME child' = child PROVE Rows' = Rows
  BY <1>5 DEF Rows
<1> QED
  BY <1>1, <1>2, <1>3, <1>4, <1>5
     DEF Next, Step, Disturb, Owner, Open, Claim, Reread, ReadManifest, Extract, SubmitChild,
         RereadChild, Aggregate, Checkpoint, ExtractionFails, Revoke, Crash, PlaceFence,
         ReleaseFence, RetryParent, journalVars

(* A worker that stays at the settling of the source keeps its right to.   *)
LEMMA SettlingKept ==
    ASSUME CompleteInv, Next, NEW x \in Workers,
           pc'[x] = pc[x], found'[x] = found[x], outcome'[x] = outcome[x], results'[x] = results[x],
           pc'[x] = "settle", outcome'[x] \in Settled, found'[x] # 0
    PROVE  /\ parent' \notin Settled => found'[x] = manifest'
           /\ \A k \in 1..found'[x] : results'[x][k] \in Settled
<1>1. /\ parent \notin Settled => found[x] = manifest
      /\ \A k \in 1..found[x] : results[x][k] \in Settled
  BY DEF CompleteInv, SettlingIsComplete
<1>2. parent \in Settled => parent' \in Settled
  BY FinalVerdicts DEF CompleteInv
<1> QED
  BY <1>1, <1>2, ManifestKept DEF CompleteInv

LEMMA CompleteKeeps ==
    ASSUME CompleteInv, Next
    PROVE  CompleteInv'
<1>1. IngestionInv /\ IngestionInv'
  BY NextKeeps DEF CompleteInv
<1>t. /\ pc \in [Workers -> Steps] /\ outcome \in [Workers -> Terminal \cup {"none"}]
      /\ child \in [Kids -> States] /\ found \in [Workers -> 0..MaxEntities]
      /\ results \in [Workers -> [Kids -> Verdicts \cup {"none"}]]
  BY <1>1 DEF IngestionInv, TypeOK
<1>2. /\ parent \in Settled => parent' = parent
      /\ \A k \in Kids : child[k] \in Settled => child'[k] = child[k]
  BY <1>1, FinalVerdicts
<1>s. ASSUME parent' \in Settled => parent \in Settled
      PROVE  SettledIsComplete'
  BY <1>1, <1>2, <1>s, SettledIsClosed DEF CompleteInv, SettledIsComplete, OpenRows, Rows
<1>w. ASSUME NEW w \in Workers,
             \A x \in Workers \ {w} : /\ pc'[x] = pc[x] /\ found'[x] = found[x]
                                      /\ outcome'[x] = outcome[x] /\ results'[x] = results[x],
             pc'[w] = "extract" => found'[w] = 0,
             pc'[w] = "settle" /\ outcome'[w] \in Settled /\ found'[w] # 0 =>
                /\ parent' \notin Settled => found'[w] = manifest'
                /\ \A k \in 1..found'[w] : results'[w][k] \in Settled,
             SettledIsComplete'
      PROVE  CompleteInv'
  <2>1. ExtractsAfresh'
    BY <1>w DEF CompleteInv, ExtractsAfresh
  <2>2. SettlingIsComplete'
    BY <1>w, SettlingKept DEF SettlingIsComplete
  <2> QED
    BY <1>1, <1>w, <2>1, <2>2 DEF CompleteInv
<1>o. ASSUME pc' = pc, found' = found, outcome' = outcome, results' = results, SettledIsComplete'
      PROVE  CompleteInv'
  <2>1. ExtractsAfresh'
    BY <1>o DEF CompleteInv, ExtractsAfresh
  <2>2. SettlingIsComplete'
    BY <1>o, SettlingKept DEF SettlingIsComplete
  <2> QED
    BY <1>1, <1>o, <2>1, <2>2 DEF CompleteInv
<1>3. ASSUME NEW w \in Workers, Step(w) \/ Disturb(w), ~SettleParent(w)
      PROVE  CompleteInv'
  <2>1. \A x \in Workers \ {w} : /\ pc'[x] = pc[x] /\ found'[x] = found[x]
                                 /\ outcome'[x] = outcome[x] /\ results'[x] = results[x]
    <3>1. CASE Open(w) \/ Claim(w) \/ Reread(w) \/ ReadManifest(w) \/ Extract(w) \/ RecordManifest(w)
      BY <1>t, <3>1 DEF Open, Claim, Reread, ReadManifest, Extract, RecordManifest, Answers, GiveUp,
                        Goto, Keep
    <3>2. CASE SubmitChild(w) \/ DecideChild(w) \/ RereadChild(w) \/ SubmissionFails(w)
      BY <1>t, <3>2 DEF SubmitChild, DecideChild, RereadChild, SubmissionFails, Told, GiveUp, Goto, Keep
    <3>3. CASE Aggregate(w) \/ Checkpoint(w) \/ ExtractionFails(w) \/ Revoke(w) \/ Crash(w)
      BY <1>t, <3>3 DEF Aggregate, Checkpoint, ExtractionFails, Revoke, Crash, GiveUp, Goto
    <3> QED
      BY <1>3, <3>1, <3>2, <3>3 DEF Step, Disturb
  <2>2. SettledIsComplete'
    <3>1. parent' \in Settled => parent \in Settled
      BY <1>3 DEF Step, Disturb, Open, Claim, Reread, ReadManifest, Extract, RecordManifest,
                  SubmitChild, DecideChild, RereadChild, Aggregate, Checkpoint, ExtractionFails,
                  SubmissionFails, Revoke, Crash, journalVars, Settled
    <3> QED
      BY <1>s, <3>1
  <2>3. CASE ReadManifest(w)
    <3>1. found'[w] = manifest /\ pc'[w] = IF manifest = 0 THEN "extract" ELSE "children"
      BY <1>t, <2>3 DEF ReadManifest, Goto
    <3> QED
      BY <1>w, <2>1, <2>2, <3>1
  <2>4. CASE Extract(w)
    <3>1. /\ pc'[w] \in {"record", "settle"}
          /\ pc'[w] = "settle" => found'[w] = found[w]
          /\ found[w] = 0
      BY <1>t, <2>4 DEF Extract, Goto, CompleteInv, ExtractsAfresh
    <3> QED
      BY <1>w, <2>1, <2>2, <3>1
  <2>5. CASE Aggregate(w)
    <3>0. parent' = parent /\ manifest' = manifest /\ pc[w] = "children" /\ turn[w] > found[w]
      BY <2>5 DEF Aggregate, journalVars
    <3>1. CASE pc'[w] # "settle"
      <4>1. pc'[w] = "idle"
        BY <1>t, <2>5, <3>1 DEF Aggregate, GiveUp, Goto
      <4> QED
        BY <1>w, <2>1, <2>2, <4>1
    <3>2. CASE pc'[w] = "settle"
      <4>1. found' = found /\ results' = results /\ outcome'[w] = Verdict(w)
        BY <1>t, <2>5, <3>2 DEF Aggregate, GiveUp, Goto
      <4>2. parent \notin Settled => found[w] = manifest
        BY <1>1, <3>0 DEF IngestionInv, FollowsManifest, Following
      <4>3. \A k \in 1..found[w] : results[w][k] \in Verdicts
        <5>1. \A k \in Kids : k < turn[w] => results[w][k] \in Verdicts
          BY <1>1, <3>0 DEF IngestionInv, FollowsManifest, Following
        <5>2. found[w] \in 0..MaxEntities /\ turn[w] \in 1..(MaxEntities + 1) /\ MaxEntities \in Nat
          BY <1>1, IngestionAssumption DEF IngestionInv, TypeOK
        <5>3. \A k \in 1..found[w] : k \in Kids /\ k < turn[w]
          BY <3>0, <5>2 DEF Kids
        <5> QED
          BY <5>1, <5>3
      <4>4. ASSUME Verdict(w) \in Settled PROVE \A k \in 1..found[w] : results[w][k] \in Settled
        <5> DEFINE verdicts == {results[w][k] : k \in 1..found[w]}
        <5>1. Settlement(verdicts) \in Settled
          BY <4>4 DEF Verdict
        <5>2. "failed" \notin verdicts /\ "review" \notin verdicts
          BY <5>1, Zenon DEF Settlement, Settled
        <5> QED
          BY <4>3, <5>2 DEF Verdicts, Terminal
      <4> QED
        BY <1>w, <2>1, <2>2, <3>0, <3>2, <4>1, <4>2, <4>4
    <3> QED
      BY <3>1, <3>2
  <2>6. CASE ~ReadManifest(w) /\ ~Extract(w) /\ ~Aggregate(w)
    <3>1. pc'[w] \notin {"extract", "settle"}
      <4>1. CASE Open(w) \/ Claim(w) \/ Reread(w) \/ RecordManifest(w)
        BY <1>t, <4>1 DEF Open, Claim, Reread, RecordManifest, Answers, GiveUp, Goto
      <4>2. CASE SubmitChild(w) \/ DecideChild(w) \/ RereadChild(w) \/ SubmissionFails(w)
        BY <1>t, <4>2 DEF SubmitChild, DecideChild, RereadChild, SubmissionFails, Told, GiveUp, Goto
      <4>3. CASE Checkpoint(w) \/ ExtractionFails(w) \/ Revoke(w) \/ Crash(w)
        BY <1>t, <4>3 DEF Checkpoint, ExtractionFails, Revoke, Crash, GiveUp, Goto
      <4> QED
        BY <1>3, <2>6, <4>1, <4>2, <4>3 DEF Step, Disturb
    <3> QED
      BY <1>w, <2>1, <2>2, <3>1
  <2> QED
    BY <2>3, <2>4, <2>5, <2>6
<1>4. ASSUME NEW w \in Workers, SettleParent(w)
      PROVE  CompleteInv'
  <2>1. /\ pc[w] = "settle" /\ pc'[w] \in {"idle", "checkpoint"}
        /\ \A x \in Workers \ {w} : /\ pc'[x] = pc[x] /\ found'[x] = found[x]
                                    /\ outcome'[x] = outcome[x] /\ results'[x] = results[x]
        /\ child' = child
    BY <1>4, <1>t DEF SettleParent, Answers, GiveUp, Goto
  <2>2. SettledIsComplete'
    <3>1. CASE parent' \in Settled => parent \in Settled
      BY <1>s, <3>1
    <3>2. CASE parent' \in Settled /\ parent \notin Settled
      <4>1. /\ parent' = outcome[w]
            /\ waived' = (outcome[w] = "skipped" /\ found[w] = 0 /\ OpenRows # {})
        BY <1>4, <3>2 DEF SettleParent
      <4>2. OpenRows' = OpenRows
        BY <2>1 DEF OpenRows, Rows
      <4>3. CASE found[w] = 0
        <5>1. outcome[w] # "committed"
          <6>1. 1..0 = {}
            OBVIOUS
          <6> QED
            BY <1>1, <2>1, <4>3, <6>1 DEF IngestionInv, CommitIsEarned
        <5> QED
          BY <3>2, <4>1, <4>2, <4>3, <5>1 DEF SettledIsComplete, Settled
      <4>4. CASE found[w] # 0
        <5>1. /\ Rows = 1..found[w]
              /\ \A k \in 1..found[w] : results[w][k] \in Settled
          BY <1>1, <2>1, <3>2, <4>1, <4>4
             DEF CompleteInv, SettlingIsComplete, IngestionInv, ManifestOfChildren
        <5>2. \A k \in Rows : child[k] = results[w][k]
          BY <1>1, <5>1 DEF IngestionInv, ToldTheTruth, Rows
        <5>3. OpenRows = {}
          BY <5>1, <5>2 DEF OpenRows
        <5> QED
          BY <4>2, <5>3 DEF SettledIsComplete
      <4> QED
        BY <4>3, <4>4
    <3> QED
      BY <3>1, <3>2
  <2> QED
    BY <1>w, <2>1, <2>2
<1>5. CASE PlaceFence \/ ReleaseFence \/ RetryParent \/ \E k \in Kids : RetryChild(k)
  <2>1. pc' = pc /\ found' = found /\ outcome' = outcome /\ results' = results
    BY <1>5 DEF PlaceFence, ReleaseFence, RetryParent, RetryChild, workerVars
  <2>2. parent' \in Settled => parent \in Settled
    BY <1>5 DEF PlaceFence, ReleaseFence, RetryParent, RetryChild, journalVars, Settled
  <2> QED
    BY <1>o, <1>s, <2>1, <2>2
<1>6. CASE DismissParent
  <2>1. /\ pc' = pc /\ found' = found /\ outcome' = outcome /\ results' = results
        /\ child' = child /\ waived' = (OpenRows # {})
    BY <1>6 DEF DismissParent, workerVars
  <2>2. SettledIsComplete'
    BY <2>1 DEF SettledIsComplete, OpenRows, Rows
  <2> QED
    BY <1>o, <2>1, <2>2
<1>7. ASSUME NEW k \in Kids, DismissChild(k)
      PROVE  CompleteInv'
  <2>1. /\ pc' = pc /\ found' = found /\ outcome' = outcome /\ results' = results
        /\ child[k] \in Unsettled /\ child' = [child EXCEPT ![k] = "skipped"]
        /\ \/ parent' = parent
           \/ {child'[j] : j \in Rows} \subseteq Settled
    BY <1>7 DEF DismissChild, workerVars
  <2>2. Rows' = Rows
    BY <1>t, <2>1 DEF Rows, Unsettled
  <2>3. SettledIsComplete'
    <3>1. CASE parent' = parent
      BY <1>s, <3>1
    <3>2. CASE {child'[j] : j \in Rows} \subseteq Settled
      BY <2>2, <3>2 DEF SettledIsComplete, OpenRows
    <3> QED
      BY <2>1, <3>1, <3>2
  <2> QED
    BY <1>o, <2>1, <2>3
<1> QED
  BY <1>3, <1>4, <1>5, <1>6, <1>7 DEF Next, Owner

(* Whatever other profiles, crashes and the owner do, a profile marks a    *)
(* source processed only when every child of it is settled: an open child  *)
(* is left only where the owner dismissed the source over it, or a second  *)
(* extraction that found nothing settled it.                               *)
THEOREM ProcessedLeavesNothing == Spec => []ProcessedIsComplete
<1>1. Init => CompleteInv
  BY InitHolds DEF Init, CompleteInv, ExtractsAfresh, SettlingIsComplete, SettledIsComplete, Settled
<1>2. CompleteInv /\ [Next]_vars => CompleteInv'
  <2>1. ASSUME CompleteInv, UNCHANGED vars PROVE CompleteInv'
    <3>1. IngestionInv'
      BY <2>1, NextKeeps DEF CompleteInv
    <3>2. /\ pc' = pc /\ outcome' = outcome /\ manifest' = manifest /\ parent' = parent
          /\ child' = child /\ found' = found /\ results' = results /\ waived' = waived
      BY <2>1 DEF vars, journalVars, workerVars
    <3> QED
      BY <2>1, <3>1, <3>2
         DEF CompleteInv, ExtractsAfresh, SettlingIsComplete, SettledIsComplete, OpenRows, Rows
  <2> QED
    BY <2>1, CompleteKeeps
<1>3. CompleteInv /\ (\A w \in Workers : processed[w] => parent \in Settled) => ProcessedIsComplete
  BY DEF CompleteInv, SettledIsComplete, ProcessedIsComplete
<1> QED
  BY <1>1, <1>2, <1>3, MarkedStaysSettled, PTL DEF Spec
=============================================================================
