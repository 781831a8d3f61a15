--------------------------- MODULE DraftSendProofs ---------------------------
(***************************************************************************)
(* What holds of a draft for every set of requests and texts, whatever     *)
(* disturbs them: it is mailed once, stays sent, says what its card said   *)
(* unless an edit overtook the card, and is not discarded under a          *)
(* delivery.                                                               *)
(***************************************************************************)
EXTENDS DraftSend, TLAPS

(* A mail on the wire is the text of a claimed row.                        *)
OnTheWire == \A r \in Requests : pc[r] = "wire" => Claimed /\ row.text = snap[r]

(* Only a request that was answered by its transport has mailed.           *)
MailedLate ==
    \A r \in Requests : mailed[r] # None => pc[r] \in {"mark", "force", "hold", "done"}

(* An edit that may still be stored was decided on a draft nobody sends.   *)
EditsUnclaimed ==
    \A r \in seen : pc[r] = "save" => Exists /\ row.status \notin {"sending", "sent"}

(* What a request has read and nobody has written since is there.          *)
SeenExists == seen # {} => Exists

(* An edit has its text.                                                   *)
CardsAreTexts ==
    \A r \in Requests :
        edited[r] \/ pc[r] \in {"look", "save", "fixlook", "fixsave"} => card[r] \in Texts

(* The claim is one request's, and the row says so.                        *)
OneOwner == ~doubt => \A r, s \in Requests : pc[r] \in Owning /\ pc[s] \in Owning => r = s

OwnerHolds ==
    ~doubt => \A r \in Requests :
                 /\ pc[r] # "hold"
                 /\ pc[r] \in Owning /\ Exists => Claimed /\ ~row.stale

RetiredIsGone == retired => row = None

(* What was approved reaches the wire through the row.                     *)
CarriesApproval ==
    ~doubt => \A r \in Requests :
                 KindOf[r] = "tool" /\ edited[r] =>
                    /\ pc[r] = "reread" /\ Exists => row.text = card[r]
                    /\ pc[r] \in {"send", "wire"} /\ Exists => snap[r] = card[r]

(* A card nobody overtook shows what will be mailed.                       *)
Shows ==
    \A r \in Requests :
        KindOf[r] = "tool" /\ ~edited[r] =>
            /\ pc[r] \notin {"fixlook", "fixsave", "reread"}
            /\ r \notin overtaken =>
                 /\ pc[r] \in {"asked", "read"} /\ Exists => row.text = card[r]
                 /\ pc[r] \in {"claim", "send", "wire"} => snap[r] = card[r]

DraftInv ==
    /\ TypeOK
    /\ CardsAreTexts /\ SeenExists /\ OnTheWire /\ MailedLate
    /\ EditsUnclaimed /\ OneOwner /\ OwnerHolds /\ RetiredIsGone
    /\ SentOnce /\ DeliveredStaysSent /\ DiscardedUnsent
    /\ CarriesApproval /\ Shows /\ MailedAsShown

LEMMA Names == None \notin Texts /\ None \notin Requests /\ None \notin Row /\ KindOf \in [Requests -> Kinds]
  BY DraftAssumption

LEMMA InitHolds == Init => DraftInv
<1>1. HAVE Init
<1>2. TypeOK
  BY <1>1, Names DEF Init, TypeOK, Steps, Row
<1>3. /\ \A r \in Requests : pc[r] = "idle" /\ mailed[r] = None /\ ~edited[r]
      /\ seen = {} /\ retired = FALSE
  BY <1>1 DEF Init
<1> QED
  BY <1>2, <1>3 DEF DraftInv, CardsAreTexts, SeenExists, OnTheWire, MailedLate,
     EditsUnclaimed, OneOwner, OwnerHolds,
                    RetiredIsGone, SentOnce, DeliveredStaysSent, DiscardedUnsent,
                    CarriesApproval, Shows, MailedAsShown, Owning

(* Every step keeps the types.                                               *)
LEMMA TypeStep ==
    ASSUME TypeOK, SeenExists, CardsAreTexts, [Next]_vars
    PROVE  TypeOK'
<1>1. CASE UNCHANGED vars
  BY <1>1 DEF TypeOK, SeenExists, Exists, Steps, Owning, Row, vars, history
<1>2. CASE Age
  BY <1>2, Names DEF Age, TypeOK, SeenExists, Exists, Steps, Owning, Row, history, Claimed
<1>3. ASSUME NEW r \in Requests, Step(r) PROVE TypeOK'
  <2>1. CASE Ask(r)
    BY Names, <2>1 DEF Ask, Goto, history, Exists, Senders, TypeOK, SeenExists, Steps,
       Owning, Row
  <2>2. CASE Decline(r)
    BY Names, <2>2 DEF Decline, Goto, history, TypeOK, SeenExists, Exists, Steps,
       Owning, Row
  <2>3. CASE ApproveAsIs(r)
    BY Names, <2>3 DEF ApproveAsIs, Goto, history, TypeOK, SeenExists, Exists, Steps,
       Owning, Row
  <2>4. CASE ApproveFields(r)
    BY Names, <2>4 DEF ApproveFields, Goto, history, TypeOK, SeenExists, Exists, Steps,
       Owning, Row
  <2>5. CASE StartEdit(r)
    BY Names, <2>5 DEF StartEdit, Goto, history, TypeOK, SeenExists, Exists, Steps,
       Owning, Row
  <2>6. CASE Look(r)
    BY Names, <2>6 DEF Look, Goto, history, Exists, AfterEdit, Note, TypeOK, SeenExists,
       Steps, Owning, Row
  <2>7. CASE Read(r)
    BY Names, <2>7 DEF Read, Goto, history, Exists, TypeOK, SeenExists, Steps, Owning, Row
  <2>8. CASE StartDiscard(r)
    BY Names, <2>8 DEF StartDiscard, Goto, history, Exists, Claimed, TypeOK, SeenExists,
       Steps, Owning, Row
  <2>9. CASE Save(r)
    <3>1. card[r] \in Texts
      BY <2>9 DEF Save, CardsAreTexts
    <3>2. row' \in Row \cup {None} /\ seen' \subseteq Requests /\ overtaken' \subseteq Requests
      <4>1. CASE MayStore(r) /\ Store(card[r])
        BY <3>1, <4>1 DEF MayStore, Store, TypeOK, SeenExists, Exists, Row
      <4>2. CASE Drop
        BY <4>2 DEF Drop, Keep, TypeOK
      <4> QED
        BY <2>9, <4>1, <4>2 DEF Save
    <3>3. pc' \in [Requests -> Steps] /\ \A q \in Requests : writer = q <=> pc'[q] = "wire"
      BY <2>9 DEF Save, AfterEdit, Goto, TypeOK, Steps, Owning
    <3> QED
      BY <2>9, <3>2, <3>3 DEF Save, history, TypeOK
  <2>10. CASE Claim(r)
    <3>1. row' \in Row \cup {None} /\ seen' \subseteq Requests
      BY <2>10 DEF Claim, Claimable, Claimed, Exists, Write, Keep, TypeOK, Row
    <3>2. AfterClaim(r) \in {"remove", "fixlook", "send"}
      BY DEF AfterClaim
    <3>3. pc' \in [Requests -> Steps] /\ \A q \in Requests : writer = q <=> pc'[q] = "wire"
      BY <2>10, <3>2 DEF Claim, Goto, TypeOK, Steps, Owning
    <3> QED
      BY <2>10, <3>1, <3>3 DEF Claim, history, TypeOK
  <2>11. CASE FixLook(r) \/ Reread(r) \/ Dispatch(r)
    BY Names, <2>11 DEF FixLook, Reread, Dispatch, Goto, history, Exists, Note, MaySend,
       Claimed, TypeOK, SeenExists, Steps, Owning, Row
  <2>12. CASE FixSave(r)
    <3>1. card[r] \in Texts
      BY <2>12 DEF FixSave, CardsAreTexts
    <3>2. row' \in Row \cup {None} /\ seen' \subseteq Requests /\ overtaken' \subseteq Requests
      <4>1. CASE MayStore(r) /\ Store(card[r])
        BY <3>1, <4>1 DEF MayStore, Store, TypeOK, SeenExists, Exists, Row
      <4>2. CASE Drop
        BY <4>2 DEF Drop, Keep, TypeOK
      <4> QED
        BY <2>12, <4>1, <4>2 DEF FixSave
    <3>3. pc' \in [Requests -> Steps] /\ \A q \in Requests : writer = q <=> pc'[q] = "wire"
      BY <2>12 DEF FixSave, Goto, TypeOK, Steps, Owning
    <3> QED
      BY <2>12, <3>2, <3>3 DEF FixSave, history, TypeOK
  <2>13. CASE Accepted(r)
    BY Names, <2>13 DEF Accepted, Goto, history, TypeOK, SeenExists, Exists, Steps,
       Owning, Row
  <2>14. CASE Rejected(r)
    BY Names, <2>14 DEF Rejected, Goto, history, TypeOK, SeenExists, Exists, Steps,
       Owning, Row
  <2>15. CASE Lost(r)
    BY Names, <2>15 DEF Lost, Goto, history, TypeOK, SeenExists, Exists, Steps, Owning, Row
  <2>16. CASE GiveBack(r)
    <3>1. row' \in Row \cup {None} /\ seen' \subseteq Requests
      BY <2>16 DEF GiveBack, Release, Claimed, Exists, Write, Keep, TypeOK, Row
    <3>2. pc' \in [Requests -> Steps] /\ \A q \in Requests : writer = q <=> pc'[q] = "wire"
      BY <2>16 DEF GiveBack, Goto, TypeOK, Steps, Owning
    <3> QED
      BY <2>16, <3>1, <3>2 DEF GiveBack, history, TypeOK
  <2>17. CASE Mark(r)
    BY Names, <2>17 DEF Mark, Goto, history, Exists, Write, Keep, TypeOK, SeenExists,
       Steps, Owning, Row
  <2>18. CASE ForceSent(r)
    BY Names, <2>18 DEF ForceSent, Goto, history, Claimed, Exists, Write, Keep, TypeOK,
       SeenExists, Steps, Owning, Row
  <2>19. CASE Remove(r) \/ Delete(r)
    <3>1. row' = None /\ seen' = {} /\ retired' \in BOOLEAN
      BY <2>19 DEF Remove, Delete, history, Exists, Write, TypeOK
    <3>2. pc' \in [Requests -> Steps] /\ \A q \in Requests : writer = q <=> pc'[q] = "wire"
      BY <2>19 DEF Remove, Delete, Goto, TypeOK, Steps, Owning
    <3> QED
      BY <2>19, <3>1, <3>2 DEF Remove, Delete, history, TypeOK
  <2>20. CASE TimeOut(r)
    BY Names, <2>20 DEF TimeOut, Goto, history, TypeOK, SeenExists, Exists, Steps,
       Owning, Row
  <2>21. CASE Crash(r)
    BY Names, <2>21 DEF Crash, Goto, history, TypeOK, SeenExists, Exists, Steps, Owning, Row
  <2> QED
    BY <1>3, <2>1, <2>2, <2>3, <2>4, <2>5, <2>6, <2>7, <2>8, <2>9, <2>10, <2>11, <2>12,
       <2>13, <2>14, <2>15, <2>16, <2>17, <2>18, <2>19, <2>20, <2>21 DEF Step
<1> QED
  BY <1>1, <1>2, <1>3 DEF Next

(* An edit knows what to store before it looks.                              *)
LEMMA CardStep ==
    ASSUME TypeOK, CardsAreTexts, [Next]_vars
    PROVE  CardsAreTexts'
<1>1. CASE UNCHANGED vars
  BY <1>1 DEF TypeOK, Row, CardsAreTexts, vars, history
<1>2. CASE Age
  BY <1>2, Names DEF Age, TypeOK, Row, CardsAreTexts, history, Claimed, Exists
<1>3. ASSUME NEW r \in Requests, Step(r) PROVE CardsAreTexts'
  <2>1. CASE Ask(r) \/ Decline(r) \/ ApproveAsIs(r) \/ ApproveFields(r) \/ StartEdit(r) \/
     Look(r) \/ Read(r) \/ StartDiscard(r)
    BY Names, <2>1 DEF Ask, Decline, ApproveAsIs, ApproveFields, StartEdit, Look, Read,
       StartDiscard, Goto, history, Exists, Senders, AfterEdit, Note, Claimed, TypeOK,
       Row, CardsAreTexts
  <2>2. CASE Save(r)
    BY Names, <2>2 DEF Save, Goto, history, MayStore, Store, Drop, Keep, AfterEdit, TypeOK,
       Row, CardsAreTexts
  <2>3. CASE Claim(r)
    BY Names, <2>3 DEF Claim, Goto, history, Claimable, Claimed, Exists, Write, Keep,
       AfterClaim, TypeOK, Row, CardsAreTexts
  <2>4. CASE FixLook(r) \/ Reread(r) \/ Dispatch(r)
    BY Names, <2>4 DEF FixLook, Reread, Dispatch, Goto, history, Exists, Note, MaySend,
       Claimed, TypeOK, Row, CardsAreTexts
  <2>5. CASE FixSave(r)
    BY Names, <2>5 DEF FixSave, Goto, history, MayStore, Store, Drop, Keep, TypeOK, Row,
       CardsAreTexts
  <2>6. CASE Accepted(r)
    BY Names, <2>6 DEF Accepted, Goto, history, TypeOK, Row, CardsAreTexts
  <2>7. CASE Rejected(r) \/ Lost(r)
    BY Names, <2>7 DEF Rejected, Lost, Goto, history, TypeOK, Row, CardsAreTexts
  <2>8. CASE GiveBack(r)
    BY Names, <2>8 DEF GiveBack, Goto, history, Release, Claimed, Exists, Write, Keep,
       TypeOK, Row, CardsAreTexts
  <2>9. CASE Mark(r) \/ ForceSent(r)
    BY Names, <2>9 DEF Mark, ForceSent, Goto, history, Exists, Write, Keep, Claimed,
       TypeOK, Row, CardsAreTexts
  <2>10. CASE Remove(r) \/ Delete(r)
    BY Names, <2>10 DEF Remove, Delete, Goto, history, Exists, Write, TypeOK, Row,
       CardsAreTexts
  <2>11. CASE TimeOut(r) \/ Crash(r)
    BY Names, <2>11 DEF TimeOut, Crash, Goto, history, TypeOK, Row, CardsAreTexts
  <2> QED
    BY <1>3, <2>1, <2>2, <2>3, <2>4, <2>5, <2>6, <2>7, <2>8, <2>9, <2>10, <2>11 DEF Step
<1> QED
  BY <1>1, <1>2, <1>3 DEF Next

(* A removal forgets what was read.                                          *)
LEMMA SeenStep ==
    ASSUME TypeOK, SeenExists, CardsAreTexts, [Next]_vars
    PROVE  SeenExists'
<1>1. CASE UNCHANGED vars
  BY <1>1 DEF TypeOK, Row, SeenExists, CardsAreTexts, Claimed, Exists, vars, history
<1>2. CASE Age
  BY <1>2, Names DEF Age, TypeOK, Row, SeenExists, CardsAreTexts, Claimed, Exists, history
<1>3. ASSUME NEW r \in Requests, Step(r) PROVE SeenExists'
  <2>1. CASE Ask(r) \/ Decline(r) \/ ApproveAsIs(r) \/ ApproveFields(r) \/ StartEdit(r) \/
     Look(r) \/ Read(r) \/ StartDiscard(r)
    BY Names, <2>1 DEF Ask, Decline, ApproveAsIs, ApproveFields, StartEdit, Look, Read,
       StartDiscard, Goto, history, Exists, Senders, AfterEdit, Note, Claimed, TypeOK,
       Row, SeenExists, CardsAreTexts
  <2>2. CASE Save(r)
    BY Names, <2>2 DEF Save, Goto, history, MayStore, Store, Drop, Keep, AfterEdit, TypeOK,
       Row, SeenExists, CardsAreTexts, Claimed, Exists
  <2>3. CASE Claim(r)
    BY Names, <2>3 DEF Claim, Goto, history, Claimable, Claimed, Exists, Write, Keep,
       AfterClaim, TypeOK, Row, SeenExists, CardsAreTexts
  <2>4. CASE FixLook(r) \/ Reread(r) \/ Dispatch(r)
    BY Names, <2>4 DEF FixLook, Reread, Dispatch, Goto, history, Exists, Note, MaySend,
       Claimed, TypeOK, Row, SeenExists, CardsAreTexts
  <2>5. CASE FixSave(r)
    BY Names, <2>5 DEF FixSave, Goto, history, MayStore, Store, Drop, Keep, TypeOK, Row,
       SeenExists, CardsAreTexts, Claimed, Exists
  <2>6. CASE Accepted(r)
    BY Names, <2>6 DEF Accepted, Goto, history, TypeOK, Row, SeenExists, CardsAreTexts,
       Claimed, Exists
  <2>7. CASE Rejected(r) \/ Lost(r)
    BY Names, <2>7 DEF Rejected, Lost, Goto, history, TypeOK, Row, SeenExists,
       CardsAreTexts, Claimed, Exists
  <2>8. CASE GiveBack(r)
    BY Names, <2>8 DEF GiveBack, Goto, history, Release, Claimed, Exists, Write, Keep,
       TypeOK, Row, SeenExists, CardsAreTexts
  <2>9. CASE Mark(r) \/ ForceSent(r)
    BY Names, <2>9 DEF Mark, ForceSent, Goto, history, Exists, Write, Keep, Claimed,
       TypeOK, Row, SeenExists, CardsAreTexts
  <2>10. CASE Remove(r) \/ Delete(r)
    BY Names, <2>10 DEF Remove, Delete, Goto, history, Exists, Write, TypeOK, Row,
       SeenExists, CardsAreTexts, Claimed
  <2>11. CASE TimeOut(r) \/ Crash(r)
    BY Names, <2>11 DEF TimeOut, Crash, Goto, history, TypeOK, Row, SeenExists,
       CardsAreTexts, Claimed, Exists
  <2> QED
    BY <1>3, <2>1, <2>2, <2>3, <2>4, <2>5, <2>6, <2>7, <2>8, <2>9, <2>10, <2>11 DEF Step
<1> QED
  BY <1>1, <1>2, <1>3 DEF Next

(* While a mail is on the wire nobody else writes.                           *)
LEMMA WireStep ==
    ASSUME TypeOK, TypeOK', OnTheWire, [Next]_vars
    PROVE  OnTheWire'
<1>1. CASE UNCHANGED vars
  BY <1>1 DEF TypeOK, Row, OnTheWire, Claimed, Exists, vars, history
<1>2. CASE Age
  BY <1>2, Names DEF Age, TypeOK, Row, OnTheWire, Claimed, Exists, history
<1>3. ASSUME NEW r \in Requests, Step(r) PROVE OnTheWire'
  <2>1. CASE Ask(r) \/ Decline(r) \/ ApproveAsIs(r) \/ ApproveFields(r) \/ StartEdit(r) \/
     Look(r) \/ Read(r) \/ StartDiscard(r)
    BY Names, <2>1 DEF Ask, Decline, ApproveAsIs, ApproveFields, StartEdit, Look, Read,
       StartDiscard, Goto, history, Exists, Senders, AfterEdit, Note, Claimed, TypeOK,
       Row, OnTheWire
  <2>2. CASE Save(r)
    BY Names, <2>2 DEF Save, Goto, history, MayStore, Store, Drop, Keep, AfterEdit, TypeOK,
       Row, OnTheWire, Claimed, Exists
  <2>3. CASE Claim(r)
    BY Names, <2>3 DEF Claim, Goto, history, Claimable, Claimed, Exists, Write, Keep,
       AfterClaim, TypeOK, Row, OnTheWire
  <2>4. CASE FixLook(r) \/ Reread(r) \/ Dispatch(r)
    BY Names, <2>4 DEF FixLook, Reread, Dispatch, Goto, history, Exists, Note, MaySend,
       Claimed, TypeOK, Row, OnTheWire
  <2>5. CASE FixSave(r)
    BY Names, <2>5 DEF FixSave, Goto, history, MayStore, Store, Drop, Keep, TypeOK, Row,
       OnTheWire, Claimed, Exists
  <2>6. CASE Accepted(r)
    BY Names, <2>6 DEF Accepted, Goto, history, TypeOK, Row, OnTheWire, Claimed, Exists
  <2>7. CASE Rejected(r) \/ Lost(r)
    BY Names, <2>7 DEF Rejected, Lost, Goto, history, TypeOK, Row, OnTheWire, Claimed,
       Exists
  <2>8. CASE GiveBack(r)
    BY Names, <2>8 DEF GiveBack, Goto, history, Release, Claimed, Exists, Write, Keep,
       TypeOK, Row, OnTheWire
  <2>9. CASE Mark(r) \/ ForceSent(r)
    BY Names, <2>9 DEF Mark, ForceSent, Goto, history, Exists, Write, Keep, Claimed,
       TypeOK, Row, OnTheWire
  <2>10. CASE Remove(r) \/ Delete(r)
    BY Names, <2>10 DEF Remove, Delete, Goto, history, Exists, Write, TypeOK, Row,
       OnTheWire, Claimed
  <2>11. CASE TimeOut(r) \/ Crash(r)
    BY Names, <2>11 DEF TimeOut, Crash, Goto, history, TypeOK, Row, OnTheWire, Claimed,
       Exists
  <2> QED
    BY <1>3, <2>1, <2>2, <2>3, <2>4, <2>5, <2>6, <2>7, <2>8, <2>9, <2>10, <2>11 DEF Step
<1> QED
  BY <1>1, <1>2, <1>3 DEF Next

(* A request mails at the end of its transport.                              *)
LEMMA MailedStep ==
    ASSUME TypeOK, MailedLate, [Next]_vars
    PROVE  MailedLate'
<1>1. CASE UNCHANGED vars
  BY <1>1 DEF TypeOK, MailedLate, vars, history
<1>2. CASE Age
  BY <1>2, Names DEF Age, TypeOK, MailedLate, history, Claimed, Exists
<1>3. ASSUME NEW r \in Requests, Step(r) PROVE MailedLate'
  <2>1. CASE Ask(r) \/ Decline(r) \/ ApproveAsIs(r) \/ ApproveFields(r) \/ StartEdit(r) \/
     Look(r) \/ Read(r) \/ StartDiscard(r)
    BY Names, <2>1 DEF Ask, Decline, ApproveAsIs, ApproveFields, StartEdit, Look, Read,
       StartDiscard, Goto, history, Exists, Senders, AfterEdit, Note, Claimed, TypeOK,
       MailedLate
  <2>2. CASE Save(r)
    BY Names, <2>2 DEF Save, Goto, history, MayStore, Store, Drop, Keep, AfterEdit, TypeOK,
       MailedLate
  <2>3. CASE Claim(r)
    BY Names, <2>3 DEF Claim, Goto, history, Claimable, Claimed, Exists, Write, Keep,
       AfterClaim, TypeOK, MailedLate
  <2>4. CASE FixLook(r) \/ Reread(r) \/ Dispatch(r)
    BY Names, <2>4 DEF FixLook, Reread, Dispatch, Goto, history, Exists, Note, MaySend,
       Claimed, TypeOK, MailedLate
  <2>5. CASE FixSave(r)
    BY Names, <2>5 DEF FixSave, Goto, history, MayStore, Store, Drop, Keep, TypeOK, MailedLate
  <2>6. CASE Accepted(r)
    BY Names, <2>6 DEF Accepted, Goto, history, TypeOK, MailedLate
  <2>7. CASE Rejected(r) \/ Lost(r)
    BY Names, <2>7 DEF Rejected, Lost, Goto, history, TypeOK, MailedLate
  <2>8. CASE GiveBack(r)
    BY Names, <2>8 DEF GiveBack, Goto, history, Release, Claimed, Exists, Write, Keep,
       TypeOK, MailedLate
  <2>9. CASE Mark(r) \/ ForceSent(r)
    BY Names, <2>9 DEF Mark, ForceSent, Goto, history, Exists, Write, Keep, Claimed,
       TypeOK, MailedLate
  <2>10. CASE Remove(r) \/ Delete(r)
    BY Names, <2>10 DEF Remove, Delete, Goto, history, Exists, Write, TypeOK, MailedLate
  <2>11. CASE TimeOut(r) \/ Crash(r)
    BY Names, <2>11 DEF TimeOut, Crash, Goto, history, TypeOK, MailedLate
  <2> QED
    BY <1>3, <2>1, <2>2, <2>3, <2>4, <2>5, <2>6, <2>7, <2>8, <2>9, <2>10, <2>11 DEF Step
<1> QED
  BY <1>1, <1>2, <1>3 DEF Next

(* Every write makes the edits decided before it fail.                       *)
LEMMA EditsStep ==
    ASSUME TypeOK, SeenExists, CardsAreTexts, EditsUnclaimed, [Next]_vars
    PROVE  EditsUnclaimed'
<1>1. CASE UNCHANGED vars
  BY <1>1 DEF TypeOK, Row, SeenExists, CardsAreTexts, EditsUnclaimed, Claimed, Exists,
     vars, history
<1>2. CASE Age
  BY <1>2, Names DEF Age, TypeOK, Row, SeenExists, CardsAreTexts, EditsUnclaimed, Claimed,
     Exists, history
<1>3. ASSUME NEW r \in Requests, Step(r) PROVE EditsUnclaimed'
  <2>1. CASE Ask(r) \/ Decline(r) \/ ApproveAsIs(r) \/ ApproveFields(r) \/ StartEdit(r) \/
     Look(r) \/ Read(r) \/ StartDiscard(r)
    BY Names, <2>1 DEF Ask, Decline, ApproveAsIs, ApproveFields, StartEdit, Look, Read,
       StartDiscard, Goto, history, Exists, Senders, AfterEdit, Note, Claimed, TypeOK,
       Row, SeenExists, CardsAreTexts, EditsUnclaimed
  <2>2. CASE Save(r)
    BY Names, <2>2 DEF Save, Goto, history, MayStore, Store, Drop, Keep, AfterEdit, TypeOK,
       Row, SeenExists, CardsAreTexts, EditsUnclaimed, Claimed, Exists
  <2>3. CASE Claim(r)
    BY Names, <2>3 DEF Claim, Goto, history, Claimable, Claimed, Exists, Write, Keep,
       AfterClaim, TypeOK, Row, SeenExists, CardsAreTexts, EditsUnclaimed
  <2>4. CASE FixLook(r) \/ Reread(r) \/ Dispatch(r)
    BY Names, <2>4 DEF FixLook, Reread, Dispatch, Goto, history, Exists, Note, MaySend,
       Claimed, TypeOK, Row, SeenExists, CardsAreTexts, EditsUnclaimed
  <2>5. CASE FixSave(r)
    BY Names, <2>5 DEF FixSave, Goto, history, MayStore, Store, Drop, Keep, TypeOK, Row,
       SeenExists, CardsAreTexts, EditsUnclaimed, Claimed, Exists
  <2>6. CASE Accepted(r)
    BY Names, <2>6 DEF Accepted, Goto, history, TypeOK, Row, SeenExists, CardsAreTexts,
       EditsUnclaimed, Claimed, Exists
  <2>7. CASE Rejected(r) \/ Lost(r)
    BY Names, <2>7 DEF Rejected, Lost, Goto, history, TypeOK, Row, SeenExists,
       CardsAreTexts, EditsUnclaimed, Claimed, Exists
  <2>8. CASE GiveBack(r)
    BY Names, <2>8 DEF GiveBack, Goto, history, Release, Claimed, Exists, Write, Keep,
       TypeOK, Row, SeenExists, CardsAreTexts, EditsUnclaimed
  <2>9. CASE Mark(r) \/ ForceSent(r)
    BY Names, <2>9 DEF Mark, ForceSent, Goto, history, Exists, Write, Keep, Claimed,
       TypeOK, Row, SeenExists, CardsAreTexts, EditsUnclaimed
  <2>10. CASE Remove(r) \/ Delete(r)
    BY Names, <2>10 DEF Remove, Delete, Goto, history, Exists, Write, TypeOK, Row,
       SeenExists, CardsAreTexts, EditsUnclaimed, Claimed
  <2>11. CASE TimeOut(r) \/ Crash(r)
    BY Names, <2>11 DEF TimeOut, Crash, Goto, history, TypeOK, Row, SeenExists,
       CardsAreTexts, EditsUnclaimed, Claimed, Exists
  <2> QED
    BY <1>3, <2>1, <2>2, <2>3, <2>4, <2>5, <2>6, <2>7, <2>8, <2>9, <2>10, <2>11 DEF Step
<1> QED
  BY <1>1, <1>2, <1>3 DEF Next

(* A fresh claim keeps every other request out.                              *)
LEMMA OwnerStep ==
    ASSUME TypeOK, OneOwner, OwnerHolds, [Next]_vars
    PROVE  OneOwner'
<1>1. CASE UNCHANGED vars
  BY <1>1 DEF TypeOK, Row, OneOwner, OwnerHolds, Owning, Claimed, Exists, vars, history
<1>2. CASE Age
  BY <1>2, Names DEF Age, TypeOK, Row, OneOwner, OwnerHolds, Owning, Claimed, Exists,
     history
<1>3. ASSUME NEW r \in Requests, Step(r) PROVE OneOwner'
  <2>1. CASE Ask(r) \/ Decline(r) \/ ApproveAsIs(r) \/ ApproveFields(r) \/ StartEdit(r) \/
     Look(r) \/ Read(r) \/ StartDiscard(r)
    BY Names, <2>1 DEF Ask, Decline, ApproveAsIs, ApproveFields, StartEdit, Look, Read,
       StartDiscard, Goto, history, Exists, Senders, AfterEdit, Note, Claimed, TypeOK,
       Row, OneOwner, OwnerHolds, Owning
  <2>2. CASE Save(r)
    BY Names, <2>2 DEF Save, Goto, history, MayStore, Store, Drop, Keep, AfterEdit, TypeOK,
       Row, OneOwner, OwnerHolds, Owning, Claimed, Exists
  <2>3. CASE Claim(r)
    BY Names, <2>3 DEF Claim, Goto, history, Claimable, Claimed, Exists, Write, Keep,
       AfterClaim, TypeOK, Row, OneOwner, OwnerHolds, Owning
  <2>4. CASE FixLook(r) \/ Reread(r) \/ Dispatch(r)
    BY Names, <2>4 DEF FixLook, Reread, Dispatch, Goto, history, Exists, Note, MaySend,
       Claimed, TypeOK, Row, OneOwner, OwnerHolds, Owning
  <2>5. CASE FixSave(r)
    BY Names, <2>5 DEF FixSave, Goto, history, MayStore, Store, Drop, Keep, TypeOK, Row,
       OneOwner, OwnerHolds, Owning, Claimed, Exists
  <2>6. CASE Accepted(r)
    BY Names, <2>6 DEF Accepted, Goto, history, TypeOK, Row, OneOwner, OwnerHolds,
       Owning, Claimed, Exists
  <2>7. CASE Rejected(r) \/ Lost(r)
    BY Names, <2>7 DEF Rejected, Lost, Goto, history, TypeOK, Row, OneOwner, OwnerHolds,
       Owning, Claimed, Exists
  <2>8. CASE GiveBack(r)
    BY Names, <2>8 DEF GiveBack, Goto, history, Release, Claimed, Exists, Write, Keep,
       TypeOK, Row, OneOwner, OwnerHolds, Owning
  <2>9. CASE Mark(r) \/ ForceSent(r)
    BY Names, <2>9 DEF Mark, ForceSent, Goto, history, Exists, Write, Keep, Claimed,
       TypeOK, Row, OneOwner, OwnerHolds, Owning
  <2>10. CASE Remove(r) \/ Delete(r)
    BY Names, <2>10 DEF Remove, Delete, Goto, history, Exists, Write, TypeOK, Row,
       OneOwner, OwnerHolds, Owning, Claimed
  <2>11. CASE TimeOut(r) \/ Crash(r)
    BY Names, <2>11 DEF TimeOut, Crash, Goto, history, TypeOK, Row, OneOwner,
       OwnerHolds, Owning, Claimed, Exists
  <2> QED
    BY <1>3, <2>1, <2>2, <2>3, <2>4, <2>5, <2>6, <2>7, <2>8, <2>9, <2>10, <2>11 DEF Step
<1> QED
  BY <1>1, <1>2, <1>3 DEF Next

(* The owner's claim is in the row until the owner gives it up.              *)
LEMMA HoldsStep ==
    ASSUME TypeOK, SeenExists, OneOwner, OwnerHolds, EditsUnclaimed, [Next]_vars
    PROVE  OwnerHolds'
<1>1. CASE UNCHANGED vars
  BY <1>1 DEF TypeOK, Row, SeenExists, OneOwner, OwnerHolds, EditsUnclaimed, Owning,
     Claimed, Exists, vars, history
<1>2. CASE Age
  BY <1>2, Names DEF Age, TypeOK, Row, SeenExists, OneOwner, OwnerHolds, EditsUnclaimed,
     Owning, Claimed, Exists, history
<1>3. ASSUME NEW r \in Requests, Step(r) PROVE OwnerHolds'
  <2>1. CASE Ask(r) \/ Decline(r) \/ ApproveAsIs(r) \/ ApproveFields(r) \/ StartEdit(r) \/
     Look(r) \/ Read(r) \/ StartDiscard(r)
    BY Names, <2>1 DEF Ask, Decline, ApproveAsIs, ApproveFields, StartEdit, Look, Read,
       StartDiscard, Goto, history, Exists, Senders, AfterEdit, Note, Claimed, TypeOK,
       Row, SeenExists, OneOwner, OwnerHolds, EditsUnclaimed, Owning
  <2>2. CASE Save(r)
    BY Names, <2>2 DEF Save, Goto, history, MayStore, Store, Drop, Keep, AfterEdit, TypeOK,
       Row, SeenExists, OneOwner, OwnerHolds, EditsUnclaimed, Owning, Claimed, Exists
  <2>3. CASE Claim(r)
    <3>1. CASE Claimable
      <4>1. row # None /\ row \in Row
        BY <3>1 DEF Claimable, Exists, TypeOK
      <4>2. row' \in Row /\ row'.status = "sending" /\ row'.stale = FALSE
        BY <3>1, <4>1, <2>3 DEF Claim, Write, Row
      <4>3. pc' = [pc EXCEPT ![r] = AfterClaim(r)] /\ AfterClaim(r) # "hold"
        BY <3>1, <2>3 DEF Claim, Goto, AfterClaim
      <4> QED
        BY <4>2, <4>3, <2>3 DEF Claim, history, OwnerHolds, TypeOK, Claimed, Exists
    <3>2. CASE ~Claimable
      BY <3>2, <2>3 DEF Claim, Keep, Goto, history, OwnerHolds, TypeOK, Claimed,
         Exists, Owning
    <3> QED
      BY <3>1, <3>2
  <2>4. CASE FixLook(r) \/ Reread(r) \/ Dispatch(r)
    BY Names, <2>4 DEF FixLook, Reread, Dispatch, Goto, history, Exists, Note, MaySend,
       Claimed, TypeOK, Row, SeenExists, OneOwner, OwnerHolds, EditsUnclaimed, Owning
  <2>5. CASE FixSave(r)
    BY Names, <2>5 DEF FixSave, Goto, history, MayStore, Store, Drop, Keep, TypeOK, Row,
       SeenExists, OneOwner, OwnerHolds, EditsUnclaimed, Owning, Claimed, Exists
  <2>6. CASE Accepted(r)
    BY Names, <2>6 DEF Accepted, Goto, history, TypeOK, Row, SeenExists, OneOwner,
       OwnerHolds, EditsUnclaimed, Owning, Claimed, Exists
  <2>7. CASE Rejected(r) \/ Lost(r)
    BY Names, <2>7 DEF Rejected, Lost, Goto, history, TypeOK, Row, SeenExists, OneOwner,
       OwnerHolds, EditsUnclaimed, Owning, Claimed, Exists
  <2>8. CASE GiveBack(r)
    BY Names, <2>8 DEF GiveBack, Goto, history, Release, Claimed, Exists, Write, Keep,
       TypeOK, Row, SeenExists, OneOwner, OwnerHolds, EditsUnclaimed, Owning
  <2>9. CASE Mark(r) \/ ForceSent(r)
    BY Names, <2>9 DEF Mark, ForceSent, Goto, history, Exists, Write, Keep, Claimed,
       TypeOK, Row, SeenExists, OneOwner, OwnerHolds, EditsUnclaimed, Owning
  <2>10. CASE Remove(r) \/ Delete(r)
    BY Names, <2>10 DEF Remove, Delete, Goto, history, Exists, Write, TypeOK, Row,
       SeenExists, OneOwner, OwnerHolds, EditsUnclaimed, Owning, Claimed
  <2>11. CASE TimeOut(r) \/ Crash(r)
    BY Names, <2>11 DEF TimeOut, Crash, Goto, history, TypeOK, Row, SeenExists,
       OneOwner, OwnerHolds, EditsUnclaimed, Owning, Claimed, Exists
  <2> QED
    BY <1>3, <2>1, <2>2, <2>3, <2>4, <2>5, <2>6, <2>7, <2>8, <2>9, <2>10, <2>11 DEF Step
<1> QED
  BY <1>1, <1>2, <1>3 DEF Next

(* A removed row does not come back.                                         *)
LEMMA GoneStep ==
    ASSUME TypeOK, SeenExists, RetiredIsGone, [Next]_vars
    PROVE  RetiredIsGone'
<1>1. CASE UNCHANGED vars
  BY <1>1 DEF TypeOK, Row, SeenExists, RetiredIsGone, Claimed, Exists, vars, history
<1>2. CASE Age
  BY <1>2, Names DEF Age, TypeOK, Row, SeenExists, RetiredIsGone, Claimed, Exists, history
<1>3. ASSUME NEW r \in Requests, Step(r) PROVE RetiredIsGone'
  <2>1. CASE Ask(r) \/ Decline(r) \/ ApproveAsIs(r) \/ ApproveFields(r) \/ StartEdit(r) \/
     Look(r) \/ Read(r) \/ StartDiscard(r)
    BY Names, <2>1 DEF Ask, Decline, ApproveAsIs, ApproveFields, StartEdit, Look, Read,
       StartDiscard, Goto, history, Exists, Senders, AfterEdit, Note, Claimed, TypeOK,
       Row, SeenExists, RetiredIsGone
  <2>2. CASE Save(r)
    BY Names, <2>2 DEF Save, Goto, history, MayStore, Store, Drop, Keep, AfterEdit, TypeOK,
       Row, SeenExists, RetiredIsGone, Claimed, Exists
  <2>3. CASE Claim(r)
    BY Names, <2>3 DEF Claim, Goto, history, Claimable, Claimed, Exists, Write, Keep,
       AfterClaim, TypeOK, Row, SeenExists, RetiredIsGone
  <2>4. CASE FixLook(r) \/ Reread(r) \/ Dispatch(r)
    BY Names, <2>4 DEF FixLook, Reread, Dispatch, Goto, history, Exists, Note, MaySend,
       Claimed, TypeOK, Row, SeenExists, RetiredIsGone
  <2>5. CASE FixSave(r)
    BY Names, <2>5 DEF FixSave, Goto, history, MayStore, Store, Drop, Keep, TypeOK, Row,
       SeenExists, RetiredIsGone, Claimed, Exists
  <2>6. CASE Accepted(r)
    BY Names, <2>6 DEF Accepted, Goto, history, TypeOK, Row, SeenExists, RetiredIsGone,
       Claimed, Exists
  <2>7. CASE Rejected(r) \/ Lost(r)
    BY Names, <2>7 DEF Rejected, Lost, Goto, history, TypeOK, Row, SeenExists,
       RetiredIsGone, Claimed, Exists
  <2>8. CASE GiveBack(r)
    BY Names, <2>8 DEF GiveBack, Goto, history, Release, Claimed, Exists, Write, Keep,
       TypeOK, Row, SeenExists, RetiredIsGone
  <2>9. CASE Mark(r) \/ ForceSent(r)
    BY Names, <2>9 DEF Mark, ForceSent, Goto, history, Exists, Write, Keep, Claimed,
       TypeOK, Row, SeenExists, RetiredIsGone
  <2>10. CASE Remove(r) \/ Delete(r)
    BY Names, <2>10 DEF Remove, Delete, Goto, history, Exists, Write, TypeOK, Row,
       SeenExists, RetiredIsGone, Claimed
  <2>11. CASE TimeOut(r) \/ Crash(r)
    BY Names, <2>11 DEF TimeOut, Crash, Goto, history, TypeOK, Row, SeenExists,
       RetiredIsGone, Claimed, Exists
  <2> QED
    BY <1>3, <2>1, <2>2, <2>3, <2>4, <2>5, <2>6, <2>7, <2>8, <2>9, <2>10, <2>11 DEF Step
<1> QED
  BY <1>1, <1>2, <1>3 DEF Next

(* A second mail would need a second owner.                                  *)
LEMMA SentOnceStep ==
    ASSUME TypeOK, SentOnce, OnTheWire, DeliveredStaysSent, OneOwner, [Next]_vars
    PROVE  SentOnce'
<1>1. CASE UNCHANGED vars
  BY <1>1 DEF TypeOK, Row, SentOnce, OnTheWire, DeliveredStaysSent, OneOwner, Owning,
     Claimed, Exists, vars, history
<1>2. CASE Age
  BY <1>2, Names DEF Age, TypeOK, Row, SentOnce, OnTheWire, DeliveredStaysSent, OneOwner,
     Owning, Claimed, Exists, history
<1>3. ASSUME NEW r \in Requests, Step(r) PROVE SentOnce'
  <2>1. CASE Ask(r) \/ Decline(r) \/ ApproveAsIs(r) \/ ApproveFields(r) \/ StartEdit(r) \/
     Look(r) \/ Read(r) \/ StartDiscard(r)
    BY Names, <2>1 DEF Ask, Decline, ApproveAsIs, ApproveFields, StartEdit, Look, Read,
       StartDiscard, Goto, history, Exists, Senders, AfterEdit, Note, Claimed, TypeOK,
       Row, SentOnce, OnTheWire, DeliveredStaysSent, OneOwner, Owning
  <2>2. CASE Save(r)
    BY Names, <2>2 DEF Save, Goto, history, MayStore, Store, Drop, Keep, AfterEdit, TypeOK,
       Row, SentOnce, OnTheWire, DeliveredStaysSent, OneOwner, Owning, Claimed, Exists
  <2>3. CASE Claim(r)
    BY Names, <2>3 DEF Claim, Goto, history, Claimable, Claimed, Exists, Write, Keep,
       AfterClaim, TypeOK, Row, SentOnce, OnTheWire, DeliveredStaysSent, OneOwner,
       Owning
  <2>4. CASE FixLook(r) \/ Reread(r) \/ Dispatch(r)
    BY Names, <2>4 DEF FixLook, Reread, Dispatch, Goto, history, Exists, Note, MaySend,
       Claimed, TypeOK, Row, SentOnce, OnTheWire, DeliveredStaysSent, OneOwner, Owning
  <2>5. CASE FixSave(r)
    BY Names, <2>5 DEF FixSave, Goto, history, MayStore, Store, Drop, Keep, TypeOK, Row,
       SentOnce, OnTheWire, DeliveredStaysSent, OneOwner, Owning, Claimed, Exists
  <2>6. CASE Accepted(r)
    BY Names, <2>6 DEF Accepted, Goto, history, TypeOK, Row, SentOnce, OnTheWire,
       DeliveredStaysSent, OneOwner, Owning, Claimed, Exists
  <2>7. CASE Rejected(r) \/ Lost(r)
    BY Names, <2>7 DEF Rejected, Lost, Goto, history, TypeOK, Row, SentOnce, OnTheWire,
       DeliveredStaysSent, OneOwner, Owning, Claimed, Exists
  <2>8. CASE GiveBack(r)
    BY Names, <2>8 DEF GiveBack, Goto, history, Release, Claimed, Exists, Write, Keep,
       TypeOK, Row, SentOnce, OnTheWire, DeliveredStaysSent, OneOwner, Owning
  <2>9. CASE Mark(r) \/ ForceSent(r)
    BY Names, <2>9 DEF Mark, ForceSent, Goto, history, Exists, Write, Keep, Claimed,
       TypeOK, Row, SentOnce, OnTheWire, DeliveredStaysSent, OneOwner, Owning
  <2>10. CASE Remove(r) \/ Delete(r)
    BY Names, <2>10 DEF Remove, Delete, Goto, history, Exists, Write, TypeOK, Row,
       SentOnce, OnTheWire, DeliveredStaysSent, OneOwner, Owning, Claimed
  <2>11. CASE TimeOut(r) \/ Crash(r)
    BY Names, <2>11 DEF TimeOut, Crash, Goto, history, TypeOK, Row, SentOnce, OnTheWire,
       DeliveredStaysSent, OneOwner, Owning, Claimed, Exists
  <2> QED
    BY <1>3, <2>1, <2>2, <2>3, <2>4, <2>5, <2>6, <2>7, <2>8, <2>9, <2>10, <2>11 DEF Step
<1> QED
  BY <1>1, <1>2, <1>3 DEF Next

(* What was delivered is marked by its owner and touched by nobody else.     *)
LEMMA DeliveredStep ==
    ASSUME TypeOK, SeenExists, DeliveredStaysSent, OnTheWire, MailedLate,
       EditsUnclaimed, OneOwner, OwnerHolds, SentOnce, [Next]_vars
    PROVE  DeliveredStaysSent'
<1>1. CASE UNCHANGED vars
  BY <1>1 DEF TypeOK, Row, SeenExists, OnTheWire, MailedLate, EditsUnclaimed,
     DeliveredStaysSent, OneOwner, OwnerHolds, Owning, Claimed, Exists, SentOnce, vars,
     history
<1>2. CASE Age
  BY <1>2, Names DEF Age, TypeOK, Row, SeenExists, OnTheWire, MailedLate, EditsUnclaimed,
     DeliveredStaysSent, OneOwner, OwnerHolds, Owning, Claimed, Exists, SentOnce, history
<1>3. ASSUME NEW r \in Requests, Step(r) PROVE DeliveredStaysSent'
  <2>1. CASE Ask(r) \/ Decline(r) \/ ApproveAsIs(r) \/ ApproveFields(r) \/ StartEdit(r) \/
     Look(r) \/ Read(r) \/ StartDiscard(r)
    BY Names, <2>1 DEF Ask, Decline, ApproveAsIs, ApproveFields, StartEdit, Look, Read,
       StartDiscard, Goto, history, Exists, Senders, AfterEdit, Note, Claimed, TypeOK,
       Row, SeenExists, OnTheWire, MailedLate, EditsUnclaimed, DeliveredStaysSent,
       OneOwner, OwnerHolds, Owning, SentOnce
  <2>2. CASE Save(r)
    BY Names, <2>2 DEF Save, Goto, history, MayStore, Store, Drop, Keep, AfterEdit, TypeOK,
       Row, SeenExists, OnTheWire, MailedLate, EditsUnclaimed, DeliveredStaysSent,
       OneOwner, OwnerHolds, Owning, Claimed, Exists, SentOnce
  <2>3. CASE Claim(r)
    BY Names, <2>3 DEF Claim, Goto, history, Claimable, Claimed, Exists, Write, Keep,
       AfterClaim, TypeOK, Row, SeenExists, OnTheWire, MailedLate, EditsUnclaimed,
       DeliveredStaysSent, OneOwner, OwnerHolds, Owning, SentOnce
  <2>4. CASE FixLook(r) \/ Reread(r) \/ Dispatch(r)
    BY Names, <2>4 DEF FixLook, Reread, Dispatch, Goto, history, Exists, Note, MaySend,
       Claimed, TypeOK, Row, SeenExists, OnTheWire, MailedLate, EditsUnclaimed,
       DeliveredStaysSent, OneOwner, OwnerHolds, Owning, SentOnce
  <2>5. CASE FixSave(r)
    BY Names, <2>5 DEF FixSave, Goto, history, MayStore, Store, Drop, Keep, TypeOK, Row,
       SeenExists, OnTheWire, MailedLate, EditsUnclaimed, DeliveredStaysSent, OneOwner,
       OwnerHolds, Owning, Claimed, Exists, SentOnce
  <2>6. CASE Accepted(r)
    BY Names, <2>6 DEF Accepted, Goto, history, TypeOK, Row, SeenExists, OnTheWire,
       MailedLate, EditsUnclaimed, DeliveredStaysSent, OneOwner, OwnerHolds, Owning,
       Claimed, Exists, SentOnce
  <2>7. CASE Rejected(r) \/ Lost(r)
    BY Names, <2>7 DEF Rejected, Lost, Goto, history, TypeOK, Row, SeenExists,
       OnTheWire, MailedLate, EditsUnclaimed, DeliveredStaysSent, OneOwner, OwnerHolds,
       Owning, Claimed, Exists, SentOnce
  <2>8. CASE GiveBack(r)
    BY Names, <2>8 DEF GiveBack, Goto, history, Release, Claimed, Exists, Write, Keep,
       TypeOK, Row, SeenExists, OnTheWire, MailedLate, EditsUnclaimed,
       DeliveredStaysSent, OneOwner, OwnerHolds, Owning, SentOnce
  <2>9. CASE Mark(r) \/ ForceSent(r)
    BY Names, <2>9 DEF Mark, ForceSent, Goto, history, Exists, Write, Keep, Claimed,
       TypeOK, Row, SeenExists, OnTheWire, MailedLate, EditsUnclaimed,
       DeliveredStaysSent, OneOwner, OwnerHolds, Owning, SentOnce
  <2>10. CASE Remove(r) \/ Delete(r)
    BY Names, <2>10 DEF Remove, Delete, Goto, history, Exists, Write, TypeOK, Row,
       SeenExists, OnTheWire, MailedLate, EditsUnclaimed, DeliveredStaysSent, OneOwner,
       OwnerHolds, Owning, Claimed, SentOnce
  <2>11. CASE TimeOut(r)
    BY Names, <2>11 DEF TimeOut, Goto, history, TypeOK, Row, SeenExists, OnTheWire,
       MailedLate, EditsUnclaimed, DeliveredStaysSent, OneOwner, OwnerHolds, Owning,
       Claimed, Exists, SentOnce
  <2>12. CASE Crash(r)
    <3>1. CASE pc[r] \in {"wire", "mark", "force"}
      BY <3>1, <2>12 DEF Crash, DeliveredStaysSent
    <3>2. CASE pc[r] \notin {"wire", "mark", "force"}
      <4>1. mailed' = mailed /\ row' = row /\ doubt' = doubt
        BY <3>2, <2>12 DEF Crash, TypeOK
      <4>2. \A q \in Requests : pc[q] \in {"mark", "force"} => pc'[q] = pc[q]
        BY <3>2, <2>12 DEF Crash, Goto, TypeOK
      <4> QED
        BY <4>1, <4>2 DEF DeliveredStaysSent, Claimed, Exists
    <3> QED
      BY <3>1, <3>2
  <2> QED
    BY <1>3, <2>1, <2>2, <2>3, <2>4, <2>5, <2>6, <2>7, <2>8, <2>9, <2>10, <2>11, <2>12
       DEF Step
<1> QED
  BY <1>1, <1>2, <1>3 DEF Next

(* A discard holds the claim of what it removes.                             *)
LEMMA DiscardStep ==
    ASSUME TypeOK, DiscardedUnsent, OnTheWire, RetiredIsGone, DeliveredStaysSent,
       OneOwner, OwnerHolds, [Next]_vars
    PROVE  DiscardedUnsent'
<1>1. CASE UNCHANGED vars
  BY <1>1 DEF TypeOK, Row, OnTheWire, RetiredIsGone, DeliveredStaysSent, DiscardedUnsent,
     OneOwner, OwnerHolds, Owning, Claimed, Exists, vars, history
<1>2. CASE Age
  BY <1>2, Names DEF Age, TypeOK, Row, OnTheWire, RetiredIsGone, DeliveredStaysSent,
     DiscardedUnsent, OneOwner, OwnerHolds, Owning, Claimed, Exists, history
<1>3. ASSUME NEW r \in Requests, Step(r) PROVE DiscardedUnsent'
  <2>1. CASE Ask(r) \/ Decline(r) \/ ApproveAsIs(r) \/ ApproveFields(r) \/ StartEdit(r) \/
     Look(r) \/ Read(r) \/ StartDiscard(r)
    <3>1. retired' = retired /\ doubt' = doubt /\ mailed' = mailed
      BY <2>1 DEF Ask, Decline, ApproveAsIs, ApproveFields, StartEdit, Look, Read, StartDiscard,
         history
    <3>2. \A q \in Requests : pc'[q] = "wire" => pc[q] = "wire"
      BY <2>1 DEF Ask, Decline, ApproveAsIs, ApproveFields, StartEdit, Look, Read, StartDiscard,
         Goto, AfterEdit, TypeOK
    <3> QED
      BY <3>1, <3>2 DEF DiscardedUnsent
  <2>2. CASE Save(r)
    BY Names, <2>2 DEF Save, Goto, history, MayStore, Store, Drop, Keep, AfterEdit, TypeOK,
       Row, OnTheWire, RetiredIsGone, DeliveredStaysSent, DiscardedUnsent, OneOwner,
       OwnerHolds, Owning, Claimed, Exists
  <2>3. CASE Claim(r)
    BY Names, <2>3 DEF Claim, Goto, history, Claimable, Claimed, Exists, Write, Keep,
       AfterClaim, TypeOK, Row, OnTheWire, RetiredIsGone, DeliveredStaysSent,
       DiscardedUnsent, OneOwner, OwnerHolds, Owning
  <2>4. CASE FixLook(r) \/ Reread(r) \/ Dispatch(r)
    <3>1. retired' = retired /\ doubt' = doubt /\ mailed' = mailed
      BY <2>4 DEF FixLook, Reread, Dispatch, history
    <3>2. CASE \A q \in Requests : pc'[q] = "wire" => pc[q] = "wire"
      BY <3>1, <3>2 DEF DiscardedUnsent
    <3>3. CASE Dispatch(r) /\ MaySend(r)
      BY <3>1, <3>3 DEF DiscardedUnsent, RetiredIsGone, MaySend, Claimed, Exists
    <3> QED
      BY <2>4, <3>2, <3>3 DEF FixLook, Reread, Dispatch, Goto, TypeOK
  <2>5. CASE FixSave(r)
    BY Names, <2>5 DEF FixSave, Goto, history, MayStore, Store, Drop, Keep, TypeOK, Row,
       OnTheWire, RetiredIsGone, DeliveredStaysSent, DiscardedUnsent, OneOwner,
       OwnerHolds, Owning, Claimed, Exists
  <2>6. CASE Accepted(r)
    BY Names, <2>6 DEF Accepted, Goto, history, TypeOK, Row, OnTheWire, RetiredIsGone,
       DeliveredStaysSent, DiscardedUnsent, OneOwner, OwnerHolds, Owning, Claimed,
       Exists
  <2>7. CASE Rejected(r) \/ Lost(r)
    BY Names, <2>7 DEF Rejected, Lost, Goto, history, TypeOK, Row, OnTheWire,
       RetiredIsGone, DeliveredStaysSent, DiscardedUnsent, OneOwner, OwnerHolds, Owning,
       Claimed, Exists
  <2>8. CASE GiveBack(r)
    BY Names, <2>8 DEF GiveBack, Goto, history, Release, Claimed, Exists, Write, Keep,
       TypeOK, Row, OnTheWire, RetiredIsGone, DeliveredStaysSent, DiscardedUnsent,
       OneOwner, OwnerHolds, Owning
  <2>9. CASE Mark(r) \/ ForceSent(r)
    BY Names, <2>9 DEF Mark, ForceSent, Goto, history, Exists, Write, Keep, Claimed,
       TypeOK, Row, OnTheWire, RetiredIsGone, DeliveredStaysSent, DiscardedUnsent,
       OneOwner, OwnerHolds, Owning
  <2>10. CASE Remove(r)
    BY Names, <2>10 DEF Remove, Goto, history, Exists, Write, TypeOK, Row, OnTheWire,
       RetiredIsGone, DeliveredStaysSent, DiscardedUnsent, OneOwner, OwnerHolds, Owning,
       Claimed
  <2>11. CASE Delete(r)
    BY Names, <2>11 DEF Delete, Goto, history, Write, TypeOK, Row, OnTheWire,
       RetiredIsGone, DeliveredStaysSent, DiscardedUnsent, OneOwner, OwnerHolds, Owning,
       Claimed, Exists
  <2>12. CASE TimeOut(r)
    BY Names, <2>12 DEF TimeOut, Goto, history, TypeOK, Row, OnTheWire, RetiredIsGone,
       DeliveredStaysSent, DiscardedUnsent, OneOwner, OwnerHolds, Owning, Claimed,
       Exists
  <2>13. CASE Crash(r)
    BY Names, <2>13 DEF Crash, Goto, history, TypeOK, Row, OnTheWire, RetiredIsGone,
       DeliveredStaysSent, DiscardedUnsent, OneOwner, OwnerHolds, Owning, Claimed,
       Exists
  <2> QED
    BY <1>3, <2>1, <2>2, <2>3, <2>4, <2>5, <2>6, <2>7, <2>8, <2>9, <2>10, <2>11, <2>12,
       <2>13 DEF Step
<1> QED
  BY <1>1, <1>2, <1>3 DEF Next

(* The card's text is in the row, then in what is sent.                      *)
LEMMA CarriesStep ==
    ASSUME TypeOK, SeenExists, CarriesApproval, EditsUnclaimed, OneOwner, OwnerHolds,
       [Next]_vars
    PROVE  CarriesApproval'
<1>1. CASE UNCHANGED vars
  BY <1>1 DEF TypeOK, Row, SeenExists, CarriesApproval, EditsUnclaimed, OneOwner,
     OwnerHolds, Owning, Claimed, Exists, vars, history
<1>2. CASE Age
  BY <1>2, Names DEF Age, TypeOK, Row, SeenExists, CarriesApproval, EditsUnclaimed,
     OneOwner, OwnerHolds, Owning, Claimed, Exists, history
<1>3. ASSUME NEW r \in Requests, Step(r) PROVE CarriesApproval'
  <2>1. CASE Ask(r) \/ Decline(r) \/ ApproveAsIs(r) \/ ApproveFields(r) \/ StartEdit(r) \/
     Look(r) \/ Read(r) \/ StartDiscard(r)
    BY Names, <2>1 DEF Ask, Decline, ApproveAsIs, ApproveFields, StartEdit, Look, Read,
       StartDiscard, Goto, history, Exists, Senders, AfterEdit, Note, Claimed, TypeOK,
       Row, SeenExists, CarriesApproval, EditsUnclaimed, OneOwner, OwnerHolds, Owning
  <2>2. CASE Save(r)
    BY Names, <2>2 DEF Save, Goto, history, MayStore, Store, Drop, Keep, AfterEdit, TypeOK,
       Row, SeenExists, CarriesApproval, EditsUnclaimed, OneOwner, OwnerHolds, Owning,
       Claimed, Exists
  <2>3. CASE Claim(r)
    BY Names, <2>3 DEF Claim, Goto, history, Claimable, Claimed, Exists, Write, Keep,
       AfterClaim, TypeOK, Row, SeenExists, CarriesApproval, EditsUnclaimed, OneOwner,
       OwnerHolds, Owning
  <2>4. CASE FixLook(r) \/ Reread(r) \/ Dispatch(r)
    BY Names, <2>4 DEF FixLook, Reread, Dispatch, Goto, history, Exists, Note, MaySend,
       Claimed, TypeOK, Row, SeenExists, CarriesApproval, EditsUnclaimed, OneOwner,
       OwnerHolds, Owning
  <2>5. CASE FixSave(r)
    BY Names, <2>5 DEF FixSave, Goto, history, MayStore, Store, Drop, Keep, TypeOK, Row,
       SeenExists, CarriesApproval, EditsUnclaimed, OneOwner, OwnerHolds, Owning,
       Claimed, Exists
  <2>6. CASE Accepted(r)
    BY Names, <2>6 DEF Accepted, Goto, history, TypeOK, Row, SeenExists,
       CarriesApproval, EditsUnclaimed, OneOwner, OwnerHolds, Owning, Claimed, Exists
  <2>7. CASE Rejected(r) \/ Lost(r)
    BY Names, <2>7 DEF Rejected, Lost, Goto, history, TypeOK, Row, SeenExists,
       CarriesApproval, EditsUnclaimed, OneOwner, OwnerHolds, Owning, Claimed, Exists
  <2>8. CASE GiveBack(r)
    BY Names, <2>8 DEF GiveBack, Goto, history, Release, Claimed, Exists, Write, Keep,
       TypeOK, Row, SeenExists, CarriesApproval, EditsUnclaimed, OneOwner, OwnerHolds,
       Owning
  <2>9. CASE Mark(r) \/ ForceSent(r)
    BY Names, <2>9 DEF Mark, ForceSent, Goto, history, Exists, Write, Keep, Claimed,
       TypeOK, Row, SeenExists, CarriesApproval, EditsUnclaimed, OneOwner, OwnerHolds,
       Owning
  <2>10. CASE Remove(r) \/ Delete(r)
    BY Names, <2>10 DEF Remove, Delete, Goto, history, Exists, Write, TypeOK, Row,
       SeenExists, CarriesApproval, EditsUnclaimed, OneOwner, OwnerHolds, Owning,
       Claimed
  <2>11. CASE TimeOut(r) \/ Crash(r)
    BY Names, <2>11 DEF TimeOut, Crash, Goto, history, TypeOK, Row, SeenExists,
       CarriesApproval, EditsUnclaimed, OneOwner, OwnerHolds, Owning, Claimed, Exists
  <2> QED
    BY <1>3, <2>1, <2>2, <2>3, <2>4, <2>5, <2>6, <2>7, <2>8, <2>9, <2>10, <2>11 DEF Step
<1> QED
  BY <1>1, <1>2, <1>3 DEF Next

(* A card is overtaken by every other text that is stored.                 *)
LEMMA StoreShows ==
    ASSUME TypeOK, SeenExists, Shows, NEW r \in Requests,
           (MayStore(r) /\ Store(card[r])) \/ Drop,
           UNCHANGED <<snap, card, edited>>,
           \A q \in Requests \ {r} : pc'[q] = pc[q],
           KindOf[r] = "tool" => edited[r] \/ pc'[r] = "done"
    PROVE  Shows'
<1> SUFFICES ASSUME NEW q \in Requests, KindOf[q] = "tool", ~edited[q]
             PROVE  /\ pc'[q] \notin {"fixlook", "fixsave", "reread"}
                    /\ q \notin overtaken' =>
                         /\ pc'[q] \in {"asked", "read"} /\ Exists' => row'.text = card[q]
                         /\ pc'[q] \in {"claim", "send", "wire"} => snap[q] = card[q]
  BY DEF Shows
<1>1. CASE q = r
  BY <1>1
<1>2. CASE q # r /\ Drop
  BY <1>2 DEF Drop, Keep, Shows, Exists
<1>3. CASE q # r /\ MayStore(r) /\ Store(card[r])
  <2>1. /\ Exists /\ row'.text = card[r]
        /\ q \notin overtaken' => q \notin overtaken
        /\ q \notin overtaken' /\ pc[q] \in {"asked", "read"} => card[r] = row.text
    BY <1>3 DEF MayStore, Store, SeenExists, Exists, TypeOK, Row
  <2> QED
    BY <1>3, <2>1 DEF Shows
<1> QED
  BY <1>1, <1>2, <1>3

LEMMA ShowsStep ==
    ASSUME TypeOK, SeenExists, Shows, EditsUnclaimed, OneOwner, OwnerHolds,
       [Next]_vars
    PROVE  Shows'
<1>1. CASE UNCHANGED vars
  BY <1>1 DEF TypeOK, Row, Shows, Claimed, Exists, vars, history
<1>2. CASE Age
  BY <1>2, Names DEF Age, TypeOK, Row, Shows, Claimed, Exists, history
<1>3. ASSUME NEW r \in Requests, Step(r) PROVE Shows'
  <2>1. CASE Ask(r) \/ Decline(r) \/ ApproveAsIs(r) \/ ApproveFields(r) \/ StartEdit(r) \/
     Look(r) \/ Read(r) \/ StartDiscard(r)
    BY Names, <2>1 DEF Ask, Decline, ApproveAsIs, ApproveFields, StartEdit, Look, Read,
       StartDiscard, Goto, history, Exists, Senders, AfterEdit, Note, Claimed, TypeOK,
       Row, Shows
  <2>2. CASE Save(r)
    BY <2>2, StoreShows DEF Save, Goto, AfterEdit, TypeOK
  <2>3. CASE Claim(r)
    <3>1. /\ Exists' => Exists /\ row'.text = row.text
          /\ snap' = snap /\ card' = card /\ edited' = edited /\ overtaken' = overtaken
      BY <2>3, Names DEF Claim, Claimable, Claimed, Exists, Write, Keep, TypeOK, Row, history
    <3>2. /\ pc[r] = "claim" /\ \A q \in Requests \ {r} : pc'[q] = pc[q]
          /\ pc'[r] \in {"done", AfterClaim(r)}
      BY <2>3 DEF Claim, Goto, TypeOK
    <3>3. KindOf[r] = "tool" /\ ~edited[r] => AfterClaim(r) = "send"
      BY DEF AfterClaim
    <3>4. KindOf[r] = "tool" /\ ~edited[r] => pc'[r] \in {"done", "send"}
      BY <3>2, <3>3
    <3>5. ASSUME NEW q \in Requests, KindOf[q] = "tool", ~edited[q]
          PROVE  /\ pc'[q] \notin {"fixlook", "fixsave", "reread"}
                 /\ q \notin overtaken =>
                      /\ pc'[q] \in {"asked", "read"} /\ Exists' => row'.text = card[q]
                      /\ pc'[q] \in {"claim", "send", "wire"} => snap[q] = card[q]
      <4>1. CASE q = r
        BY <3>2, <3>4, <3>5, <4>1 DEF Shows
      <4>2. CASE q # r
        BY <3>1, <3>2, <3>5, <4>2 DEF Shows
      <4> QED
        BY <4>1, <4>2
    <3> QED
      BY <3>1, <3>5 DEF Shows
  <2>4. CASE FixLook(r) \/ Reread(r) \/ Dispatch(r)
    BY Names, <2>4 DEF FixLook, Reread, Dispatch, Goto, history, Exists, Note, MaySend,
       Claimed, TypeOK, Row, Shows
  <2>5. CASE FixSave(r)
    <3>1. KindOf[r] = "tool" => edited[r]
      BY <2>5 DEF FixSave, Shows
    <3> QED
      BY <2>5, <3>1, StoreShows DEF FixSave, Goto, TypeOK
  <2>6. CASE Accepted(r)
    BY Names, <2>6 DEF Accepted, Goto, history, TypeOK, Row, Shows, Claimed, Exists
  <2>7. CASE Rejected(r) \/ Lost(r)
    BY Names, <2>7 DEF Rejected, Lost, Goto, history, TypeOK, Row, Shows, Claimed, Exists
  <2>8. CASE GiveBack(r)
    BY Names, <2>8 DEF GiveBack, Goto, history, Release, Claimed, Exists, Write, Keep,
       TypeOK, Row, Shows
  <2>9. CASE Mark(r) \/ ForceSent(r)
    BY Names, <2>9 DEF Mark, ForceSent, Goto, history, Exists, Write, Keep, Claimed,
       TypeOK, Row, Shows
  <2>10. CASE Remove(r) \/ Delete(r)
    BY Names, <2>10 DEF Remove, Delete, Goto, history, Exists, Write, TypeOK, Row,
       Shows,
       Claimed
  <2>11. CASE TimeOut(r) \/ Crash(r)
    BY Names, <2>11 DEF TimeOut, Crash, Goto, history, TypeOK, Row, Shows, Claimed, Exists
  <2> QED
    BY <1>3, <2>1, <2>2, <2>3, <2>4, <2>5, <2>6, <2>7, <2>8, <2>9, <2>10, <2>11 DEF Step
<1> QED
  BY <1>1, <1>2, <1>3 DEF Next

(* What is accepted is what the card said.                                   *)
LEMMA ApprovedStep ==
    ASSUME TypeOK, CarriesApproval, Shows, OnTheWire, MailedLate, MailedAsShown, [Next]_vars
    PROVE  MailedAsShown'
<1>1. CASE UNCHANGED vars
  BY <1>1 DEF TypeOK, Row, CarriesApproval, Shows, OnTheWire, MailedLate, MailedAsShown,
     Claimed, Exists, vars, history
<1>2. CASE Age
  BY <1>2, Names DEF Age, TypeOK, Row, CarriesApproval, Shows, OnTheWire, MailedLate,
     MailedAsShown, Claimed, Exists, history
<1>3. ASSUME NEW r \in Requests, Step(r) PROVE MailedAsShown'
  <2>1. CASE Ask(r) \/ Decline(r) \/ ApproveAsIs(r) \/ ApproveFields(r) \/ StartEdit(r) \/
     Look(r) \/ Read(r) \/ StartDiscard(r)
    BY Names, <2>1 DEF Ask, Decline, ApproveAsIs, ApproveFields, StartEdit, Look, Read,
       StartDiscard, Goto, history, Exists, Senders, AfterEdit, Note, Claimed, TypeOK,
       Row, CarriesApproval, Shows, OnTheWire, MailedLate, MailedAsShown
  <2>2. CASE Save(r)
    BY Names, <2>2 DEF Save, Goto, history, MayStore, Store, Drop, Keep, AfterEdit, TypeOK,
       Row, CarriesApproval, Shows, OnTheWire, MailedLate, MailedAsShown, Claimed, Exists
  <2>3. CASE Claim(r)
    BY Names, <2>3 DEF Claim, Goto, history, Claimable, Claimed, Exists, Write, Keep,
       AfterClaim, TypeOK, Row, CarriesApproval, Shows, OnTheWire, MailedLate, MailedAsShown
  <2>4. CASE FixLook(r) \/ Reread(r) \/ Dispatch(r)
    BY Names, <2>4 DEF FixLook, Reread, Dispatch, Goto, history, Exists, Note, MaySend,
       Claimed, TypeOK, Row, CarriesApproval, Shows, OnTheWire, MailedLate, MailedAsShown
  <2>5. CASE FixSave(r)
    BY Names, <2>5 DEF FixSave, Goto, history, MayStore, Store, Drop, Keep, TypeOK, Row,
       CarriesApproval, Shows, OnTheWire, MailedLate, MailedAsShown, Claimed, Exists
  <2>6. CASE Accepted(r)
    BY Names, <2>6 DEF Accepted, Goto, history, TypeOK, Row, CarriesApproval, Shows, OnTheWire,
       MailedLate, MailedAsShown, Claimed, Exists
  <2>7. CASE Rejected(r) \/ Lost(r)
    BY Names, <2>7 DEF Rejected, Lost, Goto, history, TypeOK, Row, CarriesApproval,
       Shows, OnTheWire, MailedLate, MailedAsShown, Claimed, Exists
  <2>8. CASE GiveBack(r)
    BY Names, <2>8 DEF GiveBack, Goto, history, Release, Claimed, Exists, Write, Keep,
       TypeOK, Row, CarriesApproval, Shows, OnTheWire, MailedLate, MailedAsShown
  <2>9. CASE Mark(r) \/ ForceSent(r)
    BY Names, <2>9 DEF Mark, ForceSent, Goto, history, Exists, Write, Keep, Claimed,
       TypeOK, Row, CarriesApproval, Shows, OnTheWire, MailedLate, MailedAsShown
  <2>10. CASE Remove(r) \/ Delete(r)
    BY Names, <2>10 DEF Remove, Delete, Goto, history, Exists, Write, TypeOK, Row,
       CarriesApproval, Shows, OnTheWire, MailedLate, MailedAsShown, Claimed
  <2>11. CASE TimeOut(r) \/ Crash(r)
    BY Names, <2>11 DEF TimeOut, Crash, Goto, history, TypeOK, Row, CarriesApproval,
       Shows, OnTheWire, MailedLate, MailedAsShown, Claimed, Exists
  <2> QED
    BY <1>3, <2>1, <2>2, <2>3, <2>4, <2>5, <2>6, <2>7, <2>8, <2>9, <2>10, <2>11 DEF Step
<1> QED
  BY <1>1, <1>2, <1>3 DEF Next

LEMMA NextHolds == DraftInv /\ [Next]_vars => DraftInv'
<1>1. HAVE DraftInv /\ [Next]_vars
<1>2. TypeOK'
  BY <1>1, TypeStep DEF DraftInv
<1>2a. SeenExists' /\ CardsAreTexts'
  BY <1>1, SeenStep, CardStep DEF DraftInv
<1>3. OnTheWire' /\ MailedLate' /\ EditsUnclaimed'
  BY <1>1, <1>2, WireStep, MailedStep, EditsStep DEF DraftInv
<1>4. OneOwner' /\ OwnerHolds' /\ RetiredIsGone'
  BY <1>1, OwnerStep, HoldsStep, GoneStep DEF DraftInv
<1>5. SentOnce' /\ DeliveredStaysSent' /\ DiscardedUnsent'
  BY <1>1, SentOnceStep, DeliveredStep, DiscardStep DEF DraftInv
<1>6. CarriesApproval' /\ Shows' /\ MailedAsShown'
  BY <1>1, CarriesStep, ShowsStep, ApprovedStep DEF DraftInv
<1> QED
  BY <1>2, <1>2a, <1>3, <1>4, <1>5, <1>6 DEF DraftInv

(* The inductive invariant of send claims.                                 *)
THEOREM DraftInvariant == Spec => []DraftInv
<1> QED
  BY InitHolds, NextHolds, PTL DEF Spec

(* Types, and a writer reservation held exactly while a mail is on the     *)
(* wire (locked_row around the transport).                                 *)
THEOREM TypeCorrect == Spec => []TypeOK
<1>1. DraftInv => TypeOK
  BY DEF DraftInv
<1> QED
  BY <1>1, DraftInvariant, PTL

(* A draft is mailed once unless a delivery was left in doubt              *)
(* (claim_draft_for_send, release_draft_claim).                            *)
THEOREM MailedOnce == Spec => []SentOnce
<1>1. DraftInv => SentOnce
  BY DEF DraftInv
<1> QED
  BY <1>1, DraftInvariant, PTL

(* A delivered draft is sent, or is its sender's to mark, and keeps its    *)
(* text (mark_draft_sent, force_draft_sent, update_guard).                 *)
THEOREM StaysSent == Spec => []DeliveredStaysSent
<1>1. DraftInv => DeliveredStaysSent
  BY DEF DraftInv
<1> QED
  BY <1>1, DraftInvariant, PTL

(* What send_draft mails is what its card said (claim_edits), or, approved *)
(* as is, what was stored between the card and the tool's reading.         *)
THEOREM MailsWhatWasShown == Spec => []MailedAsShown
<1>1. DraftInv => MailedAsShown
  BY DEF DraftInv
<1> QED
  BY <1>1, DraftInvariant, PTL

(* drafts.discard removes nothing that was delivered.                      *)
THEOREM DiscardIsSafe == Spec => []DiscardedUnsent
<1>1. DraftInv => DiscardedUnsent
  BY DEF DraftInv
<1> QED
  BY <1>1, DraftInvariant, PTL
==============================================================================
