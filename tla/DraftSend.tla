------------------------------ MODULE DraftSend ------------------------------
(***************************************************************************)
(* One stored email draft and the requests that send, edit and remove it:  *)
(* the send claim (storage/storage.py), the guards around every content    *)
(* write and around the transport (services/task_assignment_email_effect   *)
(* and task_assignment_draft_transaction), the send paths (the send_draft  *)
(* tool and /email send), drafts.discard and delete.  Task mode sends only *)
(* through transports this repository does not have: it never mails.       *)
(*                                                                         *)
(* Requests of several turns, and of the CLI beside the server, meet in    *)
(* the profile's SQLite file: one step is one statement or transaction on  *)
(* it, and a transport in flight holds its writer reservation.  The draft  *)
(* is one row, since no request reads another draft's; its text stands for *)
(* everything a card can edit.                                             *)
(***************************************************************************)
EXTENDS FiniteSets

CONSTANTS
    Requests,      \* requests, each served once
    KindOf,        \* [Requests -> Kinds]
    Texts,         \* what a draft may say
    Disturbances,  \* bound: what an instance lets happen from outside
    None

Senders == {"tool", "slash"}
Kinds == Senders \cup {"edit", "discard", "delete"}

(* stale: the claim is older than the window sized for its recipients.     *)
Row == [status : {"draft", "failed", "sending", "sent"}, text : Texts, stale : BOOLEAN]

ASSUME DraftAssumption ==
    /\ KindOf \in [Requests -> Kinds]
    /\ None \notin Texts /\ None \notin Requests /\ None \notin Row
    /\ Disturbances \subseteq {"refuse", "lost", "storage", "crash", "suspend"}

VARIABLES
    row,       \* the Draft row, or None once it is deleted
    writer,    \* the request whose transport holds the writer reservation
    pc,        \* where each request is
    snap,      \* the text a request read and will send
    seen,      \* the requests that have read the row as it was last stamped
    card,      \* the text an approval, or an edit, asks for
    edited,    \* the approval came back with the card's fields
    mailed,    \* history: the text a request put on the wire
    retired,   \* history: drafts.discard removed the row
    doubt,     \* history: something left a delivery, or a claim, in doubt
    overtaken  \* history: requests whose draft was rewritten between card and read

history == <<mailed, retired, doubt, overtaken>>
vars == <<row, writer, pc, snap, seen, card, edited, history>>

Init ==
    /\ row \in {d \in Row : d.status # "sent" /\ (d.stale => d.status = "sending")}
    /\ writer = None
    /\ pc = [r \in Requests |-> "idle"]
    /\ snap = [r \in Requests |-> None]
    /\ seen = {}
    /\ card = [r \in Requests |-> None]
    /\ edited = [r \in Requests |-> FALSE]
    /\ mailed = [r \in Requests |-> None]
    /\ retired = FALSE /\ overtaken = {}
    /\ doubt = (row.status = "sending")

Goto(r, step) == pc' = [pc EXCEPT ![r] = step]
Exists == row # None
Claimed == Exists /\ row.status = "sending"

(* Every change of status stamps updated_at; a change of content does not.  *)
Write(new) == row' = new /\ seen' = {}
Store(text) ==
    /\ row' = [row EXCEPT !.text = text] /\ UNCHANGED seen
    /\ overtaken' = overtaken \cup
                       {r \in Requests : pc[r] \in {"asked", "read"} /\ text # row.text}
Keep == UNCHANGED <<row, seen>>
Drop == Keep /\ UNCHANGED overtaken

(* The steps a request takes while the claim is its own.                   *)
Owning == {"fixlook", "fixsave", "reread", "send", "wire", "mark", "force",
           "giveback", "hold", "remove"}

------------------------------------------------------------------------------
(* Approval.  The card shows the draft as it is when the gate asks.        *)

Ask(r) ==
    /\ pc[r] = "idle" /\ KindOf[r] \in Senders
    /\ IF Exists
       THEN /\ card' = [card EXCEPT ![r] = row.text]
            /\ snap' = [snap EXCEPT ![r] = row.text]
            /\ Goto(r, "asked")
       ELSE Goto(r, "done") /\ UNCHANGED <<card, snap>>
    /\ UNCHANGED <<row, writer, seen, edited, history>>

Decline(r) ==
    /\ pc[r] = "asked"
    /\ Goto(r, "done")
    /\ UNCHANGED <<row, writer, snap, seen, card, edited, history>>

(* Telegram and the command line approve the card as it is.                *)
ApproveAsIs(r) ==
    /\ pc[r] = "asked"
    /\ Goto(r, "read")
    /\ UNCHANGED <<row, writer, snap, seen, card, edited, history>>

(* The desktop returns every field of the card, corrected or not.          *)
ApproveFields(r) ==
    /\ pc[r] = "asked"
    /\ \E t \in Texts : card' = [card EXCEPT ![r] = t]
    /\ edited' = [edited EXCEPT ![r] = TRUE]
    /\ Goto(r, IF KindOf[r] = "slash" THEN "look" ELSE "read")
    /\ UNCHANGED <<row, writer, snap, seen, history>>

------------------------------------------------------------------------------
(* update_draft outside a claim: the update_draft tool, and the slash      *)
(* gate, which only logs a failure.                                        *)

AfterEdit(r) == IF KindOf[r] = "slash" THEN "read" ELSE "done"

StartEdit(r) ==
    /\ pc[r] = "idle" /\ KindOf[r] = "edit"
    /\ \E t \in Texts : card' = [card EXCEPT ![r] = t]
    /\ Goto(r, "look")
    /\ UNCHANGED <<row, writer, snap, seen, edited, history>>

Note(r) == seen' = seen \cup {r} /\ snap' = [snap EXCEPT ![r] = row.text]

Look(r) ==
    /\ pc[r] = "look"
    /\ IF Exists /\ row.status \notin {"sending", "sent"}
       THEN Note(r) /\ Goto(r, "save")
       ELSE UNCHANGED <<seen, snap>> /\ Goto(r, AfterEdit(r))
    /\ UNCHANGED <<row, writer, card, edited, history>>

(* locked_row: nobody else is writing, and the row is the one read.        *)
MayStore(r) == writer = None /\ r \in seen /\ row.text = snap[r]

Save(r) ==
    /\ pc[r] = "save"
    /\ \/ MayStore(r) /\ Store(card[r])
       \/ ~MayStore(r) /\ Drop
       \/ "refuse" \in Disturbances /\ Drop
    /\ Goto(r, AfterEdit(r))
    /\ UNCHANGED <<writer, snap, card, edited, mailed, retired, doubt>>

------------------------------------------------------------------------------
(* The claim.                                                              *)

(* The cheap phase of send_draft and /email send: nothing is claimed yet.  *)
Read(r) ==
    /\ pc[r] = "read"
    /\ IF Exists /\ row.status # "sent"
       THEN snap' = [snap EXCEPT ![r] = row.text] /\ Goto(r, "claim")
       ELSE UNCHANGED snap /\ Goto(r, "done")
    /\ UNCHANGED <<row, writer, seen, card, edited, history>>

(* Mutant: a live claim may be taken over.                                 *)
ClaimableBySending == Exists /\ row.status # "sent"

Claimable ==
    Exists /\ (row.status \in {"draft", "failed"} \/ (Claimed /\ row.stale))

AfterClaim(r) ==
    CASE KindOf[r] = "discard" -> "remove"
      [] KindOf[r] = "tool" /\ edited[r] -> "fixlook"
      [] OTHER -> "send"

Claim(r) ==
    /\ pc[r] = "claim"
    /\ IF Claimable
       THEN /\ writer = None
            /\ Write([row EXCEPT !.status = "sending", !.stale = FALSE])
            /\ Goto(r, AfterClaim(r))
       ELSE Keep /\ Goto(r, "done")
    /\ UNCHANGED <<writer, snap, card, edited, history>>

(* The card's fields are stored under the claim (claim_edits).             *)
FixLook(r) ==
    /\ pc[r] = "fixlook"
    /\ CASE ~Exists -> Goto(r, "reread") /\ UNCHANGED <<seen, snap>>
         [] Exists /\ row.status = "sent" -> Goto(r, "giveback") /\ UNCHANGED <<seen, snap>>
         [] OTHER -> Goto(r, "fixsave") /\ Note(r)
    /\ UNCHANGED <<row, writer, card, edited, history>>

(* Mutant: an edit that could not be stored is only logged.                *)
FixSaveLogged(r) ==
    /\ pc[r] = "fixsave"
    /\ \/ MayStore(r) /\ Store(card[r])
       \/ ~MayStore(r) /\ Drop
       \/ "refuse" \in Disturbances /\ Drop
    /\ Goto(r, "reread")
    /\ UNCHANGED <<writer, snap, card, edited, mailed, retired, doubt>>

FixSave(r) ==
    /\ pc[r] = "fixsave"
    /\ \/ MayStore(r) /\ Store(card[r]) /\ Goto(r, "reread")
       \/ ~MayStore(r) /\ Drop /\ Goto(r, "giveback")
       \/ "refuse" \in Disturbances /\ Drop /\ Goto(r, "giveback")
    /\ UNCHANGED <<writer, snap, card, edited, mailed, retired, doubt>>

Reread(r) ==
    /\ pc[r] = "reread"
    /\ snap' = [snap EXCEPT ![r] = IF Exists THEN row.text ELSE @]
    /\ Goto(r, "send")
    /\ UNCHANGED <<row, writer, seen, card, edited, history>>

------------------------------------------------------------------------------
(* The transport.                                                          *)

(* send and locked_row(sending): claimed, and the content is the one read. *)
MaySend(r) == writer = None /\ Claimed /\ row.text = snap[r]

Dispatch(r) ==
    /\ pc[r] = "send"
    /\ \/ MaySend(r) /\ writer' = r /\ Goto(r, "wire")
       \/ ~MaySend(r) /\ UNCHANGED writer /\ Goto(r, "giveback")
       \/ "refuse" \in Disturbances /\ UNCHANGED writer /\ Goto(r, "giveback")
    /\ UNCHANGED <<row, snap, seen, card, edited, history>>

(* Mutant: the reservation outlives the transport.                         *)
AcceptedReserved(r) ==
    /\ pc[r] = "wire"
    /\ mailed' = [mailed EXCEPT ![r] = snap[r]]
    /\ Goto(r, "mark")
    /\ UNCHANGED <<row, writer, snap, seen, card, edited, retired, doubt, overtaken>>

Accepted(r) ==
    /\ pc[r] = "wire"
    /\ writer' = None
    /\ mailed' = [mailed EXCEPT ![r] = snap[r]]
    /\ Goto(r, "mark")
    /\ UNCHANGED <<row, snap, seen, card, edited, retired, doubt, overtaken>>

(* An error that says nothing left the mailbox.                            *)
Rejected(r) ==
    /\ pc[r] = "wire"
    /\ writer' = None
    /\ Goto(r, "giveback")
    /\ UNCHANGED <<row, snap, seen, card, edited, history>>

(* delivery_is_uncertain.                                                  *)
Lost(r) ==
    /\ "lost" \in Disturbances
    /\ pc[r] = "wire"
    /\ writer' = None
    /\ \E out \in {None, snap[r]} : mailed' = [mailed EXCEPT ![r] = out]
    /\ doubt' = TRUE
    /\ Goto(r, "hold")
    /\ UNCHANGED <<row, snap, seen, card, edited, retired, overtaken>>

(* release_draft_claim.                                                    *)
Release(status) ==
    IF Claimed THEN Write([row EXCEPT !.status = status, !.stale = FALSE]) ELSE Keep

(* A draft that did not go out is a draft again, one in doubt stays held.  *)
GiveBack(r) ==
    /\ \/ pc[r] = "giveback" /\ writer = None /\ Release("draft")
       \/ pc[r] = "hold" /\ writer = None /\ Release("sending")
       \/ pc[r] \in {"giveback", "hold"} /\ "storage" \in Disturbances /\ Keep
    /\ Goto(r, "done")
    /\ UNCHANGED <<writer, snap, card, edited, history>>

(* Mutant: after delivery the claim is rolled back like any other.         *)
MarkRolledBack(r) ==
    /\ pc[r] = "mark"
    /\ \/ writer = None /\ Write([row EXCEPT !.status = "sent"]) /\ Goto(r, "done")
       \/ Keep /\ Goto(r, "giveback")
    /\ UNCHANGED <<writer, snap, card, edited, history>>

(* mark_draft_sent, which a write in between or the store may fail.        *)
Mark(r) ==
    /\ pc[r] = "mark"
    /\ \/ /\ writer = None
          /\ IF Exists THEN Write([row EXCEPT !.status = "sent"]) ELSE Keep
          /\ Goto(r, "done")
       \/ Keep /\ Goto(r, "force")
    /\ UNCHANGED <<writer, snap, card, edited, history>>

(* force_draft_sent.                                                       *)
ForceSent(r) ==
    /\ pc[r] = "force"
    /\ \/ /\ writer = None
          /\ IF Claimed THEN Write([row EXCEPT !.status = "sent"]) ELSE Keep
          /\ UNCHANGED doubt
       \/ "storage" \in Disturbances /\ Keep /\ doubt' = TRUE
    /\ Goto(r, "done")
    /\ UNCHANGED <<writer, snap, card, edited, mailed, retired, overtaken>>

------------------------------------------------------------------------------
(* Removal.                                                                *)

(* Mutant: discard deletes on the strength of the status it read.          *)
StartDiscardAtOnce(r) ==
    /\ pc[r] = "idle" /\ KindOf[r] = "discard"
    /\ Goto(r, IF Exists /\ row.status # "sent" /\ (Claimed => row.stale)
               THEN "remove" ELSE "done")
    /\ UNCHANGED <<row, writer, snap, seen, card, edited, history>>

(* _discard_refusal.                                                       *)
StartDiscard(r) ==
    /\ pc[r] = "idle" /\ KindOf[r] = "discard"
    /\ Goto(r, IF Exists /\ row.status # "sent" /\ (Claimed => row.stale)
               THEN "claim" ELSE "done")
    /\ UNCHANGED <<row, writer, snap, seen, card, edited, history>>

Remove(r) ==
    /\ pc[r] = "remove"
    /\ writer = None
    /\ Write(None)
    /\ retired' = (retired \/ Exists)
    /\ Goto(r, "done")
    /\ UNCHANGED <<writer, snap, card, edited, mailed, doubt, overtaken>>

(* delete_draft and /email delete, in any state of the draft.              *)
Delete(r) ==
    /\ pc[r] = "idle" /\ KindOf[r] = "delete"
    /\ writer = None
    /\ Write(None)
    /\ Goto(r, "done")
    /\ UNCHANGED <<writer, snap, card, edited, history>>

------------------------------------------------------------------------------
(* The clock, the lock and the process.                                    *)

(* The window outlives the send it covers, unless the machine sleeps.      *)
Age ==
    /\ Claimed /\ ~row.stale
    /\ \A r \in Requests : pc[r] \in Owning => "suspend" \in Disturbances
    /\ row' = [row EXCEPT !.stale = TRUE]
    /\ doubt' = (doubt \/ \E r \in Requests : pc[r] \in Owning)
    /\ UNCHANGED <<writer, pc, snap, seen, card, edited, mailed, retired, overtaken>>

(* busy_timeout runs out while a transport holds the store.                *)
TimeOut(r) ==
    /\ writer \notin {None, r}
    /\ pc[r] \in {"claim", "fixsave", "send", "giveback", "hold", "mark", "force", "remove"}
    /\ Goto(r, CASE pc[r] \in {"fixsave", "send"} -> "giveback"
                 [] pc[r] = "mark" -> "force"
                 [] OTHER -> "done")
    /\ doubt' = (doubt \/ pc[r] = "force")
    /\ UNCHANGED <<row, writer, snap, seen, card, edited, mailed, retired, overtaken>>

(* A process that dies on the wire may have delivered.                     *)
Crash(r) ==
    /\ "crash" \in Disturbances
    /\ pc[r] \notin {"idle", "done"}
    /\ writer' = IF writer = r THEN None ELSE writer
    /\ \E out \in {mailed[r]} \cup (IF pc[r] = "wire" THEN {snap[r]} ELSE {}) :
           mailed' = [mailed EXCEPT ![r] = out]
    /\ doubt' = (doubt \/ pc[r] \in {"wire", "mark", "force"})
    /\ Goto(r, "done")
    /\ UNCHANGED <<row, snap, seen, card, edited, retired, overtaken>>

Step(r) ==
    \/ Ask(r) \/ Decline(r) \/ ApproveAsIs(r) \/ ApproveFields(r)
    \/ StartEdit(r) \/ Look(r) \/ Save(r)
    \/ Read(r) \/ StartDiscard(r) \/ Claim(r)
    \/ FixLook(r) \/ FixSave(r) \/ Reread(r)
    \/ Dispatch(r) \/ Accepted(r) \/ Rejected(r) \/ Lost(r)
    \/ GiveBack(r) \/ Mark(r) \/ ForceSent(r)
    \/ Remove(r) \/ Delete(r)
    \/ TimeOut(r) \/ Crash(r)

Next == Age \/ \E r \in Requests : Step(r)

Spec == Init /\ [][Next]_vars

------------------------------------------------------------------------------
(* Properties.                                                             *)

Steps == {"idle", "asked", "look", "save", "read", "claim", "done"} \cup Owning

(* Every variable has its type, and the store's writer reservation is held *)
(* exactly while a mail is on the wire.                                    *)
TypeOK ==
    /\ row \in Row \cup {None}
    /\ writer \in Requests \cup {None}
    /\ pc \in [Requests -> Steps]
    /\ snap \in [Requests -> Texts \cup {None}]
    /\ seen \subseteq Requests
    /\ card \in [Requests -> Texts \cup {None}]
    /\ edited \in [Requests -> BOOLEAN]
    /\ mailed \in [Requests -> Texts \cup {None}]
    /\ retired \in BOOLEAN /\ doubt \in BOOLEAN /\ overtaken \subseteq Requests
    /\ \A r \in Requests : writer = r <=> pc[r] = "wire"

(* A draft is mailed once, however many requests send it: only a delivery  *)
(* or a claim that was left in doubt can lead to a second mail.            *)
SentOnce ==
    ~doubt => \A r, s \in Requests : mailed[r] # None /\ mailed[s] # None => r = s

(* A delivered draft is never sendable again, and what the store keeps as  *)
(* sent is what was mailed: until it is marked, its sender holds the claim.*)
DeliveredStaysSent ==
    \A r \in Requests :
        ~doubt /\ mailed[r] # None /\ Exists =>
            /\ row.text = mailed[r]
            /\ \/ row.status = "sent"
               \/ pc[r] \in {"mark", "force"} /\ Claimed /\ ~row.stale

(* What send_draft mails is what its card said.  Fields that came back     *)
(* with the approval are mailed whoever else edits the draft; an approval  *)
(* as is mails the stored draft, so that an edit stored between the card   *)
(* and the tool's reading goes out unseen, but none after it.              *)
MailedAsShown ==
    \A r \in Requests :
        KindOf[r] = "tool" /\ mailed[r] # None /\ ~doubt =>
            mailed[r] = card[r] \/ (~edited[r] /\ r \in overtaken)

(* drafts.discard never removes a draft that was, or will be, delivered.   *)
DiscardedUnsent ==
    retired /\ ~doubt => \A r \in Requests : mailed[r] = None /\ pc[r] # "wire"
==============================================================================
