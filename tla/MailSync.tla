------------------------------- MODULE MailSync -------------------------------
(***************************************************************************)
(* The archive sync of one IMAP mailbox: its folders on the server, the    *)
(* archive, the cursor kept per folder (email/sync_cursor.py) and the sync *)
(* that reads one and moves the other (tools/email_archive.py over         *)
(* email/imap_client.py).  Two syncs of a process may overlap: sync.run    *)
(* does not take the guard update.run takes.  A step is one statement on   *)
(* the profile's store or one exchange with the server, which delivers,    *)
(* moves, deletes and renumbers as it likes.  Drafts, which every search   *)
(* leaves out, are not on this server.                                     *)
(***************************************************************************)
EXTENDS Integers, Sequences, FiniteSets

CONSTANTS
    Folders,      \* <<"INBOX", ...>> in scan order
    Messages,     \* what Message-ID tells apart
    Headerless,   \* the messages without one
    Sent,         \* [Messages -> Nat], the day of the Date header
    Runs,         \* syncs that may overlap
    Overlap,      \* days, EMAIL_SYNC_OVERLAP_DAYS
    DaysBack,     \* days a sync is asked to cover
    BatchSize,    \* messages stored in one transaction
    None,
    \* bounds: days, uids of each folder, and events (failures, moves,
    \* deletions and renumberings)
    MaxDay, MaxUid, MaxEvents

FolderSet == {Folders[i] : i \in 1..Len(Folders)}

ASSUME MailAssumption ==
    /\ Len(Folders) \in Nat \ {0} /\ Folders \in Seq(FolderSet)
    /\ Headerless \subseteq Messages /\ Sent \in [Messages -> Nat]
    /\ Overlap \in Nat \ {0} /\ DaysBack \in Nat /\ BatchSize \in Nat \ {0}
    /\ MaxDay \in Nat /\ MaxEvents \in Nat
    /\ MaxUid \in [FolderSet -> Nat]
    /\ None \notin Messages

Uids == Nat \ {0}
Entry == [uid : Uids, msg : Messages, day : 0..MaxDay]   \* day: INTERNALDATE

(* The row of email_sync_cursor_v2.  `since`, which the row does not have, *)
(* is the floor of the run that seeded the folder.                         *)
Cursor == [validity : Nat, last : Nat, since : Int]

Steps == {"idle", "list", "cursor", "examine", "search", "fetch", "store", "advance"}

(* What a sync holds: the floor and the known ids of the whole run, the    *)
(* folders still to scan, and of the folder at hand the cursor it read,    *)
(* the state EXAMINE gave, the highest candidate, the messages to fetch,   *)
(* the ones fetched, and the uids that are unaccounted for.                *)
Sync == [at : Steps, floor : Int, known : SUBSET Messages, todo : Seq(FolderSet),
         cursor : Cursor \cup {None}, validity : Nat, top : Nat,
         want : SUBSET Entry, got : SUBSET Entry, blocked : SUBSET Uids]

Idle == [at |-> "idle", floor |-> 0, known |-> {}, todo |-> <<>>, cursor |-> None,
         validity |-> 0, top |-> 0, want |-> {}, got |-> {}, blocked |-> {}]

VARIABLES
    box,       \* server: the entries of each folder
    uidnext,   \* server: the next uid of each folder
    validity,  \* server: UIDVALIDITY of each folder
    today,
    stored,    \* the Message-IDs of the mailbox's emails rows
    cursor,    \* the cursor row of each folder, or None
    sync,      \* what each run is doing
    events     \* events so far

server == <<box, uidnext, validity, today>>
vars == <<server, stored, cursor, sync, events>>

Init ==
    /\ box = [f \in FolderSet |-> {}]
    /\ uidnext = [f \in FolderSet |-> 1]
    /\ validity = [f \in FolderSet |-> 1]
    /\ today = 0
    /\ stored = {}
    /\ cursor = [f \in FolderSet |-> None]
    /\ sync = [r \in Runs |-> Idle]
    /\ events = 0

Event == events < MaxEvents /\ events' = events + 1
Works == UNCHANGED events

------------------------------------------------------------------------------
(* The server.                                                             *)

Entered(f, m, d) == [uid |-> uidnext[f], msg |-> m, day |-> d]

Deliver(f, m) ==
    /\ uidnext[f] <= MaxUid[f]
    /\ uidnext' = [uidnext EXCEPT ![f] = @ + 1]
    /\ box' = [box EXCEPT ![f] = @ \cup {Entered(f, m, today)}]
    /\ UNCHANGED <<validity, today, stored, cursor, sync, events>>

(* Archiving, filing, undoing either: a new uid, the same INTERNALDATE.    *)
Move(f, g, e) ==
    /\ uidnext[g] <= MaxUid[g]
    /\ uidnext' = [uidnext EXCEPT ![g] = @ + 1]
    /\ box' = [box EXCEPT ![f] = @ \ {e}, ![g] = @ \cup {Entered(g, e.msg, e.day)}]
    /\ Event
    /\ UNCHANGED <<validity, today, stored, cursor, sync>>

Expunge(f, e) ==
    /\ box' = [box EXCEPT ![f] = @ \ {e}]
    /\ Event
    /\ UNCHANGED <<uidnext, validity, today, stored, cursor, sync>>

At(r) == sync[r].at
Folder(r) == Head(sync[r].todo)

(* A server that renumbers drops the sessions that have the folder open.   *)
Renumber(f) ==
    /\ \A r \in Runs : At(r) = "search" => Folder(r) # f
    /\ validity' = [validity EXCEPT ![f] = @ + 1]
    /\ \E n \in 1..uidnext[f] : \E new \in [box[f] -> 1..n-1] :
        /\ \A d, e \in box[f] : d.uid < e.uid => new[d] < new[e]
        /\ box' = [box EXCEPT ![f] = {[e EXCEPT !.uid = new[e]] : e \in @}]
        /\ uidnext' = [uidnext EXCEPT ![f] = n]
    /\ Event
    /\ UNCHANGED <<today, stored, cursor, sync>>

NextDay ==
    /\ today < MaxDay
    /\ today' = today + 1
    /\ UNCHANGED <<box, uidnext, validity, stored, cursor, sync, events>>

------------------------------------------------------------------------------
(* One run.                                                                *)

Becomes(r, s) == sync' = [sync EXCEPT ![r] = s]

(* Mutant: the sync ends with its first folder.                            *)
OnwardOnce(s) == Idle

(* The next folder, or the end of the run.                                 *)
Onward(s) ==
    IF Len(s.todo) > 1
    THEN [Idle EXCEPT !.at = "cursor", !.floor = s.floor, !.known = s.known, !.todo = Tail(s.todo)]
    ELSE Idle

Newest(d, S) == \E m \in S : d = Sent[m] /\ \A n \in S : Sent[n] <= d
Oldest(d, S) == \E m \in S : d = Sent[m] /\ \A n \in S : d <= Sent[n]

(* The date floor: the whole window for an empty archive, or when it       *)
(* reaches before the oldest row; the overlap under the newest otherwise.  *)
FloorIs(floor) ==
    \/ stored = {} /\ floor = today - DaysBack
    \/ \E old, new \in {Sent[m] : m \in stored} :
           /\ Oldest(old, stored) /\ Newest(new, stored)
           /\ floor = IF today - DaysBack < old THEN today - DaysBack ELSE new - Overlap

(* A failed read of a date is no date.                                     *)
FloorWithout(floor) ==
    \/ floor = today - DaysBack
    \/ \E new \in {Sent[m] : m \in stored} : Newest(new, stored) /\ floor = new - Overlap

Floors == {today - DaysBack} \cup {Sent[m] - Overlap : m \in Messages}

Begin(r) ==
    /\ At(r) = "idle"
    /\ \E floor \in Floors :
        /\ \/ FloorIs(floor) /\ Works
           \/ FloorWithout(floor) /\ Event
        /\ Becomes(r, [Idle EXCEPT !.at = "list", !.floor = floor])
    /\ UNCHANGED <<server, stored, cursor>>

(* The folders, and the identifiers the archive holds, read once.  A       *)
(* folder sync_folders does not find is skipped like one that FolderError  *)
(* leaves out, and a mailbox where it fails at all like a run of none.     *)
List(r) ==
    /\ At(r) = "list"
    /\ \/ \E ids \in {stored \ Headerless, {}} :
            /\ Becomes(r, [sync[r] EXCEPT !.at = "cursor", !.todo = Folders, !.known = ids])
            /\ IF ids = stored \ Headerless THEN Works ELSE Event
       \/ Becomes(r, Idle) /\ Event
    /\ UNCHANGED <<server, stored, cursor>>

ReadCursor(r) ==
    /\ At(r) = "cursor"
    /\ \E c \in {cursor[Folder(r)], None} :
        /\ Becomes(r, [sync[r] EXCEPT !.at = "examine", !.cursor = c])
        /\ IF c = cursor[Folder(r)] THEN Works ELSE Event
    /\ UNCHANGED <<server, stored, cursor>>

(* EXAMINE, and on another UIDVALIDITY the drop of the cursor, which may   *)
(* fail without stopping the run.                                          *)
Examine(r) ==
    /\ At(r) = "examine"
    /\ LET f == Folder(r)
           c == sync[r].cursor
           void == c # None /\ c.validity # validity[f]
       IN  /\ Becomes(r, [sync[r] EXCEPT !.at = "search", !.validity = validity[f],
                                         !.top = uidnext[f] - 1,
                                         !.cursor = IF void THEN None ELSE c])
           /\ \/ cursor' = (IF void THEN [cursor EXCEPT ![f] = None] ELSE cursor) /\ Works
              \/ void /\ cursor' = cursor /\ Event
    /\ UNCHANGED <<server, stored>>

(* UID SEARCH: what is above the cursor, and all since the floor.  The     *)
(* range last+1:* has the highest entry in it even when that is below.     *)
Candidate(s, e) ==
    \/ e.day >= s.floor
    \/ s.cursor # None /\ e.uid > s.cursor.last
    \/ s.cursor # None /\ \A d \in box[Head(s.todo)] : d.uid <= e.uid

(* The position with nothing unaccounted for: the highest candidate, or    *)
(* the cursor if that is higher; with neither, the folder as EXAMINEd.     *)
Tops(s, found) ==
    LET seen == {e.uid : e \in found} \cup (IF s.cursor = None THEN {} ELSE {s.cursor.last})
    IN  IF seen = {} THEN {s.top} ELSE {top \in seen : \A u \in seen : u <= top}

(* Mutant: the last of its Message-ID in the folder.                       *)
WantedLast(s, resolved) ==
    {e \in resolved :
        /\ e.msg \notin s.known \cup Headerless
        /\ \A d \in resolved : d.msg = e.msg => e.uid >= d.uid}

(* Of the candidates whose Message-ID is known, the ones to fetch: not in  *)
(* the archive, and the first of its Message-ID in the folder.             *)
Wanted(s, resolved) ==
    {e \in resolved :
        /\ e.msg \notin s.known \cup Headerless
        /\ \A d \in resolved : d.msg = e.msg => e.uid <= d.uid}

(* The search and the header FETCH behind it, which a failure on one uid   *)
(* does not stop.  A candidate that is expunged in between is skipped.     *)
Search(r) ==
    /\ At(r) = "search"
    /\ LET s == sync[r]
           found == {e \in box[Folder(r)] : Candidate(s, e)}
       IN  \E unresolved \in SUBSET found, top \in Tops(s, found) :
               /\ IF unresolved = {} THEN Works ELSE Event
               /\ LET want == Wanted(s, found \ unresolved)
                  IN  Becomes(r, [s EXCEPT !.at = IF want = {} THEN "advance" ELSE "fetch",
                                           !.top = top, !.want = want,
                                           !.blocked = {e.uid : e \in unresolved}])
    /\ UNCHANGED <<server, stored, cursor>>

(* The bodies, from the folder as it is numbered now; a uid that is gone   *)
(* has failed like any other.                                              *)
Fetch(r) ==
    /\ At(r) = "fetch"
    /\ LET s == sync[r]
           uids == {e.uid : e \in s.want}
           there == {e \in box[Folder(r)] : e.uid \in uids}
       IN  \E lost \in SUBSET there :
               /\ IF lost = {} THEN Works ELSE Event
               /\ LET got == there \ lost
                  IN  Becomes(r, [s EXCEPT !.at = IF got = {} THEN "advance" ELSE "store",
                                           !.want = {}, !.got = got,
                                           !.blocked = @ \cup (uids \ {e.uid : e \in got})])
    /\ UNCHANGED <<server, stored, cursor>>

Chunk(S) == {e \in S : Cardinality({d \in S : d.uid < e.uid}) < BatchSize}

(* One batch: its rows and the run's known ids, or all its uids failed.    *)
Store(r) ==
    /\ At(r) = "store"
    /\ LET s == sync[r]
           chunk == Chunk(s.got)
           rest == s.got \ chunk
           ids == {e.msg : e \in chunk}
           after == [s EXCEPT !.at = IF rest = {} THEN "advance" ELSE "store", !.got = rest]
       IN  \/ /\ stored' = stored \cup ids
              /\ Becomes(r, [after EXCEPT !.known = @ \cup ids])
              /\ Works
           \/ /\ Becomes(r, [after EXCEPT !.blocked = @ \cup {e.uid : e \in chunk}])
              /\ UNCHANGED stored
              /\ Event
    /\ UNCHANGED <<server, cursor>>

(* Mutant: one further below.                                              *)
PositionsBelow(s) ==
    LET below == {s.top} \cup {u - 2 : u \in s.blocked}
    IN  {last \in below : \A p \in below : last <= p}

(* Below the lowest unaccounted uid, even if that is back.                 *)
Positions(s) ==
    LET below == {s.top} \cup {u - 1 : u \in s.blocked}
    IN  {last \in below : \A p \in below : last <= p}

Row(s, last) == [validity |-> s.validity, last |-> last,
                 since |-> IF s.cursor = None THEN s.floor ELSE s.cursor.since]

AdvanceCursor(r) ==
    /\ At(r) = "advance"
    /\ LET s == sync[r]
       IN  /\ \/ \E last \in Positions(s) : cursor' = [cursor EXCEPT ![Folder(r)] = Row(s, last)] /\ Works
              \/ cursor' = cursor /\ Event
           /\ Becomes(r, Onward(s))
    /\ UNCHANGED <<server, stored>>

(* EXAMINE or SEARCH failed: the folder is skipped, its cursor untouched.  *)
FolderError(r) ==
    /\ At(r) \in {"examine", "search", "fetch"}
    /\ Becomes(r, Onward(sync[r]))
    /\ Event
    /\ UNCHANGED <<server, stored, cursor>>

(* The process dies, and every sync it was running with it.                *)
Crash ==
    /\ \E r \in Runs : At(r) # "idle"
    /\ sync' = [r \in Runs |-> Idle]
    /\ Event
    /\ UNCHANGED <<server, stored, cursor>>

Proceed(r) ==
    \/ Begin(r) \/ List(r) \/ ReadCursor(r) \/ Examine(r) \/ Search(r)
    \/ Fetch(r) \/ Store(r) \/ AdvanceCursor(r)

Server ==
    \/ NextDay
    \/ \E f \in FolderSet :
        \/ Renumber(f)
        \/ \E m \in Messages : Deliver(f, m)
        \/ \E e \in box[f] : Expunge(f, e) \/ \E g \in FolderSet \ {f} : Move(f, g, e)

Next == Server \/ Crash \/ \E r \in Runs : Proceed(r) \/ FolderError(r)

Spec == Init /\ [][Next]_vars

(* The tick of the server starts a sync after the last, and one goes on.   *)
FairSpec == Spec /\ WF_vars(\E r \in Runs : Proceed(r))

------------------------------------------------------------------------------
(* Properties.                                                             *)

(* Every variable has its type.                                            *)
TypeOK ==
    /\ box \in [FolderSet -> SUBSET Entry]
    /\ uidnext \in [FolderSet -> Uids]
    /\ validity \in [FolderSet -> Uids]
    /\ today \in 0..MaxDay
    /\ stored \subseteq Messages
    /\ cursor \in [FolderSet -> Cursor \cup {None}]
    /\ sync \in [Runs -> Sync]
    /\ events \in 0..MaxEvents

(* The cursor covers the entry: its row is of this numbering, at or above. *)
Passed(f, e) == cursor[f] # None /\ cursor[f].validity = validity[f] /\ e.uid <= cursor[f].last

(* "No message with UID <= last_uid needs to be examined again"            *)
(* (sync_cursor.py): what a cursor has passed is in the archive, or came   *)
(* before the floor its folder was seeded from.                            *)
PassedIsStored ==
    \A f \in FolderSet : \A e \in box[f] :
        Passed(f, e) => e.msg \in stored \cup Headerless \/ e.day < cursor[f].since

(* A message no cursor has passed does not wait for ever: a sync archives  *)
(* it, or it leaves the server, or a cursor seeded from a later day passes *)
(* it unread, as PassedIsStored allows.                                    *)
Waiting(m) == m \notin stored /\ \E f \in FolderSet : \E e \in box[f] : e.msg = m /\ ~Passed(f, e)
CatchesUp == \A m \in Messages \ Headerless : Waiting(m) ~> ~Waiting(m)
==============================================================================
