---------------------------- MODULE MailSyncProofs ----------------------------
(***************************************************************************)
(* What a mailbox's cursors promise, for every set of folders, messages    *)
(* and overlapping syncs: no mail is behind a cursor that is neither in    *)
(* the archive nor older than the seed of its folder.                      *)
(***************************************************************************)
EXTENDS MailSync, TLAPS, WellFoundedInduction

(* An entry that needs no second look.                                     *)
Safe(e, since) == e.msg \in stored \cup Headerless \/ e.day < since

(* A position of a numbering the folder has left binds nobody; one of its  *)
(* own has only such entries below it.                                     *)
Holds(c, f) ==
    /\ c.validity <= validity[f]
    /\ c.validity = validity[f] =>
         /\ c.last < uidnext[f]
         /\ \A e \in box[f] : e.uid <= c.last => Safe(e, c.since)

Numbered ==
    \A f \in FolderSet : \A e \in box[f] :
        e.uid < uidnext[f] /\ \A d \in box[f] : d.uid = e.uid => d = e

CursorsHold == \A f \in FolderSet : cursor[f] # None => Holds(cursor[f], f)

Scanned == {"fetch", "store", "advance"}
Reads == {"examine", "search"} \cup Scanned
Working == {"cursor"} \cup Reads

Current(r) == sync[r].validity = validity[Folder(r)]
Since(r) == IF sync[r].cursor = None THEN sync[r].floor ELSE sync[r].cursor.since

(* What a sync has seen and not settled: a copy at or below it is still to *)
(* be fetched or stored, or an unaccounted uid holds the cursor below it.  *)
Pending(r, e) ==
    \/ \E d \in sync[r].want \cup sync[r].got : d.uid <= e.uid /\ d.msg = e.msg
    \/ \E u \in sync[r].blocked : u <= e.uid

KnowsStored(r) == sync[r].known \subseteq stored
HasFolder(r) == At(r) \in Working => sync[r].todo # <<>>
TrustsCursor(r) == At(r) \in Reads /\ sync[r].cursor # None => Holds(sync[r].cursor, Folder(r))
Selected(r) ==
    /\ At(r) = "search" => Current(r)
    /\ At(r) \in Scanned \cup {"search"} =>
         /\ sync[r].validity <= validity[Folder(r)]
         /\ Current(r) => sync[r].top < uidnext[Folder(r)]
         /\ sync[r].cursor # None => sync[r].cursor.validity = sync[r].validity
Covers(r) ==
    At(r) \in Scanned /\ Current(r) =>
        \A e \in box[Folder(r)] : e.uid <= sync[r].top => Safe(e, Since(r)) \/ Pending(r, e)
InHand(r) == (At(r) # "fetch" => sync[r].want = {}) /\ (At(r) # "store" => sync[r].got = {})
WantsThese(r) ==
    At(r) = "fetch" /\ Current(r) =>
        \A w \in sync[r].want : /\ w.uid < uidnext[Folder(r)]
                                /\ \A b \in box[Folder(r)] : b.uid = w.uid => b.msg = w.msg

RunHolds(r) ==
    /\ KnowsStored(r) /\ HasFolder(r) /\ TrustsCursor(r) /\ Selected(r)
    /\ Covers(r) /\ InHand(r) /\ WantsThese(r)

MailInv == TypeOK /\ Numbered /\ CursorsHold /\ \A r \in Runs : RunHolds(r)

------------------------------------------------------------------------------
(* A set of naturals has a least element.                                  *)
LEMMA LeastNat ==
  ASSUME NEW S, S \subseteq Nat, S # {}
  PROVE  \E n \in S : \A k \in S : n <= k
<1> DEFINE R == OpToRel(<, Nat)
<1>1. IsWellFoundedOn(R, Nat)
  BY NatLessThanWellFounded
<1>2. \A y, n \in Nat : y < n => <<y, n>> \in R
  BY DEF OpToRel
<1> HIDE DEF R
<1>3. PICK n \in S : \A y \in S : ~(<<y, n>> \in R)
  BY <1>1, WFMin
<1>4. \A k \in S : ~(k < n)
  BY <1>2, <1>3
<1> QED
  BY <1>4

LEMMA Constants ==
  /\ Folders \in Seq(FolderSet) /\ Folders # <<>>
  /\ Sent \in [Messages -> Nat] /\ Overlap \in Nat /\ DaysBack \in Nat
  /\ MaxDay \in Nat /\ MaxUid \in [FolderSet -> Nat] /\ MaxEvents \in Nat
  BY MailAssumption

(* The folder a working sync is at.                                        *)
LEMMA FolderIsOne ==
  ASSUME TypeOK, NEW r \in Runs, HasFolder(r), At(r) \in Working
  PROVE  Folder(r) \in FolderSet
  BY DEF TypeOK, HasFolder, Folder, At, Sync, Working, Reads, Scanned

LEMMA IdleIsSync == Idle \in Sync /\ Idle.at = "idle" /\ Idle.known = {} /\ Idle.want = {} /\ Idle.got = {}
<1>1. <<>> \in Seq(FolderSet)
  OBVIOUS
<1> QED
  BY <1>1 DEF Idle, Sync, Steps, Uids

(* Where the next folder is, a sync has one.                               *)
LEMMA OnwardKeeps ==
  ASSUME NEW s \in Sync
  PROVE  /\ Onward(s) \in Sync
         /\ Onward(s).at \in {"idle", "cursor"}
         /\ Onward(s).at = "cursor" => Onward(s).todo # <<>>
         /\ Onward(s).known \subseteq s.known
         /\ Onward(s).want = {} /\ Onward(s).got = {}
<1>1. CASE Len(s.todo) > 1
  <2>1. s.todo \in Seq(FolderSet) /\ Tail(s.todo) \in Seq(FolderSet) /\ Tail(s.todo) # <<>>
    BY <1>1 DEF Sync
  <2>2. Onward(s) = [Idle EXCEPT !.at = "cursor", !.floor = s.floor, !.known = s.known, !.todo = Tail(s.todo)]
    BY <1>1 DEF Onward
  <2> QED
    BY <2>1, <2>2, IdleIsSync DEF Sync, Steps
<1>2. CASE ~(Len(s.todo) > 1)
  <2>1. Onward(s) = Idle /\ <<>> \in Seq(FolderSet)
    BY <1>2 DEF Onward
  <2> QED
    BY <2>1, IdleIsSync
<1> QED
  BY <1>1, <1>2

LEMMA InitHolds == Init => MailInv
<1>1. HAVE Init
<1>2. TypeOK
  BY <1>1, Constants, IdleIsSync DEF Init, TypeOK, Uids
<1>3. Numbered /\ CursorsHold
  BY <1>1 DEF Init, Numbered, CursorsHold
<1>4. ASSUME NEW r \in Runs PROVE RunHolds(r)
  <2>1. sync[r] = Idle
    BY <1>1 DEF Init
  <2> QED
    BY <2>1, IdleIsSync DEF RunHolds, KnowsStored, HasFolder, TrustsCursor, Selected, Covers, InHand,
       WantsThese, At, Working, Reads, Scanned
<1> QED
  BY <1>2, <1>3, <1>4 DEF MailInv

------------------------------------------------------------------------------
(* What the server and the other syncs leave a sync with.                  *)

FolderGoesOn(f) ==
    \/ validity'[f] > validity[f]
    \/ /\ validity'[f] = validity[f] /\ uidnext'[f] >= uidnext[f]
       /\ \A e \in box'[f] : e \in box[f] \/ e.uid >= uidnext[f]

GoesOn == stored \subseteq stored' /\ \A f \in FolderSet : FolderGoesOn(f)

LEMMA PositionKept ==
  ASSUME TypeOK, TypeOK', GoesOn, NEW f \in FolderSet, NEW c \in Cursor, Holds(c, f)
  PROVE  Holds(c, f)'
<1>1. validity[f] \in Nat /\ validity'[f] \in Nat /\ uidnext[f] \in Nat /\ uidnext'[f] \in Nat
  BY DEF TypeOK, Uids
<1>2. c.validity \in Nat /\ c.last \in Nat
  BY DEF Cursor
<1>3. \A e \in box'[f] : e.uid \in Nat
  BY DEF TypeOK, Entry, Uids
<1> QED
  BY <1>1, <1>2, <1>3 DEF GoesOn, FolderGoesOn, Holds, Safe

LEMMA RunKept ==
  ASSUME MailInv, TypeOK', GoesOn, NEW r \in Runs, sync'[r] = sync[r],
         At(r) = "search" => validity'[Folder(r)] = validity[Folder(r)]
  PROVE  RunHolds(r)'
<1> DEFINE F == Folder(r)
<1>1. RunHolds(r) /\ TypeOK /\ At(r)' = At(r) /\ Folder(r)' = F
  BY DEF MailInv, At, Folder
<1>2. HasFolder(r)' /\ InHand(r)' /\ KnowsStored(r)'
  BY <1>1 DEF RunHolds, HasFolder, InHand, KnowsStored, At, GoesOn
<1>3. CASE At(r) \notin Reads
  BY <1>1, <1>2, <1>3 DEF RunHolds, TrustsCursor, Selected, Covers, WantsThese, Reads, Scanned
<1>4. CASE At(r) \in Reads
  <2>1. F \in FolderSet
    BY <1>1, <1>4, FolderIsOne DEF RunHolds, Working
  <2>2. sync[r] \in Sync
    BY <1>1 DEF TypeOK
  <2>3. /\ validity[F] \in Nat /\ validity'[F] \in Nat /\ uidnext[F] \in Nat /\ uidnext'[F] \in Nat
        /\ \A e \in box[F] \cup box'[F] : e \in Entry
    BY <1>1, <2>1 DEF TypeOK, Uids
  <2>4. FolderGoesOn(F) /\ stored \subseteq stored'
    BY <2>1 DEF GoesOn
  <2>5. TrustsCursor(r)'
    <3>1. CASE sync[r].cursor = None
      BY <1>1, <3>1 DEF TrustsCursor
    <3>2. CASE sync[r].cursor # None
      <4>1. PICK c \in Cursor : c = sync[r].cursor
        BY <2>2, <3>2 DEF Sync
      <4>2. Holds(c, F)
        BY <1>1, <1>4, <3>2, <4>1 DEF RunHolds, TrustsCursor, Holds, Safe
      <4>3. PICK g \in FolderSet : g = F
        BY <2>1
      <4>4. Holds(c, g)
        BY <4>2, <4>3
      <4>5. Holds(c, g)'
        BY <1>1, <4>4, PositionKept
      <4>6. sync'[r].cursor = c /\ Folder(r)' = g
        BY <1>1, <4>1, <4>3
      <4> HIDE DEF F
      <4> QED
        BY <4>5, <4>6 DEF TrustsCursor, Holds, Safe
    <3> QED
      BY <3>1, <3>2
  <2>6. Selected(r)'
    <3>1. sync[r].validity \in Nat /\ sync[r].top \in Nat
      BY <2>2 DEF Sync
    <3>2. At(r) = "search" => Current(r)'
      BY <1>1 DEF RunHolds, Selected, Current
    <3>3. ASSUME At(r) \in Scanned \cup {"search"}
          PROVE  /\ sync[r].validity <= validity'[F]
                 /\ Current(r)' => sync[r].top < uidnext'[F]
      <4>1. sync[r].validity <= validity[F] /\ (Current(r) => sync[r].top < uidnext[F])
        BY <1>1, <3>3 DEF RunHolds, Selected
      <4>2. sync[r].validity <= validity'[F]
        BY <2>3, <2>4, <3>1, <4>1 DEF FolderGoesOn
      <4>3. Current(r)' => Current(r) /\ uidnext'[F] >= uidnext[F]
        BY <1>1, <2>3, <2>4, <3>1, <4>1 DEF FolderGoesOn, Current
      <4> QED
        BY <2>3, <3>1, <4>1, <4>2, <4>3
    <3> QED
      BY <1>1, <3>2, <3>3 DEF RunHolds, Selected
  <2>7. At(r) \in Scanned => sync[r].validity <= validity[F] /\ sync[r].validity \in Nat
    BY <1>1, <2>2 DEF RunHolds, Selected, Sync
  <2>8. At(r) \in Scanned /\ Current(r)' => Current(r) /\ \A e \in box'[F] : e \in box[F] \/ e.uid >= uidnext[F]
    BY <1>1, <2>3, <2>4, <2>7 DEF FolderGoesOn, Current
  <2>9. Covers(r)'
    <3> SUFFICES ASSUME At(r) \in Scanned, Current(r)', NEW e \in box'[F], e.uid <= sync[r].top
                 PROVE  (Safe(e, Since(r)) \/ Pending(r, e))'
      BY <1>1 DEF Covers
    <3>1. sync[r].top < uidnext[F] /\ sync[r].top \in Nat
      BY <1>1, <2>2, <2>8 DEF RunHolds, Selected, Sync
    <3>2. e \in box[F]
      BY <2>3, <2>8, <3>1 DEF Entry, Uids
    <3>3. Safe(e, Since(r)) \/ Pending(r, e)
      BY <1>1, <2>8, <3>2 DEF RunHolds, Covers
    <3> QED
      BY <2>4, <3>3 DEF Safe, Since, Pending
  <2>10. WantsThese(r)'
    <3> SUFFICES ASSUME At(r) = "fetch", Current(r)', NEW w \in sync[r].want
                 PROVE  w.uid < uidnext'[F] /\ \A b \in box'[F] : b.uid = w.uid => b.msg = w.msg
      BY <1>1 DEF WantsThese
    <3>1. w.uid < uidnext[F] /\ \A b \in box[F] : b.uid = w.uid => b.msg = w.msg
      BY <1>1, <2>8 DEF RunHolds, WantsThese, Scanned
    <3>2. w.uid \in Nat /\ \A b \in box'[F] : b.uid \in Nat
      BY <2>2, <2>3 DEF Sync, Entry, Uids
    <3>3. uidnext[F] <= uidnext'[F]
      BY <1>1, <2>3, <2>4, <2>7 DEF FolderGoesOn, Current, Scanned
    <3> QED
      BY <2>3, <2>8, <3>1, <3>2, <3>3 DEF Scanned
  <2> QED
    BY <1>2, <2>5, <2>6, <2>9, <2>10 DEF RunHolds
<1> QED
  BY <1>3, <1>4

LEMMA CursorKept ==
  ASSUME MailInv, TypeOK', GoesOn, NEW f \in FolderSet, cursor'[f] = cursor[f]
  PROVE  cursor'[f] # None => Holds(cursor[f], f)'
<1> SUFFICES ASSUME cursor[f] # None PROVE Holds(cursor[f], f)'
  OBVIOUS
<1>1. TypeOK /\ Holds(cursor[f], f)
  BY DEF MailInv, CursorsHold
<1>2. PICK c \in Cursor : c = cursor[f]
  BY <1>1 DEF TypeOK
<1>3. Holds(c, f)
  BY <1>1, <1>2
<1>4. Holds(c, f)'
  BY <1>1, <1>3, PositionKept
<1> QED
  BY <1>2, <1>4 DEF Holds, Safe

(* A step of the server, or of a sync that moves no other.                 *)
LEMMA ServerGoesOn ==
  ASSUME MailInv, TypeOK', GoesOn, Numbered', cursor' = cursor, sync' = sync,
         \A r \in Runs : At(r) = "search" => validity'[Folder(r)] = validity[Folder(r)]
  PROVE  MailInv'
<1>1. \A r \in Runs : RunHolds(r)'
  BY RunKept
<1>2. CursorsHold'
  BY CursorKept DEF CursorsHold
<1> QED
  BY <1>1, <1>2 DEF MailInv

LEMMA SyncGoesOn ==
  ASSUME MailInv, TypeOK', UNCHANGED server, stored \subseteq stored', NEW r \in Runs,
         \A q \in Runs \ {r} : sync'[q] = sync[q],
         \A f \in FolderSet : cursor'[f] # cursor[f] /\ cursor'[f] # None => Holds(cursor[f], f)',
         RunHolds(r)'
  PROVE  MailInv'
<1>1. GoesOn
  BY DEF MailInv, TypeOK, Uids, server, GoesOn, FolderGoesOn
<1>2. \A q \in Runs : RunHolds(q)'
  BY <1>1, RunKept DEF server
<1>3. CursorsHold'
  BY <1>1, CursorKept DEF CursorsHold
<1>4. Numbered'
  BY DEF MailInv, Numbered, server
<1> QED
  BY <1>2, <1>3, <1>4 DEF MailInv

------------------------------------------------------------------------------
(* The server.                                                             *)

LEMMA EnteredIsNew ==
  ASSUME MailInv, NEW f \in FolderSet, NEW m \in Messages, NEW d \in 0..MaxDay
  PROVE  /\ Entered(f, m, d) \in Entry /\ Entered(f, m, d).uid = uidnext[f]
         /\ uidnext[f] \in Uids /\ uidnext[f] + 1 \in Uids
         /\ \A e \in box[f] : e \in Entry /\ e.uid \in Nat /\ e.uid < uidnext[f]
  BY Constants DEF MailInv, TypeOK, Numbered, Entered, Entry, Uids

LEMMA DeliverKeeps ==
  ASSUME MailInv, NEW f \in FolderSet, NEW m \in Messages, Deliver(f, m)
  PROVE  MailInv'
<1> DEFINE n == Entered(f, m, today)
<1>1. today \in 0..MaxDay /\ TypeOK
  BY DEF MailInv, TypeOK
<1>2. /\ n \in Entry /\ n.uid = uidnext[f] /\ uidnext[f] \in Uids /\ uidnext[f] + 1 \in Uids
      /\ \A e \in box[f] : e \in Entry /\ e.uid \in Nat /\ e.uid < uidnext[f]
  BY <1>1, EnteredIsNew
<1> HIDE DEF n
<1>3. /\ uidnext' = [uidnext EXCEPT ![f] = @ + 1] /\ box' = [box EXCEPT ![f] = @ \cup {n}]
      /\ UNCHANGED <<validity, today, stored, cursor, sync, events>>
  BY DEF Deliver, n
<1>4. TypeOK'
  BY <1>1, <1>2, <1>3 DEF TypeOK
<1>5. GoesOn
  BY <1>1, <1>2, <1>3 DEF GoesOn, FolderGoesOn, TypeOK, Uids
<1>6. Numbered'
  BY <1>1, <1>2, <1>3 DEF MailInv, Numbered, TypeOK, Uids
<1> QED
  BY <1>3, <1>4, <1>5, <1>6, ServerGoesOn

LEMMA MoveKeeps ==
  ASSUME MailInv, NEW f \in FolderSet, NEW g \in FolderSet \ {f}, NEW e \in box[f], Move(f, g, e)
  PROVE  MailInv'
<1> DEFINE n == Entered(g, e.msg, e.day)
<1>1. e.msg \in Messages /\ e.day \in 0..MaxDay /\ TypeOK
  BY DEF MailInv, TypeOK, Entry
<1>2. /\ n \in Entry /\ n.uid = uidnext[g] /\ uidnext[g] \in Uids /\ uidnext[g] + 1 \in Uids
      /\ \A d \in box[g] : d \in Entry /\ d.uid \in Nat /\ d.uid < uidnext[g]
  BY <1>1, EnteredIsNew
<1> HIDE DEF n
<1>3. /\ uidnext' = [uidnext EXCEPT ![g] = @ + 1]
      /\ box' = [box EXCEPT ![f] = @ \ {e}, ![g] = @ \cup {n}]
      /\ UNCHANGED <<validity, today, stored, cursor, sync>> /\ Event
  BY DEF Move, n
<1>4. events' \in 0..MaxEvents
  BY <1>1, <1>3, Constants DEF Event, TypeOK
<1>5. /\ box'[g] = box[g] \cup {n} /\ box'[f] = box[f] \ {e}
      /\ \A h \in FolderSet \ {f, g} : box'[h] = box[h]
      /\ uidnext'[g] = uidnext[g] + 1 /\ \A h \in FolderSet \ {g} : uidnext'[h] = uidnext[h]
  BY <1>1, <1>3 DEF TypeOK
<1>6. TypeOK'
  BY <1>1, <1>2, <1>3, <1>4 DEF TypeOK
<1>7. GoesOn
  BY <1>1, <1>2, <1>3, <1>5 DEF GoesOn, FolderGoesOn, TypeOK, Uids
<1>8. \A h \in FolderSet : \A d \in box'[h] :
          d.uid < uidnext'[h] /\ \A b \in box'[h] : b.uid = d.uid => b = d
  BY <1>1, <1>2, <1>5 DEF MailInv, Numbered, TypeOK, Uids
<1> QED
  BY <1>3, <1>6, <1>7, <1>8, ServerGoesOn DEF Numbered

LEMMA ExpungeKeeps ==
  ASSUME MailInv, NEW f \in FolderSet, NEW e \in box[f], Expunge(f, e)
  PROVE  MailInv'
<1>1. TypeOK
  BY DEF MailInv
<1>2. events' \in 0..MaxEvents
  BY <1>1, Constants DEF Expunge, Event, TypeOK
<1>3. TypeOK'
  BY <1>1, <1>2 DEF Expunge, TypeOK
<1>4. GoesOn
  BY <1>1 DEF Expunge, GoesOn, FolderGoesOn, TypeOK, Uids
<1>5. Numbered'
  BY <1>1 DEF MailInv, Numbered, Expunge, TypeOK
<1> QED
  BY <1>3, <1>4, <1>5, ServerGoesOn DEF Expunge

LEMMA RenumberKeeps ==
  ASSUME MailInv, NEW f \in FolderSet, Renumber(f)
  PROVE  MailInv'
<1>1. TypeOK
  BY DEF MailInv
<1>2. PICK n \in 1..uidnext[f] : \E new \in [box[f] -> 1..n-1] :
        /\ \A d, e \in box[f] : d.uid < e.uid => new[d] < new[e]
        /\ box' = [box EXCEPT ![f] = {[e EXCEPT !.uid = new[e]] : e \in @}]
        /\ uidnext' = [uidnext EXCEPT ![f] = n]
  BY DEF Renumber
<1>3. PICK new \in [box[f] -> 1..n-1] :
        /\ \A d, e \in box[f] : d.uid < e.uid => new[d] < new[e]
        /\ box' = [box EXCEPT ![f] = {[e EXCEPT !.uid = new[e]] : e \in @}]
        /\ uidnext' = [uidnext EXCEPT ![f] = n]
  BY <1>2
<1>4. /\ validity' = [validity EXCEPT ![f] = @ + 1]
      /\ UNCHANGED <<today, stored, cursor, sync>> /\ Event
      /\ \A r \in Runs : At(r) = "search" => Folder(r) # f
  BY DEF Renumber
<1>5. uidnext[f] \in Nat /\ n \in Uids /\ validity[f] \in Nat /\ validity[f] + 1 \in Uids
  BY <1>1 DEF TypeOK, Uids
<1>6. events' \in 0..MaxEvents
  BY <1>1, <1>4, Constants DEF Event, TypeOK
<1>7. \A e \in box[f] : /\ [e EXCEPT !.uid = new[e]] \in Entry
                        /\ [e EXCEPT !.uid = new[e]].uid = new[e]
                        /\ new[e] \in 1..n-1
  BY <1>1, <1>5 DEF TypeOK, Entry, Uids
<1>8. /\ box'[f] = {[e EXCEPT !.uid = new[e]] : e \in box[f]} /\ uidnext'[f] = n
      /\ \A h \in FolderSet \ {f} : box'[h] = box[h] /\ uidnext'[h] = uidnext[h]
  BY <1>1, <1>3 DEF TypeOK
<1>9. TypeOK'
  <2>1. box' \in [FolderSet -> SUBSET Entry]
    <3>1. box'[f] \in SUBSET Entry
      BY <1>7, <1>8
    <3> QED
      BY <1>1, <1>3, <1>8, <3>1 DEF TypeOK
  <2> QED
    BY <1>1, <1>3, <1>4, <1>5, <1>6, <2>1 DEF TypeOK
<1>10. GoesOn
  BY <1>1, <1>4, <1>5, <1>8 DEF GoesOn, FolderGoesOn, TypeOK, Uids
<1>11. Numbered'
  <2>1. ASSUME NEW d \in box'[f] PROVE d.uid < n /\ \A b \in box'[f] : b.uid = d.uid => b = d
    <3>1. PICK d0 \in box[f] : d = [d0 EXCEPT !.uid = new[d0]]
      BY <1>8
    <3>2. d.uid = new[d0] /\ d.uid < n
      BY <1>5, <1>7, <3>1 DEF Uids
    <3>3. ASSUME NEW b \in box'[f], b.uid = d.uid PROVE b = d
      <4>1. PICK b0 \in box[f] : b = [b0 EXCEPT !.uid = new[b0]]
        BY <1>8
      <4>2. new[b0] = new[d0] /\ new[b0] \in Nat
        BY <1>7, <3>2, <3>3, <4>1
      <4>3. b0.uid \in Nat /\ d0.uid \in Nat
        BY <1>1 DEF TypeOK, Entry, Uids
      <4>4. b0.uid = d0.uid
        BY <1>3, <4>2, <4>3
      <4>5. b0 = d0
        BY <4>4 DEF MailInv, Numbered
      <4> QED
        BY <3>1, <4>1, <4>5
    <3> QED
      BY <3>2, <3>3
  <2> QED
    BY <1>8, <2>1 DEF MailInv, Numbered
<1>12. \A r \in Runs : At(r) = "search" => validity'[Folder(r)] = validity[Folder(r)]
  BY <1>1, <1>4, FolderIsOne DEF MailInv, RunHolds, TypeOK, Working, Reads
<1> QED
  BY <1>4, <1>9, <1>10, <1>11, <1>12, ServerGoesOn

LEMMA NextDayKeeps ==
  ASSUME MailInv, NextDay
  PROVE  MailInv'
<1>1. TypeOK
  BY DEF MailInv
<1>2. TypeOK'
  BY <1>1, Constants DEF NextDay, TypeOK
<1>3. GoesOn
  BY <1>1 DEF NextDay, GoesOn, FolderGoesOn, TypeOK, Uids
<1>4. Numbered'
  BY DEF MailInv, Numbered, NextDay
<1> QED
  BY <1>2, <1>3, <1>4, ServerGoesOn DEF NextDay

LEMMA ServerKeeps ==
  ASSUME MailInv, Server
  PROVE  MailInv'
  BY DeliverKeeps, MoveKeeps, ExpungeKeeps, RenumberKeeps, NextDayKeeps DEF Server

------------------------------------------------------------------------------
(* A sync.                                                                 *)

LEMMA EventsTyped ==
  ASSUME TypeOK, Event \/ Works
  PROVE  events' \in 0..MaxEvents
  BY Constants DEF TypeOK, Event, Works

LEMMA Becoming ==
  ASSUME TypeOK, UNCHANGED server, NEW r \in Runs, NEW s \in Sync, Becomes(r, s), Event \/ Works,
         stored' \subseteq Messages, cursor' \in [FolderSet -> Cursor \cup {None}]
  PROVE  TypeOK' /\ sync'[r] = s /\ \A q \in Runs \ {r} : sync'[q] = sync[q]
  BY EventsTyped DEF TypeOK, Becomes, server

(* A sync that is between runs or between folders.                         *)
LEMMA BetweenFolders ==
  ASSUME NEW r \in Runs, sync'[r].at \in {"idle", "list", "cursor"},
         sync'[r].at = "cursor" => sync'[r].todo # <<>>,
         sync'[r].known \subseteq stored', sync'[r].want = {}, sync'[r].got = {}
  PROVE  RunHolds(r)'
  BY DEF RunHolds, KnowsStored, HasFolder, TrustsCursor, Selected, Covers, InHand, WantsThese,
     At, Working, Reads, Scanned

LEMMA BeginKeeps ==
  ASSUME MailInv, NEW r \in Runs, Begin(r)
  PROVE  MailInv'
<1>1. TypeOK
  BY DEF MailInv
<1>2. PICK floor \in Floors : /\ (FloorIs(floor) /\ Works) \/ (FloorWithout(floor) /\ Event)
                              /\ Becomes(r, [Idle EXCEPT !.at = "list", !.floor = floor])
  BY DEF Begin
<1>3. floor \in Int
  BY <1>1, Constants DEF Floors, TypeOK
<1> DEFINE s == [Idle EXCEPT !.at = "list", !.floor = floor]
<1>4. s \in Sync /\ s.at = "list" /\ s.known = {} /\ s.want = {} /\ s.got = {}
  BY <1>3, IdleIsSync DEF Sync, Steps
<1> HIDE DEF s
<1>5. UNCHANGED <<server, stored, cursor>>
  BY DEF Begin
<1>6. TypeOK' /\ sync'[r] = s /\ \A q \in Runs \ {r} : sync'[q] = sync[q]
  BY <1>1, <1>2, <1>4, <1>5, Becoming DEF TypeOK, s
<1>7. RunHolds(r)'
  BY <1>4, <1>6, BetweenFolders
<1> QED
  BY <1>5, <1>6, <1>7, SyncGoesOn

LEMMA ListKeeps ==
  ASSUME MailInv, NEW r \in Runs, List(r)
  PROVE  MailInv'
<1>1. TypeOK /\ sync[r] \in Sync /\ sync[r].want = {} /\ sync[r].got = {}
  BY DEF MailInv, TypeOK, List, RunHolds, InHand
<1>2. UNCHANGED <<server, stored, cursor>>
  BY DEF List
<1>3. CASE Becomes(r, Idle) /\ Event
  <2>1. TypeOK' /\ sync'[r] = Idle /\ \A q \in Runs \ {r} : sync'[q] = sync[q]
    BY <1>1, <1>2, <1>3, IdleIsSync, Becoming DEF TypeOK
  <2>2. RunHolds(r)'
    BY <2>1, IdleIsSync, BetweenFolders
  <2> QED
    BY <1>2, <2>1, <2>2, SyncGoesOn
<1>4. CASE \E ids \in {stored \ Headerless, {}} :
              /\ Becomes(r, [sync[r] EXCEPT !.at = "cursor", !.todo = Folders, !.known = ids])
              /\ IF ids = stored \ Headerless THEN Works ELSE Event
  <2>1. PICK ids \in {stored \ Headerless, {}} :
              /\ Becomes(r, [sync[r] EXCEPT !.at = "cursor", !.todo = Folders, !.known = ids])
              /\ Event \/ Works
    BY <1>4
  <2>2. ids \subseteq stored /\ ids \subseteq Messages
    BY <1>1, <2>1 DEF TypeOK
  <2> DEFINE s == [sync[r] EXCEPT !.at = "cursor", !.todo = Folders, !.known = ids]
  <2>3. /\ s \in Sync /\ s.at = "cursor" /\ s.todo = Folders /\ s.known = ids
        /\ s.want = {} /\ s.got = {}
    BY <1>1, <2>2, Constants DEF Sync, Steps
  <2> HIDE DEF s
  <2>4. TypeOK' /\ sync'[r] = s /\ \A q \in Runs \ {r} : sync'[q] = sync[q]
    BY <1>1, <1>2, <2>1, <2>3, Becoming DEF TypeOK, s
  <2>5. RunHolds(r)'
    BY <1>2, <2>2, <2>3, <2>4, BetweenFolders, Constants
  <2> QED
    BY <1>2, <2>4, <2>5, SyncGoesOn
<1> QED
  BY <1>3, <1>4 DEF List

LEMMA ReadCursorKeeps ==
  ASSUME MailInv, NEW r \in Runs, ReadCursor(r)
  PROVE  MailInv'
<1> DEFINE F == Folder(r)
<1>1. TypeOK /\ sync[r] \in Sync /\ RunHolds(r) /\ At(r) = "cursor"
  BY DEF MailInv, TypeOK, ReadCursor
<1>2. F \in FolderSet
  BY <1>1, FolderIsOne DEF RunHolds, Working
<1>3. UNCHANGED <<server, stored, cursor>>
  BY DEF ReadCursor
<1>4. PICK c \in {cursor[F], None} :
        /\ Becomes(r, [sync[r] EXCEPT !.at = "examine", !.cursor = c])
        /\ Event \/ Works
  BY DEF ReadCursor
<1> DEFINE s == [sync[r] EXCEPT !.at = "examine", !.cursor = c]
<1>5. c \in Cursor \cup {None}
  BY <1>1, <1>2, <1>4 DEF TypeOK
<1>6. /\ s \in Sync /\ s.at = "examine" /\ s.cursor = c /\ s.todo = sync[r].todo
      /\ s.known = sync[r].known /\ s.want = {} /\ s.got = {}
  BY <1>1, <1>5 DEF Sync, Steps, RunHolds, InHand
<1> HIDE DEF s
<1>7. TypeOK' /\ sync'[r] = s /\ \A q \in Runs \ {r} : sync'[q] = sync[q]
  BY <1>1, <1>3, <1>4, <1>6, Becoming DEF TypeOK, s
<1>8. c # None => Holds(c, F)
  BY <1>2, <1>4 DEF MailInv, CursorsHold, Holds, Safe
<1>9. RunHolds(r)'
  <2>1. Folder(r)' = F /\ sync'[r].at = "examine" /\ sync'[r].cursor = c
    BY <1>6, <1>7 DEF Folder
  <2>2. TrustsCursor(r)'
    BY <1>3, <1>8, <2>1 DEF TrustsCursor, Holds, Safe, server
  <2> QED
    BY <1>1, <1>3, <1>6, <1>7, <2>1, <2>2 DEF RunHolds, KnowsStored, HasFolder, Selected, Covers,
       InHand, WantsThese, At, Scanned, Working
<1> QED
  BY <1>3, <1>7, <1>9, SyncGoesOn

LEMMA ExamineKeeps ==
  ASSUME MailInv, NEW r \in Runs, Examine(r)
  PROVE  MailInv'
<1> DEFINE F == Folder(r)
           c == sync[r].cursor
           void == c # None /\ c.validity # validity[F]
           kept == IF void THEN None ELSE c
           s == [sync[r] EXCEPT !.at = "search", !.validity = validity[F],
                                !.top = uidnext[F] - 1, !.cursor = kept]
<1>1. TypeOK /\ sync[r] \in Sync /\ RunHolds(r) /\ At(r) = "examine"
  BY DEF MailInv, TypeOK, Examine
<1>2. F \in FolderSet
  BY <1>1, FolderIsOne DEF RunHolds, Working, Reads
<1>3. UNCHANGED <<server, stored>>
  BY DEF Examine
<1>4. /\ Becomes(r, s)
      /\ \/ cursor' = (IF void THEN [cursor EXCEPT ![F] = None] ELSE cursor) /\ Works
         \/ void /\ cursor' = cursor /\ Event
  BY DEF Examine
<1>5. cursor' = cursor \/ cursor' = [cursor EXCEPT ![F] = None]
  BY <1>4
<1>6. kept \in Cursor \cup {None} /\ validity[F] \in Nat /\ uidnext[F] - 1 \in Nat /\ uidnext[F] \in Nat
  BY <1>1, <1>2 DEF TypeOK, Sync, Uids
<1>7. kept # None => kept = c /\ c # None /\ kept.validity = validity[F]
  OBVIOUS
<1>8. /\ s \in Sync /\ s.at = "search" /\ s.cursor = kept /\ s.todo = sync[r].todo
      /\ s.validity = validity[F] /\ s.top = uidnext[F] - 1
      /\ s.known = sync[r].known /\ s.want = {} /\ s.got = {}
  <2> HIDE DEF kept
  <2> QED
    BY <1>1, <1>6 DEF Sync, Steps, RunHolds, InHand
<1>9. Event \/ Works
  BY <1>4
<1> HIDE DEF s, kept, void
<1>10. cursor' \in [FolderSet -> Cursor \cup {None}]
  BY <1>1, <1>5 DEF TypeOK
<1>11. TypeOK' /\ sync'[r] = s /\ \A q \in Runs \ {r} : sync'[q] = sync[q]
  BY <1>1, <1>3, <1>4, <1>8, <1>9, <1>10, Becoming DEF TypeOK
<1>12. /\ Folder(r)' = F /\ At(r)' = "search" /\ sync'[r].cursor = kept
       /\ sync'[r].validity = validity[F] /\ sync'[r].top = uidnext[F] - 1
       /\ validity' = validity /\ uidnext' = uidnext /\ box' = box /\ stored' = stored
  BY <1>3, <1>8, <1>11 DEF Folder, At, server
<1>13. TrustsCursor(r)'
  <2>1. c # None => Holds(c, F)
    BY <1>1 DEF RunHolds, TrustsCursor, Reads, Holds, Safe
  <2> QED
    BY <1>7, <1>12, <2>1 DEF TrustsCursor, Holds, Safe
<1>14. Selected(r)'
  BY <1>6, <1>7, <1>12 DEF Selected, Current, Scanned
<1>15. RunHolds(r)'
  BY <1>1, <1>8, <1>11, <1>12, <1>13, <1>14 DEF RunHolds, KnowsStored, HasFolder, Covers,
     InHand, WantsThese, At, Scanned, Working, Reads
<1>16. \A f \in FolderSet : cursor'[f] # cursor[f] => cursor'[f] = None
  BY <1>1, <1>5 DEF TypeOK
<1> QED
  BY <1>3, <1>11, <1>15, <1>16, SyncGoesOn

(* Everything at or below the top that is neither in the archive nor older *)
(* than the seed is unresolved, or has a copy at or below it to fetch.     *)
LEMMA SearchFinds ==
  ASSUME MailInv, NEW r \in Runs, At(r) = "search",
         NEW found, found = {e \in box[Folder(r)] : Candidate(sync[r], e)},
         NEW unresolved \in SUBSET found, NEW top \in Tops(sync[r], found),
         NEW e \in box[Folder(r)], e.uid <= top
  PROVE  \/ Safe(e, Since(r))
         \/ \E d \in Wanted(sync[r], found \ unresolved) : d.uid <= e.uid /\ d.msg = e.msg
         \/ e \in unresolved
<1> DEFINE F == Folder(r)
           s == sync[r]
<1>1. TypeOK /\ s \in Sync /\ RunHolds(r) /\ F \in FolderSet
  BY FolderIsOne DEF MailInv, TypeOK, RunHolds, Working, Reads
<1>2. /\ \A d \in box[F] : d \in Entry /\ d.uid \in Nat
      /\ e.day \in Int /\ s.floor \in Int /\ s.known \subseteq stored
  BY <1>1 DEF TypeOK, Entry, Uids, RunHolds, KnowsStored, Sync
<1>3. CASE e \in found
  <2> DEFINE resolved == found \ unresolved
             twins == {d \in resolved : d.msg = e.msg}
             S == {d.uid : d \in twins}
  <2> SUFFICES ASSUME e \in resolved, e.msg \notin s.known \cup Headerless
               PROVE  \E d \in Wanted(s, resolved) : d.uid <= e.uid /\ d.msg = e.msg
    BY <1>2, <1>3 DEF Safe
  <2>1. S \subseteq Nat /\ e.uid \in S
    BY <1>2
  <2>2. PICK n \in S : \A k \in S : n <= k
    BY <2>1, LeastNat
  <2>3. PICK d \in twins : d.uid = n
    BY <2>2
  <2>4. d \in Wanted(s, resolved) /\ d.uid <= e.uid
    BY <2>1, <2>2, <2>3 DEF Wanted
  <2> QED
    BY <2>3, <2>4
<1>4. CASE e \notin found
  <2>1. ~(e.day >= s.floor) /\ ~(s.cursor # None /\ e.uid > s.cursor.last)
    BY <1>4 DEF Candidate
  <2>2. CASE s.cursor = None
    BY <1>2, <2>1, <2>2 DEF Safe, Since
  <2>3. CASE s.cursor # None
    <3>1. Holds(s.cursor, F) /\ s.cursor.validity = validity[F] /\ s.cursor.last \in Nat
      BY <1>1, <2>3 DEF RunHolds, TrustsCursor, Reads, Selected, Current, Sync, Cursor, Holds, Safe
    <3>2. e.uid <= s.cursor.last
      BY <1>2, <2>1, <2>3, <3>1
    <3> QED
      BY <2>3, <3>1, <3>2 DEF Holds, Since, Safe
  <2> QED
    BY <2>2, <2>3
<1> QED
  BY <1>3, <1>4

LEMMA TopBelowNext ==
  ASSUME MailInv, NEW r \in Runs, At(r) = "search",
         NEW found \in SUBSET box[Folder(r)], NEW top \in Tops(sync[r], found)
  PROVE  top \in Nat /\ top < uidnext[Folder(r)]
<1> DEFINE F == Folder(r)
           s == sync[r]
           seen == {e.uid : e \in found} \cup (IF s.cursor = None THEN {} ELSE {s.cursor.last})
<1>1. TypeOK /\ s \in Sync /\ RunHolds(r) /\ F \in FolderSet
  BY FolderIsOne DEF MailInv, TypeOK, RunHolds, Working, Reads
<1>2. s.top \in Nat /\ s.top < uidnext[F]
  BY <1>1 DEF RunHolds, Selected, Sync, Current
<1>3. \A e \in found : e.uid \in Nat /\ e.uid < uidnext[F]
  BY <1>1 DEF MailInv, Numbered, TypeOK, Entry, Uids
<1>4. s.cursor # None => s.cursor.last \in Nat /\ s.cursor.last < uidnext[F]
  BY <1>1 DEF RunHolds, TrustsCursor, Reads, Selected, Current, Sync, Cursor, Holds
<1>5. top = s.top \/ top \in seen
  BY DEF Tops
<1> QED
  BY <1>2, <1>3, <1>4, <1>5

LEMMA SearchKeeps ==
  ASSUME MailInv, NEW r \in Runs, Search(r)
  PROVE  MailInv'
<1> DEFINE F == Folder(r)
           found == {e \in box[F] : Candidate(sync[r], e)}
<1>1. TypeOK /\ sync[r] \in Sync /\ RunHolds(r) /\ At(r) = "search" /\ F \in FolderSet
  BY FolderIsOne DEF MailInv, TypeOK, RunHolds, Working, Reads, Search
<1>2. UNCHANGED <<server, stored, cursor>>
  BY DEF Search
<1>3. PICK unresolved \in SUBSET found, top \in Tops(sync[r], found) :
        /\ Event \/ Works
        /\ LET want == Wanted(sync[r], found \ unresolved)
           IN  Becomes(r, [sync[r] EXCEPT !.at = IF want = {} THEN "advance" ELSE "fetch",
                                          !.top = top, !.want = want,
                                          !.blocked = {e.uid : e \in unresolved}])
  BY DEF Search
<1> DEFINE want == Wanted(sync[r], found \ unresolved)
           at == IF want = {} THEN "advance" ELSE "fetch"
           blocked == {e.uid : e \in unresolved}
           s == [sync[r] EXCEPT !.at = at, !.top = top, !.want = want, !.blocked = blocked]
<1>4. top \in Nat /\ top < uidnext[F]
  BY <1>1, TopBelowNext
<1>5. want \subseteq box[F] /\ want \subseteq Entry /\ blocked \subseteq Uids
  BY <1>1 DEF Wanted, TypeOK, Entry
<1>6. at \in {"advance", "fetch"} /\ (at = "advance" => want = {})
  OBVIOUS
<1>7. \A e \in box[F] : e.uid <= top =>
          \/ Safe(e, Since(r)) \/ \E d \in want : d.uid <= e.uid /\ d.msg = e.msg
          \/ e.uid \in blocked
  <2> SUFFICES ASSUME NEW e \in box[F], e.uid <= top
               PROVE  \/ Safe(e, Since(r)) \/ \E d \in want : d.uid <= e.uid /\ d.msg = e.msg
                      \/ e.uid \in blocked
    OBVIOUS
  <2>1. found = {d \in box[Folder(r)] : Candidate(sync[r], d)}
    OBVIOUS
  <2> HIDE DEF found
  <2>2. \/ Safe(e, Since(r))
        \/ \E d \in Wanted(sync[r], found \ unresolved) : d.uid <= e.uid /\ d.msg = e.msg
        \/ e \in unresolved
    BY <1>1, <2>1, SearchFinds
  <2> QED
    BY <2>2
<1> HIDE DEF want, at, blocked, found
<1>8. /\ s \in Sync /\ s.at = at /\ s.top = top /\ s.want = want /\ s.blocked = blocked /\ s.got = {}
      /\ s.cursor = sync[r].cursor /\ s.floor = sync[r].floor /\ s.todo = sync[r].todo
      /\ s.validity = sync[r].validity /\ s.known = sync[r].known
  BY <1>1, <1>4, <1>5, <1>6 DEF Sync, Steps, RunHolds, InHand
<1>9. Becomes(r, s)
  BY <1>3 DEF want, at, blocked
<1> HIDE DEF s
<1>10. TypeOK' /\ sync'[r] = s /\ \A q \in Runs \ {r} : sync'[q] = sync[q]
  BY <1>1, <1>2, <1>3, <1>8, <1>9, Becoming DEF TypeOK
<1>11. /\ Folder(r)' = F /\ At(r)' = at /\ Since(r)' = Since(r)
       /\ validity' = validity /\ uidnext' = uidnext /\ box' = box /\ stored' = stored
  BY <1>2, <1>8, <1>10 DEF Folder, At, server, Since
<1>12. TrustsCursor(r)'
  BY <1>1, <1>8, <1>10, <1>11 DEF RunHolds, TrustsCursor, Reads, Holds, Safe
<1>13. Selected(r)'
  BY <1>1, <1>4, <1>6, <1>8, <1>10, <1>11 DEF RunHolds, Selected, Current
<1>14. Covers(r)'
  <2>1. \A e \in box[F] : e.uid \in Nat
    BY <1>1 DEF TypeOK, Entry, Uids
  <2> QED
    BY <1>7, <1>8, <1>10, <1>11, <2>1 DEF Covers, Pending, Safe
<1>15. WantsThese(r)'
  BY <1>1, <1>5, <1>8, <1>10, <1>11 DEF WantsThese, MailInv, Numbered
<1>16. InHand(r)' /\ KnowsStored(r)' /\ HasFolder(r)'
  BY <1>1, <1>6, <1>8, <1>10, <1>11 DEF InHand, KnowsStored, HasFolder, RunHolds, Working, Reads
<1> QED
  BY <1>2, <1>10, <1>12, <1>13, <1>14, <1>15, <1>16, SyncGoesOn DEF RunHolds

LEMMA FetchKeeps ==
  ASSUME MailInv, NEW r \in Runs, Fetch(r)
  PROVE  MailInv'
<1> DEFINE F == Folder(r)
           uids == {e.uid : e \in sync[r].want}
           there == {e \in box[F] : e.uid \in uids}
<1>1. TypeOK /\ sync[r] \in Sync /\ RunHolds(r) /\ At(r) = "fetch" /\ F \in FolderSet
  BY FolderIsOne DEF MailInv, TypeOK, RunHolds, Working, Reads, Scanned, Fetch
<1>2. UNCHANGED <<server, stored, cursor>>
  BY DEF Fetch
<1>3. PICK lost \in SUBSET there :
        /\ Event \/ Works
        /\ LET got == there \ lost
           IN  Becomes(r, [sync[r] EXCEPT !.at = IF got = {} THEN "advance" ELSE "store",
                                          !.want = {}, !.got = got,
                                          !.blocked = @ \cup (uids \ {e.uid : e \in got})])
  BY DEF Fetch
<1> DEFINE got == there \ lost
           at == IF got = {} THEN "advance" ELSE "store"
           failed == uids \ {e.uid : e \in got}
           s == [sync[r] EXCEPT !.at = at, !.want = {}, !.got = got, !.blocked = @ \cup failed]
<1>4. got \subseteq box[F] /\ got \subseteq Entry /\ failed \subseteq Uids
  BY <1>1 DEF TypeOK, Entry, Sync
<1>5. at \in {"advance", "store"} /\ (at = "advance" => got = {})
  OBVIOUS
<1>6. \A w \in sync[r].want : w.uid \in failed \/ \E b \in got : b.uid = w.uid
  OBVIOUS
<1> HIDE DEF got, at, failed
<1>7. /\ s \in Sync /\ s.at = at /\ s.want = {} /\ s.got = got /\ s.top = sync[r].top
      /\ s.blocked = sync[r].blocked \cup failed
      /\ s.cursor = sync[r].cursor /\ s.floor = sync[r].floor /\ s.todo = sync[r].todo
      /\ s.validity = sync[r].validity /\ s.known = sync[r].known
  BY <1>1, <1>4, <1>5 DEF Sync, Steps
<1>8. Becomes(r, s)
  BY <1>3 DEF got, at, failed
<1> HIDE DEF s
<1>9. TypeOK' /\ sync'[r] = s /\ \A q \in Runs \ {r} : sync'[q] = sync[q]
  BY <1>1, <1>2, <1>3, <1>7, <1>8, Becoming DEF TypeOK
<1>10. /\ Folder(r)' = F /\ At(r)' = at /\ Since(r)' = Since(r) /\ Current(r)' = Current(r)
       /\ validity' = validity /\ uidnext' = uidnext /\ box' = box /\ stored' = stored
  BY <1>2, <1>7, <1>9 DEF Folder, At, server, Since, Current
<1>11. TrustsCursor(r)'
  BY <1>1, <1>7, <1>9, <1>10 DEF RunHolds, TrustsCursor, Reads, Scanned, Holds, Safe
<1>12. Selected(r)'
  BY <1>1, <1>5, <1>7, <1>9, <1>10 DEF RunHolds, Selected, Scanned
<1>13. Covers(r)'
  <2> SUFFICES ASSUME Current(r), NEW e \in box[F], e.uid <= sync[r].top
               PROVE  \/ Safe(e, Since(r))
                      \/ \E d \in got : d.uid <= e.uid /\ d.msg = e.msg
                      \/ \E u \in sync[r].blocked \cup failed : u <= e.uid
    BY <1>7, <1>9, <1>10 DEF Covers, Pending, Safe
  <2>1. Safe(e, Since(r)) \/ Pending(r, e)
    BY <1>1 DEF RunHolds, Covers, Scanned
  <2>2. ASSUME NEW w \in sync[r].want, w.uid <= e.uid, w.msg = e.msg
        PROVE  \/ \E d \in got : d.uid <= e.uid /\ d.msg = e.msg
               \/ \E u \in failed : u <= e.uid
    BY <1>1, <1>4, <1>6, <2>2 DEF RunHolds, WantsThese
  <2>3. sync[r].got = {}
    BY <1>1 DEF RunHolds, InHand
  <2>4. CASE Safe(e, Since(r))
    BY <2>4
  <2>5. CASE \E w \in sync[r].want : w.uid <= e.uid /\ w.msg = e.msg
    BY <2>2, <2>5
  <2>6. CASE \E u \in sync[r].blocked : u <= e.uid
    BY <2>6
  <2> QED
    BY <2>1, <2>3, <2>4, <2>5, <2>6 DEF Pending
<1>14. InHand(r)' /\ KnowsStored(r)' /\ HasFolder(r)' /\ WantsThese(r)'
  BY <1>1, <1>5, <1>7, <1>9, <1>10 DEF InHand, KnowsStored, HasFolder, WantsThese, RunHolds,
     Working, Reads, Scanned
<1> QED
  BY <1>2, <1>9, <1>11, <1>12, <1>13, <1>14, SyncGoesOn DEF RunHolds

LEMMA StoreKeeps ==
  ASSUME MailInv, NEW r \in Runs, Store(r)
  PROVE  MailInv'
<1> DEFINE F == Folder(r)
           chunk == Chunk(sync[r].got)
           rest == sync[r].got \ chunk
           ids == {e.msg : e \in chunk}
           uids == {e.uid : e \in chunk}
           at == IF rest = {} THEN "advance" ELSE "store"
<1>1. TypeOK /\ sync[r] \in Sync /\ RunHolds(r) /\ At(r) = "store" /\ F \in FolderSet
  BY FolderIsOne DEF MailInv, TypeOK, RunHolds, Working, Reads, Scanned, Store
<1>2. UNCHANGED <<server, cursor>>
  BY DEF Store
<1>3. /\ chunk \subseteq sync[r].got /\ sync[r].got \subseteq Entry
      /\ rest \subseteq Entry /\ ids \subseteq Messages /\ uids \subseteq Uids
      /\ at \in {"advance", "store"} /\ (at = "advance" => rest = {})
  BY <1>1 DEF Chunk, Sync, Entry
<1>4. PICK ok \in BOOLEAN :
        /\ stored' = IF ok THEN stored \cup ids ELSE stored
        /\ Becomes(r, [sync[r] EXCEPT !.at = at, !.got = rest,
                                      !.known = IF ok THEN @ \cup ids ELSE @,
                                      !.blocked = IF ok THEN @ ELSE @ \cup uids])
        /\ Event \/ Works
  <2>1. CASE /\ stored' = stored \cup ids
             /\ Becomes(r, [[sync[r] EXCEPT !.at = at, !.got = rest] EXCEPT !.known = @ \cup ids])
             /\ Works
    <3>1. [[sync[r] EXCEPT !.at = at, !.got = rest] EXCEPT !.known = @ \cup ids] =
          [sync[r] EXCEPT !.at = at, !.got = rest, !.known = @ \cup ids, !.blocked = @]
      BY <1>1 DEF Sync
    <3> WITNESS TRUE \in BOOLEAN
    <3> QED
      BY <2>1, <3>1
  <2>2. CASE /\ Becomes(r, [[sync[r] EXCEPT !.at = at, !.got = rest] EXCEPT !.blocked = @ \cup uids])
             /\ UNCHANGED stored
             /\ Event
    <3>1. [[sync[r] EXCEPT !.at = at, !.got = rest] EXCEPT !.blocked = @ \cup uids] =
          [sync[r] EXCEPT !.at = at, !.got = rest, !.known = @, !.blocked = @ \cup uids]
      BY <1>1 DEF Sync
    <3> WITNESS FALSE \in BOOLEAN
    <3> QED
      BY <2>2, <3>1
  <2> QED
    BY <2>1, <2>2 DEF Store
<1> DEFINE known == IF ok THEN sync[r].known \cup ids ELSE sync[r].known
           blocked == IF ok THEN sync[r].blocked ELSE sync[r].blocked \cup uids
           s == [sync[r] EXCEPT !.at = at, !.got = rest, !.known = known, !.blocked = blocked]
<1>5. Becomes(r, s)
  BY <1>1, <1>4 DEF Sync
<1>6. known \subseteq stored' /\ known \subseteq Messages /\ blocked \subseteq Uids
      /\ stored \subseteq stored' /\ stored' \subseteq Messages
  BY <1>1, <1>3, <1>4 DEF RunHolds, KnowsStored, Sync, TypeOK
<1>7. \A d \in chunk : d.msg \in stored' \/ d.uid \in blocked
  BY <1>4
<1>8. sync[r].blocked \subseteq blocked
  OBVIOUS
<1> HIDE DEF known, blocked, at
<1>9. /\ s \in Sync /\ s.at = at /\ s.want = sync[r].want /\ s.got = rest /\ s.top = sync[r].top
      /\ s.blocked = blocked /\ s.known = known
      /\ s.cursor = sync[r].cursor /\ s.floor = sync[r].floor /\ s.todo = sync[r].todo
      /\ s.validity = sync[r].validity
  BY <1>1, <1>3, <1>6 DEF Sync, Steps
<1> HIDE DEF s
<1>10. TypeOK' /\ sync'[r] = s /\ \A q \in Runs \ {r} : sync'[q] = sync[q]
  BY <1>1, <1>2, <1>4, <1>5, <1>6, <1>9, Becoming DEF TypeOK
<1>11. /\ Folder(r)' = F /\ At(r)' = at /\ Since(r)' = Since(r) /\ Current(r)' = Current(r)
       /\ validity' = validity /\ uidnext' = uidnext /\ box' = box
  BY <1>2, <1>9, <1>10 DEF Folder, At, server, Since, Current
<1>12. TrustsCursor(r)'
  BY <1>1, <1>6, <1>9, <1>10, <1>11 DEF RunHolds, TrustsCursor, Reads, Scanned, Holds, Safe
<1>13. Selected(r)'
  BY <1>1, <1>3, <1>9, <1>10, <1>11 DEF RunHolds, Selected, Scanned, at
<1>14. Covers(r)'
  <2> SUFFICES ASSUME Current(r), NEW e \in box[F], e.uid <= sync[r].top
               PROVE  \/ e.msg \in stored' \cup Headerless \/ e.day < Since(r)
                      \/ \E d \in rest : d.uid <= e.uid /\ d.msg = e.msg
                      \/ \E u \in blocked : u <= e.uid
    BY <1>9, <1>10, <1>11 DEF Covers, Pending, Safe
  <2>1. Safe(e, Since(r)) \/ Pending(r, e)
    BY <1>1 DEF RunHolds, Covers, Scanned
  <2>2. sync[r].want = {}
    BY <1>1 DEF RunHolds, InHand
  <2> QED
    BY <1>6, <1>7, <1>8, <2>1, <2>2 DEF Pending, Safe
<1>15. InHand(r)' /\ KnowsStored(r)' /\ HasFolder(r)' /\ WantsThese(r)'
  BY <1>1, <1>3, <1>6, <1>9, <1>10, <1>11 DEF InHand, KnowsStored, HasFolder, WantsThese, RunHolds,
     Working, Reads, Scanned, at
<1> QED
  BY <1>2, <1>6, <1>10, <1>12, <1>13, <1>14, <1>15, SyncGoesOn DEF RunHolds

(* The position an advance stores binds only what was settled.             *)
LEMMA AdvanceHolds ==
  ASSUME MailInv, NEW r \in Runs, At(r) = "advance", NEW last \in Positions(sync[r])
  PROVE  Row(sync[r], last) \in Cursor /\ Holds(Row(sync[r], last), Folder(r))
<1> DEFINE F == Folder(r)
           s == sync[r]
           c == Row(s, last)
<1>1. TypeOK /\ s \in Sync /\ RunHolds(r) /\ F \in FolderSet
  BY FolderIsOne DEF MailInv, TypeOK, RunHolds, Working, Reads, Scanned
<1>2. last \in Nat /\ last <= s.top /\ \A u \in s.blocked : last < u
  <2> DEFINE below == {s.top} \cup {u - 1 : u \in s.blocked}
  <2>1. s.top \in Nat /\ s.blocked \subseteq Uids
    BY <1>1 DEF Sync
  <2>2. last \in below /\ \A p \in below : last <= p
    BY DEF Positions
  <2>3. below \subseteq Nat
    BY <2>1 DEF Uids
  <2>4. \A u \in s.blocked : u - 1 \in below
    OBVIOUS
  <2> HIDE DEF below
  <2>5. s.top \in below
    BY DEF below
  <2> HIDE DEF s
  <2>6. ASSUME NEW u \in s.blocked PROVE last < u
    <3>1. u \in Nat /\ last \in Nat /\ last <= u - 1
      BY <2>1, <2>2, <2>3, <2>4 DEF Uids
    <3> QED
      BY <3>1
  <2> QED
    BY <2>2, <2>3, <2>5, <2>6
<1>3. c = [validity |-> s.validity, last |-> last, since |-> Since(r)]
  BY DEF Row, Since
<1>4. c \in Cursor
  BY <1>1, <1>2, <1>3 DEF Cursor, Sync, Since
<1>5. s.validity <= validity[F] /\ (Current(r) => s.top < uidnext[F])
  BY <1>1 DEF RunHolds, Selected, Scanned
<1>6. s.top \in Nat /\ uidnext[F] \in Nat /\ \A e \in box[F] : e.uid \in Nat
  BY <1>1 DEF TypeOK, Sync, Entry, Uids
<1>7. ASSUME Current(r), NEW e \in box[F], e.uid <= last PROVE Safe(e, Since(r))
  <2>1. Safe(e, Since(r)) \/ Pending(r, e)
    BY <1>1, <1>2, <1>6, <1>7 DEF RunHolds, Covers, Scanned
  <2>2. s.want = {} /\ s.got = {}
    BY <1>1 DEF RunHolds, InHand
  <2>3. \A u \in s.blocked : u \in Nat
    BY <1>1 DEF Sync, Uids
  <2> QED
    BY <1>2, <1>6, <1>7, <2>1, <2>2, <2>3 DEF Pending
<1> QED
  BY <1>2, <1>3, <1>4, <1>5, <1>6, <1>7 DEF Holds, Current

LEMMA AdvanceCursorKeeps ==
  ASSUME MailInv, NEW r \in Runs, AdvanceCursor(r)
  PROVE  MailInv'
<1> DEFINE F == Folder(r)
<1>1. TypeOK /\ sync[r] \in Sync /\ RunHolds(r) /\ At(r) = "advance" /\ F \in FolderSet
  BY FolderIsOne DEF MailInv, TypeOK, RunHolds, Working, Reads, Scanned, AdvanceCursor
<1>2. UNCHANGED <<server, stored>> /\ Becomes(r, Onward(sync[r])) /\ (Event \/ Works)
  BY DEF AdvanceCursor
<1>3. \/ cursor' = cursor
      \/ \E last \in Positions(sync[r]) : cursor' = [cursor EXCEPT ![F] = Row(sync[r], last)]
  BY DEF AdvanceCursor
<1>4. cursor' \in [FolderSet -> Cursor \cup {None}]
  BY <1>1, <1>3, AdvanceHolds DEF TypeOK
<1>5. TypeOK' /\ sync'[r] = Onward(sync[r]) /\ \A q \in Runs \ {r} : sync'[q] = sync[q]
  BY <1>1, <1>2, <1>4, OnwardKeeps, Becoming DEF TypeOK
<1>6. RunHolds(r)'
  BY <1>1, <1>2, <1>5, OnwardKeeps, BetweenFolders DEF RunHolds, KnowsStored
<1>7. ASSUME NEW f \in FolderSet, cursor'[f] # cursor[f], cursor'[f] # None
      PROVE  Holds(cursor[f], f)'
  <2>1. PICK last \in Positions(sync[r]) : cursor' = [cursor EXCEPT ![F] = Row(sync[r], last)]
    BY <1>3, <1>7
  <2>2. f = F /\ cursor'[f] = Row(sync[r], last)
    BY <1>1, <1>7, <2>1 DEF TypeOK
  <2>3. Holds(Row(sync[r], last), f)
    BY <1>1, <2>2, AdvanceHolds
  <2>4. validity' = validity /\ uidnext' = uidnext /\ box' = box /\ stored' = stored
    BY <1>2 DEF server
  <2> QED
    BY <2>2, <2>3, <2>4 DEF Holds, Safe
<1> QED
  BY <1>2, <1>5, <1>6, <1>7, SyncGoesOn

LEMMA FolderErrorKeeps ==
  ASSUME MailInv, NEW r \in Runs, FolderError(r)
  PROVE  MailInv'
<1>1. TypeOK /\ sync[r] \in Sync /\ RunHolds(r)
  BY DEF MailInv, TypeOK
<1>2. UNCHANGED <<server, stored, cursor>> /\ Becomes(r, Onward(sync[r])) /\ Event
  BY DEF FolderError
<1>3. TypeOK' /\ sync'[r] = Onward(sync[r]) /\ \A q \in Runs \ {r} : sync'[q] = sync[q]
  BY <1>1, <1>2, OnwardKeeps, Becoming DEF TypeOK
<1>4. RunHolds(r)'
  BY <1>1, <1>2, <1>3, OnwardKeeps, BetweenFolders DEF RunHolds, KnowsStored
<1> QED
  BY <1>2, <1>3, <1>4, SyncGoesOn

LEMMA CrashKeeps ==
  ASSUME MailInv, Crash
  PROVE  MailInv'
<1>1. TypeOK /\ sync' = [r \in Runs |-> Idle] /\ UNCHANGED <<server, stored, cursor>> /\ Event
  BY DEF MailInv, Crash
<1>2. TypeOK'
  BY <1>1, IdleIsSync, EventsTyped DEF TypeOK, server
<1>3. \A r \in Runs : RunHolds(r)'
  BY <1>1, IdleIsSync, BetweenFolders
<1>4. Numbered' /\ CursorsHold'
  BY <1>1 DEF MailInv, Numbered, CursorsHold, Holds, Safe, server
<1> QED
  BY <1>2, <1>3, <1>4 DEF MailInv

LEMMA StepKeeps == MailInv /\ [Next]_vars => MailInv'
<1> SUFFICES ASSUME MailInv, [Next]_vars PROVE MailInv'
  OBVIOUS
<1>1. CASE Server
  BY <1>1, ServerKeeps
<1>2. CASE Crash
  BY <1>2, CrashKeeps
<1>3. ASSUME NEW r \in Runs, Proceed(r) PROVE MailInv'
  BY <1>3, BeginKeeps, ListKeeps, ReadCursorKeeps, ExamineKeeps, SearchKeeps, FetchKeeps,
     StoreKeeps, AdvanceCursorKeeps DEF Proceed
<1>4. ASSUME NEW r \in Runs, FolderError(r) PROVE MailInv'
  BY <1>4, FolderErrorKeeps
<1>5. CASE UNCHANGED vars
  BY <1>5 DEF MailInv, TypeOK, Numbered, CursorsHold, Holds, Safe, RunHolds, KnowsStored, HasFolder,
     TrustsCursor, Selected, Covers, InHand, WantsThese, At, Folder, Current, Since, Pending, vars, server
<1> QED
  BY <1>1, <1>2, <1>3, <1>4, <1>5 DEF Next

------------------------------------------------------------------------------
(* The results.                                                            *)

(* The inductive invariant.                                                *)
THEOREM MailInvariant == Spec => []MailInv
<1>1. Init => MailInv
  BY InitHolds
<1>2. MailInv /\ [Next]_vars => MailInv'
  BY StepKeeps
<1> QED
  BY <1>1, <1>2, PTL DEF Spec

(* Type correctness.                                                       *)
THEOREM TypeCorrect == Spec => []TypeOK
<1>1. MailInv => TypeOK
  BY DEF MailInv
<1> QED
  BY <1>1, MailInvariant, PTL

(* The contract of sync_cursor.py: whatever the server does, whatever step *)
(* fails and however many syncs overlap, a message at or below a cursor of *)
(* its folder's numbering is in the archive, or came before the floor the  *)
(* folder was last seeded from.                                            *)
THEOREM CursorContract == Spec => []PassedIsStored
<1>1. MailInv => PassedIsStored
  BY DEF MailInv, CursorsHold, Holds, Safe, PassedIsStored, Passed
<1> QED
  BY <1>1, MailInvariant, PTL
==============================================================================
