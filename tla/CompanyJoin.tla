----------------------------- MODULE CompanyJoin -----------------------------
(* Joining a company memory: memory/join.py, join_recover.py, join_import.py *)
(* and mnemonic/fence.py.                                                    *)
(*                                                                           *)
(* A profile's .env names the company whose store it writes.  A join moves   *)
(* the profile to another company: it fences the store it leaves, copies it  *)
(* into the other one, accepts the fence, and only then rewrites the .env.   *)
(* A process may die between any two of these transactions; the next boot,   *)
(* or the next join, reads the .env and the fences and finishes the join or  *)
(* undoes it.                                                                *)
(*                                                                           *)
(* A note is whatever a semantic commit adds to a store.  The owner's        *)
(* deletions and restorations, which no fence refuses, change a store's      *)
(* digest and nothing else here.  A store's tables are one value per         *)
(* transaction: a step below is one transaction, or one write of the .env.   *)
EXTENDS Naturals

CONSTANTS
    Companies,      \* the keys, each with its store
    Profiles,
    OwnerOf,        \* the account of a profile; two profiles may share one
    HomeOf,         \* the company a profile starts in
    Processes,
    ProfileOf,      \* the profile a process runs under
    Joiners,        \* the processes that hold the profile lock: daemon, app, memory-join
    Workers,        \* those that do memory work; a memory-status does not
    Asked,          \* the joins the owners ask for, as <<profile, company>>
    Fences,         \* the ids of the join attempts
    IdsOf,          \* those a profile's attempts may take, which are random and so
                    \* never another's: it bounds their number
    Notes,          \* the semantic commits, at most this many
    MaxEdits,       \* bounds the owner's edits of one store
    Disturbances,   \* which of "crash", "failure", "edit", "release", "blocked" happen
    None

ASSUME JoinAssumption ==
    /\ OwnerOf \in [Profiles -> Nat]
    /\ HomeOf \in [Profiles -> Companies]
    /\ ProfileOf \in [Processes -> Profiles]
    /\ Joiners \subseteq Processes /\ Workers \subseteq Processes
    /\ Asked \subseteq Profiles \X Companies
    /\ IdsOf \in [Profiles -> SUBSET Fences]
    /\ \A p, r \in Profiles : p # r => IdsOf[p] \cap IdsOf[r] = {}
    /\ MaxEdits \in Nat
    /\ None \notin Companies \cup Processes \cup Fences

VARIABLES
    key, to, from,      \* .env: MEMORY_KEY, MEMORY_JOIN_TO, MEMORY_JOIN_FROM
    lock,               \* the join lock of each profile
    fence,              \* memory_join_fences, in the store fence[f].store
    receipt,            \* the digest on the receipt join-<f>, in the destination
    notes, edits,       \* what each store holds
    writer,             \* who holds a store's write lock across two steps
    pc, env, bound,     \* a process: its step, os.environ's MEMORY_KEY, its store
    work,               \* the company its unit of memory work was started for
    mine, aim,          \* the fence it works on, the destination of its join
    cutting,            \* it is past its recovery, in _cut_over
    strayed             \* history: a process took another join for its own (Astray)

envVars == <<key, to, from>>
storeVars == <<receipt, notes, edits, writer>>
callVars == <<mine, aim, cutting>>
procVars == <<pc, env, bound, work, callVars>>
vars == <<envVars, lock, fence, storeVars, procVars, strayed>>

Active == {"fenced", "accepted"}
Steps == {"down", "boot", "up", "wait", "recover", "release", "clear to", "place",
          "evaluate", "rest", "announce", "import", "accept", "abandon", "abandon to",
          "persist", "rebind", "complete", "clear from"}
NoFence == [store |-> None, company |-> None, dest |-> None, owner |-> 0, phase |-> "unused"]

Digest(k) == [notes |-> notes[k], edits |-> edits[k]]

Init ==
    /\ key = HomeOf
    /\ to = [p \in Profiles |-> None] /\ from = to
    /\ lock = [p \in Profiles |-> None]
    /\ fence = [f \in Fences |-> NoFence]
    /\ receipt = [f \in Fences |-> None]
    /\ notes = [k \in Companies |-> {}] /\ edits = [k \in Companies |-> 0]
    /\ writer = [k \in Companies |-> None]
    /\ pc = [q \in Processes |-> "down"]
    /\ env = [q \in Processes |-> None] /\ bound = env /\ work = env
    /\ mine = env /\ aim = env
    /\ cutting = [q \in Processes |-> FALSE]
    /\ strayed = FALSE

------------------------------------------------------------------------------
(* Fences and locks.                                                         *)

Goto(q, step) == pc' = [pc EXCEPT ![q] = step]

(* A transaction on a store waits for the store's write lock.                *)
Free(k) == writer[k] = None

ActiveOn(store, company) ==
    {f \in Fences : /\ fence[f].store = store /\ fence[f].company = company
                    /\ fence[f].phase \in Active}

(* _mine, _fences: the fences of this account in the store q is bound to.    *)
MineOn(q, company, phases) ==
    {f \in Fences : /\ fence[f].store = bound[q] /\ fence[f].company = company
                    /\ fence[f].phase \in phases
                    /\ fence[f].owner = OwnerOf[ProfileOf[q]]}

(* fence.move: a compare-and-set on the phase, in the fence's own store.     *)
Move(f, old, new) ==
    /\ Free(fence[f].store)
    /\ fence' = IF fence[f].phase = old THEN [fence EXCEPT ![f].phase = new] ELSE fence

(* The join lock is given back; a process without a join is up and serving.  *)
Leave(q) ==
    /\ lock' = [lock EXCEPT ![ProfileOf[q]] = None]
    /\ Goto(q, "up")
    /\ mine' = [mine EXCEPT ![q] = None]
    /\ aim' = [aim EXCEPT ![q] = None]
    /\ cutting' = [cutting EXCEPT ![q] = FALSE]

------------------------------------------------------------------------------
(* Boot: activate the profile, attach its store, recover if the lock is      *)
(* free.  A second process that needs the profile lock is refused.           *)
Start(q) ==
    LET p == ProfileOf[q] IN
    /\ pc[q] = "down"
    /\ q \in Joiners => \A r \in Joiners : ProfileOf[r] = p => pc[r] = "down"
    /\ env' = [env EXCEPT ![q] = key[p]]
    /\ bound' = [bound EXCEPT ![q] = key[p]]
    /\ Goto(q, "boot")
    /\ UNCHANGED <<envVars, lock, fence, storeVars, work, callVars, strayed>>

(* recover: another process that holds the lock runs a join or its recovery. *)
BootRecovers(q) ==
    LET p == ProfileOf[q] IN
    /\ pc[q] = "boot"
    /\ IF lock[p] = None
       THEN lock' = [lock EXCEPT ![p] = q] /\ Goto(q, "recover")
       ELSE UNCHANGED lock /\ Goto(q, "up")
    /\ UNCHANGED <<envVars, fence, storeVars, env, bound, work, callVars, strayed>>

Unused(p) == {f \in IdsOf[p] : fence[f].phase = "unused"}

(* join: the key named is another one than the process runs with.            *)
Join(q, k) ==
    /\ pc[q] = "up" /\ q \in Joiners /\ Unused(ProfileOf[q]) # {}
    /\ <<ProfileOf[q], k>> \in Asked /\ k # env[q]
    /\ aim' = [aim EXCEPT ![q] = k]
    /\ Goto(q, "wait")
    /\ UNCHANGED <<envVars, lock, fence, storeVars, env, bound, work, mine, cutting, strayed>>

JoinLocks(q) ==
    LET p == ProfileOf[q] IN
    /\ pc[q] = "wait" /\ lock[p] = None
    /\ lock' = [lock EXCEPT ![p] = q]
    /\ Goto(q, "recover")
    /\ UNCHANGED <<envVars, fence, storeVars, env, bound, work, callVars, strayed>>

(* A process that is behind its profile: another one moved it meanwhile, and *)
(* what is left in os.environ, or the store it is bound to, is of a company  *)
(* the profile left.  `strayed` marks the behaviours in which such a process *)
(* recovers or places a fence, or commits into the store it should have      *)
(* left, or in which a recovery goes on with the fence of another profile of *)
(* its account.  The code prevents neither; what it promises of a join, it   *)
(* promises until then.                                                      *)
Astray(q) == env[q] # key[ProfileOf[q]] \/ bound[q] # key[ProfileOf[q]]

(* recover_locked: what the .env on disk says the profile stopped at.        *)
RecoverAfterKey(q) ==
    LET p == ProfileOf[q] IN
    /\ pc[q] = "recover" /\ from[p] # None
    /\ bound' = [bound EXCEPT ![q] = key[p]]
    /\ Goto(q, "complete")
    /\ UNCHANGED <<envVars, lock, fence, storeVars, env, work, callVars, strayed>>

RecoverBeforeKey(q) ==
    LET p == ProfileOf[q]
        held == {f \in MineOn(q, env[q], Active) : fence[f].dest = to[p]} IN
    /\ pc[q] = "recover" /\ from[p] = None /\ to[p] # None
    /\ \/ held = {} /\ Goto(q, "clear to") /\ UNCHANGED mine
          /\ strayed' = (strayed \/ Astray(q))
       \/ \E f \in held :
             /\ mine' = [mine EXCEPT ![q] = f]
             /\ strayed' = (strayed \/ Astray(q) \/ f \notin IdsOf[p])
             /\ Goto(q, IF fence[f].phase = "accepted" THEN "persist"
                        ELSE IF receipt[f] # None THEN "import" ELSE "release")
    /\ UNCHANGED <<envVars, lock, fence, storeVars, env, bound, work, aim, cutting>>

(* After recovery a join goes on, unless the recovery took it where it was   *)
(* going; a boot is over.                                                    *)
Recovered(q) ==
    IF aim[q] = None \/ aim[q] = env[q] THEN Leave(q)
    ELSE /\ Goto(q, "place")
         /\ mine' = [mine EXCEPT ![q] = None]
         /\ cutting' = [cutting EXCEPT ![q] = TRUE]
         /\ UNCHANGED <<lock, aim>>

(* _stray: fences placed by a join that died before it wrote the .env.       *)
RecoverStray(q) ==
    LET p == ProfileOf[q]
        held == MineOn(q, env[q], {"fenced"}) IN
    /\ pc[q] = "recover" /\ from[p] = None /\ to[p] = None
    /\ \/ held = {} /\ Recovered(q) /\ UNCHANGED fence
       \/ \E f \in held : Move(f, "fenced", "released") /\ UNCHANGED <<lock, pc, callVars>>
    /\ UNCHANGED <<envVars, storeVars, env, bound, work, strayed>>

------------------------------------------------------------------------------
(* _cut_over: fence, evaluate, announce, import, accept, persist, complete.  *)

(* fence.place: one active fence per company, or the join is refused.        *)
Place(q) ==
    /\ pc[q] = "place" /\ Free(bound[q])
    /\ \/ /\ ActiveOn(bound[q], env[q]) # {}
          /\ Leave(q) /\ UNCHANGED <<fence, strayed>>
       \/ /\ ActiveOn(bound[q], env[q]) = {}
          /\ \E f \in Unused(ProfileOf[q]) :
                /\ fence' = [fence EXCEPT ![f] =
                     [store |-> bound[q], company |-> env[q], dest |-> aim[q],
                      owner |-> OwnerOf[ProfileOf[q]], phase |-> "fenced"]]
                /\ mine' = [mine EXCEPT ![q] = f]
          /\ Goto(q, "evaluate")
          /\ strayed' = (strayed \/ Astray(q))
          /\ UNCHANGED <<lock, aim, cutting>>
    /\ UNCHANGED <<envVars, storeVars, env, bound, work>>

(* blocking_work: this profile's unsettled operations refuse the cut-over.   *)
Evaluate(q) ==
    /\ pc[q] = "evaluate"
    /\ Goto(q, "announce") \/ ("blocked" \in Disturbances /\ Goto(q, "rest"))
    /\ UNCHANGED <<envVars, lock, fence, storeVars, env, bound, work, callVars, strayed>>

Rest(q) ==
    /\ pc[q] = "rest"
    /\ Move(mine[q], "fenced", "released")
    /\ Leave(q)
    /\ UNCHANGED <<envVars, storeVars, env, bound, work, strayed>>

Announce(q) ==
    /\ pc[q] = "announce"
    /\ to' = [to EXCEPT ![ProfileOf[q]] = aim[q]]
    /\ Goto(q, "import")
    /\ UNCHANGED <<key, from, lock, fence, storeVars, env, bound, work, callVars, strayed>>

(* What the source transaction reads: the rows of the company the process    *)
(* was started with, in the store it is bound to.                            *)
Snapshot(q) ==
    IF env[q] = bound[q] THEN Digest(bound[q]) ELSE [notes |-> {}, edits |-> 0]

(* Mutant: a receipt already there is taken for this snapshot's.             *)
ImportRefusedUnlessFenced(q) ==
    \/ fence[mine[q]].phase # "fenced"
    \/ ActiveOn(fence[mine[q]].dest, fence[mine[q]].dest) # {}

(* _claim, the destination's own fence, a receipt that no longer matches;    *)
(* or one store on both sides, whose write lock cannot be taken twice.       *)
ImportRefused(q) ==
    LET f == mine[q] IN
    \/ fence[f].phase # "fenced"
    \/ fence[f].dest = bound[q]
    \/ ActiveOn(fence[f].dest, fence[f].dest) # {}
    \/ receipt[f] \notin {None, Snapshot(q)}

(* import_into up to the destination's commit.  The source's write lock is   *)
(* kept for the acceptance.                                                  *)
Import(q) ==
    LET f == mine[q]
        k == fence[f].dest IN
    /\ pc[q] = "import" /\ Free(bound[q]) /\ Free(k)
    /\ IF ImportRefused(q)
       THEN Goto(q, IF cutting[q] THEN "abandon" ELSE "release")
            /\ UNCHANGED storeVars
       ELSE /\ IF receipt[f] = None
               THEN /\ receipt' = [receipt EXCEPT ![f] = Snapshot(q)]
                    /\ notes' = [notes EXCEPT ![k] = @ \cup Snapshot(q).notes]
               ELSE UNCHANGED <<receipt, notes>>
            /\ writer' = [writer EXCEPT ![bound[q]] = q]
            /\ Goto(q, "accept")
            /\ UNCHANGED edits
    /\ UNCHANGED <<envVars, lock, fence, env, bound, work, callVars, strayed>>

(* _accept: the source commits the acceptance.                               *)
Accept(q) ==
    /\ pc[q] = "accept"
    /\ fence' = [fence EXCEPT ![mine[q]].phase = "accepted"]
    /\ writer' = [writer EXCEPT ![bound[q]] = None]
    /\ Goto(q, "persist")
    /\ UNCHANGED <<envVars, lock, receipt, notes, edits, env, bound, work, callVars, strayed>>

(* Mutant: the key is written without MEMORY_JOIN_FROM.                      *)
PersistKeyOnly(q) ==
    LET p == ProfileOf[q]
        k == fence[mine[q]].dest IN
    /\ pc[q] = "persist"
    /\ key' = [key EXCEPT ![p] = k]
    /\ to' = [to EXCEPT ![p] = None]
    /\ env' = [env EXCEPT ![q] = k]
    /\ Goto(q, "rebind")
    /\ UNCHANGED <<from, lock, fence, storeVars, bound, work, callVars, strayed>>

(* Mutant: the key of the join asked for, which a recovery does not know.    *)
PersistAsked(q) ==
    LET p == ProfileOf[q] IN
    /\ pc[q] = "persist"
    /\ key' = [key EXCEPT ![p] = aim[q]]
    /\ from' = [from EXCEPT ![p] = env[q]]
    /\ to' = [to EXCEPT ![p] = None]
    /\ env' = [env EXCEPT ![q] = aim[q]]
    /\ Goto(q, "rebind")
    /\ UNCHANGED <<lock, fence, storeVars, bound, work, callVars, strayed>>

(* finish: one write of the .env, which os.environ follows; then the process *)
(* is bound to the new store.                                                *)
Persist(q) ==
    LET p == ProfileOf[q]
        k == fence[mine[q]].dest IN
    /\ pc[q] = "persist"
    /\ key' = [key EXCEPT ![p] = k]
    /\ from' = [from EXCEPT ![p] = env[q]]
    /\ to' = [to EXCEPT ![p] = None]
    /\ env' = [env EXCEPT ![q] = k]
    /\ Goto(q, "rebind")
    /\ UNCHANGED <<lock, fence, storeVars, bound, work, callVars, strayed>>

Rebind(q) ==
    /\ pc[q] = "rebind"
    /\ bound' = [bound EXCEPT ![q] = env[q]]
    /\ Goto(q, "complete")
    /\ UNCHANGED <<envVars, lock, fence, storeVars, env, work, callVars, strayed>>

(* _complete: the fence of this join, or after a restart every accepted one  *)
(* of this account for this move, in the store the profile left.             *)
ToComplete(q) ==
    LET p == ProfileOf[q] IN
    {f \in Fences :
        /\ fence[f].store = from[p] /\ fence[f].phase = "accepted"
        /\ \/ f = mine[q]
           \/ /\ mine[q] = None
              /\ fence[f].company = from[p] /\ fence[f].dest = key[p]
              /\ fence[f].owner = OwnerOf[p]}

Complete(q) ==
    /\ pc[q] = "complete" /\ Free(from[ProfileOf[q]])
    /\ fence' = [f \in Fences |-> IF f \in ToComplete(q)
                                  THEN [fence[f] EXCEPT !.phase = "completed"] ELSE fence[f]]
    /\ strayed' = (strayed \/ ~(ToComplete(q) \subseteq IdsOf[ProfileOf[q]]))
    /\ Goto(q, "clear from")
    /\ UNCHANGED <<envVars, lock, storeVars, env, bound, work, callVars>>

ClearFrom(q) ==
    /\ pc[q] = "clear from"
    /\ from' = [from EXCEPT ![ProfileOf[q]] = None]
    /\ Recovered(q)
    /\ UNCHANGED <<key, to, fence, storeVars, env, bound, work, strayed>>

(* A join that did not cut over: its fence released, MEMORY_JOIN_TO cleared. *)
Release(q) ==
    /\ pc[q] \in {"release", "abandon"}
    /\ Move(mine[q], "fenced", "released")
    /\ Goto(q, IF cutting[q] THEN "abandon to" ELSE "clear to")
    /\ UNCHANGED <<envVars, lock, storeVars, env, bound, work, callVars, strayed>>

ClearTo(q) ==
    /\ pc[q] \in {"clear to", "abandon to"}
    /\ to' = [to EXCEPT ![ProfileOf[q]] = None]
    /\ IF cutting[q] THEN Leave(q) ELSE Recovered(q)
    /\ UNCHANGED <<key, from, fence, storeVars, env, bound, work, strayed>>

------------------------------------------------------------------------------
(* What happens beside a join.                                               *)

(* A call raises: the import is abandoned by the join that runs it; a fence  *)
(* being evaluated is released; anything else is left as it is for the next  *)
(* recovery.  The lock is given back, the process goes on.                   *)
Fail(q) ==
    /\ "failure" \in Disturbances
    /\ pc[q] \notin {"down", "boot", "up", "wait", "rebind"}
    /\ writer' = [k \in Companies |-> IF writer[k] = q THEN None ELSE writer[k]]
    /\ IF cutting[q] /\ pc[q] \in {"evaluate", "announce", "import", "accept", "abandon"}
       THEN Goto(q, IF pc[q] = "evaluate" THEN "rest"
                    ELSE IF pc[q] = "abandon" THEN "abandon to" ELSE "abandon")
            /\ UNCHANGED <<lock, callVars>>
       ELSE Leave(q)
    /\ UNCHANGED <<envVars, fence, receipt, notes, edits, env, bound, work, strayed>>

(* The process ends; the kernel gives back its locks.                        *)
End(q) ==
    LET p == ProfileOf[q] IN
    /\ Goto(q, "down")
    /\ lock' = [lock EXCEPT ![p] = IF @ = q THEN None ELSE @]
    /\ writer' = [k \in Companies |-> IF writer[k] = q THEN None ELSE writer[k]]
    /\ env' = [env EXCEPT ![q] = None] /\ bound' = [bound EXCEPT ![q] = None]
    /\ work' = [work EXCEPT ![q] = None]
    /\ mine' = [mine EXCEPT ![q] = None] /\ aim' = [aim EXCEPT ![q] = None]
    /\ cutting' = [cutting EXCEPT ![q] = FALSE]
    /\ UNCHANGED <<envVars, fence, receipt, notes, edits, strayed>>

Stop(q) == pc[q] = "up" /\ End(q)
Crash(q) == "crash" \in Disturbances /\ pc[q] \notin {"down", "up"} /\ End(q)

(* Mutant: an accepted fence no longer refuses.                              *)
RefusedWhileFenced(q) ==
    \/ \E f \in ActiveOn(bound[q], work[q]) : fence[f].phase = "fenced"
    \/ key[ProfileOf[q]] # work[q]

(* refuse_if_fenced: no active fence on the company, and the .env still      *)
(* names it.                                                                 *)
Refused(q) ==
    \/ ActiveOn(bound[q], work[q]) # {}
    \/ key[ProfileOf[q]] # work[q]

(* A thread of a running process takes the company it works for from the     *)
(* environment, and commits, or is refused, in a later transaction.          *)
Begin(q) ==
    /\ q \in Workers /\ pc[q] \notin {"down", "boot"} /\ work[q] = None
    /\ UNION {notes[k] : k \in Companies} # Notes
    /\ work' = [work EXCEPT ![q] = env[q]]
    /\ UNCHANGED <<envVars, lock, fence, storeVars, pc, env, bound, callVars, strayed>>

Write(q, n) ==
    /\ work[q] # None /\ Free(bound[q])
    /\ \A k \in Companies : n \notin notes[k]
    /\ IF Refused(q) THEN UNCHANGED <<notes, strayed>>
       ELSE /\ notes' = [notes EXCEPT ![bound[q]] = @ \cup {n}]
            /\ strayed' = (strayed \/ (bound[q] # work[q] /\ pc[q] # "rebind"))
    /\ work' = [work EXCEPT ![q] = None]
    /\ UNCHANGED <<envVars, lock, fence, receipt, edits, writer, pc, env, bound, callVars>>

(* /memory delete, /memory reset, restore_version, retention pruning.        *)
Edit(k) ==
    /\ "edit" \in Disturbances /\ Free(k) /\ edits[k] < MaxEdits
    /\ edits' = [edits EXCEPT ![k] = @ + 1]
    /\ UNCHANGED <<envVars, lock, fence, receipt, notes, writer, procVars, strayed>>

(* memory-join --release-fence, by any profile bound to the company.         *)
ReleaseFence(q) ==
    /\ "release" \in Disturbances
    /\ pc[q] = "up" /\ q \in Joiners
    /\ \E f \in ActiveOn(bound[q], env[q]) :
          fence[f].phase = "fenced" /\ Move(f, "fenced", "released")
    /\ UNCHANGED <<envVars, lock, storeVars, procVars, strayed>>

------------------------------------------------------------------------------
Step(q) ==
    \/ BootRecovers(q) \/ JoinLocks(q)
    \/ RecoverAfterKey(q) \/ RecoverBeforeKey(q) \/ RecoverStray(q)
    \/ Place(q) \/ Evaluate(q) \/ Rest(q) \/ Announce(q) \/ Import(q) \/ Accept(q)
    \/ Persist(q) \/ Rebind(q) \/ Complete(q) \/ ClearFrom(q) \/ Release(q) \/ ClearTo(q)

Next ==
    \/ \E q \in Processes :
          \/ Start(q) \/ Step(q) \/ Fail(q) \/ Begin(q) \/ Stop(q) \/ Crash(q) \/ ReleaseFence(q)
          \/ \E k \in Companies : Join(q, k)
          \/ \E n \in Notes : Write(q, n)
    \/ \E k \in Companies : Edit(k)

Spec == Init /\ [][Next]_vars

------------------------------------------------------------------------------
(* What must hold.                                                           *)

(* The type of every variable.                                               *)
TypeOK ==
    LET Keys == Companies \cup {None}
        Digests == [notes: SUBSET Notes, edits: 0..MaxEdits] IN
    /\ key \in [Profiles -> Companies]
    /\ to \in [Profiles -> Keys] /\ from \in [Profiles -> Keys]
    /\ lock \in [Profiles -> Processes \cup {None}]
    /\ fence \in [Fences -> [store: Keys, company: Keys, dest: Keys, owner: Nat,
                             phase: Active \cup {"unused", "completed", "released"}]]
    /\ receipt \in [Fences -> Digests \cup {None}]
    /\ notes \in [Companies -> SUBSET Notes] /\ edits \in [Companies -> 0..MaxEdits]
    /\ writer \in [Companies -> Processes \cup {None}]
    /\ pc \in [Processes -> Steps]
    /\ env \in [Processes -> Keys] /\ bound \in [Processes -> Keys]
    /\ work \in [Processes -> Keys]
    /\ mine \in [Processes -> Fences \cup {None}] /\ aim \in [Processes -> Keys]
    /\ cutting \in [Processes -> BOOLEAN] /\ strayed \in BOOLEAN

(* A fence is accepted for the very content its import copied: nothing       *)
(* changed the source between the copy and the acceptance, whoever makes it, *)
(* and the destination holds the copy.                                       *)
AcceptsWhatItCopied ==
    [][~strayed => \A f \in Fences :
          fence'[f].phase = "accepted" /\ fence[f].phase # "accepted" =>
              /\ receipt[f] = Digest(fence[f].store)
              /\ notes[fence[f].store] \subseteq notes[fence[f].dest]]_vars

(* A profile that moves leaves nothing behind: when its .env names another   *)
(* company, whatever was in the store it leaves is in the one it enters.     *)
NothingLeftBehind ==
    [][~strayed => \A p \in Profiles : notes[key[p]] \subseteq notes'[key'[p]]]_vars

(* An accepted fence refuses every write of its company, whoever makes it,   *)
(* and no release-fence undoes it.  So some process is about to finish that  *)
(* join, or the .env of its profile says so to the next recovery.            *)
Remembers(f) ==
    \/ \E q \in Processes : mine[q] = f
    \/ \E p \in Profiles :
          /\ OwnerOf[p] = fence[f].owner
          /\ \/ key[p] = fence[f].company /\ to[p] = fence[f].dest
             \/ key[p] = fence[f].dest /\ from[p] = fence[f].company

AcceptedIsRemembered ==
    ~strayed => \A f \in Fences : fence[f].phase = "accepted" => Remembers(f)

(* The same without the excuse.                                              *)
AcceptedIsNeverForgotten ==
    \A f \in Fences : fence[f].phase = "accepted" => Remembers(f)

==============================================================================
