--------------------------- MODULE CompanyJoinProofs ---------------------------
(***************************************************************************)
(* What holds of joining companies.  For any companies, profiles,          *)
(* processes and number of joins: the stores, the fences and the settings  *)
(* keep their types, and a fence only moves forward.  The acceptance is    *)
(* the step at stake: it is a transaction of its own, made after the       *)
(* import looked at the fence, and what keeps it from reviving a fence     *)
(* that was released in between is the write lock the import left on the   *)
(* store.                                                                  *)
(*                                                                         *)
(* And of a join, until a process takes another join for its own          *)
(* (strayed): wherever a process dies, the .env tells its next recovery    *)
(* about every accepted fence; what is accepted was copied; and a profile  *)
(* that moves leaves nothing behind.  Neither the number of processes of a *)
(* profile, of its joins or of the profiles of an account is restricted.   *)
(***************************************************************************)
EXTENDS CompanyJoin, TLAPS

(* The steps at which a process works on a fence it placed or found.       *)
OnFence == {"evaluate", "rest", "announce", "import", "accept", "release", "abandon", "persist"}

(* A fence that was placed names its companies.                            *)
Named ==
    \A f \in Fences :
        fence[f].phase # "unused" =>
            /\ fence[f].store \in Companies /\ fence[f].company \in Companies
            /\ fence[f].dest \in Companies

(* A running process has a key and a store, and a join to somewhere.       *)
Attached ==
    \A q \in Processes :
        /\ pc[q] # "down" => env[q] \in Companies /\ bound[q] \in Companies
        /\ pc[q] = "place" => aim[q] \in Companies

(* The fence a process works on is one of the store it is bound to.        *)
Held ==
    \A q \in Processes :
        pc[q] \in OnFence =>
            /\ mine[q] \in Fences
            /\ fence[mine[q]].phase # "unused"
            /\ fence[mine[q]].store = bound[q]

(* Between an import and its acceptance nobody else writes to the store,   *)
(* so the fence is still up.                                               *)
Locked ==
    \A q \in Processes :
        pc[q] = "accept" => writer[bound[q]] = q /\ fence[mine[q]].phase = "fenced"

JoinInv == TypeOK /\ Named /\ Attached /\ Held /\ Locked

(* A fence is accepted only while it is up; one that was released or       *)
(* completed stays so, and an accepted one is only ever completed.         *)
FencesMoveForward ==
    [][\A f \in Fences :
          /\ fence[f].phase \in {"released", "completed"} => fence'[f] = fence[f]
          /\ fence[f].phase = "accepted" => fence'[f].phase \in {"accepted", "completed"}
          /\ fence'[f].phase = "accepted" => fence[f].phase \in {"fenced", "accepted"}]_vars

(* The parts of the type invariant.                                        *)
Keys == Companies \cup {None}
Digests == [notes: SUBSET Notes, edits: 0..MaxEdits]
EnvTypes ==
    key \in [Profiles -> Companies] /\ to \in [Profiles -> Keys] /\ from \in [Profiles -> Keys]
LockTypes == lock \in [Profiles -> Processes \cup {None}]
FenceTypes ==
    fence \in [Fences -> [store: Keys, company: Keys, dest: Keys, owner: Nat,
                          phase: Active \cup {"unused", "completed", "released"}]]
StoreTypes ==
    /\ receipt \in [Fences -> Digests \cup {None}]
    /\ notes \in [Companies -> SUBSET Notes] /\ edits \in [Companies -> 0..MaxEdits]
    /\ writer \in [Companies -> Processes \cup {None}]
PlaceTypes ==
    /\ pc \in [Processes -> Steps]
    /\ env \in [Processes -> Keys] /\ bound \in [Processes -> Keys]
    /\ work \in [Processes -> Keys]
CallTypes ==
    /\ mine \in [Processes -> Fences \cup {None}] /\ aim \in [Processes -> Keys]
    /\ cutting \in [Processes -> BOOLEAN]
StrayTypes == strayed \in BOOLEAN

LEMMA Types ==
    TypeOK <=> /\ EnvTypes /\ LockTypes /\ FenceTypes /\ StoreTypes /\ PlaceTypes /\ CallTypes
               /\ StrayTypes
  BY DEF TypeOK, EnvTypes, LockTypes, FenceTypes, StoreTypes, PlaceTypes, CallTypes, StrayTypes,
         Keys, Digests

LEMMA TypesNext ==
    TypeOK' <=> /\ EnvTypes' /\ LockTypes' /\ FenceTypes' /\ StoreTypes' /\ PlaceTypes'
                /\ CallTypes' /\ StrayTypes'
  BY DEF TypeOK, EnvTypes, LockTypes, FenceTypes, StoreTypes, PlaceTypes, CallTypes, StrayTypes,
         Keys, Digests

(* What a step leaves alone keeps its type.                                *)
LEMMA TypesStay ==
    ASSUME TypeOK
    PROVE  /\ UNCHANGED envVars => EnvTypes'
           /\ UNCHANGED lock => LockTypes'
           /\ UNCHANGED fence => FenceTypes'
           /\ UNCHANGED storeVars => StoreTypes'
           /\ UNCHANGED callVars => CallTypes'
           /\ UNCHANGED strayed => StrayTypes'
  BY Types DEF EnvTypes, LockTypes, FenceTypes, StoreTypes, CallTypes, StrayTypes,
               envVars, storeVars, callVars

(* Giving back the join lock.                                              *)
LEMMA LeavesWell ==
    ASSUME TypeOK, NEW q \in Processes, Leave(q)
    PROVE  /\ LockTypes' /\ CallTypes'
           /\ pc' = [pc EXCEPT ![q] = "up"] /\ pc'[q] = "up"
           /\ \A r \in Processes \ {q} : pc'[r] = pc[r] /\ mine'[r] = mine[r] /\ aim'[r] = aim[r]
  BY Types DEF Leave, Goto, LockTypes, CallTypes, PlaceTypes, Keys

LEMMA GoesTo ==
    ASSUME TypeOK, NEW q \in Processes, NEW s \in Steps, Goto(q, s)
    PROVE  /\ pc' \in [Processes -> Steps] /\ pc'[q] = s
           /\ \A r \in Processes \ {q} : pc'[r] = pc[r]
  BY DEF Goto, TypeOK

LEMMA NoneIsNobody == None \notin Companies /\ None \notin Processes /\ None \notin Fences
  BY JoinAssumption

LEMMA ProfilesOf == ASSUME NEW q \in Processes PROVE ProfileOf[q] \in Profiles
  BY JoinAssumption

------------------------------------------------------------------------------
(* One process steps.  The others keep their place and their locks; what   *)
(* it does to fences leaves alone those that a lock of another one covers; *)
(* and where it goes it finds what it needs.                               *)
LEMMA OwnStep ==
    ASSUME JoinInv, TypeOK', NEW q \in Processes,
           \A r \in Processes \ {q} :
               /\ pc'[r] = pc[r] /\ env'[r] = env[r] /\ bound'[r] = bound[r]
               /\ mine'[r] = mine[r] /\ aim'[r] = aim[r],
           \A k \in Companies : writer'[k] = writer[k] \/ writer[k] \in {None, q},
           \A f \in Fences :
               \/ fence'[f] = fence[f]
               \/ /\ fence[f].phase = "unused"
                  /\ fence'[f].store \in Companies /\ fence'[f].company \in Companies
                  /\ fence'[f].dest \in Companies
               \/ /\ fence[f].phase # "unused" /\ fence'[f].phase # "unused"
                  /\ fence'[f].store = fence[f].store /\ fence'[f].company = fence[f].company
                  /\ fence'[f].dest = fence[f].dest
                  /\ writer[fence[f].store] \in {None, q},
           pc'[q] # "down" => env'[q] \in Companies /\ bound'[q] \in Companies,
           pc'[q] = "place" => aim'[q] \in Companies,
           pc'[q] \in OnFence =>
               /\ mine'[q] \in Fences /\ fence'[mine'[q]].phase # "unused"
               /\ fence'[mine'[q]].store = bound'[q],
           pc'[q] = "accept" => writer'[bound'[q]] = q /\ fence'[mine'[q]].phase = "fenced"
    PROVE  JoinInv'
<1> USE DEF JoinInv
<1>1. Named'
  BY DEF Named
<1>2. Attached'
  BY DEF Attached
<1>3. Held'
  <2>1. SUFFICES ASSUME NEW r \in Processes \ {q}, pc[r] \in OnFence
                 PROVE  /\ mine[r] \in Fences /\ fence'[mine[r]].phase # "unused"
                        /\ fence'[mine[r]].store = bound[r]
    BY DEF Held
  <2>2. mine[r] \in Fences /\ fence[mine[r]].phase # "unused" /\ fence[mine[r]].store = bound[r]
    BY <2>1 DEF Held
  <2> QED
    BY <2>2
<1>4. Locked'
  <2>1. SUFFICES ASSUME NEW r \in Processes \ {q}, pc[r] = "accept"
                 PROVE  writer'[bound[r]] = r /\ fence'[mine[r]].phase = "fenced"
    BY DEF Locked
  <2>2. /\ mine[r] \in Fences /\ fence[mine[r]].phase = "fenced"
        /\ fence[mine[r]].store = bound[r] /\ writer[bound[r]] = r /\ bound[r] \in Companies
    BY <2>1 DEF Held, Locked, Attached, OnFence
  <2>3. writer[bound[r]] \notin {None, q}
    BY <2>1, <2>2, NoneIsNobody
  <2> QED
    BY <2>2, <2>3
<1> QED
  BY <1>1, <1>2, <1>3, <1>4

------------------------------------------------------------------------------
(* The steps of a process that leave the fences alone.                     *)
LEMMA Booting ==
    ASSUME JoinInv, NEW q \in Processes, Start(q) \/ BootRecovers(q)
    PROVE  JoinInv'
<1> USE DEF JoinInv
<1>1. ProfileOf[q] \in Profiles
  BY ProfilesOf
<1>3. CASE Start(q)
  <2>0. TypeOK'
    BY <1>1, <1>3 DEF TypeOK, Start, Goto, Steps, envVars, storeVars, callVars
  <2>1. /\ pc' = [pc EXCEPT ![q] = "boot"] /\ env' = [env EXCEPT ![q] = key[ProfileOf[q]]]
        /\ bound' = [bound EXCEPT ![q] = key[ProfileOf[q]]]
        /\ mine' = mine /\ aim' = aim /\ writer' = writer /\ fence' = fence
    BY <1>3 DEF Start, Goto, storeVars, callVars
  <2>2. pc'[q] = "boot" /\ env'[q] \in Companies /\ bound'[q] \in Companies
    BY <1>1, <2>1 DEF TypeOK
  <2> QED
    BY <2>0, <2>1, <2>2, OwnStep DEF OnFence, TypeOK
<1>4. CASE BootRecovers(q)
  <2>0. TypeOK'
    <3>1. LockTypes' /\ PlaceTypes'
      BY <1>1, <1>4, Types DEF BootRecovers, Goto, Steps, LockTypes, PlaceTypes
    <3> QED
      BY <1>4, <3>1, TypesStay, TypesNext DEF BootRecovers
  <2>1. /\ pc[q] = "boot" /\ pc' \in {[pc EXCEPT ![q] = "recover"], [pc EXCEPT ![q] = "up"]}
        /\ env' = env /\ bound' = bound /\ mine' = mine /\ aim' = aim
        /\ writer' = writer /\ fence' = fence
    BY <1>4 DEF BootRecovers, Goto, storeVars, callVars
  <2>2. pc'[q] \in {"recover", "up"} /\ env[q] \in Companies /\ bound[q] \in Companies
    BY <2>1 DEF TypeOK, Attached
  <2> QED
    BY <2>0, <2>1, <2>2, OwnStep DEF OnFence, TypeOK
<1> QED
  BY <1>3, <1>4

LEMMA Joining ==
    ASSUME JoinInv, NEW q \in Processes, (\E k \in Companies : Join(q, k)) \/ JoinLocks(q)
    PROVE  JoinInv'
<1> USE DEF JoinInv
<1>1. CASE \E k \in Companies : Join(q, k)
  <2>1. PICK k \in Companies : Join(q, k)
    BY <1>1
  <2>2. /\ pc[q] = "up" /\ Goto(q, "wait") /\ aim' = [aim EXCEPT ![q] = k]
        /\ env' = env /\ bound' = bound /\ work' = work /\ mine' = mine /\ cutting' = cutting
        /\ writer' = writer /\ fence' = fence
    BY <2>1 DEF Join, storeVars
  <2>3. /\ pc' \in [Processes -> Steps] /\ pc'[q] = "wait"
        /\ \A r \in Processes \ {q} : pc'[r] = pc[r]
    BY <2>2, GoesTo DEF Steps
  <2>4. CallTypes' /\ PlaceTypes'
    BY <2>2, <2>3, Types DEF CallTypes, PlaceTypes, Keys
  <2>5. TypeOK'
    BY <2>1, <2>4, TypesStay, TypesNext DEF Join
  <2>6. env[q] \in Companies /\ bound[q] \in Companies
    BY <2>2 DEF Attached
  <2> QED
    BY <2>2, <2>3, <2>5, <2>6, OwnStep DEF OnFence, TypeOK
<1>2. CASE JoinLocks(q)
  <2>1. /\ pc[q] = "wait" /\ Goto(q, "recover")
        /\ env' = env /\ bound' = bound /\ work' = work /\ mine' = mine /\ aim' = aim
        /\ writer' = writer /\ fence' = fence
    BY <1>2 DEF JoinLocks, storeVars, callVars
  <2>2. /\ pc' \in [Processes -> Steps] /\ pc'[q] = "recover"
        /\ \A r \in Processes \ {q} : pc'[r] = pc[r]
    BY <2>1, GoesTo DEF Steps
  <2>3. LockTypes' /\ PlaceTypes'
    BY <1>2, <2>1, <2>2, Types, ProfilesOf DEF JoinLocks, LockTypes, PlaceTypes
  <2>4. TypeOK'
    BY <1>2, <2>3, TypesStay, TypesNext DEF JoinLocks
  <2>5. env[q] \in Companies /\ bound[q] \in Companies
    BY <2>1 DEF Attached
  <2> QED
    BY <2>1, <2>2, <2>4, <2>5, OwnStep DEF OnFence
<1> QED
  BY <1>1, <1>2

(* Recovery behind the key rebinds the process; before the key it finds    *)
(* the fence of the join it resumes.                                       *)
LEMMA Recovering ==
    ASSUME JoinInv, NEW q \in Processes, RecoverAfterKey(q) \/ RecoverBeforeKey(q)
    PROVE  JoinInv'
<1> USE DEF JoinInv
<1>0. pc[q] = "recover" /\ env[q] \in Companies /\ bound[q] \in Companies
  BY DEF RecoverAfterKey, RecoverBeforeKey, Attached
<1>1. CASE RecoverAfterKey(q)
  <2>1. /\ Goto(q, "complete") /\ bound' = [bound EXCEPT ![q] = key[ProfileOf[q]]]
        /\ env' = env /\ work' = work /\ mine' = mine /\ aim' = aim
        /\ writer' = writer /\ fence' = fence
    BY <1>1 DEF RecoverAfterKey, storeVars, callVars
  <2>2. /\ pc' \in [Processes -> Steps] /\ pc'[q] = "complete"
        /\ \A r \in Processes \ {q} : pc'[r] = pc[r]
    BY <2>1, GoesTo DEF Steps
  <2>3. bound'[q] \in Companies /\ PlaceTypes'
    BY <2>1, <2>2, Types, ProfilesOf DEF PlaceTypes, EnvTypes, Keys
  <2>4. TypeOK'
    BY <1>1, <2>3, TypesStay, TypesNext DEF RecoverAfterKey
  <2> QED
    BY <1>0, <2>1, <2>2, <2>3, <2>4, OwnStep DEF OnFence, TypeOK
<1>2. CASE RecoverBeforeKey(q)
  <2>0. StrayTypes'
    BY <1>2, Types DEF RecoverBeforeKey, StrayTypes
  <2>1. /\ env' = env /\ bound' = bound /\ work' = work /\ aim' = aim /\ cutting' = cutting
        /\ writer' = writer /\ fence' = fence
    BY <1>2 DEF RecoverBeforeKey, storeVars
  <2>2. \/ Goto(q, "clear to") /\ mine' = mine
        \/ \E f \in MineOn(q, env[q], Active) :
              /\ mine' = [mine EXCEPT ![q] = f]
              /\ Goto(q, "persist") \/ Goto(q, "import") \/ Goto(q, "release")
    BY <1>2 DEF RecoverBeforeKey
  <2>3. CASE Goto(q, "clear to") /\ mine' = mine
    <3>1. /\ pc' \in [Processes -> Steps] /\ pc'[q] = "clear to"
          /\ \A r \in Processes \ {q} : pc'[r] = pc[r]
      BY <2>3, GoesTo DEF Steps
    <3>2. PlaceTypes' /\ CallTypes'
      BY <2>1, <2>3, <3>1, Types DEF PlaceTypes, CallTypes
    <3>3. TypeOK'
      BY <1>2, <2>0, <3>2, TypesStay, TypesNext DEF RecoverBeforeKey
    <3> QED
      BY <1>0, <2>1, <2>3, <3>1, <3>3, OwnStep DEF OnFence
  <2>4. ASSUME NEW f \in MineOn(q, env[q], Active), mine' = [mine EXCEPT ![q] = f],
               Goto(q, "persist") \/ Goto(q, "import") \/ Goto(q, "release")
        PROVE  JoinInv'
    <3>1. f \in Fences /\ fence[f].phase # "unused" /\ fence[f].store = bound[q]
      BY <2>4 DEF MineOn, Active
    <3>2. /\ pc' \in [Processes -> Steps] /\ pc'[q] \in {"persist", "import", "release"}
          /\ \A r \in Processes \ {q} : pc'[r] = pc[r]
      BY <2>4, GoesTo DEF Steps
    <3>3. /\ PlaceTypes' /\ CallTypes' /\ mine'[q] = f
          /\ \A r \in Processes \ {q} : mine'[r] = mine[r]
      BY <2>1, <2>4, <3>1, <3>2, Types DEF PlaceTypes, CallTypes
    <3>4. TypeOK'
      BY <1>2, <2>0, <3>3, TypesStay, TypesNext DEF RecoverBeforeKey
    <3> QED
      BY <1>0, <2>1, <3>1, <3>2, <3>3, <3>4, OwnStep DEF OnFence
  <2> QED
    BY <2>2, <2>3, <2>4
<1> QED
  BY <1>1, <1>2

(* After a recovery the process serves, or goes on to where its join aims. *)
LEMMA RecoveredWell ==
    ASSUME JoinInv, NEW q \in Processes, Recovered(q)
    PROVE  /\ LockTypes' /\ CallTypes' /\ pc' \in [Processes -> Steps]
           /\ pc'[q] \in {"up", "place"} /\ (pc'[q] = "place" => aim'[q] \in Companies)
           /\ \A r \in Processes \ {q} : pc'[r] = pc[r] /\ mine'[r] = mine[r] /\ aim'[r] = aim[r]
<1> USE DEF JoinInv
<1>1. CASE aim[q] = None \/ aim[q] = env[q]
  <2>1. Leave(q)
    BY <1>1 DEF Recovered
  <2>2. pc' = [pc EXCEPT ![q] = "up"]
    BY <2>1 DEF Leave, Goto
  <2>3. pc' \in [Processes -> Steps]
    BY <2>2, GoesTo DEF Goto, Steps
  <2> QED
    BY <2>1, <2>3, LeavesWell
<1>2. CASE ~(aim[q] = None \/ aim[q] = env[q])
  <2>1. /\ Goto(q, "place") /\ mine' = [mine EXCEPT ![q] = None]
        /\ cutting' = [cutting EXCEPT ![q] = TRUE] /\ lock' = lock /\ aim' = aim
    BY <1>2 DEF Recovered
  <2>2. /\ pc' \in [Processes -> Steps] /\ pc'[q] = "place"
        /\ \A r \in Processes \ {q} : pc'[r] = pc[r]
    BY <2>1, GoesTo DEF Steps
  <2>3. aim[q] \in Companies
    BY <1>2, Types DEF CallTypes, Keys
  <2>4. LockTypes' /\ CallTypes'
    BY <2>1, Types DEF LockTypes, CallTypes
  <2> QED
    BY <2>1, <2>2, <2>3, <2>4, Types DEF CallTypes
<1> QED
  BY <1>1, <1>2

------------------------------------------------------------------------------
(* A fence is moved, once no other transaction holds its store.            *)
LEMMA Moving ==
    ASSUME TypeOK, NEW f \in Fences,
           NEW old \in Active, NEW new \in Active \cup {"completed", "released"},
           Move(f, old, new)
    PROVE  /\ FenceTypes'
           /\ \A g \in Fences :
                 \/ fence'[g] = fence[g]
                 \/ /\ g = f /\ fence[g].phase = old /\ fence'[g].phase = new
                    /\ fence'[g].store = fence[g].store /\ fence'[g].company = fence[g].company
                    /\ fence'[g].dest = fence[g].dest
                    /\ writer[fence[g].store] = None
<1>1. fence' = fence \/ (fence[f].phase = old /\ fence' = [fence EXCEPT ![f].phase = new])
  BY DEF Move
<1>2. writer[fence[f].store] = None
  BY DEF Move, Free
<1>3. CASE fence' = fence
  BY <1>3, Types DEF FenceTypes
<1>4. CASE fence[f].phase = old /\ fence' = [fence EXCEPT ![f].phase = new]
  BY <1>2, <1>4, Types DEF FenceTypes, Active
<1> QED
  BY <1>1, <1>3, <1>4

LEMMA Straying ==
    ASSUME JoinInv, NEW q \in Processes, RecoverStray(q)
    PROVE  JoinInv'
<1> USE DEF JoinInv
<1>1. /\ pc[q] = "recover" /\ env[q] \in Companies /\ bound[q] \in Companies
      /\ env' = env /\ bound' = bound /\ work' = work /\ writer' = writer
  BY DEF RecoverStray, Attached, storeVars
<1>2. CASE Recovered(q) /\ fence' = fence
  <2>1. /\ LockTypes' /\ CallTypes' /\ pc' \in [Processes -> Steps]
        /\ pc'[q] \in {"up", "place"} /\ (pc'[q] = "place" => aim'[q] \in Companies)
        /\ \A r \in Processes \ {q} : pc'[r] = pc[r] /\ mine'[r] = mine[r] /\ aim'[r] = aim[r]
    BY <1>2, RecoveredWell
  <2>2. PlaceTypes'
    BY <1>1, <2>1, Types DEF PlaceTypes
  <2>3. TypeOK'
    BY <1>2, <2>1, <2>2, TypesStay, TypesNext DEF RecoverStray
  <2> QED
    BY <1>1, <1>2, <2>1, <2>3, OwnStep DEF OnFence
<1>3. ASSUME NEW f \in MineOn(q, env[q], {"fenced"}), Move(f, "fenced", "released"),
             UNCHANGED <<lock, pc, callVars>>
      PROVE  JoinInv'
  <2>1. f \in Fences
    BY <1>3 DEF MineOn
  <2>2. /\ FenceTypes'
        /\ \A g \in Fences :
              \/ fence'[g] = fence[g]
              \/ /\ fence[g].phase = "fenced" /\ fence'[g].phase = "released"
                 /\ fence'[g].store = fence[g].store /\ fence'[g].company = fence[g].company
                 /\ fence'[g].dest = fence[g].dest
                 /\ writer[fence[g].store] = None
    BY <1>3, <2>1, Moving DEF Active
  <2>3. pc' = pc /\ mine' = mine /\ aim' = aim
    BY <1>3 DEF callVars
  <2>4. PlaceTypes' /\ LockTypes'
    BY <1>1, <1>3, <2>3, Types DEF PlaceTypes, LockTypes
  <2>5. TypeOK'
    BY <1>3, <2>2, <2>4, TypesStay, TypesNext DEF RecoverStray
  <2> QED
    BY <1>1, <2>2, <2>3, <2>5, OwnStep DEF OnFence
<1> QED
  BY <1>2, <1>3 DEF RecoverStray

LEMMA Placing ==
    ASSUME JoinInv, NEW q \in Processes, Place(q)
    PROVE  JoinInv'
<1> USE DEF JoinInv
<1>s. StrayTypes'
  BY Types DEF Place, StrayTypes
<1>1. /\ pc[q] = "place" /\ env[q] \in Companies /\ bound[q] \in Companies
      /\ aim[q] \in Companies
      /\ env' = env /\ bound' = bound /\ work' = work /\ writer' = writer
  BY DEF Place, Attached, storeVars
<1>2. CASE Leave(q) /\ fence' = fence
  <2>1. /\ LockTypes' /\ CallTypes' /\ pc' = [pc EXCEPT ![q] = "up"] /\ pc'[q] = "up"
        /\ \A r \in Processes \ {q} : pc'[r] = pc[r] /\ mine'[r] = mine[r] /\ aim'[r] = aim[r]
    BY <1>2, LeavesWell
  <2>2. PlaceTypes'
    BY <1>1, <2>1, Types DEF PlaceTypes, Steps
  <2>3. TypeOK'
    BY <1>s, <1>2, <2>1, <2>2, TypesStay, TypesNext DEF Place
  <2> QED
    BY <1>1, <1>2, <2>1, <2>3, OwnStep DEF OnFence
<1>3. ASSUME NEW f \in Unused(ProfileOf[q]),
             fence' = [fence EXCEPT ![f] =
                 [store |-> bound[q], company |-> env[q], dest |-> aim[q],
                  owner |-> OwnerOf[ProfileOf[q]], phase |-> "fenced"]],
             mine' = [mine EXCEPT ![q] = f], Goto(q, "evaluate"),
             UNCHANGED <<lock, aim, cutting>>
      PROVE  JoinInv'
  <2>1. f \in Fences /\ fence[f].phase = "unused"
    BY <1>3, ProfilesOf, JoinAssumption DEF Unused
  <2>2. OwnerOf[ProfileOf[q]] \in Nat
    BY ProfilesOf, JoinAssumption
  <2>3. /\ pc' \in [Processes -> Steps] /\ pc'[q] = "evaluate"
        /\ \A r \in Processes \ {q} : pc'[r] = pc[r]
    BY <1>3, GoesTo DEF Steps
  <2>4. FenceTypes'
    BY <1>1, <1>3, <2>1, <2>2, Types DEF FenceTypes, Active, Keys
  <2>5. /\ PlaceTypes' /\ CallTypes' /\ mine'[q] = f
        /\ \A r \in Processes \ {q} : mine'[r] = mine[r]
    BY <1>1, <1>3, <2>1, <2>3, Types DEF PlaceTypes, CallTypes
  <2>6. TypeOK'
    BY <1>s, <1>3, <2>4, <2>5, TypesStay, TypesNext DEF Place
  <2>7. /\ fence'[f].phase = "fenced" /\ fence'[f].store = bound[q]
        /\ fence'[f].company = env[q] /\ fence'[f].dest = aim[q]
        /\ \A g \in Fences \ {f} : fence'[g] = fence[g]
    BY <1>3, <2>1, Types DEF FenceTypes
  <2> QED
    BY <1>1, <1>3, <2>1, <2>3, <2>5, <2>6, <2>7, OwnStep DEF OnFence
<1> QED
  BY <1>2, <1>3 DEF Place

(* The steps of a cut-over that leave the fences alone.                    *)
LEMMA CuttingOver ==
    ASSUME JoinInv, NEW q \in Processes, Evaluate(q) \/ Announce(q)
    PROVE  JoinInv'
<1> USE DEF JoinInv
<1>s. StrayTypes'
  BY Types DEF Evaluate, Announce, StrayTypes
<1>1. /\ pc[q] \in {"evaluate", "announce"}
      /\ Goto(q, "announce") \/ Goto(q, "rest") \/ Goto(q, "import")
      /\ env' = env /\ bound' = bound /\ work' = work /\ writer' = writer /\ fence' = fence
      /\ mine' = mine /\ aim' = aim
      /\ UNCHANGED <<lock, fence, storeVars, callVars>>
  BY DEF Evaluate, Announce, storeVars, callVars
<1>2. /\ pc' \in [Processes -> Steps] /\ pc'[q] \in {"announce", "rest", "import"}
      /\ \A r \in Processes \ {q} : pc'[r] = pc[r]
  BY <1>1, GoesTo DEF Steps
<1>3. PlaceTypes'
  BY <1>1, <1>2, Types DEF PlaceTypes
<1>4. EnvTypes'
  BY ProfilesOf, Types DEF Evaluate, Announce, EnvTypes, CallTypes, Keys, envVars
<1>5. TypeOK'
  BY <1>s, <1>1, <1>3, <1>4, TypesStay, TypesNext
<1>6. /\ env[q] \in Companies /\ bound[q] \in Companies
      /\ mine[q] \in Fences /\ fence[mine[q]].phase # "unused"
      /\ fence[mine[q]].store = bound[q]
  BY <1>1 DEF Attached, Held, OnFence
<1> QED
  BY <1>1, <1>2, <1>5, <1>6, OwnStep DEF OnFence

(* A fence that did not lead to an acceptance is released.                 *)
LEMMA Releasing ==
    ASSUME JoinInv, NEW q \in Processes, Rest(q) \/ Release(q)
    PROVE  JoinInv'
<1> USE DEF JoinInv
<1>s. StrayTypes'
  BY Types DEF Rest, Release, StrayTypes
<1>1. /\ pc[q] \in {"rest", "release", "abandon"} /\ Move(mine[q], "fenced", "released")
      /\ env' = env /\ bound' = bound /\ work' = work /\ writer' = writer
      /\ UNCHANGED <<envVars, storeVars>>
  BY DEF Rest, Release, storeVars
<1>2. env[q] \in Companies /\ bound[q] \in Companies /\ mine[q] \in Fences
  BY <1>1 DEF Attached, Held, OnFence
<1>3. /\ FenceTypes'
      /\ \A g \in Fences :
            \/ fence'[g] = fence[g]
            \/ /\ fence[g].phase = "fenced" /\ fence'[g].phase = "released"
               /\ fence'[g].store = fence[g].store /\ fence'[g].company = fence[g].company
               /\ fence'[g].dest = fence[g].dest
               /\ writer[fence[g].store] = None
  BY <1>1, <1>2, Moving DEF Active
<1>4. /\ LockTypes' /\ CallTypes' /\ pc' \in [Processes -> Steps]
      /\ pc'[q] \in {"up", "abandon to", "clear to"}
      /\ \A r \in Processes \ {q} : pc'[r] = pc[r] /\ mine'[r] = mine[r] /\ aim'[r] = aim[r]
  <2>1. CASE Leave(q)
    <3>1. /\ LockTypes' /\ CallTypes' /\ pc' = [pc EXCEPT ![q] = "up"] /\ pc'[q] = "up"
          /\ \A r \in Processes \ {q} : /\ pc'[r] = pc[r] /\ mine'[r] = mine[r]
                                         /\ aim'[r] = aim[r]
      BY <2>1, LeavesWell
    <3> QED
      BY <3>1, GoesTo DEF Goto, Steps
  <2>2. CASE Release(q)
    <3>1. /\ Goto(q, "abandon to") \/ Goto(q, "clear to")
          /\ mine' = mine /\ aim' = aim /\ UNCHANGED <<lock, callVars>>
      BY <2>2 DEF Release, callVars
    <3>2. /\ pc' \in [Processes -> Steps] /\ pc'[q] \in {"abandon to", "clear to"}
          /\ \A r \in Processes \ {q} : pc'[r] = pc[r]
      BY <3>1, GoesTo DEF Steps
    <3> QED
      BY <3>1, <3>2, TypesStay
  <2> QED
    BY <2>1, <2>2 DEF Rest
<1>5. PlaceTypes'
  BY <1>1, <1>4, Types DEF PlaceTypes
<1>6. TypeOK'
  BY <1>s, <1>1, <1>3, <1>4, <1>5, TypesStay, TypesNext
<1> QED
  BY <1>1, <1>2, <1>3, <1>4, <1>6, OwnStep DEF OnFence

------------------------------------------------------------------------------
(* The import and the acceptance: two transactions under one write lock.   *)
LEMMA SnapshotType ==
    ASSUME TypeOK, NEW q \in Processes, bound[q] \in Companies
    PROVE  Snapshot(q) \in Digests
<1>1. notes[bound[q]] \in SUBSET Notes /\ edits[bound[q]] \in 0..MaxEdits
  BY Types DEF StoreTypes
<1>2. 0 \in 0..MaxEdits
  BY JoinAssumption
<1> QED
  BY <1>1, <1>2 DEF Snapshot, Digest, Digests

LEMMA Importing ==
    ASSUME JoinInv, NEW q \in Processes, Import(q)
    PROVE  JoinInv'
<1> USE DEF JoinInv
<1>s. StrayTypes'
  BY Types DEF Import, StrayTypes
<1>1. /\ pc[q] = "import" /\ Free(bound[q])
      /\ env' = env /\ bound' = bound /\ work' = work /\ fence' = fence
      /\ mine' = mine /\ aim' = aim
      /\ UNCHANGED <<envVars, lock, fence, callVars>>
  BY DEF Import, callVars
<1>2. /\ env[q] \in Companies /\ bound[q] \in Companies /\ mine[q] \in Fences
      /\ fence[mine[q]].phase # "unused" /\ fence[mine[q]].store = bound[q]
      /\ fence[mine[q]].dest \in Companies
  BY <1>1 DEF Attached, Held, Named, OnFence
<1>3. CASE ImportRefused(q)
  <2>1. (Goto(q, "abandon") \/ Goto(q, "release")) /\ UNCHANGED storeVars
    BY <1>3 DEF Import
  <2>2. /\ pc' \in [Processes -> Steps] /\ pc'[q] \in {"abandon", "release"}
        /\ \A r \in Processes \ {q} : pc'[r] = pc[r]
    BY <2>1, GoesTo DEF Steps
  <2>3. PlaceTypes'
    BY <1>1, <2>2, Types DEF PlaceTypes
  <2>4. TypeOK'
    BY <1>s, <1>1, <2>1, <2>3, TypesStay, TypesNext
  <2>5. writer' = writer
    BY <2>1 DEF storeVars
  <2> QED
    BY <1>1, <1>2, <2>2, <2>4, <2>5, OwnStep DEF OnFence
<1>4. CASE ~ImportRefused(q)
  <2>1. /\ writer' = [writer EXCEPT ![bound[q]] = q] /\ Goto(q, "accept") /\ edits' = edits
        /\ \/ /\ receipt' = [receipt EXCEPT ![mine[q]] = Snapshot(q)]
              /\ notes' = [notes EXCEPT ![fence[mine[q]].dest] =
                             notes[fence[mine[q]].dest] \cup Snapshot(q).notes]
           \/ receipt' = receipt /\ notes' = notes
    BY <1>4 DEF Import
  <2>2. /\ pc' \in [Processes -> Steps] /\ pc'[q] = "accept"
        /\ \A r \in Processes \ {q} : pc'[r] = pc[r]
    BY <2>1, GoesTo DEF Steps
  <2>3. PlaceTypes'
    BY <1>1, <2>2, Types DEF PlaceTypes
  <2>4. Snapshot(q) \in Digests /\ Snapshot(q).notes \in SUBSET Notes
    BY <1>2, SnapshotType DEF Digests
  <2>5. receipt' \in [Fences -> Digests \cup {None}]
    BY <1>2, <2>1, <2>4, Types DEF StoreTypes
  <2>6. notes' \in [Companies -> SUBSET Notes]
    BY <1>2, <2>1, <2>4, Types DEF StoreTypes
  <2>7. /\ writer' \in [Companies -> Processes \cup {None}] /\ writer'[bound[q]] = q
        /\ \A k \in Companies : writer'[k] = writer[k] \/ writer[k] \in {None, q}
    BY <1>1, <1>2, <2>1, Types DEF StoreTypes, Free
  <2>8. StoreTypes'
    BY <2>1, <2>5, <2>6, <2>7, Types DEF StoreTypes
  <2>9. TypeOK'
    BY <1>s, <1>1, <2>3, <2>8, TypesStay, TypesNext
  <2>10. fence[mine[q]].phase = "fenced"
    BY <1>4 DEF ImportRefused
  <2> QED
    BY <1>1, <1>2, <2>2, <2>7, <2>9, <2>10, OwnStep DEF OnFence
<1> QED
  BY <1>3, <1>4

LEMMA Accepting ==
    ASSUME JoinInv, NEW q \in Processes, Accept(q)
    PROVE  JoinInv'
<1> USE DEF JoinInv
<1>s. StrayTypes'
  BY Types DEF Accept, StrayTypes
<1>1. /\ pc[q] = "accept" /\ Goto(q, "persist")
      /\ fence' = [fence EXCEPT ![mine[q]].phase = "accepted"]
      /\ writer' = [writer EXCEPT ![bound[q]] = None]
      /\ receipt' = receipt /\ notes' = notes /\ edits' = edits
      /\ env' = env /\ bound' = bound /\ work' = work /\ mine' = mine /\ aim' = aim
      /\ UNCHANGED <<envVars, lock, callVars>>
  BY DEF Accept, callVars
<1>2. /\ env[q] \in Companies /\ bound[q] \in Companies /\ mine[q] \in Fences
      /\ fence[mine[q]].phase = "fenced" /\ fence[mine[q]].store = bound[q]
      /\ writer[bound[q]] = q
  BY <1>1 DEF Attached, Held, Locked, OnFence
<1>3. /\ pc' \in [Processes -> Steps] /\ pc'[q] = "persist"
      /\ \A r \in Processes \ {q} : pc'[r] = pc[r]
  BY <1>1, GoesTo DEF Steps
<1>4. PlaceTypes'
  BY <1>1, <1>3, Types DEF PlaceTypes
<1>5. /\ FenceTypes' /\ fence'[mine[q]].phase = "accepted"
      /\ fence'[mine[q]].store = fence[mine[q]].store
      /\ fence'[mine[q]].company = fence[mine[q]].company
      /\ fence'[mine[q]].dest = fence[mine[q]].dest
      /\ \A f \in Fences \ {mine[q]} : fence'[f] = fence[f]
  BY <1>1, <1>2, Types DEF FenceTypes, Active
<1>6. /\ StoreTypes'
      /\ \A k \in Companies : writer'[k] = writer[k] \/ writer[k] \in {None, q}
  BY <1>1, <1>2, Types DEF StoreTypes
<1>7. TypeOK'
  BY <1>s, <1>1, <1>4, <1>5, <1>6, TypesStay, TypesNext
<1> QED
  BY <1>1, <1>2, <1>3, <1>5, <1>6, <1>7, OwnStep DEF OnFence

------------------------------------------------------------------------------
(* The key, the rebind, the completion.                                    *)
LEMMA Finishing ==
    ASSUME JoinInv, NEW q \in Processes, Persist(q) \/ Rebind(q)
    PROVE  JoinInv'
<1> USE DEF JoinInv
<1>s. StrayTypes'
  BY Types DEF Persist, Rebind, StrayTypes
<1>0. env[q] \in Companies /\ bound[q] \in Companies
  BY DEF Persist, Rebind, Attached
<1>1. CASE Persist(q)
  <2>1. /\ pc[q] = "persist" /\ Goto(q, "rebind")
        /\ env' = [env EXCEPT ![q] = fence[mine[q]].dest]
        /\ bound' = bound /\ work' = work /\ fence' = fence /\ writer' = writer
        /\ mine' = mine /\ aim' = aim
        /\ UNCHANGED <<lock, fence, storeVars, callVars>>
    BY <1>1 DEF Persist, storeVars, callVars
  <2>2. fence[mine[q]].dest \in Companies
    BY <2>1 DEF Held, Named, OnFence
  <2>3. /\ pc' \in [Processes -> Steps] /\ pc'[q] = "rebind"
        /\ \A r \in Processes \ {q} : pc'[r] = pc[r]
    BY <2>1, GoesTo DEF Steps
  <2>4. PlaceTypes' /\ env'[q] \in Companies /\ \A r \in Processes \ {q} : env'[r] = env[r]
    BY <2>1, <2>2, <2>3, Types DEF PlaceTypes, Keys
  <2>5. EnvTypes'
    BY <1>0, <1>1, <2>2, ProfilesOf, Types DEF Persist, EnvTypes, Keys
  <2>6. TypeOK'
    BY <1>s, <2>1, <2>4, <2>5, TypesStay, TypesNext
  <2> QED
    BY <1>0, <2>1, <2>3, <2>4, <2>6, OwnStep DEF OnFence
<1>2. CASE Rebind(q)
  <2>1. /\ Goto(q, "complete") /\ bound' = [bound EXCEPT ![q] = env[q]]
        /\ env' = env /\ work' = work /\ fence' = fence /\ writer' = writer
        /\ mine' = mine /\ aim' = aim
        /\ UNCHANGED <<envVars, lock, fence, storeVars, callVars>>
    BY <1>2 DEF Rebind, storeVars, callVars
  <2>2. /\ pc' \in [Processes -> Steps] /\ pc'[q] = "complete"
        /\ \A r \in Processes \ {q} : pc'[r] = pc[r]
    BY <2>1, GoesTo DEF Steps
  <2>3. /\ PlaceTypes' /\ bound'[q] \in Companies
        /\ \A r \in Processes \ {q} : bound'[r] = bound[r]
    BY <1>0, <2>1, <2>2, Types DEF PlaceTypes
  <2>4. TypeOK'
    BY <1>s, <2>1, <2>3, TypesStay, TypesNext
  <2> QED
    BY <1>0, <2>1, <2>2, <2>3, <2>4, OwnStep DEF OnFence
<1> QED
  BY <1>1, <1>2

LEMMA Completed ==
    ASSUME JoinInv, NEW q \in Processes, Complete(q)
    PROVE  /\ FenceTypes'
           /\ \A f \in Fences :
                 \/ fence'[f] = fence[f]
                 \/ /\ fence[f].phase = "accepted" /\ fence'[f].phase = "completed"
                    /\ fence'[f].store = fence[f].store /\ fence'[f].company = fence[f].company
                    /\ fence'[f].dest = fence[f].dest
                    /\ writer[fence[f].store] = None
<1>1. /\ fence \in [Fences -> [store: Keys, company: Keys, dest: Keys, owner: Nat,
                              phase: Active \cup {"unused", "completed", "released"}]]
      /\ writer[from[ProfileOf[q]]] = None
      /\ fence' = [f \in Fences |-> IF f \in ToComplete(q)
                                    THEN [fence[f] EXCEPT !.phase = "completed"] ELSE fence[f]]
  BY Types DEF Complete, Free, FenceTypes, JoinInv
<1>2. ASSUME NEW f \in Fences
      PROVE  \/ fence'[f] = fence[f]
             \/ /\ fence[f].phase = "accepted"
                /\ fence'[f] = [fence[f] EXCEPT !.phase = "completed"]
                /\ writer[fence[f].store] = None
  BY <1>1 DEF ToComplete
<1>3. FenceTypes'
  BY <1>1 DEF FenceTypes
<1>4. ASSUME NEW f \in Fences, fence'[f] = [fence[f] EXCEPT !.phase = "completed"]
      PROVE  /\ fence'[f].phase = "completed" /\ fence'[f].store = fence[f].store
             /\ fence'[f].company = fence[f].company /\ fence'[f].dest = fence[f].dest
  BY <1>1, <1>4
<1> QED
  BY <1>2, <1>3, <1>4

LEMMA Completing ==
    ASSUME JoinInv, NEW q \in Processes, Complete(q)
    PROVE  JoinInv'
<1> USE DEF JoinInv
<1>s. StrayTypes'
  BY Types DEF Complete, StrayTypes
<1>1. /\ pc[q] = "complete" /\ Goto(q, "clear from")
      /\ env' = env /\ bound' = bound /\ work' = work /\ writer' = writer
      /\ mine' = mine /\ aim' = aim
      /\ UNCHANGED <<envVars, lock, storeVars, callVars>>
  BY DEF Complete, storeVars, callVars
<1>2. env[q] \in Companies /\ bound[q] \in Companies
  BY <1>1 DEF Attached
<1>3. /\ pc' \in [Processes -> Steps] /\ pc'[q] = "clear from"
      /\ \A r \in Processes \ {q} : pc'[r] = pc[r]
  BY <1>1, GoesTo DEF Steps
<1>4. PlaceTypes'
  BY <1>1, <1>3, Types DEF PlaceTypes
<1>5. TypeOK'
  BY <1>s, <1>1, <1>4, Completed, TypesStay, TypesNext
<1> QED
  BY <1>1, <1>2, <1>3, <1>5, Completed, OwnStep DEF OnFence

LEMMA Clearing ==
    ASSUME JoinInv, NEW q \in Processes, ClearFrom(q) \/ ClearTo(q)
    PROVE  JoinInv'
<1> USE DEF JoinInv
<1>s. StrayTypes'
  BY Types DEF ClearFrom, ClearTo, StrayTypes
<1>1. /\ pc[q] \in {"clear from", "clear to", "abandon to"}
      /\ Leave(q) \/ Recovered(q)
      /\ env' = env /\ bound' = bound /\ work' = work /\ writer' = writer /\ fence' = fence
      /\ UNCHANGED <<fence, storeVars>>
  BY DEF ClearFrom, ClearTo, storeVars
<1>2. env[q] \in Companies /\ bound[q] \in Companies
  BY DEF ClearFrom, ClearTo, Attached
<1>3. /\ LockTypes' /\ CallTypes' /\ pc' \in [Processes -> Steps]
      /\ pc'[q] \in {"up", "place"} /\ (pc'[q] = "place" => aim'[q] \in Companies)
      /\ \A r \in Processes \ {q} : pc'[r] = pc[r] /\ mine'[r] = mine[r] /\ aim'[r] = aim[r]
  <2>1. CASE Leave(q)
    <3>1. /\ LockTypes' /\ CallTypes' /\ pc' = [pc EXCEPT ![q] = "up"] /\ pc'[q] = "up"
          /\ \A r \in Processes \ {q} : /\ pc'[r] = pc[r] /\ mine'[r] = mine[r]
                                         /\ aim'[r] = aim[r]
      BY <2>1, LeavesWell
    <3> QED
      BY <3>1, GoesTo DEF Goto, Steps
  <2>2. CASE Recovered(q)
    BY <2>2, RecoveredWell
  <2> QED
    BY <1>1, <2>1, <2>2 DEF ClearFrom, ClearTo
<1>4. PlaceTypes'
  BY <1>1, <1>3, Types DEF PlaceTypes
<1>5. EnvTypes'
  BY ProfilesOf, Types DEF ClearFrom, ClearTo, EnvTypes, Keys
<1>6. TypeOK'
  BY <1>s, <1>1, <1>3, <1>4, <1>5, TypesStay, TypesNext
<1> QED
  BY <1>1, <1>2, <1>3, <1>6, OwnStep DEF OnFence

------------------------------------------------------------------------------
(* Beside a join: a call that raises, the end of a process, memory work,   *)
(* the owner's edits and fences released by hand.                          *)
LEMMA Failing ==
    ASSUME JoinInv, NEW q \in Processes, Fail(q)
    PROVE  JoinInv'
<1> USE DEF JoinInv
<1>s. StrayTypes'
  BY Types DEF Fail, StrayTypes
<1>1. /\ pc[q] # "down" /\ env' = env /\ bound' = bound /\ work' = work /\ fence' = fence
      /\ receipt' = receipt /\ notes' = notes /\ edits' = edits
      /\ writer' = [k \in Companies |-> IF writer[k] = q THEN None ELSE writer[k]]
      /\ UNCHANGED <<envVars, fence>>
  BY DEF Fail
<1>2. env[q] \in Companies /\ bound[q] \in Companies
  BY <1>1 DEF Attached
<1>3. StoreTypes' /\ \A k \in Companies : writer'[k] = writer[k] \/ writer[k] \in {None, q}
  BY <1>1, Types DEF StoreTypes
<1>4. CASE Leave(q)
  <2>1. /\ LockTypes' /\ CallTypes' /\ pc' = [pc EXCEPT ![q] = "up"] /\ pc'[q] = "up"
        /\ \A r \in Processes \ {q} : pc'[r] = pc[r] /\ mine'[r] = mine[r] /\ aim'[r] = aim[r]
    BY <1>4, LeavesWell
  <2>2. PlaceTypes'
    BY <1>1, <2>1, Types DEF PlaceTypes, Steps
  <2>3. TypeOK'
    BY <1>s, <1>1, <1>3, <2>1, <2>2, TypesStay, TypesNext
  <2> QED
    BY <1>1, <1>2, <1>3, <2>1, <2>3, OwnStep DEF OnFence
<1>5. CASE /\ pc[q] \in {"evaluate", "announce", "import", "accept", "abandon"}
           /\ Goto(q, "rest") \/ Goto(q, "abandon to") \/ Goto(q, "abandon")
           /\ UNCHANGED <<lock, callVars>>
  <2>1. /\ mine[q] \in Fences /\ fence[mine[q]].phase # "unused"
        /\ fence[mine[q]].store = bound[q] /\ mine' = mine /\ aim' = aim
    BY <1>5 DEF Held, OnFence, callVars
  <2>2. /\ pc' \in [Processes -> Steps] /\ pc'[q] \in {"rest", "abandon to", "abandon"}
        /\ \A r \in Processes \ {q} : pc'[r] = pc[r]
    BY <1>5, GoesTo DEF Steps
  <2>3. PlaceTypes'
    BY <1>1, <2>2, Types DEF PlaceTypes
  <2>4. TypeOK'
    BY <1>s, <1>1, <1>3, <1>5, <2>3, TypesStay, TypesNext
  <2> QED
    BY <1>1, <1>2, <1>3, <2>1, <2>2, <2>4, OwnStep DEF OnFence
<1> QED
  BY <1>4, <1>5 DEF Fail

LEMMA Ending ==
    ASSUME JoinInv, NEW q \in Processes, Stop(q) \/ Crash(q)
    PROVE  JoinInv'
<1> USE DEF JoinInv
<1>0. End(q)
  BY DEF Stop, Crash
<1>s. StrayTypes'
  BY <1>0, Types DEF End, StrayTypes
<1>1. /\ Goto(q, "down")
      /\ lock' = [lock EXCEPT ![ProfileOf[q]] = IF @ = q THEN None ELSE @]
      /\ writer' = [k \in Companies |-> IF writer[k] = q THEN None ELSE writer[k]]
      /\ env' = [env EXCEPT ![q] = None] /\ bound' = [bound EXCEPT ![q] = None]
      /\ work' = [work EXCEPT ![q] = None]
      /\ mine' = [mine EXCEPT ![q] = None] /\ aim' = [aim EXCEPT ![q] = None]
      /\ cutting' = [cutting EXCEPT ![q] = FALSE]
      /\ fence' = fence /\ receipt' = receipt /\ notes' = notes /\ edits' = edits
      /\ UNCHANGED <<envVars, fence>>
  BY <1>0 DEF End
<1>2. /\ pc' \in [Processes -> Steps] /\ pc'[q] = "down"
      /\ \A r \in Processes \ {q} : pc'[r] = pc[r]
  BY <1>1, GoesTo DEF Steps
<1>3. StoreTypes' /\ \A k \in Companies : writer'[k] = writer[k] \/ writer[k] \in {None, q}
  BY <1>1, Types DEF StoreTypes
<1>4. LockTypes' /\ CallTypes'
  BY <1>1, Types DEF LockTypes, CallTypes, Keys
<1>5. /\ PlaceTypes'
      /\ \A r \in Processes \ {q} : /\ env'[r] = env[r] /\ bound'[r] = bound[r]
                                     /\ mine'[r] = mine[r] /\ aim'[r] = aim[r]
  BY <1>1, <1>2, Types DEF PlaceTypes, CallTypes, Keys
<1>6. TypeOK'
  BY <1>s, <1>1, <1>3, <1>4, <1>5, TypesStay, TypesNext
<1> QED
  BY <1>1, <1>2, <1>3, <1>5, <1>6, OwnStep DEF OnFence

(* A step that moves no process and touches no fence or lock.              *)
LEMMA Aside ==
    ASSUME JoinInv, TypeOK', UNCHANGED <<fence, writer, pc, env, bound, mine, aim>>
    PROVE  JoinInv'
  BY DEF JoinInv, Named, Attached, Held, Locked

LEMMA Working ==
    ASSUME JoinInv, NEW q \in Processes, Begin(q) \/ \E n \in Notes : Write(q, n)
    PROVE  JoinInv'
<1> USE DEF JoinInv
<1>1. CASE Begin(q)
  <2>1. PlaceTypes'
    BY <1>1, Types DEF Begin, PlaceTypes
  <2>2. TypeOK'
    BY <1>1, <2>1, TypesStay, TypesNext DEF Begin
  <2> QED
    BY <1>1, <2>2, Aside DEF Begin, storeVars, callVars
<1>2. CASE \E n \in Notes : Write(q, n)
  <2>1. PICK n \in Notes : Write(q, n)
    BY <1>2
  <2>2. notes' = notes \/ notes' = [notes EXCEPT ![bound[q]] = notes[bound[q]] \cup {n}]
    BY <2>1 DEF Write
  <2>3. StoreTypes'
    BY <2>1, <2>2, Types DEF Write, StoreTypes
  <2>4. PlaceTypes'
    BY <2>1, Types DEF Write, PlaceTypes, Keys
  <2>s. StrayTypes'
    BY <2>1, Types DEF Write, StrayTypes
  <2>5. TypeOK'
    BY <2>1, <2>s, <2>3, <2>4, TypesStay, TypesNext DEF Write
  <2> QED
    BY <2>1, <2>5, Aside DEF Write, callVars
<1> QED
  BY <1>1, <1>2

LEMMA Editing ==
    ASSUME JoinInv, NEW k \in Companies, Edit(k)
    PROVE  JoinInv'
<1> USE DEF JoinInv
<1>1. edits[k] \in 0..MaxEdits /\ edits[k] < MaxEdits
  BY Types DEF Edit, StoreTypes
<1>2. edits[k] + 1 \in 0..MaxEdits
  BY <1>1, JoinAssumption
<1>3. StoreTypes'
  BY <1>2, Types DEF Edit, StoreTypes
<1>4. PlaceTypes'
  BY Types DEF Edit, PlaceTypes, procVars
<1>5. TypeOK'
  BY <1>3, <1>4, TypesStay, TypesNext DEF Edit, procVars
<1> QED
  BY <1>5, Aside DEF Edit, procVars, callVars

LEMMA FreeingByHand ==
    ASSUME JoinInv, NEW q \in Processes, ReleaseFence(q)
    PROVE  JoinInv'
<1> USE DEF JoinInv
<1>s. StrayTypes'
  BY Types DEF ReleaseFence, StrayTypes
<1>1. PICK f \in Fences : Move(f, "fenced", "released")
  BY DEF ReleaseFence, ActiveOn
<1>2. /\ FenceTypes'
      /\ \A g \in Fences :
            \/ fence'[g] = fence[g]
            \/ /\ fence[g].phase = "fenced" /\ fence'[g].phase = "released"
               /\ fence'[g].store = fence[g].store /\ fence'[g].company = fence[g].company
               /\ fence'[g].dest = fence[g].dest
               /\ writer[fence[g].store] = None
  BY <1>1, Moving DEF Active
<1>3. /\ pc[q] = "up" /\ env[q] \in Companies /\ bound[q] \in Companies
      /\ pc' = pc /\ env' = env /\ bound' = bound /\ work' = work /\ mine' = mine /\ aim' = aim
      /\ writer' = writer
      /\ UNCHANGED <<envVars, lock, storeVars, procVars, callVars>>
  BY DEF ReleaseFence, Attached, storeVars, procVars, callVars
<1>4. PlaceTypes'
  BY <1>3, Types DEF PlaceTypes
<1>5. TypeOK'
  BY <1>s, <1>2, <1>3, <1>4, TypesStay, TypesNext
<1> QED
  BY <1>2, <1>3, <1>5, OwnStep DEF OnFence

------------------------------------------------------------------------------
(* The invariant, and the two theorems.                                    *)
LEMMA InitHolds == Init => JoinInv
<1> SUFFICES ASSUME Init PROVE JoinInv
  OBVIOUS
<1>1. EnvTypes /\ LockTypes
  BY JoinAssumption DEF Init, EnvTypes, LockTypes, Keys
<1>2. FenceTypes
  BY DEF Init, FenceTypes, NoFence, Keys
<1>3. StoreTypes
  BY JoinAssumption DEF Init, StoreTypes
<1>4. PlaceTypes /\ CallTypes /\ StrayTypes
  BY DEF Init, PlaceTypes, CallTypes, StrayTypes, Keys, Steps
<1>5. \A f \in Fences : fence[f].phase = "unused"
  BY DEF Init, NoFence
<1>6. \A q \in Processes : pc[q] = "down"
  BY DEF Init
<1> QED
  BY <1>1, <1>2, <1>3, <1>4, <1>5, <1>6, Types
     DEF JoinInv, Named, Attached, Held, Locked, OnFence

LEMMA StepHolds == JoinInv /\ [Next]_vars => JoinInv'
<1> SUFFICES ASSUME JoinInv, [Next]_vars PROVE JoinInv'
  OBVIOUS
<1>1. ASSUME NEW q \in Processes, Step(q) PROVE JoinInv'
  BY <1>1, Booting, Joining, Recovering, Straying, Placing, CuttingOver, Releasing, Importing,
     Accepting, Finishing, Completing, Clearing DEF Step
<1>2. ASSUME NEW q \in Processes,
             \/ Start(q) \/ Fail(q) \/ Begin(q) \/ Stop(q) \/ Crash(q) \/ ReleaseFence(q)
             \/ \E k \in Companies : Join(q, k)
             \/ \E n \in Notes : Write(q, n)
      PROVE  JoinInv'
  BY <1>2, Booting, Joining, Failing, Working, Ending, FreeingByHand
<1>3. CASE UNCHANGED vars
  <2>1. /\ UNCHANGED <<envVars, lock, fence, storeVars, callVars, strayed>>
        /\ pc' = pc /\ env' = env /\ bound' = bound /\ work' = work
    BY <1>3 DEF vars, procVars
  <2>2. TypeOK'
    BY <2>1, Types, TypesStay, TypesNext DEF PlaceTypes, JoinInv
  <2> QED
    BY <2>1, <2>2, Aside DEF storeVars, callVars
<1> QED
  BY <1>1, <1>2, <1>3, Editing DEF Next

THEOREM InvHolds == Spec => []JoinInv
  BY InitHolds, StepHolds, PTL DEF Spec

(* Stores, locks, fences, receipts and settings keep their types, whoever  *)
(* joins, recovers, fails or crashes: a recovery never binds a process to  *)
(* no store, and never works on a fence that was not placed.               *)
THEOREM TypeCorrect == Spec => []TypeOK
<1>1. JoinInv => TypeOK
  BY DEF JoinInv
<1> QED
  BY <1>1, InvHolds, PTL

(* What a step may do to one fence.                                        *)
Advances(f) ==
    /\ fence[f].phase \in {"released", "completed"} => fence'[f] = fence[f]
    /\ fence[f].phase = "accepted" => fence'[f].phase \in {"accepted", "completed"}
    /\ fence'[f].phase = "accepted" => fence[f].phase \in {"fenced", "accepted"}

LEMMA MovedAdvances ==
    ASSUME TypeOK, NEW f \in Fences, NEW g \in Fences, Move(g, "fenced", "released")
    PROVE  Advances(f)
  BY Moving DEF Active, Advances

LEMMA StepAdvances ==
    ASSUME JoinInv, [Next]_vars, NEW f \in Fences
    PROVE  Advances(f)
<1>1. CASE fence' = fence
  BY <1>1 DEF Advances
<1>2. ASSUME NEW g \in Fences, Move(g, "fenced", "released") PROVE Advances(f)
  BY <1>2, MovedAdvances DEF JoinInv
<1>3. ASSUME NEW q \in Processes, RecoverStray(q) \/ ReleaseFence(q) PROVE Advances(f)
  BY <1>1, <1>2, <1>3 DEF RecoverStray, ReleaseFence, MineOn, ActiveOn
<1>4. ASSUME NEW q \in Processes, Rest(q) \/ Release(q) PROVE Advances(f)
  <2>1. mine[q] \in Fences
    BY <1>4 DEF Rest, Release, JoinInv, Held, OnFence
  <2> QED
    BY <1>2, <1>4, <2>1 DEF Rest, Release
<1>5. ASSUME NEW q \in Processes, Place(q) PROVE Advances(f)
  <2>1. CASE fence'[f] = fence[f]
    BY <2>1 DEF Advances
  <2>2. CASE fence[f].phase = "unused" /\ fence'[f].phase = "fenced"
    BY <2>2 DEF Advances
  <2>3. ASSUME NEW g \in Unused(ProfileOf[q]),
               fence' = [fence EXCEPT ![g] =
                   [store |-> bound[q], company |-> env[q], dest |-> aim[q],
                    owner |-> OwnerOf[ProfileOf[q]], phase |-> "fenced"]]
        PROVE  Advances(f)
    BY <2>1, <2>2, <2>3, Types DEF Unused, FenceTypes, JoinInv
  <2> QED
    BY <1>1, <1>5, <2>3 DEF Place
<1>6. ASSUME NEW q \in Processes, Accept(q) PROVE Advances(f)
  <2>1. mine[q] \in Fences /\ fence[mine[q]].phase = "fenced"
    BY <1>6 DEF Accept, JoinInv, Held, Locked, OnFence
  <2> QED
    BY <1>6, <2>1, Types DEF Accept, Advances, FenceTypes, JoinInv
<1>7. ASSUME NEW q \in Processes, Complete(q) PROVE Advances(f)
  BY <1>7, Completed DEF Advances
<1>8. ASSUME NEW q \in Processes, Step(q) PROVE Advances(f)
  BY <1>1, <1>3, <1>4, <1>5, <1>6, <1>7, <1>8
     DEF Step, BootRecovers, JoinLocks, RecoverAfterKey, RecoverBeforeKey, Evaluate, Announce,
         Import, Persist, Rebind, ClearFrom, ClearTo
<1>9. ASSUME NEW q \in Processes,
             \/ Start(q) \/ Fail(q) \/ Begin(q) \/ Stop(q) \/ Crash(q)
             \/ \E k \in Companies : Join(q, k)
             \/ \E n \in Notes : Write(q, n)
      PROVE  Advances(f)
  BY <1>1, <1>9 DEF Start, Fail, Begin, Stop, Crash, End, Join, Write
<1>10. ASSUME NEW k \in Companies, Edit(k) PROVE Advances(f)
  BY <1>1, <1>10 DEF Edit
<1>11. CASE UNCHANGED vars
  BY <1>1, <1>11 DEF vars
<1> QED
  BY <1>3, <1>8, <1>9, <1>10, <1>11 DEF Next

(* A fence only moves forward.  An acceptance never revives a fence that   *)
(* --release-fence or a recovery took down after the import had looked at  *)
(* it, and no release undoes an acceptance, which is what lets a recovery  *)
(* finish every accepted join.                                             *)
THEOREM FencesOnlyAdvance == Spec => FencesMoveForward
<1>1. JoinInv /\ [Next]_vars => [\A f \in Fences : Advances(f)]_vars
  BY StepAdvances
<1>2. [\A f \in Fences : Advances(f)]_vars => [\A f \in Fences :
          /\ fence[f].phase \in {"released", "completed"} => fence'[f] = fence[f]
          /\ fence[f].phase = "accepted" => fence'[f].phase \in {"accepted", "completed"}
          /\ fence'[f].phase = "accepted" => fence[f].phase \in {"fenced", "accepted"}]_vars
  BY DEF Advances
<1> QED
  BY <1>1, <1>2, InvHolds, PTL DEF Spec, FencesMoveForward

------------------------------------------------------------------------------
(* What a join carries over, in every behaviour up to the step at which a  *)
(* process takes another join for its own (strayed).                       *)

(* The fences of a profile are those under an id of its own.               *)
Owns(p, f) == fence[f].phase # "unused" /\ f \in IdsOf[p]

(* The steps at which a process holds the join lock of its profile.        *)
LockSteps == Steps \ {"down", "boot", "up", "wait"}

HoldsLock(q) == pc[q] \in LockSteps => lock[ProfileOf[q]] = q

(* The fence it works on is its profile's, in the store the profile is in. *)
AtSource(q) ==
    pc[q] \in OnFence =>
        /\ Owns(ProfileOf[q], mine[q])
        /\ env[q] = key[ProfileOf[q]] /\ bound[q] = key[ProfileOf[q]]
        /\ pc[q] = "persist" => fence[mine[q]].phase = "accepted"
        /\ pc[q] # "persist" => fence[mine[q]].phase \in {"fenced", "released"}

BeforeKey(q) ==
    pc[q] \in OnFence \cup {"place", "clear to", "abandon to"} => from[ProfileOf[q]] = None

Announced(q) ==
    /\ pc[q] = "place" => aim[q] # env[q]
    /\ pc[q] \in {"evaluate", "announce"} => aim[q] = fence[mine[q]].dest
    /\ pc[q] \in {"import", "accept"} => to[ProfileOf[q]] = fence[mine[q]].dest

Freed(q) == pc[q] \in {"down", "boot", "up", "wait", "recover", "place"} => mine[q] = None

(* Behind the key: the fence is the one left in the store it came from.    *)
Returning(q) ==
    /\ pc[q] \in {"rebind", "complete"} =>
          /\ from[ProfileOf[q]] \in Companies
          /\ mine[q] # None =>
                /\ mine[q] \in Fences /\ Owns(ProfileOf[q], mine[q])
                /\ fence[mine[q]].phase = "accepted"
                /\ fence[mine[q]].store = from[ProfileOf[q]]
    /\ pc[q] = "rebind" =>
          mine[q] # None /\ bound[q] = from[ProfileOf[q]] /\ env[q] = key[ProfileOf[q]]

(* Before the acceptance and behind the completion nothing of the profile  *)
(* is left accepted.                                                       *)
NothingAccepted(q) ==
    pc[q] \in (OnFence \ {"persist"}) \cup {"clear to", "abandon to", "clear from"} =>
        \A f \in Fences : Owns(ProfileOf[q], f) => fence[f].phase # "accepted"

(* Under the write lock the receipt is the store's own digest, and the     *)
(* destination holds what the store does.                                  *)
Copied(q) ==
    pc[q] = "accept" =>
        /\ receipt[mine[q]] = Digest(bound[q])
        /\ notes[bound[q]] \subseteq notes[fence[mine[q]].dest]

Fine(q) ==
    /\ HoldsLock(q) /\ AtSource(q) /\ BeforeKey(q) /\ Announced(q)
    /\ Freed(q) /\ Returning(q) /\ NothingAccepted(q) /\ Copied(q)

WellPlaced ==
    \A f \in Fences :
        fence[f].phase # "unused" =>
            /\ fence[f].company = fence[f].store /\ fence[f].dest # fence[f].store
            /\ \E p \in Profiles : f \in IdsOf[p] /\ fence[f].owner = OwnerOf[p]

OneActive ==
    \A f, g \in Fences :
        fence[f].phase \in Active /\ fence[g].phase \in Active /\ fence[f].store = fence[g].store
            => f = g

(* The .env of a profile with an accepted fence tells where it stopped.    *)
Remembered ==
    \A p \in Profiles, f \in Fences :
        Owns(p, f) /\ fence[f].phase = "accepted" =>
            \/ from[p] = None /\ key[p] = fence[f].company /\ to[p] = fence[f].dest
            \/ from[p] = fence[f].company /\ key[p] = fence[f].dest

(* Between the acceptance and the key, the destination has it all.         *)
Kept ==
    \A p \in Profiles, f \in Fences :
        Owns(p, f) /\ fence[f].phase = "accepted" /\ from[p] = None =>
            notes[fence[f].store] \subseteq notes[fence[f].dest]

Receipts ==
    \A f \in Fences :
        receipt[f] # None =>
            fence[f].phase # "unused" /\ receipt[f].notes \subseteq notes[fence[f].dest]

Journal == WellPlaced /\ OneActive /\ Remembered /\ Kept /\ Receipts

Carried == (\A q \in Processes : Fine(q)) /\ Journal

MoveInv == JoinInv /\ Carried

(* A fence has one profile.                                                *)
LEMMA OneOwner ==
    ASSUME NEW p \in Profiles, NEW r \in Profiles, NEW f, Owns(p, f), Owns(r, f)
    PROVE  p = r
  BY JoinAssumption DEF Owns

LEMMA OwnAccount ==
    ASSUME WellPlaced, NEW p \in Profiles, NEW f \in Fences, Owns(p, f)
    PROVE  fence[f].owner = OwnerOf[p]
<1>1. PICK r \in Profiles : f \in IdsOf[r] /\ fence[f].owner = OwnerOf[r]
  BY DEF WellPlaced, Owns
<1>2. r = p
  BY <1>1, JoinAssumption DEF Owns
<1> QED
  BY <1>1, <1>2

(* What a step may do to fences: take one down, or accept or complete one  *)
(* of its own profile's, or place one.                                     *)
Same(f) ==
    /\ fence'[f].store = fence[f].store /\ fence'[f].company = fence[f].company
    /\ fence'[f].dest = fence[f].dest /\ fence'[f].owner = fence[f].owner
TakenDown(f) == Same(f) /\ fence[f].phase = "fenced" /\ fence'[f].phase = "released"
Done(f) == Same(f) /\ fence[f].phase = "accepted" /\ fence'[f].phase = "completed"
Taken(f) == Same(f) /\ fence[f].phase = "fenced" /\ fence'[f].phase = "accepted"
Placed(p, f) ==
    /\ fence[f].phase = "unused"
    /\ fence'[f].phase = "fenced" /\ f \in IdsOf[p]

Calm == \A f \in Fences : fence'[f] = fence[f] \/ TakenDown(f)
Waning == \A f \in Fences : fence'[f] = fence[f] \/ TakenDown(f) \/ Done(f)
Changes(p) ==
    \A f \in Fences :
        \/ fence'[f] = fence[f] \/ TakenDown(f) \/ Placed(p, f)
        \/ Owns(p, f) /\ (Done(f) \/ Taken(f))

LEMMA MoveIsCalm ==
    ASSUME TypeOK, NEW f \in Fences, Move(f, "fenced", "released")
    PROVE  Calm
<1>1. fence' = fence \/ (fence[f].phase = "fenced" /\ fence' = [fence EXCEPT ![f].phase = "released"])
  BY DEF Move
<1>2. CASE fence' = fence
  BY <1>2 DEF Calm
<1>3. CASE fence[f].phase = "fenced" /\ fence' = [fence EXCEPT ![f].phase = "released"]
  <2>1. /\ fence'[f] = [fence[f] EXCEPT !.phase = "released"]
        /\ \A g \in Fences \ {f} : fence'[g] = fence[g]
    BY <1>3, Types DEF FenceTypes
  <2>2. TakenDown(f)
    BY <1>3, <2>1, Types DEF TakenDown, Same, FenceTypes
  <2> QED
    BY <2>1, <2>2 DEF Calm
<1> QED
  BY <1>1, <1>2, <1>3

LEMMA CalmWanes == ASSUME NEW p, Calm PROVE Waning /\ Changes(p)
  BY DEF Calm, Waning, Changes

(* A step of one process leaves every other one fine: what it changes is   *)
(* its own profile's, under the lock of the profile, or takes a fence that *)
(* was not accepted down; and no store under the write lock of another.    *)
LEMMA OthersFine ==
    ASSUME MoveInv, NEW q \in Processes, NEW r \in Processes \ {q},
           /\ pc'[r] = pc[r] /\ env'[r] = env[r] /\ bound'[r] = bound[r]
           /\ mine'[r] = mine[r] /\ aim'[r] = aim[r],
           Changes(ProfileOf[q]),
           \A p \in Profiles : lock'[p] = lock[p] \/ lock[p] \in {None, q},
           \A p \in Profiles \ {ProfileOf[q]} :
               key'[p] = key[p] /\ to'[p] = to[p] /\ from'[p] = from[p],
           \A f \in Fences : receipt'[f] = receipt[f] \/ Owns(ProfileOf[q], f),
           \A k \in Companies :
               /\ writer[k] \in {None, q} \/ (notes'[k] = notes[k] /\ edits'[k] = edits[k])
               /\ notes[k] \subseteq notes'[k],
           lock[ProfileOf[q]] \in {None, q} \/ (UNCHANGED <<key, to, from, receipt>> /\ Calm)
    PROVE  Fine(r)'
<1> DEFINE p == ProfileOf[r]
<1>0. Fine(r) /\ p \in Profiles /\ ProfileOf[q] \in Profiles /\ r \notin {None, q}
  BY ProfilesOf, NoneIsNobody DEF MoveInv, Carried
<1>1. CASE pc[r] \notin LockSteps
  <2>1. pc'[r] \notin LockSteps /\ pc'[r] \in Steps
    BY <1>1 DEF MoveInv, Carried, JoinInv, TypeOK
  <2>2. pc'[r] \in {"down", "boot", "up", "wait"} /\ mine'[r] = None
    BY <1>0, <2>1 DEF Fine, Freed, LockSteps
  <2> QED
    BY <2>2 DEF Fine, HoldsLock, AtSource, BeforeKey, Announced, Freed, Returning,
                NothingAccepted, Copied, OnFence, LockSteps
<1>2. CASE pc[r] \in LockSteps
  <2>1. lock[p] = r /\ lock'[p] = r
    BY <1>0, <1>2 DEF Fine, HoldsLock
  <2>2. p # ProfileOf[q] \/ (UNCHANGED <<key, to, from, receipt>> /\ Calm)
    BY <1>0, <2>1
  <2>3. key'[p] = key[p] /\ to'[p] = to[p] /\ from'[p] = from[p]
    BY <1>0, <2>2
  <2>4. ASSUME NEW f \in Fences, Owns(p, f)
        PROVE  receipt'[f] = receipt[f] /\ (fence'[f] = fence[f] \/ TakenDown(f))
    <3>1. CASE p = ProfileOf[q]
      BY <2>2, <3>1 DEF Calm
    <3>2. CASE p # ProfileOf[q]
      <4>1. ~Owns(ProfileOf[q], f) /\ fence[f].phase # "unused"
        BY <1>0, <2>4, <3>2, OneOwner DEF Owns
      <4> QED
        BY <4>1 DEF Changes, Placed
    <3> QED
      BY <3>1, <3>2
  <2>5. ASSUME NEW f \in Fences, Owns(p, f)', fence'[f].phase = "accepted"
        PROVE  Owns(p, f) /\ fence[f].phase = "accepted"
    <3>1. CASE p = ProfileOf[q]
      BY <2>2, <2>5, <3>1 DEF Calm, TakenDown, Same, Owns
    <3>2. CASE p # ProfileOf[q]
      <4>1. ~(f \in IdsOf[p] /\ f \in IdsOf[ProfileOf[q]])
        BY <1>0, <3>2, JoinAssumption
      <4> QED
        BY <2>5, <4>1 DEF Changes, Placed, TakenDown, Done, Taken, Same, Owns
    <3> QED
      BY <3>1, <3>2
  <2>6. ASSUME pc[r] \in OnFence
        PROVE  /\ mine[r] \in Fences /\ Owns(p, mine[r]) /\ bound[r] \in Companies
               /\ receipt'[mine[r]] = receipt[mine[r]]
               /\ fence'[mine[r]] = fence[mine[r]] \/ TakenDown(mine[r])
    BY <1>0, <2>4, <2>6 DEF Fine, AtSource, MoveInv, Carried, JoinInv, Held, Attached, OnFence
  <2>7. HoldsLock(r)' /\ BeforeKey(r)' /\ Freed(r)'
    BY <1>0, <2>1, <2>3 DEF Fine, HoldsLock, BeforeKey, Freed
  <2>8. AtSource(r)'
    BY <1>0, <2>3, <2>6 DEF Fine, AtSource, Owns, TakenDown, Same
  <2>9. Announced(r)'
    BY <1>0, <2>3, <2>6 DEF Fine, Announced, OnFence, TakenDown, Same
  <2>10. Returning(r)'
    BY <1>0, <2>3, <2>4 DEF Fine, Returning, Owns, TakenDown, Same
  <2>11. NothingAccepted(r)'
    BY <1>0, <2>5 DEF Fine, NothingAccepted
  <2>12. Copied(r)'
    <3>1. SUFFICES ASSUME pc[r] = "accept"
                   PROVE  /\ receipt'[mine[r]] = Digest(bound[r])'
                          /\ notes'[bound[r]] \subseteq notes'[fence'[mine[r]].dest]
      BY DEF Copied
    <3>2. /\ bound[r] \in Companies /\ writer[bound[r]] = r
          /\ receipt'[mine[r]] = receipt[mine[r]]
          /\ fence'[mine[r]].dest = fence[mine[r]].dest /\ fence[mine[r]].dest \in Companies
      BY <2>6, <3>1 DEF MoveInv, Carried, JoinInv, Locked, Named, OnFence, TakenDown, Same, Owns
    <3>3. /\ notes'[bound[r]] = notes[bound[r]] /\ edits'[bound[r]] = edits[bound[r]]
          /\ notes[fence[mine[r]].dest] \subseteq notes'[fence[mine[r]].dest]
      BY <1>0, <3>2
    <3>4. /\ receipt[mine[r]] = Digest(bound[r])
          /\ notes[bound[r]] \subseteq notes[fence[mine[r]].dest]
      BY <1>0, <3>1 DEF Fine, Copied
    <3> QED
      BY <3>2, <3>3, <3>4 DEF Digest
  <2> QED
    BY <2>7, <2>8, <2>9, <2>10, <2>11, <2>12 DEF Fine
<1> QED
  BY <1>1, <1>2

(* The fences and what is kept of them, when no fence is placed or         *)
(* accepted and no company is added to.                                    *)
LEMMA PlacesStay ==
    ASSUME WellPlaced, OneActive, Waning
    PROVE  WellPlaced' /\ OneActive'
<1>1. ASSUME NEW f \in Fences
      PROVE  /\ Same(f)
             /\ fence'[f].phase # "unused" => fence[f].phase # "unused"
             /\ fence'[f].phase \in Active => fence[f].phase \in Active
  BY DEF Waning, TakenDown, Done, Same, Active
<1>2. WellPlaced'
  BY <1>1 DEF WellPlaced, Same
<1>3. OneActive'
  BY <1>1 DEF OneActive, Same
<1> QED
  BY <1>2, <1>3

LEMMA Waned ==
    ASSUME Waning, NEW f \in Fences
    PROVE  /\ Same(f)
           /\ fence'[f].phase = "unused" <=> fence[f].phase = "unused"
           /\ fence'[f].phase = "accepted" => fence[f].phase = "accepted"
           /\ \A p : Owns(p, f)' <=> Owns(p, f)
  BY DEF Waning, TakenDown, Done, Same, Owns

LEMMA JournalStays ==
    ASSUME Journal, Waning, UNCHANGED <<key, to, from, receipt, notes>>
    PROVE  Journal'
<1>1. WellPlaced' /\ OneActive'
  BY PlacesStay DEF Journal
<1>2. Remembered'
  BY Waned DEF Journal, Remembered, Same
<1>3. Kept'
  BY Waned DEF Journal, Kept, Same
<1>4. Receipts'
  BY Waned DEF Journal, Receipts, Same
<1> QED
  BY <1>1, <1>2, <1>3, <1>4 DEF Journal

(* A process at rest is fine, and so is one that recovered.                *)
LEMMA RestingFine ==
    ASSUME NEW q \in Processes, pc'[q] \in {"down", "boot", "up", "wait"}, mine'[q] = None
    PROVE  Fine(q)'
  BY DEF Fine, HoldsLock, AtSource, BeforeKey, Announced, Freed, Returning,
         NothingAccepted, Copied, OnFence, LockSteps

LEMMA GivesUpTheLock ==
    ASSUME MoveInv, NEW q \in Processes, Leave(q)
    PROVE  /\ Fine(q)' /\ pc'[q] = "up" /\ mine'[q] = None
           /\ \A r \in Processes \ {q} : pc'[r] = pc[r] /\ mine'[r] = mine[r] /\ aim'[r] = aim[r]
           /\ \A p \in Profiles \ {ProfileOf[q]} : lock'[p] = lock[p]
<1>1. TypeOK
  BY DEF MoveInv, Carried, JoinInv
<1>2. /\ pc'[q] = "up"
      /\ \A r \in Processes \ {q} : pc'[r] = pc[r] /\ mine'[r] = mine[r] /\ aim'[r] = aim[r]
  BY <1>1, LeavesWell
<1>3. mine'[q] = None /\ \A p \in Profiles \ {ProfileOf[q]} : lock'[p] = lock[p]
  BY <1>1, Types DEF Leave, CallTypes, LockTypes
<1> QED
  BY <1>2, <1>3, RestingFine

LEMMA RecoveredFine ==
    ASSUME MoveInv, NEW q \in Processes, Recovered(q), pc[q] \in LockSteps,
           from'[ProfileOf[q]] = None, env' = env
    PROVE  /\ Fine(q)' /\ pc'[q] \in {"up", "place"}
           /\ \A r \in Processes \ {q} : pc'[r] = pc[r] /\ mine'[r] = mine[r] /\ aim'[r] = aim[r]
           /\ \A p \in Profiles \ {ProfileOf[q]} : lock'[p] = lock[p]
<1>1. CASE Leave(q)
  BY <1>1, GivesUpTheLock
<1>2. CASE ~Leave(q)
  <2>1. /\ Goto(q, "place") /\ mine' = [mine EXCEPT ![q] = None]
        /\ lock' = lock /\ aim' = aim /\ aim[q] # env[q]
    BY <1>2 DEF Recovered
  <2>2. TypeOK
    BY DEF MoveInv, Carried, JoinInv
  <2>3. pc'[q] = "place" /\ \A r \in Processes \ {q} : pc'[r] = pc[r]
    BY <2>1, <2>2, GoesTo DEF Steps
  <2>4. mine'[q] = None /\ \A r \in Processes \ {q} : mine'[r] = mine[r]
    BY <2>1, <2>2, Types DEF CallTypes
  <2>5. lock[ProfileOf[q]] = q
    BY DEF MoveInv, Carried, Fine, HoldsLock
  <2>6. Fine(q)'
    BY <2>1, <2>3, <2>4, <2>5
       DEF Fine, HoldsLock, AtSource, BeforeKey, Announced, Freed, Returning, NothingAccepted,
           Copied, OnFence
  <2> QED
    BY <2>1, <2>3, <2>4, <2>6
<1> QED
  BY <1>1, <1>2

------------------------------------------------------------------------------
(* The steps that leave the settings and the contents alone.               *)
LEMMA HasLock ==
    ASSUME MoveInv, NEW q \in Processes, pc[q] \in LockSteps
    PROVE  lock[ProfileOf[q]] = q
  BY DEF MoveInv, Carried, Fine, HoldsLock

LEMMA StillStep ==
    ASSUME MoveInv, NEW q \in Processes,
           UNCHANGED <<key, to, from, receipt, notes, edits, env, bound, work>>,
           \A r \in Processes \ {q} : pc'[r] = pc[r] /\ mine'[r] = mine[r] /\ aim'[r] = aim[r],
           pc[q] \notin {"down", "rebind"}, pc'[q] # "down",
           \A p \in Profiles : lock'[p] = lock[p] \/ lock[p] \in {None, q},
           Changes(ProfileOf[q]), Waning, lock[ProfileOf[q]] \in {None, q} \/ Calm,
           Fine(q)'
    PROVE  Carried'
<1>1. \A r \in Processes : Fine(r)'
  <2>1. SUFFICES ASSUME NEW r \in Processes \ {q} PROVE Fine(r)'
    OBVIOUS
  <2> QED
    BY OthersFine
<1>2. Journal'
  BY JournalStays DEF MoveInv, Carried
<1> QED
  BY <1>1, <1>2 DEF Carried

LEMMA Unfenced ==
    ASSUME fence' = fence, NEW p
    PROVE  Calm /\ Waning /\ Changes(p)
  BY DEF Calm, Waning, Changes

LEMMA BootCarries ==
    ASSUME MoveInv, NEW q \in Processes,
           BootRecovers(q) \/ (\E k \in Companies : Join(q, k)) \/ JoinLocks(q)
    PROVE  Carried'
<1>t. TypeOK
  BY DEF MoveInv, JoinInv
<1>1. /\ pc[q] \in {"boot", "up", "wait"} 
      /\ Goto(q, "recover") \/ Goto(q, "up") \/ Goto(q, "wait")
      /\ UNCHANGED <<key, to, from, receipt, notes, edits, env, bound, work>>
      /\ fence' = fence /\ mine' = mine
      /\ \A r \in Processes \ {q} : aim'[r] = aim[r]
  BY <1>t, Types DEF BootRecovers, Join, JoinLocks, envVars, storeVars, callVars, CallTypes
<1>2. pc'[q] \in {"recover", "up", "wait"} /\ \A r \in Processes \ {q} : pc'[r] = pc[r]
  BY <1>1, <1>t, GoesTo DEF Steps
<1>3. mine[q] = None
  BY <1>1 DEF MoveInv, Carried, Fine, Freed
<1>4. /\ \A p \in Profiles : lock'[p] = lock[p] \/ lock[p] \in {None, q}
      /\ pc'[q] = "recover" => lock'[ProfileOf[q]] = q
  <2>1. \/ lock' = lock /\ (Goto(q, "up") \/ Goto(q, "wait"))
        \/ lock[ProfileOf[q]] = None /\ lock' = [lock EXCEPT ![ProfileOf[q]] = q]
    BY DEF BootRecovers, Join, JoinLocks
  <2>2. Goto(q, "up") \/ Goto(q, "wait") => pc'[q] # "recover"
    BY <1>t, GoesTo DEF Steps
  <2> QED
    BY <1>t, <2>1, <2>2, Types, ProfilesOf DEF LockTypes
<1>5. Fine(q)'
  BY <1>1, <1>2, <1>3, <1>4
     DEF Fine, HoldsLock, AtSource, BeforeKey, Announced, Freed, Returning, NothingAccepted,
         Copied, OnFence, LockSteps
<1>6. Calm /\ Waning /\ Changes(ProfileOf[q])
  BY <1>1, Unfenced
<1> QED
  BY <1>1, <1>2, <1>4, <1>5, <1>6, StillStep

(* Recovery before the key: the fence found is the one of this move, or    *)
(* there is none, and nothing is left accepted that the .env speaks of.    *)
LEMMA BeforeKeyCarries ==
    ASSUME MoveInv, ~strayed', NEW q \in Processes, RecoverBeforeKey(q)
    PROVE  Carried'
<1> DEFINE p == ProfileOf[q]
<1>t. TypeOK /\ p \in Profiles
  BY ProfilesOf DEF MoveInv, JoinInv
<1>1. /\ pc[q] = "recover" /\ from[p] = None
      /\ UNCHANGED <<key, to, from, receipt, notes, edits, env, bound, work>>
      /\ fence' = fence /\ lock' = lock /\ aim' = aim
  BY DEF RecoverBeforeKey, envVars, storeVars
<1>h. env[q] = key[p] /\ bound[q] = key[p]
  BY DEF RecoverBeforeKey, Astray
<1>2. lock[p] = q
  BY <1>1, HasLock DEF LockSteps, Steps
<1>3. ASSUME NEW g \in Fences, Owns(p, g), fence[g].phase = "accepted"
      PROVE  /\ fence[g].store = bound[q] /\ fence[g].company = env[q] /\ fence[g].dest = to[p]
             /\ g \in MineOn(q, env[q], Active)
  <2>1. key[p] = fence[g].company /\ to[p] = fence[g].dest
    <3>1. fence[g].company \in Companies
      BY <1>3 DEF MoveInv, JoinInv, Named, Owns
    <3> QED
      BY <1>1, <1>3, <1>t, <3>1, NoneIsNobody DEF MoveInv, Carried, Journal, Remembered
  <2>2. fence[g].company = fence[g].store /\ fence[g].owner = OwnerOf[p]
    BY <1>3, <1>t, OwnAccount DEF MoveInv, Carried, Journal, WellPlaced, Owns
  <2> QED
    BY <1>3, <1>h, <2>1, <2>2 DEF MineOn, Active
<1>4. CASE /\ {f \in MineOn(q, env[q], Active) : fence[f].dest = to[p]} = {}
           /\ Goto(q, "clear to") /\ UNCHANGED mine
  <2>1. pc'[q] = "clear to" /\ \A r \in Processes \ {q} : pc'[r] = pc[r]
    BY <1>4, <1>t, GoesTo DEF Steps
  <2>2. \A g \in Fences : Owns(p, g) => fence[g].phase # "accepted"
    BY <1>3, <1>4
  <2>3. Fine(q)'
    BY <1>1, <1>2, <2>1, <2>2
       DEF Fine, HoldsLock, AtSource, BeforeKey, Announced, Freed, Returning, NothingAccepted,
           Copied, OnFence, Owns
  <2>4. Calm /\ Waning /\ Changes(p)
    BY <1>1, Unfenced
  <2> QED
    BY <1>1, <1>2, <1>4, <2>1, <2>3, <2>4, StillStep
<1>5. ASSUME NEW f \in MineOn(q, env[q], Active), fence[f].dest = to[p], f \in IdsOf[p],
             mine' = [mine EXCEPT ![q] = f],
             Goto(q, IF fence[f].phase = "accepted" THEN "persist"
                     ELSE IF receipt[f] # None THEN "import" ELSE "release")
      PROVE  Carried'
  <2>1. /\ f \in Fences /\ fence[f].store = bound[q] /\ fence[f].phase \in Active
        /\ fence[f].phase # "unused" /\ Owns(p, f)
    BY <1>5 DEF MineOn, Active, Owns
  <2>2. env[q] = key[p] /\ bound[q] = key[p]
    BY <1>h
  <2>3. /\ pc'[q] \in {"persist", "import", "release"}
        /\ pc'[q] = "persist" <=> fence[f].phase = "accepted"
        /\ \A r \in Processes \ {q} : pc'[r] = pc[r]
    BY <1>5, <1>t, GoesTo DEF Steps
  <2>4. mine'[q] = f /\ \A r \in Processes \ {q} : mine'[r] = mine[r]
    BY <1>5, <1>t, <2>1, Types DEF CallTypes
  <2>5. ASSUME pc'[q] # "persist", NEW g \in Fences, Owns(p, g)
        PROVE  fence[g].phase # "accepted"
    <3>1. SUFFICES ASSUME fence[g].phase = "accepted" PROVE FALSE
      OBVIOUS
    <3>2. fence[g].store = fence[f].store
      BY <1>3, <2>1, <2>5, <3>1
    <3>3. g = f
      BY <2>1, <3>1, <3>2 DEF MoveInv, Carried, Journal, OneActive, Active
    <3> QED
      BY <2>3, <2>5, <3>1, <3>3
  <2>6. HoldsLock(q)' /\ BeforeKey(q)' /\ Freed(q)' /\ Returning(q)' /\ Copied(q)'
    BY <1>1, <1>2, <2>3 DEF HoldsLock, BeforeKey, Freed, Returning, Copied
  <2>7. AtSource(q)'
    BY <1>1, <2>1, <2>2, <2>3, <2>4 DEF AtSource, Owns, Active
  <2>8. Announced(q)'
    BY <1>1, <1>5, <2>3, <2>4 DEF Announced
  <2>9. NothingAccepted(q)'
    BY <1>1, <2>3, <2>5 DEF NothingAccepted, Owns
  <2>10. Fine(q)'
    BY <2>6, <2>7, <2>8, <2>9 DEF Fine
  <2>11. Calm /\ Waning /\ Changes(p)
    BY <1>1, Unfenced
  <2> QED
    BY <1>1, <1>2, <2>3, <2>4, <2>10, <2>11, StillStep
<1> QED
  BY <1>4, <1>5 DEF RecoverBeforeKey

LEMMA StrayCarries ==
    ASSUME MoveInv, NEW q \in Processes, RecoverStray(q)
    PROVE  Carried'
<1> DEFINE p == ProfileOf[q]
<1>t. TypeOK /\ p \in Profiles
  BY ProfilesOf DEF MoveInv, JoinInv
<1>1. /\ pc[q] = "recover" /\ from[p] = None
      /\ UNCHANGED <<key, to, from, receipt, notes, edits, env, bound, work>>
  BY DEF RecoverStray, envVars, storeVars
<1>2. lock[p] = q /\ pc[q] \in LockSteps
  BY <1>1, HasLock DEF LockSteps, Steps
<1>3. CASE Recovered(q) /\ fence' = fence
  <2>1. /\ Fine(q)' /\ pc'[q] \in {"up", "place"}
        /\ \A r \in Processes \ {q} : pc'[r] = pc[r] /\ mine'[r] = mine[r] /\ aim'[r] = aim[r]
        /\ \A s \in Profiles \ {p} : lock'[s] = lock[s]
    BY <1>1, <1>2, <1>3, RecoveredFine
  <2>2. Calm /\ Waning /\ Changes(p)
    BY <1>3, Unfenced
  <2> QED
    BY <1>1, <1>2, <2>1, <2>2, StillStep
<1>4. ASSUME NEW f \in MineOn(q, env[q], {"fenced"}), Move(f, "fenced", "released"),
             UNCHANGED <<lock, pc, callVars>>
      PROVE  Carried'
  <2>1. Calm
    BY <1>4, <1>t, MoveIsCalm DEF MineOn
  <2>2. Calm /\ Waning /\ Changes(p)
    BY <2>1, CalmWanes
  <2>3. pc' = pc /\ mine' = mine /\ aim' = aim /\ lock' = lock
    BY <1>4 DEF callVars
  <2>4. mine[q] = None
    BY <1>1 DEF MoveInv, Carried, Fine, Freed
  <2>5. Fine(q)'
    BY <1>1, <1>2, <2>3, <2>4
       DEF Fine, HoldsLock, AtSource, BeforeKey, Announced, Freed, Returning, NothingAccepted,
           Copied, OnFence
  <2> QED
    BY <1>1, <1>2, <2>2, <2>3, <2>5, StillStep
<1> QED
  BY <1>3, <1>4 DEF RecoverStray

LEMMA EvaluateCarries ==
    ASSUME MoveInv, NEW q \in Processes, Evaluate(q)
    PROVE  Carried'
<1>t. TypeOK
  BY DEF MoveInv, JoinInv
<1>1. /\ pc[q] = "evaluate"
      /\ Goto(q, "announce") \/ Goto(q, "rest")
      /\ UNCHANGED <<key, to, from, receipt, notes, edits, env, bound, work>>
      /\ fence' = fence /\ lock' = lock /\ mine' = mine /\ aim' = aim
  BY DEF Evaluate, envVars, storeVars, callVars
<1>2. pc'[q] \in {"announce", "rest"} /\ \A r \in Processes \ {q} : pc'[r] = pc[r]
  BY <1>1, <1>t, GoesTo DEF Steps
<1>3. lock[ProfileOf[q]] = q
  BY <1>1, HasLock DEF LockSteps, Steps
<1>4. Fine(q)
  BY DEF MoveInv, Carried
<1>5. HoldsLock(q)' /\ BeforeKey(q)' /\ Announced(q)' /\ Freed(q)' /\ Returning(q)' /\ Copied(q)'
  BY <1>1, <1>2, <1>3, <1>4
     DEF Fine, HoldsLock, BeforeKey, Announced, Freed, Returning, Copied, OnFence
<1>6. AtSource(q)' /\ NothingAccepted(q)'
  BY <1>1, <1>2, <1>4 DEF Fine, AtSource, NothingAccepted, OnFence, Owns
<1>7. Fine(q)'
  BY <1>5, <1>6 DEF Fine
<1>8. Calm /\ Waning /\ Changes(ProfileOf[q])
  BY <1>1, Unfenced
<1> QED
  BY <1>1, <1>2, <1>3, <1>7, <1>8, StillStep

LEMMA ReleaseCarries ==
    ASSUME MoveInv, NEW q \in Processes, Rest(q) \/ Release(q)
    PROVE  Carried'
<1> DEFINE p == ProfileOf[q]
<1>t. TypeOK
  BY DEF MoveInv, JoinInv
<1>1. /\ pc[q] \in {"rest", "release", "abandon"} /\ Move(mine[q], "fenced", "released")
      /\ UNCHANGED <<key, to, from, receipt, notes, edits, env, bound, work>>
  BY DEF Rest, Release, envVars, storeVars
<1>2. lock[p] = q
  BY <1>1, HasLock DEF LockSteps, Steps
<1>3. mine[q] \in Fences
  BY <1>1 DEF MoveInv, JoinInv, Held, OnFence
<1>4. Calm
  BY <1>1, <1>3, <1>t, MoveIsCalm
<1>5. Waning /\ Changes(p)
  BY <1>4, CalmWanes
<1>6. CASE Leave(q)
  <2>1. /\ Fine(q)' /\ pc'[q] = "up"
        /\ \A r \in Processes \ {q} : pc'[r] = pc[r] /\ mine'[r] = mine[r] /\ aim'[r] = aim[r]
        /\ \A s \in Profiles \ {p} : lock'[s] = lock[s]
    BY <1>6, GivesUpTheLock
  <2> QED
    BY <1>1, <1>2, <1>5, <2>1, StillStep
<1>7. CASE Release(q)
  <2>1. /\ Goto(q, "abandon to") \/ Goto(q, "clear to")
        /\ lock' = lock /\ mine' = mine /\ aim' = aim
    BY <1>7 DEF Release, callVars
  <2>2. pc'[q] \in {"abandon to", "clear to"} /\ \A r \in Processes \ {q} : pc'[r] = pc[r]
    BY <1>t, <2>1, GoesTo DEF Steps
  <2>3. /\ from[p] = None
        /\ \A f \in Fences : Owns(p, f) => fence[f].phase # "accepted"
    BY <1>1 DEF MoveInv, Carried, Fine, BeforeKey, NothingAccepted, OnFence
  <2>4. \A f \in Fences : Owns(p, f)' => fence'[f].phase # "accepted"
    BY <1>5, <2>3, Waned
  <2>5. Fine(q)'
    BY <1>1, <1>2, <2>1, <2>2, <2>3, <2>4
       DEF Fine, HoldsLock, AtSource, BeforeKey, Announced, Freed, Returning, NothingAccepted,
           Copied, OnFence
  <2> QED
    BY <1>1, <1>2, <1>5, <2>1, <2>2, <2>5, StillStep
<1> QED
  BY <1>6, <1>7 DEF Rest

(* The completion leaves no accepted fence of the profile.                 *)
LEMMA CompleteCarries ==
    ASSUME MoveInv, ~strayed', NEW q \in Processes, Complete(q)
    PROVE  Carried'
<1> DEFINE p == ProfileOf[q]
<1>t. TypeOK /\ p \in Profiles
  BY ProfilesOf DEF MoveInv, JoinInv
<1>1. /\ pc[q] = "complete" /\ Goto(q, "clear from")
      /\ UNCHANGED <<key, to, from, receipt, notes, edits, env, bound, work>>
      /\ lock' = lock /\ mine' = mine /\ aim' = aim
      /\ fence' = [f \in Fences |-> IF f \in ToComplete(q)
                                    THEN [fence[f] EXCEPT !.phase = "completed"] ELSE fence[f]]
  BY DEF Complete, envVars, storeVars, callVars
<1>h. ToComplete(q) \subseteq IdsOf[p]
  BY DEF Complete
<1>2. lock[p] = q
  BY <1>1, HasLock DEF LockSteps, Steps
<1>3. /\ from[p] \in Companies
      /\ mine[q] # None =>
            /\ mine[q] \in Fences /\ Owns(p, mine[q])
            /\ fence[mine[q]].phase = "accepted" /\ fence[mine[q]].store = from[p]
  BY <1>1 DEF MoveInv, Carried, Fine, Returning
<1>4. ASSUME NEW f \in Fences
      PROVE  IF f \in ToComplete(q) THEN Owns(p, f) /\ Done(f) ELSE fence'[f] = fence[f]
  <2>1. CASE f \notin ToComplete(q)
    BY <1>1, <2>1
  <2>2. CASE f \in ToComplete(q)
    <3>1. fence[f].phase = "accepted" /\ Owns(p, f)
      <4>1. CASE mine[q] = None
        BY <2>2, <1>h DEF ToComplete, Owns
      <4>2. CASE mine[q] # None
        BY <1>3, <2>2, <4>2 DEF ToComplete
      <4> QED
        BY <4>1, <4>2
    <3>2. fence'[f] = [fence[f] EXCEPT !.phase = "completed"]
      BY <1>1, <2>2
    <3>3. fence[f] \in [store: Keys, company: Keys, dest: Keys, owner: Nat,
                        phase: Active \cup {"unused", "completed", "released"}]
      BY <1>t, Types DEF FenceTypes
    <3> QED
      BY <2>2, <3>1, <3>2, <3>3 DEF Done, Same
  <2> QED
    BY <2>1, <2>2
<1>5. Waning /\ Changes(p)
  BY <1>4 DEF Waning, Changes
<1>6. ASSUME NEW g \in Fences, Owns(p, g), fence[g].phase = "accepted"
      PROVE  g \in ToComplete(q)
  <2>1. from[p] = fence[g].company /\ key[p] = fence[g].dest /\ fence[g].store = from[p]
    BY <1>3, <1>6, <1>t, NoneIsNobody DEF MoveInv, Carried, Journal, Remembered, WellPlaced, Owns
  <2>2. CASE mine[q] = None
    <3>1. fence[g].owner = OwnerOf[p]
      BY <1>6, <1>t, OwnAccount DEF MoveInv, Carried, Journal
    <3> QED
      BY <1>6, <2>1, <2>2, <3>1 DEF ToComplete
  <2>3. CASE mine[q] # None
    <3>1. g = mine[q]
      <4>1. /\ mine[q] \in Fences /\ fence[mine[q]].phase \in Active
            /\ fence[g].phase \in Active /\ fence[g].store = fence[mine[q]].store
        BY <1>3, <1>6, <2>1, <2>3 DEF Active
      <4> QED
        BY <4>1 DEF MoveInv, Carried, Journal, OneActive
    <3> QED
      BY <1>6, <2>1, <3>1 DEF ToComplete
  <2> QED
    BY <2>2, <2>3
<1>7. ASSUME NEW g \in Fences, Owns(p, g)' PROVE fence'[g].phase # "accepted"
  <2>1. CASE g \in ToComplete(q)
    BY <1>4, <2>1 DEF Done
  <2>2. CASE g \notin ToComplete(q)
    BY <1>4, <1>6, <1>7, <2>2 DEF Owns
  <2> QED
    BY <2>1, <2>2
<1>8. pc'[q] = "clear from" /\ \A r \in Processes \ {q} : pc'[r] = pc[r]
  BY <1>1, <1>t, GoesTo DEF Steps
<1>9. Fine(q)'
  BY <1>1, <1>2, <1>7, <1>8
     DEF Fine, HoldsLock, AtSource, BeforeKey, Announced, Freed, Returning, NothingAccepted,
         Copied, OnFence
<1> QED
  BY <1>1, <1>2, <1>5, <1>8, <1>9, StillStep

LEMMA FailCarries ==
    ASSUME MoveInv, NEW q \in Processes, Fail(q)
    PROVE  Carried'
<1> DEFINE p == ProfileOf[q]
<1>t. TypeOK
  BY DEF MoveInv, JoinInv
<1>1. /\ pc[q] \notin {"down", "boot", "up", "wait", "rebind"} /\ pc[q] \in Steps
      /\ UNCHANGED <<key, to, from, receipt, notes, edits, env, bound, work>> /\ fence' = fence
  BY <1>t DEF Fail, envVars, TypeOK
<1>2. lock[p] = q
  BY <1>1, HasLock DEF LockSteps
<1>3. Calm /\ Waning /\ Changes(p)
  BY <1>1, Unfenced
<1>4. CASE Leave(q)
  <2>1. /\ Fine(q)' /\ pc'[q] = "up"
        /\ \A r \in Processes \ {q} : pc'[r] = pc[r] /\ mine'[r] = mine[r] /\ aim'[r] = aim[r]
        /\ \A s \in Profiles \ {p} : lock'[s] = lock[s]
    BY <1>4, GivesUpTheLock
  <2> QED
    BY <1>1, <1>2, <1>3, <2>1, StillStep
<1>5. CASE /\ pc[q] \in {"evaluate", "announce", "import", "accept", "abandon"}
           /\ Goto(q, "rest") \/ Goto(q, "abandon to") \/ Goto(q, "abandon")
           /\ UNCHANGED <<lock, callVars>>
  <2>1. lock' = lock /\ mine' = mine /\ aim' = aim
    BY <1>5 DEF callVars
  <2>2. /\ pc'[q] \in {"rest", "abandon to", "abandon"}
        /\ \A r \in Processes \ {q} : pc'[r] = pc[r]
    BY <1>5, <1>t, GoesTo DEF Steps
  <2>3. Fine(q)
    BY DEF MoveInv, Carried
  <2>4. HoldsLock(q)' /\ BeforeKey(q)' /\ Announced(q)' /\ Freed(q)' /\ Returning(q)' /\ Copied(q)'
    BY <1>1, <1>2, <1>5, <2>1, <2>2, <2>3
       DEF Fine, HoldsLock, BeforeKey, Announced, Freed, Returning, Copied, OnFence
  <2>5. AtSource(q)' /\ NothingAccepted(q)'
    BY <1>1, <1>5, <2>1, <2>2, <2>3 DEF Fine, AtSource, NothingAccepted, OnFence, Owns
  <2>6. Fine(q)'
    BY <2>4, <2>5 DEF Fine
  <2> QED
    BY <1>1, <1>2, <1>3, <2>1, <2>2, <2>6, StillStep
<1> QED
  BY <1>4, <1>5 DEF Fail

LEMMA ByHandCarries ==
    ASSUME MoveInv, NEW q \in Processes, ReleaseFence(q)
    PROVE  Carried'
<1>t. TypeOK
  BY DEF MoveInv, JoinInv
<1>1. /\ pc[q] = "up"
      /\ UNCHANGED <<key, to, from, receipt, notes, edits, env, bound, work>>
      /\ lock' = lock /\ pc' = pc /\ mine' = mine /\ aim' = aim
  BY DEF ReleaseFence, envVars, storeVars, procVars, callVars
<1>2. Calm
  BY <1>t, MoveIsCalm DEF ReleaseFence, ActiveOn
<1>3. Waning /\ Changes(ProfileOf[q])
  BY <1>2, CalmWanes
<1>4. Fine(q)'
  <2>1. mine[q] = None
    BY <1>1 DEF MoveInv, Carried, Fine, Freed
  <2> QED
    BY <1>1, <2>1, RestingFine
<1> QED
  BY <1>1, <1>2, <1>3, <1>4, StillStep

------------------------------------------------------------------------------
(* The steps that change the settings, the places or the contents.         *)
LEMMA StartCarries ==
    ASSUME MoveInv, NEW q \in Processes, Start(q)
    PROVE  Carried'
<1> DEFINE p == ProfileOf[q]
<1>t. TypeOK /\ p \in Profiles
  BY ProfilesOf DEF MoveInv, JoinInv
<1>1. /\ pc[q] = "down"
      /\ UNCHANGED <<key, to, from, lock, receipt, notes, edits, work>>
      /\ fence' = fence /\ mine' = mine /\ aim' = aim
  BY DEF Start, envVars, storeVars, callVars
<1>2. pc'[q] = "boot" /\ \A r \in Processes \ {q} : pc'[r] = pc[r]
  BY <1>t, GoesTo DEF Start, Steps
<1>3. /\ env'[q] = key[p] /\ bound'[q] = key[p]
      /\ \A r \in Processes \ {q} : env'[r] = env[r] /\ bound'[r] = bound[r]
  BY <1>t, Types DEF Start, PlaceTypes
<1>4. Calm /\ Waning /\ Changes(p)
  BY <1>1, Unfenced
<1>5. mine[q] = None
  BY <1>1 DEF MoveInv, Carried, Fine, Freed
<1>6. Fine(q)'
  BY <1>1, <1>2, <1>5, RestingFine
<1>7. ASSUME NEW r \in Processes \ {q} PROVE Fine(r)'
  BY <1>1, <1>2, <1>3, <1>4, OthersFine
<1>8. Journal'
  BY <1>1, <1>4, JournalStays DEF MoveInv, Carried
<1> QED
  BY <1>6, <1>7, <1>8 DEF Carried

(* A step that binds its process to the store of the key, once the key has *)
(* moved.                                                                  *)
LEMMA BindingCarries ==
    ASSUME MoveInv, NEW q \in Processes, RecoverAfterKey(q) \/ Rebind(q)
    PROVE  Carried'
<1> DEFINE p == ProfileOf[q]
<1>t. TypeOK /\ p \in Profiles
  BY ProfilesOf DEF MoveInv, JoinInv
<1>1. /\ pc[q] \in {"recover", "rebind"} /\ Goto(q, "complete")
      /\ UNCHANGED <<key, to, from, lock, receipt, notes, edits, env, work>>
      /\ fence' = fence /\ mine' = mine /\ aim' = aim
  BY DEF RecoverAfterKey, Rebind, envVars, storeVars, callVars
<1>2. pc'[q] = "complete" /\ \A r \in Processes \ {q} : pc'[r] = pc[r]
  BY <1>1, <1>t, GoesTo DEF Steps
<1>3. lock[p] = q
  BY <1>1, HasLock DEF LockSteps, Steps
<1>4. from[p] \in Companies /\ (pc[q] = "recover" => mine[q] = None)
  <2>1. CASE RecoverAfterKey(q)
    BY <1>t, <2>1, Types DEF RecoverAfterKey, EnvTypes, Keys, MoveInv, Carried, Fine, Freed
  <2>2. CASE Rebind(q)
    BY <2>2 DEF Rebind, MoveInv, Carried, Fine, Returning
  <2> QED
    BY <2>1, <2>2
<1>5. bound'[q] = key[p] /\ \A r \in Processes \ {q} : bound'[r] = bound[r]
  <2>1. CASE RecoverAfterKey(q)
    BY <1>t, <2>1, Types DEF RecoverAfterKey, PlaceTypes
  <2>2. CASE Rebind(q)
    <3>1. env[q] = key[p]
      BY <2>2 DEF Rebind, MoveInv, Carried, Fine, Returning
    <3> QED
      BY <1>t, <2>2, <3>1, Types DEF Rebind, PlaceTypes
  <2> QED
    BY <2>1, <2>2
<1>6. Fine(q)'
  <2>1. Returning(q)
    BY DEF MoveInv, Carried, Fine
  <2>2. Returning(q)'
    BY <1>1, <1>2, <1>4, <2>1 DEF Returning, Owns
  <2> QED
    BY <1>1, <1>2, <1>3, <2>2
       DEF Fine, HoldsLock, AtSource, BeforeKey, Announced, Freed, NothingAccepted, Copied, OnFence
<1>7. Calm /\ Waning /\ Changes(p)
  BY <1>1, Unfenced
<1>8. ASSUME NEW r \in Processes \ {q} PROVE Fine(r)'
  BY <1>1, <1>2, <1>5, <1>7, OthersFine
<1>9. Journal'
  BY <1>1, <1>7, JournalStays DEF MoveInv, Carried
<1> QED
  BY <1>6, <1>8, <1>9 DEF Carried

(* A fence is placed in the store of the profile's key, and no other one   *)
(* is up there.                                                            *)
LEMMA PlaceCarries ==
    ASSUME MoveInv, ~strayed', NEW q \in Processes, Place(q)
    PROVE  Carried'
<1> DEFINE p == ProfileOf[q]
<1>t. TypeOK /\ p \in Profiles
  BY ProfilesOf DEF MoveInv, JoinInv
<1>1. /\ pc[q] = "place"
      /\ UNCHANGED <<key, to, from, receipt, notes, edits, env, bound, work>>
  BY DEF Place, envVars, storeVars
<1>2. lock[p] = q
  BY <1>1, HasLock DEF LockSteps, Steps
<1>3. CASE Leave(q) /\ fence' = fence
  <2>1. /\ Fine(q)' /\ pc'[q] = "up"
        /\ \A r \in Processes \ {q} : pc'[r] = pc[r] /\ mine'[r] = mine[r] /\ aim'[r] = aim[r]
        /\ \A s \in Profiles \ {p} : lock'[s] = lock[s]
    BY <1>3, GivesUpTheLock
  <2>2. Calm /\ Waning /\ Changes(p)
    BY <1>3, Unfenced
  <2> QED
    BY <1>1, <1>2, <2>1, <2>2, StillStep
<1>4. ASSUME NEW f \in Unused(p), ActiveOn(bound[q], env[q]) = {},
             fence' = [fence EXCEPT ![f] =
                          [store |-> bound[q], company |-> env[q], dest |-> aim[q],
                           owner |-> OwnerOf[p], phase |-> "fenced"]],
             mine' = [mine EXCEPT ![q] = f], Goto(q, "evaluate"), UNCHANGED <<lock, aim, cutting>>,
             ~Astray(q)
      PROVE  Carried'
  <2>1. f \in Fences /\ f \in IdsOf[p] /\ fence[f].phase = "unused"
    BY <1>t, JoinAssumption DEF Unused
  <2>2. /\ fence'[f] = [store |-> bound[q], company |-> env[q], dest |-> aim[q],
                        owner |-> OwnerOf[p], phase |-> "fenced"]
        /\ \A g \in Fences \ {f} : fence'[g] = fence[g]
    BY <1>4, <1>t, <2>1, Types DEF FenceTypes
  <2>3. /\ fence'[f].store = bound[q] /\ fence'[f].company = env[q] /\ fence'[f].dest = aim[q]
        /\ fence'[f].owner = OwnerOf[p] /\ fence'[f].phase = "fenced"
    BY <2>2
  <2>4. from[p] = None /\ aim[q] # env[q]
    BY <1>1 DEF MoveInv, Carried, Fine, BeforeKey, Announced
  <2>5. env[q] = key[p] /\ bound[q] = key[p]
    BY <1>4 DEF Astray
  <2>6. pc'[q] = "evaluate" /\ \A r \in Processes \ {q} : pc'[r] = pc[r]
    BY <1>4, <1>t, GoesTo DEF Steps
  <2>7. mine'[q] = f /\ \A r \in Processes \ {q} : mine'[r] = mine[r]
    BY <1>4, <1>t, <2>1, Types DEF CallTypes
  <2>8. Changes(p)
    BY <2>1, <2>2, <2>3 DEF Changes, Placed
  <2>9. ASSUME NEW g \in Fences, fence[g].phase \in Active, fence[g].store = bound[q] PROVE FALSE
    <3>1. fence[g].company = fence[g].store
      BY <2>9 DEF MoveInv, Carried, Journal, WellPlaced, Active
    <3> QED
      BY <1>4, <2>5, <2>9, <3>1 DEF ActiveOn
  <2>10. ASSUME NEW g \in Fences, Owns(p, g), fence[g].phase = "accepted" PROVE FALSE
    <3>1. fence[g].company \in Companies /\ fence[g].company = fence[g].store
      BY <2>10 DEF MoveInv, Carried, JoinInv, Named, Owns, Journal, WellPlaced
    <3>2. key[p] = fence[g].company
      BY <1>t, <2>4, <2>10, <3>1, NoneIsNobody DEF MoveInv, Carried, Journal, Remembered
    <3> QED
      BY <2>5, <2>9, <2>10, <3>1, <3>2 DEF Active
  <2>11. Fine(q)'
    <3>1. HoldsLock(q)' /\ BeforeKey(q)' /\ Freed(q)' /\ Returning(q)' /\ Copied(q)'
      BY <1>1, <1>2, <1>4, <2>4, <2>6 DEF HoldsLock, BeforeKey, Freed, Returning, Copied
    <3>2. AtSource(q)' /\ Announced(q)'
      BY <1>1, <1>4, <2>1, <2>3, <2>5, <2>6, <2>7 DEF AtSource, Announced, Owns
    <3>3. NothingAccepted(q)'
      <4>1. ASSUME NEW g \in Fences, Owns(p, g)' PROVE fence'[g].phase # "accepted"
        BY <2>2, <2>3, <2>10, <4>1 DEF Owns
      <4> QED
        BY <4>1 DEF NothingAccepted
    <3> QED
      BY <3>1, <3>2, <3>3 DEF Fine
  <2>12. ASSUME NEW r \in Processes \ {q} PROVE Fine(r)'
    BY <1>1, <1>2, <1>4, <2>6, <2>7, <2>8, OthersFine
  <2>13. WellPlaced'
    BY <1>t, <2>1, <2>2, <2>3, <2>4, <2>5 DEF WellPlaced, MoveInv, Carried, Journal
  <2>14. OneActive'
    BY <2>2, <2>3, <2>9 DEF OneActive, MoveInv, Carried, Journal
  <2>15. Remembered' /\ Kept'
    BY <1>1, <2>2, <2>3 DEF Remembered, Kept, Owns, MoveInv, Carried, Journal
  <2>16. Receipts'
    BY <1>1, <2>1, <2>2 DEF Receipts, MoveInv, Carried, Journal
  <2> QED
    BY <2>11, <2>12, <2>13, <2>14, <2>15, <2>16 DEF Carried, Journal
<1> QED
  BY <1>3, <1>4 DEF Place

LEMMA AnnounceCarries ==
    ASSUME MoveInv, NEW q \in Processes, Announce(q)
    PROVE  Carried'
<1> DEFINE p == ProfileOf[q]
<1>t. TypeOK /\ p \in Profiles
  BY ProfilesOf DEF MoveInv, JoinInv
<1>1. /\ pc[q] = "announce" /\ Goto(q, "import")
      /\ UNCHANGED <<key, from, lock, receipt, notes, edits, env, bound, work>>
      /\ fence' = fence /\ mine' = mine /\ aim' = aim
  BY DEF Announce, storeVars, callVars
<1>2. to'[p] = aim[q] /\ \A r \in Profiles \ {p} : to'[r] = to[r]
  BY <1>t, Types DEF Announce, EnvTypes
<1>3. pc'[q] = "import" /\ \A r \in Processes \ {q} : pc'[r] = pc[r]
  BY <1>1, <1>t, GoesTo DEF Steps
<1>4. lock[p] = q
  BY <1>1, HasLock DEF LockSteps, Steps
<1>5. Fine(q)
  BY DEF MoveInv, Carried
<1>6. \A f \in Fences : Owns(p, f) => fence[f].phase # "accepted"
  BY <1>1, <1>5 DEF Fine, NothingAccepted, OnFence
<1>7. Fine(q)'
  <2>1. HoldsLock(q)' /\ BeforeKey(q)' /\ Announced(q)' /\ Freed(q)' /\ Returning(q)' /\ Copied(q)'
    BY <1>1, <1>2, <1>3, <1>4, <1>5
       DEF Fine, HoldsLock, BeforeKey, Announced, Freed, Returning, Copied, OnFence
  <2>2. AtSource(q)' /\ NothingAccepted(q)'
    BY <1>1, <1>3, <1>5 DEF Fine, AtSource, NothingAccepted, OnFence, Owns
  <2> QED
    BY <2>1, <2>2 DEF Fine
<1>8. Calm /\ Waning /\ Changes(p)
  BY <1>1, Unfenced
<1>9. ASSUME NEW r \in Processes \ {q} PROVE Fine(r)'
  BY <1>1, <1>2, <1>3, <1>4, <1>8, OthersFine
<1>10. Remembered'
  BY <1>1, <1>2, <1>6 DEF Remembered, Owns, MoveInv, Carried, Journal
<1>11. WellPlaced' /\ OneActive' /\ Kept' /\ Receipts'
  BY <1>1 DEF WellPlaced, OneActive, Kept, Receipts, Owns, MoveInv, Carried, Journal
<1> QED
  BY <1>7, <1>9, <1>10, <1>11 DEF Carried, Journal

(* The import copies what the store holds, under the store's write lock;   *)
(* no fence is up on the store it adds to.                                 *)
LEMMA ImportCarries ==
    ASSUME MoveInv, NEW q \in Processes, Import(q)
    PROVE  Carried'
<1> DEFINE p == ProfileOf[q]
           f == mine[q]
           k == fence[f].dest
<1>t. TypeOK /\ p \in Profiles
  BY ProfilesOf DEF MoveInv, JoinInv
<1>1. /\ pc[q] = "import" /\ Free(bound[q]) /\ Free(k)
      /\ UNCHANGED <<key, to, from, lock, env, bound, work>>
      /\ fence' = fence /\ mine' = mine /\ aim' = aim
  BY DEF Import, envVars, callVars
<1>2. lock[p] = q
  BY <1>1, HasLock DEF LockSteps, Steps
<1>3. Fine(q)
  BY DEF MoveInv, Carried
<1>4. Calm /\ Waning /\ Changes(p)
  BY <1>1, Unfenced
<1>5. CASE ImportRefused(q)
  <2>1. /\ Goto(q, "abandon") \/ Goto(q, "release")
        /\ UNCHANGED <<receipt, notes, edits>>
    BY <1>5 DEF Import, storeVars
  <2>2. pc'[q] \in {"abandon", "release"} /\ \A r \in Processes \ {q} : pc'[r] = pc[r]
    BY <2>1, <1>t, GoesTo DEF Steps
  <2>3. HoldsLock(q)' /\ BeforeKey(q)' /\ Announced(q)' /\ Freed(q)' /\ Returning(q)' /\ Copied(q)'
    BY <1>1, <1>2, <1>3, <2>2
       DEF Fine, HoldsLock, BeforeKey, Announced, Freed, Returning, Copied, OnFence
  <2>4. AtSource(q)' /\ NothingAccepted(q)'
    BY <1>1, <1>3, <2>2 DEF Fine, AtSource, NothingAccepted, OnFence, Owns
  <2>5. Fine(q)'
    BY <2>3, <2>4 DEF Fine
  <2> QED
    BY <1>1, <1>2, <1>4, <2>1, <2>2, <2>5, StillStep
<1>6. CASE ~ImportRefused(q)
  <2>1. /\ IF receipt[f] = None
           THEN /\ receipt' = [receipt EXCEPT ![f] = Snapshot(q)]
                /\ notes' = [notes EXCEPT ![k] = @ \cup Snapshot(q).notes]
           ELSE UNCHANGED <<receipt, notes>>
        /\ Goto(q, "accept") /\ edits' = edits
    BY <1>6 DEF Import
  <2>2. /\ k # bound[q] /\ ActiveOn(k, k) = {} /\ receipt[f] \in {None, Snapshot(q)}
    BY <1>6 DEF ImportRefused
  <2>3. f \in Fences /\ Owns(p, f) /\ fence[f].store = bound[q] /\ env[q] = bound[q]
    BY <1>1, <1>3 DEF Fine, AtSource, MoveInv, JoinInv, Held, OnFence
  <2>4. k \in Companies /\ bound[q] \in Companies
    BY <1>1, <2>3 DEF MoveInv, JoinInv, Named, Attached, Owns
  <2>5. Snapshot(q) = Digest(bound[q]) /\ Snapshot(q).notes = notes[bound[q]]
    BY <2>3 DEF Snapshot, Digest
  <2>6. pc'[q] = "accept" /\ \A r \in Processes \ {q} : pc'[r] = pc[r]
    BY <2>1, <1>t, GoesTo DEF Steps
  <2>7. \A c \in Companies : notes[c] \subseteq notes'[c] /\ (c # k => notes'[c] = notes[c])
    BY <1>t, <2>1, Types DEF StoreTypes
  <2>8. /\ \A g \in Fences \ {f} : receipt'[g] = receipt[g]
        /\ receipt'[f] = Digest(bound[q])
    <3>1. CASE receipt[f] = None
      BY <1>t, <2>1, <2>3, <2>5, <3>1, Types DEF StoreTypes
    <3>2. CASE receipt[f] # None
      BY <2>1, <2>2, <2>5, <3>2
    <3> QED
      BY <3>1, <3>2
  <2>9. notes[bound[q]] \subseteq notes'[k]
    <3>1. CASE receipt[f] = None
      <4>1. notes' = [notes EXCEPT ![k] = @ \cup notes[bound[q]]]
        BY <2>1, <2>5, <3>1
      <4> QED
        BY <1>t, <2>4, <4>1, Types DEF StoreTypes
    <3>2. CASE receipt[f] # None
      <4>1. receipt[f].notes = notes[bound[q]] /\ receipt[f].notes \subseteq notes[k]
        BY <2>2, <2>3, <2>5, <3>2 DEF MoveInv, Carried, Journal, Receipts
      <4> QED
        BY <2>4, <2>7, <4>1
    <3> QED
      BY <3>1, <3>2
  <2>10. Fine(q)'
    <3>1. HoldsLock(q)' /\ BeforeKey(q)' /\ Announced(q)' /\ Freed(q)' /\ Returning(q)'
      BY <1>1, <1>2, <1>3, <2>6
         DEF Fine, HoldsLock, BeforeKey, Announced, Freed, Returning, OnFence
    <3>2. AtSource(q)' /\ NothingAccepted(q)'
      BY <1>1, <1>3, <2>6 DEF Fine, AtSource, NothingAccepted, OnFence, Owns
    <3>3. Copied(q)'
      <4>1. notes'[bound[q]] = notes[bound[q]]
        BY <2>2, <2>4, <2>7
      <4> QED
        BY <1>1, <2>1, <2>8, <2>9, <4>1 DEF Copied, Digest
    <3> QED
      BY <3>1, <3>2, <3>3 DEF Fine
  <2>11. ASSUME NEW r \in Processes \ {q} PROVE Fine(r)'
    <3>1. ASSUME NEW c \in Companies
          PROVE  /\ writer[c] \in {None, q} \/ (notes'[c] = notes[c] /\ edits'[c] = edits[c])
                 /\ notes[c] \subseteq notes'[c]
      BY <1>1, <2>1, <2>7 DEF Free
    <3>2. \A g \in Fences : receipt'[g] = receipt[g] \/ Owns(p, g)
      BY <2>3, <2>8
    <3> QED
      BY <1>1, <1>2, <1>4, <2>6, <3>1, <3>2, OthersFine
  <2>12. WellPlaced' /\ OneActive' /\ Remembered'
    BY <1>1 DEF WellPlaced, OneActive, Remembered, Owns, MoveInv, Carried, Journal
  <2>13. Kept'
    <3>1. SUFFICES ASSUME NEW r \in Profiles, NEW g \in Fences, Owns(r, g),
                          fence[g].phase = "accepted", from[r] = None
                   PROVE  notes'[fence[g].store] \subseteq notes'[fence[g].dest]
      BY <1>1 DEF Kept, Owns
    <3>2. /\ fence[g].store \in Companies /\ fence[g].dest \in Companies
          /\ fence[g].company = fence[g].store
      BY <3>1 DEF Owns, MoveInv, JoinInv, Named, Carried, Journal, WellPlaced
    <3>3. fence[g].store # k
      BY <2>2, <3>1, <3>2 DEF ActiveOn, Active
    <3>4. notes[fence[g].store] \subseteq notes[fence[g].dest]
      BY <3>1 DEF MoveInv, Carried, Journal, Kept
    <3> QED
      BY <2>7, <3>2, <3>3, <3>4
  <2>14. Receipts'
    <3>1. SUFFICES ASSUME NEW g \in Fences, receipt'[g] # None
                   PROVE  fence[g].phase # "unused" /\ receipt'[g].notes \subseteq notes'[fence[g].dest]
      BY <1>1 DEF Receipts
    <3>2. CASE g = f
      BY <2>3, <2>8, <2>9, <3>2 DEF Owns, Digest
    <3>3. CASE g # f
      <4>1. fence[g].phase # "unused" /\ receipt[g].notes \subseteq notes[fence[g].dest]
        BY <2>8, <3>1, <3>3 DEF MoveInv, Carried, Journal, Receipts
      <4>2. fence[g].dest \in Companies
        BY <4>1 DEF MoveInv, JoinInv, Named
      <4> QED
        BY <2>7, <2>8, <3>3, <4>1, <4>2
    <3> QED
      BY <3>2, <3>3
  <2> QED
    BY <2>10, <2>11, <2>12, <2>13, <2>14 DEF Carried, Journal
<1> QED
  BY <1>5, <1>6

(* The acceptance: the .env already says where the join goes.              *)
LEMMA AcceptCarries ==
    ASSUME MoveInv, NEW q \in Processes, Accept(q)
    PROVE  Carried'
<1> DEFINE p == ProfileOf[q]
           f == mine[q]
<1>t. TypeOK /\ p \in Profiles
  BY ProfilesOf DEF MoveInv, JoinInv
<1>1. /\ pc[q] = "accept" /\ Goto(q, "persist")
      /\ UNCHANGED <<key, to, from, lock, receipt, notes, edits, env, bound, work>>
      /\ mine' = mine /\ aim' = aim /\ fence' = [fence EXCEPT ![mine[q]].phase = "accepted"]
  BY DEF Accept, envVars, callVars
<1>2. lock[p] = q
  BY <1>1, HasLock DEF LockSteps, Steps
<1>3. Fine(q)
  BY DEF MoveInv, Carried
<1>4. /\ f \in Fences /\ Owns(p, f) /\ fence[f].phase = "fenced" /\ fence[f].store = bound[q]
      /\ env[q] = key[p] /\ bound[q] = key[p]
  BY <1>1, <1>3 DEF Fine, AtSource, MoveInv, JoinInv, Held, Locked, OnFence
<1>5. /\ from[p] = None /\ to[p] = fence[f].dest
      /\ receipt[f] = Digest(bound[q]) /\ notes[bound[q]] \subseteq notes[fence[f].dest]
  BY <1>1, <1>3 DEF Fine, BeforeKey, Announced, Copied, OnFence
<1>6. fence'[f] = [fence[f] EXCEPT !.phase = "accepted"]
      /\ \A g \in Fences \ {f} : fence'[g] = fence[g]
  BY <1>1, <1>4, <1>t, Types DEF FenceTypes
<1>7. Taken(f)
  BY <1>4, <1>6, <1>t, Types DEF FenceTypes, Taken, Same
<1>8. Changes(p)
  BY <1>4, <1>6, <1>7 DEF Changes
<1>9. pc'[q] = "persist" /\ \A r \in Processes \ {q} : pc'[r] = pc[r]
  BY <1>1, <1>t, GoesTo DEF Steps
<1>10. Fine(q)'
  <2>1. HoldsLock(q)' /\ BeforeKey(q)' /\ Announced(q)' /\ Freed(q)' /\ Returning(q)' /\ Copied(q)'
    BY <1>1, <1>2, <1>5, <1>9 DEF HoldsLock, BeforeKey, Announced, Freed, Returning, Copied
  <2>2. AtSource(q)'
    BY <1>1, <1>4, <1>7, <1>9 DEF AtSource, Owns, Taken, Same
  <2>3. NothingAccepted(q)'
    BY <1>9 DEF NothingAccepted
  <2> QED
    BY <2>1, <2>2, <2>3 DEF Fine
<1>11. ASSUME NEW r \in Processes \ {q} PROVE Fine(r)'
  BY <1>1, <1>2, <1>8, <1>9, OthersFine
<1>12. fence[f].company = key[p] /\ fence[f].store = key[p] /\ fence[f].phase # "unused"
  BY <1>4 DEF MoveInv, Carried, Journal, WellPlaced
<1>13. ASSUME NEW g \in Fences
       PROVE  /\ Same(g)
              /\ fence'[g].phase = "unused" <=> fence[g].phase = "unused"
              /\ fence'[g].phase \in Active <=> fence[g].phase \in Active
              /\ g # f => fence'[g].phase = fence[g].phase
              /\ \A r : Owns(r, g)' <=> Owns(r, g)
  <2>1. CASE g = f
    BY <1>4, <1>7, <2>1 DEF Taken, Same, Owns, Active
  <2>2. CASE g # f
    BY <1>6, <2>2 DEF Same, Owns
  <2> QED
    BY <2>1, <2>2
<1>14. WellPlaced' /\ OneActive'
  <2>1. WellPlaced'
    BY <1>13 DEF WellPlaced, Same, MoveInv, Carried, Journal
  <2>2. OneActive'
    BY <1>13 DEF OneActive, Same, MoveInv, Carried, Journal
  <2> QED
    BY <2>1, <2>2
<1>15. \A r \in Profiles : Owns(r, f) => r = p
  BY <1>4, <1>t, OneOwner
<1>16. Remembered'
  <2>1. SUFFICES ASSUME NEW r \in Profiles, NEW g \in Fences, Owns(r, g),
                        fence'[g].phase = "accepted"
                 PROVE  \/ from[r] = None /\ key[r] = fence[g].company /\ to[r] = fence[g].dest
                        \/ from[r] = fence[g].company /\ key[r] = fence[g].dest
    BY <1>1, <1>13 DEF Remembered, Same
  <2>2. CASE g = f
    BY <1>5, <1>12, <1>15, <2>1, <2>2
  <2>3. CASE g # f
    BY <1>13, <2>1, <2>3 DEF MoveInv, Carried, Journal, Remembered
  <2> QED
    BY <2>2, <2>3
<1>17. Kept'
  <2>1. SUFFICES ASSUME NEW r \in Profiles, NEW g \in Fences, Owns(r, g),
                        fence'[g].phase = "accepted", from[r] = None
                 PROVE  notes[fence[g].store] \subseteq notes[fence[g].dest]
    BY <1>1, <1>13 DEF Kept, Same
  <2>2. CASE g = f
    BY <1>4, <1>5, <2>2
  <2>3. CASE g # f
    BY <1>13, <2>1, <2>3 DEF MoveInv, Carried, Journal, Kept
  <2> QED
    BY <2>2, <2>3
<1>18. Receipts'
  BY <1>1, <1>13 DEF Receipts, Same, MoveInv, Carried, Journal
<1> QED
  BY <1>10, <1>11, <1>14, <1>16, <1>17, <1>18 DEF Carried, Journal

(* The key moves.  Every accepted fence of the profile is the one it moves *)
(* for; a process of the profile that does not see it has no join left.    *)
LEMMA PersistCarries ==
    ASSUME MoveInv, NEW q \in Processes, Persist(q)
    PROVE  Carried'
<1> DEFINE p == ProfileOf[q]
           f == mine[q]
           k == fence[f].dest
<1>t. TypeOK /\ p \in Profiles
  BY ProfilesOf DEF MoveInv, JoinInv
<1>1. /\ pc[q] = "persist" /\ Goto(q, "rebind")
      /\ UNCHANGED <<lock, receipt, notes, edits, bound, work>>
      /\ fence' = fence /\ mine' = mine /\ aim' = aim
  BY DEF Persist, storeVars, callVars
<1>2. /\ key'[p] = k /\ from'[p] = env[q] /\ to'[p] = None
      /\ \A r \in Profiles \ {p} : key'[r] = key[r] /\ from'[r] = from[r] /\ to'[r] = to[r]
  BY <1>t, Types DEF Persist, EnvTypes
<1>3. env'[q] = k /\ \A r \in Processes \ {q} : env'[r] = env[r]
  BY <1>t, Types DEF Persist, PlaceTypes
<1>4. pc'[q] = "rebind" /\ \A r \in Processes \ {q} : pc'[r] = pc[r]
  BY <1>1, <1>t, GoesTo DEF Steps
<1>5. lock[p] = q
  BY <1>1, HasLock DEF LockSteps, Steps
<1>6. /\ f \in Fences /\ Owns(p, f) /\ fence[f].phase = "accepted" /\ fence[f].store = bound[q]
      /\ env[q] = key[p] /\ bound[q] = key[p] /\ from[p] = None
  BY <1>1 DEF AtSource, BeforeKey, Fine, MoveInv, Carried, JoinInv, Held, OnFence
<1>7. /\ key[p] \in Companies /\ fence[f].company = key[p] /\ k \in Companies /\ k # key[p]
      /\ fence[f].phase # "unused"
  BY <1>6 DEF MoveInv, Carried, Journal, WellPlaced, JoinInv, Named
<1>8. ASSUME NEW g \in Fences, Owns(p, g), fence[g].phase = "accepted" PROVE g = f
  <2>1. fence[g].company \in Companies /\ fence[g].company = fence[g].store
    BY <1>8 DEF Owns, MoveInv, JoinInv, Named, Carried, Journal, WellPlaced
  <2>2. fence[g].company = key[p]
    BY <1>6, <1>8, <1>t, <2>1, NoneIsNobody DEF MoveInv, Carried, Journal, Remembered
  <2> QED
    BY <1>6, <1>8, <2>1, <2>2 DEF MoveInv, Carried, Journal, OneActive, Active
<1>9. Fine(q)'
  <2>1. /\ HoldsLock(q)' /\ AtSource(q)' /\ BeforeKey(q)' /\ Announced(q)' /\ Freed(q)'
        /\ NothingAccepted(q)' /\ Copied(q)'
    BY <1>1, <1>4, <1>5
       DEF HoldsLock, AtSource, BeforeKey, Announced, Freed, NothingAccepted, Copied, OnFence
  <2>2. Returning(q)'
    BY <1>1, <1>2, <1>3, <1>4, <1>6, <1>7, NoneIsNobody DEF Returning, Owns
  <2> QED
    BY <2>1, <2>2 DEF Fine
<1>10. Calm /\ Waning /\ Changes(p)
  BY <1>1, Unfenced
<1>11. ASSUME NEW r \in Processes \ {q} PROVE Fine(r)'
  BY <1>1, <1>2, <1>3, <1>4, <1>5, <1>10, OthersFine
<1>12. WellPlaced' /\ OneActive' /\ Receipts'
  BY <1>1 DEF WellPlaced, OneActive, Receipts, MoveInv, Carried, Journal
<1>13. Remembered'
  <2>1. SUFFICES ASSUME NEW r \in Profiles, NEW g \in Fences, Owns(r, g),
                        fence[g].phase = "accepted"
                 PROVE  \/ /\ from'[r] = None /\ key'[r] = fence[g].company
                           /\ to'[r] = fence[g].dest
                        \/ from'[r] = fence[g].company /\ key'[r] = fence[g].dest
    BY <1>1 DEF Remembered, Owns
  <2>2. CASE r = p
    BY <1>2, <1>6, <1>7, <1>8, <2>1, <2>2
  <2>3. CASE r # p
    BY <1>2, <2>1, <2>3 DEF MoveInv, Carried, Journal, Remembered
  <2> QED
    BY <2>2, <2>3
<1>14. Kept'
  <2>1. SUFFICES ASSUME NEW r \in Profiles, NEW g \in Fences, Owns(r, g),
                        fence[g].phase = "accepted", from'[r] = None
                 PROVE  notes[fence[g].store] \subseteq notes[fence[g].dest]
    BY <1>1 DEF Kept, Owns
  <2>2. r # p
    BY <1>2, <1>6, <1>7, <2>1, NoneIsNobody
  <2> QED
    BY <1>2, <2>1, <2>2 DEF MoveInv, Carried, Journal, Kept
<1> QED
  BY <1>9, <1>11, <1>12, <1>13, <1>14 DEF Carried, Journal

(* A recovery over: MEMORY_JOIN_FROM, or MEMORY_JOIN_TO, is cleared once   *)
(* nothing of the profile is left accepted.                                *)
LEMMA ClearCarries ==
    ASSUME MoveInv, NEW q \in Processes, ClearFrom(q) \/ ClearTo(q)
    PROVE  Carried'
<1> DEFINE p == ProfileOf[q]
<1>t. TypeOK /\ p \in Profiles
  BY ProfilesOf DEF MoveInv, JoinInv
<1>1. /\ pc[q] \in {"clear from", "clear to", "abandon to"}
      /\ UNCHANGED <<key, receipt, notes, edits, env, bound, work>> /\ fence' = fence
  BY DEF ClearFrom, ClearTo, storeVars
<1>2. lock[p] = q /\ pc[q] \in LockSteps
  BY <1>1, HasLock DEF LockSteps, Steps
<1>3. \A f \in Fences : Owns(p, f) => fence[f].phase # "accepted"
  BY <1>1 DEF MoveInv, Carried, Fine, NothingAccepted
<1>4. /\ from'[p] = None
      /\ \A r \in Profiles \ {p} : to'[r] = to[r] /\ from'[r] = from[r]
  <2>1. CASE ClearFrom(q)
    BY <1>t, <2>1, Types DEF ClearFrom, EnvTypes
  <2>2. CASE ClearTo(q)
    <3>1. from[p] = None
      BY <2>2 DEF ClearTo, MoveInv, Carried, Fine, BeforeKey
    <3> QED
      BY <1>t, <2>2, <3>1, Types DEF ClearTo, EnvTypes
  <2> QED
    BY <2>1, <2>2
<1>5. /\ Fine(q)' /\ pc'[q] \in {"up", "place"}
      /\ \A r \in Processes \ {q} : pc'[r] = pc[r] /\ mine'[r] = mine[r] /\ aim'[r] = aim[r]
      /\ \A s \in Profiles \ {p} : lock'[s] = lock[s]
  <2>1. CASE Leave(q)
    BY <2>1, GivesUpTheLock
  <2>2. CASE Recovered(q)
    BY <1>1, <1>2, <1>4, <2>2, RecoveredFine
  <2> QED
    BY <2>1, <2>2 DEF ClearFrom, ClearTo
<1>6. Calm /\ Waning /\ Changes(p)
  BY <1>1, Unfenced
<1>7. ASSUME NEW r \in Processes \ {q} PROVE Fine(r)'
  <2>1. /\ pc'[r] = pc[r] /\ env'[r] = env[r] /\ bound'[r] = bound[r]
        /\ mine'[r] = mine[r] /\ aim'[r] = aim[r]
    BY <1>1, <1>5
  <2>2. /\ \A s \in Profiles : lock'[s] = lock[s] \/ lock[s] \in {None, q}
        /\ \A s \in Profiles \ {p} : key'[s] = key[s] /\ to'[s] = to[s] /\ from'[s] = from[s]
    BY <1>1, <1>2, <1>4, <1>5
  <2>3. /\ \A f \in Fences : receipt'[f] = receipt[f] \/ Owns(p, f)
        /\ \A k \in Companies :
              /\ writer[k] \in {None, q} \/ (notes'[k] = notes[k] /\ edits'[k] = edits[k])
              /\ notes[k] \subseteq notes'[k]
    BY <1>1
  <2> QED
    BY <1>2, <1>6, <2>1, <2>2, <2>3, OthersFine
<1>8. WellPlaced' /\ OneActive' /\ Receipts'
  BY <1>1 DEF WellPlaced, OneActive, Receipts, MoveInv, Carried, Journal
<1>9. Remembered' /\ Kept'
  BY <1>1, <1>3, <1>4 DEF Remembered, Kept, Owns, MoveInv, Carried, Journal
<1> QED
  BY <1>5, <1>7, <1>8, <1>9 DEF Carried, Journal

LEMMA EndCarries ==
    ASSUME MoveInv, NEW q \in Processes, End(q)
    PROVE  Carried'
<1> DEFINE p == ProfileOf[q]
<1>t. TypeOK /\ p \in Profiles
  BY ProfilesOf DEF MoveInv, JoinInv
<1>1. UNCHANGED <<key, to, from, receipt, notes, edits>> /\ fence' = fence
  BY DEF End, envVars
<1>2. pc'[q] = "down" /\ \A r \in Processes \ {q} : pc'[r] = pc[r]
  BY <1>t, GoesTo DEF End, Steps
<1>3. /\ work'[q] = None /\ mine'[q] = None
      /\ \A r \in Processes \ {q} :
            /\ env'[r] = env[r] /\ bound'[r] = bound[r] /\ work'[r] = work[r]
            /\ mine'[r] = mine[r] /\ aim'[r] = aim[r]
  BY <1>t, Types DEF End, PlaceTypes, CallTypes
<1>4. \A r \in Profiles : lock'[r] = lock[r] \/ lock[r] \in {None, q}
  BY <1>t, Types DEF End, LockTypes
<1>5. Calm /\ Waning /\ Changes(p)
  BY <1>1, Unfenced
<1>6. Fine(q)'
  BY <1>2, <1>3, RestingFine
<1>7. ASSUME NEW r \in Processes \ {q} PROVE Fine(r)'
  BY <1>1, <1>2, <1>3, <1>4, <1>5, OthersFine
<1>8. Journal'
  BY <1>1, <1>5, JournalStays DEF MoveInv, Carried
<1> QED
  BY <1>6, <1>7, <1>8 DEF Carried

(* What a process is fine by does not speak of work in progress.           *)
LEMMA FineStays ==
    ASSUME NEW r \in Processes, Fine(r),
           UNCHANGED <<key, to, from, lock, receipt, notes, edits, pc, env, bound>>,
           fence' = fence, mine' = mine, aim' = aim
    PROVE  Fine(r)'
<1>1. HoldsLock(r)' /\ BeforeKey(r)' /\ Announced(r)' /\ Freed(r)'
  BY DEF Fine, HoldsLock, BeforeKey, Announced, Freed
<1>2. AtSource(r)' /\ Returning(r)' /\ NothingAccepted(r)'
  BY DEF Fine, AtSource, Returning, NothingAccepted, Owns
<1>3. Copied(r)'
  BY DEF Fine, Copied, Digest
<1> QED
  BY <1>1, <1>2, <1>3 DEF Fine

LEMMA BeginCarries ==
    ASSUME MoveInv, NEW q \in Processes, Begin(q)
    PROVE  Carried'
<1>t. TypeOK
  BY DEF MoveInv, JoinInv
<1>1. /\ pc[q] # "down"
      /\ UNCHANGED <<key, to, from, lock, receipt, notes, edits, pc, env, bound>>
      /\ fence' = fence /\ mine' = mine /\ aim' = aim
  BY DEF Begin, envVars, storeVars, callVars
<1>2. work'[q] = env[q] /\ \A r \in Processes \ {q} : work'[r] = work[r]
  BY <1>t, Types DEF Begin, PlaceTypes
<1>3. \A r \in Processes : Fine(r)'
  BY <1>1, FineStays DEF MoveInv, Carried
<1>4. Journal'
  BY <1>1, Unfenced, JournalStays DEF MoveInv, Carried
<1> QED
  BY <1>3, <1>4 DEF Carried

(* What is written reaches a store with an accepted fence on its company   *)
(* only from behind the key.                                               *)
LEMMA WriteCarries ==
    ASSUME MoveInv, ~strayed', NEW q \in Processes, NEW n \in Notes, Write(q, n)
    PROVE  Carried'
<1> DEFINE p == ProfileOf[q]
           b == bound[q]
<1>t. TypeOK /\ p \in Profiles
  BY ProfilesOf DEF MoveInv, JoinInv
<1>1. /\ work[q] # None /\ writer[b] = None
      /\ notes' = IF Refused(q) THEN notes ELSE [notes EXCEPT ![b] = @ \cup {n}]
      /\ UNCHANGED <<key, to, from, lock, receipt, edits, pc, env, bound>>
      /\ fence' = fence /\ mine' = mine /\ aim' = aim
  BY DEF Write, Free, envVars, callVars
<1>2. work'[q] = None /\ \A r \in Processes \ {q} : work'[r] = work[r]
  BY <1>t, Types DEF Write, PlaceTypes
<1>4. /\ \A c \in Companies : notes[c] \subseteq notes'[c] /\ (c # b => notes'[c] = notes[c])
      /\ Refused(q) => notes' = notes
  BY <1>1, <1>t, Types DEF StoreTypes
<1>5. ASSUME NEW r \in Processes PROVE Fine(r)'
  <2>1. Fine(r)
    BY DEF MoveInv, Carried
  <2>2. /\ HoldsLock(r)' /\ AtSource(r)' /\ BeforeKey(r)' /\ Announced(r)' /\ Freed(r)'
        /\ Returning(r)' /\ NothingAccepted(r)'
    BY <1>1, <2>1 DEF Fine, HoldsLock, AtSource, BeforeKey, Announced, Freed, Returning,
                      NothingAccepted, Owns
  <2>3. Copied(r)'
    <3>1. SUFFICES ASSUME pc[r] = "accept"
                   PROVE  /\ receipt[mine[r]] = Digest(bound[r])'
                          /\ notes'[bound[r]] \subseteq notes'[fence[mine[r]].dest]
      BY <1>1 DEF Copied
    <3>2. /\ writer[bound[r]] = r /\ bound[r] \in Companies /\ fence[mine[r]].dest \in Companies
      BY <3>1 DEF MoveInv, JoinInv, Locked, Attached, Held, Named, OnFence
    <3>3. notes'[bound[r]] = notes[bound[r]]
      BY <1>1, <1>4, <3>2, NoneIsNobody
    <3>4. /\ receipt[mine[r]] = Digest(bound[r])
          /\ notes[bound[r]] \subseteq notes[fence[mine[r]].dest]
      BY <2>1, <3>1 DEF Fine, Copied
    <3> QED
      BY <1>1, <1>4, <3>2, <3>3, <3>4 DEF Digest
  <2> QED
    BY <2>2, <2>3 DEF Fine
<1>6. WellPlaced' /\ OneActive' /\ Remembered'
  BY <1>1 DEF WellPlaced, OneActive, Remembered, Owns, MoveInv, Carried, Journal
<1>7. ASSUME NEW r \in Profiles, NEW g \in Fences, Owns(r, g), fence[g].phase = "accepted",
             from[r] = None
      PROVE  notes'[fence[g].store] \subseteq notes'[fence[g].dest]
  <2>1. /\ fence[g].store \in Companies /\ fence[g].dest \in Companies
        /\ fence[g].company = fence[g].store
        /\ notes[fence[g].store] \subseteq notes[fence[g].dest]
    BY <1>7 DEF Owns, MoveInv, JoinInv, Named, Carried, Journal, WellPlaced, Kept
  <2>2. CASE fence[g].store # b \/ Refused(q)
    BY <1>4, <2>1, <2>2
  <2>3. CASE fence[g].store = b /\ ~Refused(q)
    <3>1. ActiveOn(b, work[q]) = {} /\ key[p] = work[q]
      BY <2>3 DEF Refused
    <3>2. work[q] # b
      BY <1>7, <2>1, <2>3, <3>1 DEF ActiveOn, Active
    <3>3. pc[q] = "rebind"
      BY <2>3, <3>2 DEF Write
    <3>4. /\ from[p] \in Companies /\ mine[q] \in Fences /\ Owns(p, mine[q])
          /\ fence[mine[q]].phase = "accepted" /\ fence[mine[q]].store = b
      BY <3>3 DEF MoveInv, Carried, Fine, Returning
    <3>5. g = mine[q]
      BY <1>7, <2>3, <3>4 DEF MoveInv, Carried, Journal, OneActive, Active
    <3>6. r = p
      BY <1>7, <1>t, <3>4, <3>5, OneOwner
    <3> QED
      BY <1>7, <3>4, <3>6, NoneIsNobody
  <2> QED
    BY <2>2, <2>3
<1>8. Kept'
  BY <1>1, <1>7 DEF Kept, Owns
<1>9. Receipts'
  <2>1. SUFFICES ASSUME NEW g \in Fences, receipt[g] # None
                 PROVE  fence[g].phase # "unused" /\ receipt[g].notes \subseteq notes'[fence[g].dest]
    BY <1>1 DEF Receipts
  <2>2. fence[g].phase # "unused" /\ receipt[g].notes \subseteq notes[fence[g].dest]
    BY <2>1 DEF MoveInv, Carried, Journal, Receipts
  <2>3. fence[g].dest \in Companies
    BY <2>2 DEF MoveInv, JoinInv, Named
  <2> QED
    BY <1>4, <2>2, <2>3
<1> QED
  BY <1>5, <1>6, <1>8, <1>9 DEF Carried, Journal

LEMMA EditCarries ==
    ASSUME MoveInv, NEW k \in Companies, Edit(k)
    PROVE  Carried'
<1>t. TypeOK
  BY DEF MoveInv, JoinInv
<1>1. /\ writer[k] = None /\ edits' = [edits EXCEPT ![k] = @ + 1]
      /\ UNCHANGED <<key, to, from, lock, receipt, notes, pc, env, bound, work>>
      /\ fence' = fence /\ mine' = mine /\ aim' = aim
  BY DEF Edit, Free, envVars, procVars, callVars
<1>2. ASSUME NEW r \in Processes PROVE Fine(r)'
  <2>1. Fine(r)
    BY DEF MoveInv, Carried
  <2>2. /\ HoldsLock(r)' /\ AtSource(r)' /\ BeforeKey(r)' /\ Announced(r)' /\ Freed(r)'
        /\ Returning(r)' /\ NothingAccepted(r)'
    BY <1>1, <2>1 DEF Fine, HoldsLock, AtSource, BeforeKey, Announced, Freed, Returning,
                      NothingAccepted, Owns
  <2>3. Copied(r)'
    <3>1. SUFFICES ASSUME pc[r] = "accept"
                   PROVE  /\ receipt[mine[r]] = Digest(bound[r])'
                          /\ notes[bound[r]] \subseteq notes[fence[mine[r]].dest]
      BY <1>1 DEF Copied
    <3>2. writer[bound[r]] = r /\ bound[r] \in Companies
      BY <3>1 DEF MoveInv, JoinInv, Locked, Attached
    <3>3. edits'[bound[r]] = edits[bound[r]]
      BY <1>1, <1>t, <3>2, NoneIsNobody, Types DEF StoreTypes
    <3> QED
      BY <1>1, <2>1, <3>1, <3>3 DEF Fine, Copied, Digest
  <2> QED
    BY <2>2, <2>3 DEF Fine
<1>3. Journal'
  BY <1>1, Unfenced, JournalStays DEF MoveInv, Carried
<1> QED
  BY <1>2, <1>3 DEF Carried

------------------------------------------------------------------------------
LEMMA MoveInit == Init => MoveInv
<1> SUFFICES ASSUME Init PROVE Carried
  BY InitHolds DEF MoveInv
<1>1. /\ \A q \in Processes : pc[q] = "down" /\ work[q] = None /\ mine[q] = None
      /\ \A f \in Fences : fence[f].phase = "unused" /\ receipt[f] = None
      /\ \A p \in Profiles : from[p] = None
  BY DEF Init, NoFence
<1>2. \A q \in Processes : Fine(q)
  BY <1>1 DEF Fine, HoldsLock, AtSource, BeforeKey, Announced, Freed, Returning, NothingAccepted,
              Copied, OnFence, LockSteps
<1>3. Journal
  BY <1>1 DEF Journal, WellPlaced, OneActive, Remembered, Kept, Receipts, Owns, Active
<1> QED
  BY <1>2, <1>3 DEF Carried

LEMMA MoveStep == MoveInv /\ ~strayed' /\ [Next]_vars => MoveInv'
<1> SUFFICES ASSUME MoveInv, ~strayed', [Next]_vars PROVE Carried'
  BY StepHolds DEF MoveInv
<1>1. CASE UNCHANGED vars
  <2>1. /\ UNCHANGED <<key, to, from, lock, receipt, notes, edits, pc, env, bound, work>>
        /\ fence' = fence /\ mine' = mine /\ aim' = aim
    BY <1>1 DEF vars, envVars, storeVars, procVars, callVars
  <2>2. \A r \in Processes : Fine(r)'
    BY <2>1, FineStays DEF MoveInv, Carried
  <2>3. Journal'
    BY <2>1, Unfenced, JournalStays DEF MoveInv, Carried
  <2> QED
    BY <2>2, <2>3 DEF Carried
<1>2. ASSUME NEW q \in Processes,
             \/ Start(q) \/ Step(q) \/ Fail(q) \/ Begin(q) \/ Stop(q) \/ Crash(q) \/ ReleaseFence(q)
             \/ \E k \in Companies : Join(q, k)
             \/ \E n \in Notes : Write(q, n)
      PROVE  Carried'
  <2>1. CASE Step(q)
    BY <2>1, BootCarries, BeforeKeyCarries, StrayCarries, BindingCarries, PlaceCarries,
       EvaluateCarries, ReleaseCarries, AnnounceCarries, ImportCarries, AcceptCarries,
       PersistCarries, CompleteCarries, ClearCarries DEF Step
  <2>2. CASE Stop(q) \/ Crash(q)
    BY <2>2, EndCarries DEF Stop, Crash
  <2> QED
    BY <1>2, <2>1, <2>2, StartCarries, FailCarries, BeginCarries, ByHandCarries, BootCarries,
       WriteCarries
<1>3. CASE \E k \in Companies : Edit(k)
  BY <1>3, EditCarries
<1> QED
  BY <1>1, <1>2, <1>3 DEF Next

(* A process that strayed stays so.                                        *)
LEMMA StraysForGood == [Next]_vars /\ strayed => strayed'
<1> SUFFICES ASSUME [Next]_vars, strayed PROVE strayed'
  OBVIOUS
<1>1. ASSUME NEW q \in Processes, Step(q) PROVE strayed'
  BY <1>1 DEF Step, BootRecovers, JoinLocks, RecoverAfterKey, RecoverBeforeKey, RecoverStray,
         Place, Evaluate, Rest, Announce, Import, Accept, Persist, Rebind, Complete, ClearFrom,
         Release, ClearTo
<1>2. ASSUME NEW q \in Processes,
             \/ Start(q) \/ Fail(q) \/ Begin(q) \/ Stop(q) \/ Crash(q) \/ ReleaseFence(q)
             \/ \E k \in Companies : Join(q, k)
             \/ \E n \in Notes : Write(q, n)
      PROVE  strayed'
  BY <1>2 DEF Start, Fail, Begin, Stop, Crash, End, ReleaseFence, Join, Write
<1>3. CASE \E k \in Companies : Edit(k)
  BY <1>3 DEF Edit
<1>4. CASE UNCHANGED vars
  BY <1>4 DEF vars
<1> QED
  BY <1>1, <1>2, <1>3, <1>4 DEF Next

(* The invariant, as long as no process went astray.                       *)
Sound == JoinInv /\ (~strayed => Carried)

THEOREM MoveHolds == Spec => []Sound
<1>1. Init => Sound
  BY MoveInit DEF MoveInv, Sound
<1>2. Sound /\ [Next]_vars => Sound'
  <2>1. SUFFICES ASSUME Sound, [Next]_vars PROVE JoinInv' /\ (~strayed' => Carried')
    BY DEF Sound
  <2>2. JoinInv'
    BY <2>1, StepHolds DEF Sound
  <2>3. ASSUME ~strayed' PROVE Carried'
    <3>1. ~strayed
      BY <2>1, <2>3, StraysForGood
    <3> QED
      BY <2>1, <2>3, <3>1, MoveStep DEF Sound, MoveInv
  <2> QED
    BY <2>2, <2>3
<1> QED
  BY <1>1, <1>2, PTL DEF Spec

(* Only the acceptance makes a fence accepted.                             *)
LEMMA StepAccepts ==
    ASSUME JoinInv, Next, NEW f \in Fences,
           fence'[f].phase = "accepted", fence[f].phase # "accepted"
    PROVE  \E q \in Processes : Accept(q)
<1>1. fence' # fence
  OBVIOUS
<1>2. ASSUME NEW g \in Fences, Move(g, "fenced", "released") PROVE FALSE
  BY <1>2, Moving DEF Active, JoinInv
<1>3. ASSUME NEW q \in Processes, RecoverStray(q) \/ ReleaseFence(q) PROVE FALSE
  BY <1>1, <1>2, <1>3 DEF RecoverStray, ReleaseFence, MineOn, ActiveOn
<1>4. ASSUME NEW q \in Processes, Rest(q) \/ Release(q) PROVE FALSE
  <2>1. mine[q] \in Fences
    BY <1>4 DEF Rest, Release, JoinInv, Held, OnFence
  <2> QED
    BY <1>2, <1>4, <2>1 DEF Rest, Release
<1>5. ASSUME NEW q \in Processes, Place(q) PROVE FALSE
  <2>1. ASSUME NEW g \in Unused(ProfileOf[q]),
               fence' = [fence EXCEPT ![g] =
                   [store |-> bound[q], company |-> env[q], dest |-> aim[q],
                    owner |-> OwnerOf[ProfileOf[q]], phase |-> "fenced"]]
        PROVE  FALSE
    BY <2>1, Types DEF Unused, FenceTypes, JoinInv
  <2> QED
    BY <1>1, <1>5, <2>1 DEF Place
<1>6. ASSUME NEW q \in Processes, Complete(q) PROVE FALSE
  BY <1>6, Completed
<1>7. ASSUME NEW q \in Processes, Step(q) PROVE Accept(q)
  BY <1>1, <1>3, <1>4, <1>5, <1>6, <1>7
     DEF Step, BootRecovers, JoinLocks, RecoverAfterKey, RecoverBeforeKey, Evaluate, Announce,
         Import, Persist, Rebind, ClearFrom, ClearTo
<1>8. ASSUME NEW q \in Processes,
             \/ Start(q) \/ Fail(q) \/ Begin(q) \/ Stop(q) \/ Crash(q)
             \/ \E k \in Companies : Join(q, k)
             \/ \E n \in Notes : Write(q, n)
      PROVE  FALSE
  BY <1>1, <1>8 DEF Start, Fail, Begin, Stop, Crash, End, Join, Write
<1>9. ASSUME NEW k \in Companies, Edit(k) PROVE FALSE
  BY <1>1, <1>9 DEF Edit
<1> QED
  BY <1>3, <1>7, <1>8, <1>9 DEF Next

(* Nothing is ever taken out of a store, and only finish writes a key.     *)
LEMMA StepAdds ==
    ASSUME JoinInv, [Next]_vars
    PROVE  /\ \A k \in Companies : notes[k] \subseteq notes'[k]
           /\ key' = key \/ \E q \in Processes : Persist(q)
<1>1. ASSUME NEW q \in Processes, Import(q) PROVE \A k \in Companies : notes[k] \subseteq notes'[k]
  BY <1>1, Types DEF Import, StoreTypes, JoinInv, storeVars
<1>2. ASSUME NEW q \in Processes, NEW n \in Notes, Write(q, n)
      PROVE  \A k \in Companies : notes[k] \subseteq notes'[k]
  BY <1>2, Types DEF Write, StoreTypes, JoinInv
<1>3. ASSUME NEW q \in Processes, Step(q), ~Import(q) PROVE notes' = notes
  BY <1>3 DEF Step, BootRecovers, JoinLocks, RecoverAfterKey, RecoverBeforeKey, RecoverStray,
         Place, Evaluate, Rest, Announce, Accept, Persist, Rebind, Complete, ClearFrom, Release,
         ClearTo, storeVars
<1>4. ASSUME NEW q \in Processes, Step(q), ~Persist(q) PROVE key' = key
  BY <1>4 DEF Step, BootRecovers, JoinLocks, RecoverAfterKey, RecoverBeforeKey, RecoverStray,
         Place, Evaluate, Rest, Announce, Import, Accept, Rebind, Complete, ClearFrom, Release,
         ClearTo, envVars
<1>5. ASSUME NEW q \in Processes,
             \/ Start(q) \/ Fail(q) \/ Begin(q) \/ Stop(q) \/ Crash(q) \/ ReleaseFence(q)
             \/ \E k \in Companies : Join(q, k)
      PROVE  notes' = notes /\ key' = key
  BY <1>5 DEF Start, Fail, Begin, Stop, Crash, End, ReleaseFence, Join, envVars, storeVars
<1>6. ASSUME NEW q \in Processes, NEW n \in Notes, Write(q, n) PROVE key' = key
  BY <1>6 DEF Write, envVars
<1>7. ASSUME NEW k \in Companies, Edit(k) PROVE notes' = notes /\ key' = key
  BY <1>7 DEF Edit, envVars
<1>8. CASE UNCHANGED vars
  BY <1>8 DEF vars, envVars, storeVars
<1>9. \A k \in Companies : notes[k] \subseteq notes'[k]
  BY <1>1, <1>2, <1>3, <1>5, <1>7, <1>8 DEF Next
<1>10. key' = key \/ \E q \in Processes : Persist(q)
  BY <1>4, <1>5, <1>6, <1>7, <1>8 DEF Next
<1> QED
  BY <1>9, <1>10

(* An accepted fence is never orphaned: the .env of its profile says where *)
(* the join stopped, whichever step a process died at, so the next         *)
(* recovery finds it.                                                      *)
THEOREM AcceptedNeverOrphaned == Spec => []AcceptedIsRemembered
<1>1. Sound => AcceptedIsRemembered
  <2>1. SUFFICES ASSUME MoveInv, NEW f \in Fences, fence[f].phase = "accepted"
                 PROVE  \E p \in Profiles :
                           /\ OwnerOf[p] = fence[f].owner
                           /\ \/ key[p] = fence[f].company /\ to[p] = fence[f].dest
                              \/ key[p] = fence[f].dest /\ from[p] = fence[f].company
    BY DEF AcceptedIsRemembered, Remembers, Sound, MoveInv
  <2>2. PICK p \in Profiles : f \in IdsOf[p] /\ fence[f].owner = OwnerOf[p]
    BY <2>1 DEF MoveInv, Carried, Journal, WellPlaced
  <2>3. Owns(p, f)
    BY <2>1, <2>2 DEF Owns
  <2> QED
    BY <2>1, <2>2, <2>3 DEF MoveInv, Carried, Journal, Remembered
<1> QED
  BY <1>1, MoveHolds, PTL

(* A fence is accepted for exactly what its import copied: whoever takes   *)
(* the step, the store is what the receipt says and the destination holds  *)
(* it.                                                                     *)
THEOREM AcceptsOnlyTheCopy == Spec => AcceptsWhatItCopied
<1> DEFINE Exact ==
        ~strayed => \A f \in Fences :
            fence'[f].phase = "accepted" /\ fence[f].phase # "accepted" =>
                /\ receipt[f] = Digest(fence[f].store)
                /\ notes[fence[f].store] \subseteq notes[fence[f].dest]
<1>1. Sound /\ [Next]_vars => Exact
  <2>1. SUFFICES ASSUME MoveInv, Next, NEW f \in Fences,
                        fence'[f].phase = "accepted", fence[f].phase # "accepted"
                 PROVE  /\ receipt[f] = Digest(fence[f].store)
                        /\ notes[fence[f].store] \subseteq notes[fence[f].dest]
    BY DEF vars, Sound, MoveInv
  <2>2. PICK q \in Processes : Accept(q)
    BY <2>1, StepAccepts DEF MoveInv
  <2>3. pc[q] = "accept" /\ fence' = [fence EXCEPT ![mine[q]].phase = "accepted"]
    BY <2>2 DEF Accept
  <2>4. f = mine[q]
    BY <2>1, <2>3, Types DEF MoveInv, JoinInv, FenceTypes
  <2>5. fence[f].store = bound[q]
    BY <2>1, <2>3, <2>4 DEF MoveInv, JoinInv, Held, OnFence
  <2> QED
    BY <2>1, <2>3, <2>4, <2>5 DEF MoveInv, Carried, Fine, Copied
<1> HIDE DEF Exact
<1>2. Spec => [][Exact]_vars
  BY <1>1, MoveHolds, PTL DEF Spec
<1> QED
  BY <1>2 DEF Exact, AcceptsWhatItCopied

(* A profile that moves leaves nothing behind: at the step its .env names  *)
(* another company, that company's store holds all of the one it leaves.   *)
THEOREM NothingIsLeftBehind == Spec => NothingLeftBehind
<1> DEFINE Keeps == ~strayed => \A p \in Profiles : notes[key[p]] \subseteq notes'[key'[p]]
<1>1. Sound /\ [Next]_vars => Keeps
  <2>1. SUFFICES ASSUME MoveInv, [Next]_vars, NEW p \in Profiles
                 PROVE  notes[key[p]] \subseteq notes'[key'[p]]
    BY DEF Sound, MoveInv
  <2>2. CASE key' = key
    BY <2>1, <2>2, StepAdds, Types DEF MoveInv, JoinInv, EnvTypes
  <2>3. CASE key' # key
    <3>1. PICK q \in Processes : Persist(q)
      BY <2>1, <2>3, StepAdds DEF MoveInv
    <3>2. /\ pc[q] = "persist" /\ notes' = notes
          /\ key' = [key EXCEPT ![ProfileOf[q]] = fence[mine[q]].dest]
      BY <3>1 DEF Persist, storeVars
    <3>3. /\ mine[q] \in Fences /\ Owns(ProfileOf[q], mine[q])
          /\ fence[mine[q]].phase = "accepted" /\ from[ProfileOf[q]] = None
          /\ fence[mine[q]].store = key[ProfileOf[q]]
      BY <2>1, <3>2 DEF AtSource, BeforeKey, Fine, MoveInv, Carried, JoinInv, Held, OnFence
    <3>4. notes[key[ProfileOf[q]]] \subseteq notes[fence[mine[q]].dest]
      BY <2>1, <3>3, ProfilesOf DEF MoveInv, Carried, Journal, Kept
    <3> QED
      BY <2>1, <3>2, <3>4, Types DEF MoveInv, JoinInv, EnvTypes
  <2> QED
    BY <2>2, <2>3
<1> HIDE DEF Keeps
<1>2. Spec => [][Keeps]_vars
  BY <1>1, MoveHolds, PTL DEF Spec
<1> QED
  BY <1>2 DEF Keeps, NothingLeftBehind

==============================================================================
