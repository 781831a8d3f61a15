-------------------------- MODULE BudgetLedgerProofs --------------------------
(***************************************************************************)
(* What holds of the budget ledger for every set of calls, every bound and *)
(* every length of a day: no charge of a provider leaves the ledger, but   *)
(* those of dropped connections; a metered hold is closed by its receipt   *)
(* only; and the daily limit holds.  The limit is about sums over sets of  *)
(* calls, whose laws come first among what it rests on.                    *)
(***************************************************************************)
EXTENDS BudgetLedger, FiniteSetTheorems, TLAPS

(* Before it is sent a call has no charge and its hold, if any, is open;   *)
(* from the dispatch to the answer it has one.                             *)
ChargedOnceSent ==
    \A c \in Calls :
        /\ pc[c] \in {"idle", "reserved"} => charge[c] = Unsent
        /\ pc[c] = "reserved" => hold[c] = "open"
        /\ pc[c] \in {"sent", "answered"} => charge[c] # Unsent

LedgerInv == TypeOK /\ ChargedOnceSent /\ MeteredByReceipt

LEMMA Numbers == /\ MaxTime \in Nat /\ Day \in Nat \ {0} /\ Horizon \in Nat \ {0} /\ MaxOverrun \in Nat
                 /\ Caps \subseteq Nat
                 /\ \A c \in Calls : BoundOf[c] \in Nat
  BY LedgerAssumption

LEMMA InitHolds == Init => LedgerInv
<1>1. HAVE Init
<1>2. now \in 0..MaxTime
  BY <1>1, Numbers DEF Init
<1>3. TypeOK
  BY <1>1, <1>2, Numbers DEF Init, TypeOK
<1> QED
  BY <1>1, <1>3 DEF Init, LedgerInv, ChargedOnceSent, MeteredByReceipt

(* What settling one call does to the ledger: nothing when it was settled, *)
(* else its one usage row.                                                 *)
LEMMA SettleOnce ==
    ASSUME TypeOK, NEW c \in Calls, NEW amount \in Nat, Settle(c, amount), hold[c] # "none"
    PROVE  /\ hold' = [hold EXCEPT ![c] = "settled"]
           /\ cost' \in [Calls -> Nat] /\ ts' \in [Calls -> 0..MaxTime] /\ at' = at
           /\ cost'[c] = IF hold[c] = "settled" THEN cost[c] ELSE amount
           /\ \A d \in Calls \ {c} : cost'[d] = cost[d]
<1>1. CASE hold[c] = "settled"
  <2>1. hold' = hold /\ cost' = cost /\ ts' = ts /\ at' = at
    BY <1>1 DEF Settle
  <2>2. hold = [hold EXCEPT ![c] = "settled"]
    BY <1>1 DEF TypeOK
  <2> QED
    BY <1>1, <2>1, <2>2 DEF TypeOK
<1>2. CASE hold[c] # "settled"
  BY <1>2 DEF Settle, TypeOK
<1> QED
  BY <1>1, <1>2

(* A step that settles one admitted call, at its charge or at zero.        *)
LEMMA SettlingKeeps ==
    ASSUME LedgerInv, NEW c \in Calls, NEW amount \in Nat, Settle(c, amount),
           pc[c] # "idle",
           TransportOf[c] = "proxy" => amount = charge[c] /\ charge[c] # Unsent,
           \/ pc[c] # "reserved" /\ pc' = pc
           \/ pc' = [pc EXCEPT ![c] = "done"],
           UNCHANGED <<now, cap, charge, granted>>, dropped' \subseteq Calls
    PROVE  LedgerInv'
<1> USE DEF LedgerInv
<1>1. hold[c] # "none"
  BY DEF TypeOK
<1>2. /\ hold' = [hold EXCEPT ![c] = "settled"]
      /\ cost' \in [Calls -> Nat] /\ ts' \in [Calls -> 0..MaxTime] /\ at' = at
      /\ cost'[c] = IF hold[c] = "settled" THEN cost[c] ELSE amount
      /\ \A d \in Calls \ {c} : cost'[d] = cost[d]
  BY <1>1, SettleOnce
<1>3. /\ hold'[c] = "settled" /\ pc'[c] \notin {"idle", "reserved"}
      /\ pc'[c] = pc[c] \/ pc'[c] = "done"
      /\ \A d \in Calls \ {c} : hold'[d] = hold[d] /\ pc'[d] = pc[d]
      /\ hold' \in [Calls -> {"none", "open", "settled"}]
      /\ pc' \in [Calls -> {"idle", "reserved", "sent", "answered", "done"}]
  BY <1>2 DEF TypeOK
<1>4. TypeOK'
  BY <1>2, <1>3 DEF TypeOK
<1>5. ChargedOnceSent'
  BY <1>3 DEF ChargedOnceSent
<1>6. MeteredByReceipt'
  BY <1>2, <1>3 DEF MeteredByReceipt, TypeOK
<1> QED
  BY <1>4, <1>5, <1>6

(* A step that leaves the ledger and the charges alone and moves one       *)
(* admitted call on.                                                       *)
LEMMA MovingKeeps ==
    ASSUME LedgerInv, NEW c \in Calls, NEW step \in {"sent", "answered", "done"}, Goto(c, step),
           pc[c] # "idle", step \in {"sent", "answered"} => charge[c] # Unsent,
           UNCHANGED <<ledger, now, cap, charge, granted>>, dropped' \subseteq Calls
    PROVE  LedgerInv'
<1> USE DEF LedgerInv
<1>1. /\ hold' = hold /\ at' = at /\ cost' = cost /\ ts' = ts /\ now' = now /\ cap' = cap
      /\ charge' = charge /\ granted' = granted
  BY DEF ledger
<1>2. /\ pc'[c] = step /\ \A d \in Calls \ {c} : pc'[d] = pc[d]
      /\ pc' \in [Calls -> {"idle", "reserved", "sent", "answered", "done"}]
  BY DEF Goto, TypeOK
<1>3. TypeOK'
  BY <1>1, <1>2 DEF TypeOK
<1>4. ChargedOnceSent'
  BY <1>1, <1>2 DEF ChargedOnceSent
<1>5. MeteredByReceipt'
  BY <1>1 DEF MeteredByReceipt
<1> QED
  BY <1>3, <1>4, <1>5

(* Giving a hold back: a settlement at zero, or nothing where only the     *)
(* receipt may settle.                                                     *)
LEMMA GivingBackKeeps ==
    ASSUME LedgerInv, NEW c \in Calls, pc[c] # "idle", GiveBack(c), Goto(c, "done"),
           UNCHANGED <<now, cap, charge, granted>>, dropped' \subseteq Calls
    PROVE  LedgerInv'
<1>1. CASE TransportOf[c] = "proxy"
  <2>1. UNCHANGED <<ledger, now, cap, charge, granted>>
    BY <1>1 DEF GiveBack
  <2> QED
    BY <2>1, MovingKeeps
<1>2. CASE TransportOf[c] # "proxy"
  <2>1. Settle(c, 0)
    BY <1>2 DEF GiveBack
  <2>2. pc' = [pc EXCEPT ![c] = "done"]
    BY DEF Goto
  <2> QED
    BY <1>2, <2>1, <2>2, SettlingKeeps
<1> QED
  BY <1>1, <1>2

(* An admission opens the hold of a call that has none.                    *)
LEMMA ReserveKeeps ==
    ASSUME LedgerInv, NEW c \in Calls, Reserve(c)
    PROVE  LedgerInv'
<1> USE DEF LedgerInv
<1>1. /\ pc[c] = "idle" /\ hold' = [hold EXCEPT ![c] = "open"] /\ at' = [at EXCEPT ![c] = now]
      /\ granted' = cap /\ pc' = [pc EXCEPT ![c] = "reserved"]
      /\ cost' = cost /\ ts' = ts /\ now' = now /\ cap' = cap /\ charge' = charge
      /\ dropped' = dropped
  BY DEF Reserve, Goto
<1>2. /\ hold'[c] = "open" /\ pc'[c] = "reserved"
      /\ \A d \in Calls \ {c} : hold'[d] = hold[d] /\ pc'[d] = pc[d]
      /\ hold' \in [Calls -> {"none", "open", "settled"}]
      /\ pc' \in [Calls -> {"idle", "reserved", "sent", "answered", "done"}]
      /\ at' \in [Calls -> 0..MaxTime]
  BY <1>1 DEF TypeOK
<1>3. TypeOK'
  BY <1>1, <1>2 DEF TypeOK
<1>4. ChargedOnceSent'
  BY <1>1, <1>2 DEF ChargedOnceSent
<1>5. MeteredByReceipt'
  BY <1>1, <1>2 DEF MeteredByReceipt
<1> QED
  BY <1>3, <1>4, <1>5

(* A request leaves with its hold open, so what it is charged is unsettled.*)
LEMMA DispatchKeeps ==
    ASSUME LedgerInv, NEW c \in Calls, Dispatch(c)
    PROVE  LedgerInv'
<1> USE DEF LedgerInv
<1>1. PICK n \in Charges(c) : charge' = [charge EXCEPT ![c] = n]
  BY DEF Dispatch
<1>2. n \in Nat
  BY <1>1, Numbers DEF Charges
<1>3. /\ pc[c] = "reserved" /\ pc' = [pc EXCEPT ![c] = "sent"]
      /\ hold' = hold /\ at' = at /\ cost' = cost /\ ts' = ts /\ now' = now /\ cap' = cap
      /\ granted' = granted /\ dropped' = dropped
  BY DEF Dispatch, Goto, ledger
<1>4. /\ hold[c] = "open" /\ pc'[c] = "sent"
      /\ \A d \in Calls \ {c} : charge'[d] = charge[d] /\ pc'[d] = pc[d]
      /\ charge' \in [Calls -> Nat \cup {Unsent}]
      /\ pc' \in [Calls -> {"idle", "reserved", "sent", "answered", "done"}]
      /\ charge'[c] # Unsent
  BY <1>1, <1>2, <1>3 DEF TypeOK, ChargedOnceSent, Unsent
<1>5. TypeOK'
  BY <1>3, <1>4 DEF TypeOK
<1>6. ChargedOnceSent'
  BY <1>3, <1>4 DEF ChargedOnceSent
<1>7. MeteredByReceipt'
  BY <1>3, <1>4 DEF MeteredByReceipt
<1> QED
  BY <1>5, <1>6, <1>7

(* The owner's limit and the clock.                                        *)
LEMMA OutsideKeeps ==
    ASSUME LedgerInv, (\E v \in Caps : SetCap(v)) \/ Tick
    PROVE  LedgerInv'
<1> USE DEF LedgerInv
<1>1. /\ hold' = hold /\ at' = at /\ cost' = cost /\ ts' = ts
      /\ pc' = pc /\ charge' = charge /\ granted' = granted /\ dropped' = dropped
  BY DEF SetCap, Tick, ledger
<1>2. cap' \in Caps /\ now' \in 0..MaxTime
  <2>1. CASE \E v \in Caps : SetCap(v)
    BY <2>1 DEF SetCap, TypeOK
  <2>2. CASE Tick
    BY <2>2, Numbers DEF Tick, TypeOK
  <2> QED
    BY <2>1, <2>2
<1>3. TypeOK'
  BY <1>1, <1>2 DEF TypeOK
<1> QED
  BY <1>1, <1>3 DEF ChargedOnceSent, MeteredByReceipt

LEMMA StepHolds == LedgerInv /\ [Next]_vars => LedgerInv'
<1> SUFFICES ASSUME LedgerInv, [Next]_vars PROVE LedgerInv'
  OBVIOUS
<1>1. ASSUME NEW c \in Calls, Reserve(c) PROVE LedgerInv'
  BY <1>1, ReserveKeeps
<1>2. ASSUME NEW c \in Calls, Withdraw(c) PROVE LedgerInv'
  BY <1>2, GivingBackKeeps DEF Withdraw, LedgerInv, TypeOK
<1>3. ASSUME NEW c \in Calls, Dispatch(c) PROVE LedgerInv'
  BY <1>3, DispatchKeeps
<1>4. ASSUME NEW c \in Calls, Rejected(c) PROVE LedgerInv'
  <2>1. dropped' \subseteq Calls
    BY <1>4 DEF Rejected, LedgerInv, TypeOK
  <2>2. CASE TransportOf[c] = "direct"
    BY <1>4, <2>1, <2>2, GivingBackKeeps DEF Rejected
  <2>3. CASE TransportOf[c] # "direct"
    BY <1>4, <2>1, <2>3, MovingKeeps DEF Rejected
  <2> QED
    BY <2>2, <2>3
<1>5. ASSUME NEW c \in Calls, Answered(c) PROVE LedgerInv'
  BY <1>5, MovingKeeps DEF Answered, LedgerInv, TypeOK, ChargedOnceSent
<1>6. ASSUME NEW c \in Calls, SettleAnswer(c) PROVE LedgerInv'
  <2>1. pc[c] = "answered" /\ charge[c] \in Nat /\ charge[c] # Unsent /\ Settle(c, charge[c])
    BY <1>6 DEF SettleAnswer, LedgerInv, TypeOK, ChargedOnceSent
  <2>2. /\ pc' = [pc EXCEPT ![c] = "done"] /\ UNCHANGED <<now, cap, charge, granted>>
        /\ dropped' \subseteq Calls
    BY <1>6 DEF SettleAnswer, Goto, LedgerInv, TypeOK
  <2> QED
    BY <2>1, <2>2, SettlingKeeps
<1>7. ASSUME NEW c \in Calls, Abandon(c) PROVE LedgerInv'
  BY <1>7, MovingKeeps DEF Abandon, LedgerInv, TypeOK
<1>8. ASSUME NEW c \in Calls, Reconcile(c) PROVE LedgerInv'
  <2>1. charge[c] \in Nat /\ charge[c] # Unsent /\ Settle(c, charge[c])
    BY <1>8 DEF Reconcile, LedgerInv, TypeOK
  <2>2. /\ pc[c] \notin {"idle", "reserved"} /\ pc' = pc /\ UNCHANGED <<now, cap, charge, granted>>
        /\ dropped' \subseteq Calls
    BY <1>8 DEF Reconcile, LedgerInv, TypeOK, ChargedOnceSent
  <2> QED
    BY <2>1, <2>2, SettlingKeeps
<1>9. ASSUME (\E v \in Caps : SetCap(v)) \/ Tick PROVE LedgerInv'
  BY <1>9, OutsideKeeps
<1>10. CASE UNCHANGED vars
  BY <1>10 DEF vars, ledger, LedgerInv, TypeOK, ChargedOnceSent, MeteredByReceipt
<1> QED
  BY <1>1, <1>2, <1>3, <1>4, <1>5, <1>6, <1>7, <1>8, <1>9, <1>10 DEF Next

LEMMA InvHolds == Spec => []LedgerInv
  BY InitHolds, StepHolds, PTL DEF Spec

(* The ledger is well typed, and a call has a reservation exactly from its *)
(* admission on.                                                           *)
THEOREM TypeCorrect == Spec => []TypeOK
<1>1. LedgerInv => TypeOK
  BY DEF LedgerInv
<1> QED
  BY <1>1, InvHolds, PTL

(* A metered hold is only ever closed by its receipt, at what the proxy    *)
(* debited, whichever of the call and the recovery comes first.            *)
THEOREM ClosedByReceipt == Spec => []MeteredByReceipt
<1>1. LedgerInv => MeteredByReceipt
  BY DEF LedgerInv
<1> QED
  BY <1>1, InvHolds, PTL

------------------------------------------------------------------------------
(* No charge leaves the ledger, but of a direct call whose connection was  *)
(* lost while it was served: the release of a hold is the one step that    *)
(* could undo a charge, and every other release comes before the dispatch  *)
(* or after a refusal that cost nothing.                                   *)

(* A settlement that is not below what the call was charged, or is excused.*)
LEMMA SettlingCharges ==
    ASSUME LedgerInv, ChargesAreKept, NEW c \in Calls, NEW amount \in Nat, Settle(c, amount),
           pc[c] # "idle", amount >= charge[c] \/ c \in dropped', charge' = charge,
           dropped \subseteq dropped'
    PROVE  ChargesAreKept'
<1>1. hold[c] # "none" /\ TypeOK
  BY DEF LedgerInv, TypeOK
<1>2. /\ hold' = [hold EXCEPT ![c] = "settled"]
      /\ cost' \in [Calls -> Nat]
      /\ cost'[c] = IF hold[c] = "settled" THEN cost[c] ELSE amount
      /\ \A d \in Calls \ {c} : cost'[d] = cost[d]
  BY <1>1, SettleOnce
<1>3. hold'[c] = "settled" /\ \A d \in Calls \ {c} : hold'[d] = hold[d]
  BY <1>1, <1>2 DEF TypeOK
<1> QED
  BY <1>1, <1>2, <1>3 DEF ChargesAreKept, TypeOK

(* A hold given back for a call that was charged nothing, or is excused.   *)
LEMMA GivingBackCharges ==
    ASSUME LedgerInv, ChargesAreKept, NEW c \in Calls, pc[c] # "idle",
           charge[c] \in {Unsent, 0} \/ c \in dropped',
           GiveBack(c), charge' = charge, dropped \subseteq dropped'
    PROVE  ChargesAreKept'
<1>1. CASE TransportOf[c] = "proxy"
  BY <1>1 DEF GiveBack, ledger, ChargesAreKept
<1>2. CASE TransportOf[c] # "proxy"
  BY <1>2, SettlingCharges DEF GiveBack, Unsent
<1> QED
  BY <1>1, <1>2

LEMMA ChargesStep ==
    ASSUME LedgerInv, ChargesAreKept, [Next]_vars
    PROVE  ChargesAreKept'
<1>1. ASSUME NEW c \in Calls, Reserve(c) PROVE ChargesAreKept'
  <2>1. /\ hold' = [hold EXCEPT ![c] = "open"] /\ cost' = cost /\ charge' = charge
        /\ dropped' = dropped /\ hold \in [Calls -> {"none", "open", "settled"}]
    BY <1>1 DEF Reserve, LedgerInv, TypeOK
  <2> QED
    BY <2>1 DEF ChargesAreKept
<1>2. ASSUME NEW c \in Calls, Withdraw(c) PROVE ChargesAreKept'
  <2>1. /\ pc[c] = "reserved" /\ charge[c] = Unsent /\ GiveBack(c) /\ charge' = charge
        /\ dropped' = dropped
    BY <1>2 DEF Withdraw, LedgerInv, ChargedOnceSent
  <2> QED
    BY <2>1, GivingBackCharges
<1>3. ASSUME NEW c \in Calls, Dispatch(c) PROVE ChargesAreKept'
  <2>1. PICK n \in Charges(c) : charge' = [charge EXCEPT ![c] = n]
    BY <1>3 DEF Dispatch
  <2>2. /\ hold[c] = "open" /\ hold' = hold /\ cost' = cost /\ dropped' = dropped
        /\ charge \in [Calls -> Nat \cup {Unsent}]
    BY <1>3 DEF Dispatch, ledger, LedgerInv, TypeOK, ChargedOnceSent
  <2> QED
    BY <2>1, <2>2 DEF ChargesAreKept
<1>4. ASSUME NEW c \in Calls, Rejected(c) PROVE ChargesAreKept'
  <2>1. /\ pc[c] = "sent" /\ charge' = charge /\ dropped \subseteq dropped'
        /\ charge[c] \in {Unsent, 0} \/ c \in dropped'
    BY <1>4 DEF Rejected, LedgerInv, TypeOK
  <2>2. CASE TransportOf[c] = "direct"
    BY <1>4, <2>1, <2>2, GivingBackCharges DEF Rejected
  <2>3. CASE TransportOf[c] # "direct"
    BY <1>4, <2>1, <2>3 DEF Rejected, ledger, ChargesAreKept
  <2> QED
    BY <2>2, <2>3
<1>5. ASSUME NEW c \in Calls, SettleAnswer(c) \/ Reconcile(c) PROVE ChargesAreKept'
  <2>1. /\ pc[c] # "idle" /\ charge[c] \in Nat /\ Settle(c, charge[c]) /\ charge' = charge
        /\ dropped' = dropped
    BY <1>5 DEF SettleAnswer, Reconcile, LedgerInv, TypeOK, ChargedOnceSent
  <2>2. charge[c] >= charge[c]
    BY <2>1
  <2> QED
    BY <2>1, <2>2, SettlingCharges
<1>6. ASSUME \/ \E c \in Calls : Answered(c) \/ Abandon(c)
             \/ \E v \in Caps : SetCap(v)
             \/ Tick
             \/ UNCHANGED vars
      PROVE  ChargesAreKept'
  <2>1. hold' = hold /\ cost' = cost /\ charge' = charge /\ dropped' = dropped
    BY <1>6 DEF Answered, Abandon, SetCap, Tick, vars, ledger
  <2> QED
    BY <2>1 DEF ChargesAreKept
<1> QED
  BY <1>1, <1>2, <1>3, <1>4, <1>5, <1>6 DEF Next

(* Whatever a call ends with, a timeout, a lost answer, a crash or the     *)
(* recovery of its receipt, what it was charged stays in the ledger; the   *)
(* one release that undoes a charge is that of a direct call whose         *)
(* connection was lost, and only that call is excused by it.               *)
THEOREM NoChargeLost == Spec => []ChargesAreKept
<1>1. Init => ChargesAreKept
  BY DEF Init, ChargesAreKept, Unsent
<1>2. LedgerInv /\ ChargesAreKept /\ [Next]_vars => ChargesAreKept'
  BY ChargesStep
<1> QED
  BY <1>1, <1>2, InvHolds, PTL DEF Spec

------------------------------------------------------------------------------
(* Sums over finite sets.  A sum is a fold, a recursive function that is   *)
(* only known through the equation it satisfies; it is the number of units *)
(* that are summed, and what is known of cardinalities does the rest.      *)

(* Induction over a finite set, for a property given as the set of the     *)
(* subsets that have it.                                                   *)
LEMMA SetInduction ==
    ASSUME NEW S, IsFiniteSet(S), NEW G, {} \in G,
           \A T \in SUBSET S : T # {} /\ (\A x \in T : T \ {x} \in G) => T \in G
    PROVE  S \in G
<1>1. SUFFICES ASSUME S \notin G PROVE FALSE
  OBVIOUS
<1> DEFINE Bad == {T \in SUBSET S : T \notin G}
<1>2. IsWellFoundedOn(StrictSubsetOrdering(S), SUBSET S)
  BY FS_StrictSubsetOrderingWellFounded, FS_FiniteSubsetsOfFinite
<1>3. Bad \subseteq SUBSET S /\ Bad # {}
  BY <1>1
<1>4. \E T \in Bad : \A U \in Bad : ~(<<U, T>> \in StrictSubsetOrdering(S))
  <2> HIDE DEF Bad
  <2> QED
    BY <1>2, <1>3, WFMin
<1>5. PICK T \in Bad : \A U \in Bad : <<U, T>> \notin StrictSubsetOrdering(S)
  BY <1>4
<1>6. ASSUME NEW x \in T PROVE T \ {x} \in G
  <2>1. T \ {x} \in SUBSET S /\ T \ {x} \subseteq T /\ T \ {x} # T
    BY <1>5, <1>6
  <2>2. <<T \ {x}, T>> \in StrictSubsetOrdering(S)
    BY <1>5, <2>1 DEF StrictSubsetOrdering
  <2> QED
    BY <1>5, <2>1, <2>2
<1> QED
  BY <1>5, <1>6

Picked(s) == CHOOSE x \in s : TRUE

(* A sum of naturals as a number of things: f[c] of them for each c.       *)
Units(f, S) == UNION {{c} \X (1..f[c]) : c \in S}

LEMMA UnitsOf ==
    ASSUME NEW f, NEW S, NEW c, NEW n
    PROVE  <<c, n>> \in Units(f, S) <=> c \in S /\ n \in 1..f[c]
  BY DEF Units

LEMMA UnitsAdd ==
    ASSUME NEW f, NEW S, NEW x \in S, f[x] \in Nat, IsFiniteSet(Units(f, S \ {x}))
    PROVE  /\ IsFiniteSet(Units(f, S))
           /\ Cardinality(Units(f, S)) = f[x] + Cardinality(Units(f, S \ {x}))
<1> DEFINE U == {x} \X (1..f[x])
           R == Units(f, S \ {x})
<1>1. IsFiniteSet(U) /\ Cardinality(U) = f[x]
  <2>1. IsFiniteSet({x}) /\ Cardinality({x}) = 1
    BY FS_Singleton
  <2>2. IsFiniteSet(1..f[x]) /\ Cardinality(1..f[x]) = f[x]
    BY FS_Interval
  <2>3. IsFiniteSet(U) /\ Cardinality(U) = Cardinality({x}) * Cardinality(1..f[x])
    BY <2>1, <2>2, FS_Product
  <2> QED
    BY <2>1, <2>2, <2>3
<1>2. Units(f, S) = U \cup R
  BY DEF Units
<1>3. U \cap R = {}
  BY DEF Units
<1>4. Cardinality(R) \in Nat
  BY FS_CardinalityType
<1>5. IsFiniteSet(U \cup R) /\ Cardinality(U \cup R) = Cardinality(U) + Cardinality(R) - Cardinality(U \cap R)
  <2> HIDE DEF U, R
  <2> QED
    BY <1>1, FS_Union DEF R
<1>6. Cardinality(U \cap R) = 0
  BY <1>3, FS_EmptySet
<1> QED
  BY <1>1, <1>2, <1>4, <1>5, <1>6

LEMMA UnitsFinite ==
    ASSUME NEW f, NEW S, IsFiniteSet(S), \A c \in S : f[c] \in Nat
    PROVE  IsFiniteSet(Units(f, S)) /\ Cardinality(Units(f, S)) \in Nat
<1> DEFINE G == {T \in SUBSET S : IsFiniteSet(Units(f, T))}
<1>1. {} \in G
  <2>1. Units(f, {}) = {}
    BY DEF Units
  <2> QED
    BY <2>1, FS_EmptySet
<1>2. ASSUME NEW T \in SUBSET S, T # {}, \A x \in T : T \ {x} \in G
      PROVE  T \in G
  <2>1. PICK x \in T : TRUE
    BY <1>2
  <2> QED
    BY <1>2, <2>1, UnitsAdd
<1>3. S \in G
  <2> HIDE DEF G
  <2> QED
    BY <1>1, <1>2, SetInduction
<1> QED
  BY <1>3, FS_CardinalityType

LEMMA TotalIsCount ==
    ASSUME NEW f, NEW S, IsFiniteSet(S), \A c \in S : f[c] \in Nat
    PROVE  Total(f, S) = Cardinality(Units(f, S))
<1> DEFINE Eq(g) == g = [s \in SUBSET S |->
                          IF s = {} THEN 0 ELSE f[Picked(s)] + g[s \ {Picked(s)}]]
           iter == CHOOSE g : Eq(g)
           W == [s \in SUBSET S |-> Cardinality(Units(f, s))]
<1>1. Total(f, S) = iter[S]
  BY DEF Total, MapThenSumSet, MapThenFoldSet, Picked
<1>2. ASSUME NEW s \in SUBSET S, s # {}
      PROVE  /\ Picked(s) \in s /\ s \ {Picked(s)} \in SUBSET S
             /\ Cardinality(Units(f, s)) = f[Picked(s)] + Cardinality(Units(f, s \ {Picked(s)}))
  <2>1. Picked(s) \in s
    BY <1>2 DEF Picked
  <2>2. IsFiniteSet(s \ {Picked(s)})
    BY FS_Subset
  <2>3. IsFiniteSet(Units(f, s \ {Picked(s)}))
    BY <2>2, UnitsFinite
  <2> QED
    BY <2>1, <2>3, UnitsAdd
<1>3. Cardinality(Units(f, {})) = 0
  <2>1. Units(f, {}) = {}
    BY DEF Units
  <2> QED
    BY <2>1, FS_EmptySet
<1>4. Eq(W)
  BY <1>2, <1>3
<1>5. Eq(iter)
  <2> HIDE DEF Eq, W
  <2>1. \E g : Eq(g)
    BY <1>4
  <2> QED
    BY <2>1
<1>6. iter = [s \in SUBSET S |-> IF s = {} THEN 0 ELSE f[Picked(s)] + iter[s \ {Picked(s)}]]
  <2> HIDE DEF iter
  <2> QED
    BY <1>5
<1> DEFINE G == {T \in SUBSET S : iter[T] = Cardinality(Units(f, T))}
<1>7. {} \in G
  <2> HIDE DEF iter
  <2> QED
    BY <1>3, <1>6
<1>8. ASSUME NEW T \in SUBSET S, T # {}, \A x \in T : T \ {x} \in G
      PROVE  T \in G
  <2>1. T \ {Picked(T)} \in G
    BY <1>2, <1>8
  <2> HIDE DEF iter
  <2>2. iter[T] = f[Picked(T)] + iter[T \ {Picked(T)}]
    BY <1>6, <1>8
  <2> QED
    BY <1>2, <1>8, <2>1, <2>2
<1>9. S \in G
  <2> HIDE DEF G
  <2> QED
    BY <1>7, <1>8, SetInduction
<1> QED
  BY <1>1, <1>9

(* What the proofs use of sums of naturals over finite sets.               *)
LEMMA TotalEmpty == ASSUME NEW f PROVE Total(f, {}) = 0
<1>1. Units(f, {}) = {}
  BY DEF Units
<1> QED
  BY <1>1, TotalIsCount, FS_EmptySet

LEMMA TotalNat ==
    ASSUME NEW f, NEW S, IsFiniteSet(S), \A c \in S : f[c] \in Nat
    PROVE  Total(f, S) \in Nat
  BY TotalIsCount, UnitsFinite

LEMMA TotalAdd ==
    ASSUME NEW f, NEW S, IsFiniteSet(S), \A c \in S : f[c] \in Nat, NEW x \in S
    PROVE  Total(f, S) = f[x] + Total(f, S \ {x})
<1>1. IsFiniteSet(S \ {x})
  BY FS_Subset
<1>2. IsFiniteSet(Units(f, S \ {x}))
  BY <1>1, UnitsFinite
<1>3. Cardinality(Units(f, S)) = f[x] + Cardinality(Units(f, S \ {x}))
  BY <1>2, UnitsAdd
<1>4. Total(f, S) = Cardinality(Units(f, S))
  BY TotalIsCount
<1>5. Total(f, S \ {x}) = Cardinality(Units(f, S \ {x}))
  BY <1>1, TotalIsCount
<1> QED
  BY <1>3, <1>4, <1>5

(* A sum over a part, of no more for each, is no more.                     *)
LEMMA TotalLeq ==
    ASSUME NEW f, NEW g, NEW S, IsFiniteSet(S), \A c \in S : g[c] \in Nat,
           NEW T \in SUBSET S, \A c \in T : f[c] \in Nat /\ f[c] <= g[c]
    PROVE  Total(f, T) <= Total(g, S)
<1>1. IsFiniteSet(T)
  BY FS_Subset
<1>2. Units(f, T) \in SUBSET Units(g, S)
  BY DEF Units
<1>3. IsFiniteSet(Units(g, S))
  BY UnitsFinite
<1> QED
  BY <1>1, <1>2, <1>3, TotalIsCount, FS_Subset

(* What counts for nothing may be left out.                                *)
LEMMA TotalOver ==
    ASSUME NEW f, NEW g, NEW S, IsFiniteSet(S), NEW T \in SUBSET S,
           \A c \in T : f[c] \in Nat,
           \A c \in S : g[c] = IF c \in T THEN f[c] ELSE 0
    PROVE  Total(g, S) = Total(f, T)
<1>1. IsFiniteSet(T)
  BY FS_Subset
<1>2. \A c \in S : g[c] \in Nat
  OBVIOUS
<1>3. Units(g, S) = Units(f, T)
  <2>1. \A c \in S : 1..g[c] = IF c \in T THEN 1..f[c] ELSE {}
    OBVIOUS
  <2> QED
    BY <2>1 DEF Units
<1> QED
  BY <1>1, <1>2, <1>3, TotalIsCount

LEMMA TotalPlus ==
    ASSUME NEW f, NEW g, NEW h, NEW S, IsFiniteSet(S),
           \A c \in S : f[c] \in Nat /\ g[c] \in Nat /\ h[c] = f[c] + g[c]
    PROVE  Total(h, S) = Total(f, S) + Total(g, S)
<1> DEFINE G == {T \in SUBSET S : Total(h, T) = Total(f, T) + Total(g, T)}
<1>1. {} \in G
  BY TotalEmpty
<1>2. ASSUME NEW T \in SUBSET S, T # {}, \A x \in T : T \ {x} \in G
      PROVE  T \in G
  <2>1. PICK x \in T : TRUE
    BY <1>2
  <2>2. IsFiniteSet(T) /\ IsFiniteSet(T \ {x})
    BY FS_Subset
  <2>3. /\ Total(h, T) = h[x] + Total(h, T \ {x})
        /\ Total(f, T) = f[x] + Total(f, T \ {x})
        /\ Total(g, T) = g[x] + Total(g, T \ {x})
    BY <2>2, TotalAdd
  <2>4. Total(f, T \ {x}) \in Nat /\ Total(g, T \ {x}) \in Nat
    BY <2>2, TotalNat
  <2>5. Total(h, T \ {x}) = Total(f, T \ {x}) + Total(g, T \ {x})
    BY <1>2
  <2>6. h[x] = f[x] + g[x] /\ f[x] \in Nat /\ g[x] \in Nat
    OBVIOUS
  <2> HIDE DEF G
  <2>7. Total(h, T) = Total(f, T) + Total(g, T)
    BY <2>3, <2>4, <2>5, <2>6
  <2> QED
    BY <2>7 DEF G
<1>3. S \in G
  <2> HIDE DEF G
  <2> QED
    BY <1>1, <1>2, SetInduction
<1> QED
  BY <1>3
------------------------------------------------------------------------------
(* The daily limit.                                                        *)

(* The reservations the ledger has a row of.                               *)
Admitted == {c \in Calls : hold[c] # "none"}

(* What a call takes of the allowance it was admitted under: its bound     *)
(* while its hold is live, then what it cost today, up to its bound, if it *)
(* was settled while the hold still gated.                                 *)
Net ==
    [c \in Calls |->
        IF Live(c) THEN BoundOf[c]
        ELSE IF hold[c] = "settled" /\ Today(ts[c]) /\ ts[c] - at[c] <= Horizon
             THEN IF Overran(c) THEN BoundOf[c] ELSE cost[c]
        ELSE 0]

SettledBefore == \A c \in Calls : ts[c] <= now

AllowanceInv ==
    /\ LedgerInv
    /\ IsFiniteSet(Admitted)
    /\ SettledBefore
    /\ Total(Net, Admitted) <= granted

(* What the ledger counts, call by call.                                   *)
Spent == [c \in Calls |-> IF hold[c] = "settled" /\ Today(ts[c]) THEN cost[c] ELSE 0]
OnHold == [c \in Calls |-> IF Live(c) THEN BoundOf[c] ELSE 0]
Counted == [c \in Calls |-> Spent[c] + OnHold[c]]
Excess ==
    [c \in Calls |-> IF ts[c] - at[c] > Horizon THEN cost[c]
                     ELSE IF Overran(c) THEN cost[c] - BoundOf[c] ELSE 0]
Beyond == [c \in Calls |-> IF hold[c] = "settled" /\ Today(ts[c]) THEN Excess[c] ELSE 0]

LEMMA CallNumbers ==
    ASSUME TypeOK, NEW c \in Calls
    PROVE  /\ BoundOf[c] \in Nat /\ cost[c] \in Nat /\ at[c] \in Nat /\ ts[c] \in Nat
           /\ now \in Nat /\ Horizon \in Nat
           /\ Net[c] \in Nat /\ Spent[c] \in Nat /\ OnHold[c] \in Nat
           /\ Excess[c] \in Nat /\ Beyond[c] \in Nat
<1>1. /\ BoundOf[c] \in Nat /\ cost[c] \in Nat /\ at[c] \in Nat /\ ts[c] \in Nat
      /\ now \in Nat /\ Horizon \in Nat
  BY Numbers DEF TypeOK
<1>2. Overran(c) => cost[c] - BoundOf[c] \in Nat
  BY <1>1 DEF Overran
<1> QED
  BY <1>1, <1>2 DEF Net, Spent, OnHold, Excess, Beyond

(* Spent and held is what is netted and what no hold could foresee.        *)
LEMMA Netted ==
    ASSUME TypeOK, IsFiniteSet(Admitted)
    PROVE  /\ SpentToday + Held = Total(Net, Admitted) + Unforeseen
           /\ SpentToday + Held \in Nat /\ Unforeseen \in Nat /\ Total(Net, Admitted) \in Nat
<1> DEFINE Done == {c \in Calls : hold[c] = "settled" /\ Today(ts[c])}
           Alive == {c \in Calls : Live(c)}
<1>1. Done \in SUBSET Admitted /\ Alive \in SUBSET Admitted /\ Admitted \in SUBSET Calls
  BY DEF Admitted, Live
<1>2. Total(Spent, Admitted) = SpentToday
  <2>1. \A c \in Admitted : Spent[c] = IF c \in Done THEN cost[c] ELSE 0
    BY <1>1 DEF Spent
  <2>2. \A c \in Done : cost[c] \in Nat
    BY CallNumbers
  <2> HIDE DEF Done
  <2>3. Total(Spent, Admitted) = Total(cost, Done)
    BY <1>1, <2>1, <2>2, TotalOver
  <2> QED
    BY <2>3 DEF SpentToday, Done
<1>3. Total(OnHold, Admitted) = Held
  <2>1. \A c \in Admitted : OnHold[c] = IF c \in Alive THEN BoundOf[c] ELSE 0
    BY <1>1 DEF OnHold
  <2>2. \A c \in Alive : BoundOf[c] \in Nat
    BY CallNumbers
  <2> HIDE DEF Alive
  <2>3. Total(OnHold, Admitted) = Total(BoundOf, Alive)
    BY <1>1, <2>1, <2>2, TotalOver
  <2> QED
    BY <2>3 DEF Held, Alive
<1>4. Total(Beyond, Admitted) = Unforeseen
  <2>1. \A c \in Admitted : Beyond[c] = IF c \in Done THEN Excess[c] ELSE 0
    BY <1>1 DEF Beyond
  <2>2. \A c \in Done : Excess[c] \in Nat
    BY CallNumbers
  <2> HIDE DEF Done
  <2>3. Total(Beyond, Admitted) = Total(Excess, Done)
    BY <1>1, <2>1, <2>2, TotalOver
  <2> QED
    BY <2>3 DEF Unforeseen, Done, Excess
<1>5. \A c \in Admitted : Spent[c] \in Nat /\ OnHold[c] \in Nat /\ Counted[c] = Spent[c] + OnHold[c]
  BY <1>1, CallNumbers DEF Counted
<1>6. \A c \in Admitted : /\ Net[c] \in Nat /\ Beyond[c] \in Nat
                          /\ Counted[c] = Net[c] + Beyond[c]
  <2>1. SUFFICES ASSUME NEW c \in Calls
                 PROVE  Spent[c] + OnHold[c] = Net[c] + Beyond[c]
    BY <1>1, <1>5, CallNumbers
  <2>2. /\ BoundOf[c] \in Nat /\ cost[c] \in Nat /\ at[c] \in Nat /\ ts[c] \in Nat
        /\ Horizon \in Nat
    BY CallNumbers
  <2>3. Live(c) => hold[c] = "open"
    BY DEF Live
  <2>4. Overran(c) <=> hold[c] = "settled" /\ cost[c] > BoundOf[c]
    BY DEF Overran
  <2> QED
    BY <2>2, <2>3, <2>4 DEF Spent, OnHold, Net, Beyond, Excess
<1>7. Total(Counted, Admitted) = Total(Spent, Admitted) + Total(OnHold, Admitted)
  BY <1>5, TotalPlus
<1>8. Total(Counted, Admitted) = Total(Net, Admitted) + Total(Beyond, Admitted)
  BY <1>6, TotalPlus
<1>9. /\ Total(Spent, Admitted) \in Nat /\ Total(OnHold, Admitted) \in Nat
      /\ Total(Net, Admitted) \in Nat /\ Total(Beyond, Admitted) \in Nat
  BY <1>5, <1>6, TotalNat
<1> QED
  BY <1>2, <1>3, <1>4, <1>7, <1>8, <1>9

(* A step that admits nobody, under the limit of the last admission, keeps *)
(* the limit when no call takes more than before.                          *)
LEMMA NoMoreTaken ==
    ASSUME AllowanceInv, LedgerInv', SettledBefore', Admitted' = Admitted, granted' = granted,
           \A c \in Admitted : Net'[c] <= Net[c]
    PROVE  AllowanceInv'
<1>1. \A c \in Admitted : Net[c] \in Nat
  BY CallNumbers DEF AllowanceInv, LedgerInv, Admitted
<1>2. \A c \in Admitted : Net'[c] \in Nat
  <2>1. TypeOK' => \A c \in Calls : Net'[c] \in Nat
    <3>1. SUFFICES ASSUME TypeOK', NEW c \in Calls PROVE Net'[c] \in Nat
      OBVIOUS
    <3>2. BoundOf[c] \in Nat /\ cost'[c] \in Nat
      BY <3>1, Numbers DEF TypeOK
    <3> QED
      BY <3>2 DEF Net
  <2> QED
    BY <2>1 DEF LedgerInv, Admitted
<1>3. IsFiniteSet(Admitted)
  BY DEF AllowanceInv
<1>4. Total(Net', Admitted) <= Total(Net, Admitted)
  <2> HIDE DEF Net, Admitted
  <2> QED
    BY <1>1, <1>2, <1>3, TotalLeq
<1>5. Total(Net, Admitted) \in Nat /\ Total(Net', Admitted) \in Nat
  <2> HIDE DEF Net, Admitted
  <2> QED
    BY <1>1, <1>2, <1>3, TotalNat
<1>6. granted \in Nat /\ Total(Net, Admitted) <= granted
  BY Numbers DEF AllowanceInv, LedgerInv, TypeOK
<1>7. Total(Net', Admitted') <= granted'
  BY <1>4, <1>5, <1>6
<1>8. IsFiniteSet(Admitted')
  BY <1>3
<1> QED
  BY <1>7, <1>8 DEF AllowanceInv

(* A settlement takes no more than the hold it closes kept free.           *)
LEMMA SettlingTakesNoMore ==
    ASSUME AllowanceInv, LedgerInv', NEW c \in Calls, NEW amount \in Nat, Settle(c, amount),
           hold[c] # "none", UNCHANGED <<now, granted>>
    PROVE  AllowanceInv'
<1>1. TypeOK /\ SettledBefore
  BY DEF AllowanceInv, LedgerInv
<1>2. CASE hold[c] = "settled"
  <2>1. hold' = hold /\ cost' = cost /\ ts' = ts /\ at' = at /\ now' = now
    BY <1>2 DEF Settle
  <2>2. Net' = Net /\ Admitted' = Admitted /\ SettledBefore'
    BY <1>1, <2>1 DEF Net, Live, Today, Overran, Admitted, SettledBefore
  <2>3. \A d \in Admitted : Net[d] \in Nat
    BY <1>1, CallNumbers DEF Admitted
  <2> QED
    BY <2>2, <2>3, NoMoreTaken
<1>3. CASE hold[c] # "settled"
  <2>1. /\ hold' = [hold EXCEPT ![c] = "settled"] /\ cost' = [cost EXCEPT ![c] = amount]
        /\ ts' = [ts EXCEPT ![c] = now] /\ at' = at /\ now' = now
    BY <1>3 DEF Settle
  <2>2. /\ hold[c] = "open" /\ hold'[c] = "settled" /\ cost'[c] = amount /\ ts'[c] = now
        /\ \A d \in Calls \ {c} : hold'[d] = hold[d] /\ cost'[d] = cost[d] /\ ts'[d] = ts[d]
    BY <1>1, <1>3, <2>1 DEF TypeOK
  <2>3. Admitted' = Admitted
    BY <2>2 DEF Admitted
  <2>4. SettledBefore'
    BY <1>1, <2>1, <2>2 DEF SettledBefore, TypeOK
  <2>5. ASSUME NEW d \in Calls \ {c} PROVE Net'[d] = Net[d]
    BY <2>1, <2>2 DEF Net, Live, Today, Overran
  <2>6. Net'[c] <= Net[c]
    <3>1. /\ BoundOf[c] \in Nat /\ at[c] \in Nat /\ now \in Nat /\ Horizon \in Nat
      BY <1>1, CallNumbers
    <3>2. Net[c] = IF now - at[c] <= Horizon THEN BoundOf[c] ELSE 0
      BY <2>2 DEF Net, Live
    <3>3. Net'[c] = IF now - at[c] <= Horizon
                    THEN IF amount > BoundOf[c] THEN BoundOf[c] ELSE amount
                    ELSE 0
      BY <2>1, <2>2 DEF Net, Live, Today, Overran
    <3> QED
      BY <3>1, <3>2, <3>3
  <2>7. \A d \in Admitted : Net'[d] <= Net[d]
    <3>1. \A d \in Admitted : Net[d] \in Nat
      BY <1>1, CallNumbers DEF Admitted
    <3> QED
      BY <2>5, <2>6, <3>1 DEF Admitted
  <2> QED
    BY <2>3, <2>4, <2>7, NoMoreTaken
<1> QED
  BY <1>2, <1>3

(* A step that leaves the ledger, the clock and the last limit alone.      *)
LEMMA LedgerUntouched ==
    ASSUME AllowanceInv, LedgerInv', UNCHANGED <<ledger, now, granted>>
    PROVE  AllowanceInv'
<1>1. Net' = Net /\ Admitted' = Admitted /\ SettledBefore'
  BY DEF AllowanceInv, ledger, Net, Live, Today, Overran, Admitted, SettledBefore
<1>2. \A d \in Admitted : Net[d] \in Nat
  BY CallNumbers DEF Admitted, AllowanceInv, LedgerInv
<1> QED
  BY <1>1, <1>2, NoMoreTaken

(* An admission under a limit that has room for its bound.                 *)
LEMMA ReservingFits ==
    ASSUME AllowanceInv, LedgerInv', NEW c \in Calls, Reserve(c)
    PROVE  AllowanceInv'
<1>1. TypeOK /\ SettledBefore /\ IsFiniteSet(Admitted)
  BY DEF AllowanceInv, LedgerInv
<1>2. /\ pc[c] = "idle" /\ hold' = [hold EXCEPT ![c] = "open"] /\ at' = [at EXCEPT ![c] = now]
      /\ granted' = cap /\ cost' = cost /\ ts' = ts /\ now' = now
      /\ SpentToday + Held + BoundOf[c] <= cap
  BY DEF Reserve
<1>3. /\ hold[c] = "none" /\ hold'[c] = "open" /\ at'[c] = now
      /\ \A d \in Calls \ {c} : hold'[d] = hold[d] /\ at'[d] = at[d]
  BY <1>1, <1>2 DEF TypeOK
<1>4. Admitted' = Admitted \cup {c} /\ c \notin Admitted
  BY <1>3 DEF Admitted
<1>5. IsFiniteSet(Admitted') /\ Admitted' \ {c} = Admitted
  BY <1>1, <1>4, FS_AddElement
<1>6. \A d \in Admitted : Net'[d] = Net[d]
  BY <1>2, <1>3, <1>4 DEF Net, Live, Today, Overran, Admitted
<1>7. /\ BoundOf[c] \in Nat /\ now \in Nat /\ Horizon \in Nat /\ cap \in Nat
      /\ \A d \in Admitted : Net[d] \in Nat
  BY <1>1, CallNumbers, Numbers DEF TypeOK, Admitted
<1>8. Net'[c] = BoundOf[c]
  <2>1. now - now <= Horizon
    BY <1>7
  <2> QED
    BY <1>2, <1>3, <2>1 DEF Net, Live
<1>9. \A d \in Admitted' : Net'[d] \in Nat
  BY <1>4, <1>6, <1>7, <1>8
<1>10. Total(Net', Admitted') = Net'[c] + Total(Net', Admitted' \ {c})
  <2>1. c \in Admitted'
    BY <1>4
  <2> HIDE DEF Net, Admitted
  <2> QED
    BY <1>5, <1>9, <2>1, TotalAdd
<1>11. Total(Net', Admitted) <= Total(Net, Admitted)
  <2> HIDE DEF Net, Admitted
  <2> QED
    BY <1>1, <1>6, <1>7, TotalLeq
<1>12. /\ Total(Net, Admitted) \in Nat /\ Unforeseen \in Nat /\ SpentToday + Held \in Nat
       /\ SpentToday + Held = Total(Net, Admitted) + Unforeseen
  BY <1>1, Netted
<1>13. Total(Net', Admitted) \in Nat
  <2>1. \A d \in Admitted : Net'[d] \in Nat
    BY <1>6, <1>7
  <2> HIDE DEF Net, Admitted
  <2> QED
    BY <1>1, <2>1, TotalNat
<1>14. Total(Net', Admitted') <= cap
  <2>1. Total(Net', Admitted') = BoundOf[c] + Total(Net', Admitted)
    BY <1>5, <1>8, <1>10
  <2>2. SpentToday + Held + BoundOf[c] <= cap
    BY <1>2
  <2>3. /\ BoundOf[c] \in Nat /\ cap \in Nat
        /\ Total(Net', Admitted) <= Total(Net, Admitted)
        /\ Total(Net, Admitted) \in Nat /\ Unforeseen \in Nat /\ SpentToday + Held \in Nat
        /\ SpentToday + Held = Total(Net, Admitted) + Unforeseen
        /\ Total(Net', Admitted) \in Nat
    BY <1>7, <1>11, <1>12, <1>13
  <2> HIDE DEF Net, Admitted
  <2> QED
    BY <2>1, <2>2, <2>3
<1>15. SettledBefore'
  BY <1>1, <1>2 DEF SettledBefore
<1> QED
  BY <1>2, <1>5, <1>14, <1>15 DEF AllowanceInv

(* The clock only takes holds and costs out of the day.                    *)
LEMMA SameDay ==
    ASSUME NEW D \in Nat \ {0}, NEW a \in Nat, NEW b \in Nat, a <= b,
           a \div D = (b + 1) \div D
    PROVE  a \div D = b \div D
<1> DEFINE q == a \div D
           r == b \div D
<1>1. /\ q \in Int /\ r \in Int
      /\ D * q <= a /\ a < D * (q + 1)
      /\ D * r <= b /\ b < D * (r + 1)
      /\ D * q <= b + 1 /\ b + 1 < D * (q + 1)
  OBVIOUS
<1>2. D * r < D * (q + 1) /\ D * q < D * (r + 1)
  BY <1>1
<1> QED
  BY <1>1, <1>2

LEMMA TickingTakesNoMore ==
    ASSUME AllowanceInv, LedgerInv', Tick
    PROVE  AllowanceInv'
<1>1. TypeOK /\ SettledBefore
  BY DEF AllowanceInv, LedgerInv
<1>2. /\ now' = now + 1 /\ hold' = hold /\ at' = at /\ cost' = cost /\ ts' = ts
      /\ granted' = granted /\ now \in Nat
  BY <1>1, Numbers DEF Tick, ledger, TypeOK
<1>3. Admitted' = Admitted
  BY <1>2 DEF Admitted
<1>4. SettledBefore'
  BY <1>1, <1>2 DEF SettledBefore, TypeOK
<1>5. ASSUME NEW c \in Admitted PROVE Net'[c] <= Net[c]
  <2>1. /\ c \in Calls /\ BoundOf[c] \in Nat /\ cost[c] \in Nat /\ at[c] \in Nat /\ ts[c] \in Nat
        /\ Horizon \in Nat /\ ts[c] <= now
    BY <1>1, <1>5, CallNumbers DEF Admitted, SettledBefore
  <2>2. Live(c)' => Live(c)
    BY <1>2, <2>1 DEF Live
  <2>3. Today(ts[c])' => Today(ts[c])
    BY <1>2, <2>1, SameDay, Numbers DEF Today
  <2>4. Live(c) => hold[c] = "open"
    BY DEF Live
  <2>5. Overran(c)' = Overran(c)
    BY <1>2 DEF Overran
  <2> QED
    BY <1>2, <2>1, <2>2, <2>3, <2>4, <2>5 DEF Net
<1> QED
  BY <1>2, <1>3, <1>4, <1>5, NoMoreTaken

LEMMA AllowanceInit ==
    ASSUME Init
    PROVE  AllowanceInv
<1>1. LedgerInv
  BY InitHolds
<1>2. Admitted = {}
  BY DEF Init, Admitted
<1>3. IsFiniteSet(Admitted) /\ Total(Net, Admitted) = 0
  BY <1>2, FS_EmptySet, TotalEmpty
<1>4. SettledBefore
  BY DEF Init, SettledBefore
<1> QED
  BY <1>1, <1>3, <1>4 DEF AllowanceInv, Init

LEMMA AllowanceStep ==
    ASSUME AllowanceInv, [Next]_vars
    PROVE  AllowanceInv'
<1>1. LedgerInv /\ TypeOK
  BY DEF AllowanceInv, LedgerInv
<1>2. LedgerInv'
  BY <1>1, StepHolds
<1>3. ASSUME UNCHANGED <<ledger, now, granted>> PROVE AllowanceInv'
  BY <1>2, <1>3, LedgerUntouched
<1>4. ASSUME NEW c \in Calls, hold[c] # "none", GiveBack(c), UNCHANGED <<now, granted>>
      PROVE  AllowanceInv'
  <2>1. CASE TransportOf[c] = "proxy"
    BY <1>3, <1>4, <2>1 DEF GiveBack
  <2>2. CASE TransportOf[c] # "proxy"
    BY <1>2, <1>4, <2>2, SettlingTakesNoMore DEF GiveBack
  <2> QED
    BY <2>1, <2>2
<1>5. ASSUME NEW c \in Calls, Reserve(c) PROVE AllowanceInv'
  BY <1>2, <1>5, ReservingFits
<1>6. ASSUME NEW c \in Calls, Withdraw(c) PROVE AllowanceInv'
  BY <1>1, <1>4, <1>6 DEF Withdraw, TypeOK
<1>7. ASSUME NEW c \in Calls, Rejected(c) PROVE AllowanceInv'
  BY <1>1, <1>3, <1>4, <1>7 DEF Rejected, TypeOK
<1>8. ASSUME NEW c \in Calls, SettleAnswer(c) PROVE AllowanceInv'
  <2>1. hold[c] # "none" /\ charge[c] \in Nat /\ Settle(c, charge[c]) /\ UNCHANGED <<now, granted>>
    BY <1>1, <1>8 DEF SettleAnswer, TypeOK, LedgerInv, ChargedOnceSent
  <2> QED
    BY <1>2, <2>1, SettlingTakesNoMore
<1>9. ASSUME NEW c \in Calls, Reconcile(c) PROVE AllowanceInv'
  <2>1. hold[c] # "none" /\ charge[c] \in Nat /\ Settle(c, charge[c]) /\ UNCHANGED <<now, granted>>
    BY <1>1, <1>9 DEF Reconcile, TypeOK
  <2> QED
    BY <1>2, <2>1, SettlingTakesNoMore
<1>10. CASE Tick
  BY <1>2, <1>10, TickingTakesNoMore
<1>11. ASSUME NEW c \in Calls, Dispatch(c) \/ Answered(c) \/ Abandon(c) PROVE AllowanceInv'
  BY <1>3, <1>11 DEF Dispatch, Answered, Abandon
<1>12. ASSUME NEW v \in Caps, SetCap(v) PROVE AllowanceInv'
  BY <1>3, <1>12 DEF SetCap, ledger
<1>13. CASE UNCHANGED vars
  BY <1>3, <1>13 DEF vars
<1> QED
  BY <1>5, <1>6, <1>7, <1>8, <1>9, <1>10, <1>11, <1>12, <1>13 DEF Next

(* The daily limit holds for any number of calls, of any bounds, under any *)
(* limits, horizon and length of day: what was spent today and what is     *)
(* held is within the limit the last call was admitted under, but for      *)
(* charges past their bound and calls settled after their hold stopped     *)
(* gating.                                                                 *)
THEOREM LimitHolds == Spec => []WithinAllowance
<1>1. Init => AllowanceInv
  BY AllowanceInit
<1>2. AllowanceInv /\ [Next]_vars => AllowanceInv'
  BY AllowanceStep
<1>3. AllowanceInv => WithinAllowance
  <2>1. SUFFICES ASSUME AllowanceInv PROVE WithinAllowance
    OBVIOUS
  <2>2. TypeOK /\ IsFiniteSet(Admitted) /\ Total(Net, Admitted) <= granted /\ granted \in Nat
    BY <2>1, Numbers DEF AllowanceInv, LedgerInv, TypeOK
  <2>3. /\ SpentToday + Held = Total(Net, Admitted) + Unforeseen
        /\ SpentToday + Held \in Nat /\ Unforeseen \in Nat /\ Total(Net, Admitted) \in Nat
    BY <2>2, Netted
  <2> HIDE DEF Net, Admitted
  <2> QED
    BY <2>2, <2>3 DEF WithinAllowance
<1> QED
  BY <1>1, <1>2, <1>3, PTL DEF Spec
==============================================================================
