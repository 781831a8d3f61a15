----------------------------- MODULE BudgetLedger -----------------------------
(***************************************************************************)
(* The ledger every paid model call is admitted by (engine/zylch/llm/      *)
(* budget.py), and what one call does with its reservation, from admission *)
(* to settlement (LLMClient.create_message_sync in llm/client.py), with    *)
(* the recovery of lost credit receipts (llm/billing_reconciliation.py).   *)
(*                                                                         *)
(* The ledger is a table of the profile's store and every operation on it  *)
(* is one BEGIN IMMEDIATE transaction, so the calls of all threads and     *)
(* processes of a profile meet only there.  A call that is retried is      *)
(* another call.  The clock counts ticks; a hold is live for Horizon ticks *)
(* (IN_FLIGHT_HORIZON), and spending is counted from midnight.             *)
(***************************************************************************)
EXTENDS Integers, FiniteSetsExt

CONSTANTS
    Calls,         \* paid calls, by the id of their reservation
    TransportOf,   \* [Calls -> Transports]
    BoundOf,       \* the most each call can cost, reserved before it is sent
    Caps,          \* the daily limits the owner may save
    Day,           \* ticks from midnight to midnight
    Horizon,       \* budget.IN_FLIGHT_HORIZON
    MaxOverrun,    \* bound: how far a charge may pass its bound
    MaxTime,       \* bound: the clock stops here
    Disturbances   \* bound: what an instance lets happen from outside

Transports == {"direct", "openrouter", "proxy"}

ASSUME LedgerAssumption ==
    /\ TransportOf \in [Calls -> Transports]
    /\ BoundOf \in [Calls -> Nat \ {0}]
    /\ Caps \subseteq Nat
    /\ Day \in Nat \ {0} /\ Horizon \in Nat \ {0}
    /\ MaxOverrun \in Nat /\ MaxTime \in Nat
    /\ Disturbances \subseteq {"drop", "sleep", "overrun", "lower"}

Unsent == -1   \* no charge yet

VARIABLES
    now,        \* budget._now
    cap,        \* the saved LLM_DAILY_BUDGET_USD
    hold,       \* the reservation's row: "none", "open" or "settled"
    at,         \* LlmReservation.created_at
    cost, ts,   \* LlmUsage.est_cost_usd and ts of a settled call
    pc,         \* where the call is
    charge,     \* external: what the provider charges for the call, once it was sent
    granted,    \* history: the limit of the last admission
    dropped     \* history: calls refunded for a connection lost while they were served

ledger == <<hold, at, cost, ts>>
vars == <<now, cap, ledger, pc, charge, granted, dropped>>

Init ==
    /\ now \in 0..(Day - 1) /\ now <= MaxTime
    /\ cap \in Caps
    /\ hold = [c \in Calls |-> "none"]
    /\ at = [c \in Calls |-> 0]
    /\ cost = [c \in Calls |-> 0]
    /\ ts = [c \in Calls |-> 0]
    /\ pc = [c \in Calls |-> "idle"]
    /\ charge = [c \in Calls |-> Unsent]
    /\ granted = 0
    /\ dropped = {}

------------------------------------------------------------------------------
(* budget._totals and budget._pricing_fault.                               *)

Today(t) == t \div Day = now \div Day
Live(c) == hold[c] = "open" /\ now - at[c] <= Horizon

Total(f, S) == MapThenSumSet(LAMBDA c : f[c], S)

SpentToday == Total(cost, {c \in Calls : hold[c] = "settled" /\ Today(ts[c])})

(* Mutant: a hold is counted against the day it was taken on.              *)
HeldToday == Total(BoundOf, {c \in Calls : hold[c] = "open" /\ Today(at[c])})

Held == Total(BoundOf, {c \in Calls : Live(c)})

Overran(c) == hold[c] = "settled" /\ cost[c] > BoundOf[c]
PricingFault == \E c \in Calls : Overran(c)

------------------------------------------------------------------------------
(* One call.                                                               *)

Goto(c, step) == pc' = [pc EXCEPT ![c] = step]

(* Mutant: the call goes ahead although its reservation was not recorded.  *)
ReserveUnrecorded(c) ==
    /\ pc[c] = "idle"
    /\ Goto(c, "reserved")
    /\ UNCHANGED <<ledger, now, cap, charge, granted, dropped>>

(* budget.reserve.  A refused call raises and leaves the ledger as it is.  *)
Reserve(c) ==
    /\ pc[c] = "idle"
    /\ ~PricingFault
    /\ cap # 0 /\ SpentToday + Held + BoundOf[c] <= cap
    /\ hold' = [hold EXCEPT ![c] = "open"]
    /\ at' = [at EXCEPT ![c] = now]
    /\ granted' = cap
    /\ Goto(c, "reserved")
    /\ UNCHANGED <<cost, ts, now, cap, charge, dropped>>

(* budget.settle: once, at the day it completes on.                        *)
Settle(c, amount) ==
    /\ IF hold[c] = "settled"
       THEN UNCHANGED <<hold, cost, ts>>
       ELSE /\ hold' = [hold EXCEPT ![c] = "settled"]
            /\ cost' = [cost EXCEPT ![c] = amount]
            /\ ts' = [ts EXCEPT ![c] = now]
    /\ UNCHANGED at

(* Mutant: every transport gives its hold back.                            *)
GiveBackMetered(c) == Settle(c, 0)

(* _release_hold and _release_unused_reservation: a hold whose receipt     *)
(* alone could say what was charged stays.                                 *)
GiveBack(c) ==
    IF TransportOf[c] = "proxy" THEN UNCHANGED ledger ELSE Settle(c, 0)

(* Revoked or fenced between admission and dispatch.                       *)
Withdraw(c) ==
    /\ pc[c] = "reserved"
    /\ GiveBack(c)
    /\ Goto(c, "done")
    /\ UNCHANGED <<now, cap, charge, granted, dropped>>

(* The request leaves the process; from here the provider decides what it  *)
(* costs, whatever the process hears of it.  The proxy debits at most the  *)
(* amount it was authorized for.                                           *)
Charges(c) ==
    0..(IF TransportOf[c] # "proxy" /\ "overrun" \in Disturbances
        THEN BoundOf[c] + MaxOverrun ELSE BoundOf[c])

Dispatch(c) ==
    /\ pc[c] = "reserved"
    /\ \E n \in Charges(c) : charge' = [charge EXCEPT ![c] = n]
    /\ Goto(c, "sent")
    /\ UNCHANGED <<ledger, now, cap, granted, dropped>>

(* What a request taken for refused may have cost: nothing, but that the    *)
(* SDK of the direct transport raises one connection error, for a connection *)
(* that was refused and for one that was lost while the request was served.  *)
RefusedCost(c) ==
    IF TransportOf[c] = "direct" /\ "drop" \in Disturbances THEN Charges(c) ELSE {0}

(* A status that says no work was done, or a connection error: only the      *)
(* direct transport raises them, the others a BudgetError without a status.  *)
Rejected(c) ==
    /\ pc[c] = "sent" /\ charge[c] \in RefusedCost(c)
    /\ IF TransportOf[c] = "direct" THEN GiveBack(c) ELSE UNCHANGED ledger
    /\ Goto(c, "done")
    /\ dropped' = IF charge[c] > 0 THEN dropped \cup {c} ELSE dropped
    /\ UNCHANGED <<now, cap, charge, granted>>

Answered(c) ==
    /\ pc[c] = "sent"
    /\ Goto(c, "answered")
    /\ UNCHANGED <<ledger, now, cap, charge, granted, dropped>>

(* The answer is settled from its usage, or from its receipt.              *)
SettleAnswer(c) ==
    /\ pc[c] = "answered"
    /\ Settle(c, charge[c])
    /\ Goto(c, "done")
    /\ UNCHANGED <<now, cap, charge, granted, dropped>>

(* Mutant: a timeout gives the hold back.                                  *)
AbandonReleases(c) ==
    /\ pc[c] \in {"reserved", "sent", "answered"}
    /\ GiveBack(c)
    /\ Goto(c, "done")
    /\ UNCHANGED <<now, cap, charge, granted, dropped>>

(* A timeout, a server error, an answer without usable usage, a ledger     *)
(* that cannot be written, the end of the process: the hold stays open.    *)
Abandon(c) ==
    /\ pc[c] \in {"reserved", "sent", "answered"}
    /\ Goto(c, "done")
    /\ UNCHANGED <<ledger, now, cap, charge, granted, dropped>>

(* usage.reconcile: the proxy still has the receipt of an open hold, which *)
(* may be of no credits.  The call it belongs to may be in flight in       *)
(* another process.                                                        *)
Reconcile(c) ==
    /\ TransportOf[c] = "proxy" /\ hold[c] = "open"
    /\ charge[c] # Unsent
    /\ Settle(c, charge[c])
    /\ UNCHANGED <<now, cap, pc, charge, granted, dropped>>

------------------------------------------------------------------------------
SetCap(v) ==
    /\ "lower" \in Disturbances
    /\ cap' = v
    /\ UNCHANGED <<now, ledger, pc, charge, granted, dropped>>

(* A request has a timeout far below the horizon, so a call outlives it    *)
(* only when the machine slept.                                            *)
Tick ==
    /\ now < MaxTime
    /\ "sleep" \notin Disturbances =>
          \A c \in Calls : pc[c] \in {"idle", "done"} \/ now - at[c] < Horizon
    /\ now' = now + 1
    /\ UNCHANGED <<cap, ledger, pc, charge, granted, dropped>>

Next ==
    \/ \E c \in Calls :
          \/ Reserve(c) \/ Withdraw(c) \/ Dispatch(c) \/ Rejected(c)
          \/ Answered(c) \/ SettleAnswer(c) \/ Abandon(c) \/ Reconcile(c)
    \/ \E v \in Caps : SetCap(v)
    \/ Tick

Spec == Init /\ [][Next]_vars

------------------------------------------------------------------------------
(* What must hold.                                                         *)

(* The type of every variable; a call has a reservation once it was        *)
(* admitted.                                                               *)
TypeOK ==
    /\ now \in 0..MaxTime
    /\ cap \in Caps /\ granted \in Caps \cup {0}
    /\ hold \in [Calls -> {"none", "open", "settled"}]
    /\ at \in [Calls -> 0..MaxTime] /\ ts \in [Calls -> 0..MaxTime]
    /\ cost \in [Calls -> Nat] /\ charge \in [Calls -> Nat \cup {Unsent}]
    /\ dropped \subseteq Calls
    /\ pc \in [Calls -> {"idle", "reserved", "sent", "answered", "done"}]
    /\ \A c \in Calls : hold[c] = "none" <=> pc[c] = "idle"

(* A charge the provider made is in the ledger until the end: its hold is  *)
(* open, or it was settled for no less.  No timeout, crash or race with    *)
(* the recovery of receipts gives it back; only the release of a direct    *)
(* call whose connection was lost while it was served does, which          *)
(* _rejected_before_inference takes for a refusal.                         *)
ChargesAreKept ==
    \A c \in Calls \ dropped :
        charge[c] > 0 => hold[c] = "open" \/ (hold[c] = "settled" /\ cost[c] >= charge[c])

(* A metered hold is closed by its receipt only: the call was sent, and    *)
(* the ledger has what was debited.                                        *)
MeteredByReceipt ==
    \A c \in Calls :
        TransportOf[c] = "proxy" /\ hold[c] = "settled" =>
            charge[c] # Unsent /\ cost[c] = charge[c]

(* What was spent today beyond what its hold kept free for it: charges     *)
(* past their bound, and calls settled after their hold stopped gating.    *)
Unforeseen ==
    Total([c \in Calls |-> IF ts[c] - at[c] > Horizon THEN cost[c]
                           ELSE IF Overran(c) THEN cost[c] - BoundOf[c] ELSE 0],
          {c \in Calls : hold[c] = "settled" /\ Today(ts[c])})

(* The daily limit holds across concurrent calls, midnight, restarts and   *)
(* lowered limits: what is spent and held stays within the limit the last  *)
(* call was admitted under, but for what no hold could foresee.            *)
WithinAllowance == SpentToday + Held <= granted + Unforeseen
==============================================================================
