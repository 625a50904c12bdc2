----------------------------- MODULE StopSignal -----------------------------
(***************************************************************************)
(* The customer-wide stop of one billing owner: a business with a wallet,  *)
(* under an enforcing tenant with counter maintenance on.  Two stop lines, *)
(* the wallet's hard floor and the customer spend pool, each with a ledger *)
(* row (StopSignalState); one Redis flag that caches the verdict; and the  *)
(* owner's suspension, which has one stored reason.  The sources are       *)
(* live_counter.py, stop_signal_service.py, manual_hold.py and repair.py   *)
(* in apps/billing/gating, the drawdown tail in wallets/operations.py, the *)
(* payment and dispute webhooks and the hourly passes.                     *)
(*                                                                         *)
(* Who holds what decides the interleavings.  lock is the owner's Customer *)
(* row lock: a recording that drove a line keeps it until its transaction  *)
(* ends, and the wallet passes hold it throughout (lock_for_billing).  An  *)
(* operation that takes and gives it back in one transaction is one step.  *)
(* The credit hook and the pool pass run resume outside every lock, so     *)
(* each of its reads and writes is a step of its own.  Redis is never      *)
(* locked, and a flag written inside a transaction is seen at once.        *)
(*                                                                         *)
(* Every recording costs one and every credit and dispute moves one.       *)
(***************************************************************************)
EXTENDS Integers, FiniteSets

CONSTANTS
    Recordings,     \* usage recordings
    Credits,        \* credits of the wallet, each with its post-commit hook
    Starts,         \* the balances, and the month's charges, the owner may start with
    MinBalance,     \* the hard floor, as a magnitude
    PoolLine,       \* the pool's stop line
    Absent,         \* the live balance has no key
    NoOne,          \* the lock is free
    Budget          \* Budget[k]: bound of the environment's actions of kind k

Kinds == {"month", "dispute", "failure", "hold", "start", "fault"}

Lines == {"floor", "pool"}              \* STOP_LINES, in this order
Passes == {"reconcile", "repair"}       \* the hourly passes over the owner
Lifters == Credits \cup Passes          \* everyone that runs resume

ASSUME StopAssumption ==
    /\ Starts \subseteq Int \X Nat /\ MinBalance \in Int /\ PoolLine \in Nat \ {0}
    /\ Absent \notin Int
    /\ NoOne \notin Recordings \cup Passes
    /\ Recordings \cap Credits = {} /\ (Recordings \cup Credits) \cap Passes = {}
    /\ Budget \in [Kinds -> Nat]

VARIABLES
    balance,    \* the wallet's durable balance
    live,       \* the live balance, or Absent
    billed,     \* the month's committed charges
    spend,      \* the live month spend
    open,       \* open[l]: the ledger row of line l is stopped
    stops,      \* stops[l]: customer.stopped events, the row's episode_seq
    clears,     \* clears[l]: customer.stop_cleared events
    flag,       \* the Redis stop flag: "none" or the line it names
    status,     \* the owner's status
    reason,     \* its suspension_reason
    lock,       \* who holds the owner's row lock
    rec,        \* rec[r]: the step recording r is at, and its transaction
    lift,       \* lift[p]: the step lifter p is at
    failed,     \* a failed, unpaid local invoice stands
    failing,    \* its webhook has stamped it and not yet asked for the owner
    work,       \* an active unit of work: "none", "admitted" or "active"
    left        \* left[k]: what remains of Budget[k]

money == <<balance, live, billed, spend>>
ledger == <<open, stops, clears>>
owner == <<status, reason>>
invoice == <<failed, failing>>
vars == <<money, ledger, flag, owner, lock, rec, lift, invoice, work, left>>

PastFloor(b) == b < -MinBalance
PastPool(s) == s >= PoolLine

Idle == [pc |-> "new", leg |-> "floor", fresh |-> FALSE, drove |-> {}, won |-> {}]

Init ==
    /\ \E s \in Starts : /\ balance = s[1] /\ live = s[1]
                         /\ billed = s[2] /\ spend = s[2]
    /\ open = [l \in Lines |-> FALSE]
    /\ stops = [l \in Lines |-> 0] /\ clears = [l \in Lines |-> 0]
    /\ flag = "none" /\ status = "active" /\ reason = "none"
    /\ lock = NoOne
    /\ rec = [r \in Recordings |-> Idle]
    /\ lift = [p \in Lifters |-> "idle"]
    /\ failed = FALSE /\ failing = FALSE
    /\ work = "none" /\ left = Budget

Spend(k) == left[k] > 0 /\ left' = [left EXCEPT ![k] = @ - 1]

\* The open lines, as open_stop_lines reads them: what is committed.
OpenLines == {l \in Lines : open[l]}

First(S) == IF "floor" \in S THEN "floor" ELSE "pool"

\* drive_stop's winning transition on lines S, and the suspension folded into
\* it.  An owner that is already suspended keeps its reason.
OpenAndSuspend(S) ==
    /\ open' = [l \in Lines |-> open[l] \/ l \in S]
    /\ stops' = [l \in Lines |-> stops[l] + IF l \in S THEN 1 ELSE 0]
    /\ IF S # {} /\ status = "active"
       THEN status' = "suspended" /\ reason' = First(S)
       ELSE UNCHANGED owner

\* Mutant: a clear that did not win announces all the same.
CloseLineAlways(l) ==
    /\ open' = [open EXCEPT ![l] = FALSE]
    /\ clears' = [clears EXCEPT ![l] = @ + 1]
    /\ UNCHANGED stops

\* drive_clear: only the winner closes and announces.
CloseLine(l) ==
    /\ open' = [open EXCEPT ![l] = FALSE]
    /\ clears' = [clears EXCEPT ![l] = IF open[l] THEN @ + 1 ELSE @]
    /\ UNCHANGED stops

-----------------------------------------------------------------------------
(* A recording: LiveCounter.debit inside the recording's transaction, the   *)
(* wallet leg and then the pool leg; commit; the kill sweep; the drawdown.  *)

Step(r, pc) == rec' = [rec EXCEPT ![r].pc = pc]

\* After the wallet leg comes the pool leg, and then the end of the transaction.
NextLeg(r) == IF rec[r].leg = "floor" THEN [rec[r] EXCEPT !.pc = "measure", !.leg = "pool"]
                                      ELSE [rec[r] EXCEPT !.pc = "ending"]

Begin(r) ==
    /\ rec[r].pc = "new" /\ Step(r, "measure")
    /\ UNCHANGED <<money, ledger, flag, owner, lock, lift, invoice, work, left>>

\* _SEED_AND_DECR, then past_floor on what it returned.
MeasureFloor(r) ==
    LET v == (IF live = Absent THEN balance ELSE live) - 1
    IN  /\ rec[r].pc = "measure" /\ rec[r].leg = "floor"
        /\ live' = v
        /\ rec' = [rec EXCEPT ![r] = IF PastFloor(v) THEN [@ EXCEPT !.pc = "flag"] ELSE NextLeg(r)]
        /\ UNCHANGED <<balance, billed, spend, ledger, flag, owner, lock, lift, invoice, work, left>>

\* _SPEND_INCR, then past_spend_pool_stop.
MeasurePool(r) ==
    /\ rec[r].pc = "measure" /\ rec[r].leg = "pool"
    /\ spend' = spend + 1
    /\ rec' = [rec EXCEPT ![r] = IF PastPool(spend + 1) THEN [@ EXCEPT !.pc = "flag"] ELSE NextLeg(r)]
    /\ UNCHANGED <<balance, live, billed, ledger, flag, owner, lock, lift, invoice, work, left>>

\* Redis fails: debit gives up and the recording goes on.
DebitFails(r) ==
    /\ rec[r].pc \in {"measure", "flag"} /\ Spend("fault")
    /\ Step(r, "ending")
    /\ UNCHANGED <<money, ledger, flag, owner, lock, lift, invoice, work>>

\* _set_stop: SET NX.  A flag that names this line already, or this line's open
\* episode, ends the leg; otherwise the ledger is driven.
SetFlag(r) ==
    LET l == rec[r].leg
    IN  /\ rec[r].pc = "flag"
        /\ flag' = IF flag = "none" THEN l ELSE flag
        /\ rec' = [rec EXCEPT ![r] =
             IF flag = l \/ (flag # "none" /\ open[l])
             THEN NextLeg(r)
             ELSE [@ EXCEPT !.pc = "drive", !.fresh = (flag = "none")]]
        /\ UNCHANGED <<money, ledger, owner, lock, lift, invoice, work, left>>

\* drive_stop in a savepoint of the recording: the row locks stay with its
\* transaction, and so does what it won.  Losing with a flag it set itself
\* re-points the flag at the open episode, which is the same word.
Drive(r) ==
    LET l == rec[r].leg
    IN  /\ rec[r].pc = "drive" /\ lock \in {NoOne, r}
        /\ lock' = r
        /\ rec' = [rec EXCEPT ![r] =
             [NextLeg(r) EXCEPT !.drove = @ \cup {l},
                                !.won = IF open[l] THEN @ ELSE @ \cup {l}]]
        /\ flag' = IF open[l] /\ rec[r].fresh THEN l ELSE flag
        /\ UNCHANGED <<money, ledger, owner, lift, invoice, work, left>>

\* drive_stop raises and its savepoint is rolled back; the flag stands.
DriveFails(r) ==
    /\ rec[r].pc = "drive" /\ Spend("fault")
    /\ rec' = [rec EXCEPT ![r] = NextLeg(r)]
    /\ UNCHANGED <<money, ledger, flag, owner, lock, lift, invoice, work>>

Unlock(who) == lock' = IF lock = who THEN NoOne ELSE lock

\* The posting, the episodes it opened, the suspension and the events commit.
CommitRecording(r) ==
    /\ rec[r].pc = "ending"
    /\ billed' = billed + 1
    /\ OpenAndSuspend(rec[r].won)
    /\ Unlock(r)
    /\ rec' = [rec EXCEPT ![r] =
         [Idle EXCEPT !.pc = IF "pool" \in rec[r].won THEN "sweep" ELSE "recorded"]]
    /\ UNCHANGED <<balance, live, spend, clears, flag, lift, invoice, work, left>>

\* It rolls back: the counters and the flag keep what it did to them.
RollBack(r) ==
    /\ rec[r].pc \notin {"new", "sweep", "recorded", "done"} /\ Spend("fault")
    /\ Unlock(r)
    /\ rec' = [rec EXCEPT ![r] = [Idle EXCEPT !.pc = "done"]]
    /\ UNCHANGED <<money, ledger, flag, owner, lift, invoice, work>>

Kill(w) == IF w = "active" THEN "none" ELSE w

\* stop_active_work, registered on the commit of the recording that won the
\* pool's line.
SweepOnCommit(r) ==
    /\ rec[r].pc = "sweep" /\ Step(r, "recorded")
    /\ work' = Kill(work)
    /\ UNCHANGED <<money, ledger, flag, owner, lock, lift, invoice, left>>

\* The process dies after the commit and before the sweep.
SweepLost(r) ==
    /\ rec[r].pc = "sweep" /\ Spend("fault") /\ Step(r, "recorded")
    /\ UNCHANGED <<money, ledger, flag, owner, lock, lift, invoice, work>>

\* draw_down_usage and _drawdown_tail, under the billing lock: the wallet
\* crosses its floor, the floor's line is driven and the flag ensured.  That the
\* drive fails and is swallowed is left out: the flag is set without a line, which
\* the hourly pass opens.
DrawDown(r) ==
    LET crossed == ~PastFloor(balance) /\ PastFloor(balance - 1)
    IN  /\ rec[r].pc = "recorded" /\ lock = NoOne /\ Step(r, "done")
        /\ balance' = balance - 1
        /\ OpenAndSuspend(IF crossed /\ ~open["floor"] THEN {"floor"} ELSE {})
        /\ flag' = IF crossed /\ flag = "none" THEN "floor" ELSE flag
        /\ UNCHANGED <<live, billed, spend, clears, lock, lift, invoice, work, left>>

-----------------------------------------------------------------------------
(* The one site that reactivates an owner.                                  *)

\* Mutant: the floor's word is missing from the clearable reasons.
MoneyReasonsPool == {"pool", "dispute_lost"}

\* _MONEY_SUSPEND_REASONS and a lost dispute.
MoneyReasons == {"floor", "pool", "dispute_lost"}

\* _standing_money_cause: an open line, else a wallet past its floor.
StandingCause == IF OpenLines # {} THEN First(OpenLines)
                 ELSE IF PastFloor(balance) THEN "floor" ELSE "none"

\* Mutant: a payment failure does not hold the owner.
MaybeUnsuspendPaid(clearable, standing) ==
    IF status = "suspended" /\ reason \in clearable
    THEN IF standing # "none" THEN UNCHANGED status /\ reason' = standing
         ELSE status' = "active" /\ reason' = "none"
    ELSE UNCHANGED owner

\* _maybe_unsuspend under the owner's row lock: a standing payment failure
\* takes the reason over, then the standing cause the caller asked about.
MaybeUnsuspend(clearable, standing) ==
    IF status = "suspended" /\ reason \in clearable
    THEN IF failed THEN UNCHANGED status /\ reason' = "payment_failed"
         ELSE IF standing # "none" THEN UNCHANGED status /\ reason' = standing
         ELSE status' = "active" /\ reason' = "none"
    ELSE UNCHANGED owner

-----------------------------------------------------------------------------
(* resume outside the billing lock: the credit hook on the floor's line and *)
(* the pool leg of the reconcile on the pool's.                             *)

LineOf(p) == IF p = "reconcile" THEN "pool" ELSE "floor"

At(p, pc, next) == lift[p] = pc /\ lift' = [lift EXCEPT ![p] = next]

\* A credit's hook runs once; a pass comes round again.
Rest(p) == IF p \in Credits THEN "finished" ELSE "idle"

\* The ledger row of l is not locked by a transaction in progress.
RowFree(l) == /\ lock \in Recordings => l \notin rec[lock].drove
              /\ lock \in Passes => l # "floor"

resume_DriveClear(p) ==
    /\ At(p, "clear", "lines")
    /\ RowFree(LineOf(p)) /\ CloseLine(LineOf(p))
    /\ UNCHANGED <<money, flag, owner, lock, rec, invoice, work, left>>

\* open_stop_lines; a surviving line gets the flag and keeps the suspension.
resume_OpenLines(p) ==
    /\ IF OpenLines # {} THEN At(p, "lines", Rest(p)) /\ flag' = First(OpenLines)
                         ELSE At(p, "lines", "unflag") /\ UNCHANGED flag
    /\ UNCHANGED <<money, ledger, owner, lock, rec, invoice, work, left>>

resume_ClearStop(p) ==
    /\ At(p, "unflag", "gate")
    /\ flag' = "none"
    /\ UNCHANGED <<money, ledger, owner, lock, rec, invoice, work, left>>

\* _durable_floor_recovered, on the committed balance.
resume_DurableGate(p) ==
    /\ At(p, "gate", IF PastFloor(balance) THEN Rest(p) ELSE "unsuspend")
    /\ UNCHANGED <<money, ledger, flag, owner, lock, rec, invoice, work, left>>

resume_Unsuspend(p) ==
    /\ At(p, "unsuspend", Rest(p))
    /\ lock = NoOne /\ MaybeUnsuspend(MoneyReasons, "none")
    /\ UNCHANGED <<money, ledger, flag, lock, rec, invoice, work, left>>

\* A lifter raises or dies on its way: a transaction it held is rolled back,
\* and what it did to Redis stays done.  A wallet leg that raises is followed
\* by the pool leg.
LifterFails(p) ==
    /\ lift[p] \notin {"idle", "hook", "finished"} /\ Spend("fault")
    /\ \E next \in {Rest(p)} \cup {q \in {"pool"} : p = "reconcile" /\ lock = p} :
         lift' = [lift EXCEPT ![p] = next]
    /\ lock' = IF lock = p THEN NoOne ELSE lock
    /\ UNCHANGED <<money, ledger, flag, owner, rec, invoice, work>>

\* The wallet is credited under the billing lock.
PostCredit(c) ==
    /\ At(c, "idle", "hook") /\ lock = NoOne
    /\ balance' = balance + 1
    /\ UNCHANGED <<live, billed, spend, ledger, flag, owner, lock, rec, invoice, work, left>>

\* LiveCounter.credit after the commit: INCR if present; the counter, or the
\* durable balance where there is none, says whether the floor is recovered.
CreditHook(c) ==
    LET v == IF live = Absent THEN balance ELSE live + 1
    IN  /\ At(c, "hook", IF PastFloor(v) THEN "finished" ELSE "clear")
        /\ live' = IF live = Absent THEN Absent ELSE v
        /\ UNCHANGED <<balance, billed, spend, ledger, flag, owner, lock, rec, invoice, work, left>>

CreditHookLost(c) ==
    /\ At(c, "hook", "finished") /\ Spend("fault")
    /\ UNCHANGED <<money, ledger, flag, owner, lock, rec, invoice, work>>

-----------------------------------------------------------------------------
(* The hourly passes: reconcile, the wallet leg and then the pool leg, and   *)
(* the upward repair.                                                       *)

\* Mutant: the pass merges and drives nothing upwards.
WalletPassLiftsOnly ==
    LET v == IF live = Absent \/ balance < live THEN balance ELSE live
    IN  /\ lock = NoOne
        /\ At("reconcile", "idle", IF PastFloor(v) THEN "idle" ELSE "lifting")
        /\ lock' = IF PastFloor(v) THEN NoOne ELSE "reconcile"
        /\ live' = v
        /\ UNCHANGED <<balance, billed, spend, ledger, flag, owner, rec, invoice, work, left>>

\* _reconcile_prepaid takes the billing lock and MIN-merges.
WalletPass ==
    LET v == IF live = Absent \/ balance < live THEN balance ELSE live
    IN  /\ lock = NoOne
        /\ At("reconcile", "idle", IF PastFloor(v) THEN "stopping" ELSE "lifting")
        /\ lock' = "reconcile"
        /\ live' = v
        /\ UNCHANGED <<balance, billed, spend, ledger, flag, owner, rec, invoice, work, left>>

\* _repair_owner raises a counter that is below the wallet (module LiveBalance
\* has the two passes) and resumes when that lifted it over the floor.  The raise
\* is by an amount, so that recordings in flight at both passes could take it past
\* the balance; here it stops there, and the merge would lower it.
Repair ==
    /\ lift["repair"] = "idle" /\ lock = NoOne /\ live # Absent /\ live < balance
    /\ \E v \in (live + 1)..balance :
         /\ live' = v
         /\ IF PastFloor(v) THEN UNCHANGED <<lift, lock>>
            ELSE At("repair", "idle", "lifting") /\ lock' = "repair"
    /\ UNCHANGED <<balance, billed, spend, ledger, flag, owner, rec, invoice, work, left>>

\* drive_stop and ensure_stop_flag in the pass's transaction: the flag is seen
\* first, the ledger at the commit.
WalletEnsureFlag ==
    /\ At("reconcile", "stopping", "opening")
    /\ flag' = IF flag = "none" THEN "floor" ELSE flag
    /\ UNCHANGED <<money, ledger, owner, lock, rec, invoice, work, left>>

WalletCommitOpen ==
    /\ At("reconcile", "opening", "pool") /\ lock' = NoOne
    /\ OpenAndSuspend({"floor"} \ OpenLines)
    /\ UNCHANGED <<money, clears, flag, rec, invoice, work, left>>

\* resume inside a pass: its own clear of the floor is not committed yet.
LockedOpenLines(p) ==
    /\ IF open["pool"] THEN At(p, "lifting", "kept") /\ flag' = "pool"
                       ELSE At(p, "lifting", "unflagging") /\ UNCHANGED flag
    /\ UNCHANGED <<money, ledger, owner, lock, rec, invoice, work, left>>

LockedClearStop(p) ==
    /\ At(p, "unflagging", "lifted")
    /\ flag' = "none"
    /\ UNCHANGED <<money, ledger, owner, lock, rec, invoice, work, left>>

LockedCommit(p) ==
    LET after == IF p = "reconcile" THEN "pool" ELSE "idle"
    IN  /\ \/ At(p, "kept", after) /\ UNCHANGED owner
           \/ /\ At(p, "lifted", after)
              /\ IF PastFloor(balance) THEN UNCHANGED owner
                                       ELSE MaybeUnsuspend(MoneyReasons, "none")
        /\ lock' = NoOne /\ CloseLine("floor")
        /\ UNCHANGED <<money, flag, rec, invoice, work, left>>

\* _reconcile_pool: the MAX-merge, and which way the line is driven.
PoolPass ==
    LET v == IF spend < billed THEN billed ELSE spend
    IN  /\ At("reconcile", "pool", IF PastPool(v) THEN "set" ELSE "clear")
        /\ spend' = v
        /\ UNCHANGED <<balance, live, billed, ledger, flag, owner, lock, rec, invoice, work, left>>

\* Its drive_stop.  A win sweeps on commit and then ensures the flag.
PoolDrive ==
    /\ At("reconcile", "set", IF open["pool"] THEN "ensure" ELSE "sweep")
    /\ lock = NoOne
    /\ OpenAndSuspend({"pool"} \ OpenLines)
    /\ UNCHANGED <<money, clears, flag, lock, rec, invoice, work, left>>

PoolSweep ==
    /\ At("reconcile", "sweep", "ensureLast")
    /\ work' = Kill(work)
    /\ UNCHANGED <<money, ledger, flag, owner, lock, rec, invoice, left>>

PoolEnsureFlag ==
    /\ At("reconcile", "ensure", "resweep") \/ At("reconcile", "ensureLast", "idle")
    /\ flag' = IF flag = "none" THEN "pool" ELSE flag
    /\ UNCHANGED <<money, ledger, owner, lock, rec, invoice, work, left>>

\* Mutant: a line that was open already is not swept again.
PoolResweepNothing ==
    /\ At("reconcile", "resweep", "idle")
    /\ UNCHANGED <<money, ledger, flag, owner, lock, rec, invoice, work, left>>

\* The line was open already: a kill that crashed is retried.
PoolResweep ==
    /\ At("reconcile", "resweep", "idle")
    /\ work' = Kill(work)
    /\ UNCHANGED <<money, ledger, flag, owner, lock, rec, invoice, left>>

-----------------------------------------------------------------------------
(* Other causes of suspension.                                              *)

\* handle_charge_dispute_closed: the clawback, and the suspension in its
\* transaction.  The counter is not told, and no line is driven.
DisputeLost ==
    /\ Spend("dispute") /\ lock = NoOne
    /\ balance' = balance - 1
    /\ IF PastFloor(balance - 1) /\ status = "active"
       THEN status' = "suspended" /\ reason' = "dispute_lost"
       ELSE UNCHANGED owner
    /\ UNCHANGED <<live, billed, spend, ledger, flag, lock, rec, lift, invoice, work>>

\* handle_invoice_payment_failed: the stamp commits first.
InvoiceFails ==
    /\ Spend("failure") /\ failed' = TRUE /\ failing' = TRUE
    /\ UNCHANGED <<money, ledger, flag, owner, lock, rec, lift, work>>

\* Then the owner's standing is read under its row lock.
SuspendForFailure ==
    /\ failing /\ lock = NoOne /\ failing' = FALSE
    /\ IF status = "active" THEN status' = "suspended" /\ reason' = "payment_failed"
                            ELSE UNCHANGED owner
    /\ UNCHANGED <<money, ledger, flag, lock, rec, lift, failed, work, left>>

\* The invoice is paid or voided.
InvoiceSettles ==
    /\ failed /\ failed' = FALSE
    /\ UNCHANGED <<money, ledger, flag, owner, lock, rec, lift, failing, work, left>>

\* clear_payment_failed_suspension, from the webhook and the hourly AR pass.
clear_payment_failed_suspension ==
    /\ status = "suspended" /\ reason = "payment_failed" /\ ~failed /\ lock = NoOne
    /\ MaybeUnsuspend({"payment_failed"}, StandingCause)
    /\ UNCHANGED <<money, ledger, flag, lock, rec, lift, invoice, work, left>>

place_manual_hold ==
    /\ status = "active" /\ Spend("hold") /\ lock = NoOne
    /\ status' = "suspended" /\ reason' = "manual"
    /\ UNCHANGED <<money, ledger, flag, lock, rec, lift, invoice, work>>

release_manual_hold ==
    /\ status = "suspended" /\ reason = "manual" /\ lock = NoOne
    /\ MaybeUnsuspend({"manual"}, StandingCause)
    /\ UNCHANGED <<money, ledger, flag, lock, rec, lift, invoice, work, left>>

-----------------------------------------------------------------------------
(* Work and the environment.                                                *)

\* RiskService.check: standing, flag and floor, without a lock.
AdmitWork ==
    /\ work = "none" /\ Spend("start")
    /\ status = "active" /\ flag = "none" /\ ~PastFloor(balance)
    /\ work' = "admitted"
    /\ UNCHANGED <<money, ledger, flag, owner, lock, rec, lift, invoice>>

StartWork ==
    /\ work = "admitted" /\ work' = "active"
    /\ UNCHANGED <<money, ledger, flag, owner, lock, rec, lift, invoice, left>>

\* The counters' month label changes.  A recording and a pass end in the month
\* they began in: one that midnight cuts in two is left out.
NewMonth ==
    /\ \A r \in Recordings : rec[r].pc \in {"new", "sweep", "recorded", "done"}
    /\ lift["reconcile"] \in {"idle", "pool"} /\ Spend("month")
    /\ billed' = 0 /\ spend' = 0
    /\ UNCHANGED <<balance, live, ledger, flag, owner, lock, rec, lift, invoice, work>>

\* Redis loses its keys.
Flush ==
    /\ Spend("fault")
    /\ live' = Absent /\ spend' = 0 /\ flag' = "none"
    /\ UNCHANGED <<balance, billed, ledger, owner, lock, rec, lift, invoice, work>>

-----------------------------------------------------------------------------
RecordingStep(r) == \/ MeasureFloor(r) \/ MeasurePool(r) \/ SetFlag(r) \/ Drive(r)
                    \/ CommitRecording(r) \/ SweepOnCommit(r) \/ DrawDown(r)

LiftStep(p) == \/ resume_DriveClear(p) \/ resume_OpenLines(p) \/ resume_ClearStop(p)
               \/ resume_DurableGate(p) \/ resume_Unsuspend(p)
               \/ LockedOpenLines(p) \/ LockedClearStop(p) \/ LockedCommit(p)

ReconcileStep == \/ WalletPass \/ WalletEnsureFlag \/ WalletCommitOpen
                 \/ PoolPass \/ PoolDrive \/ PoolSweep \/ PoolEnsureFlag \/ PoolResweep
                 \/ LiftStep("reconcile")

Next ==
    \/ \E r \in Recordings :
         \/ Begin(r) \/ MeasureFloor(r) \/ MeasurePool(r) \/ DebitFails(r) \/ SetFlag(r)
         \/ Drive(r) \/ DriveFails(r) \/ CommitRecording(r) \/ RollBack(r)
         \/ SweepOnCommit(r) \/ SweepLost(r) \/ DrawDown(r)
    \/ \E p \in Lifters :
         \/ resume_DriveClear(p) \/ resume_OpenLines(p) \/ resume_ClearStop(p)
         \/ resume_DurableGate(p) \/ resume_Unsuspend(p) \/ LifterFails(p)
    \/ \E c \in Credits : PostCredit(c) \/ CreditHook(c) \/ CreditHookLost(c)
    \/ \E p \in Passes : LockedOpenLines(p) \/ LockedClearStop(p) \/ LockedCommit(p)
    \/ WalletPass \/ WalletEnsureFlag \/ WalletCommitOpen
    \/ PoolPass \/ PoolDrive \/ PoolSweep \/ PoolEnsureFlag \/ PoolResweep
    \/ Repair
    \/ DisputeLost
    \/ InvoiceFails \/ SuspendForFailure \/ InvoiceSettles \/ clear_payment_failed_suspension
    \/ place_manual_hold \/ release_manual_hold
    \/ AdmitWork \/ StartWork
    \/ NewMonth \/ Flush

Spec == Init /\ [][Next]_vars

(***************************************************************************)
(* What must go on.  Recordings and hooks that began run to their end, the *)
(* hourly beats come round, a redelivered webhook is handled.  Whoever     *)
(* waits for the owner's row lock gets it: the database queues its waiters *)
(* (strong fairness).  New usage, credits, faults, months and an           *)
(* operator's moves are never owed.                                        *)
(***************************************************************************)
Fairness ==
    /\ \A r \in Recordings : SF_vars(RecordingStep(r))
    /\ \A c \in Credits : WF_vars(CreditHook(c))
    /\ \A p \in Lifters \ {"reconcile"} : SF_vars(LiftStep(p))
    /\ SF_vars(ReconcileStep)
    /\ SF_vars(SuspendForFailure) /\ SF_vars(clear_payment_failed_suspension)
    /\ WF_vars(StartWork)

FairSpec == Spec /\ Fairness

-----------------------------------------------------------------------------
(* Properties.                                                              *)

RecSteps == {"new", "measure", "flag", "drive", "ending", "sweep", "recorded", "done"}
LockedSteps == {"stopping", "opening", "lifting", "kept", "unflagging", "lifted"}
LiftSteps == {"idle", "hook", "finished", "clear", "lines", "unflag", "gate", "unsuspend",
              "pool", "set", "sweep", "ensure", "ensureLast", "resweep"} \cup LockedSteps

\* The types of the state, and with them who may hold the row lock: a recording
\* only once it drove a line, a pass only in its transaction, and
\* never an owner that is suspended without a reason or active with one
\* (Customer.suspension_reason beside status).
TypeOK ==
    /\ balance \in Int /\ live \in Int \cup {Absent} /\ billed \in Nat /\ spend \in Nat
    /\ open \in [Lines -> BOOLEAN] /\ stops \in [Lines -> Nat] /\ clears \in [Lines -> Nat]
    /\ flag \in Lines \cup {"none"}
    /\ status \in {"active", "suspended"}
    /\ reason \in Lines \cup {"none", "dispute_lost", "payment_failed", "manual"}
    /\ (status = "active") = (reason = "none")
    /\ rec \in [Recordings -> [pc : RecSteps, leg : Lines, fresh : BOOLEAN,
                               drove : SUBSET Lines, won : SUBSET Lines]]
    /\ lift \in [Lifters -> LiftSteps]
    /\ lock \in Recordings \cup Passes \cup {NoOne}
    /\ \A r \in Recordings : (lock = r) = (rec[r].drove # {})
    /\ \A p \in Passes : (lock = p) = (lift[p] \in LockedSteps)
    /\ failed \in BOOLEAN /\ failing \in BOOLEAN
    /\ work \in {"none", "admitted", "active"}
    /\ left \in [Kinds -> Nat]

\* The two event streams of a line alternate, whichever lanes race: every
\* customer.stop_cleared answers one customer.stopped, and a line that is open
\* has announced exactly one more stop than it has cleared (drive_stop and
\* drive_clear emit on the winning transition only).
SignalsAlternate ==
    \A l \in Lines : stops[l] = clears[l] + (IF open[l] THEN 1 ELSE 0)

\* A standing payment failure holds the owner: once its webhook has run, no
\* recovery of any other cause makes the owner active (_maybe_unsuspend, the
\* multi-invoice rule; handle_invoice_payment_failed's commit order).
FailureHoldsOwner == failed /\ ~failing => status = "suspended"

\* A manual hold's release and a settled invoice reactivate only an owner that
\* no open line, no wallet past its floor and no payment failure still holds
\* (_maybe_unsuspend with check_money_causes).
HandOver ==
    [][ status' = "active" /\ reason \in {"manual", "payment_failed"}
        => OpenLines = {} /\ ~PastFloor(balance) /\ ~failed ]_vars

\* A wallet that stays past its floor is stopped, late at the most: its line is
\* open in the ledger and the flag says so (the bottom line of the hourly
\* reconcile: "late, never lost").
StopsSignalled ==
    PastFloor(balance) ~> \/ open["floor"] /\ flag # "none"
                          \/ ~PastFloor(balance)

\* Nothing holds the owner: neither money, nor an invoice, nor an operator.
Recovered ==
    /\ ~PastFloor(balance) /\ (live # Absent => ~PastFloor(live))
    /\ ~PastPool(spend) /\ ~PastPool(billed)
    /\ ~failed /\ reason # "manual"

\* An owner that has recovered for good is eventually active, unflagged and
\* without an open line, and stays so, whatever was lost on the way (a credit
\* hook, a flag, a pass).
RecoveryReactivates ==
    <>[]Recovered => <>[](status = "active" /\ flag = "none" /\ OpenLines = {})

\* Work that is active under an open pool line is killed, unless the line
\* lifts: also the work an admission let in while the line was opening, and
\* also when the winner died before its sweep (stop_active_work retried by the
\* hourly pass).
KillConverges ==
    work = "active" /\ open["pool"] ~> work # "active" \/ ~open["pool"]
=============================================================================
