----------------------------- MODULE LiveBalance -----------------------------
(***************************************************************************)
(* The prepaid live balance of one billing owner: a Redis counter beside   *)
(* the wallet's durable balance, for an enforcing tenant with counter      *)
(* maintenance on (apps/billing/gating/services/live_counter.py and        *)
(* gating/repair.py).                                                      *)
(*                                                                         *)
(* A recording debits the counter inside its database transaction, and     *)
(* Redis has no rollback.  The wallet follows when the outbox draws the    *)
(* event down.  A credit is posted to the wallet under the billing lock    *)
(* and mirrored after the commit, without the lock.  Debits of the wallet  *)
(* that are not usage are never mirrored.  Two hourly jobs hold the        *)
(* counter to the wallet: a merge that only lowers it, and the repair,     *)
(* which raises it by what two passes in a row both measured.              *)
(***************************************************************************)
EXTENDS Integers, FiniteSets, Functions

CONSTANTS
    Recordings,     \* usage recordings
    Billed,         \* Billed[r]: the billed cost of recording r
    Credits,        \* positive wallet movements
    Debits,         \* negative wallet movements that are not usage
    Amount,         \* Amount[m]: what credit or debit m moves
    Start,          \* the balance at the start, and the counter's value
    DeMinimis,      \* REPAIR_DE_MINIMIS_MICROS
    Absent,         \* the counter has no key
    NoCandidate,    \* no open LiveBalanceRepair row
    Free,           \* nobody measures under the billing lock
    MaxFaults       \* bound: rollbacks, lost hooks, Redis failures, skipped beats

ASSUME LiveAssumption ==
    /\ Billed \in [Recordings -> Nat \ {0}]
    /\ Amount \in [Credits \cup Debits -> Nat \ {0}]
    /\ IsFiniteSet(Recordings) /\ IsFiniteSet(Credits \cup Debits)
    /\ Start \in Int /\ DeMinimis \in Nat \ {0} /\ MaxFaults \in Nat
    /\ Absent \notin Int /\ NoCandidate \notin Int /\ Free \notin Int

Total(S, f) == SumFunctionOnSet(f, S)

VARIABLES
    balance,    \* the wallet's committed balance
    live,       \* the counter, or Absent
    rec,        \* rec[r]: how far recording r has come
    seed,       \* seed[r]: the balance r read to seed the counter with
    moved,      \* moved[m]: how far credit or debit m has come
    first,      \* first_deficit_micros of the open candidate, or NoCandidate
    fresh,      \* the open candidate is inside CANDIDATE_FRESH_WINDOW
    measured,   \* the deficit a repair pass measured, while it holds the lock, or Free
    repaired,   \* a repair was applied
    faults      \* faults so far

liveVars == <<balance, live, rec, seed, moved, first, fresh, measured,
              repaired, faults>>

walletVars == <<balance, moved>>
repairVars == <<first, fresh, measured, repaired>>

Lesser(a, b) == IF a < b THEN a ELSE b

NoDeficit == Absent     \* what an absent counter measures

LiveInit ==
    /\ balance = Start /\ live = Start
    /\ rec = [r \in Recordings |-> "new"]
    /\ seed = [r \in Recordings |-> 0]
    /\ moved = [m \in Credits \cup Debits |-> "new"]
    /\ first = NoCandidate /\ fresh = TRUE /\ measured = Free
    /\ repaired = FALSE /\ faults = 0

\* The recordings that the counter has debited and the wallet has not.
InFlight == {r \in Recordings : rec[r] \in {"debited", "recorded"}}

Fault == faults < MaxFaults /\ faults' = faults + 1

-----------------------------------------------------------------------------
(* A recording.                                                             *)

\* get_customer_balance in LiveCounter.debit: no lock is held.
ReadSeed(r) ==
    /\ rec[r] = "new"
    /\ seed' = [seed EXCEPT ![r] = balance]
    /\ rec' = [rec EXCEPT ![r] = "seeded"]
    /\ UNCHANGED <<walletVars, live, repairVars, faults>>

\* Mutant: the script seeds whether or not the key exists.
SeedAlways(s, cost) == s - cost

\* _SEED_AND_DECR
SeedAndDecr(s, cost) == (IF live = Absent THEN s ELSE live) - cost

DebitLive(r) ==
    /\ rec[r] = "seeded"
    /\ live' = SeedAndDecr(seed[r], Billed[r])
    /\ seed' = [seed EXCEPT ![r] = 0]
    /\ rec' = [rec EXCEPT ![r] = "debited"]
    /\ UNCHANGED <<walletVars, repairVars, faults>>

\* Redis fails: the debit is skipped and the recording goes on.
DebitBlind(r) ==
    /\ rec[r] = "seeded" /\ Fault
    /\ seed' = [seed EXCEPT ![r] = 0]
    /\ rec' = [rec EXCEPT ![r] = "blind"]
    /\ UNCHANGED <<walletVars, live, repairVars>>

\* The recording's outer transaction commits; its outbox row is now due.
CommitRecording(r) ==
    /\ rec[r] \in {"debited", "blind"}
    /\ rec' = [rec EXCEPT ![r] = IF rec[r] = "debited" THEN "recorded" ELSE "recordedBlind"]
    /\ UNCHANGED <<walletVars, live, seed, repairVars, faults>>

\* It rolls back after the debit: nothing takes the Redis debit back.
RollBack(r) ==
    /\ rec[r] \in {"seeded", "debited", "blind"} /\ Fault
    /\ seed' = [seed EXCEPT ![r] = 0]
    /\ rec' = [rec EXCEPT ![r] = "rolledBack"]
    /\ UNCHANGED <<walletVars, live, repairVars>>

\* draw_down_usage, under the billing lock.
DrawDown(r) ==
    /\ rec[r] \in {"recorded", "recordedBlind"} /\ measured = Free
    /\ balance' = balance - Billed[r]
    /\ rec' = [rec EXCEPT ![r] = "drawn"]
    /\ UNCHANGED <<moved, live, seed, repairVars, faults>>

-----------------------------------------------------------------------------
(* Other movements of the wallet.                                           *)

\* _execute with a positive amount: the mirror is registered on commit.
PostCredit(m) ==
    /\ moved[m] = "new" /\ measured = Free
    /\ balance' = balance + Amount[m]
    /\ moved' = [moved EXCEPT ![m] = "posted"]
    /\ UNCHANGED <<live, rec, seed, repairVars, faults>>

\* _INCR_IF_PRESENT
IncrIfPresent(amount) == IF live = Absent THEN Absent ELSE live + amount

\* LiveCounter.credit, after the commit.
Mirror(m) ==
    /\ moved[m] = "posted"
    /\ live' = IncrIfPresent(Amount[m])
    /\ moved' = [moved EXCEPT ![m] = "mirrored"]
    /\ UNCHANGED <<balance, rec, seed, repairVars, faults>>

\* The process dies before the hook, or Redis does not answer it.
LoseMirror(m) ==
    /\ moved[m] = "posted" /\ Fault
    /\ moved' = [moved EXCEPT ![m] = "lost"]
    /\ UNCHANGED <<balance, live, rec, seed, repairVars>>

\* Withdrawals, expiries, voids and clawbacks: "debits never mirror".
PostDebit(m) ==
    /\ moved[m] = "new" /\ measured = Free
    /\ balance' = balance - Amount[m]
    /\ moved' = [moved EXCEPT ![m] = "unmirrored"]
    /\ UNCHANGED <<live, rec, seed, repairVars, faults>>

\* Eviction, a Redis restart, or LiveCounter.cleanup on a mode flip.
Flush ==
    /\ live # Absent /\ Fault
    /\ live' = Absent
    /\ UNCHANGED <<walletVars, rec, seed, repairVars>>

-----------------------------------------------------------------------------
(* The hourly jobs.                                                         *)

\* _RECONCILE_MIN: an absent key is seeded, a present one only lowered.
ReconcileMin == IF live = Absent THEN balance ELSE Lesser(live, balance)

\* _reconcile_prepaid: the balance is read under the billing lock, so nothing
\* moves it before the merge.
reconcile_prepaid ==
    /\ measured = Free
    /\ live' = ReconcileMin
    /\ UNCHANGED <<walletVars, rec, seed, repairVars, faults>>

\* _repair_owner takes the lock, reads the balance and then the counter.
RepairMeasures ==
    /\ measured = Free
    /\ measured' = IF live = Absent THEN NoDeficit ELSE balance - live
    /\ UNCHANGED <<walletVars, live, rec, seed, first, fresh, repaired, faults>>

\* The deficit reaches REPAIR_DE_MINIMIS_MICROS.
Qualifying == measured # NoDeficit /\ measured >= DeMinimis

Standing == first # NoCandidate /\ fresh

Release == measured' = Free /\ UNCHANGED <<walletVars, rec, seed, faults>>

\* No candidate, or one too stale to prove an hour: lapse it, observe again.
RepairObserves ==
    /\ measured # Free /\ ~Standing
    /\ first' = IF Qualifying THEN measured ELSE NoCandidate
    /\ fresh' = TRUE
    /\ Release /\ UNCHANGED <<live, repaired>>

\* The deficit drained, or the key has gone before the increment reached it.
RepairLapses ==
    /\ measured # Free /\ Standing
    /\ ~Qualifying \/ live = Absent
    /\ first' = NoCandidate
    /\ Release /\ UNCHANGED <<live, fresh, repaired>>

\* Mutant: the candidate is closed and nothing is added.
RepairAmountNone(d1, d2) == 0

\* min(first, second)
RepairAmount(d1, d2) == Lesser(d1, d2)

RepairApplies ==
    /\ measured # Free /\ Standing /\ Qualifying /\ live # Absent
    /\ live' = IncrIfPresent(RepairAmount(first, measured))
    /\ first' = NoCandidate /\ repaired' = TRUE
    /\ Release /\ UNCHANGED fresh

\* The next beat is skipped.
CandidateAges ==
    /\ first # NoCandidate /\ fresh /\ Fault
    /\ fresh' = FALSE
    /\ UNCHANGED <<walletVars, live, rec, seed, first, measured, repaired>>

RepairDecides == RepairObserves \/ RepairLapses \/ RepairApplies

-----------------------------------------------------------------------------
LiveNext ==
    \/ \E r \in Recordings : \/ ReadSeed(r) \/ DebitLive(r) \/ DebitBlind(r)
                             \/ CommitRecording(r) \/ RollBack(r) \/ DrawDown(r)
    \/ \E m \in Credits : PostCredit(m) \/ Mirror(m) \/ LoseMirror(m)
    \/ \E m \in Debits : PostDebit(m)
    \/ Flush
    \/ reconcile_prepaid
    \/ RepairMeasures \/ RepairObserves \/ RepairLapses \/ RepairApplies
    \/ CandidateAges

LiveSpec == LiveInit /\ [][LiveNext]_liveVars

\* A request that started ends, the outbox draws a recorded event down (module
\* Outbox), a hook that was not lost runs, and the hourly beat keeps running
\* both jobs.
Fairness ==
    /\ \A r \in Recordings : /\ WF_liveVars(DebitLive(r)) /\ WF_liveVars(CommitRecording(r))
                             /\ SF_liveVars(DrawDown(r))
    /\ \A m \in Credits : WF_liveVars(Mirror(m))
    /\ SF_liveVars(reconcile_prepaid)
    /\ WF_liveVars(RepairMeasures) /\ WF_liveVars(RepairDecides)

FairSpec == LiveSpec /\ Fairness

-----------------------------------------------------------------------------
(* Properties.                                                              *)

\* Costs that the counter has taken and the wallet has not.
Undrawn == Total(InFlight, Billed)

\* Credits that the wallet has and the counter has not been told of.
Unmirrored == Total({m \in Credits : moved[m] = "posted"}, Amount)

\* Debits that the counter is not told of.
Unseen == Total({m \in Debits : moved[m] = "unmirrored"}, Amount)

\* The types of the state; an open candidate's first deficit reaches the
\* de-minimis, so that a repair never adds less (_repair_owner, qualifying).
LiveTypeOK ==
    /\ balance \in Int /\ live \in Int \cup {Absent}
    /\ rec \in [Recordings -> {"new", "seeded", "debited", "blind", "recorded",
                               "recordedBlind", "drawn", "rolledBack"}]
    /\ seed \in [Recordings -> Int]
    /\ moved \in [Credits \cup Debits -> {"new", "posted", "mirrored", "lost", "unmirrored"}]
    /\ first \in Int \cup {NoCandidate} /\ (first # NoCandidate => first >= DeMinimis)
    /\ measured \in Int \cup {NoDeficit, Free}
    /\ fresh \in BOOLEAN /\ repaired \in BOOLEAN /\ faults \in 0..MaxFaults

\* With no fault and no repair, the counter is what the wallet will hold when
\* everything in flight has arrived, plus at most the debits nobody told it of:
\* no interleaving of concurrent recordings, drawdowns, credits and merges
\* counts an amount twice or drops one.
LiveTracksWallet ==
    (faults = 0 /\ ~repaired) =>
        live - (balance - Undrawn - Unmirrored) \in 0..Unseen

\* "We CANNOT have a wallet balance that does not show reality": whatever was
\* rolled back, lost or raced, once the owner is quiet the merge and the repair
\* bring the counter to the wallet and keep it there, to within the
\* de-minimis.
EventuallyHonest ==
    <>[](live # Absent /\ live <= balance /\ balance - live < DeMinimis)
=============================================================================
