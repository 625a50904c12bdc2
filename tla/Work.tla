-------------------------------- MODULE Work --------------------------------
(***************************************************************************)
(* Units of work of one customer of an enforcing tenant: top-level units   *)
(* and the units they contain, the usage recorded against them, the limits *)
(* and sweeps that end them, the agreed price a unit reserves and the      *)
(* charge its delivery earns, and the announcement of a stop.  Sources:    *)
(* apps/platform/work, the start and close endpoints, the recording and    *)
(* the settlement doors of apps/metering, apps/billing/wallets/            *)
(* reservations.py and the unit legs of gating/patrol.py.                  *)
(*                                                                         *)
(* Every writer of a unit locks the parent's row and then its own until    *)
(* its transaction ends, so a transaction is one step.  What is decided    *)
(* before the locks (the money check of a start, the lists of the two      *)
(* sweepers) and what runs after the commit (the kills a recording found)  *)
(* are steps of their own.                                                 *)
(*                                                                         *)
(* A unit is named by the idempotency key of its start, a posting by the   *)
(* key of its report: the unique constraints make a repeat a replay, which *)
(* changes nothing.  A report costs one, or minus one (a credit: quantities *)
(* may be negative), and is priced at one: a negative price is refused and *)
(* stays unresolved.  heard stands for the last report and for the ages    *)
(* that the windows and the absolute deadline measure; nobody reads it     *)
(* once a unit has ended.                                                  *)
(*                                                                         *)
(* The wallet is moved by the charges of these units alone: the customer's *)
(* other drawdowns, debits and credits are in StopSignal and WalletLedger. *)
(***************************************************************************)
EXTENDS Integers, FiniteSets, Sequences, FiniteSetsExt

CONSTANTS
    Tops, Subs,     \* top-level units and contained units
    Postings,       \* reports of usage
    Ceiling,        \* Ceiling[u]: the cost ceiling of a unit
    Amounts,        \* the states of cost and price a report may come with
    Declared,       \* the outcomes a close may declare
    Price,          \* the agreed price of a unit of the fixed regime
    Funds,          \* the balances a wallet may start with
    MinBalance,     \* the floor, as a magnitude
    NoUnit,
    Faults          \* bound on what goes wrong

Units == Tops \cup Subs

ASSUME WorkAssumption ==
    /\ Tops \cap Subs = {} /\ NoUnit \notin Units /\ IsFiniteSet(Units) /\ IsFiniteSet(Postings)
    /\ Ceiling \in [Units -> Nat \ {0}]
    /\ Amounts \subseteq {"known", "credit", "unresolved"} \X {"known", "unresolved"}
    /\ Declared \subseteq {"completed", "failed", "cancelled"}
    /\ Price \in Nat /\ Funds \subseteq Int /\ MinBalance \in Int /\ Faults \in Nat

VARIABLES
    status,     \* the unit's status; "unborn" before its start commits
    parent,     \* the unit that contains it, or NoUnit
    mode,       \* its pricing regime
    cause,      \* what ended it
    heard,      \* its reports: "never", "overdue" (never, and past its deadline),
                \* "recent" or "silent" (past its window)
    total,      \* total[u]: its cost and billed totals
    missing,    \* missing[u]: reports it counted without an amount
    start,      \* start[u]: a start that passed the checks, not yet committed
    post,       \* post[k]: the posting of report k and the state of its amounts
    plan,       \* plan[k]: the kills recording k still has to execute
    listed,     \* the units the stale reaper read as past a window
    unheard,    \* the units the abandoned sweep read as never reported
    over,       \* the units the patrol read as over their ceiling
    resv,       \* resv[u]: its wallet reservation
    charges,    \* charges[u]: charges written for it
    drawn,      \* the units whose charge the wallet has paid
    balance,    \* the owner's wallet
    ann,        \* ann[u]: the outbox row its stop is stamped with
    copies,     \* history: announcements of its stop that are not dead letters
    faults      \* what may still go wrong

unit == <<status, parent, mode, cause>>
books == <<total, missing, post>>
sweeps == <<listed, unheard, over>>
money == <<resv, charges, drawn, balance>>
news == <<ann, copies>>
vars == <<unit, heard, books, start, plan, sweeps, money, news, faults>>

Closed == {"completed", "failed", "cancelled"}
Terminal == Closed \cup {"killed", "expired"}
Sides == {"cost", "price"}
NoStart == [parent |-> NoUnit, mode |-> "none"]
NoPosting == [unit |-> NoUnit, cost |-> "none", price |-> "none"]

Init ==
    /\ status = [u \in Units |-> "unborn"] /\ parent = [u \in Units |-> NoUnit]
    /\ mode = [u \in Units |-> "none"] /\ cause = [u \in Units |-> "none"]
    /\ heard = [u \in Units |-> "never"]
    /\ total = [u \in Units |-> [s \in Sides |-> 0]]
    /\ missing = [u \in Units |-> [s \in Sides |-> 0]]
    /\ start = [u \in Units |-> NoStart]
    /\ post = [k \in Postings |-> NoPosting]
    /\ plan = [k \in Postings |-> <<>>]
    /\ listed = {} /\ unheard = {} /\ over = {}
    /\ resv = [u \in Units |-> "none"] /\ charges = [u \in Units |-> 0]
    /\ drawn = {} /\ balance \in Funds
    /\ ann = [u \in Units |-> "none"]
    /\ copies = [u \in Units |-> 0]
    /\ faults = Faults

Fault == faults > 0 /\ faults' = faults - 1

-----------------------------------------------------------------------------
(* The start.  open_reservations_micros, past_floor and what a start may    *)
(* still spend.                                                             *)

Reserved == Price * Cardinality({u \in Units : resv[u] = "open"})
Available == balance - Reserved
PastFloor(b) == b < -MinBalance

\* The claim is free, and admission and the money check pass on what they read
\* without a lock.
Admit(u, p, m) ==
    /\ status[u] = "unborn" /\ start[u] = NoStart
    /\ IF u \in Tops THEN p = NoUnit ELSE p \in Tops
    /\ ~PastFloor(Available)
    /\ start' = [start EXCEPT ![u] = [parent |-> p, mode |-> m]]
    /\ UNCHANGED <<unit, heard, books, plan, sweeps, money, news, faults>>

\* Mutant: the parent is read without asking whether it is still active.
ParentAllowsAny(u) ==
    LET p == start[u].parent
    IN  u \in Subs => status[p] # "unborn" /\ mode[p] = start[u].mode

\* parent_for under the parent's row lock, and the containment rules.
ParentAllows(u) ==
    LET p == start[u].parent
    IN  u \in Subs => status[p] = "active" /\ mode[p] = start[u].mode

\* Only top-level work of the fixed regime pins an agreed price.
Pins(u, m) == u \in Tops /\ m = "fixed"

\* Mutant: the reservation asks the balance alone, not what is reserved already.
AffordableAlone(u) == Pins(u, start[u].mode) => ~PastFloor(balance - Price)

\* reserve_agreed_price under the owner's billing lock.
Affordable(u) == Pins(u, start[u].mode) => ~PastFloor(Available - Price)

Start(u) ==
    /\ start[u] # NoStart /\ ParentAllows(u) /\ Affordable(u)
    /\ status' = [status EXCEPT ![u] = "active"]
    /\ parent' = [parent EXCEPT ![u] = start[u].parent]
    /\ mode' = [mode EXCEPT ![u] = start[u].mode]
    /\ resv' = [resv EXCEPT ![u] = IF Pins(u, start[u].mode) THEN "open" ELSE @]
    /\ start' = [start EXCEPT ![u] = NoStart]
    /\ UNCHANGED <<cause, heard, books, plan, sweeps, charges, drawn, balance, news, faults>>

\* Refused, and rolled back: the key stays free.
Refuse(u) ==
    /\ start[u] # NoStart /\ ~(ParentAllows(u) /\ Affordable(u))
    /\ start' = [start EXCEPT ![u] = NoStart]
    /\ UNCHANGED <<unit, heard, books, plan, sweeps, money, news, faults>>

-----------------------------------------------------------------------------
(* The end of a unit.                                                       *)

Children(u) == {c \in Subs : parent[c] = u /\ status[c] = "active"}

\* What a parent's end makes of contained work.
CascadeStatus(s) == IF s \in Closed THEN "cancelled" ELSE s

\* _flip and _cascade: the unit and its active children end in one transaction,
\* each announced to the listeners, of which the reservation's is one.  It runs
\* in a savepoint, and an exception in it is swallowed: lost.
Flip(u, s, why, lost) ==
    /\ status' = [x \in Units |-> IF x = u THEN s
                                  ELSE IF x \in Children(u) THEN CascadeStatus(s)
                                  ELSE status[x]]
    /\ cause' = [x \in Units |-> IF x = u THEN why
                                 ELSE IF x \in Children(u) THEN "parent" ELSE cause[x]]
    /\ resv' = [resv EXCEPT ![u] = IF @ = "open" /\ ~lost THEN "released" ELSE @]

\* A listener that fails is a fault.
Listening(lost) == IF lost THEN Fault ELSE UNCHANGED faults

\* The announcement of a stop, and the stamp on the unit.
Announce(u) ==
    /\ ann' = [ann EXCEPT ![u] = "pending"]
    /\ copies' = [copies EXCEPT ![u] = @ + 1]

\* _stop_and_announce: kill_and_announce and expire_and_announce.  Only the
\* call that ended the unit announces.
Stop(u, s, why, lost) ==
    IF status[u] = "active" THEN Flip(u, s, why, lost) /\ Announce(u) /\ Listening(lost)
                            ELSE ~lost /\ UNCHANGED <<status, cause, resv, news, faults>>

\* Mutant: a price is charged for work that was not delivered.
ChargeAnyClose(u, s) == IF s \in Closed /\ Pins(u, mode[u]) THEN 1 ELSE 0

\* charge_for_delivered_work: delivered work with an agreed price.
Charge(u, s) == IF s = "completed" /\ Pins(u, mode[u]) THEN 1 ELSE 0

\* The close endpoint: the flip, the charge and what the unit takes up of it in
\* one transaction.  A close that finds the unit ended replays or is refused.
Close(u, s, lost) ==
    /\ status[u] = "active"
    /\ Flip(u, s, "declared", lost) /\ Listening(lost)
    /\ charges' = [charges EXCEPT ![u] = @ + Charge(u, s)]
    /\ total' = [total EXCEPT ![u].price = @ + Charge(u, s) * Price]
    /\ UNCHANGED <<parent, mode, heard, missing, post, start, plan, sweeps, drawn, balance, news>>

\* The drawdown of the charge comes through the outbox.
Draw(u) ==
    /\ charges[u] > 0 /\ u \notin drawn
    /\ drawn' = drawn \cup {u} /\ balance' = balance - Price
    /\ UNCHANGED <<unit, heard, books, start, plan, sweeps, resv, charges, news, faults>>

-----------------------------------------------------------------------------
(* A report.                                                                *)

\* The unit, and the unit that contains it.
Chain(u) == {u, parent[u]} \ {NoUnit}

\* Mutant: the ceiling must be passed, not reached.
OverLimitStrict(u) == total[u]["cost"] > Ceiling[u]

\* ceiling_reached, as the patrol asks it.
OverLimit(u) == total[u]["cost"] >= Ceiling[u]

\* What an amount adds to a total.
Worth(st) == CASE st = "known" -> 1 [] st = "credit" -> -1 [] OTHER -> 0

\* The totals after one report, by the state of its amounts.
Added(u, c, p) ==
    [x \in Units |-> IF x \in Chain(u)
       THEN [s \in Sides |-> total[x][s] + Worth(IF s = "cost" THEN c ELSE p)]
       ELSE total[x]]
Counted(u, c, p) ==
    [x \in Units |-> IF x \in Chain(u)
       THEN [s \in Sides |-> missing[x][s] + (IF (IF s = "cost" THEN c ELSE p) = "unresolved" THEN 1 ELSE 0)]
       ELSE missing[x]]

\* kill_plan over accumulate_cost's verdicts: a unit that was active and whose
\* total has reached its ceiling, the contained one first.
KillPlan(u, tot) ==
    LET crossed(x) == x # NoUnit /\ status[x] = "active" /\ tot[x]["cost"] >= Ceiling[x]
    IN  (IF crossed(u) THEN <<u>> ELSE <<>>) \o (IF crossed(parent[u]) THEN <<parent[u]>> ELSE <<>>)

\* The recording's transaction: the posting, then the unit and its parent take
\* the amounts up, whatever their status.  Work of the fixed regime has no price
\* per report.
Record(k, u, c, priced) ==
    LET p == IF mode[u] = "fixed" THEN "na" ELSE priced
    IN  /\ post[k] = NoPosting /\ status[u] # "unborn"
        /\ post' = [post EXCEPT ![k] = [unit |-> u, cost |-> c, price |-> p]]
        /\ total' = Added(u, c, p)
        /\ missing' = Counted(u, c, p)
        /\ heard' = [x \in Units |-> IF x \in Chain(u) /\ status[x] = "active" THEN "recent" ELSE heard[x]]
        /\ plan' = [plan EXCEPT ![k] = KillPlan(u, total')]
        /\ UNCHANGED <<unit, start, sweeps, money, news, faults>>

\* _execute_kills after the commit, one transaction per kill.
ExecuteKill(k, lost) ==
    /\ plan[k] # <<>>
    /\ Stop(Head(plan[k]), "killed", "ceiling", lost)
    /\ plan' = [plan EXCEPT ![k] = Tail(@)]
    /\ UNCHANGED <<parent, mode, heard, books, start, sweeps, charges, drawn, balance>>

\* A kill raises and is swallowed, or the process dies with the rest of the plan.
KillsLost(k) ==
    /\ plan[k] # <<>> /\ Fault
    /\ plan' \in {[plan EXCEPT ![k] = Tail(@)], [plan EXCEPT ![k] = <<>>]}
    /\ UNCHANGED <<unit, heard, books, start, sweeps, money, news>>

\* Mutant: the settlement reads the posting and completes it without asking again.
SettleAgain(k, side, st) ==
    LET u == post[k].unit
    IN  /\ post[k][side] \in {"unresolved", "known"} /\ total[u][side] \in -3..3
        /\ post' = [post EXCEPT ![k][side] = st]
        /\ total' = [x \in Units |-> IF x \in Chain(u) THEN [total[x] EXCEPT ![side] = @ + Worth(st)] ELSE total[x]]
        /\ missing' = [x \in Units |-> IF x \in Chain(u) /\ missing[x][side] > 0
                                       THEN [missing[x] EXCEPT ![side] = @ - 1] ELSE missing[x]]
        /\ UNCHANGED <<unit, heard, start, plan, sweeps, money, news, faults>>

\* A conditional update completes the blank once, and the unit and its parent
\* take it up (take_up_a_late_resolution): a credit moves their totals down.  No
\* verdict is taken.
Settle(k, side, st) ==
    LET u == post[k].unit
    IN  /\ post[k][side] = "unresolved"
        /\ post' = [post EXCEPT ![k][side] = st]
        /\ total' = [x \in Units |-> IF x \in Chain(u) THEN [total[x] EXCEPT ![side] = @ + Worth(st)] ELSE total[x]]
        /\ missing' = [x \in Units |-> IF x \in Chain(u) THEN [missing[x] EXCEPT ![side] = @ - 1] ELSE missing[x]]
        /\ UNCHANGED <<unit, heard, start, plan, sweeps, money, news, faults>>

\* The two doors an amount that was missing comes through.  A resolution run goes
\* through both for each posting it reaches, with the posting's row locked.
settle_provider_cost(k) == \E st \in {"known", "credit"} : Settle(k, "cost", st)
resolve_customer_price(k) == Settle(k, "price", "known")

-----------------------------------------------------------------------------
(* Time, the sweeps and the patrol.                                         *)

\* A window passes without a report.  The absolute deadline is folded into the
\* windows: here a report after it still puts the end off, where the code ends
\* the unit all the same.
Quiet(u) ==
    /\ status[u] = "active" /\ heard[u] \in {"never", "recent"}
    /\ heard' = [heard EXCEPT ![u] = IF @ = "never" THEN "overdue" ELSE "silent"]
    /\ UNCHANGED <<unit, books, start, plan, sweeps, money, news, faults>>

Stale == {u \in Units : status[u] = "active" /\ heard[u] \in {"overdue", "silent"}}
Abandoned == {u \in Units : status[u] = "active" /\ heard[u] = "overdue"}

\* Mutant: contained work is left to its parent's window.
ListStaleTops ==
    /\ listed = {} /\ Stale \cap Tops # {} /\ listed' = Stale \cap Tops
    /\ UNCHANGED <<unit, heard, books, start, plan, unheard, over, money, news, faults>>

\* reap_stale_tasks reads its candidates without a lock ...
ListStale ==
    /\ listed = {} /\ Stale # {} /\ listed' = Stale
    /\ UNCHANGED <<unit, heard, books, start, plan, unheard, over, money, news, faults>>

\* ... and expires each in a transaction of its own.
Reap(u, lost) ==
    /\ u \in listed /\ listed' = listed \ {u}
    /\ Stop(u, "expired", "window", lost)
    /\ UNCHANGED <<parent, mode, heard, books, start, plan, unheard, over, charges, drawn, balance>>

\* close_abandoned_tasks: the same, unannounced.
ListAbandoned ==
    /\ unheard = {} /\ Abandoned # {} /\ unheard' = Abandoned
    /\ UNCHANGED <<unit, heard, books, start, plan, listed, over, money, news, faults>>

Abandon(u, lost) ==
    /\ u \in unheard /\ unheard' = unheard \ {u}
    /\ IF status[u] = "active" THEN Flip(u, "expired", "abandoned", lost) /\ Listening(lost)
                               ELSE ~lost /\ UNCHANGED <<status, cause, resv, faults>>
    /\ UNCHANGED <<parent, mode, heard, books, start, plan, listed, over, charges, drawn, balance, news>>

\* sweep_over_limit_tasks reads the active units over their ceiling without a
\* lock ...
OverCeiling == {u \in Units : status[u] = "active" /\ OverLimit(u)}

ListOver ==
    /\ over = {} /\ OverCeiling # {} /\ over' = OverCeiling
    /\ UNCHANGED <<unit, heard, books, start, plan, listed, unheard, money, news, faults>>

\* ... and kills each that is still active, though a credit may have brought its
\* total below the ceiling meanwhile.
Patrol(u, lost) ==
    /\ u \in over /\ over' = over \ {u}
    /\ Stop(u, "killed", "ceiling", lost)
    /\ UNCHANGED <<parent, mode, heard, books, start, plan, listed, unheard, charges, drawn, balance>>

\* The outbox delivers the announcement, or gives up on it.
Deliver(u) ==
    /\ ann[u] = "pending" /\ ann' = [ann EXCEPT ![u] = "delivered"]
    /\ UNCHANGED <<unit, heard, books, start, plan, sweeps, money, copies, faults>>

DeadLetter(u) ==
    /\ ann[u] = "pending" /\ Fault
    /\ ann' = [ann EXCEPT ![u] = "failed"] /\ copies' = [copies EXCEPT ![u] = @ - 1]
    /\ UNCHANGED <<unit, heard, books, start, plan, sweeps, money>>

\* Mutant: the re-mint looks for kills only.
RemintKills(u) ==
    /\ status[u] = "killed" /\ ann[u] = "failed" /\ Announce(u)
    /\ UNCHANGED <<unit, heard, books, start, plan, sweeps, money, faults>>

\* Mutant: what is still on its way is announced again.
RemintPending(u) ==
    /\ status[u] \in {"killed", "expired"} /\ ann[u] \in {"failed", "pending"} /\ copies[u] < 3 /\ Announce(u)
    /\ UNCHANGED <<unit, heard, books, start, plan, sweeps, money, faults>>

\* remint_unannounced_kills: the stamp's row is dead, asked again under the lock.
Remint(u) ==
    /\ status[u] \in {"killed", "expired"} /\ ann[u] = "failed" /\ Announce(u)
    /\ UNCHANGED <<unit, heard, books, start, plan, sweeps, money, faults>>

\* Mutant: the backstop looks at closed work only.
ReleaseClosed(u) ==
    /\ resv[u] = "open" /\ status[u] \in Closed
    /\ resv' = [resv EXCEPT ![u] = "released"]
    /\ UNCHANGED <<unit, heard, books, start, plan, sweeps, charges, drawn, balance, news, faults>>

\* release_reservations_left_open_on_terminal_work.
ReleaseLeftOpen(u) ==
    /\ resv[u] = "open" /\ status[u] \in Terminal
    /\ resv' = [resv EXCEPT ![u] = "released"]
    /\ UNCHANGED <<unit, heard, books, start, plan, sweeps, charges, drawn, balance, news, faults>>

-----------------------------------------------------------------------------
StartStep == \E u \in Units : \/ \E p \in Tops \cup {NoUnit}, m \in {"event", "fixed"} : Admit(u, p, m)
                              \/ Start(u) \/ Refuse(u)
ReportStep == \E k \in Postings :
    \/ \E u \in Units, a \in Amounts : Record(k, u, a[1], a[2])
    \/ \E lost \in BOOLEAN : ExecuteKill(k, lost)
    \/ KillsLost(k)
    \/ settle_provider_cost(k) \/ resolve_customer_price(k)
CloseStep == \E u \in Units :
    \/ \E s \in Declared, lost \in BOOLEAN : Close(u, s, lost)
    \/ Draw(u)
TimeStep == \E u \in Units : Quiet(u)
SweepStep ==
    \/ ListStale \/ ListAbandoned \/ ListOver
    \/ \E u \in Units : \/ \E lost \in BOOLEAN : Reap(u, lost) \/ Abandon(u, lost) \/ Patrol(u, lost)
                        \/ Remint(u) \/ ReleaseLeftOpen(u)
NewsStep == \E u \in Units : Deliver(u) \/ DeadLetter(u)

Next == StartStep \/ ReportStep \/ CloseStep \/ TimeStep \/ SweepStep \/ NewsStep

\* The beats come round and the outbox delivers; nobody owes a report, a close,
\* a settlement or the kills of a recording.
Fairness ==
    /\ WF_vars(ListStale) /\ WF_vars(ListAbandoned) /\ WF_vars(ListOver)
    /\ \A u \in Units :
         /\ WF_vars(Reap(u, FALSE)) /\ WF_vars(Abandon(u, FALSE)) /\ WF_vars(Patrol(u, FALSE))
         /\ WF_vars(Remint(u)) /\ WF_vars(ReleaseLeftOpen(u)) /\ WF_vars(Deliver(u))

Spec == Init /\ [][Next]_vars
FairSpec == Spec /\ Fairness

-----------------------------------------------------------------------------
(* Properties.                                                              *)

\* Every variable keeps its type.
TypeOK ==
    /\ status \in [Units -> {"unborn", "active"} \cup Terminal]
    /\ parent \in [Units -> Tops \cup {NoUnit}]
    /\ mode \in [Units -> {"none", "event", "fixed"}]
    /\ cause \in [Units -> {"none", "declared", "ceiling", "window", "abandoned", "parent"}]
    /\ heard \in [Units -> {"never", "overdue", "recent", "silent"}]
    /\ total \in [Units -> [Sides -> Int]] /\ missing \in [Units -> [Sides -> Int]]
    /\ start \in [Units -> [parent : Tops \cup {NoUnit}, mode : {"none", "event", "fixed"}]]
    /\ post \in [Postings -> [unit : Units \cup {NoUnit},
                              cost : {"none", "known", "credit", "unresolved"},
                              price : {"none", "known", "unresolved", "na"}]]
    /\ plan \in [Postings -> Seq(Units)]
    /\ listed \subseteq Units /\ unheard \subseteq Units /\ over \subseteq Units
    /\ resv \in [Units -> {"none", "open", "released"}]
    /\ charges \in [Units -> Nat] /\ drawn \subseteq Units /\ balance \in Int
    /\ ann \in [Units -> {"none", "pending", "delivered", "failed"}]
    /\ copies \in [Units -> Int] /\ faults \in Nat

\* No unit is active inside a unit that has ended, however starts race closes,
\* kills and expiries: parent_for's lock and the cascade (services.py).
NoOrphans ==
    \A c \in Subs : status[c] = "active" => status[parent[c]] = "active"

\* The postings a unit's books are made of: its own and its children's.
Reports(u) == {k \in Postings : post[k].unit # NoUnit /\ u \in Chain(post[k].unit)}
In(u, side, st) == Cardinality({k \in Reports(u) : post[k][side] = st})

\* A unit's totals are the sums of the postings it and its contained work were
\* reported, credits taken off and the charge added, and it counts exactly those
\* whose amount is not known yet, whenever the report came and the amount was
\* settled.
BooksAddUp ==
    \A u \in Units :
        /\ total[u]["cost"] = In(u, "cost", "known") - In(u, "cost", "credit")
        /\ total[u]["price"] = In(u, "price", "known") + charges[u] * Price
        /\ \A side \in Sides : missing[u][side] = In(u, side, "unresolved")

\* Work is charged once if it was delivered at an agreed price, and never if it
\* was killed, expired, failed or withdrawn first (the close endpoint).
ChargeMatchesDelivery ==
    \A u \in Units :
        charges[u] = IF status[u] = "completed" /\ cause[u] = "declared" /\ Pins(u, mode[u]) THEN 1 ELSE 0

\* The agreed price of a unit stays reserved for as long as the unit is active,
\* and only a unit with an agreed price ever holds one (reservations.py).
ReservedWhileActive ==
    \A u \in Units :
        /\ status[u] = "active" /\ Pins(u, mode[u]) => resv[u] = "open"
        /\ resv[u] # "none" => Pins(u, mode[u])

\* However many starts race for one wallet, what is reserved leaves the floor
\* intact, apart from charges that were paid meanwhile (reserve_agreed_price).
NeverOversold ==
    \/ \A u \in Units : resv[u] = "none"
    \/ ~PastFloor(Available + Price * Cardinality(drawn))

\* Exactly the stops UBB made by itself are announced: not a declared close, not
\* a cascade, not the silent expiry; and once, apart from an announcement the
\* outbox gave up on (_stop_and_announce, remint_unannounced_kills).
StopsAnnouncedOnce ==
    \A u \in Units :
        /\ ann[u] # "none" <=> cause[u] \in {"ceiling", "window"}
        /\ copies[u] = IF ann[u] \in {"pending", "delivered"} THEN 1 ELSE 0

\* How a unit ended is never rewritten by whoever comes later (_flip).
EndIsFinal ==
    [][\A u \in Units : status[u] \in Terminal => status'[u] = status[u] /\ cause'[u] = cause[u]]_vars

\* A unit over its ceiling does not stay active and over it, although the kills
\* of the recording were lost, or its cost was settled later: the patrol.  Only
\* a credit that takes the total back below the ceiling first lets it live.
CeilingConverges ==
    \A u \in Units : (status[u] = "active" /\ total[u]["cost"] >= Ceiling[u])
                       ~> (status[u] # "active" \/ total[u]["cost"] < Ceiling[u])

\* The announcement of a stop is delivered in the end, whether the stop is a
\* kill or an expiry and whatever the outbox dead-lettered before: the re-mint.
StopsDelivered == \A u \in Units : ann[u] # "none" ~> ann[u] = "delivered"

\* A reservation does not outlive its unit, although the listener failed: the
\* backstop sweep.
ReservationsFreed == \A u \in Units : (resv[u] = "open" /\ status[u] \in Terminal) ~> resv[u] = "released"

\* Work past a window, of silence or of its absolute deadline, reported or not,
\* does not stay active for ever unless a report comes: the two sweepers.
QuietWorkEnds ==
    \A u \in Units : (status[u] = "active" /\ heard[u] \in {"overdue", "silent"})
                       ~> (status[u] # "active" \/ heard[u] = "recent")
=============================================================================
