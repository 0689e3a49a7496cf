------------------------------ MODULE CostGuard -----------------------------
(***************************************************************************)
(* The global AI budget.  A caller reserves an estimate before it calls a  *)
(* provider and commits what the call cost, or releases, afterwards.       *)
(*                                                                         *)
(* reserve_budget holds an advisory lock, but PostgreSQL runs it at READ   *)
(* COMMITTED: each of its three sums sees what is committed when that      *)
(* statement starts, and settlements take no advisory lock.  So each sum   *)
(* is a step of its own.  Amounts are whole units of money; one database   *)
(* row is one member of Holds; a ledger entry is its amount and its time.  *)
(***************************************************************************)
EXTENDS Integers, FiniteSets, Functions

CONSTANTS
    Callers,       \* worker threads that call a provider
    Holds,         \* AIUsageReservationRow identities
    Keys,          \* idempotency keys
    NoKey,         \* idempotency_key = None
    NoCaller,      \* the advisory lock is free
    NoHold,        \* the caller holds no reservation
    Costs,         \* estimated and actual amounts
    Budget,        \* global_daily_budget_usd
    Ttl,           \* ai_reservation_ttl_seconds
    Day,           \* the accounting window, 24 hours
    MaxClock,      \* bound: how long the model runs
    MaxLedger      \* bound: telemetry recorded per unit of time

ASSUME NameAssumption ==
    /\ NoKey \notin Keys
    /\ NoCaller \notin Callers
    /\ NoHold \notin Holds
    /\ IsFiniteSet(Holds)

ASSUME AmountAssumption ==
    /\ Costs \subseteq Nat \ {0}
    /\ {Budget, Day, MaxClock, MaxLedger} \subseteq Nat
    /\ Ttl \in Nat \ {0}

VARIABLES
    status,     \* AIUsageReservationRow.status, "none" when there is no row
    reserved,   \* reserved_cost_usd
    actual,     \* actual_cost_usd, 0 for NULL
    created,    \* created_at
    key,        \* idempotency_key
    ledger,     \* AIUsageEventRow: the amount recorded at each time
    lock,       \* the holder of the advisory lock
    pc,         \* the next statement of a caller's transaction
    txn,        \* the locals of a caller's reserve_budget
    held,       \* the reservation a caller must settle
    swept,      \* the rows expire_stale_reservations has read
    clock,
    unseen      \* history: holds committed since a reserver summed the committed

rowVars == <<status, reserved, actual, created, key>>
vars    == <<status, reserved, actual, created, key, ledger, lock, pc, txn, held,
             swept, clock, unseen>>

ReservationStatus == {"RESERVED", "COMMITTED", "RELEASED", "EXPIRED"}

\* The statements of reserve_budget, in their order.
Statements == {"sum_committed", "sum_events", "sum_active", "decide"}

NoTxn == [cost |-> 0, key |-> NoKey, now |-> 0, committed |-> 0, events |-> 0, active |-> 0]

SumOver(f, S) == FoldFunctionOnSet(LAMBDA a, b : a + b, 0, f, S)

\* COALESCE(actual_cost_usd, reserved_cost_usd)
SettledCost == [h \in Holds |-> IF actual[h] # 0 THEN actual[h] ELSE reserved[h]]

CommittedSince(t) == {h \in Holds : status[h] = "COMMITTED" /\ created[h] >= t}
ActiveAt(t)       == {h \in Holds : status[h] = "RESERVED" /\ created[h] + Ttl > t}

CommittedCost(now) == SumOver(SettledCost, CommittedSince(now - Day))
LedgerCost(now)    == SumOver(ledger, {t \in 0 .. MaxClock : t >= now - Day})
ActiveCost(now)    == SumOver(reserved, ActiveAt(now))

Init ==
    /\ status   = [h \in Holds |-> "none"]
    /\ reserved = [h \in Holds |-> 0]
    /\ actual   = [h \in Holds |-> 0]
    /\ created  = [h \in Holds |-> 0]
    /\ key      = [h \in Holds |-> NoKey]
    /\ ledger   = [t \in 0 .. MaxClock |-> 0]
    /\ lock     = NoCaller
    /\ pc       = [c \in Callers |-> "idle"]
    /\ txn      = [c \in Callers |-> NoTxn]
    /\ held     = [c \in Callers |-> NoHold]
    /\ swept    = {}
    /\ clock    = 0
    /\ unseen   = [c \in Callers |-> {}]

-----------------------------------------------------------------------------
(* reserve_budget                                                          *)

Goto(c, step) == pc' = [pc EXCEPT ![c] = step]

\* The transaction ends and gives the advisory lock back.
EndTxn(c) ==
    /\ lock'   = IF lock = c THEN NoCaller ELSE lock
    /\ txn'    = [txn EXCEPT ![c] = NoTxn]
    /\ unseen' = [unseen EXCEPT ![c] = {}]

\* The rows an idempotency key finds open.
OpenUnder(k) == {h \in Holds : k # NoKey /\ key[h] = k /\ status[h] \in {"RESERVED", "COMMITTED"}}

Enter(c, cost, k) ==
    \/ \E h \in OpenUnder(k) :
        /\ held' = [held EXCEPT ![c] = h]
        /\ Goto(c, "calling")
        /\ UNCHANGED txn
    \/ /\ OpenUnder(k) = {}
       /\ txn' = [txn EXCEPT ![c] = [NoTxn EXCEPT !.cost = cost, !.key = k, !.now = clock]]
       /\ Goto(c, "sum_committed")
       /\ UNCHANGED held

\* A variant that never takes the advisory lock.
BeginReserveUnlocked(c, cost, k) ==
    /\ pc[c] = "idle"
    /\ Enter(c, cost, k)
    /\ UNCHANGED <<rowVars, ledger, lock, swept, clock, unseen>>

\* The lock, the idempotency lookup, and the moment the sums refer to.
BeginReserve(c, cost, k) ==
    /\ pc[c] = "idle"
    /\ lock = NoCaller
    /\ Enter(c, cost, k)
    /\ lock' = IF OpenUnder(k) = {} THEN c ELSE NoCaller
    /\ UNCHANGED <<rowVars, ledger, swept, clock, unseen>>

SumCommitted(c) ==
    /\ pc[c] = "sum_committed"
    /\ txn' = [txn EXCEPT ![c].committed = CommittedCost(txn[c].now)]
    /\ Goto(c, "sum_events")
    /\ UNCHANGED <<rowVars, ledger, lock, held, swept, clock, unseen>>

SumEvents(c) ==
    /\ pc[c] = "sum_events"
    /\ txn' = [txn EXCEPT ![c].events = LedgerCost(txn[c].now)]
    /\ Goto(c, "sum_active")
    /\ UNCHANGED <<rowVars, ledger, lock, held, swept, clock, unseen>>

SumActive(c) ==
    /\ pc[c] = "sum_active"
    /\ txn' = [txn EXCEPT ![c].active = ActiveCost(txn[c].now)]
    /\ Goto(c, "decide")
    /\ UNCHANGED <<rowVars, ledger, lock, held, swept, clock, unseen>>

\* Settled costs count by the larger of the two records of them.  A variant
\* counts by the ledger alone.
ProjectedByLedger(t) == t.events + t.active + t.cost

Projected(t) ==
    (IF t.committed >= t.events THEN t.committed ELSE t.events) + t.active + t.cost

\* created_at, as the model keeps it.
CreatedAt(t) == t.now

\* The row is written and the transaction commits.
Admit(c, h) ==
    /\ pc[c] = "decide"
    /\ status[h] = "none"
    /\ Projected(txn[c]) <= Budget
    /\ txn[c].key = NoKey \/ \A g \in Holds : key[g] # txn[c].key
    /\ status'   = [status EXCEPT ![h] = "RESERVED"]
    /\ reserved' = [reserved EXCEPT ![h] = txn[c].cost]
    /\ created'  = [created EXCEPT ![h] = CreatedAt(txn[c])]
    /\ key'      = [key EXCEPT ![h] = txn[c].key]
    /\ held'     = [held EXCEPT ![c] = h]
    /\ Goto(c, "calling")
    /\ EndTxn(c)
    /\ UNCHANGED <<actual, ledger, swept, clock>>

\* AICostBudgetExceededError, or the unique index refuses a key that an
\* expired or released row still carries.
Refuse(c) ==
    /\ pc[c] = "decide"
    /\ \/ Projected(txn[c]) > Budget
       \/ txn[c].key # NoKey /\ \E h \in Holds : key[h] = txn[c].key
    /\ Goto(c, "idle")
    /\ EndTxn(c)
    /\ UNCHANGED <<rowVars, ledger, held, swept, clock>>

-----------------------------------------------------------------------------
(* Settlement                                                              *)

\* Reservers that have summed the committed holds and not decided yet.
PastCommittedSum == {c \in Callers : pc[c] \in {"sum_events", "sum_active", "decide"}}

Settled(c) ==
    /\ held' = [held EXCEPT ![c] = NoHold]
    /\ Goto(c, "idle")
    /\ UNCHANGED <<reserved, created, key, ledger, lock, txn, swept, clock>>

\* commit_reservation, whatever the row's status; cost 0 stands for None.
CommitReservation(c, cost) ==
    LET h == held[c] IN
    /\ pc[c] = "calling"
    /\ status' = [status EXCEPT ![h] = "COMMITTED"]
    /\ actual' = [actual EXCEPT ![h] = IF cost # 0 THEN cost ELSE SettledCost[h]]
    /\ unseen' = [d \in Callers |-> IF d \in PastCommittedSum THEN unseen[d] \cup {h}
                                                              ELSE unseen[d]]
    /\ Settled(c)

\* A variant that does not look at the row's status.
ReleaseReservationUnconditional(c) ==
    /\ pc[c] = "calling"
    /\ status' = [status EXCEPT ![held[c]] = "RELEASED"]
    /\ Settled(c)
    /\ UNCHANGED <<actual, unseen>>

ReleaseReservation(c) ==
    /\ pc[c] = "calling"
    /\ status' = [status EXCEPT ![held[c]] = IF @ = "RESERVED" THEN "RELEASED" ELSE @]
    /\ Settled(c)
    /\ UNCHANGED <<actual, unseen>>

\* expire_stale_reservations reads the stale rows without locking them ...
ReadStale ==
    /\ swept = {}
    /\ swept' = {h \in Holds : status[h] = "RESERVED"} \ ActiveAt(clock)
    /\ swept' # {}
    /\ UNCHANGED <<rowVars, ledger, lock, pc, txn, held, clock, unseen>>

\* ... and writes their status when the transaction commits.
ExpireStale ==
    /\ swept # {}
    /\ status' = [h \in Holds |-> IF h \in swept THEN "EXPIRED" ELSE status[h]]
    /\ swept'  = {}
    /\ UNCHANGED <<reserved, actual, created, key, ledger, lock, pc, txn, held, clock, unseen>>

-----------------------------------------------------------------------------
(* The rest of the system                                                  *)

\* record_usage: telemetry of calls with or without a reservation; a failure to
\* record is swallowed, so it may be late or missing.
RecordUsage(cost) ==
    /\ ledger[clock] + cost <= MaxLedger
    /\ ledger' = [ledger EXCEPT ![clock] = @ + cost]
    /\ UNCHANGED <<rowVars, lock, pc, txn, held, swept, clock, unseen>>

\* The caller's process ends: an open transaction rolls back and frees the lock,
\* a reservation stays as it is.
Crash(c) ==
    /\ pc[c] # "idle"
    /\ Goto(c, "idle")
    /\ EndTxn(c)
    /\ held' = [held EXCEPT ![c] = NoHold]
    /\ UNCHANGED <<rowVars, ledger, swept, clock>>

Tick ==
    /\ clock < MaxClock
    /\ clock' = clock + 1
    /\ UNCHANGED <<rowVars, ledger, lock, pc, txn, held, swept, unseen>>

ReserveStep(c) ==
    \/ \E cost \in Costs, k \in Keys \cup {NoKey} : BeginReserve(c, cost, k)
    \/ SumCommitted(c)
    \/ SumEvents(c)
    \/ SumActive(c)
    \/ \E h \in Holds : Admit(c, h)
    \/ Refuse(c)

CallerStep(c) ==
    \/ ReserveStep(c)
    \/ \E cost \in Costs \cup {0} : CommitReservation(c, cost)
    \/ ReleaseReservation(c)
    \/ Crash(c)

Next ==
    \/ \E c \in Callers : CallerStep(c)
    \/ ReadStale
    \/ ExpireStale
    \/ \E cost \in Costs : RecordUsage(cost)
    \/ Tick

Spec == Init /\ [][Next]_vars

-----------------------------------------------------------------------------
(* Properties                                                              *)

\* Type invariant of the rows, the lock and the callers.
TypeOK ==
    /\ status   \in [Holds -> ReservationStatus \cup {"none"}]
    /\ reserved \in [Holds -> Costs \cup {0}]
    /\ actual   \in [Holds -> Costs \cup {0}]
    /\ created  \in [Holds -> 0 .. MaxClock]
    /\ key      \in [Holds -> Keys \cup {NoKey}]
    /\ ledger   \in [0 .. MaxClock -> 0 .. MaxLedger]
    /\ lock     \in Callers \cup {NoCaller}
    /\ pc       \in [Callers -> {"idle", "calling"} \cup Statements]
    /\ txn      \in [Callers -> [cost : Costs \cup {0}, key : Keys \cup {NoKey},
                                 now : 0 .. MaxClock, committed : Nat, events : Nat,
                                 active : Nat]]
    /\ held     \in [Callers -> Holds \cup {NoHold}]
    /\ swept    \in SUBSET Holds
    /\ clock    \in 0 .. MaxClock
    /\ unseen   \in [Callers -> SUBSET Holds]

\* However many callers reserve at once, the holds that count at any moment never
\* exceed the daily budget together.
ActiveWithinBudget == ActiveCost(clock) <= Budget

\* What is committed and held right after an admission exceeds the budget at most
\* by what other callers committed while the admitted one was summing.
Consumed(now) == CommittedCost(now) + ActiveCost(now)

OvershootOnlyByUnseen ==
    [][\A c \in Callers :
        pc[c] = "decide" /\ pc'[c] = "calling" =>
            Consumed(clock)' <= Budget + SumOver(SettledCost, unseen[c])]_vars

\* "COMMITTED (settled actual cost)" is where a reservation ends: money spent is
\* never taken out of the accounts again by a late release or by a caller sharing
\* the reservation.  Only a sweep that read the row before it was committed can,
\* since expire_stale_reservations does not lock what it reads.
CommittedIsFinal ==
    [][\A h \in Holds :
        status[h] = "COMMITTED" /\ h \notin swept => status'[h] = "COMMITTED"]_vars

\* The holds that are in force fit the budget, however many callers were between the check
\* and the insert of reserve_budget.
BudgetInv == TypeOK /\ ActiveWithinBudget

=============================================================================
