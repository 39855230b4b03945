--------------------------- MODULE ManagedBilling ---------------------------
(***************************************************************************)
(* Subscriptions and quotas of one managed tenant: checkout, apply_event   *)
(* and consume of managed/control.py with the payment provider they talk   *)
(* to.  The provider's side is external: it changes at any time, numbers   *)
(* its events and delivers each of them late, out of order and repeatedly. *)
(*                                                                         *)
(* A checkout attempt, the session created for it and the subscription     *)
(* that comes from paying it carry the same number.                        *)
(***************************************************************************)
EXTENDS Integers, Sequences, FiniteSets

CONSTANTS Clerk,          \* requests and webhooks served at a time
          Key,            \* idempotency keys of writes
          PaidPlan,       \* plans a checkout may choose
          Writes,         \* plan -> writes a month; "free" is a plan
          MaxAttempt,     \* bound: checkout attempts
          MaxEvent,       \* bound: events of the provider
          MaxBillingCalls \* bound: requests accepted

ASSUME BillingAssumption ==
    /\ MaxAttempt \in Nat /\ MaxEvent \in Nat /\ MaxBillingCalls \in Nat
    /\ "free" \notin PaidPlan /\ "none" \notin Clerk
    /\ \A p \in PaidPlan \cup {"free"} : Writes[p] \in Nat

VARIABLES
    tenant,     \* the row of tenants
    pending,    \* the row of checkout_requests
    handled,    \* stripe_events
    amount,     \* the usage row of this month
    operations, \* keys in the operations table
    charges,    \* Key -> times it was charged
    stored,     \* keys whose memory is in the store
    page,       \* external: attempt -> state of its checkout session
    sub,        \* external: attempt -> state of its subscription
    event,      \* external: events in the order they happened
    clerk,      \* Clerk -> what the request has read and does next
    ledger,     \* the clerk that holds the write transaction
    attempts,   \* attempts drawn so far
    billingCalls

billingVars == <<tenant, pending, handled, amount, operations, charges, stored,
                 page, sub, event, clerk, ledger, attempts, billingCalls>>

Attempt   == 1 .. MaxAttempt
NoAttempt == [attempt |-> 0, plan |-> "free", recorded |-> FALSE]
AtDesk    == [op |-> "desk"]
NoClerk   == "none"
Ended     == {"canceled"}            \* with incomplete_expired

BillingInit ==
    /\ tenant = [plan |-> "free", status |-> "free", sub |-> 0, customer |-> FALSE, paid |-> TRUE]
    /\ pending = NoAttempt
    /\ handled = {} /\ amount = 0 /\ operations = {} /\ stored = {}
    /\ charges = [k \in Key |-> 0]
    /\ page = [a \in Attempt |-> [status |-> "none", plan |-> "free"]]
    /\ sub = [a \in Attempt |-> "none"]
    /\ event = <<>>
    /\ clerk = [c \in Clerk |-> AtDesk]
    /\ ledger = NoClerk
    /\ attempts = 0 /\ billingCalls = 0

Open == ledger = NoClerk
Request(c, next) ==
    /\ clerk[c] = AtDesk
    /\ billingCalls < MaxBillingCalls
    /\ billingCalls' = billingCalls + 1
    /\ clerk' = [clerk EXCEPT ![c] = next]
Then(c, next) == clerk' = [clerk EXCEPT ![c] = next] /\ UNCHANGED billingCalls

usageVars    == <<amount, operations, charges, stored>>
providerVars == <<page, sub, event>>

-----------------------------------------------------------------------------
(***************************************************************************)
(* External: the provider.  Paying a session starts a subscription; every  *)
(* change of a subscription is an event, which carries the state it had.   *)
(***************************************************************************)
Emit(a, status) ==
    /\ Len(event) < MaxEvent
    /\ sub' = [sub EXCEPT ![a] = status]
    /\ event' = Append(event, [sub |-> a, status |-> status])

Pay(a) ==
    /\ page[a].status = "open"
    /\ page' = [page EXCEPT ![a].status = "complete"]
    /\ Emit(a, "active")
    /\ UNCHANGED <<tenant, pending, handled, usageVars, clerk, ledger, attempts, billingCalls>>

SessionRunsOut(a) ==
    /\ page[a].status = "open"
    /\ page' = [page EXCEPT ![a].status = "expired"]
    /\ UNCHANGED <<tenant, pending, handled, usageVars, sub, event, clerk, ledger, attempts, billingCalls>>

SubscriptionMoves(a, status) ==
    /\ sub[a] \in {"active", "past_due"} /\ sub[a] # status
    /\ Emit(a, status)
    /\ UNCHANGED <<tenant, pending, handled, usageVars, page, clerk, ledger, attempts, billingCalls>>

-----------------------------------------------------------------------------
(***************************************************************************)
(* checkout: three transactions.  The first makes the customer, unless the *)
(* tenant has a subscription that has not ended.                           *)
(***************************************************************************)
MayBuy == tenant.sub = 0 \/ tenant.status \in Ended

CheckoutCustomer(c, p) ==
    /\ Open /\ MayBuy
    /\ tenant' = [tenant EXCEPT !.customer = TRUE]
    /\ Request(c, [op |-> "attempt", plan |-> p])
    /\ UNCHANGED <<pending, handled, usageVars, providerVars, ledger, attempts>>

PageStatus == IF pending.recorded THEN page[pending.attempt].status ELSE "none"

\* The second keeps the attempt on record, or draws one if there is none to keep.
CheckoutAttempt(c) ==
    /\ Open /\ clerk[c].op = "attempt"
    /\ \/ /\ pending = NoAttempt \/ PageStatus = "expired"
          /\ attempts < MaxAttempt
          /\ attempts' = attempts + 1
          /\ pending' = [attempt |-> attempts', plan |-> clerk[c].plan, recorded |-> FALSE]
       \/ /\ pending # NoAttempt /\ ~pending.recorded
          /\ pending.plan = clerk[c].plan
          /\ UNCHANGED <<pending, attempts>>
    /\ Then(c, [clerk[c] EXCEPT !.op = "session"])
    /\ UNCHANGED <<tenant, handled, usageVars, providerVars, ledger>>

\* Another plan is pending, or the open session is handed out again.
CheckoutAnswered(c) ==
    /\ Open /\ clerk[c].op = "attempt"
    /\ \/ PageStatus = "open"
       \/ pending # NoAttempt /\ ~pending.recorded /\ pending.plan # clerk[c].plan
    /\ Then(c, AtDesk)
    /\ UNCHANGED <<tenant, pending, handled, usageVars, providerVars, ledger, attempts>>

\* "Payment is processing; wait for subscription confirmation"
CheckoutProcessing(c) ==
    /\ Open /\ clerk[c].op = "attempt"
    /\ PageStatus = "complete"
    /\ Then(c, AtDesk)
    /\ UNCHANGED <<tenant, pending, handled, usageVars, providerVars, ledger, attempts>>

(***************************************************************************)
(* The third creates the session under the key of the attempt on record:   *)
(* the provider answers a repeated key with the session it made first.     *)
(***************************************************************************)
\* Mutant of Created: every retry has a key of its own.
CreatedAnew(a, p) ==
    LET new == IF \E x \in Attempt : page[x].status = "none"
               THEN CHOOSE x \in Attempt : page[x].status = "none" ELSE a
    IN [page EXCEPT ![new] = [status |-> "open", plan |-> p]]
Created(a, p) ==
    IF page[a].status = "none" THEN [page EXCEPT ![a] = [status |-> "open", plan |-> p]] ELSE page

CheckoutPost(c) ==
    /\ Open /\ clerk[c].op = "session"
    /\ IF pending.plan = clerk[c].plan /\ MayBuy
       THEN /\ page' = Created(pending.attempt, clerk[c].plan)
            /\ ledger' = c
            /\ Then(c, [clerk[c] EXCEPT !.op = "record"])
       ELSE Then(c, AtDesk) /\ UNCHANGED <<page, ledger>>
    /\ UNCHANGED <<tenant, pending, handled, usageVars, sub, event, attempts>>

CheckoutRecord(c) ==
    /\ clerk[c].op = "record"
    /\ pending' = [pending EXCEPT !.recorded = TRUE]
    /\ ledger' = NoClerk
    /\ Then(c, AtDesk)
    /\ UNCHANGED <<tenant, handled, usageVars, providerVars, attempts>>

-----------------------------------------------------------------------------
(***************************************************************************)
(* apply_event: inside the write transaction the subscription is read from *)
(* the provider, whatever the event says.                                  *)
(***************************************************************************)
Current(e)   == sub[event[e].sub]

\* verify_event: signed with the webhook's secret, recent, and of this mode.
Genuine(signed, recent, live) == signed /\ recent /\ live

EventRead(c, e) ==
    /\ Open /\ tenant.customer /\ e \notin handled
    /\ \E signed, recent, live \in BOOLEAN : Genuine(signed, recent, live)
    /\ ledger' = c
    /\ Request(c, [op |-> "apply", event |-> e, seen |-> Current(e)])
    /\ UNCHANGED <<tenant, pending, handled, usageVars, providerVars, attempts>>

\* A second subscription is taken over only when the first has ended.
Ignored(a, seen) ==
    /\ tenant.sub \notin {0, a}
    /\ tenant.status \notin Ended \/ seen # "active"

EventCommit(c) ==
    /\ clerk[c].op = "apply"
    /\ LET a == event[clerk[c].event].sub
           seen == clerk[c].seen
       IN tenant' = IF Ignored(a, seen) THEN tenant
                    ELSE [tenant EXCEPT !.plan = page[a].plan, !.status = seen, !.sub = a,
                                        !.paid = @ \/ seen = "active"]
    /\ handled' = handled \cup {clerk[c].event}
    /\ ledger' = NoClerk
    /\ Then(c, AtDesk)
    /\ UNCHANGED <<pending, usageVars, providerVars, attempts>>

-----------------------------------------------------------------------------
\* entitlement: a paid plan is writable until its period ends.
Writable == tenant.status \in {"free", "active"} /\ tenant.paid

PeriodEnds ==
    /\ tenant.plan # "free" /\ tenant.paid
    /\ tenant' = [tenant EXCEPT !.paid = FALSE]
    /\ UNCHANGED <<pending, handled, usageVars, providerVars, clerk, ledger, attempts, billingCalls>>

Known(k) == k \in operations

(***************************************************************************)
(* consume: one transaction; a known key is not charged again.  The memory *)
(* is stored after it, under the same key.                                 *)
(***************************************************************************)
Consume(c, k) ==
    /\ Open /\ Writable
    /\ Known(k) \/ amount < Writes[tenant.plan]
    /\ IF Known(k) THEN UNCHANGED <<amount, operations, charges>>
       ELSE /\ amount' = amount + 1
            /\ operations' = operations \cup {k}
            /\ charges' = [charges EXCEPT ![k] = @ + 1]
    /\ Request(c, [op |-> "store", key |-> k])
    /\ UNCHANGED <<tenant, pending, handled, stored, providerVars, ledger, attempts>>

StoreWrite(c) ==
    /\ clerk[c].op = "store"
    /\ stored' = stored \cup {clerk[c].key}
    /\ Then(c, AtDesk)
    /\ UNCHANGED <<tenant, pending, handled, amount, operations, charges, providerVars, ledger, attempts>>

NewMonth ==
    /\ Open /\ amount > 0
    /\ amount' = 0
    /\ UNCHANGED <<tenant, pending, handled, operations, charges, stored, providerVars, clerk,
                   ledger, attempts, billingCalls>>

\* The provider is down, a check fails or the service stops: rolled back.
RequestFails(c) ==
    /\ clerk[c] # AtDesk
    /\ ledger' = IF ledger = c THEN NoClerk ELSE ledger
    /\ Then(c, AtDesk)
    /\ UNCHANGED <<tenant, pending, handled, usageVars, providerVars, attempts>>

BillingNext ==
    \/ \E a \in Attempt :
          \/ Pay(a) \/ SessionRunsOut(a)
          \/ \E status \in {"active", "past_due", "canceled"} : SubscriptionMoves(a, status)
    \/ \E c \in Clerk :
          \/ \E p \in PaidPlan : CheckoutCustomer(c, p)
          \/ CheckoutAttempt(c) \/ CheckoutAnswered(c) \/ CheckoutProcessing(c)
          \/ CheckoutPost(c) \/ CheckoutRecord(c)
          \/ \E e \in DOMAIN event : EventRead(c, e)
          \/ EventCommit(c)
          \/ \E k \in Key : Consume(c, k)
          \/ StoreWrite(c) \/ RequestFails(c)
    \/ PeriodEnds \/ NewMonth

BillingSpec == BillingInit /\ [][BillingNext]_billingVars

-----------------------------------------------------------------------------
BillingTypeOK ==
    /\ tenant.plan \in PaidPlan \cup {"free"} /\ tenant.sub \in 0 .. MaxAttempt
    /\ tenant.status \in {"free", "active", "past_due", "canceled"}
    /\ pending.attempt \in 0 .. attempts
    /\ handled \subseteq DOMAIN event
    /\ stored \subseteq operations /\ amount \in 0 .. Cardinality(operations)
    /\ \A a \in Attempt : (sub[a] # "none") = (page[a].status = "complete")
    /\ ledger \in Clerk \cup {NoClerk}

(***************************************************************************)
(* However checkouts overlap, fail and are retried, the provider never has *)
(* two sessions or subscriptions of the tenant that can cost money: the    *)
(* attempt is on record before the provider hears of it.                   *)
(***************************************************************************)
OneBillable ==
    Cardinality({a \in Attempt : page[a].status = "open" \/ sub[a] \in {"active", "past_due"}}) <= 1

(***************************************************************************)
(* Once every event was handled, in whatever order, the tenant has the     *)
(* state of its subscription at the provider.                              *)
(***************************************************************************)
SettledOnProvider ==
    handled = DOMAIN event /\ Open /\ tenant.sub # 0 => tenant.status = sub[tenant.sub]

(***************************************************************************)
(* A write that is retried under its key, after a crash or in parallel, is *)
(* charged once in all.                                                    *)
(***************************************************************************)
ChargedOnce == \A k \in Key : charges[k] = IF k \in operations THEN 1 ELSE 0

(***************************************************************************)
(* Checkouts, events and charged writes settle on what the provider knows, *)
(* each paid for once.                                                     *)
(***************************************************************************)
BillingHolds == OneBillable /\ SettledOnProvider /\ ChargedOnce
=============================================================================
