-------------------------------- MODULE Billing --------------------------------
(***************************************************************************)
(* How a payment becomes an entitlement: the checkout route, the webhook   *)
(* of the payment provider and the verification the browser asks for, all  *)
(* of which end in process_payment_webhook, and the trigger that keeps the *)
(* canonical entitlement.                                                  *)
(*                                                                         *)
(* One user.  Every order has at most one payment.  The provider delivers  *)
(* two events for it, at least once each, in any order and at any time,    *)
(* and delivers one again until it is answered with success.               *)
(***************************************************************************)
EXTENDS Integers, Sequences, SequencesExt

CONSTANTS
    Orders,        \* orders the user may open
    Tiers,         \* the tiers that are sold
    NoRow,         \* the user has no entitlement yet
    Period         \* days a payment lasts

VARIABLES
    order,         \* each order, and whether it was paid
    call,          \* each call that reports an order's payment
    payments,      \* orders whose payment has a row
    subscriptions, \* the rows of subscriptions, in the order of their writing
    entitlement,   \* the row of hexical_entitlements
    mirrored,      \* the tier in the user's metadata
    today,         \* days gone by
    luck           \* what may still happen

billingVars == <<order, call, payments, subscriptions, entitlement, mirrored, today, luck>>

Webhooks == {"captured", "paid"}
Calls == Webhooks \cup {"browser"}

\* `opened` is the tier of each order, free for one that is yet to be opened.
BillingInit(opened, budget) ==
    /\ order = [o \in Orders |-> [state |-> IF opened[o] = "free" THEN "none" ELSE "open", tier |-> opened[o]]]
    /\ call = [o \in Orders |-> [c \in Calls |-> "none"]]
    /\ payments = {} /\ subscriptions = <<>>
    /\ entitlement = NoRow /\ mirrored = "free" /\ today = 0
    /\ luck = budget

Using(what) == luck[what] > 0 /\ luck' = [luck EXCEPT ![what] = @ - 1]
Calling(o, c, state) == call' = [call EXCEPT ![o][c] = state]

\* canonical_entitlement and resolveWorkspaceEntitlement: a tier counts until its period has ended.
Entitled == IF entitlement = NoRow THEN "free" ELSE IF entitlement.until >= today THEN entitlement.tier ELSE "free"

\* An order for a tier the user does not have; a read that fails shows nobody any tier.
Checkout(o, tier) ==
    /\ order[o].state = "none"
    /\ \/ Entitled # tier /\ UNCHANGED luck
       \/ Entitled = tier /\ Using("read")
    /\ order' = [order EXCEPT ![o] = [state |-> "open", tier |-> tier]]
    /\ UNCHANGED <<call, payments, subscriptions, entitlement, mirrored, today>>

\* The payment is captured: two events are due, and the browser reports it, unless it was closed.
Pay(o) ==
    /\ order[o].state = "open"
    /\ order' = [order EXCEPT ![o].state = "paid"]
    /\ \E browser \in {"none", "due"} :
          /\ IF browser = "due" THEN Using("browser") ELSE UNCHANGED luck
          /\ call' = [call EXCEPT ![o] = [c \in Calls |-> IF c \in Webhooks THEN "due" ELSE browser]]
    /\ UNCHANGED <<payments, subscriptions, entitlement, mirrored, today>>

\* What names the user and the tier are the notes of the order; the payment's own copy of them may be missing.
Readable(c) == {TRUE} \cup (IF c = "captured" THEN {FALSE} ELSE {})

\* process_payment_webhook begins: a payment that has a row was processed. What cannot be read is
\* acknowledged and ignored.
LookUp(o, c) ==
    /\ call[o][c] = "due"
    /\ \E readable \in Readable(c) :
          Calling(o, c, IF ~readable THEN "ignored" ELSE IF o \in payments THEN "done" ELSE "inserting")
    /\ UNCHANGED <<order, payments, subscriptions, entitlement, mirrored, today, luck>>

\* Changed: a failure is swallowed.
AfterFailure_swallowed(c) == IF c \in Webhooks THEN "done" ELSE "failed"

\* A failure is answered 500, which makes the provider deliver the event again; a browser is told.
AfterFailure(c) == IF c \in Webhooks THEN "due" ELSE "failed"

\* The trigger of the subscriptions copies the row that was written last.
Granted(tier) == [tier |-> tier, until |-> today + Period]
Synced(row) == entitlement' = row

\* The payment's row, its subscription and the entitlement are one transaction; of two that looked
\* before either had committed, the second finds the key taken.
Insert(o, c) ==
    /\ call[o][c] = "inserting"
    /\ IF o \in payments
       THEN Calling(o, c, AfterFailure(c)) /\ UNCHANGED <<payments, subscriptions, entitlement>>
       ELSE /\ payments' = payments \cup {o}
            /\ subscriptions' = Append(subscriptions, [order |-> o, tier |-> order[o].tier, until |-> today + Period])
            /\ Synced(Granted(order[o].tier))
            /\ Calling(o, c, IF c \in Webhooks THEN "mirror" ELSE "done")
    /\ UNCHANGED <<order, mirrored, today, luck>>

\* The database does not answer: nothing was written, or everything was and nobody knows.
ReportFails(o, c) ==
    /\ call[o][c] \in {"due", "inserting", "mirror"}
    /\ Using("fail")
    /\ Calling(o, c, AfterFailure(c))
    /\ UNCHANGED <<order, payments, subscriptions, entitlement, mirrored, today>>

\* The mirror in the metadata, which may fail: nobody depends on it.
Mirror(o, c) ==
    /\ call[o][c] = "mirror"
    /\ \/ mirrored' = order[o].tier /\ UNCHANGED luck
       \/ Using("fail") /\ UNCHANGED mirrored
    /\ Calling(o, c, "done")
    /\ UNCHANGED <<order, payments, subscriptions, entitlement, today>>

\* An event that was processed is delivered once more.
Redeliver(o, c) ==
    /\ c \in Webhooks /\ call[o][c] \in {"done", "ignored"}
    /\ Using("again")
    /\ Calling(o, c, "due")
    /\ UNCHANGED <<order, payments, subscriptions, entitlement, mirrored, today>>

DayPasses ==
    /\ Using("day")
    /\ today' = today + 1
    /\ UNCHANGED <<order, call, payments, subscriptions, entitlement, mirrored>>

CallStep(o, c) == LookUp(o, c) \/ Insert(o, c) \/ Mirror(o, c)
BillingNext ==
    \/ \E o \in Orders : \/ Pay(o)
                         \/ \E tier \in Tiers : Checkout(o, tier)
                         \/ \E c \in Calls : CallStep(o, c) \/ ReportFails(o, c) \/ Redeliver(o, c)
    \/ DayPasses

-----------------------------------------------------------------------------
(* Properties.                                                             *)

\* Who has paid is granted what was paid: through every failure of the database, an event that
\* cannot be read, a lost answer, a browser that was closed and the three calls racing.
PaidIsGranted == <>[](\A o \in Orders : order[o].state = "paid" => o \in payments)

=============================================================================
