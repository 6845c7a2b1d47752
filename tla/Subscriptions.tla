----------------------------- MODULE Subscriptions -----------------------------
(***************************************************************************)
(* shared/billing: one Stripe subscription of an organization, and what    *)
(* the organization may do by it.  The row is written by the activation    *)
(* (lifecycle.py), by webhook events in any order, twice or never          *)
(* (webhooks.py, processor.py), by timers (lifecycle.py) and by the        *)
(* reconciliation with Stripe (reconciliation.py); each of them also       *)
(* writes the entitlement snapshot (snapshots.py).                         *)
(*                                                                         *)
(* Stripe is external: its state changes at any time, and every change is  *)
(* an event.  Events are numbered as Stripe made them; several may carry   *)
(* the same time.  A subscription that waits for its first payment         *)
(* ("incomplete") is left out.                                             *)
(***************************************************************************)
EXTENDS Integers, Functions

CONSTANTS
  MaxEvents,  \* bound: events of Stripe
  MaxTime,    \* bound: the clock, in the unit of grace and periods
  Grace,      \* grace_period_days of the plan
  MaxBusy,    \* bound: attempts at events under way
  BatchSize,  \* BILLING_RECONCILIATION_BATCH_SIZE
  MaxAhead,   \* bound: subscriptions that come before this one in the batch
  Starts,     \* bound: what Stripe answers to an activation
  Reports     \* bound: what it reports later, besides the end

Statuses == {"trialing", "active", "past_due", "unpaid", "canceled"}

Times    == 0..MaxTime
Dues     == 0..(MaxTime + Grace)
Nothing  == [status |-> "none", end |-> 0, closing |-> FALSE]
Remotes  == [status : Statuses \cup {"none"}, end : Dues, closing : BOOLEAN]

ASSUME SubscriptionsAssumption ==
  /\ MaxEvents \in Nat /\ MaxTime \in Nat /\ MaxBusy \in Nat /\ Grace \in Nat \ {0}
  /\ BatchSize \in Nat \ {0} /\ MaxAhead \in Nat
  /\ Starts \subseteq Remotes
  /\ \A x \in Starts : x.status \in {"trialing", "active"} /\ ~x.closing
  /\ Reports \subseteq Remotes
  /\ \A x \in Reports : x.status \in Statuses \ {"canceled"}

Ids  == 1..MaxEvents
None == -1

VARIABLES
  now,
  remote,    \* the subscription at Stripe
  emitted,   \* events made so far
  event,     \* StripeWebhookEvent: its type, created and payload
  inbox,     \* its status: settled is PROCESSED or IGNORED
  busy,      \* attempts at it between their two transactions
  row,       \* BillingSubscription
  last,      \* its last_event_id, 0 for none
  snap,      \* EntitlementSnapshot: state, access_mode, effective_until
  timer,     \* BillingLifecycleAction by action_type and due_at
  rec,       \* BillingReconciliation and what it was told by Stripe
  ahead,     \* subscriptions the reconciliation lists before this one
  acted      \* how often an event has changed the row

stripe == <<remote, emitted, event>>
local  == <<row, last, snap, timer>>
vars   == <<now, ahead, stripe, inbox, busy, local, rec, acted>>

NoEvent == [type |-> "none", at |-> 0, is |-> Nothing]
Kinds   == {"grace", "period"}
-----------------------------------------------------------------------------
(* Stripe *)
Emit(type, is) ==
  /\ emitted < MaxEvents /\ is.end >= remote.end
  /\ emitted' = emitted + 1
  /\ event' = [event EXCEPT ![emitted + 1] = [type |-> type, at |-> now, is |-> is]]
  /\ remote' = is

Updates(is) ==
  /\ remote.status \notin {"none", "canceled"}
  /\ Emit("updated", is)
  /\ UNCHANGED <<now, ahead, inbox, busy, local, rec, acted>>

Deletes ==
  /\ remote.status \notin {"none", "canceled"}
  /\ Emit("deleted", [remote EXCEPT !.status = "canceled"])
  /\ UNCHANGED <<now, ahead, inbox, busy, local, rec, acted>>

(* An invoice may be paid after the subscription has ended. *)
Bills(type) ==
  /\ remote.status # "none"
  /\ Emit(type, [remote EXCEPT !.status =
         IF @ = "canceled" THEN @ ELSE IF type = "paid" THEN "active" ELSE "past_due"])
  /\ UNCHANGED <<now, ahead, inbox, busy, local, rec, acted>>
-----------------------------------------------------------------------------
(* sync_subscription_lifecycle *)
Due(r, k) ==
  IF k = "grace" THEN IF r.state = "grace_period" THEN r.grace ELSE None
  ELSE IF r.state = "canceled" \/ r.is.closing THEN r.is.end ELSE None

(* Mutant: a timer that was called off is not started again.               *)
SyncedOnce(r) ==
  [k \in Kinds |-> [t \in Dues |->
     IF t = Due(r, k)
     THEN IF timer[k][t] \in {"processed", "off"} THEN timer[k][t] ELSE "pending"
     ELSE IF timer[k][t] = "pending" THEN "off" ELSE timer[k][t]]]

Synced(r) ==
  [k \in Kinds |-> [t \in Dues |->
     IF t = Due(r, k)
     THEN IF timer[k][t] = "processed" THEN "processed" ELSE "pending"
     ELSE IF timer[k][t] = "pending" THEN "off" ELSE timer[k][t]]]

(* Mutant: an access that stays keeps its end.                             *)
WriteLazily(r, access, until) ==
  /\ row' = r
  /\ snap' = IF access = snap.access THEN [snap EXCEPT !.state = r.state]
             ELSE [state |-> r.state, access |-> access, until |-> until]
  /\ timer' = Synced(r)

(* The row is written with its snapshot and timers.                        *)
Write(r, access, until) ==
  /\ row' = r
  /\ snap' = [state |-> r.state, access |-> access, until |-> until]
  /\ timer' = Synced(r)

NoRec == [open |-> FALSE, at |-> 0, asOf |-> 0, told |-> Nothing]

(* A reconciliation that is under way ends in a conflict once the row has  *)
(* another version than at its start.                                      *)
Overtakes == rec' = NoRec

(* What a status means: subscription_access and the branches below it, for *)
(* events and reconciliation alike.  "at" is the event's time, or now.     *)
StateOf == [trialing |-> "trialing", active |-> "active",
            past_due |-> "grace_period", unpaid |-> "read_only", canceled |-> "canceled"]

(* Mutant: every further failure prolongs the grace.                       *)
GraceEndProlonged(at) == IF row.grace # None THEN row.grace + Grace ELSE at + Grace
GraceEnd(at) == IF row.grace # None THEN row.grace ELSE at + Grace

(* Mutant: a cancellation ends the access at once.                         *)
IsOverAtOnce(is, at) == TRUE
IsOver(is, at) == is.end <= at

Interpret(is, at) ==
  LET state  == IF is.status = "past_due" /\ row.state = "read_only" THEN "read_only"
                ELSE StateOf[is.status]
      grace  == IF is.status = "past_due" THEN GraceEnd(at) ELSE None
      access == IF state = "read_only" \/ (state = "canceled" /\ IsOver(is, at))
                THEN "read_only" ELSE "full"
  IN  Write([state |-> state, grace |-> grace, is |-> is],
            access,
            IF access = "read_only" THEN None
            ELSE IF state = "grace_period" THEN grace ELSE is.end)
-----------------------------------------------------------------------------
(* activate_trial_for_product: one transaction, the request's or that of   *)
(* the checkout event, holds the profile's lock around the call of Stripe. *)
(* After a crash the idempotency key brings the first answer again.        *)
Activated(is) ==
  Write([state |-> is.status, grace |-> None, is |-> is], "full", is.end)

Activate(is) ==
  /\ row.state = "none"
  /\ \/ remote.status = "none" /\ Emit("created", is)
     \/ /\ remote.status # "none" /\ event[1].is = is
        /\ UNCHANGED stripe
  /\ Activated(is)
  /\ UNCHANGED <<now, ahead, inbox, busy, last, rec, acted>>

ActivationDies(is) ==
  /\ row.state = "none" /\ remote.status = "none"
  /\ Emit("created", is)
  /\ UNCHANGED <<now, ahead, inbox, busy, local, rec, acted>>
-----------------------------------------------------------------------------
UnderWay == FoldFunction(+, 0, busy)

(* ingest_stripe_webhook and the first transaction of process_stripe_event. *)
(* A webhook and a message may come late, twice or never, and a retry while*)
(* another attempt is under way.                                           *)
Begin(i) ==
  /\ i <= emitted
  /\ inbox[i] # "settled"
  /\ UnderWay < MaxBusy
  /\ inbox' = [inbox EXCEPT ![i] = "open"]
  /\ busy' = [busy EXCEPT ![i] = @ + 1]
  /\ UNCHANGED <<now, ahead, stripe, local, rec, acted>>

Priority == [created |-> 20, updated |-> 30, failed |-> 40, paid |-> 50, deleted |-> 60]

(* Mutant: only a repetition is stale.                                     *)
IsRepeated(i) == last = i
(* Mutant: events of one type in one second are all taken for new ones.    *)
IsStaleStrictly(i) ==
  last # 0 /\ ( \/ event[i].at < event[last].at
                \/ /\ event[i].at = event[last].at
                   /\ Priority[event[i].type] < Priority[event[last].type] )
IsStale(i) ==
  last # 0 /\ ( \/ event[i].at < event[last].at
                \/ /\ event[i].at = event[last].at
                   /\ Priority[event[i].type] <= Priority[event[last].type] )

(* An attempt ends.  When it was the last under way, FAILED is as good as  *)
(* open: the event may be attempted again.                                 *)
Leave(i, status) ==
  /\ busy[i] > 0
  /\ busy' = [busy EXCEPT ![i] = @ - 1]
  /\ inbox' = [inbox EXCEPT ![i] = IF status = "failed" /\ busy[i] = 1 THEN "open" ELSE status]
  /\ UNCHANGED <<now, ahead, stripe>>

(* The second transaction reads the event again, but does not look whether *)
(* its status allows another dispatch; a FAILED that came between stays.   *)
HandleStale(i) ==
  /\ Leave(i, "settled")
  /\ row.state # "none" /\ IsStale(i)
  /\ UNCHANGED <<local, rec, acted>>

Acts(i) ==
  /\ Leave(i, IF inbox[i] = "failed" THEN "failed" ELSE "settled")
  /\ last' = i
  /\ Overtakes
  /\ acted' = [acted EXCEPT ![i] = @ + 1]

HandleSubscription(i) ==
  /\ event[i].type \in {"created", "updated", "deleted"}
  /\ row.state = "none" \/ ~IsStale(i)
  /\ Acts(i)
  /\ Interpret(event[i].is, event[i].at)

HandlePaid(i) ==
  /\ event[i].type = "paid"
  /\ row.state # "none" /\ ~IsStale(i)
  /\ Acts(i)
  /\ Write([row EXCEPT !.state = "active", !.is.status = "active", !.grace = None],
           "full", row.is.end)

HandleFailed(i) ==
  /\ event[i].type = "failed"
  /\ row.state # "none" /\ ~IsStale(i)
  /\ Acts(i)
  /\ Interpret([row.is EXCEPT !.status = "past_due"], event[i].at)

(* Any error, an invoice of an unknown subscription among them: what the   *)
(* attempt did is rolled back and the event is failed, whatever it was.    *)
Fails(i) ==
  /\ Leave(i, "failed")
  /\ UNCHANGED <<local, rec, acted>>

Dies(i) ==
  /\ Leave(i, inbox[i])
  /\ UNCHANGED <<local, rec, acted>>
-----------------------------------------------------------------------------
(* process_due_lifecycle_actions.  A pending timer always has the time that *)
(* the row gives it (PendingFitsRow): that its boundary has moved, for     *)
(* which the code has an answer too, never happens.                        *)
IsDue(k, t) == timer[k][t] = "pending" /\ t <= now

Expired(k) ==
  \/ k = "grace" /\ row.state = "grace_period" /\ row.grace # None /\ row.grace <= now
  \/ k = "period" /\ row.is.end <= now /\ (row.state = "canceled" \/ row.is.closing)

TimerFires(k, t) ==
  /\ IsDue(k, t)
  /\ Expired(k)
  /\ row' = [row EXCEPT !.state = IF k = "grace" THEN "read_only" ELSE "canceled",
                        !.is.closing = FALSE]
  /\ snap' = [state |-> row'.state, access |-> "read_only", until |-> None]
  /\ timer' = [q \in Kinds |-> [u \in Dues |->
       IF q = k /\ u = t THEN "processed"
       ELSE IF timer[q][u] = "pending" THEN "off" ELSE timer[q][u]]]
  /\ Overtakes
  /\ UNCHANGED <<now, ahead, stripe, inbox, busy, last, acted>>

(* An action that has failed too often is given up. *)
TimerFails(k, t) ==
  /\ IsDue(k, t)
  /\ timer' = [timer EXCEPT ![k][t] = "failed"]
  /\ UNCHANGED <<now, ahead, stripe, inbox, busy, row, last, snap, rec, acted>>
-----------------------------------------------------------------------------
(* The batch of the reconciliation: BatchSize subscriptions in the order   *)
(* of their organizations, those already done in this hour among them.     *)
IsListed == ahead < BatchSize

(* Older organizations subscribe, or leave; told only where it may matter  *)
(* to the next question, for all else goes on whether they do or not.      *)
OthersCome ==
  /\ row.state # "none" /\ ~rec.open
  /\ ahead' \in 0..MaxAhead \ {ahead}
  /\ UNCHANGED <<now, stripe, inbox, busy, local, rec, acted>>

(* run_reconciliation_batch: the version of the row and Stripe's answer,   *)
(* and later, if the version is still the same, the answer is applied.     *)
(* Mutant: subscriptions that have ended are not looked at.                *)
AskLive ==
  /\ IsListed /\ row.state \notin {"none", "canceled"} /\ ~rec.open
  /\ rec' = [open |-> TRUE, at |-> now, asOf |-> emitted, told |-> remote]
  /\ UNCHANGED <<now, ahead, stripe, inbox, busy, local, acted>>
Ask ==
  /\ IsListed /\ row.state # "none" /\ ~rec.open
  /\ rec' = [open |-> TRUE, at |-> now, asOf |-> emitted, told |-> remote]
  /\ UNCHANGED <<now, ahead, stripe, inbox, busy, local, acted>>

Apply ==
  /\ rec.open
  /\ Interpret(rec.told, rec.at)
  /\ row' # row
  /\ rec' = NoRec
  /\ UNCHANGED <<now, ahead, stripe, inbox, busy, last, acted>>

(* No change, or an error.                                                 *)
Discard ==
  /\ rec.open
  /\ rec' = NoRec
  /\ UNCHANGED <<now, ahead, stripe, inbox, busy, local, acted>>
-----------------------------------------------------------------------------
Tick ==
  /\ now < MaxTime
  /\ now' = now + 1
  /\ UNCHANGED <<ahead, stripe, inbox, busy, local, rec, acted>>

NoRow == [state |-> "none", grace |-> None, is |-> Nothing]
Init ==
  /\ now = 0
  /\ remote = Nothing /\ emitted = 0 /\ event = [i \in Ids |-> NoEvent]
  /\ inbox = [i \in Ids |-> "open"] /\ busy = [i \in Ids |-> 0]
  /\ row = NoRow /\ last = 0
  /\ snap = [state |-> "none", access |-> "none", until |-> None]
  /\ timer = [k \in Kinds |-> [t \in Dues |-> "none"]]
  /\ rec = NoRec /\ ahead = 0
  /\ acted = [i \in Ids |-> 0]

StripeMoves ==
  \/ \E is \in Reports : Updates(is)
  \/ Deletes
  \/ Bills("paid") \/ Bills("failed")

Handle(i) ==
  HandleStale(i) \/ HandleSubscription(i) \/ HandlePaid(i) \/ HandleFailed(i)

Next ==
  \/ Tick \/ OthersCome \/ StripeMoves
  \/ \E is \in Starts : Activate(is) \/ ActivationDies(is)
  \/ \E i \in Ids : Begin(i) \/ Handle(i) \/ Fails(i) \/ Dies(i)
  \/ \E k \in Kinds, t \in Dues :
       TimerFires(k, t) \/ TimerFails(k, t)
  \/ Ask \/ Apply \/ Discard

Spec == Init /\ [][Next]_vars

(* Celery beat starts a batch every five minutes, and each hour opens a new *)
(* reconciliation of every subscription that the batch lists; each comes   *)
(* to an end, and one of them is answered and meets no other change of the *)
(* row.  Of a subscription that is not listed nothing is said.             *)
Fairness == WF_vars(Ask \/ Discard) /\ SF_vars(Apply)

FairSpec == Spec /\ Fairness
-----------------------------------------------------------------------------
States   == {"trialing", "active", "grace_period", "read_only", "canceled"}
TypeOK ==
  /\ now \in Times /\ ahead \in 0..MaxAhead /\ emitted \in 0..MaxEvents /\ last \in 0..MaxEvents
  /\ remote \in Remotes
  /\ event \in [Ids -> [type : {"none", "created", "updated", "failed", "paid", "deleted"},
                        at : Times, is : Remotes]]
  /\ inbox \in [Ids -> {"open", "failed", "settled"}]
  /\ busy \in [Ids -> Nat]
  /\ row \in [state : States \cup {"none"}, grace : Dues \cup {None}, is : Remotes]
  /\ timer \in [Kinds -> [Dues -> {"none", "pending", "off", "processed", "failed"}]]
  /\ snap \in [state : States \cup {"none"}, access : {"none", "full", "read_only"},
               until : Dues \cup {None}]
  /\ rec \in [open : BOOLEAN, at : Times, asOf : 0..MaxEvents, told : Remotes]
  /\ acted \in [Ids -> Nat]

(* An event changes the row at most once, however often it is delivered    *)
(* and retried and however its attempts overlap.                           *)
EventActsOnce == \A i \in Ids : acted[i] <= 1

(* The last event that changed the row is the newest of those that did.    *)
NewestEventWins ==
  \A i \in Ids : acted[i] > 0 => last # 0 /\ event[i].at <= event[last].at

(* Five writers, one meaning: the snapshot says of the access what the row *)
(* says of the subscription, and full access always has an end.            *)
SnapshotFollowsRow ==
  /\ snap.state = row.state
  /\ snap.access = "full" =>
       \/ row.state \in {"trialing", "active", "canceled"} /\ snap.until = row.is.end
       \/ row.state = "grace_period" /\ snap.until = row.grace /\ row.grace # None
  /\ snap.access = "read_only" =>
       row.state \in {"read_only", "canceled"} /\ snap.until = None

(* Full access that ends at a known time is not forgotten: while that time *)
(* lies ahead a timer waits for it, however often the row came and went.   *)
BoundaryIsTimed ==
  /\ row.state = "grace_period" /\ row.grace > now => timer["grace"][row.grace] = "pending"
  /\ (row.state = "canceled" \/ row.is.closing) /\ row.is.end > now
       => timer["period"][row.is.end] = "pending"

(* A reconciliation does not undo what an event has brought since Stripe   *)
(* was asked.                                                              *)
ReconcilesForward ==
  rec.open => last <= rec.asOf

(* Nobody who may write is locked out early, whoever writes: only when     *)
(* Stripe has given up on the payment, or the grace or the paid period is  *)
(* over (src/docs/architecture/billing-lifecycle.md:35-39).                *)
NobodyIsLockedOutEarly ==
  [][snap.access = "full" /\ snap'.access = "read_only" =>
       \/ row'.is.status = "unpaid"
       \/ row.state = "grace_period" /\ row.grace # None /\ row.grace <= now
       \/ row'.state = "canceled" /\ row'.is.end <= now]_vars

(* However often a payment fails, and whoever says so, the grace ends when *)
(* the first failure has it end: only a way out of the grace ends it.      *)
GraceIsNotProlonged ==
  [][row.state = "grace_period" /\ row'.state = "grace_period" => row'.grace = row.grace]_vars

(* Lost webhooks are repaired: once Stripe's state rests, the row agrees,  *)
(* if the batch of the reconciliation lists the subscription.  One that    *)
(* stays behind the first BatchSize is not repaired.                       *)
Agrees == row.state = "none" \/ row.is = remote
Converges == <>[]IsListed => <>[]Agrees

(* A canceled subscription has full access to the end of the paid period   *)
(* and then may read: a timer sees to it, before that time or after it.    *)
CanceledIsTimed ==
  row.state = "canceled" /\ snap.access = "full"
    => timer["period"][row.is.end] \in {"pending", "failed"}

(* What holds of it: no other than a timer that has fired is missing, for  *)
(* an end that came again after it had passed.                             *)
CanceledWasTimed ==
  row.state = "canceled" => timer["period"][row.is.end] \in {"pending", "failed", "processed"}
===============================================================================
