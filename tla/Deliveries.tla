------------------------------ MODULE Deliveries ------------------------------
(***************************************************************************)
(* shared/notifications: e-mails to one recipient and webhooks, from their *)
(* row in the queue to the provider's last word (services.py, delivery.py, *)
(* tasks.py).                                                              *)
(*                                                                         *)
(* A task delivers inside the transaction of tenant_task_context: the row  *)
(* stays locked while the provider is called, and a task that dies or      *)
(* raises leaves no trace of its attempt but the provider's.  The route of *)
(* the pending task is completed after that transaction, by itself.        *)
(* The provider knows an e-mail by its idempotency key.  A backoff is a    *)
(* task message that may come at any time.                                 *)
(***************************************************************************)
EXTENDS Integers, FiniteSets

CONSTANTS
  Items,        \* rows of NotificationMessage and WebhookDelivery
  Marketing,    \* those of the category "marketing"
  MaxAttempts,  \* max_attempts of a row
  MaxTries,     \* bound: attempts counted on a row
  MaxTasks,     \* bound: task messages and running tasks of a row
  MaxRepairs    \* bound: retries by the support

ASSUME DeliveriesAssumption ==
  /\ MaxAttempts \in Nat \ {0} /\ MaxTries \in Nat
  /\ MaxTasks \in Nat /\ MaxRepairs \in Nat

VARIABLES
  kind,       \* "email" or "webhook"
  status,     \* DeliveryStatus; PROCESSING is never committed
  tries,      \* attempt_count
  log,        \* NotificationAttempt or WebhookAttempt: <<number, outcome>>
  open,       \* rows with an incomplete PendingTaskRoute
  valid,      \* rows whose signed tenant context is accepted
  tasks,      \* task messages in the broker or waiting for their countdown
  sending,    \* tasks inside their transaction, calling the provider
  closing,    \* tasks past it, about to complete the route
  accepted,   \* rows the provider (or the endpoint) has accepted
  routes,     \* e-mails with a ProviderMessageRoute
  reported,   \* statuses in the ProviderEventInbox of each e-mail
  applied,    \* those with processed_at
  scrubbed,   \* e-mails without their recipient's data
  suppressed, \* an active EmailSuppression of the recipient
  optedOut,   \* NotificationPreference.marketing_enabled is off
  late,       \* e-mails queued when the recipient was suppressed already
  repaired    \* retries of each row by the support

row     == <<kind, status, tries, log>>
work    == <<tasks, sending, closing>>
reports == <<routes, reported, applied>>
wishes  == <<scrubbed, suppressed, optedOut, late>>
vars    == <<row, open, valid, work, accepted, reports, wishes, repaired>>

Load(m)   == tasks[m] + sending[m] + closing[m]
Locked(m) == sending[m] > 0

Rank(s) == IF s = "sent" THEN 1 ELSE IF s = "delivered" THEN 2
           ELSE IF s = "bounced" THEN 3 ELSE IF s = "complained" THEN 4 ELSE 0
Reports == {"delivered", "bounced", "complained"}
-----------------------------------------------------------------------------
(* queue_email and queue_webhooks: the row, its route and, on commit, its  *)
(* task message.                                                           *)
Queue(m, k) ==
  /\ status[m] = "none"
  /\ kind' = [kind EXCEPT ![m] = k]
  /\ status' = [status EXCEPT ![m] = "queued"]
  /\ open' = open \cup {m}
  /\ tasks' = [tasks EXCEPT ![m] = @ + 1]
  /\ valid' = valid \cup {m}
  /\ late' = IF k = "email" /\ suppressed THEN late \cup {m} ELSE late
  /\ UNCHANGED <<tries, log, sending, closing, accepted, reports, scrubbed,
                 suppressed, optedOut, repaired>>

(* recover_pending sends a task for every incomplete route, every minute.  *)
(* Mutant: it takes the message it sends for the end of its duty.          *)
RecoverOnce(m) ==
  /\ m \in open
  /\ Load(m) < MaxTasks
  /\ tasks' = [tasks EXCEPT ![m] = @ + 1]
  /\ open' = open \ {m}
  /\ UNCHANGED <<row, valid, sending, closing, accepted, reports, wishes, repaired>>
Recover(m) ==
  /\ m \in open
  /\ Load(m) < MaxTasks
  /\ tasks' = [tasks EXCEPT ![m] = @ + 1]
  /\ UNCHANGED <<row, open, valid, sending, closing, accepted, reports, wishes,
                 repaired>>

(* The broker or a worker loses the message; Celery's last retry; the      *)
(* signed context has expired or its member has left.                      *)
Drop(m) ==
  /\ tasks[m] > 0
  /\ tasks' = [tasks EXCEPT ![m] = @ - 1]
  /\ UNCHANGED <<row, open, valid, sending, closing, accepted, reports, wishes,
                 repaired>>
-----------------------------------------------------------------------------
(* deliver_email and deliver_webhook, from the locked row on               *)
Withheld(m) ==
  /\ kind[m] = "email"
  /\ suppressed \/ m \in scrubbed \/ (m \in Marketing /\ optedOut)

Undelivered(m) == status[m] \in {"queued", "dead_letter"}

(* Mutant: the row is locked while its state is read, not while it is sent *)
TakenUnlocked(m) == tasks[m] > 0 /\ m \in valid
Taken(m) == tasks[m] > 0 /\ m \in valid /\ ~Locked(m)

Skip(m) ==
  /\ Taken(m)
  /\ ~Undelivered(m)
  /\ tasks' = [tasks EXCEPT ![m] = @ - 1]
  /\ closing' = [closing EXCEPT ![m] = @ + 1]
  /\ UNCHANGED <<row, open, valid, sending, accepted, reports, wishes, repaired>>

Withhold(m) ==
  /\ Taken(m)
  /\ Undelivered(m) /\ Withheld(m)
  /\ status' = [status EXCEPT ![m] = "suppressed"]
  /\ tasks' = [tasks EXCEPT ![m] = @ - 1]
  /\ closing' = [closing EXCEPT ![m] = @ + 1]
  /\ UNCHANGED <<kind, tries, log, open, valid, sending, accepted, reports,
                 wishes, repaired>>

Start(m) ==
  /\ Taken(m)
  /\ Undelivered(m) /\ ~Withheld(m)
  /\ tries[m] < MaxTries
  /\ tasks' = [tasks EXCEPT ![m] = @ - 1]
  /\ sending' = [sending EXCEPT ![m] = @ + 1]
  /\ UNCHANGED <<row, open, valid, closing, accepted, reports, wishes, repaired>>

(* The call reaches the provider, whatever the task hears of it. *)
Accept(m) ==
  /\ Locked(m)
  /\ accepted' = accepted \cup {m}
  /\ UNCHANGED <<row, open, valid, work, reports, wishes, repaired>>

(* get_or_create by number: the first outcome under a number stays.  A     *)
(* mutant: attempts are numbered from the row as it was read, uncounted.   *)
LoggedUncounted(m, outcome) ==
  IF \E o \in {"accepted", "failed"} : <<tries[m], o>> \in log[m]
  THEN log ELSE [log EXCEPT ![m] = @ \cup {<<tries[m], outcome>>}]
Logged(m, outcome) ==
  IF \E o \in {"accepted", "failed"} : <<tries[m] + 1, o>> \in log[m]
  THEN log ELSE [log EXCEPT ![m] = @ \cup {<<tries[m] + 1, outcome>>}]

(* _mark_email_sent, after the answer or after the provider was asked for  *)
(* the key; the webhook's 2xx                                              *)
Succeed(m) ==
  /\ Locked(m)
  /\ m \in accepted
  /\ status' = [status EXCEPT ![m] = IF kind[m] = "email" THEN "sent" ELSE "delivered"]
  /\ tries' = [tries EXCEPT ![m] = @ + 1]
  /\ log' = Logged(m, "accepted")
  /\ routes' = IF kind[m] = "email" THEN routes \cup {m} ELSE routes
  /\ sending' = [sending EXCEPT ![m] = @ - 1]
  /\ closing' = [closing EXCEPT ![m] = @ + 1]
  /\ UNCHANGED <<kind, open, valid, tasks, accepted, reported, applied, wishes,
                 repaired>>

(* _record_email_failure and _record_webhook_failure; the attachment of an *)
(* e-mail accepted before may be gone.                                     *)
Fail(m) ==
  /\ Locked(m)
  /\ tries' = [tries EXCEPT ![m] = @ + 1]
  /\ log' = Logged(m, "failed")
  /\ sending' = [sending EXCEPT ![m] = @ - 1]
  /\ IF tries[m] + 1 >= MaxAttempts
     THEN /\ status' = [status EXCEPT ![m] = "dead_letter"]
          /\ closing' = [closing EXCEPT ![m] = @ + 1]
          /\ UNCHANGED tasks
     ELSE /\ status' = [status EXCEPT ![m] = "queued"]
          /\ tasks' = [tasks EXCEPT ![m] = @ + 1]
          /\ UNCHANGED closing
  /\ UNCHANGED <<kind, open, valid, accepted, reports, wishes, repaired>>

(* The task dies, or asking the provider raises too. *)
RollBack(m) ==
  /\ Locked(m)
  /\ sending' = [sending EXCEPT ![m] = @ - 1]
  /\ UNCHANGED <<row, open, valid, tasks, closing, accepted, reports, wishes,
                 repaired>>

(* _complete_route, unless the task dies before *)
Close(m) ==
  /\ closing[m] > 0
  /\ closing' = [closing EXCEPT ![m] = @ - 1]
  /\ open' = open \ {m}
  /\ UNCHANGED <<row, valid, tasks, sending, accepted, reports, wishes, repaired>>
CloseDies(m) ==
  /\ closing[m] > 0
  /\ closing' = [closing EXCEPT ![m] = @ - 1]
  /\ UNCHANGED <<row, open, valid, tasks, sending, accepted, reports, wishes,
                 repaired>>

(* support_retry_message and support_retry_webhook *)
Repair(m) ==
  /\ status[m] = "dead_letter"
  /\ ~Locked(m)
  /\ repaired[m] < MaxRepairs /\ Load(m) < MaxTasks
  /\ status' = [status EXCEPT ![m] = "queued"]
  /\ tries' = [tries EXCEPT ![m] = 0]
  /\ valid' = valid \cup {m}
  /\ open' = open \cup {m}
  /\ tasks' = [tasks EXCEPT ![m] = @ + 1]
  /\ repaired' = [repaired EXCEPT ![m] = @ + 1]
  /\ UNCHANGED <<kind, log, sending, closing, accepted, reports, wishes>>

(* issue_tenant_task_contract's term ends, or its member leaves. *)
Expire(m) ==
  /\ m \in valid
  /\ valid' = valid \ {m}
  /\ UNCHANGED <<row, open, work, accepted, reports, wishes, repaired>>
-----------------------------------------------------------------------------
(* ingest_provider_status; an event may come again.                        *)
Report(m, s) ==
  /\ m \in routes
  /\ s \notin reported[m]
  /\ reported' = [reported EXCEPT ![m] = @ \cup {s}]
  /\ UNCHANGED <<row, open, valid, work, accepted, routes, applied, wishes, repaired>>

(* process_provider_status, in any order.                                  *)
(* Mutant: the last event processed wins.                                  *)
RankedLast(s, old) == s
Ranked(s, old) == IF Rank(s) >= Rank(old) THEN s ELSE old
Apply(m, s) ==
  /\ s \in reported[m] \ applied[m]
  /\ m \in valid /\ ~Locked(m)
  /\ status' = [status EXCEPT ![m] = Ranked(s, @)]
  /\ applied' = [applied EXCEPT ![m] = @ \cup {s}]
  /\ suppressed' = (suppressed \/ s \in {"bounced", "complained"})
  /\ UNCHANGED <<kind, tries, log, open, valid, work, accepted, routes, reported,
                 scrubbed, optedOut, late, repaired>>

(* scrub_message_now of what the sweep can lock.                           *)
(* Mutant: it scrubs what is locked too.                                   *)
CanScrubLocked(m) == kind[m] = "email" /\ m \notin scrubbed
CanScrub(m) == kind[m] = "email" /\ m \notin scrubbed /\ ~Locked(m)
Scrub(m) ==
  /\ CanScrub(m)
  /\ scrubbed' = scrubbed \cup {m}
  /\ routes' = routes \ {m}
  /\ reported' = [reported EXCEPT ![m] = {}]
  /\ applied' = [applied EXCEPT ![m] = {}]
  /\ UNCHANGED <<row, open, valid, work, accepted, suppressed, optedOut, late,
                 repaired>>

(* Another e-mail to the recipient bounces; the recipient's preferences.   *)
BounceElsewhere ==
  /\ ~suppressed
  /\ suppressed' = TRUE
  /\ UNCHANGED <<row, open, valid, work, accepted, reports, scrubbed, optedOut,
                 late, repaired>>
Prefer ==
  /\ optedOut' = ~optedOut
  /\ UNCHANGED <<row, open, valid, work, accepted, reports, scrubbed, suppressed,
                 late, repaired>>

Init ==
  /\ kind = [m \in Items |-> "none"] /\ status = [m \in Items |-> "none"]
  /\ tries = [m \in Items |-> 0] /\ log = [m \in Items |-> {}]
  /\ open = {} /\ valid = {}
  /\ tasks = [m \in Items |-> 0] /\ sending = [m \in Items |-> 0]
  /\ closing = [m \in Items |-> 0]
  /\ accepted = {} /\ routes = {}
  /\ reported = [m \in Items |-> {}] /\ applied = [m \in Items |-> {}]
  /\ scrubbed = {} /\ suppressed \in BOOLEAN /\ optedOut = FALSE /\ late = {}
  /\ repaired = [m \in Items |-> 0]

Take(m)     == Skip(m) \/ Withhold(m) \/ Start(m)
Conclude(m) == Succeed(m) \/ Fail(m)
Next ==
  \/ \E m \in Items :
       \/ Queue(m, "email") \/ Queue(m, "webhook")
       \/ Recover(m) \/ Drop(m) \/ Take(m)
       \/ Accept(m) \/ Conclude(m) \/ RollBack(m)
       \/ Close(m) \/ CloseDies(m)
       \/ Repair(m) \/ Expire(m) \/ Scrub(m)
       \/ \E s \in Reports : Report(m, s) \/ Apply(m, s)
  \/ BounceElsewhere \/ Prefer

Spec == Init /\ [][Next]_vars

(* Celery beat runs recover_pending every minute; not every message is     *)
(* lost, and workers and provider do not break down in every attempt.      *)
Fairness ==
  \A m \in Items : WF_vars(Recover(m)) /\ SF_vars(Take(m)) /\ SF_vars(Conclude(m))

FairSpec == Spec /\ Fairness
-----------------------------------------------------------------------------
TypeOK ==
  /\ kind \in [Items -> {"none", "email", "webhook"}]
  /\ status \in [Items -> {"none", "queued", "sent", "delivered", "bounced",
                           "complained", "suppressed", "dead_letter"}]
  /\ tries \in [Items -> 0..MaxTries]
  /\ log \in [Items -> SUBSET ((1..MaxTries) \X {"accepted", "failed"})]
  /\ open \subseteq Items /\ valid \subseteq Items /\ accepted \subseteq Items
  /\ tasks \in [Items -> Nat] /\ sending \in [Items -> {0, 1}]
  /\ closing \in [Items -> Nat]
  /\ routes \subseteq Items
  /\ reported \in [Items -> SUBSET Reports] /\ applied \in [Items -> SUBSET Reports]
  /\ scrubbed \subseteq Items /\ late \subseteq Items
  /\ suppressed \in BOOLEAN /\ optedOut \in BOOLEAN
  /\ repaired \in [Items -> 0..MaxRepairs]

(* ADR-029: final statuses are monotone.  In whatever order the provider's *)
(* events are processed, and whatever attempts are still under way, the    *)
(* row says the worst that was heard.                                      *)
StatusIsLastWord ==
  \A m \in Items : applied[m] # {} =>
    status[m] \in applied[m] /\ \A s \in applied[m] : Rank(s) <= Rank(status[m])

(* The delivery log keeps the attempt that a sent row owes its status to,  *)
(* as long as nobody has reset the counter.                                *)
SentIsLogged ==
  \A m \in Items :
    status[m] \in {"sent", "delivered"} /\ repaired[m] = 0 =>
      <<tries[m], "accepted">> \in log[m]

(* Nothing goes out to a recipient who was suppressed when it was queued,  *)
(* or for whom it was scrubbed, even while tasks are running.              *)
NothingUnwanted ==
  [][\A m \in accepted' \ accepted :
       kind[m] = "email" => m \notin late /\ m \notin scrubbed]_vars

(* Each row keeps the promise of ADR-029 as a whole: whatever tasks        *)
(* overlap, die or come late, and whatever is repaired, scrubbed and       *)
(* reported meanwhile, a row that was sent is not sent again, withheld or  *)
(* given up; it is said to be sent only if the provider took it.           *)
Fate(s) ==
  CASE s = "none"        -> "none"
    [] s = "queued"      -> "waiting"
    [] s = "dead_letter" -> "given up"
    [] s = "suppressed"  -> "withheld"
    [] OTHER             -> "out"

Promise == INSTANCE Outbox WITH
  fate   <- [m \in Items |-> Fate(status[m])],
  worst  <- [m \in Items |-> Rank(status[m])],
  taken  <- accepted,
  barred <- late \cup scrubbed
RowsKeepTheirPromise == Promise!Spec

Ended(m) == status[m] # "queued" \/ m \notin valid

(* ADR-029: a failure of broker or provider does not lose the intent.  A   *)
(* queued row that no operator had to repair is sent, refused or given up, *)
(* or its signed context ends first.                                       *)
QueuedEnds ==
  \A m \in Items :
    status[m] = "queued" /\ repaired[m] = 0 ~> Ended(m) \/ repaired[m] > 0
===============================================================================
