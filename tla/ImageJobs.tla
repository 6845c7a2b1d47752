------------------------------ MODULE ImageJobs ------------------------------
(***************************************************************************)
(* One organization's AI image jobs: image_generation/services.py (the     *)
(* request), worker.py (the run) and tasks.py (the queue and its repair).  *)
(*                                                                         *)
(* A job row is a durable queue entry with a lease.  A worker claims it in *)
(* one transaction, calls the provider outside any transaction, and writes *)
(* each outcome in a transaction of its own that checks the lease again.   *)
(* Between two of these steps the lease may run out, the job may be taken  *)
(* over or ended, and the worker may die; messages may be lost, delivered  *)
(* twice or late.                                                          *)
(*                                                                         *)
(* Time is kept as timers that Tick runs down (or, for the age, up to the  *)
(* point from which nothing changes any more), so that it has no end.      *)
(***************************************************************************)
EXTENDS Integers, FiniteSets

CONSTANTS
  Jobs,          \* idempotency keys of requests
  Workers,       \* processes that consume the `ai` queue, one run at a time
  NoWorker,
  MaxAttempts,   \* MAX_ATTEMPTS
  ActiveJobsMax, \* ACTIVE_JOBS_MAX
  Lease,         \* LEASE, in ticks
  Backoff,       \* bound: the longest wait before a retry, in ticks
  QueuedTTL,     \* QUEUED_TTL, in ticks
  IngestTimeout  \* INGEST_TIMEOUT, in ticks

ASSUME ImageJobsAssumption ==
  /\ IsFiniteSet(Jobs) /\ NoWorker \notin Workers
  /\ MaxAttempts \in Nat \ {0} /\ ActiveJobsMax \in Nat
  /\ Lease \in Nat \ {0} /\ Backoff \in Nat
  /\ QueuedTTL \in Nat /\ IngestTimeout \in Nat

VARIABLES
  state,     \* of each job: none, or its JobState
  attempts,  \* calls to the provider it has been claimed for
  wait,      \* ticks until next_attempt_at
  holder,    \* whose lease_token the row bears
  lease,     \* ticks until lease_until
  age,       \* ticks since created_at, up to Aged
  credit,    \* the CreditReservation of the job
  headroom,  \* the QuotaReservation of storage kept free for the result
  asset,     \* the MediaAsset of the job
  billed,    \* calls the provider may have charged us for
  sent,      \* jobs with a message in the `ai` queue
  run,       \* what each worker is doing
  member     \* may the requester still run the job?

rows    == <<state, attempts, wait, holder, lease, age>>
holds   == <<credit, headroom>>
outside == <<billed, sent, run, member>>
vars    == <<rows, holds, asset, outside>>

Terminal == {"succeeded", "refused", "failed"}
Active   == {"queued", "running", "ingesting"}
ActiveJobs == {j \in Jobs : state[j] \in Active}

Aged == (IF QueuedTTL > IngestTimeout THEN QueuedTTL ELSE IngestTimeout) + 1
Idle == [step |-> "idle"]

(* _leased: the check every outcome is written under.  Mutant: no check. *)
LeasedUnchecked(w) == run[w] # Idle
Leased(w) == holder[run[w].job] = w /\ state[run[w].job] \notin Terminal
-----------------------------------------------------------------------------
(* release_quota of the headroom.  Mutant: it is left to its deadline. *)
HeadroomLeft(j) == headroom' = headroom
ReleaseHeadroom(j) == headroom' = [headroom EXCEPT ![j] = "released"]

(* _finish: the job ends, and with it everything it holds.  The timers of  *)
(* a job that has ended are not read again.                                *)
Finish(j, ending) ==
  /\ ReleaseHeadroom(j)
  /\ credit' = [credit EXCEPT ![j] =
                  IF ending = "succeeded" THEN "committed" ELSE "released"]
  /\ state' = [state EXCEPT ![j] = ending]
  /\ holder' = [holder EXCEPT ![j] = NoWorker]
  /\ lease' = [lease EXCEPT ![j] = 0]
  /\ wait' = [wait EXCEPT ![j] = 0]
  /\ age' = [age EXCEPT ![j] = 0]
  /\ UNCHANGED attempts

(* Mutant: images that only wait for their scan are not counted. *)
RoomBesideIngests ==
  Cardinality({j \in Jobs : state[j] \in {"queued", "running"}}) < ActiveJobsMax
Room == Cardinality(ActiveJobs) < ActiveJobsMax

(* request_generation, under the lock of the organization.  A key that has *)
(* a job returns it.  The message is sent after the commit, or is not.     *)
Request(j) ==
  /\ state[j] = "none"
  /\ member
  /\ Room
  /\ state' = [state EXCEPT ![j] = "queued"]
  /\ headroom' = [headroom EXCEPT ![j] = "reserved"]
  /\ credit' = [credit EXCEPT ![j] = "reserved"]
  /\ sent' \in {sent, sent \cup {j}}
  /\ UNCHANGED <<attempts, wait, holder, lease, age, asset, billed, run, member>>

(* The broker delivers a message, and may deliver it again. *)
Receive(w, j) ==
  /\ run[w] = Idle
  /\ j \in sent
  /\ sent' \in {sent, sent \ {j}}

(* _claim *)
Claimable(j) == state[j] \in Active /\ wait[j] = 0 /\ lease[j] = 0
MustEnd(j) ==
  \/ state[j] = "running"  \* the lease ran out during the call
  \/ state[j] = "queued" /\ (age[j] > QueuedTTL \/ ~member)

IgnoreMessage(w, j) ==
  /\ Receive(w, j)
  /\ ~Claimable(j)
  /\ UNCHANGED <<rows, holds, asset, billed, run, member>>

GiveUp(w, j) ==
  /\ Receive(w, j)
  /\ Claimable(j)
  /\ MustEnd(j)
  /\ Finish(j, "failed")
  /\ UNCHANGED <<asset, billed, run, member>>

Claim(w, j) ==
  /\ Receive(w, j)
  /\ Claimable(j)
  /\ ~MustEnd(j)
  /\ holder' = [holder EXCEPT ![j] = w]
  /\ lease' = [lease EXCEPT ![j] = Lease]
  /\ \/ /\ state[j] = "queued"
        /\ state' = [state EXCEPT ![j] = "running"]
        /\ attempts' = [attempts EXCEPT ![j] = @ + 1]
        /\ run' = [run EXCEPT ![w] = [step |-> "calling", job |-> j]]
     \/ /\ state[j] = "ingesting"  \* attempts only lengthen the backoff now
        /\ run' = [run EXCEPT ![w] = [step |-> "scanning", job |-> j]]
        /\ UNCHANGED <<state, attempts>>
  /\ UNCHANGED <<wait, age, holds, asset, billed, member>>
-----------------------------------------------------------------------------
(* image_provider.generate: what each answer says of our bill.  "retryable" *)
(* is a request that provably did not run; "unknown", which stands for      *)
(* "invalid" too, may have been paid; "declined" is of kind quota or config. *)
Answers == {"image", "refused", "retryable", "unknown", "declined"}
MayBeBilled == {"image", "unknown"}

ProviderAnswers(w, answer) ==
  /\ run[w].step = "calling"
  /\ run' = [run EXCEPT ![w] = [step |-> answer, job |-> run[w].job]]
  /\ billed' = IF answer \in MayBeBilled
               THEN [billed EXCEPT ![run[w].job] = @ + 1] ELSE billed
  /\ UNCHANGED <<rows, holds, asset, sent, member>>

(* A run that lost its lease leaves everything as it is. *)
Discard(w) ==
  /\ run[w].step \in Answers \cup {"scanning"}
  /\ ~Leased(w)
  /\ run' = [run EXCEPT ![w] = Idle]
  /\ UNCHANGED <<rows, holds, asset, billed, sent, member>>

(* _record_provider_error.  Mutants: an unknown result is retried as well; *)
(* one call too many is made.                                              *)
RetriedKindsAndUnknown == {"retryable", "unknown"}
RetriedKinds == {"retryable"}

ExhaustedLate(j) == attempts[j] > MaxAttempts
Exhausted(j) == attempts[j] >= MaxAttempts

TryLater(j) ==
  /\ state' = [state EXCEPT ![j] = "queued"]
  /\ holder' = [holder EXCEPT ![j] = NoWorker]
  /\ lease' = [lease EXCEPT ![j] = 0]
  /\ \E ticks \in 0..Backoff : wait' = [wait EXCEPT ![j] = ticks]
  /\ UNCHANGED <<attempts, age, holds>>

RecordError(w) ==
  LET j == run[w].job IN
  /\ run[w].step \in Answers \ {"image"}
  /\ Leased(w)
  /\ \/ run[w].step \in RetriedKinds /\ ~Exhausted(j) /\ TryLater(j)
     \/ run[w].step \in RetriedKinds /\ Exhausted(j) /\ Finish(j, "failed")
     \/ run[w].step = "refused" /\ Finish(j, "refused")
     \/ run[w].step \in {"unknown", "declined"} /\ Finish(j, "failed")
  /\ run' = [run EXCEPT ![w] = Idle]
  /\ UNCHANGED <<asset, billed, sent, member>>

(* _store: the bytes become an uploaded asset with a storage hold of its   *)
(* own instead of the headroom ...                                         *)
Store(w) ==
  LET j == run[w].job IN
  /\ run[w].step = "image"
  /\ Leased(w)
  /\ member
  /\ ReleaseHeadroom(j)
  /\ asset' = [asset EXCEPT ![j] = "uploaded"]
  /\ state' = [state EXCEPT ![j] = "ingesting"]
  /\ run' = [run EXCEPT ![w] = [step |-> "scanning", job |-> j]]
  /\ UNCHANGED <<attempts, wait, holder, lease, age, credit, billed, sent, member>>

(* ... or the member has left, storage is full, or storage failed and the  *)
(* asset was rolled back.                                                  *)
StoreFails(w) ==
  /\ run[w].step = "image"
  /\ Leased(w)
  /\ Finish(run[w].job, "failed")
  /\ run' = [run EXCEPT ![w] = Idle]
  /\ UNCHANGED <<asset, billed, sent, member>>
-----------------------------------------------------------------------------
(* _ingest: process_media_asset and the end of the job in one transaction. *)
(* A deleted asset is returned as it is, and the job fails; so it does,    *)
(* with the asset rolled back, when processing refuses for another reason. *)
Ingest(w) ==
  LET j == run[w].job IN
  /\ run[w].step = "scanning"
  /\ Leased(w)
  /\ \/ /\ asset[j] = "uploaded"
        /\ asset' = [asset EXCEPT ![j] = "ready"]
        /\ Finish(j, "succeeded")
     \/ /\ asset[j] = "uploaded"
        /\ asset' = [asset EXCEPT ![j] = "rejected"]
        /\ Finish(j, "failed")
     \/ /\ UNCHANGED asset
        /\ Finish(j, "failed")
  /\ run' = [run EXCEPT ![w] = Idle]
  /\ UNCHANGED <<billed, sent, member>>

(* _ingest without its scanner: the work is rolled back, the lease let go. *)
ScannerDown(w) ==
  LET j == run[w].job IN
  /\ run[w].step = "scanning"
  /\ Leased(w)
  /\ holder' = [holder EXCEPT ![j] = NoWorker]
  /\ lease' = [lease EXCEPT ![j] = 0]
  /\ \E ticks \in 0..Backoff : wait' = [wait EXCEPT ![j] = ticks]
  /\ run' = [run EXCEPT ![w] = Idle]
  /\ UNCHANGED <<state, attempts, age, holds, asset, billed, sent, member>>

(* A run ends without writing anything: the process is killed, or storage  *)
(* or the database fails in _ingest.  A call under way may yet be billed.  *)
WorkerDies(w) ==
  /\ run[w] # Idle
  /\ run' = [run EXCEPT ![w] = Idle]
  /\ \/ billed' = billed
     \/ /\ run[w].step = "calling"
        /\ billed' = [billed EXCEPT ![run[w].job] = @ + 1]
  /\ UNCHANGED <<rows, holds, asset, sent, member>>
-----------------------------------------------------------------------------
(* reconcile_image_generation_jobs: too old an ingest is given up, any     *)
(* other job that is due is sent again.                                    *)
Stale(j) == state[j] = "ingesting" /\ age[j] > IngestTimeout

(* Mutant: only jobs in the queue are sent again. *)
DueInQueue == {j \in Jobs : Claimable(j) /\ state[j] = "queued"}
Due == {j \in Jobs : Claimable(j) /\ ~Stale(j)}

Reconcile ==
  /\ sent' = sent \cup Due
  /\ UNCHANGED <<rows, holds, asset, billed, run, member>>

ExpireIngest(j) ==
  /\ Stale(j)
  /\ lease[j] = 0
  /\ Finish(j, "failed")
  /\ UNCHANGED <<asset, outside>>

(* The broker loses a message. *)
LoseMessage(j) ==
  /\ j \in sent
  /\ sent' = sent \ {j}
  /\ UNCHANGED <<rows, holds, asset, billed, run, member>>

(* release_expired_quota_reservations: the headroom is held for an hour,   *)
(* which is longer than QUEUED_TTL; how much longer is left open.          *)
SweepHeadroom(j) ==
  /\ headroom[j] = "reserved"
  /\ age[j] > QueuedTTL
  /\ headroom' = [headroom EXCEPT ![j] = "released"]
  /\ UNCHANGED <<rows, credit, asset, outside>>

(* tombstone_media_asset on the asset of a job that has not ended *)
DeleteAsset(j) ==
  /\ asset[j] = "uploaded"
  /\ asset' = [asset EXCEPT ![j] = "deleted"]
  /\ UNCHANGED <<rows, holds, outside>>

(* The requester leaves, loses the permission or the plan, or is back. *)
MembershipChanges ==
  /\ member' = ~member
  /\ UNCHANGED <<rows, holds, asset, billed, sent, run>>

Down(n) == IF n > 0 THEN n - 1 ELSE 0
Tick ==
  /\ wait' = [j \in Jobs |-> Down(wait[j])]
  /\ lease' = [j \in Jobs |-> Down(lease[j])]
  /\ age' = [j \in Jobs |-> IF state[j] \in Active /\ age[j] < Aged
                            THEN age[j] + 1 ELSE age[j]]
  /\ UNCHANGED <<state, attempts, holder, holds, asset, outside>>
-----------------------------------------------------------------------------
Init ==
  /\ state = [j \in Jobs |-> "none"]
  /\ attempts = [j \in Jobs |-> 0]
  /\ wait = [j \in Jobs |-> 0] /\ lease = [j \in Jobs |-> 0]
  /\ age = [j \in Jobs |-> 0] /\ holder = [j \in Jobs |-> NoWorker]
  /\ credit = [j \in Jobs |-> "none"] /\ headroom = [j \in Jobs |-> "none"]
  /\ asset = [j \in Jobs |-> "none"]
  /\ billed = [j \in Jobs |-> 0]
  /\ sent = {}
  /\ run = [w \in Workers |-> Idle]
  /\ member = TRUE

Work(w) ==
  \/ \E answer \in Answers : ProviderAnswers(w, answer)
  \/ Discard(w) \/ RecordError(w) \/ Store(w) \/ StoreFails(w)
  \/ Ingest(w) \/ ScannerDown(w) \/ WorkerDies(w)

Next ==
  \/ \E j \in Jobs : Request(j)
  \/ \E w \in Workers, j \in Jobs : IgnoreMessage(w, j)
  \/ \E w \in Workers, j \in Jobs : GiveUp(w, j)
  \/ \E w \in Workers, j \in Jobs : Claim(w, j)
  \/ \E w \in Workers : Work(w)
  \/ Reconcile
  \/ \E j \in Jobs : ExpireIngest(j)
  \/ \E j \in Jobs : LoseMessage(j)
  \/ \E j \in Jobs : SweepHeadroom(j)
  \/ \E j \in Jobs : DeleteAsset(j)
  \/ MembershipChanges
  \/ Tick

(* Workers end what they started, one way or another; the beat keeps       *)
(* firing; the broker delivers to an idle worker a message that keeps      *)
(* being due; and expiry finds a moment without a lease if they recur.     *)
Fairness ==
  /\ WF_vars(Tick)
  /\ WF_vars(Reconcile)
  /\ \A w \in Workers : WF_vars(Work(w))
  /\ \A j \in Jobs : SF_vars(\E w \in Workers : GiveUp(w, j) \/ Claim(w, j))
  /\ \A j \in Jobs : SF_vars(ExpireIngest(j))

Spec     == Init /\ [][Next]_vars
FairSpec == Spec /\ Fairness
-----------------------------------------------------------------------------
TypeOK ==
  /\ state \in [Jobs -> {"none"} \cup Active \cup Terminal]
  /\ attempts \in [Jobs -> 0..MaxAttempts]
  /\ wait \in [Jobs -> 0..Backoff] /\ lease \in [Jobs -> 0..Lease]
  /\ age \in [Jobs -> 0..Aged] /\ holder \in [Jobs -> Workers \cup {NoWorker}]
  /\ credit \in [Jobs -> {"none", "reserved", "committed", "released"}]
  /\ headroom \in [Jobs -> {"none", "reserved", "released"}]
  /\ asset \in [Jobs -> {"none", "uploaded", "ready", "rejected", "deleted"}]
  /\ billed \in [Jobs -> Nat] /\ sent \subseteq Jobs /\ member \in BOOLEAN
  /\ run \in [Workers -> {Idle} \cup
                         [step : Answers \cup {"calling", "scanning"}, job : Jobs]]

(* An unknown provider result is never paid for twice (worker.py:1): of    *)
(* all the calls made for one job, by whatever workers in whatever order   *)
(* they died, at most one can appear on our bill.                          *)
NeverPaidTwice == \A j \in Jobs : billed[j] <= 1

(* A job holds storage once: the headroom until there is an asset, which   *)
(* has a hold of its own; a job that has ended holds no headroom.          *)
StorageHeldOnce ==
  \A j \in Jobs : headroom[j] = "reserved" =>
    asset[j] = "none" /\ state[j] \in {"queued", "running"}

(* An organization never has more than ACTIVE_JOBS_MAX jobs on the way,    *)
(* counting those that return to the queue.                                *)
ActiveJobsBounded == Cardinality(ActiveJobs) <= ActiveJobsMax

(* Credits are charged in the step that makes the image available, given   *)
(* back in every other ending, and an ending is final: a late answer of a  *)
(* worker that lost its lease neither charges, nor delivers, nor reopens.  *)
Promise == INSTANCE PaidOperation WITH
  Operations <- Jobs,
  price <- [j \in Jobs |->
              CASE credit[j] = "none"      -> "unasked"
                [] credit[j] = "reserved"  -> "held"
                [] credit[j] = "committed" -> "charged"
                [] credit[j] = "released"  -> "returned"],
  delivered <- [j \in Jobs |-> asset[j] = "ready"]
ChargedWhenDelivered == Promise!Spec

(* Every job comes to an end, and with it the credits it holds, although   *)
(* its reservation has no deadline: through lost messages, dying workers,  *)
(* provider and scanner outages.                                           *)
JobsEnd == \A j \in Jobs : state[j] \in Active ~> state[j] \in Terminal
=============================================================================
