--------------------------- MODULE ImageJobsProofs ---------------------------
(***************************************************************************)
(* Proofs about ImageJobs, for any number of jobs and workers and any      *)
(* durations.                                                              *)
(*                                                                         *)
(* The row is the truth and the runs follow it: before a job is claimed    *)
(* nothing runs for it and nothing has been paid; while a worker calls the *)
(* provider the row is "running" or has ended; and at most one worker is   *)
(* between sending a call and recording its answer.  From this follow the  *)
(* promises that neither the lease nor the row states by itself.           *)
(***************************************************************************)
EXTENDS ImageJobs, FiniteSetTheorems, TLAPS

Runs == [step : Answers \cup {"calling", "scanning"}, job : Jobs]

(* A run is either none or a record of Runs: the form of TypeOK that the   *)
(* steps below use.                                                        *)
LEMMA RunOfWorker ==
  ASSUME TypeOK, NEW w \in Workers, run[w] # Idle
  PROVE  run[w] \in Runs /\ run[w].job \in Jobs /\ run[w].step # "idle"
BY DEF TypeOK, Runs, Idle, Answers

LEMMA FinishType ==
  ASSUME ImageJobsAssumption, TypeOK, NEW j \in Jobs, NEW ending \in Terminal,
         Finish(j, ending)
  PROVE  /\ state' \in [Jobs -> {"none"} \cup Active \cup Terminal]
         /\ attempts' \in [Jobs -> 0..MaxAttempts]
         /\ wait' \in [Jobs -> 0..Backoff] /\ lease' \in [Jobs -> 0..Lease]
         /\ age' \in [Jobs -> 0..Aged] /\ holder' \in [Jobs -> Workers \cup {NoWorker}]
         /\ credit' \in [Jobs -> {"none", "reserved", "committed", "released"}]
         /\ headroom' \in [Jobs -> {"none", "reserved", "released"}]
BY DEF TypeOK, Finish, ReleaseHeadroom, ImageJobsAssumption, Aged

(* Before it is claimed a job has a call left, nothing runs for it and     *)
(* nothing was paid for it.                                                *)
CallLeft ==
  \A j \in Jobs : state[j] \in {"none", "queued"} => attempts[j] < MaxAttempts

UntouchedBeforeClaim ==
  \A j \in Jobs : state[j] \in {"none", "queued"} =>
    billed[j] = 0 /\ \A w \in Workers : run[w] # Idle => run[w].job # j

(* A run works on a row in the state it put it in, or on one that ended.   *)
RunFollowsRow ==
  \A w \in Workers : run[w] # Idle =>
    \/ state[run[w].job] \in Terminal
    \/ run[w].step = "scanning" /\ state[run[w].job] = "ingesting"
    \/ run[w].step # "scanning" /\ state[run[w].job] = "running"

(* From the claim until its answer is recorded a call is alone.            *)
OneCallAtATime ==
  \A v, w \in Workers :
    /\ v # w /\ run[v] # Idle /\ run[w] # Idle
    /\ run[v].step # "scanning" /\ run[w].step # "scanning"
    => run[v].job # run[w].job

(* Until the provider answers, and if it answers that the request did not  *)
(* run, nothing was paid.                                                  *)
Unbilled == {"calling"} \cup (Answers \ MayBeBilled)
UnbilledYet ==
  \A w \in Workers : run[w] # Idle /\ run[w].step \in Unbilled =>
    billed[run[w].job] = 0

(* The credits and the asset of a job that has not ended follow its state. *)
HoldFollowsRow ==
  \A j \in Jobs :
    /\ state[j] = "none" => credit[j] = "none"
    /\ state[j] \in Active => credit[j] = "reserved"
AssetFollowsRow ==
  \A j \in Jobs :
    /\ state[j] \in {"none", "queued", "running"} => asset[j] = "none"
    /\ state[j] = "ingesting" => asset[j] # "ready"

JobInvariant ==
  /\ TypeOK /\ CallLeft /\ UntouchedBeforeClaim
  /\ RunFollowsRow /\ OneCallAtATime /\ UnbilledYet /\ NeverPaidTwice
  /\ HoldFollowsRow /\ AssetFollowsRow /\ StorageHeldOnce
-----------------------------------------------------------------------------
LEMMA TypesNext ==
  ASSUME TypeOK, CallLeft, [Next]_vars
  PROVE  TypeOK'
<1> USE ImageJobsAssumption
<1>1. ASSUME NEW j \in Jobs, Request(j) PROVE TypeOK'
  BY <1>1 DEF TypeOK, Request, Active
<1>2. ASSUME NEW w \in Workers, NEW j \in Jobs, IgnoreMessage(w, j) PROVE TypeOK'
  BY <1>2 DEF TypeOK, IgnoreMessage, Receive, rows, holds
<1>3. ASSUME NEW w \in Workers, NEW j \in Jobs, GiveUp(w, j) PROVE TypeOK'
  <2>1. Finish(j, "failed") /\ sent' \subseteq Jobs
    BY <1>3 DEF GiveUp, Receive, TypeOK
  <2> QED BY <1>3, <2>1, FinishType DEF TypeOK, GiveUp, Terminal
<1>4. ASSUME NEW w \in Workers, NEW j \in Jobs, Claim(w, j) PROVE TypeOK'
  <2>1. sent' \subseteq Jobs
    BY <1>4 DEF Claim, Receive, TypeOK
  <2> QED BY <1>4, <2>1 DEF TypeOK, CallLeft, Claim, ImageJobsAssumption, Active, holds
<1>5. ASSUME NEW w \in Workers, NEW answer \in Answers, ProviderAnswers(w, answer)
      PROVE  TypeOK'
  <2>1. run[w] # Idle
    BY <1>5 DEF ProviderAnswers, Idle
  <2> QED BY <1>5, <2>1, RunOfWorker DEF TypeOK, ProviderAnswers, rows, holds
<1>6. ASSUME NEW w \in Workers, Discard(w) PROVE TypeOK'
  BY <1>6 DEF TypeOK, Discard, rows, holds
<1>7. ASSUME NEW w \in Workers, RecordError(w) PROVE TypeOK'
  <2> DEFINE j == run[w].job
  <2>1. j \in Jobs
    BY <1>7, RunOfWorker DEF RecordError, Idle, Answers
  <2>2. CASE TryLater(j)
    BY <1>7, <2>1, <2>2 DEF TypeOK, RecordError, TryLater, holds, Active
  <2>3. CASE \E ending \in Terminal : Finish(j, ending)
    BY <1>7, <2>1, <2>3, FinishType DEF TypeOK, RecordError
  <2> QED BY <1>7, <2>2, <2>3 DEF RecordError, Terminal
<1>8. ASSUME NEW w \in Workers, Store(w) PROVE TypeOK'
  <2>1. run[w].job \in Jobs
    BY <1>8, RunOfWorker DEF Store, Idle
  <2> QED BY <1>8, <2>1 DEF TypeOK, Store, ReleaseHeadroom, Active, Answers
<1>9. ASSUME NEW w \in Workers, StoreFails(w) PROVE TypeOK'
  <2>1. run[w].job \in Jobs
    BY <1>9, RunOfWorker DEF StoreFails, Idle
  <2> QED BY <1>9, <2>1, FinishType DEF TypeOK, StoreFails, Terminal
<1>10. ASSUME NEW w \in Workers, Ingest(w) PROVE TypeOK'
  <2> DEFINE j == run[w].job
  <2>1. j \in Jobs
    BY <1>10, RunOfWorker DEF Ingest, Idle
  <2>2. \E ending \in Terminal : Finish(j, ending)
    BY <1>10 DEF Ingest, Terminal
  <2>3. asset' \in [Jobs -> {"none", "uploaded", "ready", "rejected", "deleted"}]
    BY <1>10, <2>1 DEF Ingest, TypeOK
  <2> QED BY <1>10, <2>1, <2>2, <2>3, FinishType DEF TypeOK, Ingest
<1>11. ASSUME NEW w \in Workers, ScannerDown(w) PROVE TypeOK'
  <2>1. run[w].job \in Jobs
    BY <1>11, RunOfWorker DEF ScannerDown, Idle
  <2> QED BY <1>11, <2>1 DEF TypeOK, ScannerDown, ImageJobsAssumption, holds
<1>12. ASSUME NEW w \in Workers, WorkerDies(w) PROVE TypeOK'
  <2>1. run[w].job \in Jobs
    BY <1>12, RunOfWorker DEF WorkerDies
  <2> QED BY <1>12, <2>1 DEF TypeOK, WorkerDies, rows, holds
<1>13. CASE Reconcile
  BY <1>13 DEF TypeOK, Reconcile, Due, rows, holds
<1>14. ASSUME NEW j \in Jobs, ExpireIngest(j) PROVE TypeOK'
  BY <1>14, FinishType DEF TypeOK, ExpireIngest, Terminal, outside
<1>15. ASSUME NEW j \in Jobs, LoseMessage(j) PROVE TypeOK'
  BY <1>15 DEF TypeOK, LoseMessage, rows, holds
<1>16. ASSUME NEW j \in Jobs, SweepHeadroom(j) PROVE TypeOK'
  BY <1>16 DEF TypeOK, SweepHeadroom, rows, outside
<1>17. ASSUME NEW j \in Jobs, DeleteAsset(j) PROVE TypeOK'
  BY <1>17 DEF TypeOK, DeleteAsset, rows, holds, outside
<1>18. CASE MembershipChanges
  BY <1>18 DEF TypeOK, MembershipChanges, rows, holds
<1>19. CASE Tick
  BY <1>19 DEF TypeOK, Tick, Down, Aged, ImageJobsAssumption, holds, outside
<1>20. CASE UNCHANGED vars
  BY <1>20 DEF TypeOK, vars, rows, holds, outside
<1> QED BY <1>1, <1>2, <1>3, <1>4, <1>5, <1>6, <1>7, <1>8, <1>9, <1>10, <1>11, <1>12,
           <1>13, <1>14, <1>15, <1>16, <1>17, <1>18, <1>19, <1>20 DEF Next, Work
-----------------------------------------------------------------------------
LEMMA InvariantInit == Init => JobInvariant
BY ImageJobsAssumption
   DEF Init, JobInvariant, TypeOK, CallLeft, UntouchedBeforeClaim, RunFollowsRow,
       OneCallAtATime, UnbilledYet, NeverPaidTwice, HoldFollowsRow, AssetFollowsRow,
       StorageHeldOnce, ImageJobsAssumption, Aged, Idle, Active

(* Runs may end at any time.                                               *)
RunsOnlyEnd == \A w \in Workers : run'[w] = run[w] \/ run'[w] = Idle

(* A quiet step leaves the state of every job alone, starts no run and     *)
(* pays for nothing; it may let headroom go or delete an unscanned asset.  *)
Quiet ==
  /\ RunsOnlyEnd
  /\ UNCHANGED <<state, attempts, credit, billed>>
  /\ \A j \in Jobs : headroom'[j] \in {headroom[j], "released"}
  /\ \A j \in Jobs : \/ asset'[j] = asset[j]
                     \/ asset[j] = "uploaded" /\ asset'[j] = "deleted"

LEMMA QuietStep ==
  ASSUME JobInvariant, TypeOK', Quiet
  PROVE  JobInvariant'
<1> USE DEF Quiet
<1>1. /\ CallLeft' /\ UntouchedBeforeClaim' /\ NeverPaidTwice' /\ HoldFollowsRow'
      /\ AssetFollowsRow' /\ StorageHeldOnce'
  BY DEF JobInvariant, CallLeft, UntouchedBeforeClaim, NeverPaidTwice, HoldFollowsRow,
         AssetFollowsRow, StorageHeldOnce, RunsOnlyEnd
<1>2. RunFollowsRow' /\ OneCallAtATime' /\ UnbilledYet'
  BY DEF JobInvariant, RunFollowsRow, OneCallAtATime, UnbilledYet, RunsOnlyEnd
<1> QED BY <1>1, <1>2 DEF JobInvariant

(* A job that ends: no run of another job notices, and its own runs find a *)
(* row that has ended.                                                     *)
LEMMA JobEnds ==
  ASSUME JobInvariant, TypeOK', NEW j \in Jobs, NEW ending \in Terminal,
         Finish(j, ending), RunsOnlyEnd, UNCHANGED billed,
         \A k \in Jobs \ {j} : asset'[k] = asset[k]
  PROVE  JobInvariant'
<1>1. /\ state'[j] \in Terminal
      /\ headroom'[j] = "released"
      /\ \A k \in Jobs \ {j} : /\ state'[k] = state[k] /\ credit'[k] = credit[k]
                              /\ headroom'[k] = headroom[k]
      /\ attempts' = attempts
  BY DEF JobInvariant, TypeOK, Finish, ReleaseHeadroom
<1>2. state'[j] \notin Active /\ state'[j] # "none"
  BY <1>1 DEF Terminal, Active
<1>3. CallLeft' /\ UntouchedBeforeClaim' /\ NeverPaidTwice'
  BY <1>1, <1>2 DEF JobInvariant, CallLeft, UntouchedBeforeClaim, NeverPaidTwice,
                    RunsOnlyEnd, Active
<1>4. HoldFollowsRow' /\ AssetFollowsRow' /\ StorageHeldOnce'
  BY <1>1, <1>2 DEF JobInvariant, HoldFollowsRow, AssetFollowsRow, StorageHeldOnce, Active
<1>5. RunFollowsRow'
  <2> SUFFICES ASSUME NEW w \in Workers, run'[w] # Idle
               PROVE  \/ state'[run'[w].job] \in Terminal
                      \/ run'[w].step = "scanning" /\ state'[run'[w].job] = "ingesting"
                      \/ run'[w].step # "scanning" /\ state'[run'[w].job] = "running"
    BY DEF RunFollowsRow
  <2>1. run'[w] = run[w] /\ run[w] # Idle /\ run[w].job \in Jobs
    BY RunOfWorker DEF RunsOnlyEnd, JobInvariant
  <2> QED BY <1>1, <2>1 DEF JobInvariant, RunFollowsRow
<1>6. OneCallAtATime' /\ UnbilledYet'
  BY DEF JobInvariant, OneCallAtATime, UnbilledYet, RunsOnlyEnd
<1> QED BY <1>3, <1>4, <1>5, <1>6 DEF JobInvariant
-----------------------------------------------------------------------------
LEMMA InvariantRequest ==
  ASSUME JobInvariant, TypeOK', NEW j \in Jobs, Request(j)
  PROVE  JobInvariant'
<1>1. /\ state[j] = "none" /\ state'[j] = "queued" /\ credit'[j] = "reserved"
      /\ \A k \in Jobs \ {j} : /\ state'[k] = state[k] /\ credit'[k] = credit[k]
                              /\ headroom'[k] = headroom[k]
      /\ UNCHANGED <<attempts, asset, billed, run>>
  BY DEF Request, JobInvariant, TypeOK
<1>2. CallLeft' /\ UntouchedBeforeClaim' /\ NeverPaidTwice'
  BY <1>1 DEF JobInvariant, CallLeft, UntouchedBeforeClaim, NeverPaidTwice
<1>3. HoldFollowsRow' /\ AssetFollowsRow' /\ StorageHeldOnce'
  BY <1>1 DEF JobInvariant, HoldFollowsRow, AssetFollowsRow, StorageHeldOnce, Active
<1>4. \A w \in Workers : run[w] # Idle => run[w].job \in Jobs \ {j}
  BY <1>1, RunOfWorker DEF JobInvariant, UntouchedBeforeClaim
<1>5. RunFollowsRow' /\ OneCallAtATime' /\ UnbilledYet'
  BY <1>1, <1>4 DEF JobInvariant, RunFollowsRow, OneCallAtATime, UnbilledYet
<1> QED BY <1>2, <1>3, <1>5 DEF JobInvariant

(* The claim of a queued job starts the only run there is for it.          *)
LEMMA InvariantClaim ==
  ASSUME JobInvariant, TypeOK', NEW w \in Workers, NEW j \in Jobs, Claim(w, j)
  PROVE  JobInvariant'
<1>1. /\ run[w] = Idle
      /\ \A v \in Workers \ {w} : run'[v] = run[v]
      /\ UNCHANGED <<credit, headroom, asset, billed>>
  BY DEF Claim, Receive, JobInvariant, TypeOK, holds
<1>2. CASE state[j] = "queued"
  <2>1. /\ run'[w] = [step |-> "calling", job |-> j]
        /\ state'[j] = "running"
        /\ \A k \in Jobs \ {j} : state'[k] = state[k] /\ attempts'[k] = attempts[k]
    BY <1>2 DEF Claim, JobInvariant, TypeOK
  <2>2. billed[j] = 0 /\ \A v \in Workers : run[v] # Idle => run[v].job # j
    BY <1>2 DEF JobInvariant, UntouchedBeforeClaim
  <2>3. run'[w] # Idle /\ run'[w].job = j /\ run'[w].step = "calling"
    BY <2>1 DEF Idle
  <2>4. CallLeft' /\ UntouchedBeforeClaim' /\ NeverPaidTwice'
    BY <1>1, <2>1, <2>3 DEF JobInvariant, CallLeft, UntouchedBeforeClaim, NeverPaidTwice
  <2>5. HoldFollowsRow' /\ AssetFollowsRow' /\ StorageHeldOnce'
    BY <1>1, <1>2, <2>1 DEF JobInvariant, HoldFollowsRow, AssetFollowsRow,
                            StorageHeldOnce, Active
  <2>6. \A v \in Workers : run[v] # Idle => run[v].job \in Jobs \ {j}
    BY <2>2, RunOfWorker DEF JobInvariant
  <2>7. RunFollowsRow' /\ OneCallAtATime' /\ UnbilledYet'
    BY <1>1, <2>1, <2>2, <2>3, <2>6 DEF JobInvariant, RunFollowsRow, OneCallAtATime, UnbilledYet
  <2> QED BY <2>4, <2>5, <2>7 DEF JobInvariant
<1>3. CASE state[j] = "ingesting"
  <2>1. run'[w] = [step |-> "scanning", job |-> j] /\ UNCHANGED <<state, attempts>>
    BY <1>3 DEF Claim, JobInvariant, TypeOK
  <2>2. run'[w] # Idle /\ run'[w].job = j /\ run'[w].step = "scanning"
    BY <2>1 DEF Idle
  <2>3. CallLeft' /\ UntouchedBeforeClaim' /\ NeverPaidTwice'
    BY <1>1, <1>3, <2>1, <2>2 DEF JobInvariant, CallLeft, UntouchedBeforeClaim, NeverPaidTwice
  <2>4. HoldFollowsRow' /\ AssetFollowsRow' /\ StorageHeldOnce'
    BY <1>1, <2>1 DEF JobInvariant, HoldFollowsRow, AssetFollowsRow, StorageHeldOnce
  <2>5. RunFollowsRow' /\ OneCallAtATime' /\ UnbilledYet'
    BY <1>1, <1>3, <2>1, <2>2 DEF JobInvariant, RunFollowsRow, OneCallAtATime,
                                  UnbilledYet, Unbilled, Answers
  <2> QED BY <2>3, <2>4, <2>5 DEF JobInvariant
<1> QED BY <1>2, <1>3 DEF Claim

(* The one step at which a job is billed: its call was alone and unbilled. *)
LEMMA InvariantBilled ==
  ASSUME JobInvariant, TypeOK', NEW w \in Workers, run[w].step = "calling",
         UNCHANGED <<state, attempts, credit, headroom, asset>>,
         billed' = [billed EXCEPT ![run[w].job] = @ + 1],
         \A v \in Workers \ {w} : run'[v] = run[v],
         \/ run'[w] = Idle
         \/ \E answer \in MayBeBilled : run'[w] = [step |-> answer, job |-> run[w].job]
  PROVE  JobInvariant'
<1> DEFINE j == run[w].job
<1>1. run[w] # Idle /\ j \in Jobs
  BY RunOfWorker DEF JobInvariant, Idle
<1>2. billed[j] = 0 /\ state[j] \in {"running"} \cup Terminal
  BY <1>1 DEF JobInvariant, UnbilledYet, Unbilled, RunFollowsRow
<1>3. billed'[j] = 1 /\ \A k \in Jobs \ {j} : billed'[k] = billed[k]
  BY <1>1, <1>2 DEF JobInvariant, TypeOK
<1>4. run'[w] # Idle => run'[w].job = j /\ run'[w].step \in MayBeBilled
  BY DEF MayBeBilled
<1>5. CallLeft' /\ UntouchedBeforeClaim' /\ NeverPaidTwice'
  BY <1>1, <1>2, <1>3, <1>4 DEF JobInvariant, CallLeft, UntouchedBeforeClaim,
                                NeverPaidTwice, Terminal
<1>6. HoldFollowsRow' /\ AssetFollowsRow' /\ StorageHeldOnce'
  BY DEF JobInvariant, HoldFollowsRow, AssetFollowsRow, StorageHeldOnce
<1>7. \A v \in Workers \ {w} : run[v] # Idle /\ run[v].step # "scanning" =>
                               run[v].job \in Jobs \ {j}
  BY <1>1, RunOfWorker DEF JobInvariant, OneCallAtATime
<1>8. RunFollowsRow' /\ OneCallAtATime'
  BY <1>1, <1>4, <1>7 DEF JobInvariant, RunFollowsRow, OneCallAtATime, MayBeBilled
<1>9. UnbilledYet'
  BY <1>3, <1>4, <1>7 DEF JobInvariant, UnbilledYet, Unbilled, MayBeBilled, Answers
<1> QED BY <1>5, <1>6, <1>8, <1>9 DEF JobInvariant

LEMMA InvariantAnswer ==
  ASSUME JobInvariant, TypeOK', NEW w \in Workers, NEW answer \in Answers,
         ProviderAnswers(w, answer)
  PROVE  JobInvariant'
<1>1. /\ run[w].step = "calling"
      /\ run'[w] = [step |-> answer, job |-> run[w].job]
      /\ \A v \in Workers \ {w} : run'[v] = run[v]
      /\ UNCHANGED <<state, attempts, credit, headroom, asset>>
  BY DEF ProviderAnswers, JobInvariant, TypeOK, rows, holds
<1>2. CASE answer \in MayBeBilled
  <2>1. billed' = [billed EXCEPT ![run[w].job] = @ + 1]
    BY <1>2 DEF ProviderAnswers
  <2> QED BY <1>1, <1>2, <2>1, InvariantBilled
<1>3. CASE answer \notin MayBeBilled
  <2>1. billed' = billed
    BY <1>3 DEF ProviderAnswers
  <2>2. run[w] # Idle /\ run'[w] # Idle /\ run'[w].job = run[w].job /\ run'[w].step = answer
    BY <1>1 DEF Idle
  <2>3. CallLeft' /\ UntouchedBeforeClaim' /\ NeverPaidTwice'
    BY <1>1, <2>1, <2>2 DEF JobInvariant, CallLeft, UntouchedBeforeClaim, NeverPaidTwice
  <2>4. HoldFollowsRow' /\ AssetFollowsRow' /\ StorageHeldOnce'
    BY <1>1 DEF JobInvariant, HoldFollowsRow, AssetFollowsRow, StorageHeldOnce
  <2>5. RunFollowsRow' /\ OneCallAtATime' /\ UnbilledYet'
    BY <1>1, <2>1, <2>2 DEF JobInvariant, RunFollowsRow, OneCallAtATime, UnbilledYet,
                            Unbilled, Answers
  <2> QED BY <2>3, <2>4, <2>5 DEF JobInvariant
<1> QED BY <1>2, <1>3

(* Only an answer that says that the call did not run sends a job back to  *)
(* the queue; and the run that says so was the only one.                   *)
LEMMA InvariantTryLater ==
  ASSUME JobInvariant, TypeOK', NEW w \in Workers, RecordError(w),
         run[w].step \in RetriedKinds, ~Exhausted(run[w].job), TryLater(run[w].job)
  PROVE  JobInvariant'
<1> DEFINE j == run[w].job
<1>1. run[w] # Idle /\ j \in Jobs /\ run[w].step = "retryable"
  BY RunOfWorker DEF JobInvariant, Idle, RetriedKinds
<1>2. state[j] = "running" /\ billed[j] = 0 /\ attempts[j] < MaxAttempts
  BY <1>1, ImageJobsAssumption
     DEF JobInvariant, RunFollowsRow, RecordError, Leased, UnbilledYet, Unbilled, Answers,
         MayBeBilled, Exhausted, TypeOK, ImageJobsAssumption
<1>3. \A v \in Workers \ {w} : run[v] # Idle => run[v].job \in Jobs \ {j}
  <2> SUFFICES ASSUME NEW v \in Workers \ {w}, run[v] # Idle, run[v].job = j PROVE FALSE
    BY RunOfWorker DEF JobInvariant
  <2>1. run[v].step # "scanning"
    BY <1>2 DEF JobInvariant, RunFollowsRow, Terminal
  <2> QED BY <1>1, <2>1 DEF JobInvariant, OneCallAtATime
<1>4. /\ state'[j] = "queued"
      /\ \A k \in Jobs \ {j} : state'[k] = state[k]
      /\ run'[w] = Idle /\ \A v \in Workers \ {w} : run'[v] = run[v]
      /\ UNCHANGED <<attempts, credit, headroom, asset, billed>>
  BY <1>1 DEF TryLater, RecordError, JobInvariant, TypeOK, holds
<1>5. CallLeft' /\ UntouchedBeforeClaim' /\ NeverPaidTwice'
  BY <1>2, <1>3, <1>4 DEF JobInvariant, CallLeft, UntouchedBeforeClaim, NeverPaidTwice
<1>6. HoldFollowsRow' /\ AssetFollowsRow' /\ StorageHeldOnce'
  BY <1>2, <1>4 DEF JobInvariant, HoldFollowsRow, AssetFollowsRow, StorageHeldOnce, Active
<1>7. RunFollowsRow' /\ OneCallAtATime' /\ UnbilledYet'
  BY <1>3, <1>4 DEF JobInvariant, RunFollowsRow, OneCallAtATime, UnbilledYet
<1> QED BY <1>5, <1>6, <1>7 DEF JobInvariant

LEMMA InvariantStore ==
  ASSUME JobInvariant, TypeOK', NEW w \in Workers, Store(w)
  PROVE  JobInvariant'
<1> DEFINE j == run[w].job
<1>1. run[w] # Idle /\ j \in Jobs /\ run[w].step = "image"
  BY RunOfWorker DEF JobInvariant, Idle, Store
<1>2. state[j] = "running"
  BY <1>1 DEF JobInvariant, RunFollowsRow, Store, Leased
<1>3. \A v \in Workers \ {w} : run[v] # Idle => run[v].job \in Jobs \ {j}
  <2> SUFFICES ASSUME NEW v \in Workers \ {w}, run[v] # Idle, run[v].job = j PROVE FALSE
    BY RunOfWorker DEF JobInvariant
  <2>1. run[v].step # "scanning"
    BY <1>2 DEF JobInvariant, RunFollowsRow, Terminal
  <2> QED BY <1>1, <2>1 DEF JobInvariant, OneCallAtATime
<1>4. /\ state'[j] = "ingesting" /\ asset'[j] = "uploaded" /\ headroom'[j] = "released"
      /\ \A k \in Jobs \ {j} : /\ state'[k] = state[k] /\ asset'[k] = asset[k]
                              /\ headroom'[k] = headroom[k]
      /\ run'[w] = [step |-> "scanning", job |-> j]
      /\ \A v \in Workers \ {w} : run'[v] = run[v]
      /\ UNCHANGED <<attempts, credit, billed>>
  BY <1>1 DEF Store, ReleaseHeadroom, JobInvariant, TypeOK
<1>5. run'[w] # Idle /\ run'[w].job = j /\ run'[w].step = "scanning"
  BY <1>4 DEF Idle
<1>6. CallLeft' /\ UntouchedBeforeClaim' /\ NeverPaidTwice'
  BY <1>3, <1>4, <1>5 DEF JobInvariant, CallLeft, UntouchedBeforeClaim, NeverPaidTwice
<1>7. HoldFollowsRow' /\ AssetFollowsRow' /\ StorageHeldOnce'
  BY <1>2, <1>4 DEF JobInvariant, HoldFollowsRow, AssetFollowsRow, StorageHeldOnce, Active
<1>8. RunFollowsRow' /\ OneCallAtATime' /\ UnbilledYet'
  BY <1>3, <1>4, <1>5 DEF JobInvariant, RunFollowsRow, OneCallAtATime, UnbilledYet,
                          Unbilled, Answers
<1> QED BY <1>6, <1>7, <1>8 DEF JobInvariant
-----------------------------------------------------------------------------
LEMMA InvariantNext == JobInvariant /\ [Next]_vars => JobInvariant'
<1> SUFFICES ASSUME JobInvariant, [Next]_vars PROVE JobInvariant'
  OBVIOUS
<1>0. TypeOK /\ TypeOK'
  BY TypesNext DEF JobInvariant
<1>1. ASSUME NEW j \in Jobs, Request(j) PROVE JobInvariant'
  BY <1>0, <1>1, InvariantRequest
<1>2. ASSUME NEW w \in Workers, NEW j \in Jobs, IgnoreMessage(w, j) PROVE JobInvariant'
  <2>1. Quiet
    BY <1>0, <1>2 DEF Quiet, IgnoreMessage, RunsOnlyEnd, rows, holds
  <2> QED BY <1>0, <2>1, QuietStep
<1>3. ASSUME NEW w \in Workers, NEW j \in Jobs, GiveUp(w, j) PROVE JobInvariant'
  BY <1>0, <1>3, JobEnds DEF GiveUp, RunsOnlyEnd, Terminal
<1>4. ASSUME NEW w \in Workers, NEW j \in Jobs, Claim(w, j) PROVE JobInvariant'
  BY <1>0, <1>4, InvariantClaim
<1>5. ASSUME NEW w \in Workers, NEW answer \in Answers, ProviderAnswers(w, answer)
      PROVE  JobInvariant'
  BY <1>0, <1>5, InvariantAnswer
<1>6. ASSUME NEW w \in Workers, Discard(w) PROVE JobInvariant'
  <2>1. Quiet
    BY <1>0, <1>6 DEF Quiet, Discard, RunsOnlyEnd, rows, holds, TypeOK
  <2> QED BY <1>0, <2>1, QuietStep
<1>7. ASSUME NEW w \in Workers, RecordError(w) PROVE JobInvariant'
  <2>1. run[w].job \in Jobs
    BY <1>0, <1>7, RunOfWorker DEF RecordError, Idle, Answers
  <2>2. RunsOnlyEnd /\ UNCHANGED <<asset, billed>>
    BY <1>0, <1>7 DEF RecordError, RunsOnlyEnd, TypeOK
  <2>3. \/ run[w].step \in RetriedKinds /\ ~Exhausted(run[w].job) /\ TryLater(run[w].job)
        \/ \E ending \in Terminal : Finish(run[w].job, ending)
    BY <1>7 DEF RecordError, Terminal
  <2> QED BY <1>0, <1>7, <2>1, <2>2, <2>3, InvariantTryLater, JobEnds
<1>8. ASSUME NEW w \in Workers, Store(w) PROVE JobInvariant'
  BY <1>0, <1>8, InvariantStore
<1>9. ASSUME NEW w \in Workers, StoreFails(w) PROVE JobInvariant'
  <2>1. run[w].job \in Jobs
    BY <1>0, <1>9, RunOfWorker DEF StoreFails, Idle
  <2> QED BY <1>0, <1>9, <2>1, JobEnds DEF StoreFails, RunsOnlyEnd, Terminal, TypeOK
<1>10. ASSUME NEW w \in Workers, Ingest(w) PROVE JobInvariant'
  <2>1. run[w].job \in Jobs
    BY <1>0, <1>10, RunOfWorker DEF Ingest, Idle
  <2>2. /\ \E ending \in Terminal : Finish(run[w].job, ending)
        /\ \A k \in Jobs \ {run[w].job} : asset'[k] = asset[k]
        /\ RunsOnlyEnd /\ UNCHANGED billed
    BY <1>0, <1>10, <2>1 DEF Ingest, RunsOnlyEnd, Terminal, TypeOK
  <2> QED BY <1>0, <2>1, <2>2, JobEnds
<1>11. ASSUME NEW w \in Workers, ScannerDown(w) PROVE JobInvariant'
  <2>1. Quiet
    BY <1>0, <1>11 DEF Quiet, ScannerDown, RunsOnlyEnd, holds, TypeOK
  <2> QED BY <1>0, <2>1, QuietStep
<1>12. ASSUME NEW w \in Workers, WorkerDies(w) PROVE JobInvariant'
  <2>1. /\ run'[w] = Idle /\ \A v \in Workers \ {w} : run'[v] = run[v]
        /\ UNCHANGED <<state, attempts, credit, headroom, asset>>
    BY <1>0, <1>12 DEF WorkerDies, TypeOK, rows, holds
  <2>2. CASE billed' = billed
    <3>1. Quiet
      BY <2>1, <2>2 DEF Quiet, RunsOnlyEnd
    <3> QED BY <1>0, <3>1, QuietStep
  <2>3. CASE run[w].step = "calling" /\ billed' = [billed EXCEPT ![run[w].job] = @ + 1]
    BY <1>0, <2>1, <2>3, InvariantBilled
  <2> QED BY <1>12, <2>2, <2>3 DEF WorkerDies
<1>13. CASE Reconcile
  <2>1. Quiet
    BY <1>0, <1>13 DEF Quiet, Reconcile, RunsOnlyEnd, rows, holds
  <2> QED BY <1>0, <2>1, QuietStep
<1>14. ASSUME NEW j \in Jobs, ExpireIngest(j) PROVE JobInvariant'
  BY <1>0, <1>14, JobEnds DEF ExpireIngest, RunsOnlyEnd, Terminal, outside
<1>15. ASSUME NEW j \in Jobs, LoseMessage(j) PROVE JobInvariant'
  <2>1. Quiet
    BY <1>0, <1>15 DEF Quiet, LoseMessage, RunsOnlyEnd, rows, holds
  <2> QED BY <1>0, <2>1, QuietStep
<1>16. ASSUME NEW j \in Jobs, SweepHeadroom(j) PROVE JobInvariant'
  <2>1. Quiet
    BY <1>0, <1>16 DEF Quiet, SweepHeadroom, RunsOnlyEnd, rows, outside, TypeOK
  <2> QED BY <1>0, <2>1, QuietStep
<1>17. ASSUME NEW j \in Jobs, DeleteAsset(j) PROVE JobInvariant'
  <2>1. Quiet
    BY <1>0, <1>17 DEF Quiet, DeleteAsset, RunsOnlyEnd, rows, holds, outside, TypeOK
  <2> QED BY <1>0, <2>1, QuietStep
<1>18. CASE MembershipChanges
  <2>1. Quiet
    BY <1>0, <1>18 DEF Quiet, MembershipChanges, RunsOnlyEnd, rows, holds
  <2> QED BY <1>0, <2>1, QuietStep
<1>19. CASE Tick
  <2>1. Quiet
    BY <1>0, <1>19 DEF Quiet, Tick, RunsOnlyEnd, holds, outside
  <2> QED BY <1>0, <2>1, QuietStep
<1>20. CASE UNCHANGED vars
  <2>1. Quiet
    BY <1>0, <1>20 DEF Quiet, vars, rows, holds, outside, RunsOnlyEnd
  <2> QED BY <1>0, <2>1, QuietStep
<1> QED BY <1>1, <1>2, <1>3, <1>4, <1>5, <1>6, <1>7, <1>8, <1>9, <1>10, <1>11, <1>12,
           <1>13, <1>14, <1>15, <1>16, <1>17, <1>18, <1>19, <1>20 DEF Next, Work

(* Only a request puts a job on the way that was not.                      *)
LEMMA BecomesActive ==
  ASSUME JobInvariant, [Next]_vars, NEW k \in Jobs,
         state[k] \notin Active, state'[k] \in Active
  PROVE  Request(k)
<1>0. TypeOK
  BY DEF JobInvariant
<1>1. ASSUME NEW j \in Jobs, NEW ending \in Terminal, Finish(j, ending) PROVE FALSE
  BY <1>0, <1>1 DEF TypeOK, Finish, Terminal, Active
<1>2. ASSUME UNCHANGED state PROVE FALSE
  BY <1>2
<1>3. ASSUME NEW j \in Jobs, j # k, Request(j) PROVE FALSE
  BY <1>0, <1>3 DEF TypeOK, Request
<1>4. ASSUME NEW w \in Workers, NEW j \in Jobs, Claim(w, j) PROVE FALSE
  BY <1>0, <1>4 DEF TypeOK, Claim, Active
<1>5. ASSUME NEW w \in Workers, RecordError(w) PROVE FALSE
  <2>1. run[w] # Idle /\ run[w].job \in Jobs /\ run[w].step # "scanning"
    BY <1>0, <1>5, RunOfWorker DEF RecordError, Idle, Answers
  <2>2. state[run[w].job] = "running"
    BY <1>5, <2>1 DEF JobInvariant, RunFollowsRow, RecordError, Leased
  <2>3. CASE TryLater(run[w].job)
    BY <1>0, <2>1, <2>2, <2>3 DEF TypeOK, TryLater, Active
  <2> QED BY <1>1, <1>5, <2>1, <2>3 DEF RecordError, Terminal
<1>6. ASSUME NEW w \in Workers, Store(w) PROVE FALSE
  <2>1. run[w] # Idle /\ run[w].job \in Jobs
    BY <1>0, <1>6, RunOfWorker DEF Store, Idle
  <2>2. state[run[w].job] = "running"
    BY <1>6, <2>1 DEF JobInvariant, RunFollowsRow, Store, Leased
  <2> QED BY <1>0, <1>6, <2>1, <2>2 DEF TypeOK, Store, Active
<1>7. ASSUME NEW w \in Workers, StoreFails(w) \/ Ingest(w) PROVE FALSE
  <2>1. run[w].job \in Jobs
    BY <1>0, <1>7, RunOfWorker DEF StoreFails, Ingest, Idle
  <2> QED BY <1>1, <1>7, <2>1 DEF StoreFails, Ingest, Terminal
<1>8. ASSUME NEW w \in Workers, NEW j \in Jobs, IgnoreMessage(w, j) \/ GiveUp(w, j)
      PROVE  FALSE
  BY <1>1, <1>2, <1>8 DEF IgnoreMessage, GiveUp, Terminal, rows
<1>9. ASSUME NEW w \in Workers,
             \/ \E answer \in Answers : ProviderAnswers(w, answer)
             \/ Discard(w) \/ ScannerDown(w) \/ WorkerDies(w)
      PROVE  FALSE
  BY <1>2, <1>9 DEF ProviderAnswers, Discard, ScannerDown, WorkerDies, rows
<1>10. ASSUME NEW j \in Jobs,
              ExpireIngest(j) \/ LoseMessage(j) \/ SweepHeadroom(j) \/ DeleteAsset(j)
       PROVE  FALSE
  BY <1>1, <1>2, <1>10 DEF ExpireIngest, LoseMessage, SweepHeadroom, DeleteAsset, Terminal, rows
<1>11. ASSUME Reconcile \/ MembershipChanges \/ Tick \/ UNCHANGED vars PROVE FALSE
  BY <1>2, <1>11 DEF Reconcile, MembershipChanges, Tick, vars, rows
<1> QED BY <1>3, <1>4, <1>5, <1>6, <1>7, <1>8, <1>9, <1>10, <1>11 DEF Next, Work

LEMMA ActiveJobsNext ==
  ASSUME JobInvariant, ActiveJobsBounded, [Next]_vars
  PROVE  ActiveJobsBounded'
<1>1. IsFiniteSet(ActiveJobs) /\ IsFiniteSet(ActiveJobs')
  BY ImageJobsAssumption, FS_Subset DEF ActiveJobs, ImageJobsAssumption
<1>2. CASE \E k \in Jobs : state[k] \notin Active /\ state'[k] \in Active
  <2>1. PICK k \in Jobs : state[k] \notin Active /\ Request(k)
    BY <1>2, BecomesActive
  <2>2. ActiveJobs' = ActiveJobs \cup {k} /\ k \notin ActiveJobs
    BY <2>1 DEF JobInvariant, TypeOK, Request, ActiveJobs, Active
  <2>3. Cardinality(ActiveJobs') = Cardinality(ActiveJobs) + 1
    BY <1>1, <2>2, FS_AddElement
  <2>4. Cardinality(ActiveJobs) < ActiveJobsMax /\ Cardinality(ActiveJobs) \in Nat
    BY <1>1, <2>1, FS_CardinalityType DEF Request, Room
  <2> QED BY <2>3, <2>4, ImageJobsAssumption DEF ActiveJobsBounded, ImageJobsAssumption
<1>3. CASE \A k \in Jobs : state'[k] \in Active => state[k] \in Active
  <2>1. ActiveJobs' \subseteq ActiveJobs
    BY <1>3 DEF ActiveJobs
  <2>2. /\ Cardinality(ActiveJobs') \in Nat /\ Cardinality(ActiveJobs) \in Nat
        /\ Cardinality(ActiveJobs') <= Cardinality(ActiveJobs)
    BY <1>1, <2>1, FS_Subset, FS_CardinalityType
  <2> QED BY <2>2, ImageJobsAssumption DEF ActiveJobsBounded, ImageJobsAssumption
<1> QED BY <1>2, <1>3

LEMMA ActiveJobsInit == Init => ActiveJobsBounded
<1> SUFFICES ASSUME Init PROVE ActiveJobsBounded
  OBVIOUS
<1>1. ActiveJobs = {}
  BY DEF Init, ActiveJobs, Active
<1> QED BY <1>1, FS_EmptySet, ImageJobsAssumption DEF ActiveJobsBounded, ImageJobsAssumption
-----------------------------------------------------------------------------
(* The invariant holds of every state the jobs can be in. *)
THEOREM Invariance == Spec => []JobInvariant
BY InvariantInit, InvariantNext, PTL DEF Spec

(* Types are correct, among them that a job is sent to the provider at     *)
(* most MAX_ATTEMPTS times (worker.py:231).                                *)
THEOREM TypeCorrect == Spec => []TypeOK
<1>1. JobInvariant => TypeOK
  BY DEF JobInvariant
<1> QED BY <1>1, Invariance, PTL

(* A job holds storage once, from its request to its end or its upload.    *)
THEOREM StorageIsHeldOnce == Spec => []StorageHeldOnce
<1>1. JobInvariant => StorageHeldOnce
  BY DEF JobInvariant
<1> QED BY <1>1, Invariance, PTL

(* An unknown provider result is never paid for twice (worker.py:1), for   *)
(* any number of workers, jobs, attempts and any lease.                    *)
THEOREM UnknownResultsArePaidOnce == Spec => []NeverPaidTwice
<1>1. JobInvariant => NeverPaidTwice
  BY DEF JobInvariant
<1> QED BY <1>1, Invariance, PTL

(* An organization never has more than ACTIVE_JOBS_MAX jobs on the way     *)
(* (services.py:182), although jobs return to the queue by themselves.     *)
THEOREM JobsOnTheWayAreBounded == Spec => []ActiveJobsBounded
<1>1. JobInvariant /\ ActiveJobsBounded /\ [Next]_vars => ActiveJobsBounded'
  BY ActiveJobsNext
<1> QED BY <1>1, ActiveJobsInit, Invariance, PTL DEF Spec
-----------------------------------------------------------------------------
(* The price of a job as the customer sees it, and whether it was delivered *)
Price(held) ==
  CASE held = "none" -> "unasked" [] held = "reserved" -> "held"
    [] held = "committed" -> "charged" [] held = "released" -> "returned"

PriceNow == [j \in Jobs |-> Price(credit[j])]
DeliveredNow == [j \in Jobs |-> asset[j] = "ready"]

(* A step that moves no credit and makes no image ready shows nothing.     *)
LEMMA Unseen ==
  ASSUME UNCHANGED credit,
         \A j \in Jobs : (asset'[j] = "ready") = (asset[j] = "ready")
  PROVE  UNCHANGED <<PriceNow, DeliveredNow>>
BY DEF PriceNow, DeliveredNow

(* The three ways in which a job is seen to move.                          *)
LEMMA SeenAsRequest ==
  ASSUME TypeOK, NEW j \in Jobs, credit[j] = "none",
         credit' = [credit EXCEPT ![j] = "reserved"], UNCHANGED asset
  PROVE  /\ PriceNow[j] = "unasked"
         /\ PriceNow' = [PriceNow EXCEPT ![j] = "held"]
         /\ UNCHANGED DeliveredNow
BY DEF TypeOK, PriceNow, DeliveredNow, Price

LEMMA SeenAsReturn ==
  ASSUME TypeOK, NEW j \in Jobs, credit[j] = "reserved",
         credit' = [credit EXCEPT ![j] = "released"],
         \A k \in Jobs : (asset'[k] = "ready") = (asset[k] = "ready")
  PROVE  /\ PriceNow[j] = "held"
         /\ PriceNow' = [PriceNow EXCEPT ![j] = "returned"]
         /\ UNCHANGED DeliveredNow
BY DEF TypeOK, PriceNow, DeliveredNow, Price

LEMMA SeenAsDelivery ==
  ASSUME TypeOK, NEW j \in Jobs, credit[j] = "reserved",
         credit' = [credit EXCEPT ![j] = "committed"],
         asset' = [asset EXCEPT ![j] = "ready"]
  PROVE  /\ PriceNow[j] = "held"
         /\ PriceNow' = [PriceNow EXCEPT ![j] = "charged"]
         /\ DeliveredNow' = [DeliveredNow EXCEPT ![j] = TRUE]
<1>1. /\ PriceNow[j] = "held" /\ PriceNow' = [PriceNow EXCEPT ![j] = "charged"]
  BY DEF TypeOK, PriceNow, Price
<1>2. DeliveredNow' = [DeliveredNow EXCEPT ![j] = TRUE]
  BY DEF TypeOK, DeliveredNow
<1> QED BY <1>1, <1>2

(* Every step of the jobs is a step of the promise, or shows nothing.      *)
LEMMA PromiseStep == JobInvariant /\ [Next]_vars => [Promise!Next]_(Promise!promiseVars)
<1> SUFFICES ASSUME JobInvariant, [Next]_vars
             PROVE  Promise!Next \/ UNCHANGED <<PriceNow, DeliveredNow>>
  BY DEF Promise!promiseVars, PriceNow, DeliveredNow, Price
<1>0. TypeOK
  BY DEF JobInvariant
<1>a. ASSUME NEW j \in Jobs, Promise!Request(j) \/ Promise!Deliver(j) \/ Promise!GiveBack(j)
      PROVE  Promise!Next
  BY <1>a DEF Promise!Next
<1>1. ASSUME NEW j \in Jobs, state[j] \in Active, NEW ending \in {"failed", "refused"},
             Finish(j, ending), \A k \in Jobs : (asset'[k] = "ready") = (asset[k] = "ready")
      PROVE  Promise!Next
  <2>1. credit[j] = "reserved" /\ credit' = [credit EXCEPT ![j] = "released"]
    BY <1>1 DEF JobInvariant, HoldFollowsRow, Finish
  <2>2. Promise!GiveBack(j)
    BY <1>0, <1>1, <2>1, SeenAsReturn DEF Promise!GiveBack, PriceNow, DeliveredNow, Price
  <2> QED BY <1>a, <2>2
<1>2. ASSUME NEW j \in Jobs, Request(j) PROVE Promise!Next
  <2>1. credit[j] = "none" /\ credit' = [credit EXCEPT ![j] = "reserved"] /\ UNCHANGED asset
    BY <1>2 DEF JobInvariant, HoldFollowsRow, Request
  <2>2. Promise!Request(j)
    BY <1>0, <2>1, SeenAsRequest DEF Promise!Request, PriceNow, DeliveredNow, Price
  <2> QED BY <1>a, <2>2
<1>3. ASSUME NEW w \in Workers, NEW j \in Jobs, GiveUp(w, j) PROVE Promise!Next
  BY <1>1, <1>3 DEF GiveUp, Claimable
<1>4. ASSUME NEW w \in Workers, Leased(w), run[w] # Idle
      PROVE  run[w].job \in Jobs /\ state[run[w].job] \in Active
  BY <1>0, <1>4, RunOfWorker DEF JobInvariant, RunFollowsRow, Leased, Active
<1>5. ASSUME NEW w \in Workers, RecordError(w)
      PROVE  Promise!Next \/ UNCHANGED <<PriceNow, DeliveredNow>>
  <2>1. run[w].job \in Jobs /\ state[run[w].job] \in Active
    BY <1>4, <1>5 DEF RecordError, Idle, Answers
  <2>2. CASE TryLater(run[w].job)
    BY <1>5, <2>2, Unseen DEF RecordError, TryLater, holds
  <2>3. CASE \E ending \in {"failed", "refused"} : Finish(run[w].job, ending)
    BY <1>1, <1>5, <2>1, <2>3 DEF RecordError
  <2> QED BY <1>5, <2>2, <2>3 DEF RecordError
<1>6. ASSUME NEW w \in Workers, Store(w) PROVE UNCHANGED <<PriceNow, DeliveredNow>>
  <2>1. run[w] # Idle /\ run[w].job \in Jobs /\ run[w].step = "image"
    BY <1>4, <1>6 DEF Store, Idle
  <2>2. asset[run[w].job] = "none"
    BY <1>6, <2>1 DEF JobInvariant, RunFollowsRow, AssetFollowsRow, Store, Leased
  <2>3. \A k \in Jobs : (asset'[k] = "ready") = (asset[k] = "ready")
    BY <1>0, <1>6, <2>1, <2>2 DEF Store, TypeOK
  <2> QED BY <1>6, <2>3, Unseen DEF Store
<1>7. ASSUME NEW w \in Workers, StoreFails(w) PROVE Promise!Next
  <2>1. run[w].job \in Jobs /\ state[run[w].job] \in Active
    BY <1>4, <1>7 DEF StoreFails, Idle
  <2> QED BY <1>1, <1>7, <2>1 DEF StoreFails
<1>b. ASSUME NEW j \in Jobs, state[j] \in Active, Finish(j, "succeeded"),
             asset' = [asset EXCEPT ![j] = "ready"]
      PROVE  Promise!Next
  <2>1. credit[j] = "reserved" /\ credit' = [credit EXCEPT ![j] = "committed"]
    BY <1>b DEF JobInvariant, HoldFollowsRow, Finish
  <2>2. Promise!Deliver(j)
    BY <1>0, <1>b, <2>1, SeenAsDelivery DEF Promise!Deliver, PriceNow, DeliveredNow, Price
  <2> QED BY <1>a, <2>2
<1>8. ASSUME NEW w \in Workers, Ingest(w) PROVE Promise!Next
  <2>1. PICK j \in Jobs : j = run[w].job /\ state[j] \in Active
    BY <1>4, <1>8 DEF Ingest, Idle
  <2>2. \/ asset' = [asset EXCEPT ![j] = "ready"] /\ Finish(j, "succeeded")
        \/ /\ Finish(j, "failed")
           /\ \/ UNCHANGED asset
              \/ asset[j] = "uploaded" /\ asset' = [asset EXCEPT ![j] = "rejected"]
    BY <1>8, <2>1 DEF Ingest
  <2>3. CASE /\ Finish(j, "failed")
             /\ \/ UNCHANGED asset
                \/ asset[j] = "uploaded" /\ asset' = [asset EXCEPT ![j] = "rejected"]
    <3>1. \A k \in Jobs : (asset'[k] = "ready") = (asset[k] = "ready")
      BY <1>0, <2>1, <2>3 DEF TypeOK
    <3> QED BY <1>1, <2>1, <2>3, <3>1
  <2>4. CASE asset' = [asset EXCEPT ![j] = "ready"] /\ Finish(j, "succeeded")
    BY <1>b, <2>1, <2>4
  <2> QED BY <2>2, <2>3, <2>4
<1>9. ASSUME NEW j \in Jobs, ExpireIngest(j) PROVE Promise!Next
  BY <1>1, <1>9 DEF ExpireIngest, Stale, Active
<1>10. ASSUME NEW j \in Jobs, DeleteAsset(j) PROVE UNCHANGED <<PriceNow, DeliveredNow>>
  <2>1. \A k \in Jobs : (asset'[k] = "ready") = (asset[k] = "ready")
    BY <1>0, <1>10 DEF DeleteAsset, TypeOK
  <2> QED BY <1>10, <2>1, Unseen DEF DeleteAsset, holds
<1>11. ASSUME NEW w \in Workers,
              \/ \E j \in Jobs : IgnoreMessage(w, j) \/ Claim(w, j)
              \/ \E answer \in Answers : ProviderAnswers(w, answer)
              \/ Discard(w) \/ ScannerDown(w) \/ WorkerDies(w)
       PROVE  UNCHANGED <<PriceNow, DeliveredNow>>
  BY <1>11, Unseen DEF IgnoreMessage, Claim, ProviderAnswers, Discard, ScannerDown,
                       WorkerDies, holds
<1>12. ASSUME \/ \E j \in Jobs : LoseMessage(j) \/ SweepHeadroom(j)
              \/ Reconcile \/ MembershipChanges \/ Tick \/ UNCHANGED vars
       PROVE  UNCHANGED <<PriceNow, DeliveredNow>>
  BY <1>12, Unseen DEF LoseMessage, SweepHeadroom, Reconcile, MembershipChanges, Tick,
                       vars, holds
<1> QED BY <1>2, <1>3, <1>5, <1>6, <1>7, <1>8, <1>9, <1>10, <1>11, <1>12 DEF Next, Work

(* The jobs keep the promise of PaidOperation: credits are charged in the  *)
(* step that delivers the image or given back, once and for good, whatever *)
(* workers, leases, messages and outages do.                               *)
THEOREM CustomersPayForWhatTheyGet == Spec => ChargedWhenDelivered
<1>1. Init => Promise!Init
  BY DEF Init, Promise!Init
<1>2. JobInvariant /\ [Next]_vars => [Promise!Next]_(Promise!promiseVars)
  BY PromiseStep
<1> QED BY <1>1, <1>2, Invariance, PTL
        DEF Spec, ChargedWhenDelivered, Promise!Spec
=============================================================================
