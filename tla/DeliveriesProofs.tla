-------------------------- MODULE DeliveriesProofs --------------------------
(***************************************************************************)
(* Proofs about Deliveries, for any number of rows, attempts, tasks and    *)
(* retries.                                                                *)
(*                                                                         *)
(* The strengthening is about what cannot happen under the row's lock: a   *)
(* row in flight is undelivered, wanted and has no route for the           *)
(* provider's reports yet (LockedRows, ReportsFollowRoutes), so neither a  *)
(* late outcome nor a scrub can meet a report.                             *)
(***************************************************************************)
EXTENDS Deliveries, TLAPS

(* A row that is being sent was read as undelivered and wanted, and stays so. *)
LockedRows ==
  \A m \in Items : sending[m] # 0 =>
    /\ Undelivered(m)
    /\ tries[m] < MaxTries
    /\ m \notin late /\ (kind[m] = "email" => m \notin scrubbed)

(* Who was suppressed when an e-mail was queued still is. *)
LateIsSuppressed ==
  \A m \in late : kind[m] = "email" /\ status[m] # "none" /\ suppressed

(* Only an e-mail that was sent has a route, and what is applied came by it. *)
ReportsFollowRoutes ==
  \A m \in Items :
    /\ applied[m] \subseteq reported[m]
    /\ reported[m] # {} => m \in routes
    /\ m \in routes => kind[m] = "email" /\ status[m] \in applied[m] \cup {"sent"}

(* The number of an attempt is at most the counter. *)
LogCounted ==
  \A m \in Items : repaired[m] = 0 =>
    \A n \in 1..MaxTries :
      (\E o \in {"accepted", "failed"} : <<n, o>> \in log[m]) => n <= tries[m]

ReportsSound == ReportsFollowRoutes /\ StatusIsLastWord
LogSound     == LogCounted /\ SentIsLogged

DeliveryInvariant ==
  /\ TypeOK /\ LateIsSuppressed /\ LockedRows
  /\ ReportsFollowRoutes /\ StatusIsLastWord /\ LogCounted /\ SentIsLogged

(* Every step keeps the types: a row is never locked twice, nor counted past  *)
(* the bound its transaction began under.                                  *)
LEMMA TypesKept ==
  ASSUME DeliveriesAssumption, TypeOK, LockedRows, [Next]_vars
  PROVE  TypeOK'
<1> USE DEF row, work, reports, wishes, TypeOK, DeliveriesAssumption
<1>1. ASSUME NEW m \in Items, NEW k \in {"email", "webhook"}, Queue(m, k) PROVE
   TypeOK'
  BY <1>1 DEF Queue, LockedRows
<1>2. ASSUME NEW m \in Items, Recover(m) PROVE TypeOK'
  BY <1>2 DEF Recover, LockedRows
<1>3. ASSUME NEW m \in Items, Drop(m) PROVE TypeOK'
  BY <1>3 DEF Drop, LockedRows
<1>4. ASSUME NEW m \in Items, Skip(m) PROVE TypeOK'
  BY <1>4 DEF Skip, Taken, Locked, LockedRows
<1>5. ASSUME NEW m \in Items, Withhold(m) PROVE TypeOK'
  BY <1>5 DEF Withhold, Withheld, Undelivered, Taken, Locked, LockedRows
<1>6. ASSUME NEW m \in Items, Start(m) PROVE TypeOK'
  BY <1>6 DEF Start, Withheld, Undelivered, Taken, Locked, LockedRows
<1>7. ASSUME NEW m \in Items, Accept(m) PROVE TypeOK'
  BY <1>7 DEF Accept, Locked, LockedRows
<1>8. ASSUME NEW m \in Items, Succeed(m) PROVE TypeOK'
  BY <1>8 DEF Succeed, Locked, Undelivered, Logged, LockedRows
<1>9. ASSUME NEW m \in Items, Fail(m) PROVE TypeOK'
  BY <1>9 DEF Fail, Locked, Undelivered, Logged, LockedRows
<1>10. ASSUME NEW m \in Items, RollBack(m) PROVE TypeOK'
  BY <1>10 DEF RollBack, Locked, LockedRows
<1>11. ASSUME NEW m \in Items, Close(m) PROVE TypeOK'
  BY <1>11 DEF Close, LockedRows
<1>12. ASSUME NEW m \in Items, CloseDies(m) PROVE TypeOK'
  BY <1>12 DEF CloseDies, LockedRows
<1>13. ASSUME NEW m \in Items, Repair(m) PROVE TypeOK'
  BY <1>13 DEF Repair, Locked, LockedRows
<1>14. ASSUME NEW m \in Items, Expire(m) PROVE TypeOK'
  BY <1>14 DEF Expire, LockedRows
<1>15. ASSUME NEW m \in Items, NEW s \in Reports, Report(m, s) PROVE TypeOK'
  BY <1>15 DEF Report, Reports, LockedRows
<1>16. ASSUME NEW m \in Items, NEW s \in Reports, Apply(m, s) PROVE TypeOK'
  BY <1>16 DEF Apply, Ranked, Rank, Reports, Locked, LockedRows
<1>17. ASSUME NEW m \in Items, Scrub(m) PROVE TypeOK'
  BY <1>17 DEF Scrub, CanScrub, Locked, LockedRows
<1>18. ASSUME BounceElsewhere PROVE TypeOK'
  BY <1>18 DEF BounceElsewhere, LockedRows
<1>19. ASSUME Prefer PROVE TypeOK'
  BY <1>19 DEF Prefer, LockedRows
<1>20. CASE UNCHANGED vars
  BY <1>20 DEF vars, LockedRows
<1> QED BY <1>1, <1>2, <1>3, <1>4, <1>5, <1>6, <1>7, <1>8, <1>9, <1>10, <1>11, <1>12,
   <1>13, <1>14, <1>15, <1>16, <1>17, <1>18, <1>19, <1>20 DEF Next, Take, Conclude

(* Suppression has no way back. *)
LEMMA LateKept ==
  ASSUME TypeOK, LateIsSuppressed, [Next]_vars
  PROVE  LateIsSuppressed'
<1> USE DEF row, work, reports, wishes, TypeOK, LateIsSuppressed
<1>1. ASSUME NEW m \in Items, NEW k \in {"email", "webhook"}, Queue(m, k) PROVE
   LateIsSuppressed'
  BY <1>1 DEF Queue
<1>2. ASSUME NEW m \in Items, Recover(m) PROVE LateIsSuppressed'
  BY <1>2 DEF Recover
<1>3. ASSUME NEW m \in Items, Drop(m) PROVE LateIsSuppressed'
  BY <1>3 DEF Drop
<1>4. ASSUME NEW m \in Items, Skip(m) PROVE LateIsSuppressed'
  BY <1>4 DEF Skip, Taken, Locked
<1>5. ASSUME NEW m \in Items, Withhold(m) PROVE LateIsSuppressed'
  BY <1>5 DEF Withhold, Withheld, Undelivered, Taken, Locked
<1>6. ASSUME NEW m \in Items, Start(m) PROVE LateIsSuppressed'
  BY <1>6 DEF Start, Withheld, Undelivered, Taken, Locked
<1>7. ASSUME NEW m \in Items, Accept(m) PROVE LateIsSuppressed'
  BY <1>7 DEF Accept, Locked
<1>8. ASSUME NEW m \in Items, Succeed(m) PROVE LateIsSuppressed'
  BY <1>8 DEF Succeed, Locked, Undelivered, Logged
<1>9. ASSUME NEW m \in Items, Fail(m) PROVE LateIsSuppressed'
  BY <1>9 DEF Fail, Locked, Undelivered, Logged
<1>10. ASSUME NEW m \in Items, RollBack(m) PROVE LateIsSuppressed'
  BY <1>10 DEF RollBack, Locked
<1>11. ASSUME NEW m \in Items, Close(m) PROVE LateIsSuppressed'
  BY <1>11 DEF Close
<1>12. ASSUME NEW m \in Items, CloseDies(m) PROVE LateIsSuppressed'
  BY <1>12 DEF CloseDies
<1>13. ASSUME NEW m \in Items, Repair(m) PROVE LateIsSuppressed'
  BY <1>13 DEF Repair, Locked
<1>14. ASSUME NEW m \in Items, Expire(m) PROVE LateIsSuppressed'
  BY <1>14 DEF Expire
<1>15. ASSUME NEW m \in Items, NEW s \in Reports, Report(m, s) PROVE LateIsSuppressed'
  BY <1>15 DEF Report, Reports
<1>16. ASSUME NEW m \in Items, NEW s \in Reports, Apply(m, s) PROVE LateIsSuppressed'
  BY <1>16 DEF Apply, Ranked, Rank, Reports, Locked
<1>17. ASSUME NEW m \in Items, Scrub(m) PROVE LateIsSuppressed'
  BY <1>17 DEF Scrub, CanScrub, Locked
<1>18. ASSUME BounceElsewhere PROVE LateIsSuppressed'
  BY <1>18 DEF BounceElsewhere
<1>19. ASSUME Prefer PROVE LateIsSuppressed'
  BY <1>19 DEF Prefer
<1>20. CASE UNCHANGED vars
  BY <1>20 DEF vars
<1> QED BY <1>1, <1>2, <1>3, <1>4, <1>5, <1>6, <1>7, <1>8, <1>9, <1>10, <1>11, <1>12,
   <1>13, <1>14, <1>15, <1>16, <1>17, <1>18, <1>19, <1>20 DEF Next, Take, Conclude

(* Nothing changes a row in flight but its own outcome. *)
LEMMA LockKept ==
  ASSUME TypeOK, LateIsSuppressed, LockedRows, [Next]_vars
  PROVE  LockedRows'
<1> USE DEF row, work, reports, wishes, TypeOK, LateIsSuppressed, LockedRows,
   Undelivered
<1>1. ASSUME NEW m \in Items, NEW k \in {"email", "webhook"}, Queue(m, k) PROVE
   LockedRows'
  BY <1>1 DEF Queue
<1>2. ASSUME NEW m \in Items, Recover(m) PROVE LockedRows'
  BY <1>2 DEF Recover
<1>3. ASSUME NEW m \in Items, Drop(m) PROVE LockedRows'
  BY <1>3 DEF Drop
<1>4. ASSUME NEW m \in Items, Skip(m) PROVE LockedRows'
  BY <1>4 DEF Skip, Taken, Locked
<1>5. ASSUME NEW m \in Items, Withhold(m) PROVE LockedRows'
  BY <1>5 DEF Withhold, Withheld, Undelivered, Taken, Locked
<1>6. ASSUME NEW m \in Items, Start(m) PROVE LockedRows'
  BY <1>6 DEF Start, Withheld, Undelivered, Taken, Locked
<1>7. ASSUME NEW m \in Items, Accept(m) PROVE LockedRows'
  BY <1>7 DEF Accept, Locked
<1>8. ASSUME NEW m \in Items, Succeed(m) PROVE LockedRows'
  BY <1>8 DEF Succeed, Locked, Undelivered, Logged
<1>9. ASSUME NEW m \in Items, Fail(m) PROVE LockedRows'
  BY <1>9 DEF Fail, Locked, Undelivered, Logged
<1>10. ASSUME NEW m \in Items, RollBack(m) PROVE LockedRows'
  BY <1>10 DEF RollBack, Locked
<1>11. ASSUME NEW m \in Items, Close(m) PROVE LockedRows'
  BY <1>11 DEF Close
<1>12. ASSUME NEW m \in Items, CloseDies(m) PROVE LockedRows'
  BY <1>12 DEF CloseDies
<1>13. ASSUME NEW m \in Items, Repair(m) PROVE LockedRows'
  BY <1>13 DEF Repair, Locked
<1>14. ASSUME NEW m \in Items, Expire(m) PROVE LockedRows'
  BY <1>14 DEF Expire
<1>15. ASSUME NEW m \in Items, NEW s \in Reports, Report(m, s) PROVE LockedRows'
  BY <1>15 DEF Report, Reports
<1>16. ASSUME NEW m \in Items, NEW s \in Reports, Apply(m, s) PROVE LockedRows'
  BY <1>16 DEF Apply, Ranked, Rank, Reports, Locked
<1>17. ASSUME NEW m \in Items, Scrub(m) PROVE LockedRows'
  BY <1>17 DEF Scrub, CanScrub, Locked
<1>18. ASSUME BounceElsewhere PROVE LockedRows'
  BY <1>18 DEF BounceElsewhere
<1>19. ASSUME Prefer PROVE LockedRows'
  BY <1>19 DEF Prefer
<1>20. CASE UNCHANGED vars
  BY <1>20 DEF vars
<1> QED BY <1>1, <1>2, <1>3, <1>4, <1>5, <1>6, <1>7, <1>8, <1>9, <1>10, <1>11, <1>12,
   <1>13, <1>14, <1>15, <1>16, <1>17, <1>18, <1>19, <1>20 DEF Next, Take, Conclude

(* A route appears with the status sent, and goes with its reports. *)
LEMMA ReportsKept ==
  ASSUME TypeOK, LockedRows, ReportsSound, [Next]_vars
  PROVE  ReportsSound'
<1> USE DEF row, work, reports, wishes, ReportsSound, LogSound, TypeOK, LockedRows,
   ReportsFollowRoutes, StatusIsLastWord, Undelivered, Rank
<1>1. ASSUME NEW m \in Items, NEW k \in {"email", "webhook"}, Queue(m, k) PROVE
   ReportsSound'
  <2>1. m \notin routes /\ reported[m] = {} /\ applied[m] = {}
    BY <1>1 DEF Queue, Reports
  <2> QED BY <1>1, <2>1 DEF Queue
<1>2. ASSUME NEW m \in Items, Recover(m) PROVE ReportsSound'
  BY <1>2 DEF Recover
<1>3. ASSUME NEW m \in Items, Drop(m) PROVE ReportsSound'
  BY <1>3 DEF Drop
<1>4. ASSUME NEW m \in Items, Skip(m) PROVE ReportsSound'
  BY <1>4 DEF Skip, Taken, Locked
<1>5. ASSUME NEW m \in Items, Withhold(m) PROVE ReportsSound'
  <2>1. m \notin routes /\ reported[m] = {} /\ applied[m] = {}
    BY <1>5 DEF Withhold, Withheld, Taken, Locked, Reports
  <2> QED BY <1>5, <2>1 DEF Withhold, Withheld, Taken, Locked
<1>6. ASSUME NEW m \in Items, Start(m) PROVE ReportsSound'
  BY <1>6 DEF Start, Withheld, Undelivered, Taken, Locked
<1>7. ASSUME NEW m \in Items, Accept(m) PROVE ReportsSound'
  BY <1>7 DEF Accept, Locked
<1>8. ASSUME NEW m \in Items, Succeed(m) PROVE ReportsSound'
  <2>1. m \notin routes /\ reported[m] = {} /\ applied[m] = {}
    BY <1>8 DEF Succeed, Locked, Logged, Reports
  <2> QED BY <1>8, <2>1 DEF Succeed, Locked, Logged
<1>9. ASSUME NEW m \in Items, Fail(m) PROVE ReportsSound'
  <2>1. m \notin routes /\ reported[m] = {} /\ applied[m] = {}
    BY <1>9 DEF Fail, Locked, Logged, Reports
  <2> QED BY <1>9, <2>1 DEF Fail, Locked, Logged
<1>10. ASSUME NEW m \in Items, RollBack(m) PROVE ReportsSound'
  BY <1>10 DEF RollBack, Locked
<1>11. ASSUME NEW m \in Items, Close(m) PROVE ReportsSound'
  BY <1>11 DEF Close
<1>12. ASSUME NEW m \in Items, CloseDies(m) PROVE ReportsSound'
  BY <1>12 DEF CloseDies
<1>13. ASSUME NEW m \in Items, Repair(m) PROVE ReportsSound'
  <2>1. m \notin routes /\ reported[m] = {} /\ applied[m] = {}
    BY <1>13 DEF Repair, Locked, Reports
  <2> QED BY <1>13, <2>1 DEF Repair, Locked
<1>14. ASSUME NEW m \in Items, Expire(m) PROVE ReportsSound'
  BY <1>14 DEF Expire
<1>15. ASSUME NEW m \in Items, NEW s \in Reports, Report(m, s) PROVE ReportsSound'
  BY <1>15 DEF Report, Reports
<1>16. ASSUME NEW m \in Items, NEW s \in Reports, Apply(m, s) PROVE ReportsSound'
  BY <1>16 DEF Apply, Ranked, Rank, Reports, Locked
<1>17. ASSUME NEW m \in Items, Scrub(m) PROVE ReportsSound'
  BY <1>17 DEF Scrub, CanScrub, Locked
<1>18. ASSUME BounceElsewhere PROVE ReportsSound'
  BY <1>18 DEF BounceElsewhere
<1>19. ASSUME Prefer PROVE ReportsSound'
  BY <1>19 DEF Prefer
<1>20. CASE UNCHANGED vars
  BY <1>20 DEF vars
<1> QED BY <1>1, <1>2, <1>3, <1>4, <1>5, <1>6, <1>7, <1>8, <1>9, <1>10, <1>11, <1>12,
   <1>13, <1>14, <1>15, <1>16, <1>17, <1>18, <1>19, <1>20 DEF Next, Take, Conclude

(* An attempt is written under a number that is free until a repair. *)
LEMMA LogKept ==
  ASSUME TypeOK, LockedRows, ReportsSound, LogSound, [Next]_vars
  PROVE  LogSound'
<1> USE DEF row, work, reports, wishes, ReportsSound, LogSound, TypeOK, LockedRows,
   ReportsFollowRoutes, LogCounted, SentIsLogged, Undelivered
<1>1. ASSUME NEW m \in Items, NEW k \in {"email", "webhook"}, Queue(m, k) PROVE
   LogSound'
  BY <1>1 DEF Queue, StatusIsLastWord, Rank
<1>2. ASSUME NEW m \in Items, Recover(m) PROVE LogSound'
  BY <1>2 DEF Recover, StatusIsLastWord, Rank
<1>3. ASSUME NEW m \in Items, Drop(m) PROVE LogSound'
  BY <1>3 DEF Drop, StatusIsLastWord, Rank
<1>4. ASSUME NEW m \in Items, Skip(m) PROVE LogSound'
  BY <1>4 DEF Skip, Taken, Locked, StatusIsLastWord, Rank
<1>5. ASSUME NEW m \in Items, Withhold(m) PROVE LogSound'
  BY <1>5 DEF Withhold, Withheld, Undelivered, Taken, Locked, StatusIsLastWord, Rank
<1>6. ASSUME NEW m \in Items, Start(m) PROVE LogSound'
  BY <1>6 DEF Start, Withheld, Undelivered, Taken, Locked, StatusIsLastWord, Rank
<1>7. ASSUME NEW m \in Items, Accept(m) PROVE LogSound'
  BY <1>7 DEF Accept, Locked, StatusIsLastWord, Rank
<1>8. ASSUME NEW m \in Items, Succeed(m) PROVE LogSound'
  BY <1>8 DEF Succeed, Locked, Undelivered, Logged, StatusIsLastWord, Rank
<1>9. ASSUME NEW m \in Items, Fail(m) PROVE LogSound'
  BY <1>9 DEF Fail, Locked, Undelivered, Logged, StatusIsLastWord, Rank
<1>10. ASSUME NEW m \in Items, RollBack(m) PROVE LogSound'
  BY <1>10 DEF RollBack, Locked, StatusIsLastWord, Rank
<1>11. ASSUME NEW m \in Items, Close(m) PROVE LogSound'
  BY <1>11 DEF Close, StatusIsLastWord, Rank
<1>12. ASSUME NEW m \in Items, CloseDies(m) PROVE LogSound'
  BY <1>12 DEF CloseDies, StatusIsLastWord, Rank
<1>13. ASSUME NEW m \in Items, Repair(m) PROVE LogSound'
  BY <1>13 DEF Repair, Locked, StatusIsLastWord, Rank
<1>14. ASSUME NEW m \in Items, Expire(m) PROVE LogSound'
  BY <1>14 DEF Expire, StatusIsLastWord, Rank
<1>15. ASSUME NEW m \in Items, NEW s \in Reports, Report(m, s) PROVE LogSound'
  BY <1>15 DEF Report, Reports, StatusIsLastWord, Rank
<1>16. ASSUME NEW m \in Items, NEW s \in Reports, Apply(m, s) PROVE LogSound'
  BY <1>16 DEF Apply, Ranked, Rank, Reports, Locked, StatusIsLastWord, Rank
<1>17. ASSUME NEW m \in Items, Scrub(m) PROVE LogSound'
  BY <1>17 DEF Scrub, CanScrub, Locked, StatusIsLastWord, Rank
<1>18. ASSUME BounceElsewhere PROVE LogSound'
  BY <1>18 DEF BounceElsewhere, StatusIsLastWord, Rank
<1>19. ASSUME Prefer PROVE LogSound'
  BY <1>19 DEF Prefer, StatusIsLastWord, Rank
<1>20. CASE UNCHANGED vars
  BY <1>20 DEF vars, StatusIsLastWord, Rank
<1> QED BY <1>1, <1>2, <1>3, <1>4, <1>5, <1>6, <1>7, <1>8, <1>9, <1>10, <1>11, <1>12,
   <1>13, <1>14, <1>15, <1>16, <1>17, <1>18, <1>19, <1>20 DEF Next, Take, Conclude

(* The first state has no rows. *)
LEMMA InvariantInit == ASSUME DeliveriesAssumption, Init PROVE DeliveryInvariant
<1>1. TypeOK
  <2>1. log \in [Items -> SUBSET ((1..MaxTries) \X {"accepted", "failed"})]
    BY DEF Init
  <2>2. reported \in [Items -> SUBSET Reports] /\ applied \in [Items -> SUBSET Reports]
    BY DEF Init
  <2>3. tries \in [Items -> 0..MaxTries] /\ repaired \in [Items -> 0..MaxRepairs]
    BY DEF Init, DeliveriesAssumption
  <2> QED BY <2>1, <2>2, <2>3 DEF Init, TypeOK
<1>2. LateIsSuppressed /\ LockedRows /\ ReportsFollowRoutes /\ StatusIsLastWord
  BY DEF Init, LateIsSuppressed, LockedRows, ReportsFollowRoutes, StatusIsLastWord
<1>3. LogCounted /\ SentIsLogged
  BY DEF Init, LogCounted, SentIsLogged
<1> QED BY <1>1, <1>2, <1>3 DEF DeliveryInvariant

(* Every step keeps the strengthened invariant. *)
LEMMA InvariantNext ==
  ASSUME DeliveriesAssumption, DeliveryInvariant, [Next]_vars
  PROVE  DeliveryInvariant'
<1>1. TypeOK' /\ LateIsSuppressed' /\ LockedRows'
  BY TypesKept, LateKept, LockKept DEF DeliveryInvariant
<1>2. ReportsFollowRoutes' /\ StatusIsLastWord' /\ LogCounted' /\ SentIsLogged'
  BY ReportsKept, LogKept DEF DeliveryInvariant, ReportsSound, LogSound
<1> QED BY <1>1, <1>2 DEF DeliveryInvariant

(* The invariant holds of every state of the queue. *)
THEOREM Invariance == ASSUME DeliveriesAssumption PROVE Spec => []DeliveryInvariant
<1>1. Init => DeliveryInvariant
  BY InvariantInit
<1>2. DeliveryInvariant /\ [Next]_vars => DeliveryInvariant'
  BY InvariantNext
<1> QED BY <1>1, <1>2, PTL DEF Spec

(* Rows, logs and tasks keep their types: one task at a time calls the     *)
(* provider for a row, and attempts are counted up to their bound.         *)
THEOREM TypeCorrect == ASSUME DeliveriesAssumption PROVE Spec => []TypeOK
<1>1. DeliveryInvariant => TypeOK
  BY DEF DeliveryInvariant
<1> QED BY <1>1, Invariance, PTL

(* Reports of the provider are processed in any order, twice or while a    *)
(* task is running: the row says the worst of them.                        *)
THEOREM WorstReportStays == ASSUME DeliveriesAssumption PROVE Spec => []StatusIsLastWord
<1>1. DeliveryInvariant => StatusIsLastWord
  BY DEF DeliveryInvariant
<1> QED BY <1>1, Invariance, PTL

(* The log keeps the attempt that sent the row, whichever tasks died.      *)
THEOREM SendingIsLogged == ASSUME DeliveriesAssumption PROVE Spec => []SentIsLogged
<1>1. DeliveryInvariant => SentIsLogged
  BY DEF DeliveryInvariant
<1> QED BY <1>1, Invariance, PTL

(* No provider accepts an e-mail for a recipient suppressed before it was  *)
(* queued, or scrubbed, however tasks and sweeps are interleaved.          *)
THEOREM NothingUnwantedIsSent ==
  ASSUME DeliveriesAssumption
  PROVE  Spec => NothingUnwanted
<1>1. ASSUME DeliveryInvariant, [Next]_vars, NEW m \in accepted' \ accepted
      PROVE  kind[m] = "email" => m \notin late /\ m \notin scrubbed
  <2>1. m \in Items /\ Accept(m)
    BY <1>1 DEF DeliveryInvariant, TypeOK, Next, vars, Take, Conclude, Queue, Recover, Drop,
       Skip, Withhold, Start, Accept, Succeed, Fail, RollBack, Close, CloseDies, Repair,
       Expire, Scrub, Report, Apply, BounceElsewhere, Prefer
  <2> QED BY <1>1, <2>1 DEF DeliveryInvariant, TypeOK, LockedRows, Accept, Locked
<1>2. DeliveryInvariant /\ [Next]_vars =>
        [\A m \in accepted' \ accepted :
           kind[m] = "email" => m \notin late /\ m \notin scrubbed]_vars
  BY <1>1
<1> QED BY <1>2, Invariance, PTL DEF Spec, NothingUnwanted
-------------------------------------------------------------------------------
(* How the rows are seen from outside (Outbox).                            *)
FateNow  == [m \in Items |-> Fate(status[m])]
WorstNow == [m \in Items |-> Rank(status[m])]
Barred   == late \cup scrubbed
Shown    == <<FateNow, WorstNow, accepted, Barred>>

(* A row is of a kind once it is there; only e-mails are scrubbed.         *)
KindsKnown ==
  /\ \A m \in Items : kind[m] # "none" => status[m] # "none"
  /\ \A m \in scrubbed : kind[m] = "email"

LEMMA KindsKept ==
  ASSUME TypeOK, KindsKnown, [Next]_vars
  PROVE  KindsKnown'
<1> USE DEF row, work, reports, wishes, TypeOK, KindsKnown
<1>1. ASSUME NEW m \in Items, NEW k \in {"email", "webhook"}, Queue(m, k) PROVE KindsKnown'
  BY <1>1 DEF Queue
<1>2. ASSUME NEW m \in Items, Recover(m) \/ Drop(m) \/ Skip(m) \/ Start(m) PROVE KindsKnown'
  BY <1>2 DEF Recover, Drop, Skip, Start
<1>3. ASSUME NEW m \in Items, Withhold(m) \/ Repair(m) PROVE KindsKnown'
  BY <1>3 DEF Withhold, Repair
<1>4. ASSUME NEW m \in Items, Accept(m) \/ RollBack(m) \/ Close(m) \/ CloseDies(m) \/ Expire(m)
      PROVE  KindsKnown'
  BY <1>4 DEF Accept, RollBack, Close, CloseDies, Expire
<1>5. ASSUME NEW m \in Items, Succeed(m) PROVE KindsKnown'
  BY <1>5 DEF Succeed
<1>6. ASSUME NEW m \in Items, Fail(m) PROVE KindsKnown'
  BY <1>6 DEF Fail
<1>7. ASSUME NEW m \in Items, NEW s \in {"delivered", "bounced", "complained"},
             Report(m, s) \/ Apply(m, s)
      PROVE  KindsKnown'
  BY <1>7 DEF Report, Apply, Ranked, Rank
<1>8. ASSUME NEW m \in Items, Scrub(m) PROVE KindsKnown'
  BY <1>8 DEF Scrub, CanScrub
<1>9. ASSUME BounceElsewhere \/ Prefer \/ UNCHANGED vars PROVE KindsKnown'
  BY <1>9 DEF BounceElsewhere, Prefer, vars
<1> QED BY <1>1, <1>2, <1>3, <1>4, <1>5, <1>6, <1>7, <1>8, <1>9 DEF Next, Take, Conclude, Reports

(* What a new status shows of its row; the others stay as they were.       *)
LEMMA StatusSeen ==
  ASSUME TypeOK, NEW m \in Items, NEW s, status' = [status EXCEPT ![m] = s]
  PROVE  /\ FateNow' = [FateNow EXCEPT ![m] = Fate(s)]
         /\ WorstNow' = [WorstNow EXCEPT ![m] = Rank(s)]
BY DEF TypeOK, FateNow, WorstNow

(* A step that leaves the statuses as they are shows nothing of them.      *)
LEMMA StatusUnseen ==
  ASSUME UNCHANGED status
  PROVE  UNCHANGED <<FateNow, WorstNow>>
BY DEF FateNow, WorstNow

(* A row that is undelivered is one that was not sent.                     *)
LEMMA UndeliveredIsUnsent ==
  ASSUME NEW m \in Items, Undelivered(m)
  PROVE  FateNow[m] \in {"waiting", "given up"} /\ WorstNow[m] = 0
BY DEF Undelivered, FateNow, WorstNow, Fate, Rank

(* An undelivered row is queued again, given up or withheld.               *)
LEMMA SeenAsDecision ==
  ASSUME TypeOK, NEW m \in Items, Undelivered(m),
         NEW s \in {"queued", "dead_letter", "suppressed"},
         status' = [status EXCEPT ![m] = s], UNCHANGED <<accepted, late, scrubbed>>
  PROVE  Promise!Decide(m)
<1>1. FateNow[m] \in {"waiting", "given up"} /\ WorstNow[m] = 0
  BY UndeliveredIsUnsent
<1>2. FateNow' = [FateNow EXCEPT ![m] = Fate(s)] /\ WorstNow' = [WorstNow EXCEPT ![m] = Rank(s)]
  BY StatusSeen
<1>3. Fate(s) \in {"waiting", "given up", "withheld"} /\ Rank(s) = 0
  BY DEF Fate, Rank
<1>4. UNCHANGED WorstNow
  BY <1>1, <1>2, <1>3 DEF WorstNow
<1> QED BY <1>1, <1>2, <1>3, <1>4 DEF Promise!Decide, Promise!Unsent, FateNow, WorstNow, Barred
(* A report of what is out makes it worse, or shows nothing.               *)
LEMMA SeenAsReport ==
  ASSUME DeliveryInvariant, NEW m \in Items, NEW s \in Reports, Apply(m, s)
  PROVE  Promise!Hear(m) \/ UNCHANGED Shown
<1>0. TypeOK /\ UNCHANGED <<accepted, late, scrubbed>>
  BY DEF DeliveryInvariant, Apply, work, reports
<1>1. status[m] \in {"sent", "delivered", "bounced", "complained"}
  BY <1>0 DEF DeliveryInvariant, ReportsFollowRoutes, TypeOK, Apply, Reports
<1>2. status' = [status EXCEPT ![m] = Ranked(s, status[m])]
  BY <1>0 DEF Apply, TypeOK
<1>3. CASE Rank(s) > Rank(status[m])
  <2>1. Ranked(s, status[m]) = s
    BY <1>1, <1>3 DEF Ranked, Rank, Reports
  <2>2. FateNow' = [FateNow EXCEPT ![m] = Fate(s)] /\ WorstNow' = [WorstNow EXCEPT ![m] = Rank(s)]
    BY <1>0, <1>2, <2>1, StatusSeen
  <2>3. Fate(s) = "out" /\ FateNow[m] = "out" /\ Rank(s) \in 2..4
    BY <1>1 DEF Fate, FateNow, Rank, Reports
  <2>4. UNCHANGED FateNow
    BY <2>2, <2>3 DEF FateNow
  <2>5. WorstNow[m] = Rank(status[m])
    BY DEF WorstNow
  <2> QED BY <1>0, <1>3, <2>2, <2>3, <2>4, <2>5 DEF Promise!Hear, FateNow, WorstNow, Barred
<1>4. CASE ~(Rank(s) > Rank(status[m]))
  <2>1. Ranked(s, status[m]) = status[m]
    BY <1>1, <1>4 DEF Ranked, Rank, Reports
  <2>2. UNCHANGED status
    BY <1>0, <1>2, <2>1 DEF TypeOK
  <2> QED BY <1>0, <2>2, StatusUnseen DEF Shown, Barred
<1> QED BY <1>3, <1>4

(* Every step of tasks, sweeps, reports and the support is a step of the   *)
(* outbox, or shows nothing.                                               *)
LEMMA PromiseStep ==
  ASSUME DeliveryInvariant, KindsKnown, [Next]_vars
  PROVE  Promise!Next \/ UNCHANGED Shown
<1>0. TypeOK
  BY DEF DeliveryInvariant
<1>a. ASSUME NEW m \in Items,
             \/ Promise!Submit(m) \/ Promise!HandOver(m) \/ Promise!Send(m)
             \/ Promise!Decide(m) \/ Promise!Hear(m) \/ Promise!Bar(m)
      PROVE  Promise!Next
  BY <1>a DEF Promise!Next
<1>b. ASSUME UNCHANGED <<status, accepted, late, scrubbed>> PROVE UNCHANGED Shown
  BY <1>b, StatusUnseen DEF Shown, Barred
<1>1. ASSUME NEW m \in Items, NEW k \in {"email", "webhook"}, Queue(m, k) PROVE Promise!Next
  <2>1. FateNow[m] = "none" /\ WorstNow[m] = 0 /\ UNCHANGED <<accepted, scrubbed>>
    BY <1>1 DEF Queue, FateNow, WorstNow, Fate, Rank
  <2>2. FateNow' = [FateNow EXCEPT ![m] = "waiting"] /\ WorstNow' = [WorstNow EXCEPT ![m] = 0]
    BY <1>0, <1>1, StatusSeen DEF Queue, Fate, Rank
  <2>3. UNCHANGED WorstNow
    BY <2>1, <2>2 DEF WorstNow
  <2>4. Barred' \in {Barred, Barred \cup {m}}
    BY <1>1, <2>1 DEF Queue, Barred
  <2>5. Promise!Submit(m)
    BY <2>1, <2>2, <2>3, <2>4 DEF Promise!Submit, FateNow, WorstNow, Barred
  <2> QED BY <1>a, <2>5
<1>2. ASSUME NEW m \in Items, Withhold(m) PROVE Promise!Next
  <2>1. Promise!Decide(m)
    BY <1>0, <1>2, SeenAsDecision DEF Withhold, wishes
  <2> QED BY <1>a, <2>1
<1>3. ASSUME NEW m \in Items, Accept(m) PROVE Promise!Next
  <2>1. Undelivered(m) /\ m \notin Barred
    BY <1>0, <1>3 DEF DeliveryInvariant, LockedRows, KindsKnown, Accept, Locked, Barred, TypeOK
  <2>2. FateNow[m] \in {"waiting", "given up"}
    BY <2>1, UndeliveredIsUnsent
  <2>3. UNCHANGED <<FateNow, WorstNow, Barred>> /\ accepted' = accepted \cup {m}
    BY <1>3, StatusUnseen DEF Accept, row, wishes, Barred
  <2>4. Promise!HandOver(m)
    BY <2>1, <2>2, <2>3 DEF Promise!HandOver, Promise!Unsent, FateNow, WorstNow, Barred
  <2> QED BY <1>a, <2>4
<1>4. ASSUME NEW m \in Items, Succeed(m) PROVE Promise!Next
  <2> DEFINE s == IF kind[m] = "email" THEN "sent" ELSE "delivered"
  <2>1. Undelivered(m) /\ m \in accepted
    BY <1>0, <1>4 DEF DeliveryInvariant, LockedRows, Succeed, Locked, TypeOK
  <2>2. FateNow[m] \in {"waiting", "given up"}
    BY <2>1, UndeliveredIsUnsent
  <2>3. FateNow' = [FateNow EXCEPT ![m] = Fate(s)] /\ WorstNow' = [WorstNow EXCEPT ![m] = Rank(s)]
    BY <1>0, <1>4, StatusSeen DEF Succeed
  <2>4. Fate(s) = "out" /\ Rank(s) \in {1, 2}
    BY DEF Fate, Rank
  <2>5. UNCHANGED <<accepted, Barred>>
    BY <1>4 DEF Succeed, wishes, Barred
  <2>6. Promise!Send(m)
    BY <2>1, <2>2, <2>3, <2>4, <2>5
       DEF Promise!Send, Promise!Unsent, FateNow, WorstNow, Barred
  <2> QED BY <1>a, <2>6
<1>5. ASSUME NEW m \in Items, Fail(m) PROVE Promise!Next
  <2>1. Undelivered(m)
    BY <1>0, <1>5 DEF DeliveryInvariant, LockedRows, Fail, Locked, TypeOK
  <2>2. \E s \in {"queued", "dead_letter"} : status' = [status EXCEPT ![m] = s]
    BY <1>5 DEF Fail
  <2>3. Promise!Decide(m)
    BY <1>0, <1>5, <2>1, <2>2, SeenAsDecision DEF Fail, wishes
  <2> QED BY <1>a, <2>3
<1>6. ASSUME NEW m \in Items, Repair(m) PROVE Promise!Next
  <2>1. Undelivered(m) /\ status' = [status EXCEPT ![m] = "queued"]
    BY <1>6 DEF Repair, Undelivered
  <2>2. Promise!Decide(m)
    BY <1>0, <1>6, <2>1, SeenAsDecision DEF Repair, wishes
  <2> QED BY <1>a, <2>2
<1>7. ASSUME NEW m \in Items, NEW s \in Reports, Apply(m, s)
      PROVE  Promise!Next \/ UNCHANGED Shown
  BY <1>7, <1>a, SeenAsReport
<1>8. ASSUME NEW m \in Items, Scrub(m) PROVE Promise!Next
  <2>1. status[m] # "none"
    BY <1>8 DEF Scrub, CanScrub, KindsKnown
  <2>2. FateNow[m] # "none"
    BY <2>1 DEF FateNow, Fate
  <2>3. UNCHANGED <<FateNow, WorstNow, accepted>> /\ Barred' = Barred \cup {m}
    BY <1>8, StatusUnseen DEF Scrub, row, Barred
  <2>4. Promise!Bar(m)
    BY <2>2, <2>3 DEF Promise!Bar, FateNow, WorstNow, Barred
  <2> QED BY <1>a, <2>4
<1>9. ASSUME NEW m \in Items,
             \/ Recover(m) \/ Drop(m) \/ Skip(m) \/ Start(m) \/ RollBack(m)
             \/ Close(m) \/ CloseDies(m) \/ Expire(m)
             \/ \E s \in Reports : Report(m, s)
      PROVE  UNCHANGED Shown
  BY <1>9, <1>b DEF Recover, Drop, Skip, Start, RollBack, Close, CloseDies, Expire, Report,
                    row, wishes
<1>10. ASSUME BounceElsewhere \/ Prefer \/ UNCHANGED vars PROVE UNCHANGED Shown
  BY <1>10, <1>b DEF BounceElsewhere, Prefer, vars, row, wishes
<1> QED BY <1>1, <1>2, <1>3, <1>4, <1>5, <1>6, <1>7, <1>8, <1>9, <1>10 DEF Next, Take, Conclude

(* ADR-029 for every row, and for any number of them: what is sent was     *)
(* taken by the provider, is not sent again and only gets worse; what is   *)
(* barred does not go out; whatever tasks, sweeps, reports and the support *)
(* do in whatever order.                                                   *)
THEOREM RowsKeepPromise ==
  ASSUME DeliveriesAssumption
  PROVE  Spec => RowsKeepTheirPromise
<1>1. Init => KindsKnown /\ Promise!Init
  BY DEF Init, KindsKnown, Promise!Init, Fate, Rank
<1>2. DeliveryInvariant /\ KindsKnown /\ [Next]_vars => KindsKnown'
  BY KindsKept DEF DeliveryInvariant
<1>3. DeliveryInvariant /\ KindsKnown /\ [Next]_vars => [Promise!Next]_(Promise!outboxVars)
  BY PromiseStep DEF Promise!outboxVars, Shown, FateNow, WorstNow, Barred
<1> QED BY <1>1, <1>2, <1>3, Invariance, PTL DEF Spec, RowsKeepTheirPromise, Promise!Spec
===============================================================================
