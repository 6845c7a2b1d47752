-------------------------- MODULE SubscriptionsProofs --------------------------
(***************************************************************************)
(* Proofs about Subscriptions, for any number of events, attempts and any  *)
(* length of time.                                                         *)
(*                                                                         *)
(* Events are ordered by their time and the rank of their type.  What was  *)
(* applied is at most the last one applied (AppliedInOrder), so an event   *)
(* that is not stale has never been applied; timers that have fired lie in *)
(* the past and those that wait wait for the row (PendingFitsRow).         *)
(***************************************************************************)
EXTENDS Subscriptions, TLAPS

Types == {"created", "updated", "failed", "paid", "deleted"}
Rows  == [state : States \cup {"none"}, grace : Dues \cup {None}, is : Remotes]
Snaps == [state : States \cup {"none"}, access : {"none", "full", "read_only"},
          until : Dues \cup {None}]

(* What Stripe has made is known by its status; nothing else is handled. *)
EventsAreMade ==
  /\ IF emitted > 0 THEN remote.status \in Statuses ELSE remote.status = "none"
  /\ row.state # "none" => emitted > 0
  /\ row.state = "none" => last = 0 /\ ~row.is.closing
  /\ rec.open => rec.told.status \in Statuses /\ row.state # "none"
  /\ last <= emitted
  /\ \A i \in Ids :
       /\ i <= emitted => event[i].type \in Types /\ event[i].is.status \in Statuses
       /\ i > emitted => acted[i] = 0 /\ busy[i] = 0

(* The order of events: by their time, then by the rank of their type. *)
NotAfter(i, j) ==
  \/ event[i].at < event[j].at
  \/ event[i].at = event[j].at /\ Priority[event[i].type] <= Priority[event[j].type]

AppliedInOrder ==
  /\ EventActsOnce
  /\ \A i \in Ids : acted[i] > 0 => last # 0 /\ NotAfter(i, last)

(* A pending timer has the time that the row gives it. *)
PendingFitsRow ==
  \A k \in Kinds, t \in Dues : timer[k][t] = "pending" => t = Due(row, k)

TimersFit ==
  /\ BoundaryIsTimed /\ PendingFitsRow
  /\ \A k \in Kinds, t \in Dues : timer[k][t] = "processed" => t <= now

(* What has been said was said by now. *)
NothingIsAhead == rec.at <= now /\ \A i \in Ids : event[i].at <= now

SubscriptionInvariant ==
  /\ TypeOK /\ EventsAreMade /\ AppliedInOrder /\ NothingIsAhead
  /\ SnapshotFollowsRow /\ TimersFit /\ CanceledWasTimed /\ ReconcilesForward

(* What every writer of the row leaves behind. *)
Written ==
  /\ row' \in Rows /\ row'.state # "none" /\ snap' \in Snaps
  /\ SnapshotFollowsRow' /\ timer' = Synced(row')

(* Ranks are numbers. *)
LEMMA PriorityIsNumber == \A t \in Types : Priority[t] \in Int
BY DEF Types, Priority

(* What is not stale comes after all that is at most the last. *)
LEMMA LaterIsNotBefore ==
  ASSUME NEW i \in Ids, NEW j \in Ids, last \in Ids, last # 0, ~IsStale(i), NotAfter(j, last),
         \A n \in {i, j, last} : event[n].type \in Types /\ event[n].at \in Int
  PROVE  j # i /\ NotAfter(j, i)
<1> DEFINE rank(n) == Priority[event[n].type]
<1>1. rank(i) \in Int /\ rank(j) \in Int /\ rank(last) \in Int
  BY PriorityIsNumber
<1>2. \/ event[i].at > event[last].at
      \/ event[i].at = event[last].at /\ rank(i) > rank(last)
  BY <1>1 DEF IsStale
<1>3. \/ event[j].at < event[last].at
      \/ event[j].at = event[last].at /\ rank(j) <= rank(last)
  BY DEF NotAfter
<1> HIDE DEF rank
<1>4. j # i
  BY <1>1, <1>2, <1>3
<1>5. \/ event[j].at < event[i].at
      \/ event[j].at = event[i].at /\ rank(j) <= rank(i)
  BY <1>1, <1>2, <1>3
<1> QED BY <1>4, <1>5 DEF NotAfter, rank

(* Timers keep their types whatever row they are set for. *)
LEMMA SyncedTyped ==
  ASSUME TypeOK, NEW r
  PROVE  Synced(r) \in [Kinds -> [Dues -> {"none", "pending", "off", "processed", "failed"}]]
BY DEF TypeOK, Synced

(* What Stripe makes comes after what it has made. *)
LEMMA EmitAppends ==
  ASSUME SubscriptionsAssumption, TypeOK, NEW type, NEW is, Emit(type, is)
  PROVE  /\ emitted + 1 \in Ids /\ emitted' = emitted + 1 /\ remote' = is
         /\ event'[emitted + 1] = [type |-> type, at |-> now, is |-> is]
         /\ \A j \in Ids : j # emitted + 1 => event'[j] = event[j]
BY DEF Emit, Ids, TypeOK, SubscriptionsAssumption

(* One more event is made and nothing else, of a known status. *)
Emitted ==
  /\ emitted + 1 \in Ids /\ emitted' = emitted + 1 /\ remote'.status \in Statuses
  /\ event'[emitted + 1].type \in Types /\ event'[emitted + 1].is.status \in Statuses
  /\ \A j \in Ids : j # emitted + 1 => event'[j] = event[j]

LEMMA EmitMakes ==
  ASSUME SubscriptionsAssumption, TypeOK, NEW type \in Types, NEW is, is.status \in Statuses,
         Emit(type, is)
  PROVE  Emitted
<1>1. /\ emitted + 1 \in Ids /\ emitted' = emitted + 1 /\ remote' = is
      /\ event'[emitted + 1] = [type |-> type, at |-> now, is |-> is]
      /\ \A j \in Ids : j # emitted + 1 => event'[j] = event[j]
  BY EmitAppends
<1> QED BY <1>1 DEF Emitted

LEMMA StripeEmits ==
  ASSUME SubscriptionsAssumption, TypeOK,
         \/ \E is \in Reports : Updates(is)
         \/ Deletes
         \/ \E type \in {"paid", "failed"} : Bills(type)
         \/ \E is \in Starts : ActivationDies(is) \/ Emit("created", is)
  PROVE  Emitted
<1>1. ASSUME NEW is \in Reports, Updates(is) PROVE Emitted
  <2>1. is.status \in Statuses /\ Emit("updated", is) /\ "updated" \in Types
    BY <1>1 DEF Updates, SubscriptionsAssumption, Types
  <2> QED BY <2>1, EmitMakes
<1>2. ASSUME Deletes PROVE Emitted
  <2> DEFINE is == [remote EXCEPT !.status = "canceled"]
  <2>1. is.status \in Statuses /\ Emit("deleted", is) /\ "deleted" \in Types
    BY <1>2 DEF Deletes, Statuses, Types, TypeOK, Remotes
  <2> HIDE DEF is
  <2> QED BY <2>1, EmitMakes
<1>3. ASSUME NEW type \in {"paid", "failed"}, Bills(type) PROVE Emitted
  <2> DEFINE is == [remote EXCEPT !.status = IF remote.status = "canceled" THEN remote.status
                      ELSE IF type = "paid" THEN "active" ELSE "past_due"]
  <2>1. is.status \in Statuses /\ Emit(type, is) /\ type \in Types
    BY <1>3 DEF Bills, Statuses, Types, TypeOK, Remotes
  <2> HIDE DEF is
  <2> QED BY <2>1, EmitMakes
<1>4. ASSUME NEW is \in Starts, ActivationDies(is) \/ Emit("created", is) PROVE Emitted
  <2>1. is.status \in Statuses /\ Emit("created", is) /\ "created" \in Types
    BY <1>4 DEF ActivationDies, Statuses, SubscriptionsAssumption, Types
  <2> QED BY <2>1, EmitMakes
<1> QED BY <1>1, <1>2, <1>3, <1>4

(* An event is of the known types when Stripe makes it of one. *)
LEMMA EmitTyped ==
  ASSUME SubscriptionsAssumption, TypeOK, NEW type \in Types, NEW is \in Remotes, Emit(type, is)
  PROVE  /\ emitted' \in 0..MaxEvents /\ remote' \in Remotes
         /\ event' \in [Ids -> [type : {"none", "created", "updated", "failed", "paid", "deleted"},
                               at : Times, is : Remotes]]
BY DEF Emit, Ids, TypeOK, Types, SubscriptionsAssumption

LEMMA EmittedKeeps ==
  ASSUME SubscriptionsAssumption, TypeOK, EventsAreMade, Emitted,
         row' = row \/ row'.state # "none",
         last' = last /\ rec' = rec /\ acted' = acted /\ busy' = busy,
         rec.open => row'.state # "none"
  PROVE  EventsAreMade'
<1>1. emitted \in Nat /\ last \in Nat /\ Ids \subseteq Nat
  BY DEF TypeOK, Ids, SubscriptionsAssumption
<1>2. \A i \in Ids :
        /\ i <= emitted' => event'[i].type \in Types /\ event'[i].is.status \in Statuses
        /\ i > emitted' => acted'[i] = 0 /\ busy'[i] = 0
  BY <1>1 DEF EventsAreMade, Emitted
<1> QED BY <1>1, <1>2 DEF EventsAreMade, Emitted

(* Only what Stripe has made is attempted. *)
LEMMA AttemptedIsMade ==
  ASSUME SubscriptionsAssumption, TypeOK, EventsAreMade, NEW i \in Ids, busy[i] > 0
  PROVE  /\ i <= emitted /\ event[i].type \in Types /\ event[i].at \in Times
         /\ event[i].is \in Remotes /\ event[i].is.status \in Statuses
<1>1. i <= emitted
  BY DEF EventsAreMade, TypeOK, Ids, SubscriptionsAssumption
<1> QED BY <1>1 DEF EventsAreMade, TypeOK

(* What a status means is written to row, snapshot and timers alike. *)
LEMMA InterpretWrites ==
  ASSUME SubscriptionsAssumption, TypeOK, NEW is \in Remotes, is.status \in Statuses,
         NEW at \in Times, Interpret(is, at)
  PROVE  Written
<1> DEFINE state == IF is.status = "past_due" /\ row.state = "read_only" THEN "read_only"
                    ELSE StateOf[is.status]
           grace == IF is.status = "past_due" THEN GraceEnd(at) ELSE None
           access == IF state = "read_only" \/ (state = "canceled" /\ IsOver(is, at))
                     THEN "read_only" ELSE "full"
           until == IF access = "read_only" THEN None
                    ELSE IF state = "grace_period" THEN grace ELSE is.end
<1>1. /\ row' = [state |-> state, grace |-> grace, is |-> is]
      /\ snap' = [state |-> state, access |-> access, until |-> until]
      /\ timer' = Synced(row')
  BY DEF Interpret, Write
<1>2. GraceEnd(at) \in Dues
  BY DEF GraceEnd, TypeOK, Dues, Times, None, SubscriptionsAssumption
<1>3. state \in States /\ (state = "grace_period" => is.status = "past_due")
  BY DEF StateOf, States, Statuses
<1>4. grace \in Dues \cup {None} /\ (state = "grace_period" => grace # None /\ grace \in Dues)
  BY <1>2, <1>3 DEF Dues, None
<1>5. is.end \in Dues
  BY DEF Remotes
<1>6. until \in Dues \cup {None} /\ access \in {"full", "read_only"}
  BY <1>4, <1>5
<1>7. row' \in Rows /\ row'.state # "none" /\ snap' \in Snaps
  <2> HIDE DEF state, grace, access, until
  <2> QED BY <1>1, <1>3, <1>4, <1>6 DEF Rows, Snaps, States
<1>8. SnapshotFollowsRow'
  <2>1. access = "full" => \/ state \in {"trialing", "active", "canceled"} /\ until = is.end
                           \/ state = "grace_period" /\ until = grace /\ grace # None
    BY <1>3, <1>4 DEF States
  <2>2. access = "read_only" => state \in {"read_only", "canceled"} /\ until = None
    OBVIOUS
  <2> HIDE DEF state, grace, access, until
  <2> QED BY <1>1, <2>1, <2>2 DEF SnapshotFollowsRow
<1> QED BY <1>1, <1>7, <1>8 DEF Written

(* The event handlers and the reconciliation write by that meaning. *)
LEMMA HandlersWrite ==
  ASSUME SubscriptionsAssumption, TypeOK, EventsAreMade, SnapshotFollowsRow, NEW i \in Ids,
         HandleSubscription(i) \/ HandlePaid(i) \/ HandleFailed(i)
  PROVE  Written
<1>0. busy[i] > 0
  BY DEF HandleSubscription, HandlePaid, HandleFailed, Acts, Leave
<1>1. CASE HandleSubscription(i)
  <2>1. event[i].is \in Remotes /\ event[i].is.status \in Statuses /\ event[i].at \in Times
    BY <1>0, AttemptedIsMade
  <2> QED BY <1>1, <2>1, InterpretWrites DEF HandleSubscription
<1>2. CASE HandlePaid(i)
  BY <1>2 DEF HandlePaid, Write, Written, Rows, Snaps, States, TypeOK, Remotes, Statuses, Dues,
     None, SnapshotFollowsRow
<1>3. CASE HandleFailed(i)
  <2> DEFINE is == [row.is EXCEPT !.status = "past_due"]
  <2>1. is \in Remotes /\ is.status \in Statuses /\ event[i].at \in Times
    BY DEF Remotes, Statuses, TypeOK
  <2>2. Interpret(is, event[i].at)
    BY <1>3 DEF HandleFailed
  <2> HIDE DEF is
  <2> QED BY <2>1, <2>2, InterpretWrites
<1> QED BY <1>1, <1>2, <1>3

LEMMA ApplyWrites ==
  ASSUME SubscriptionsAssumption, TypeOK, EventsAreMade, Apply
  PROVE  Written
<1>1. rec.told \in Remotes /\ rec.told.status \in Statuses /\ rec.at \in Times
  BY DEF TypeOK, EventsAreMade, Apply
<1> QED BY <1>1, InterpretWrites DEF Apply

LEMMA ActivateWrites ==
  ASSUME SubscriptionsAssumption, TypeOK, NEW is \in Starts, Activate(is)
  PROVE  Written
<1>1. is \in Remotes /\ is.status \in {"trialing", "active"} /\ is.end \in Dues
  BY DEF SubscriptionsAssumption, Remotes
<1> QED BY <1>1 DEF Activate, Activated, Write, Written, Rows, Snaps, States, SnapshotFollowsRow, None

(* A timer writes the row in its own way. *)
LEMMA TimerWrites ==
  ASSUME TypeOK, NEW k \in Kinds, NEW t \in Dues, TimerFires(k, t)
  PROVE  /\ row' \in Rows /\ row'.state # "none" /\ snap' \in Snaps /\ SnapshotFollowsRow'
         /\ timer' \in [Kinds -> [Dues -> {"none", "pending", "off", "processed", "failed"}]]
<1>1. row' \in Rows /\ row'.state \in {"read_only", "canceled"}
  BY DEF TimerFires, TypeOK, Rows, Remotes, States
<1>2. snap' \in Snaps /\ SnapshotFollowsRow'
  BY <1>1 DEF TimerFires, Snaps, SnapshotFollowsRow, States
<1>3. timer' \in [Kinds -> [Dues -> {"none", "pending", "off", "processed", "failed"}]]
  BY DEF TimerFires, TypeOK
<1> QED BY <1>1, <1>2, <1>3

(* Timers that are set for a row fit it, if those that fired lie behind.    *)
LEMMA SyncFits ==
  ASSUME SubscriptionsAssumption, TypeOK, TimersFit, row' \in Rows, timer' = Synced(row'),
         now' = now
  PROVE  TimersFit'
<1>1. \A k \in Kinds, t \in Dues :
        timer'[k][t] = IF t = Due(row', k)
                       THEN IF timer[k][t] = "processed" THEN "processed" ELSE "pending"
                       ELSE IF timer[k][t] = "pending" THEN "off" ELSE timer[k][t]
  BY DEF Synced
<1>2. PendingFitsRow'
  BY <1>1 DEF PendingFitsRow, Due
<1>3. \A k \in Kinds, t \in Dues : timer'[k][t] = "processed" => t <= now'
  BY <1>1 DEF TimersFit
<1>4. \A k \in Kinds, t \in Dues : t = Due(row', k) /\ t > now => timer'[k][t] = "pending"
  BY <1>1 DEF TimersFit, Dues, TypeOK, Times, SubscriptionsAssumption
<1>5. BoundaryIsTimed'
  <2>1. "grace" \in Kinds /\ "period" \in Kinds /\ now \in Nat /\ now' = now
    BY DEF Kinds, TypeOK, Times, SubscriptionsAssumption
  <2>2. row'.grace > now => row'.grace \in Dues
    BY <2>1 DEF Rows, None
  <2>3. row'.is.end \in Dues
    BY DEF Rows, Remotes
  <2> QED BY <1>4, <2>1, <2>2, <2>3 DEF BoundaryIsTimed, Due
<1> QED BY <1>2, <1>3, <1>5 DEF TimersFit

(* Every step keeps the types. *)
LEMMA TypesKept ==
  ASSUME SubscriptionsAssumption, TypeOK, EventsAreMade, SnapshotFollowsRow, [Next]_vars
  PROVE  TypeOK'
<1> USE DEF stripe, local, TypeOK
<1>1. ASSUME Tick \/ OthersCome PROVE TypeOK'
  BY <1>1 DEF Tick, OthersCome, Times, SubscriptionsAssumption
<1>2. ASSUME NEW is \in Reports, Updates(is) PROVE TypeOK'
  <2>1. is \in Remotes
    BY <1>2 DEF Updates, Remotes, Statuses, SubscriptionsAssumption
  <2>2. emitted' \in 0..MaxEvents /\ remote' \in Remotes
      /\ event' \in [Ids -> [type : {"none", "created", "updated", "failed", "paid", "deleted"},
                           at : Times, is : Remotes]]
    BY <1>2, <2>1, EmitTyped DEF Updates, Types
  <2> QED BY <1>2, <2>2 DEF Updates
<1>3. ASSUME Deletes PROVE TypeOK'
  <2>1. [remote EXCEPT !.status = "canceled"] \in Remotes
    BY <1>3 DEF Deletes, Remotes, Statuses, SubscriptionsAssumption
  <2>2. emitted' \in 0..MaxEvents /\ remote' \in Remotes
      /\ event' \in [Ids -> [type : {"none", "created", "updated", "failed", "paid", "deleted"},
                           at : Times, is : Remotes]]
    BY <1>3, <2>1, EmitTyped DEF Deletes, Types
  <2> QED BY <1>3, <2>2 DEF Deletes
<1>4. ASSUME NEW type \in {"paid", "failed"}, Bills(type) PROVE TypeOK'
  <2>1. [remote EXCEPT !.status = IF remote.status = "canceled" THEN remote.status
           ELSE IF type = "paid" THEN "active" ELSE "past_due"] \in Remotes
    BY <1>4 DEF Bills, Remotes, Statuses, SubscriptionsAssumption
  <2>2. emitted' \in 0..MaxEvents /\ remote' \in Remotes
      /\ event' \in [Ids -> [type : {"none", "created", "updated", "failed", "paid", "deleted"},
                           at : Times, is : Remotes]]
    BY <1>4, <2>1, EmitTyped DEF Bills, Types
  <2> QED BY <1>4, <2>2 DEF Bills
<1>5. ASSUME NEW is \in Starts, Activate(is) PROVE TypeOK'
  <2>1. row' \in Rows /\ snap' \in Snaps /\ timer' \in [Kinds -> [Dues -> {"none", "pending", "off", "processed", "failed"}]]
    BY <1>5, ActivateWrites, SyncedTyped DEF Written
  <2>2. is \in Remotes
    BY DEF SubscriptionsAssumption
  <2>3. emitted' \in 0..MaxEvents /\ remote' \in Remotes
      /\ event' \in [Ids -> [type : {"none", "created", "updated", "failed", "paid", "deleted"},
                           at : Times, is : Remotes]]
    BY <1>5, <2>2, EmitTyped DEF Activate, Types
  <2> QED BY <1>5, <2>1, <2>3 DEF Activate, Rows, Snaps
<1>6. ASSUME NEW is \in Starts, ActivationDies(is) PROVE TypeOK'
  <2>1. is \in Remotes
    BY <1>6 DEF ActivationDies, Remotes, Statuses, SubscriptionsAssumption
  <2>2. emitted' \in 0..MaxEvents /\ remote' \in Remotes
      /\ event' \in [Ids -> [type : {"none", "created", "updated", "failed", "paid", "deleted"},
                           at : Times, is : Remotes]]
    BY <1>6, <2>1, EmitTyped DEF ActivationDies, Types
  <2> QED BY <1>6, <2>2 DEF ActivationDies
<1>7. ASSUME NEW i \in Ids, Begin(i) PROVE TypeOK'
  BY <1>7 DEF Begin
<1>8. ASSUME NEW i \in Ids, HandleStale(i) PROVE TypeOK'
  BY <1>8 DEF HandleStale, Leave
<1>9. ASSUME NEW i \in Ids, HandleSubscription(i) PROVE TypeOK'
  <2>1. row' \in Rows /\ snap' \in Snaps /\ timer' \in [Kinds -> [Dues -> {"none", "pending", "off", "processed", "failed"}]]
    BY <1>9, HandlersWrite, SyncedTyped DEF Written
  <2>2. rec' \in [open : BOOLEAN, at : Times, asOf : 0..MaxEvents, told : Remotes]
    BY <1>9 DEF HandleSubscription, Acts, Overtakes, NoRec, Nothing, Remotes, Dues,
       Times, SubscriptionsAssumption
  <2>3. busy' \in [Ids -> Nat] /\ inbox' \in [Ids -> {"open", "failed", "settled"}]
      /\ acted' \in [Ids -> Nat] /\ last' \in 0..MaxEvents
    BY <1>9 DEF HandleSubscription, Acts, Leave, Ids, SubscriptionsAssumption
  <2> QED BY <1>9, <2>1, <2>2, <2>3 DEF HandleSubscription, Acts, Leave, Rows, Snaps
<1>10. ASSUME NEW i \in Ids, HandlePaid(i) PROVE TypeOK'
  <2>1. row' \in Rows /\ snap' \in Snaps /\ timer' \in [Kinds -> [Dues -> {"none", "pending", "off", "processed", "failed"}]]
    BY <1>10, HandlersWrite, SyncedTyped DEF Written
  <2>2. rec' \in [open : BOOLEAN, at : Times, asOf : 0..MaxEvents, told : Remotes]
    BY <1>10 DEF HandlePaid, Acts, Overtakes, NoRec, Nothing, Remotes, Dues, Times,
       SubscriptionsAssumption
  <2>3. busy' \in [Ids -> Nat] /\ inbox' \in [Ids -> {"open", "failed", "settled"}]
      /\ acted' \in [Ids -> Nat] /\ last' \in 0..MaxEvents
    BY <1>10 DEF HandlePaid, Acts, Leave, Ids, SubscriptionsAssumption
  <2> QED BY <1>10, <2>1, <2>2, <2>3 DEF HandlePaid, Acts, Leave, Rows, Snaps
<1>11. ASSUME NEW i \in Ids, HandleFailed(i) PROVE TypeOK'
  <2>1. row' \in Rows /\ snap' \in Snaps /\ timer' \in [Kinds -> [Dues -> {"none", "pending", "off", "processed", "failed"}]]
    BY <1>11, HandlersWrite, SyncedTyped DEF Written
  <2>2. rec' \in [open : BOOLEAN, at : Times, asOf : 0..MaxEvents, told : Remotes]
    BY <1>11 DEF HandleFailed, Acts, Overtakes, NoRec, Nothing, Remotes, Dues, Times,
       SubscriptionsAssumption
  <2>3. busy' \in [Ids -> Nat] /\ inbox' \in [Ids -> {"open", "failed", "settled"}]
      /\ acted' \in [Ids -> Nat] /\ last' \in 0..MaxEvents
    BY <1>11 DEF HandleFailed, Acts, Leave, Ids, SubscriptionsAssumption
  <2> QED BY <1>11, <2>1, <2>2, <2>3 DEF HandleFailed, Acts, Leave, Rows, Snaps
<1>12. ASSUME NEW i \in Ids, Fails(i) PROVE TypeOK'
  BY <1>12 DEF Fails, Leave
<1>13. ASSUME NEW i \in Ids, Dies(i) PROVE TypeOK'
  BY <1>13 DEF Dies, Leave
<1>14. ASSUME NEW k \in Kinds, NEW t \in Dues, TimerFires(k, t) PROVE TypeOK'
  <2>1. rec' \in [open : BOOLEAN, at : Times, asOf : 0..MaxEvents, told : Remotes]
    BY <1>14 DEF TimerFires, Overtakes, NoRec, Nothing, Remotes, Dues, Times, SubscriptionsAssumption
  <2> QED BY <1>14, <2>1, TimerWrites DEF TimerFires, Rows, Snaps
<1>15. ASSUME NEW k \in Kinds, NEW t \in Dues, TimerFails(k, t) PROVE TypeOK'
  BY <1>15 DEF TimerFails, IsDue
<1>16. ASSUME Ask PROVE TypeOK'
  BY <1>16 DEF Ask
<1>17. ASSUME Apply PROVE TypeOK'
  <2>1. row' \in Rows /\ snap' \in Snaps /\ timer' \in [Kinds -> [Dues -> {"none", "pending", "off", "processed", "failed"}]]
    BY <1>17, ApplyWrites, SyncedTyped DEF Written
  <2>2. rec' \in [open : BOOLEAN, at : Times, asOf : 0..MaxEvents, told : Remotes]
    BY <1>17 DEF Apply, NoRec, Nothing, Remotes, Dues, Times, SubscriptionsAssumption
  <2> QED BY <1>17, <2>1, <2>2 DEF Apply, Rows, Snaps
<1>18. ASSUME Discard PROVE TypeOK'
  BY <1>18 DEF Discard, NoRec, Nothing, Remotes, Dues, Times, SubscriptionsAssumption
<1>19. CASE UNCHANGED vars
  BY <1>19 DEF vars
<1> QED BY <1>1, <1>2, <1>3, <1>4, <1>5, <1>6, <1>7, <1>8, <1>9, <1>10, <1>11, <1>12,
   <1>13, <1>14, <1>15, <1>16, <1>17, <1>18, <1>19 DEF Next, StripeMoves, Handle

(* An event that is applied was made before and is counted as applied.      *)
LEMMA HandledKeeps ==
  ASSUME SubscriptionsAssumption, TypeOK, EventsAreMade, NEW i \in Ids,
         row'.state # "none", busy[i] > 0, i <= emitted,
         emitted' = emitted, event' = event, remote' = remote, last' = i, ~rec'.open,
         acted' = [acted EXCEPT ![i] = acted[i] + 1],
         busy' = [busy EXCEPT ![i] = busy[i] - 1]
  PROVE  EventsAreMade'
<1>1. emitted \in Nat /\ i \in Nat /\ Ids \subseteq Nat
  BY DEF TypeOK, Ids, SubscriptionsAssumption
<1>2. ASSUME NEW j \in Ids, j > emitted PROVE acted'[j] = 0 /\ busy'[j] = 0
  <2>1. j # i
    BY <1>1, <1>2
  <2>2. acted'[j] = acted[j] /\ busy'[j] = busy[j]
    BY <2>1 DEF TypeOK
  <2> QED BY <1>2, <2>2 DEF EventsAreMade
<1>3. \A j \in Ids :
        /\ j <= emitted' => event'[j].type \in Types /\ event'[j].is.status \in Statuses
        /\ j > emitted' => acted'[j] = 0 /\ busy'[j] = 0
  BY <1>2 DEF EventsAreMade
<1>4. emitted > 0
  BY <1>1 DEF Ids
<1> QED BY <1>1, <1>3, <1>4 DEF EventsAreMade

(* Events are made in order and handled afterwards. *)
LEMMA MadeKept ==
  ASSUME SubscriptionsAssumption, TypeOK, EventsAreMade, SnapshotFollowsRow, TimersFit, [Next]_vars
  PROVE  EventsAreMade'
<1> USE DEF stripe, local
<1>1. ASSUME Tick \/ OthersCome PROVE EventsAreMade'
  BY <1>1 DEF Tick, OthersCome, EventsAreMade, TypeOK, Ids, SubscriptionsAssumption
<1>2. ASSUME NEW is \in Reports, Updates(is) PROVE EventsAreMade'
  <2>1. Emitted
    BY <1>2, StripeEmits
  <2>2. row' = row /\ last' = last /\ rec' = rec /\ acted' = acted /\ busy' = busy
    BY <1>2 DEF Updates
  <2>3. rec.open => row'.state # "none"
    BY <2>2 DEF EventsAreMade, TypeOK, Ids, SubscriptionsAssumption
  <2> QED BY <2>1, <2>2, <2>3, EmittedKeeps
<1>3. ASSUME Deletes PROVE EventsAreMade'
  <2>1. Emitted
    BY <1>3, StripeEmits
  <2>2. row' = row /\ last' = last /\ rec' = rec /\ acted' = acted /\ busy' = busy
    BY <1>3 DEF Deletes
  <2>3. rec.open => row'.state # "none"
    BY <2>2 DEF EventsAreMade, TypeOK, Ids, SubscriptionsAssumption
  <2> QED BY <2>1, <2>2, <2>3, EmittedKeeps
<1>4. ASSUME NEW type \in {"paid", "failed"}, Bills(type) PROVE EventsAreMade'
  <2>1. Emitted
    BY <1>4, StripeEmits
  <2>2. row' = row /\ last' = last /\ rec' = rec /\ acted' = acted /\ busy' = busy
    BY <1>4 DEF Bills
  <2>3. rec.open => row'.state # "none"
    BY <2>2 DEF EventsAreMade, TypeOK, Ids, SubscriptionsAssumption
  <2> QED BY <2>1, <2>2, <2>3, EmittedKeeps
<1>5. ASSUME NEW is \in Starts, Activate(is) PROVE EventsAreMade'
  <2>1. last' = last /\ rec' = rec /\ acted' = acted /\ busy' = busy /\ row'.state # "none"
    BY <1>5, ActivateWrites DEF Activate, Written
  <2>2. CASE Emit("created", is)
    <3>1. Emitted
      BY <2>2, StripeEmits
    <3> QED BY <2>1, <3>1, EmittedKeeps
  <2>3. CASE remote.status # "none" /\ UNCHANGED stripe
    BY <2>1, <2>3 DEF EventsAreMade
  <2> QED BY <1>5, <2>2, <2>3 DEF Activate
<1>6. ASSUME NEW is \in Starts, ActivationDies(is) PROVE EventsAreMade'
  <2>1. Emitted
    BY <1>6, StripeEmits
  <2>2. row' = row /\ last' = last /\ rec' = rec /\ acted' = acted /\ busy' = busy
    BY <1>6 DEF ActivationDies
  <2>3. rec.open => row'.state # "none"
    BY <2>2 DEF EventsAreMade, TypeOK, Ids, SubscriptionsAssumption
  <2> QED BY <2>1, <2>2, <2>3, EmittedKeeps
<1>7. ASSUME NEW i \in Ids, Begin(i) PROVE EventsAreMade'
  BY <1>7 DEF Begin, EventsAreMade, TypeOK, Ids, SubscriptionsAssumption
<1>8. ASSUME NEW i \in Ids, HandleStale(i) PROVE EventsAreMade'
  BY <1>8 DEF HandleStale, Leave, EventsAreMade, TypeOK, Ids, SubscriptionsAssumption
<1>9. ASSUME NEW i \in Ids, HandleSubscription(i) PROVE EventsAreMade'
  <2>1. row'.state # "none"
    BY <1>9, HandlersWrite DEF Written
  <2>2. busy[i] > 0 /\ i <= emitted
    BY <1>9, AttemptedIsMade DEF HandleSubscription, Acts, Leave
  <2>3. /\ emitted' = emitted /\ event' = event /\ remote' = remote /\ last' = i /\ ~rec'.open
        /\ acted' = [acted EXCEPT ![i] = acted[i] + 1] /\ busy' = [busy EXCEPT ![i] = busy[i] - 1]
    BY <1>9 DEF HandleSubscription, Acts, Overtakes, NoRec, Leave
  <2> QED BY <2>1, <2>2, <2>3, HandledKeeps
<1>10. ASSUME NEW i \in Ids, HandlePaid(i) PROVE EventsAreMade'
  <2>1. row'.state # "none"
    BY <1>10, HandlersWrite DEF Written
  <2>2. busy[i] > 0 /\ i <= emitted
    BY <1>10, AttemptedIsMade DEF HandlePaid, Acts, Leave
  <2>3. /\ emitted' = emitted /\ event' = event /\ remote' = remote /\ last' = i /\ ~rec'.open
        /\ acted' = [acted EXCEPT ![i] = acted[i] + 1] /\ busy' = [busy EXCEPT ![i] = busy[i] - 1]
    BY <1>10 DEF HandlePaid, Acts, Overtakes, NoRec, Leave
  <2> QED BY <2>1, <2>2, <2>3, HandledKeeps
<1>11. ASSUME NEW i \in Ids, HandleFailed(i) PROVE EventsAreMade'
  <2>1. row'.state # "none"
    BY <1>11, HandlersWrite DEF Written
  <2>2. busy[i] > 0 /\ i <= emitted
    BY <1>11, AttemptedIsMade DEF HandleFailed, Acts, Leave
  <2>3. /\ emitted' = emitted /\ event' = event /\ remote' = remote /\ last' = i /\ ~rec'.open
        /\ acted' = [acted EXCEPT ![i] = acted[i] + 1] /\ busy' = [busy EXCEPT ![i] = busy[i] - 1]
    BY <1>11 DEF HandleFailed, Acts, Overtakes, NoRec, Leave
  <2> QED BY <2>1, <2>2, <2>3, HandledKeeps
<1>12. ASSUME NEW i \in Ids, Fails(i) PROVE EventsAreMade'
  BY <1>12 DEF Fails, Leave, EventsAreMade, TypeOK, Ids, SubscriptionsAssumption
<1>13. ASSUME NEW i \in Ids, Dies(i) PROVE EventsAreMade'
  BY <1>13 DEF Dies, Leave, EventsAreMade, TypeOK, Ids, SubscriptionsAssumption
<1>14. ASSUME NEW k \in Kinds, NEW t \in Dues, TimerFires(k, t) PROVE EventsAreMade'
  <2>1. row.state # "none"
    BY <1>14 DEF TimerFires, Expired, EventsAreMade
  <2> QED BY <1>14, <2>1 DEF TimerFires, Overtakes, NoRec, EventsAreMade, Remotes, TypeOK
<1>15. ASSUME NEW k \in Kinds, NEW t \in Dues, TimerFails(k, t) PROVE EventsAreMade'
  BY <1>15 DEF TimerFails, IsDue, EventsAreMade, TypeOK, Ids, SubscriptionsAssumption
<1>16. ASSUME Ask PROVE EventsAreMade'
  <2>1. remote.status \in Statuses
    BY <1>16 DEF Ask, EventsAreMade
  <2> QED BY <1>16, <2>1 DEF Ask, EventsAreMade
<1>17. ASSUME Apply PROVE EventsAreMade'
  <2>1. row'.state # "none" /\ row.state # "none" /\ ~rec'.open
    BY <1>17, ApplyWrites DEF Apply, Written, NoRec, EventsAreMade
  <2> QED BY <1>17, <2>1 DEF Apply, EventsAreMade
<1>18. ASSUME Discard PROVE EventsAreMade'
  BY <1>18 DEF Discard, NoRec, EventsAreMade
<1>19. CASE UNCHANGED vars
  BY <1>19 DEF vars, EventsAreMade, TypeOK, Ids, SubscriptionsAssumption
<1> QED BY <1>1, <1>2, <1>3, <1>4, <1>5, <1>6, <1>7, <1>8, <1>9, <1>10, <1>11, <1>12,
   <1>13, <1>14, <1>15, <1>16, <1>17, <1>18, <1>19 DEF Next, StripeMoves, Handle

(* An event that is not stale comes after all that were applied, so it is   *)
(* none of them.                                                           *)
LEMMA OrderKept ==
  ASSUME SubscriptionsAssumption, TypeOK, EventsAreMade, AppliedInOrder, [Next]_vars
  PROVE  AppliedInOrder'
<1> USE DEF stripe, local
<1>1. ASSUME Tick \/ OthersCome PROVE AppliedInOrder'
  BY <1>1 DEF Tick, OthersCome, AppliedInOrder, EventActsOnce, NotAfter
<1>2. ASSUME NEW is \in Reports, Updates(is) PROVE AppliedInOrder'
  <2>1. last' = last /\ acted' = acted
    BY <1>2 DEF Updates
  <2>2. \A j \in Ids : j # emitted + 1 => event'[j] = event[j]
    BY <1>2, EmitAppends DEF Updates
  <2>3. last # 0 => last \in Ids /\ event'[last] = event[last]
    BY <2>2 DEF EventsAreMade, TypeOK, Ids, SubscriptionsAssumption
  <2>4. \A j \in Ids : acted[j] > 0 => event'[j] = event[j]
    BY <2>2 DEF EventsAreMade, TypeOK, Ids, SubscriptionsAssumption
  <2> QED BY <2>1, <2>3, <2>4 DEF AppliedInOrder, EventActsOnce, NotAfter
<1>3. ASSUME Deletes PROVE AppliedInOrder'
  <2>1. last' = last /\ acted' = acted
    BY <1>3 DEF Deletes
  <2>2. \A j \in Ids : j # emitted + 1 => event'[j] = event[j]
    BY <1>3, EmitAppends DEF Deletes
  <2>3. last # 0 => last \in Ids /\ event'[last] = event[last]
    BY <2>2 DEF EventsAreMade, TypeOK, Ids, SubscriptionsAssumption
  <2>4. \A j \in Ids : acted[j] > 0 => event'[j] = event[j]
    BY <2>2 DEF EventsAreMade, TypeOK, Ids, SubscriptionsAssumption
  <2> QED BY <2>1, <2>3, <2>4 DEF AppliedInOrder, EventActsOnce, NotAfter
<1>4. ASSUME NEW type \in {"paid", "failed"}, Bills(type) PROVE AppliedInOrder'
  <2>1. last' = last /\ acted' = acted
    BY <1>4 DEF Bills
  <2>2. \A j \in Ids : j # emitted + 1 => event'[j] = event[j]
    BY <1>4, EmitAppends DEF Bills
  <2>3. last # 0 => last \in Ids /\ event'[last] = event[last]
    BY <2>2 DEF EventsAreMade, TypeOK, Ids, SubscriptionsAssumption
  <2>4. \A j \in Ids : acted[j] > 0 => event'[j] = event[j]
    BY <2>2 DEF EventsAreMade, TypeOK, Ids, SubscriptionsAssumption
  <2> QED BY <2>1, <2>3, <2>4 DEF AppliedInOrder, EventActsOnce, NotAfter
<1>5. ASSUME NEW is \in Starts, Activate(is) PROVE AppliedInOrder'
  <2>1. last = 0 /\ last' = last /\ acted' = acted
    BY <1>5 DEF Activate, EventsAreMade
  <2> QED BY <2>1 DEF AppliedInOrder, EventActsOnce
<1>6. ASSUME NEW is \in Starts, ActivationDies(is) PROVE AppliedInOrder'
  <2>1. last' = last /\ acted' = acted
    BY <1>6 DEF ActivationDies
  <2>2. \A j \in Ids : j # emitted + 1 => event'[j] = event[j]
    BY <1>6, EmitAppends DEF ActivationDies
  <2>3. last # 0 => last \in Ids /\ event'[last] = event[last]
    BY <2>2 DEF EventsAreMade, TypeOK, Ids, SubscriptionsAssumption
  <2>4. \A j \in Ids : acted[j] > 0 => event'[j] = event[j]
    BY <2>2 DEF EventsAreMade, TypeOK, Ids, SubscriptionsAssumption
  <2> QED BY <2>1, <2>3, <2>4 DEF AppliedInOrder, EventActsOnce, NotAfter
<1>7. ASSUME NEW i \in Ids, Begin(i) PROVE AppliedInOrder'
  BY <1>7 DEF Begin, AppliedInOrder, EventActsOnce, NotAfter
<1>8. ASSUME NEW i \in Ids, HandleStale(i) PROVE AppliedInOrder'
  BY <1>8 DEF HandleStale, Leave, AppliedInOrder, EventActsOnce, NotAfter
<1>9. ASSUME NEW i \in Ids, HandleSubscription(i) PROVE AppliedInOrder'
  <2>1. busy[i] > 0 /\ i <= emitted /\ event[i].type \in Types /\ event[i].at \in Int
    BY <1>9, AttemptedIsMade DEF HandleSubscription, Acts, Leave, Times
  <2>2. last = 0 \/ ~IsStale(i)
    BY <1>9 DEF HandleSubscription, EventsAreMade
  <2>3. last # 0 => last \in Ids /\ event[last].type \in Types /\ event[last].at \in Int
    BY DEF EventsAreMade, TypeOK, Ids, Times, SubscriptionsAssumption
  <2>4. ASSUME NEW j \in Ids, acted[j] > 0 PROVE j # i /\ NotAfter(j, i) /\ j <= emitted
    <3>1. last # 0 /\ NotAfter(j, last) /\ j <= emitted
      BY <2>4 DEF AppliedInOrder, EventsAreMade, TypeOK, Ids, SubscriptionsAssumption
    <3>2. event[j].type \in Types /\ event[j].at \in Int
      BY <3>1 DEF EventsAreMade, TypeOK, Ids, Times, SubscriptionsAssumption
    <3> QED BY <2>1, <2>2, <2>3, <3>1, <3>2, LaterIsNotBefore
  <2>5. acted[i] = 0
    BY <2>4 DEF TypeOK
  <2>6. NotAfter(i, i)
    BY <2>1, PriorityIsNumber DEF NotAfter
  <2>7. last' = i /\ event' = event /\ acted' = [acted EXCEPT ![i] = 1]
    BY <1>9, <2>5 DEF HandleSubscription, Acts, Leave
  <2>8. acted'[i] = 1 /\ \A j \in Ids : j # i => acted'[j] = acted[j]
    BY <2>7 DEF TypeOK
  <2>9. \A j \in Ids : acted'[j] > 0 => NotAfter(j, i)
    BY <2>4, <2>6, <2>8
  <2> QED BY <2>7, <2>8, <2>9 DEF AppliedInOrder, EventActsOnce, NotAfter, Ids
<1>10. ASSUME NEW i \in Ids, HandlePaid(i) PROVE AppliedInOrder'
  <2>1. busy[i] > 0 /\ i <= emitted /\ event[i].type \in Types /\ event[i].at \in Int
    BY <1>10, AttemptedIsMade DEF HandlePaid, Acts, Leave, Times
  <2>2. last = 0 \/ ~IsStale(i)
    BY <1>10 DEF HandlePaid, EventsAreMade
  <2>3. last # 0 => last \in Ids /\ event[last].type \in Types /\ event[last].at \in Int
    BY DEF EventsAreMade, TypeOK, Ids, Times, SubscriptionsAssumption
  <2>4. ASSUME NEW j \in Ids, acted[j] > 0 PROVE j # i /\ NotAfter(j, i) /\ j <= emitted
    <3>1. last # 0 /\ NotAfter(j, last) /\ j <= emitted
      BY <2>4 DEF AppliedInOrder, EventsAreMade, TypeOK, Ids, SubscriptionsAssumption
    <3>2. event[j].type \in Types /\ event[j].at \in Int
      BY <3>1 DEF EventsAreMade, TypeOK, Ids, Times, SubscriptionsAssumption
    <3> QED BY <2>1, <2>2, <2>3, <3>1, <3>2, LaterIsNotBefore
  <2>5. acted[i] = 0
    BY <2>4 DEF TypeOK
  <2>6. NotAfter(i, i)
    BY <2>1, PriorityIsNumber DEF NotAfter
  <2>7. last' = i /\ event' = event /\ acted' = [acted EXCEPT ![i] = 1]
    BY <1>10, <2>5 DEF HandlePaid, Acts, Leave
  <2>8. acted'[i] = 1 /\ \A j \in Ids : j # i => acted'[j] = acted[j]
    BY <2>7 DEF TypeOK
  <2>9. \A j \in Ids : acted'[j] > 0 => NotAfter(j, i)
    BY <2>4, <2>6, <2>8
  <2> QED BY <2>7, <2>8, <2>9 DEF AppliedInOrder, EventActsOnce, NotAfter, Ids
<1>11. ASSUME NEW i \in Ids, HandleFailed(i) PROVE AppliedInOrder'
  <2>1. busy[i] > 0 /\ i <= emitted /\ event[i].type \in Types /\ event[i].at \in Int
    BY <1>11, AttemptedIsMade DEF HandleFailed, Acts, Leave, Times
  <2>2. last = 0 \/ ~IsStale(i)
    BY <1>11 DEF HandleFailed, EventsAreMade
  <2>3. last # 0 => last \in Ids /\ event[last].type \in Types /\ event[last].at \in Int
    BY DEF EventsAreMade, TypeOK, Ids, Times, SubscriptionsAssumption
  <2>4. ASSUME NEW j \in Ids, acted[j] > 0 PROVE j # i /\ NotAfter(j, i) /\ j <= emitted
    <3>1. last # 0 /\ NotAfter(j, last) /\ j <= emitted
      BY <2>4 DEF AppliedInOrder, EventsAreMade, TypeOK, Ids, SubscriptionsAssumption
    <3>2. event[j].type \in Types /\ event[j].at \in Int
      BY <3>1 DEF EventsAreMade, TypeOK, Ids, Times, SubscriptionsAssumption
    <3> QED BY <2>1, <2>2, <2>3, <3>1, <3>2, LaterIsNotBefore
  <2>5. acted[i] = 0
    BY <2>4 DEF TypeOK
  <2>6. NotAfter(i, i)
    BY <2>1, PriorityIsNumber DEF NotAfter
  <2>7. last' = i /\ event' = event /\ acted' = [acted EXCEPT ![i] = 1]
    BY <1>11, <2>5 DEF HandleFailed, Acts, Leave
  <2>8. acted'[i] = 1 /\ \A j \in Ids : j # i => acted'[j] = acted[j]
    BY <2>7 DEF TypeOK
  <2>9. \A j \in Ids : acted'[j] > 0 => NotAfter(j, i)
    BY <2>4, <2>6, <2>8
  <2> QED BY <2>7, <2>8, <2>9 DEF AppliedInOrder, EventActsOnce, NotAfter, Ids
<1>12. ASSUME NEW i \in Ids, Fails(i) PROVE AppliedInOrder'
  BY <1>12 DEF Fails, Leave, AppliedInOrder, EventActsOnce, NotAfter
<1>13. ASSUME NEW i \in Ids, Dies(i) PROVE AppliedInOrder'
  BY <1>13 DEF Dies, Leave, AppliedInOrder, EventActsOnce, NotAfter
<1>14. ASSUME NEW k \in Kinds, NEW t \in Dues, TimerFires(k, t) PROVE AppliedInOrder'
  BY <1>14 DEF TimerFires, IsDue, Overtakes, Expired, AppliedInOrder, EventActsOnce,
     NotAfter
<1>15. ASSUME NEW k \in Kinds, NEW t \in Dues, TimerFails(k, t) PROVE AppliedInOrder'
  BY <1>15 DEF TimerFails, IsDue, AppliedInOrder, EventActsOnce, NotAfter
<1>16. ASSUME Ask PROVE AppliedInOrder'
  BY <1>16 DEF Ask, AppliedInOrder, EventActsOnce, NotAfter
<1>17. ASSUME Apply PROVE AppliedInOrder'
  BY <1>17 DEF Apply, AppliedInOrder, EventActsOnce, NotAfter
<1>18. ASSUME Discard PROVE AppliedInOrder'
  BY <1>18 DEF Discard, AppliedInOrder, EventActsOnce, NotAfter
<1>19. CASE UNCHANGED vars
  BY <1>19 DEF vars, AppliedInOrder, EventActsOnce, NotAfter
<1> QED BY <1>1, <1>2, <1>3, <1>4, <1>5, <1>6, <1>7, <1>8, <1>9, <1>10, <1>11, <1>12,
   <1>13, <1>14, <1>15, <1>16, <1>17, <1>18, <1>19 DEF Next, StripeMoves, Handle

(* Row and snapshot are written together. *)
LEMMA SnapshotKept ==
  ASSUME SubscriptionsAssumption, TypeOK, EventsAreMade, SnapshotFollowsRow, [Next]_vars
  PROVE  SnapshotFollowsRow'
<1> USE DEF stripe, local
<1>1. ASSUME Tick \/ OthersCome PROVE SnapshotFollowsRow'
  BY <1>1 DEF Tick, OthersCome, SnapshotFollowsRow
<1>2. ASSUME NEW is \in Reports, Updates(is) PROVE SnapshotFollowsRow'
  BY <1>2 DEF Updates, Emit, SnapshotFollowsRow
<1>3. ASSUME Deletes PROVE SnapshotFollowsRow'
  BY <1>3 DEF Deletes, Emit, SnapshotFollowsRow
<1>4. ASSUME NEW type \in {"paid", "failed"}, Bills(type) PROVE SnapshotFollowsRow'
  BY <1>4 DEF Bills, Emit, SnapshotFollowsRow
<1>5. ASSUME NEW is \in Starts, Activate(is) PROVE SnapshotFollowsRow'
  BY <1>5, ActivateWrites DEF Written
<1>6. ASSUME NEW is \in Starts, ActivationDies(is) PROVE SnapshotFollowsRow'
  BY <1>6 DEF ActivationDies, Emit, SnapshotFollowsRow
<1>7. ASSUME NEW i \in Ids, Begin(i) PROVE SnapshotFollowsRow'
  BY <1>7 DEF Begin, SnapshotFollowsRow
<1>8. ASSUME NEW i \in Ids, HandleStale(i) PROVE SnapshotFollowsRow'
  BY <1>8 DEF HandleStale, Leave, SnapshotFollowsRow
<1>9. ASSUME NEW i \in Ids, HandleSubscription(i) PROVE SnapshotFollowsRow'
  BY <1>9, HandlersWrite DEF Written
<1>10. ASSUME NEW i \in Ids, HandlePaid(i) PROVE SnapshotFollowsRow'
  BY <1>10, HandlersWrite DEF Written
<1>11. ASSUME NEW i \in Ids, HandleFailed(i) PROVE SnapshotFollowsRow'
  BY <1>11, HandlersWrite DEF Written
<1>12. ASSUME NEW i \in Ids, Fails(i) PROVE SnapshotFollowsRow'
  BY <1>12 DEF Fails, Leave, SnapshotFollowsRow
<1>13. ASSUME NEW i \in Ids, Dies(i) PROVE SnapshotFollowsRow'
  BY <1>13 DEF Dies, Leave, SnapshotFollowsRow
<1>14. ASSUME NEW k \in Kinds, NEW t \in Dues, TimerFires(k, t) PROVE
   SnapshotFollowsRow'
  BY <1>14, TimerWrites
<1>15. ASSUME NEW k \in Kinds, NEW t \in Dues, TimerFails(k, t) PROVE
   SnapshotFollowsRow'
  BY <1>15 DEF TimerFails, IsDue, SnapshotFollowsRow
<1>16. ASSUME Ask PROVE SnapshotFollowsRow'
  BY <1>16 DEF Ask, SnapshotFollowsRow
<1>17. ASSUME Apply PROVE SnapshotFollowsRow'
  BY <1>17, ApplyWrites DEF Written
<1>18. ASSUME Discard PROVE SnapshotFollowsRow'
  BY <1>18 DEF Discard, SnapshotFollowsRow
<1>19. CASE UNCHANGED vars
  BY <1>19 DEF vars, SnapshotFollowsRow
<1> QED BY <1>1, <1>2, <1>3, <1>4, <1>5, <1>6, <1>7, <1>8, <1>9, <1>10, <1>11, <1>12,
   <1>13, <1>14, <1>15, <1>16, <1>17, <1>18, <1>19 DEF Next, StripeMoves, Handle

(* Whoever writes the row sets the timers, and only due ones end. *)
LEMMA TimersKept ==
  ASSUME SubscriptionsAssumption, TypeOK, EventsAreMade, SnapshotFollowsRow, TimersFit, [Next]_vars
  PROVE  TimersFit'
<1> USE DEF stripe, local, TypeOK, SubscriptionsAssumption
<1>1. ASSUME Tick \/ OthersCome PROVE TimersFit'
  <2>1. now' \in {now, now + 1} /\ row' = row /\ timer' = timer /\ now \in Nat
    BY <1>1 DEF Tick, OthersCome, Times
  <2>2. row.grace \in Int /\ row.is.end \in Int /\ Dues \subseteq Int
    BY DEF Dues, None, Remotes
  <2> QED BY <2>1, <2>2 DEF TimersFit, BoundaryIsTimed, PendingFitsRow, Due
<1>2. ASSUME NEW is \in Reports, Updates(is) PROVE TimersFit'
  BY <1>2 DEF Updates, Emit, TimersFit, BoundaryIsTimed, PendingFitsRow, Due
<1>3. ASSUME Deletes PROVE TimersFit'
  BY <1>3 DEF Deletes, Emit, TimersFit, BoundaryIsTimed, PendingFitsRow, Due
<1>4. ASSUME NEW type \in {"paid", "failed"}, Bills(type) PROVE TimersFit'
  BY <1>4 DEF Bills, Emit, TimersFit, BoundaryIsTimed, PendingFitsRow, Due
<1>5. ASSUME NEW is \in Starts, Activate(is) PROVE TimersFit'
  BY <1>5, ActivateWrites, SyncFits DEF Written, Activate
<1>6. ASSUME NEW is \in Starts, ActivationDies(is) PROVE TimersFit'
  BY <1>6 DEF ActivationDies, Emit, TimersFit, BoundaryIsTimed, PendingFitsRow, Due
<1>7. ASSUME NEW i \in Ids, Begin(i) PROVE TimersFit'
  BY <1>7 DEF Begin, TimersFit, BoundaryIsTimed, PendingFitsRow, Due
<1>8. ASSUME NEW i \in Ids, HandleStale(i) PROVE TimersFit'
  BY <1>8 DEF HandleStale, Leave, TimersFit, BoundaryIsTimed, PendingFitsRow, Due
<1>9. ASSUME NEW i \in Ids, HandleSubscription(i) PROVE TimersFit'
  <2>1. now' = now
    BY <1>9 DEF HandleSubscription, Acts, Leave
  <2> QED BY <1>9, <2>1, HandlersWrite, SyncFits DEF Written
<1>10. ASSUME NEW i \in Ids, HandlePaid(i) PROVE TimersFit'
  <2>1. now' = now
    BY <1>10 DEF HandlePaid, Acts, Leave
  <2> QED BY <1>10, <2>1, HandlersWrite, SyncFits DEF Written
<1>11. ASSUME NEW i \in Ids, HandleFailed(i) PROVE TimersFit'
  <2>1. now' = now
    BY <1>11 DEF HandleFailed, Acts, Leave
  <2> QED BY <1>11, <2>1, HandlersWrite, SyncFits DEF Written
<1>12. ASSUME NEW i \in Ids, Fails(i) PROVE TimersFit'
  BY <1>12 DEF Fails, Leave, TimersFit, BoundaryIsTimed, PendingFitsRow, Due
<1>13. ASSUME NEW i \in Ids, Dies(i) PROVE TimersFit'
  BY <1>13 DEF Dies, Leave, TimersFit, BoundaryIsTimed, PendingFitsRow, Due
<1>14. ASSUME NEW k \in Kinds, NEW t \in Dues, TimerFires(k, t) PROVE TimersFit'
  <2>1. /\ t <= now /\ now' = now /\ now \in Nat /\ row'.is.end = row.is.end /\ ~row'.is.closing
        /\ row'.state = IF k = "grace" THEN "read_only" ELSE "canceled"
        /\ k # "grace" => row.is.end <= now
    BY <1>14 DEF TimerFires, IsDue, Expired, Remotes, TypeOK, Times
  <2>2. \A q \in Kinds, u \in Dues :
          timer'[q][u] = IF q = k /\ u = t THEN "processed"
                         ELSE IF timer[q][u] = "pending" THEN "off" ELSE timer[q][u]
    BY <1>14 DEF TimerFires
  <2>3. BoundaryIsTimed'
    BY <2>1 DEF BoundaryIsTimed, Remotes, Dues, TypeOK
  <2>4. PendingFitsRow'
    BY <2>2 DEF PendingFitsRow
  <2>5. \A q \in Kinds, u \in Dues : timer'[q][u] = "processed" => u <= now'
    BY <2>1, <2>2 DEF TimersFit
  <2> QED BY <2>3, <2>4, <2>5 DEF TimersFit
<1>15. ASSUME NEW k \in Kinds, NEW t \in Dues, TimerFails(k, t) PROVE TimersFit'
  <2>1. t <= now /\ now' = now /\ row' = row /\ timer' = [timer EXCEPT ![k][t] = "failed"]
    BY <1>15 DEF TimerFails, IsDue
  <2>2. \A q \in Kinds, u \in Dues : (u > now => timer'[q][u] = timer[q][u]) /\ timer'[q][u] \in {timer[q][u], "failed"}
    BY <2>1 DEF Dues, Times
  <2>3. BoundaryIsTimed'
    <3>1. "grace" \in Kinds /\ "period" \in Kinds /\ (row.grace > now => row.grace \in Dues) /\ row.is.end \in Dues
      BY DEF Kinds, None, Times, Remotes, Rows
    <3> QED BY <2>1, <2>2, <3>1 DEF TimersFit, BoundaryIsTimed
  <2>4. PendingFitsRow'
    BY <2>1, <2>2 DEF TimersFit, PendingFitsRow, Due
  <2>5. \A q \in Kinds, u \in Dues : timer'[q][u] = "processed" => u <= now'
    BY <2>1, <2>2 DEF TimersFit
  <2> QED BY <2>3, <2>4, <2>5 DEF TimersFit
<1>16. ASSUME Ask PROVE TimersFit'
  BY <1>16 DEF Ask, TimersFit, BoundaryIsTimed, PendingFitsRow, Due
<1>17. ASSUME Apply PROVE TimersFit'
  BY <1>17, ApplyWrites, SyncFits DEF Written, Apply
<1>18. ASSUME Discard PROVE TimersFit'
  BY <1>18 DEF Discard, TimersFit, BoundaryIsTimed, PendingFitsRow, Due
<1>19. CASE UNCHANGED vars
  BY <1>19 DEF vars, TimersFit, BoundaryIsTimed, PendingFitsRow, Due
<1> QED BY <1>1, <1>2, <1>3, <1>4, <1>5, <1>6, <1>7, <1>8, <1>9, <1>10, <1>11, <1>12,
   <1>13, <1>14, <1>15, <1>16, <1>17, <1>18, <1>19 DEF Next, StripeMoves, Handle

(* An answer of Stripe is forgotten when an event overtakes it. *)
LEMMA RecKept ==
  ASSUME SubscriptionsAssumption, TypeOK, EventsAreMade, ReconcilesForward, [Next]_vars
  PROVE  ReconcilesForward'
<1> USE DEF stripe, local, TypeOK, EventsAreMade, ReconcilesForward, NoRec
<1>1. ASSUME Tick \/ OthersCome PROVE ReconcilesForward'
  BY <1>1 DEF Tick, OthersCome
<1>2. ASSUME NEW is \in Reports, Updates(is) PROVE ReconcilesForward'
  BY <1>2 DEF Updates, Emit
<1>3. ASSUME Deletes PROVE ReconcilesForward'
  BY <1>3 DEF Deletes, Emit
<1>4. ASSUME NEW type \in {"paid", "failed"}, Bills(type) PROVE ReconcilesForward'
  BY <1>4 DEF Bills, Emit
<1>5. ASSUME NEW is \in Starts, Activate(is) PROVE ReconcilesForward'
  BY <1>5 DEF Activate, Activated, Emit, Write
<1>6. ASSUME NEW is \in Starts, ActivationDies(is) PROVE ReconcilesForward'
  BY <1>6 DEF ActivationDies, Emit
<1>7. ASSUME NEW i \in Ids, Begin(i) PROVE ReconcilesForward'
  BY <1>7 DEF Begin
<1>8. ASSUME NEW i \in Ids, HandleStale(i) PROVE ReconcilesForward'
  BY <1>8 DEF HandleStale, Leave
<1>9. ASSUME NEW i \in Ids, HandleSubscription(i) PROVE ReconcilesForward'
  BY <1>9 DEF HandleSubscription, Acts, Overtakes, Leave
<1>10. ASSUME NEW i \in Ids, HandlePaid(i) PROVE ReconcilesForward'
  BY <1>10 DEF HandlePaid, Acts, Overtakes, Leave, Write
<1>11. ASSUME NEW i \in Ids, HandleFailed(i) PROVE ReconcilesForward'
  BY <1>11 DEF HandleFailed, Acts, Overtakes, Leave
<1>12. ASSUME NEW i \in Ids, Fails(i) PROVE ReconcilesForward'
  BY <1>12 DEF Fails, Leave
<1>13. ASSUME NEW i \in Ids, Dies(i) PROVE ReconcilesForward'
  BY <1>13 DEF Dies, Leave
<1>14. ASSUME NEW k \in Kinds, NEW t \in Dues, TimerFires(k, t) PROVE
   ReconcilesForward'
  BY <1>14 DEF TimerFires, IsDue, Overtakes, Expired
<1>15. ASSUME NEW k \in Kinds, NEW t \in Dues, TimerFails(k, t) PROVE
   ReconcilesForward'
  BY <1>15 DEF TimerFails, IsDue
<1>16. ASSUME Ask PROVE ReconcilesForward'
  BY <1>16 DEF Ask
<1>17. ASSUME Apply PROVE ReconcilesForward'
  BY <1>17 DEF Apply
<1>18. ASSUME Discard PROVE ReconcilesForward'
  BY <1>18 DEF Discard
<1>19. CASE UNCHANGED vars
  BY <1>19 DEF vars
<1> QED BY <1>1, <1>2, <1>3, <1>4, <1>5, <1>6, <1>7, <1>8, <1>9, <1>10, <1>11, <1>12,
   <1>13, <1>14, <1>15, <1>16, <1>17, <1>18, <1>19 DEF Next, StripeMoves, Handle

(* Stripe tells of what is, and the clock goes on. *)
LEMMA PastKept ==
  ASSUME SubscriptionsAssumption, TypeOK, NothingIsAhead, [Next]_vars
  PROVE  NothingIsAhead'
<1>0. ASSUME NEW i \in Ids,
             \/ Begin(i) \/ Fails(i) \/ Dies(i) \/ HandleStale(i)
             \/ HandleSubscription(i) \/ HandlePaid(i) \/ HandleFailed(i)
      PROVE  now' = now /\ rec' \in {rec, NoRec}
  BY <1>0 DEF Begin, HandleStale, HandleSubscription, HandlePaid, HandleFailed, Acts, Overtakes,
     Leave, Fails, Dies
<1>1. now \in Nat /\ now' \in Nat /\ now <= now'
  <2>1. now' = now \/ Tick
    BY <1>0 DEF Next, StripeMoves, Handle, OthersCome, Updates, Deletes, Bills, Activate,
       ActivationDies,
       TimerFires, TimerFails, Ask, Apply, Discard, vars
  <2> QED BY <2>1 DEF Tick, TypeOK, Times, SubscriptionsAssumption
<1>2. rec' = rec \/ rec' = NoRec \/ rec'.at = now
  <2>1. rec' \in {rec, NoRec} \/ Ask
    BY <1>0 DEF Next, StripeMoves, Handle, Tick, OthersCome, Updates, Deletes, Bills, Activate,
       ActivationDies, TimerFires, Overtakes, TimerFails, Apply, Discard, vars
  <2> QED BY <2>1 DEF Ask
<1>3. event' = event \/ \E type, is : Emit(type, is)
  BY DEF Next, StripeMoves, Handle, Tick, OthersCome, Updates, Deletes, Bills, Activate, ActivationDies,
     Begin, HandleStale, HandleSubscription, HandlePaid, HandleFailed, Acts, Leave,
     Fails, Dies, TimerFires, TimerFails, Ask, Apply, Discard, vars, stripe
<1>4. rec'.at <= now'
  BY <1>1, <1>2 DEF NothingIsAhead, NoRec, TypeOK, Times
<1>5. ASSUME NEW i \in Ids PROVE event'[i].at <= now'
  <2>0. ASSUME NEW type, NEW is, Emit(type, is) PROVE event'[i] = event[i] \/ event'[i].at = now
    <3>1. /\ event'[emitted + 1] = [type |-> type, at |-> now, is |-> is]
          /\ \A j \in Ids : j # emitted + 1 => event'[j] = event[j]
      BY <2>0, EmitAppends
    <3> QED BY <3>1
  <2>1. event'[i] = event[i] \/ event'[i].at = now
    BY <1>3, <2>0
  <2>2. event[i].at <= now /\ event[i].at \in Int
    BY DEF NothingIsAhead, TypeOK, Times
  <2> QED BY <1>1, <2>1, <2>2
<1> QED BY <1>4, <1>5 DEF NothingIsAhead, Ids

(* A subscription becomes canceled with its timer, or by it. *)
LEMMA SyncTimes ==
  ASSUME row' \in Rows, timer' = Synced(row')
  PROVE  CanceledWasTimed'
<1>1. ASSUME row'.state = "canceled" PROVE timer'["period"][row'.is.end] \in {"pending", "processed"}
  <2>1. "period" \in Kinds /\ row'.is.end \in Dues /\ row'.is.end = Due(row', "period")
    BY <1>1 DEF Kinds, Rows, Remotes, Due
  <2> QED BY <2>1 DEF Synced
<1> QED BY <1>1 DEF CanceledWasTimed

LEMMA CanceledKept ==
  ASSUME SubscriptionsAssumption, TypeOK, EventsAreMade, SnapshotFollowsRow, TimersFit,
         CanceledWasTimed, [Next]_vars
  PROVE  CanceledWasTimed'
<1>1. ASSUME NEW is \in Starts, Activate(is) PROVE CanceledWasTimed'
  BY <1>1, ActivateWrites, SyncTimes DEF Written
<1>2. ASSUME NEW i \in Ids, HandleSubscription(i) \/ HandlePaid(i) \/ HandleFailed(i)
      PROVE  CanceledWasTimed'
  BY <1>2, HandlersWrite, SyncTimes DEF Written
<1>3. ASSUME Apply PROVE CanceledWasTimed'
  BY <1>3, ApplyWrites, SyncTimes DEF Written
<1>4. ASSUME NEW k \in Kinds, NEW t \in Dues, TimerFires(k, t) PROVE CanceledWasTimed'
  <2>1. t = Due(row, k) /\ timer'[k][t] = "processed"
    BY <1>4 DEF TimerFires, IsDue, TimersFit, PendingFitsRow
  <2>2. row'.is.end = row.is.end /\ row'.state = IF k = "grace" THEN "read_only" ELSE "canceled"
    BY <1>4 DEF TimerFires, TypeOK, Remotes
  <2>3. k = "period" => t = row.is.end
    BY <1>4, <2>1 DEF TimerFires, Expired, Due
  <2> QED BY <2>1, <2>2, <2>3 DEF CanceledWasTimed, Kinds
<1>5. ASSUME NEW k \in Kinds, NEW t \in Dues, TimerFails(k, t) PROVE CanceledWasTimed'
  <2>1. row' = row /\ row.is.end \in Dues /\ timer' = [timer EXCEPT ![k][t] = "failed"]
    BY <1>5 DEF TimerFails, TypeOK, Remotes
  <2>2. timer'["period"][row.is.end] \in {timer["period"][row.is.end], "failed"}
    BY <2>1 DEF TypeOK, Kinds
  <2> QED BY <2>1, <2>2 DEF CanceledWasTimed
<1>6. CASE row' = row /\ timer' = timer
  BY <1>6 DEF CanceledWasTimed
<1>7. \/ row' = row /\ timer' = timer
      \/ Apply
      \/ \E is \in Starts : Activate(is)
      \/ \E i \in Ids : HandleSubscription(i) \/ HandlePaid(i) \/ HandleFailed(i)
      \/ \E k \in Kinds, t \in Dues : TimerFires(k, t) \/ TimerFails(k, t)
  BY DEF Next, StripeMoves, Handle, Tick, OthersCome, Updates, Deletes, Bills, ActivationDies, Begin,
     HandleStale, Leave, Fails, Dies, Ask, Discard, vars, local
<1> QED BY <1>1, <1>2, <1>3, <1>4, <1>5, <1>6, <1>7

LEMMA InvariantInit == ASSUME SubscriptionsAssumption, Init PROVE SubscriptionInvariant
<1>1. TypeOK
  <2>1. Nothing \in Remotes /\ 0 \in Times /\ 0 \in 0..MaxEvents
    BY DEF Nothing, Remotes, Dues, Times, SubscriptionsAssumption
  <2> QED BY <2>1 DEF Init, TypeOK, NoRow, NoRec, NoEvent
<1>2. EventsAreMade /\ AppliedInOrder
  BY DEF Init, EventsAreMade, AppliedInOrder, EventActsOnce, NoRow, NoRec, Nothing, Ids,
     SubscriptionsAssumption
<1>3. SnapshotFollowsRow /\ ReconcilesForward /\ CanceledWasTimed
  BY DEF Init, SnapshotFollowsRow, ReconcilesForward, CanceledWasTimed, NoRow, NoRec
<1>4. TimersFit /\ NothingIsAhead
  BY DEF Init, TimersFit, BoundaryIsTimed, PendingFitsRow, NothingIsAhead, NoRow, NoRec, NoEvent,
     Nothing
<1> QED BY <1>1, <1>2, <1>3, <1>4 DEF SubscriptionInvariant

LEMMA InvariantNext ==
  ASSUME SubscriptionsAssumption, SubscriptionInvariant, [Next]_vars
  PROVE  SubscriptionInvariant'
BY TypesKept, MadeKept, OrderKept, PastKept, SnapshotKept, TimersKept, CanceledKept, RecKept
   DEF SubscriptionInvariant

(* The invariant holds of every state that the subscription can be in.    *)
THEOREM Invariance == ASSUME SubscriptionsAssumption PROVE Spec => []SubscriptionInvariant
<1>1. Init => SubscriptionInvariant
  BY InvariantInit
<1>2. SubscriptionInvariant /\ [Next]_vars => SubscriptionInvariant'
  BY InvariantNext
<1> QED BY <1>1, <1>2, PTL DEF Spec

(* Row, snapshot, timers, events and clock keep their types. *)
THEOREM TypeCorrect == ASSUME SubscriptionsAssumption PROVE Spec => []TypeOK
<1>1. SubscriptionInvariant => TypeOK
  BY DEF SubscriptionInvariant
<1> QED BY <1>1, Invariance, PTL

(* However events are delayed, repeated and attempted at once, none is     *)
(* applied twice.                                                          *)
THEOREM EventsApplyOnce == ASSUME SubscriptionsAssumption PROVE Spec => []EventActsOnce
<1>1. SubscriptionInvariant => EventActsOnce
  BY DEF SubscriptionInvariant, AppliedInOrder
<1> QED BY <1>1, Invariance, PTL

(* Whatever order the events come in, the newest of those applied stays.   *)
THEOREM EventsApplyInOrder == ASSUME SubscriptionsAssumption PROVE Spec => []NewestEventWins
<1>1. ASSUME SubscriptionInvariant PROVE NewestEventWins
  <2>1. ASSUME NEW i \in Ids, acted[i] > 0 PROVE last # 0 /\ event[i].at <= event[last].at
    <3>1. last # 0 /\ NotAfter(i, last) /\ last \in Ids
      BY <1>1, <2>1 DEF SubscriptionInvariant, AppliedInOrder, TypeOK, Ids, SubscriptionsAssumption
    <3>2. event[i].at \in Int /\ event[last].at \in Int
      BY <1>1, <3>1 DEF SubscriptionInvariant, TypeOK, Times
    <3> QED BY <3>1, <3>2 DEF NotAfter
  <2> QED BY <2>1 DEF NewestEventWins
<1> QED BY <1>1, Invariance, PTL

(* Five writers of row and snapshot leave them in agreement. *)
THEOREM AccessFollowsSubscription ==
  ASSUME SubscriptionsAssumption PROVE Spec => []SnapshotFollowsRow
<1>1. SubscriptionInvariant => SnapshotFollowsRow
  BY DEF SubscriptionInvariant
<1> QED BY <1>1, Invariance, PTL

(* A boundary that lies ahead is waited for, however the row came and went. *)
THEOREM BoundariesAreTimed == ASSUME SubscriptionsAssumption PROVE Spec => []BoundaryIsTimed
<1>1. SubscriptionInvariant => BoundaryIsTimed
  BY DEF SubscriptionInvariant, TimersFit
<1> QED BY <1>1, Invariance, PTL

(* A timer that waits has the time of the row: the answer that             *)
(* _dispatch_lifecycle_action has to one that has not is never needed.     *)
THEOREM TimersWaitForTheRow == ASSUME SubscriptionsAssumption PROVE Spec => []PendingFitsRow
<1>1. SubscriptionInvariant => PendingFitsRow
  BY DEF SubscriptionInvariant, TimersFit
<1> QED BY <1>1, Invariance, PTL

(* Only an end that passed and came again is without a timer. *)
THEOREM OnlyPassedEndsAreUntimed == ASSUME SubscriptionsAssumption PROVE Spec => []CanceledWasTimed
<1>1. SubscriptionInvariant => CanceledWasTimed
  BY DEF SubscriptionInvariant
<1> QED BY <1>1, Invariance, PTL

(* A reconciliation that is under way knows all that events have brought.  *)
THEOREM NoAnswerIsOvertaken == ASSUME SubscriptionsAssumption PROVE Spec => []ReconcilesForward
<1>1. SubscriptionInvariant => ReconcilesForward
  BY DEF SubscriptionInvariant
<1> QED BY <1>1, Invariance, PTL
-----------------------------------------------------------------------------
(* What a step may take away. *)
LocksOut == snap.access = "full" /\ snap'.access = "read_only"
Permitted ==
  \/ row'.is.status = "unpaid"
  \/ row.state = "grace_period" /\ row.grace # None /\ row.grace <= now
  \/ row'.state = "canceled" /\ row'.is.end <= now

(* Whoever reads the status takes the access away when it is unpaid or     *)
(* over: one who may write is not read-only before.                        *)
LEMMA InterpretPermits ==
  ASSUME SubscriptionsAssumption, TypeOK, SnapshotFollowsRow, NEW is \in Remotes,
         is.status \in Statuses, NEW at \in Times, at <= now, Interpret(is, at), LocksOut
  PROVE  Permitted
<1>1. row.state # "read_only"
  BY DEF LocksOut, SnapshotFollowsRow
<1> DEFINE state == IF is.status = "past_due" /\ row.state = "read_only" THEN "read_only"
                    ELSE StateOf[is.status]
<1>2. /\ row'.state = state /\ row'.is = is
      /\ state = "read_only" \/ (state = "canceled" /\ IsOver(is, at))
  BY DEF Interpret, Write, LocksOut
<1>3. state = "read_only" => is.status = "unpaid"
  BY <1>1 DEF StateOf, Statuses
<1>4. IsOver(is, at) => is.end <= now
  BY DEF IsOver, Remotes, Dues, Times, TypeOK, SubscriptionsAssumption
<1> QED BY <1>2, <1>3, <1>4 DEF Permitted

LEMMA StepPermits ==
  ASSUME SubscriptionsAssumption, SubscriptionInvariant, [Next]_vars, LocksOut
  PROVE  Permitted
<1> USE DEF SubscriptionInvariant
<1>1. ASSUME NEW i \in Ids, HandleSubscription(i) PROVE Permitted
  <2>1. busy[i] > 0
    BY <1>1 DEF HandleSubscription, Acts, Leave
  <2>2. /\ event[i].is \in Remotes /\ event[i].is.status \in Statuses /\ event[i].at \in Times
        /\ event[i].at <= now
    BY <2>1, AttemptedIsMade DEF NothingIsAhead
  <2> QED BY <1>1, <2>2, InterpretPermits DEF HandleSubscription
<1>2. ASSUME NEW i \in Ids, HandleFailed(i) PROVE Permitted
  <2> DEFINE is == [row.is EXCEPT !.status = "past_due"]
  <2>1. is \in Remotes /\ is.status \in Statuses /\ event[i].at \in Times /\ event[i].at <= now
    BY DEF Remotes, Statuses, TypeOK, NothingIsAhead
  <2>2. Interpret(is, event[i].at)
    BY <1>2 DEF HandleFailed
  <2> HIDE DEF is
  <2> QED BY <2>1, <2>2, InterpretPermits
<1>3. ASSUME Apply PROVE Permitted
  <2>1. rec.told \in Remotes /\ rec.told.status \in Statuses /\ rec.at \in Times /\ rec.at <= now
    BY <1>3 DEF TypeOK, EventsAreMade, Apply, NothingIsAhead
  <2> QED BY <1>3, <2>1, InterpretPermits DEF Apply
<1>4. ASSUME NEW k \in Kinds, NEW t \in Dues, TimerFires(k, t) PROVE Permitted
  <2>1. row'.is.end = row.is.end /\ row'.state = IF k = "grace" THEN "read_only" ELSE "canceled"
    BY <1>4 DEF TimerFires, TypeOK, Remotes
  <2> QED BY <1>4, <2>1 DEF TimerFires, Expired, Permitted
<1>5. ASSUME NEW i \in Ids, HandlePaid(i) PROVE Permitted
  BY <1>5 DEF HandlePaid, Write, LocksOut
<1>6. ASSUME NEW is \in Starts, Activate(is) PROVE Permitted
  BY <1>6 DEF Activate, Activated, Write, LocksOut
<1>7. CASE snap' = snap
  BY <1>7 DEF LocksOut
<1>8. \/ snap' = snap \/ Apply
      \/ \E is \in Starts : Activate(is)
      \/ \E i \in Ids : HandleSubscription(i) \/ HandlePaid(i) \/ HandleFailed(i)
      \/ \E k \in Kinds, t \in Dues : TimerFires(k, t)
  BY DEF Next, StripeMoves, Handle, Tick, OthersCome, Updates, Deletes, Bills, ActivationDies, Begin,
     HandleStale, Leave, Fails, Dies, TimerFails, Ask, Discard, vars, local
<1> QED BY <1>1, <1>2, <1>3, <1>4, <1>5, <1>6, <1>7, <1>8

(* Whoever writes, an access is taken away only when Stripe has given up   *)
(* on the payment, or the grace or the paid period is over.                *)
THEOREM NobodyLosesAccessEarly ==
  ASSUME SubscriptionsAssumption
  PROVE  Spec => NobodyIsLockedOutEarly
<1>1. SubscriptionInvariant /\ [Next]_vars => [LocksOut => Permitted]_vars
  BY StepPermits
<1>2. NobodyIsLockedOutEarly <=> [][LocksOut => Permitted]_vars
  BY PTL DEF NobodyIsLockedOutEarly, LocksOut, Permitted
<1> QED BY <1>1, <1>2, Invariance, PTL DEF Spec

(* A grace has an end, and a further failure does not move it. *)
GraceIsDated == row.state = "grace_period" => row.grace # None
GraceStays ==
  row'.state = "grace_period" =>
    row'.grace # None /\ (row.state = "grace_period" => row'.grace = row.grace)

LEMMA InterpretKeepsGrace ==
  ASSUME SubscriptionsAssumption, TypeOK, GraceIsDated, NEW is \in Remotes,
         is.status \in Statuses, NEW at \in Times, Interpret(is, at)
  PROVE  GraceStays
<1> DEFINE state == IF is.status = "past_due" /\ row.state = "read_only" THEN "read_only"
                    ELSE StateOf[is.status]
           grace == IF is.status = "past_due" THEN GraceEnd(at) ELSE None
<1>1. row'.state = state /\ row'.grace = grace
  BY DEF Interpret, Write
<1>2. state = "grace_period" => is.status = "past_due"
  BY DEF StateOf, Statuses
<1>3. GraceEnd(at) # None /\ (row.grace # None => GraceEnd(at) = row.grace)
  BY DEF GraceEnd, None, Times, SubscriptionsAssumption
<1> HIDE DEF state
<1> QED BY <1>1, <1>2, <1>3 DEF GraceStays, GraceIsDated

LEMMA GraceKept ==
  ASSUME SubscriptionsAssumption, SubscriptionInvariant, GraceIsDated, [Next]_vars
  PROVE  GraceStays
<1> USE DEF SubscriptionInvariant
<1>1. ASSUME NEW i \in Ids, HandleSubscription(i) PROVE GraceStays
  <2>1. busy[i] > 0
    BY <1>1 DEF HandleSubscription, Acts, Leave
  <2>2. event[i].is \in Remotes /\ event[i].is.status \in Statuses /\ event[i].at \in Times
    BY <2>1, AttemptedIsMade
  <2> QED BY <1>1, <2>2, InterpretKeepsGrace DEF HandleSubscription
<1>2. ASSUME NEW i \in Ids, HandleFailed(i) PROVE GraceStays
  <2> DEFINE is == [row.is EXCEPT !.status = "past_due"]
  <2>1. is \in Remotes /\ is.status \in Statuses /\ event[i].at \in Times
    BY DEF Remotes, Statuses, TypeOK
  <2>2. Interpret(is, event[i].at)
    BY <1>2 DEF HandleFailed
  <2> HIDE DEF is
  <2> QED BY <2>1, <2>2, InterpretKeepsGrace
<1>3. ASSUME Apply PROVE GraceStays
  <2>1. rec.told \in Remotes /\ rec.told.status \in Statuses /\ rec.at \in Times
    BY <1>3 DEF TypeOK, EventsAreMade, Apply
  <2> QED BY <1>3, <2>1, InterpretKeepsGrace DEF Apply
<1>4. ASSUME NEW k \in Kinds, NEW t \in Dues, TimerFires(k, t) PROVE GraceStays
  <2>1. row'.state = IF k = "grace" THEN "read_only" ELSE "canceled"
    BY <1>4 DEF TimerFires, TypeOK
  <2> QED BY <2>1 DEF GraceStays
<1>5. ASSUME NEW i \in Ids, HandlePaid(i) PROVE GraceStays
  <2>1. row'.state = "active"
    BY <1>5 DEF HandlePaid, Write, TypeOK
  <2> QED BY <2>1 DEF GraceStays
<1>6. ASSUME NEW is \in Starts, Activate(is) PROVE GraceStays
  BY <1>6 DEF Activate, Activated, Write, GraceStays, SubscriptionsAssumption
<1>7. CASE row' = row
  BY <1>7 DEF GraceStays, GraceIsDated
<1>8. \/ row' = row \/ Apply
      \/ \E is \in Starts : Activate(is)
      \/ \E i \in Ids : HandleSubscription(i) \/ HandlePaid(i) \/ HandleFailed(i)
      \/ \E k \in Kinds, t \in Dues : TimerFires(k, t)
  BY DEF Next, StripeMoves, Handle, Tick, OthersCome, Updates, Deletes, Bills, ActivationDies, Begin,
     HandleStale, Leave, Fails, Dies, TimerFails, Ask, Discard, vars, local
<1> QED BY <1>1, <1>2, <1>3, <1>4, <1>5, <1>6, <1>7, <1>8

(* Failures of payment that repeat, late or out of order, and whoever      *)
(* reports them, do not prolong the grace of the first.                    *)
THEOREM GraceEndsOnce == ASSUME SubscriptionsAssumption PROVE Spec => GraceIsNotProlonged
<1> DEFINE Stays == row.state = "grace_period" /\ row'.state = "grace_period" => row'.grace = row.grace
<1>1. Init => GraceIsDated
  BY DEF Init, GraceIsDated, NoRow
<1>2. SubscriptionInvariant /\ GraceIsDated /\ [Next]_vars => GraceIsDated' /\ [Stays]_vars
  BY GraceKept DEF GraceStays, GraceIsDated
<1>3. GraceIsNotProlonged <=> [][Stays]_vars
  BY PTL DEF GraceIsNotProlonged
<1> HIDE DEF Stays
<1> QED BY <1>1, <1>2, <1>3, Invariance, PTL DEF Spec
===============================================================================
