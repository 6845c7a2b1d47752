----------------------------- MODULE MediaProofs -----------------------------
(***************************************************************************)
(* Proofs about MediaAssets, for any number of assets, holds and           *)
(* publications, any sizes, limits and deadlines.                          *)
(*                                                                         *)
(* Types is inductive by itself.  UsageIsClaims is inductive with it: every*)
(* operation moves one or two reservations and the usage row by the same   *)
(* amounts (RowFollowsHold, UsageStaged).  TypeOK follows from both.       *)
(* StorageCountedOnce needs HoldFollowsAsset, and PageFilesKept needs what *)
(* FilesInvariant says of the pictures a publication shows.                *)
(***************************************************************************)
EXTENDS MediaAssets, PrefixSumsProofs

(* The form of TypeOK that is inductive: a difference of two integers is   *)
(* an integer; that it is not negative follows from UsageIsClaims.         *)
QuotaTypes ==
  /\ used \in Int /\ reserved \in Int
  /\ hold \in [Holds -> {"none", "reserved", "committed", "released"}]
  /\ amount \in [Holds -> Nat] /\ ttl \in [Holds -> Nat]
AssetTypes ==
  /\ state \in [Assets -> {"none", "pending", "uploaded", "ready", "rejected"}]
  /\ window \in [Assets -> Nat]
  /\ origin \in [Assets -> {"none", "upload", "template", "ai"}]
  /\ dropped \subseteq Assets /\ deleted \subseteq Assets /\ cleaned \subseteq deleted
  /\ stored \subseteq Assets \X {"original", "processed"}
ShownTypes ==
  /\ refs \in [Publications -> SUBSET Assets] /\ current \in 0..MaxPublications
  /\ entries \subseteq Assets /\ saving \subseteq Assets /\ units \subseteq Assets
Types ==
  /\ QuotaTypes /\ AssetTypes /\ ShownTypes
  /\ limit \in Limits /\ access \in {"full", "read_only", "blocked"}
  /\ listed \subseteq Holds
  /\ erased \in BOOLEAN
  /\ pending \subseteq Assets \X {"original", "processed"}

(* The constants, as the proofs use them: assets and headrooms hold under  *)
(* different keys, and no file is empty.                                   *)
LEMMA Keys ==
  ASSUME QuotasAssumption, MediaAssumption
  PROVE  /\ Assets \subseteq Holds /\ Headrooms \subseteq Holds
         /\ \A a \in Assets, h \in Headrooms : a # h
         /\ Sizes \subseteq Nat /\ 0 \notin Sizes
         /\ UploadTTL \in Nat /\ ProcessingTTL \in Nat
         /\ \A a \in Assets : Named(a) \subseteq Assets \X {"original", "processed"}
BY DEF QuotasAssumption, MediaAssumption, Assets, Headrooms, Holds, Named, Original,
   Processed

(* What each operation of quotas.py does to the types. *)
LEMMA ReserveType ==
  ASSUME QuotaTypes, Sizes \subseteq Nat, NEW h \in Holds, NEW n \in Sizes,
         NEW ticks \in Nat,
         Reserve(h, n, ticks)
  PROVE  QuotaTypes'
BY DEF QuotaTypes, Reserve

(* release_quota keeps the types. *)
LEMMA ReleaseType ==
  ASSUME QuotaTypes, Sizes \subseteq Nat, NEW h \in Holds, Release(h)
  PROVE  QuotaTypes'
<1>1. amount[h] \in Int
  BY DEF QuotaTypes
<1>2. reserved' \in Int
  BY <1>1 DEF QuotaTypes, Release
<1> QED BY <1>2 DEF QuotaTypes, Release

(* release_committed_quota keeps the types. *)
LEMMA ReleaseCommittedType ==
  ASSUME QuotaTypes, Sizes \subseteq Nat, NEW h \in Holds, ReleaseCommitted(h)
  PROVE  QuotaTypes'
<1>1. amount[h] \in Int
  BY DEF QuotaTypes
<1>2. used' \in Int
  BY <1>1 DEF QuotaTypes, ReleaseCommitted
<1> QED BY <1>2 DEF QuotaTypes, ReleaseCommitted

(* The adjustment with the commitment keeps the types. *)
LEMMA SettleType ==
  ASSUME QuotaTypes, Sizes \subseteq Nat, NEW h \in Holds, NEW n \in Sizes, Settle(h, n)
  PROVE  QuotaTypes'
<1>1. amount[h] \in Int
  BY DEF QuotaTypes
<1>2. used' \in Int /\ reserved' \in Int
  BY <1>1 DEF QuotaTypes, Settle
<1> QED BY <1>2 DEF QuotaTypes, Settle

(* extend_quota_reservation keeps the types. *)
LEMMA ExtendType ==
  ASSUME QuotaTypes, NEW h \in Holds, NEW ticks \in Nat, Extend(h, ticks)
  PROVE  QuotaTypes'
<1>1. ttl[h] \in Nat
  BY DEF QuotaTypes
<1> QED BY <1>1 DEF QuotaTypes, Extend, usage

(* A new publication references assets. *)
LEMMA RecordType ==
  ASSUME ShownTypes, MediaAssumption, NEW S \in SUBSET Assets, Record(S)
  PROVE  ShownTypes'
BY DEF ShownTypes, Record, Publications, MediaAssumption

(* Every step keeps the types. *)
LEMMA TypesNext ==
  ASSUME QuotasAssumption, MediaAssumption, Types, [Next]_vars
  PROVE  Types'
<1> USE Keys, Types DEF Types, vars, quotaVars, usage, claims, assetRows, shownVars,
   erasure, sweep, InMedia, InQuota, InSites
<1>1. ASSUME Tick PROVE Types'
  BY <1>1 DEF Tick, Less, QuotaTypes, AssetTypes, ShownTypes
<1>2. ASSUME Erase PROVE Types'
  BY <1>2 DEF Erase, RowsGone, QuotaTypes, AssetTypes, ShownTypes
<1>3. ASSUME Purge PROVE Types'
  BY <1>3 DEF Purge, QuotaTypes, AssetTypes, ShownTypes
<1>4. ASSUME NEW a \in Assets, ClientPuts(a) PROVE Types'
  BY <1>4 DEF ClientPuts, QuotaTypes, AssetTypes, ShownTypes, Original, Processed
<1>5. ASSUME NEW a \in Assets, Complete(a) PROVE Types'
  BY <1>5, ExtendType DEF Complete, AssetTypes, ShownTypes
<1>6. ASSUME NEW a \in Assets, NEW n \in Sizes, Initiate(a, n) PROVE Types'
  BY <1>6, ReserveType DEF Initiate, AssetTypes, ShownTypes
<1>7. ASSUME NEW a \in Assets, NEW m \in Sizes, NEW n \in Sizes, Materialize(a, m, n)
   PROVE Types'
  BY <1>7 DEF Materialize, QuotaTypes, AssetTypes, ShownTypes, Original, Processed
<1>8. ASSUME NEW h \in Headrooms, NEW a \in Assets, NEW n \in Sizes, StageGenerated(h,
   a, n) PROVE Types'
  <2>1. amount[h] \in Int /\ h \in Holds /\ a \in Holds /\ n \in Int
    BY DEF QuotaTypes
  <2>2. reserved' \in Int
    BY <1>8, <2>1 DEF StageGenerated, QuotaTypes
  <2> QED
    BY <1>8, <2>1, <2>2 DEF StageGenerated, QuotaTypes, AssetTypes, ShownTypes, Original
<1>9. ASSUME NEW a \in Assets, NEW made \in {"ai", "template"}, StagingDies(a, made)
   PROVE Types'
  BY <1>9 DEF StagingDies, QuotaTypes, AssetTypes, ShownTypes, Original, Processed
<1>10. ASSUME NEW a \in Assets, NEW n \in Sizes, BecomeReady(a, n) PROVE Types'
  BY <1>10, SettleType DEF BecomeReady, AssetTypes, ShownTypes, Processed
<1>11. ASSUME NEW a \in Assets, Reject(a) PROVE Types'
  BY <1>11, ReleaseType DEF Reject, AssetTypes, ShownTypes
<1>12. ASSUME NEW a \in Assets, ProcessingDies(a) PROVE Types'
  BY <1>12 DEF ProcessingDies, QuotaTypes, AssetTypes, ShownTypes, Original, Processed
<1>13. ASSUME NEW a \in Assets, KeepHold(a) PROVE Types'
  BY <1>13, ExtendType DEF KeepHold, AssetTypes, ShownTypes
<1>14. ASSUME NEW a \in Assets, DropSource(a) PROVE Types'
  BY <1>14 DEF DropSource, QuotaTypes, AssetTypes, ShownTypes
<1>15. ASSUME NEW a \in Assets, Tombstone(a) PROVE Types'
  BY <1>15 DEF Tombstone, QuotaTypes, AssetTypes, ShownTypes
<1>16. ASSUME NEW a \in Assets, Clean(a) PROVE Types'
  BY <1>16, ReleaseType, ReleaseCommittedType DEF Clean, CanClean, QuotaTypes,
     AssetTypes, ShownTypes
<1>17. ASSUME NEW a \in Assets, CleanDies(a) PROVE Types'
  BY <1>17 DEF CleanDies, CanClean, QuotaTypes, AssetTypes, ShownTypes
<1>18. ASSUME NEW S \in SUBSET Assets, Publish(S) PROVE Types'
  BY <1>18, RecordType DEF Publish, Record, InSites, QuotaTypes, AssetTypes
<1>19. ASSUME NEW S \in SUBSET Assets, Derive(S) PROVE Types'
  BY <1>19, RecordType DEF Derive, Record, InSites, QuotaTypes, AssetTypes
<1>20. ASSUME NEW p \in Publications, Rollback(p) PROVE Types'
  <2>1. refs[p] \in SUBSET Assets
    BY DEF ShownTypes
  <2> QED
    BY <1>20, <2>1, RecordType DEF Rollback, Record, QuotaTypes, AssetTypes
<1>21. ASSUME NEW a \in Assets, PublishEntry(a) PROVE Types'
  BY <1>21 DEF PublishEntry, QuotaTypes, AssetTypes, ShownTypes
<1>22. ASSUME NEW a \in Assets, WithdrawEntry(a) PROVE Types'
  BY <1>22 DEF WithdrawEntry, QuotaTypes, AssetTypes, ShownTypes
<1>23. ASSUME NEW a \in Assets, CheckUnitPhoto(a) PROVE Types'
  BY <1>23 DEF CheckUnitPhoto, QuotaTypes, AssetTypes, ShownTypes
<1>24. ASSUME NEW a \in Assets, SaveUnit(a) PROVE Types'
  BY <1>24 DEF SaveUnit, QuotaTypes, AssetTypes, ShownTypes
<1>25. ASSUME NEW a \in Assets, RemoveUnitPhoto(a) PROVE Types'
  BY <1>25 DEF RemoveUnitPhoto, QuotaTypes, AssetTypes, ShownTypes
<1>26. ASSUME NEW h \in Headrooms, FreeHeadroom(h) PROVE Types'
  BY <1>26, ReleaseType DEF FreeHeadroom, AssetTypes, ShownTypes
<1>27. ASSUME NEW h \in Headrooms, NEW n \in Sizes, HoldHeadroom(h, n) PROVE Types'
  BY <1>27, ReserveType DEF HoldHeadroom, AssetTypes, ShownTypes
<1>28. ASSUME StartSweep PROVE Types'
  BY <1>28 DEF StartSweep, SweepLists, QuotaTypes, AssetTypes, ShownTypes
<1>29. ASSUME AbandonSweep PROVE Types'
  BY <1>29 DEF AbandonSweep, SweepDies, QuotaTypes, AssetTypes, ShownTypes
<1>30. ASSUME PlanChanges PROVE Types'
  BY <1>30 DEF PlanChanges, ChangeEntitlement, QuotaTypes, AssetTypes, ShownTypes
<1>31. ASSUME NEW h \in Holds, SweepOne(h) PROVE Types'
  BY <1>31, ReleaseType DEF SweepOne, SweepReleases, QuotaTypes, AssetTypes, ShownTypes
<1>32. CASE UNCHANGED vars
  BY <1>32 DEF QuotaTypes, AssetTypes, ShownTypes
<1> QED
  BY <1>1, <1>2, <1>3, <1>4, <1>5, <1>6, <1>7, <1>8, <1>9, <1>10, <1>11, <1>12, <1>13,
     <1>14, <1>15, <1>16, <1>17, <1>18, <1>19, <1>20, <1>21, <1>22, <1>23, <1>24, <1>25,
     <1>26, <1>27, <1>28, <1>29, <1>30, <1>31, <1>32
     DEF Next, Upload, Process, Delete, Show, Headroom
-----------------------------------------------------------------------------
(* Two rows move the total by the change of both. *)
LEMMA SumToTwoChanges ==
  ASSUME NEW n \in Nat, NEW f \in [1..n -> Int], NEW g \in [1..n -> Int],
         NEW k \in 1..n, NEW l \in 1..n, k # l,
         \A i \in 1..n : i # k /\ i # l => g[i] = f[i]
  PROVE  SumTo(g, n) = SumTo(f, n) + g[k] - f[k] + g[l] - f[l]
<1> DEFINE m == [f EXCEPT ![k] = g[k]]
<1>1. m \in [1..n -> Int] /\ m[k] = g[k] /\ m[l] = f[l]
  OBVIOUS
<1>2. SumTo(m, n) = SumTo(f, n) + m[k] - f[k]
  <2>1. \A i \in 1..n : i # k => m[i] = f[i]
    OBVIOUS
  <2> HIDE DEF m
  <2> QED BY <1>1, <2>1, SumToChange
<1>3. SumTo(g, n) = SumTo(m, n) + g[l] - m[l]
  <2>1. \A i \in 1..n : i # l => g[i] = m[i]
    OBVIOUS
  <2> HIDE DEF m
  <2> QED BY <1>1, <2>1, SumToChange
<1>4. SumTo(f, n) \in Int
  BY SumToType
<1> HIDE DEF m
<1> QED BY <1>1, <1>2, <1>3, <1>4

(* What one reservation adds to the total of those in state s. *)
Worth(s, h) == IF hold[h] = s THEN amount[h] ELSE 0

(* The claims of one state, as a function that can be summed. *)
LEMMA ClaimedType ==
  ASSUME QuotaTypes, NEW s
  PROVE  /\ Claimed(s) \in [1..NumHolds -> Int]
         /\ \A h \in Holds : Claimed(s)[h] = Worth(s, h)
BY DEF QuotaTypes, Claimed, Worth, Holds

(* One reservation changes and the row follows it. *)
LEMMA RowFollowsHold ==
  ASSUME QuotasAssumption, QuotaTypes, QuotaTypes', UsageIsClaims, NEW h \in Holds,
         \A k \in Holds : k # h => hold'[k] = hold[k] /\ amount'[k] = amount[k],
         reserved' = reserved + Worth("reserved", h)' - Worth("reserved", h),
         used' = used + Worth("committed", h)' - Worth("committed", h)
  PROVE  UsageIsClaims'
<1>1. ASSUME NEW s
      PROVE  SumTo(Claimed(s)', NumHolds)
               = SumTo(Claimed(s), NumHolds) + Worth(s, h)' - Worth(s, h)
  <2>1. Claimed(s) \in [1..NumHolds -> Int] /\ Claimed(s)' \in [1..NumHolds -> Int]
    BY DEF QuotaTypes, Claimed, Holds
  <2>2. \A k \in 1..NumHolds : k # h => Claimed(s)'[k] = Claimed(s)[k]
    BY DEF Claimed, Holds
  <2>3. Claimed(s)[h] = Worth(s, h) /\ Claimed(s)'[h] = Worth(s, h)'
    BY DEF Claimed, Worth
  <2>4. NumHolds \in Nat /\ h \in 1..NumHolds
    BY DEF QuotasAssumption, Holds
  <2> QED BY <2>1, <2>2, <2>3, <2>4, SumToChange
<1> QED BY <1>1 DEF UsageIsClaims

(* Nothing changes a reservation or the row. *)
LEMMA RowStays ==
  ASSUME UsageIsClaims, UNCHANGED <<used, reserved, hold, amount>>
  PROVE  UsageIsClaims'
BY DEF UsageIsClaims, Claimed

(* The operations of quotas.py, each on one reservation. *)
LEMMA UsageReserve ==
  ASSUME QuotasAssumption, QuotaTypes, QuotaTypes', UsageIsClaims, NEW h \in Holds,
         NEW n \in Nat, NEW ticks \in Nat, Reserve(h, n, ticks)
  PROVE  UsageIsClaims'
<1>1. \A k \in Holds : k # h => hold'[k] = hold[k] /\ amount'[k] = amount[k]
  BY DEF Reserve, QuotaTypes
<1>2. /\ reserved' = reserved + Worth("reserved", h)' - Worth("reserved", h)
      /\ used' = used + Worth("committed", h)' - Worth("committed", h)
  BY DEF Reserve, CanReserve, QuotaTypes, Worth
<1> QED BY <1>1, <1>2, RowFollowsHold

(* release_quota, of a reservation that is held or was released before. *)
LEMMA UsageRelease ==
  ASSUME QuotasAssumption, QuotaTypes, QuotaTypes', UsageIsClaims, NEW h \in Holds,
         Release(h)
  PROVE  UsageIsClaims'
<1>1. \A k \in Holds : k # h => hold'[k] = hold[k] /\ amount'[k] = amount[k]
  BY DEF Release, QuotaTypes
<1>2. amount[h] \in Nat
  BY DEF QuotaTypes
<1>3. /\ reserved' = reserved + Worth("reserved", h)' - Worth("reserved", h)
      /\ used' = used + Worth("committed", h)' - Worth("committed", h)
  BY <1>2 DEF Release, QuotaTypes, Worth
<1> QED BY <1>1, <1>3, RowFollowsHold

(* release_committed_quota. *)
LEMMA UsageReleaseCommitted ==
  ASSUME QuotasAssumption, QuotaTypes, QuotaTypes', UsageIsClaims, NEW h \in Holds,
         ReleaseCommitted(h)
  PROVE  UsageIsClaims'
<1>1. \A k \in Holds : k # h => hold'[k] = hold[k] /\ amount'[k] = amount[k]
  BY DEF ReleaseCommitted, QuotaTypes
<1>2. amount[h] \in Nat
  BY DEF QuotaTypes
<1>3. /\ reserved' = reserved + Worth("reserved", h)' - Worth("reserved", h)
      /\ used' = used + Worth("committed", h)' - Worth("committed", h)
  BY <1>2 DEF ReleaseCommitted, QuotaTypes, Worth
<1> QED BY <1>1, <1>3, RowFollowsHold

(* The adjustment with the commitment, to a larger or smaller amount. *)
LEMMA UsageSettle ==
  ASSUME QuotasAssumption, QuotaTypes, QuotaTypes', UsageIsClaims, NEW h \in Holds,
         NEW n \in Nat, Settle(h, n)
  PROVE  UsageIsClaims'
<1>1. \A k \in Holds : k # h => hold'[k] = hold[k] /\ amount'[k] = amount[k]
  BY DEF Settle, QuotaTypes
<1>2. amount[h] \in Nat
  BY DEF QuotaTypes
<1>3. /\ reserved' = reserved + Worth("reserved", h)' - Worth("reserved", h)
      /\ used' = used + Worth("committed", h)' - Worth("committed", h)
  BY <1>2 DEF Settle, CanSettle, QuotaTypes, Worth
<1> QED BY <1>1, <1>3, RowFollowsHold

(* Staging moves two reservations: the headroom's and the asset's. *)
LEMMA UsageStaged ==
  ASSUME QuotasAssumption, MediaAssumption, QuotaTypes, QuotaTypes', UsageIsClaims,
         NEW h \in Headrooms, NEW a \in Assets, NEW n \in Sizes, StageGenerated(h, a, n)
  PROVE  UsageIsClaims'
<1>1. h \in 1..NumHolds /\ a \in 1..NumHolds /\ a # h /\ NumHolds \in Nat /\ n \in Nat
  BY Keys DEF Holds, QuotasAssumption
<1>2. amount[h] \in Nat /\ amount[a] \in Nat
  BY <1>1 DEF QuotaTypes, Holds
<1>3. ASSUME NEW s
      PROVE  SumTo(Claimed(s)', NumHolds)
               = SumTo(Claimed(s), NumHolds) + Worth(s, h)' - Worth(s, h)
                   + Worth(s, a)' - Worth(s, a)
  <2>1. Claimed(s) \in [1..NumHolds -> Int] /\ Claimed(s)' \in [1..NumHolds -> Int]
    BY DEF QuotaTypes, Claimed, Holds
  <2>2. \A k \in 1..NumHolds : k # h /\ k # a => Claimed(s)'[k] = Claimed(s)[k]
    BY DEF Claimed, Holds, StageGenerated, QuotaTypes
  <2>3. /\ Claimed(s)[h] = Worth(s, h) /\ Claimed(s)'[h] = Worth(s, h)'
        /\ Claimed(s)[a] = Worth(s, a) /\ Claimed(s)'[a] = Worth(s, a)'
    BY <1>1 DEF Claimed, Worth, Holds
  <2>4. SumTo(Claimed(s)', NumHolds)
          = SumTo(Claimed(s), NumHolds) + Claimed(s)'[h] - Claimed(s)[h]
              + Claimed(s)'[a] - Claimed(s)[a]
    <3> DEFINE f == Claimed(s)
               g == Claimed(s)'
    <3>1. h # a
      BY <1>1
    <3> HIDE DEF f, g
    <3> QED BY <1>1, <2>1, <2>2, <3>1, SumToTwoChanges DEF f, g
  <2> QED BY <2>3, <2>4, Zenon
<1>4. /\ Worth("committed", h) = 0 /\ Worth("committed", h)' = 0
      /\ Worth("committed", a) = 0 /\ Worth("committed", a)' = 0
      /\ Worth("reserved", h)' = 0 /\ Worth("reserved", a)' = n
      /\ Worth("reserved", a) = 0
      /\ reserved' = reserved - Worth("reserved", h) + n
      /\ used' = used
  BY <1>1, <1>2 DEF StageGenerated, CanReserve, QuotaTypes, Worth, Holds
<1>5. Worth("reserved", h) \in Nat
  BY <1>2 DEF Worth
<1> QED BY <1>1, <1>3, <1>4, <1>5 DEF UsageIsClaims, QuotaTypes

(* Every step keeps the usage row what the reservations say. *)
LEMMA UsageNext ==
  ASSUME QuotasAssumption, MediaAssumption, Types, Types', UsageIsClaims, [Next]_vars
  PROVE  UsageIsClaims'
<1> USE Keys, Types, Types' DEF Types
<1>1. ASSUME Tick PROVE UsageIsClaims'
  BY <1>1, RowStays DEF Tick, Less, vars, quotaVars, usage, claims, assetRows,
     shownVars, erasure, sweep, InMedia, InQuota, InSites
<1>2. ASSUME Erase PROVE UsageIsClaims'
  <2>1. /\ hold' = [h \in Holds |-> "none"]
        /\ used' = 0 /\ reserved' = 0
    BY <1>2 DEF Erase, RowsGone
  <2>2. ASSUME NEW s \in {"reserved", "committed"} PROVE SumTo(Claimed(s)', NumHolds) =
     0
    <3>1. Claimed(s)' \in [1..NumHolds -> Int] /\ \A k \in 1..NumHolds : Claimed(s)'[k]
       = 0
      BY <2>1 DEF Claimed, Holds
    <3> QED BY <3>1, SumToZero DEF QuotasAssumption
  <2> QED BY <2>1, <2>2 DEF UsageIsClaims
<1>3. ASSUME Purge PROVE UsageIsClaims'
  BY <1>3, RowStays DEF Purge, vars, quotaVars, usage, claims, assetRows, shownVars,
     erasure, sweep, InMedia, InQuota, InSites
<1>4. ASSUME NEW a \in Assets, ClientPuts(a) PROVE UsageIsClaims'
  BY <1>4, RowStays DEF ClientPuts, vars, quotaVars, usage, claims, assetRows,
     shownVars, erasure, sweep, InMedia, InQuota, InSites
<1>5. ASSUME NEW a \in Assets, Complete(a) PROVE UsageIsClaims'
  BY <1>5, RowStays DEF Complete, Extend, vars, quotaVars, usage, claims, assetRows,
     shownVars, erasure, sweep, InMedia, InQuota, InSites
<1>6. ASSUME NEW a \in Assets, NEW n \in Sizes, Initiate(a, n) PROVE UsageIsClaims'
  BY <1>6, UsageReserve DEF Initiate
<1>7. ASSUME NEW a \in Assets, NEW m \in Sizes, NEW n \in Sizes, Materialize(a, m, n)
   PROVE UsageIsClaims'
  <2>1. a \in Holds /\ n \in Nat
    OBVIOUS
  <2>2. \A k \in Holds : k # a => hold'[k] = hold[k] /\ amount'[k] = amount[k]
    BY <1>7 DEF Materialize, QuotaTypes
  <2>3. /\ reserved' = reserved + Worth("reserved", a)' - Worth("reserved", a)
        /\ used' = used + Worth("committed", a)' - Worth("committed", a)
    BY <1>7, <2>1 DEF Materialize, CanReserve, QuotaTypes, Worth
  <2> QED BY <2>1, <2>2, <2>3, RowFollowsHold
<1>8. ASSUME NEW h \in Headrooms, NEW a \in Assets, NEW n \in Sizes, StageGenerated(h,
   a, n) PROVE UsageIsClaims'
  BY <1>8, UsageStaged
<1>9. ASSUME NEW a \in Assets, NEW made \in {"ai", "template"}, StagingDies(a, made)
   PROVE UsageIsClaims'
  BY <1>9, RowStays DEF StagingDies, vars, quotaVars, usage, claims, assetRows,
     shownVars, erasure, sweep, InMedia, InQuota, InSites
<1>10. ASSUME NEW a \in Assets, NEW n \in Sizes, BecomeReady(a, n) PROVE UsageIsClaims'
  BY <1>10, UsageSettle DEF BecomeReady
<1>11. ASSUME NEW a \in Assets, Reject(a) PROVE UsageIsClaims'
  BY <1>11, UsageRelease DEF Reject
<1>12. ASSUME NEW a \in Assets, ProcessingDies(a) PROVE UsageIsClaims'
  BY <1>12, RowStays DEF ProcessingDies, vars, quotaVars, usage, claims, assetRows,
     shownVars, erasure, sweep, InMedia, InQuota, InSites
<1>13. ASSUME NEW a \in Assets, KeepHold(a) PROVE UsageIsClaims'
  BY <1>13, RowStays DEF KeepHold, Extend, vars, quotaVars, usage, claims, assetRows,
     shownVars, erasure, sweep, InMedia, InQuota, InSites
<1>14. ASSUME NEW a \in Assets, DropSource(a) PROVE UsageIsClaims'
  BY <1>14, RowStays DEF DropSource, vars, quotaVars, usage, claims, assetRows,
     shownVars, erasure, sweep, InMedia, InQuota, InSites
<1>15. ASSUME NEW a \in Assets, Tombstone(a) PROVE UsageIsClaims'
  BY <1>15, RowStays DEF Tombstone, vars, quotaVars, usage, claims, assetRows,
     shownVars, erasure, sweep, InMedia, InQuota, InSites
<1>16. ASSUME NEW a \in Assets, Clean(a) PROVE UsageIsClaims'
  BY <1>16, UsageRelease, UsageReleaseCommitted, RowStays DEF Clean, usage, claims
<1>17. ASSUME NEW a \in Assets, CleanDies(a) PROVE UsageIsClaims'
  BY <1>17, RowStays DEF CleanDies, CanClean, vars, quotaVars, usage, claims, assetRows,
     shownVars, erasure, sweep, InMedia, InQuota, InSites
<1>18. ASSUME NEW S \in SUBSET Assets, Publish(S) PROVE UsageIsClaims'
  BY <1>18, RowStays DEF Publish, Record, vars, quotaVars, usage, claims, assetRows,
     shownVars, erasure, sweep, InMedia, InQuota, InSites
<1>19. ASSUME NEW S \in SUBSET Assets, Derive(S) PROVE UsageIsClaims'
  BY <1>19, RowStays DEF Derive, Record, vars, quotaVars, usage, claims, assetRows,
     shownVars, erasure, sweep, InMedia, InQuota, InSites
<1>20. ASSUME NEW p \in Publications, Rollback(p) PROVE UsageIsClaims'
  BY <1>20, RowStays DEF Rollback, Record, vars, quotaVars, usage, claims, assetRows,
     shownVars, erasure, sweep, InMedia, InQuota, InSites
<1>21. ASSUME NEW a \in Assets, PublishEntry(a) PROVE UsageIsClaims'
  BY <1>21, RowStays DEF PublishEntry, vars, quotaVars, usage, claims, assetRows,
     shownVars, erasure, sweep, InMedia, InQuota, InSites
<1>22. ASSUME NEW a \in Assets, WithdrawEntry(a) PROVE UsageIsClaims'
  BY <1>22, RowStays DEF WithdrawEntry, vars, quotaVars, usage, claims, assetRows,
     shownVars, erasure, sweep, InMedia, InQuota, InSites
<1>23. ASSUME NEW a \in Assets, CheckUnitPhoto(a) PROVE UsageIsClaims'
  BY <1>23, RowStays DEF CheckUnitPhoto, vars, quotaVars, usage, claims, assetRows,
     shownVars, erasure, sweep, InMedia, InQuota, InSites
<1>24. ASSUME NEW a \in Assets, SaveUnit(a) PROVE UsageIsClaims'
  BY <1>24, RowStays DEF SaveUnit, vars, quotaVars, usage, claims, assetRows, shownVars,
     erasure, sweep, InMedia, InQuota, InSites
<1>25. ASSUME NEW a \in Assets, RemoveUnitPhoto(a) PROVE UsageIsClaims'
  BY <1>25, RowStays DEF RemoveUnitPhoto, vars, quotaVars, usage, claims, assetRows,
     shownVars, erasure, sweep, InMedia, InQuota, InSites
<1>26. ASSUME NEW h \in Headrooms, FreeHeadroom(h) PROVE UsageIsClaims'
  BY <1>26, UsageRelease DEF FreeHeadroom
<1>27. ASSUME NEW h \in Headrooms, NEW n \in Sizes, HoldHeadroom(h, n) PROVE
   UsageIsClaims'
  BY <1>27, UsageReserve DEF HoldHeadroom
<1>28. ASSUME StartSweep PROVE UsageIsClaims'
  BY <1>28, RowStays DEF StartSweep, SweepLists, vars, quotaVars, usage, claims,
     assetRows, shownVars, erasure, sweep, InMedia, InQuota, InSites
<1>29. ASSUME AbandonSweep PROVE UsageIsClaims'
  BY <1>29, RowStays DEF AbandonSweep, SweepDies, vars, quotaVars, usage, claims,
     assetRows, shownVars, erasure, sweep, InMedia, InQuota, InSites
<1>30. ASSUME PlanChanges PROVE UsageIsClaims'
  BY <1>30, RowStays DEF PlanChanges, ChangeEntitlement, vars, quotaVars, usage, claims,
     assetRows, shownVars, erasure, sweep, InMedia, InQuota, InSites
<1>31. ASSUME NEW h \in Holds, SweepOne(h) PROVE UsageIsClaims'
  BY <1>31, UsageRelease, RowStays DEF SweepOne, SweepReleases, usage, claims
<1>32. CASE UNCHANGED vars
  BY <1>32, RowStays DEF vars, quotaVars, usage, claims
<1> QED
  BY <1>1, <1>2, <1>3, <1>4, <1>5, <1>6, <1>7, <1>8, <1>9, <1>10, <1>11, <1>12, <1>13,
     <1>14, <1>15, <1>16, <1>17, <1>18, <1>19, <1>20, <1>21, <1>22, <1>23, <1>24, <1>25,
     <1>26, <1>27, <1>28, <1>29, <1>30, <1>31, <1>32
     DEF Next, Upload, Process, Delete, Show, Headroom
-----------------------------------------------------------------------------
(* An asset's hold follows its row: no row, no hold; and while a signed    *)
(* URL is open its hold runs at least as long, so no sweep takes it.       *)
HoldFollowsAsset ==
  \A a \in Assets :
    /\ state[a] = "none" <=> hold[a] = "none"
    /\ a \in deleted => state[a] # "none"
    /\ state[a] = "pending" /\ window[a] > 0 /\ a \notin cleaned => ttl[a] >= window[a]

(* What is ready and may be shown has its files; what a publication shows  *)
(* was ready, is not cleaned, and has them.                                *)
ReadyHasFiles ==
  \A a \in Assets : state[a] = "ready" /\ a \notin deleted => Processed(a) \in stored
ShownStaysReady ==
  /\ \A p \in Publications : \A a \in refs[p] : state[a] = "ready" /\ a \notin cleaned
  /\ \A a \in entries \cup saving \cup units : state[a] = "ready"
ErasedIsEmpty ==
  erased => /\ \A p \in Publications : refs[p] = {}
            /\ entries \cup saving \cup units = {}
            /\ \A a \in Assets : state[a] = "none"

FilesInvariant ==
  ReadyHasFiles /\ ShownStaysReady /\ PageFilesKept /\ ErasedIsEmpty
HoldsInvariant == HoldFollowsAsset /\ StorageCountedOnce

(* Every step keeps the holds with their assets. *)
LEMMA HoldsNext ==
  ASSUME QuotasAssumption, MediaAssumption, Types, Types', HoldsInvariant, [Next]_vars
  PROVE  HoldsInvariant'
<1> USE Keys, HoldsInvariant DEF HoldsInvariant, HoldFollowsAsset, StorageCountedOnce,
      Types, QuotaTypes, AssetTypes,
      vars, quotaVars, usage, claims, assetRows, shownVars, erasure, sweep,
      InMedia, InQuota, InSites
<1>1. ASSUME Tick PROVE HoldsInvariant'
  BY <1>1 DEF Tick, Less
<1>2. ASSUME Erase PROVE HoldsInvariant'
  BY <1>2 DEF Erase, RowsGone
<1>3. ASSUME Purge PROVE HoldsInvariant'
  BY <1>3 DEF Purge
<1>4. ASSUME NEW a \in Assets, ClientPuts(a) PROVE HoldsInvariant'
  BY <1>4 DEF ClientPuts
<1>5. ASSUME NEW a \in Assets, Complete(a) PROVE HoldsInvariant'
  BY <1>5 DEF Complete, Extend
<1>6. ASSUME NEW a \in Assets, NEW n \in Sizes, Initiate(a, n) PROVE HoldsInvariant'
  BY <1>6 DEF Initiate, Reserve, CanReserve
<1>7. ASSUME NEW a \in Assets, NEW m \in Sizes, NEW n \in Sizes, Materialize(a, m, n)
   PROVE HoldsInvariant'
  BY <1>7 DEF Materialize, CanReserve
<1>8. ASSUME NEW h \in Headrooms, NEW a \in Assets, NEW n \in Sizes, StageGenerated(h,
   a, n) PROVE HoldsInvariant'
  BY <1>8 DEF StageGenerated, CanReserve
<1>9. ASSUME NEW a \in Assets, NEW made \in {"ai", "template"}, StagingDies(a, made)
   PROVE HoldsInvariant'
  BY <1>9 DEF StagingDies
<1>10. ASSUME NEW a \in Assets, NEW n \in Sizes, BecomeReady(a, n) PROVE HoldsInvariant'
  BY <1>10 DEF BecomeReady, Settle, CanSettle, Processable
<1>11. ASSUME NEW a \in Assets, Reject(a) PROVE HoldsInvariant'
  BY <1>11 DEF Reject, Release, Processable
<1>12. ASSUME NEW a \in Assets, ProcessingDies(a) PROVE HoldsInvariant'
  BY <1>12 DEF ProcessingDies, Processable
<1>13. ASSUME NEW a \in Assets, KeepHold(a) PROVE HoldsInvariant'
  BY <1>13 DEF KeepHold, Extend
<1>14. ASSUME NEW a \in Assets, DropSource(a) PROVE HoldsInvariant'
  BY <1>14 DEF DropSource
<1>15. ASSUME NEW a \in Assets, Tombstone(a) PROVE HoldsInvariant'
  BY <1>15 DEF Tombstone
<1>16. ASSUME NEW a \in Assets, Clean(a) PROVE HoldsInvariant'
  BY <1>16 DEF Clean, CanClean, Release, ReleaseCommitted
<1>17. ASSUME NEW a \in Assets, CleanDies(a) PROVE HoldsInvariant'
  BY <1>17 DEF CleanDies, CanClean
<1>18. ASSUME NEW S \in SUBSET Assets, Publish(S) PROVE HoldsInvariant'
  BY <1>18 DEF Publish, Record
<1>19. ASSUME NEW S \in SUBSET Assets, Derive(S) PROVE HoldsInvariant'
  BY <1>19 DEF Derive, Record
<1>20. ASSUME NEW p \in Publications, Rollback(p) PROVE HoldsInvariant'
  BY <1>20 DEF Rollback, Record
<1>21. ASSUME NEW a \in Assets, PublishEntry(a) PROVE HoldsInvariant'
  BY <1>21 DEF PublishEntry
<1>22. ASSUME NEW a \in Assets, WithdrawEntry(a) PROVE HoldsInvariant'
  BY <1>22 DEF WithdrawEntry
<1>23. ASSUME NEW a \in Assets, CheckUnitPhoto(a) PROVE HoldsInvariant'
  BY <1>23 DEF CheckUnitPhoto, Usable
<1>24. ASSUME NEW a \in Assets, SaveUnit(a) PROVE HoldsInvariant'
  BY <1>24 DEF SaveUnit
<1>25. ASSUME NEW a \in Assets, RemoveUnitPhoto(a) PROVE HoldsInvariant'
  BY <1>25 DEF RemoveUnitPhoto
<1>26. ASSUME NEW h \in Headrooms, FreeHeadroom(h) PROVE HoldsInvariant'
  BY <1>26 DEF FreeHeadroom, Release
<1>27. ASSUME NEW h \in Headrooms, NEW n \in Sizes, HoldHeadroom(h, n) PROVE
   HoldsInvariant'
  BY <1>27 DEF HoldHeadroom, Reserve, CanReserve
<1>28. ASSUME StartSweep PROVE HoldsInvariant'
  BY <1>28 DEF StartSweep, SweepLists
<1>29. ASSUME AbandonSweep PROVE HoldsInvariant'
  BY <1>29 DEF AbandonSweep, SweepDies
<1>30. ASSUME PlanChanges PROVE HoldsInvariant'
  BY <1>30 DEF PlanChanges, ChangeEntitlement
<1>31. ASSUME NEW h \in Holds, SweepOne(h) PROVE HoldsInvariant'
  BY <1>31 DEF SweepOne, SweepReleases, Release, Overdue
<1>32. CASE UNCHANGED vars
  BY <1>32
<1> QED
  BY <1>1, <1>2, <1>3, <1>4, <1>5, <1>6, <1>7, <1>8, <1>9, <1>10, <1>11, <1>12, <1>13,
     <1>14, <1>15, <1>16, <1>17, <1>18, <1>19, <1>20, <1>21, <1>22, <1>23, <1>24, <1>25,
     <1>26, <1>27, <1>28, <1>29, <1>30, <1>31, <1>32
     DEF Next, Upload, Process, Delete, Show, Headroom

(* Every step keeps the files of what is shown. *)
LEMMA FilesNext ==
  ASSUME QuotasAssumption, MediaAssumption, Types, Types', FilesInvariant, [Next]_vars
  PROVE  FilesInvariant'
<1> USE Keys, FilesInvariant DEF FilesInvariant, ReadyHasFiles, ShownStaysReady,
      PageFilesKept, ErasedIsEmpty, Types, AssetTypes, ShownTypes,
      vars, quotaVars, usage, claims, assetRows, shownVars, erasure, sweep,
      InMedia, InQuota, InSites
<1>1. ASSUME Tick PROVE FilesInvariant'
  BY <1>1 DEF Tick, Less
<1>2. ASSUME Erase PROVE FilesInvariant'
  BY <1>2 DEF Erase, RowsGone
<1>3. ASSUME Purge PROVE FilesInvariant'
  BY <1>3 DEF Purge
<1>4. ASSUME NEW a \in Assets, ClientPuts(a) PROVE FilesInvariant'
  BY <1>4 DEF ClientPuts, Original, Processed
<1>5. ASSUME NEW a \in Assets, Complete(a) PROVE FilesInvariant'
  BY <1>5 DEF Complete, Extend
<1>6. ASSUME NEW a \in Assets, NEW n \in Sizes, Initiate(a, n) PROVE FilesInvariant'
  BY <1>6 DEF Initiate, Reserve, CanReserve
<1>7. ASSUME NEW a \in Assets, NEW m \in Sizes, NEW n \in Sizes, Materialize(a, m, n)
   PROVE FilesInvariant'
  BY <1>7 DEF Materialize, CanReserve, Original, Processed
<1>8. ASSUME NEW h \in Headrooms, NEW a \in Assets, NEW n \in Sizes, StageGenerated(h,
   a, n) PROVE FilesInvariant'
  BY <1>8 DEF StageGenerated, CanReserve, Original, Processed
<1>9. ASSUME NEW a \in Assets, NEW made \in {"ai", "template"}, StagingDies(a, made)
   PROVE FilesInvariant'
  BY <1>9 DEF StagingDies, Original, Processed
<1>10. ASSUME NEW a \in Assets, NEW n \in Sizes, BecomeReady(a, n) PROVE FilesInvariant'
  BY <1>10 DEF BecomeReady, Settle, CanSettle, Processable, Original, Processed
<1>11. ASSUME NEW a \in Assets, Reject(a) PROVE FilesInvariant'
  BY <1>11 DEF Reject, Release, Processable, Original, Processed
<1>12. ASSUME NEW a \in Assets, ProcessingDies(a) PROVE FilesInvariant'
  BY <1>12 DEF ProcessingDies, Processable, Original, Processed
<1>13. ASSUME NEW a \in Assets, KeepHold(a) PROVE FilesInvariant'
  BY <1>13 DEF KeepHold, Extend
<1>14. ASSUME NEW a \in Assets, DropSource(a) PROVE FilesInvariant'
  BY <1>14 DEF DropSource, Original, Processed
<1>15. ASSUME NEW a \in Assets, Tombstone(a) PROVE FilesInvariant'
  BY <1>15 DEF Tombstone
<1>16. ASSUME NEW a \in Assets, Clean(a) PROVE FilesInvariant'
  BY <1>16 DEF Clean, CanClean, Shown, Named, Original, Processed
<1>17. ASSUME NEW a \in Assets, CleanDies(a) PROVE FilesInvariant'
  BY <1>17 DEF CleanDies, CanClean, Shown, Named, Original, Processed
<1>18. ASSUME NEW S \in SUBSET Assets, Publish(S) PROVE FilesInvariant'
  BY <1>18 DEF Publish, Record, Usable, Publications
<1>19. ASSUME NEW S \in SUBSET Assets, Derive(S) PROVE FilesInvariant'
  BY <1>19 DEF Derive, Record, Usable, Carried, Publications
<1>20. ASSUME NEW p \in Publications, Rollback(p) PROVE FilesInvariant'
  BY <1>20 DEF Rollback, Record, Publications
<1>21. ASSUME NEW a \in Assets, PublishEntry(a) PROVE FilesInvariant'
  BY <1>21 DEF PublishEntry
<1>22. ASSUME NEW a \in Assets, WithdrawEntry(a) PROVE FilesInvariant'
  BY <1>22 DEF WithdrawEntry
<1>23. ASSUME NEW a \in Assets, CheckUnitPhoto(a) PROVE FilesInvariant'
  BY <1>23 DEF CheckUnitPhoto, Usable
<1>24. ASSUME NEW a \in Assets, SaveUnit(a) PROVE FilesInvariant'
  BY <1>24 DEF SaveUnit
<1>25. ASSUME NEW a \in Assets, RemoveUnitPhoto(a) PROVE FilesInvariant'
  BY <1>25 DEF RemoveUnitPhoto
<1>26. ASSUME NEW h \in Headrooms, FreeHeadroom(h) PROVE FilesInvariant'
  BY <1>26 DEF FreeHeadroom, Release
<1>27. ASSUME NEW h \in Headrooms, NEW n \in Sizes, HoldHeadroom(h, n) PROVE
   FilesInvariant'
  BY <1>27 DEF HoldHeadroom, Reserve, CanReserve
<1>28. ASSUME StartSweep PROVE FilesInvariant'
  BY <1>28 DEF StartSweep, SweepLists
<1>29. ASSUME AbandonSweep PROVE FilesInvariant'
  BY <1>29 DEF AbandonSweep, SweepDies
<1>30. ASSUME PlanChanges PROVE FilesInvariant'
  BY <1>30 DEF PlanChanges, ChangeEntitlement
<1>31. ASSUME NEW h \in Holds, SweepOne(h) PROVE FilesInvariant'
  BY <1>31 DEF SweepOne, SweepReleases, Release, Overdue
<1>32. CASE UNCHANGED vars
  BY <1>32
<1> QED
  BY <1>1, <1>2, <1>3, <1>4, <1>5, <1>6, <1>7, <1>8, <1>9, <1>10, <1>11, <1>12, <1>13,
     <1>14, <1>15, <1>16, <1>17, <1>18, <1>19, <1>20, <1>21, <1>22, <1>23, <1>24, <1>25,
     <1>26, <1>27, <1>28, <1>29, <1>30, <1>31, <1>32
     DEF Next, Upload, Process, Delete, Show, Headroom

(* Growth of the row is checked against the limit wherever it happens: the *)
(* reservation, the larger settlement, the file staged in place of a       *)
(* headroom, the picture made in one transaction.                          *)
LEMMA GrowthStep ==
  ASSUME QuotasAssumption, MediaAssumption, Types, [Next]_vars,
         used' + reserved' > used + reserved
  PROVE  used' + reserved' <= limit
<1> USE Keys DEF Types, QuotaTypes, Fits,
      vars, quotaVars, usage, claims, assetRows, shownVars, erasure, sweep,
      InMedia, InQuota, InSites
<1>1. ASSUME Tick PROVE used' + reserved' <= limit
  BY <1>1 DEF Tick, Less
<1>2. ASSUME Erase PROVE used' + reserved' <= limit
  BY <1>2, QuotasAssumption DEF Erase, RowsGone, QuotasAssumption
<1>3. ASSUME Purge PROVE used' + reserved' <= limit
  BY <1>3 DEF Purge
<1>4. ASSUME NEW a \in Assets, ClientPuts(a) PROVE used' + reserved' <= limit
  BY <1>4 DEF ClientPuts
<1>5. ASSUME NEW a \in Assets, Complete(a) PROVE used' + reserved' <= limit
  BY <1>5 DEF Complete, Extend
<1>6. ASSUME NEW a \in Assets, NEW n \in Sizes, Initiate(a, n) PROVE used' + reserved'
   <= limit
  BY <1>6 DEF Initiate, Reserve, CanReserve
<1>7. ASSUME NEW a \in Assets, NEW m \in Sizes, NEW n \in Sizes, Materialize(a, m, n)
   PROVE used' + reserved' <= limit
  BY <1>7 DEF Materialize, CanReserve
<1>8. ASSUME NEW h \in Headrooms, NEW a \in Assets, NEW n \in Sizes, StageGenerated(h,
   a, n) PROVE used' + reserved' <= limit
  BY <1>8 DEF StageGenerated, CanReserve
<1>9. ASSUME NEW a \in Assets, NEW made \in {"ai", "template"}, StagingDies(a, made)
   PROVE used' + reserved' <= limit
  BY <1>9 DEF StagingDies
<1>10. ASSUME NEW a \in Assets, NEW n \in Sizes, BecomeReady(a, n) PROVE used' +
   reserved' <= limit
  BY <1>10 DEF BecomeReady, Settle, CanSettle, Processable
<1>11. ASSUME NEW a \in Assets, Reject(a) PROVE used' + reserved' <= limit
  BY <1>11 DEF Reject, Release, Processable
<1>12. ASSUME NEW a \in Assets, ProcessingDies(a) PROVE used' + reserved' <= limit
  BY <1>12 DEF ProcessingDies, Processable
<1>13. ASSUME NEW a \in Assets, KeepHold(a) PROVE used' + reserved' <= limit
  BY <1>13 DEF KeepHold, Extend
<1>14. ASSUME NEW a \in Assets, DropSource(a) PROVE used' + reserved' <= limit
  BY <1>14 DEF DropSource
<1>15. ASSUME NEW a \in Assets, Tombstone(a) PROVE used' + reserved' <= limit
  BY <1>15 DEF Tombstone
<1>16. ASSUME NEW a \in Assets, Clean(a) PROVE used' + reserved' <= limit
  BY <1>16 DEF Clean, CanClean, Release, ReleaseCommitted
<1>17. ASSUME NEW a \in Assets, CleanDies(a) PROVE used' + reserved' <= limit
  BY <1>17 DEF CleanDies, CanClean
<1>18. ASSUME NEW S \in SUBSET Assets, Publish(S) PROVE used' + reserved' <= limit
  BY <1>18 DEF Publish, Record
<1>19. ASSUME NEW S \in SUBSET Assets, Derive(S) PROVE used' + reserved' <= limit
  BY <1>19 DEF Derive, Record
<1>20. ASSUME NEW p \in Publications, Rollback(p) PROVE used' + reserved' <= limit
  BY <1>20 DEF Rollback, Record
<1>21. ASSUME NEW a \in Assets, PublishEntry(a) PROVE used' + reserved' <= limit
  BY <1>21 DEF PublishEntry
<1>22. ASSUME NEW a \in Assets, WithdrawEntry(a) PROVE used' + reserved' <= limit
  BY <1>22 DEF WithdrawEntry
<1>23. ASSUME NEW a \in Assets, CheckUnitPhoto(a) PROVE used' + reserved' <= limit
  BY <1>23 DEF CheckUnitPhoto, Usable
<1>24. ASSUME NEW a \in Assets, SaveUnit(a) PROVE used' + reserved' <= limit
  BY <1>24 DEF SaveUnit
<1>25. ASSUME NEW a \in Assets, RemoveUnitPhoto(a) PROVE used' + reserved' <= limit
  BY <1>25 DEF RemoveUnitPhoto
<1>26. ASSUME NEW h \in Headrooms, FreeHeadroom(h) PROVE used' + reserved' <= limit
  BY <1>26 DEF FreeHeadroom, Release
<1>27. ASSUME NEW h \in Headrooms, NEW n \in Sizes, HoldHeadroom(h, n) PROVE used' +
   reserved' <= limit
  BY <1>27 DEF HoldHeadroom, Reserve, CanReserve
<1>28. ASSUME StartSweep PROVE used' + reserved' <= limit
  BY <1>28 DEF StartSweep, SweepLists
<1>29. ASSUME AbandonSweep PROVE used' + reserved' <= limit
  BY <1>29 DEF AbandonSweep, SweepDies
<1>30. ASSUME PlanChanges PROVE used' + reserved' <= limit
  BY <1>30 DEF PlanChanges, ChangeEntitlement
<1>31. ASSUME NEW h \in Holds, SweepOne(h) PROVE used' + reserved' <= limit
  BY <1>31 DEF SweepOne, SweepReleases, Release, Overdue
<1>32. CASE UNCHANGED vars
  BY <1>32
<1> QED
  BY <1>1, <1>2, <1>3, <1>4, <1>5, <1>6, <1>7, <1>8, <1>9, <1>10, <1>11, <1>12, <1>13,
     <1>14, <1>15, <1>16, <1>17, <1>18, <1>19, <1>20, <1>21, <1>22, <1>23, <1>24, <1>25,
     <1>26, <1>27, <1>28, <1>29, <1>30, <1>31, <1>32
     DEF Next, Upload, Process, Delete, Show, Headroom

-----------------------------------------------------------------------------
(* The initial states satisfy each part of the invariant. *)
LEMMA InitTypes ==
  ASSUME QuotasAssumption, MediaAssumption, Init
  PROVE  Types
<1>1. QuotaTypes /\ limit \in Limits /\ access = "full" /\ listed = {}
  BY DEF Init, QuotasInit, QuotaTypes
<1>2. AssetTypes
  BY DEF Init, AssetTypes
<1>3. ShownTypes
  BY DEF Init, ShownTypes, MediaAssumption
<1> QED BY <1>1, <1>2, <1>3 DEF Init, Types

(* Nothing is claimed at first. *)
LEMMA InitUsage ==
  ASSUME QuotasAssumption, Init
  PROVE  UsageIsClaims
<1>1. /\ Claimed("reserved") \in [1..NumHolds -> Nat]
      /\ \A k \in 1..NumHolds : Claimed("reserved")[k] = 0
      /\ Claimed("committed") \in [1..NumHolds -> Nat]
      /\ \A k \in 1..NumHolds : Claimed("committed")[k] = 0
  BY DEF Init, QuotasInit, Claimed, Holds
<1>2. SumTo(Claimed("reserved"), NumHolds) = 0 /\ SumTo(Claimed("committed"), NumHolds)
   = 0
  BY <1>1, SumToZero DEF QuotasAssumption
<1> QED BY <1>2 DEF UsageIsClaims, Init, QuotasInit

(* There is no asset at first. *)
LEMMA InitInvariants ==
  ASSUME QuotasAssumption, MediaAssumption, Init
  PROVE  HoldsInvariant /\ FilesInvariant
BY Keys DEF Init, QuotasInit, HoldsInvariant, HoldFollowsAsset, StorageCountedOnce,
       FilesInvariant, ReadyHasFiles, ShownStaysReady, PageFilesKept, ErasedIsEmpty

(* The inductive invariant. *)
Inv == Types /\ UsageIsClaims /\ HoldsInvariant /\ FilesInvariant

(* The invariant holds at first. *)
LEMMA InvInit == Init => Inv
BY InitTypes, InitUsage, InitInvariants, QuotasAssumption, MediaAssumption DEF Inv

(* Every step keeps it. *)
LEMMA InvNext == Inv /\ [Next]_vars => Inv'
<1> SUFFICES ASSUME Inv, [Next]_vars PROVE Inv'
  OBVIOUS
<1>1. Types'
  BY TypesNext, QuotasAssumption, MediaAssumption DEF Inv
<1> QED
  BY <1>1, UsageNext, HoldsNext, FilesNext, QuotasAssumption, MediaAssumption DEF Inv

(* The row of the usage never shows a negative number: sums of amounts of  *)
(* reservations are not negative.                                          *)
LEMMA UsageIsNat ==
  ASSUME QuotasAssumption, QuotaTypes, UsageIsClaims
  PROVE  used \in Nat /\ reserved \in Nat
<1>1. /\ Claimed("reserved") \in [1..NumHolds -> Nat]
      /\ Claimed("committed") \in [1..NumHolds -> Nat]
  BY DEF QuotaTypes, Claimed, Holds
<1> QED BY <1>1, SumToBounds DEF QuotasAssumption, UsageIsClaims

(* Type correctness of the rows, the objects and what visitors are shown,  *)
(* with a usage row that is never negative.                                *)
THEOREM TypeCorrect == Spec => []TypeOK
<1>1. Inv => TypeOK
  BY UsageIsNat, QuotasAssumption
     DEF Inv, Types, QuotaTypes, AssetTypes, ShownTypes, TypeOK
<1> QED BY <1>1, InvInit, InvNext, PTL DEF Spec

(* Eight operations keep the usage row by differences, and it always says  *)
(* what the reservations say.                                              *)
THEOREM UsageRowIsExact == Spec => []UsageIsClaims
<1>1. Inv => UsageIsClaims
  BY DEF Inv
<1> QED BY <1>1, InvInit, InvNext, PTL DEF Spec

(* No file is paid for twice or for nothing, however uploads, sweeps,      *)
(* rejections and cleanups interleave.                                     *)
THEOREM EachFileCountedOnce == Spec => []StorageCountedOnce
<1>1. Inv => StorageCountedOnce
  BY DEF Inv, HoldsInvariant
<1> QED BY <1>1, InvInit, InvNext, PTL DEF Spec

(* No page a visitor or a rollback can reach loses the file of a picture.  *)
THEOREM PagesKeepTheirFiles == Spec => []PageFilesKept
<1>1. Inv => PageFilesKept
  BY DEF Inv, FilesInvariant
<1> QED BY <1>1, InvInit, InvNext, PTL DEF Spec

(* Entries and units, which no lock protects, lose no picture that nobody  *)
(* has deleted: rejections, retries and cleanups never take one.           *)
THEOREM OthersLoseOnlyDeleted == Spec => []OnlyDeletedIsLost
<1>1. Inv => OnlyDeletedIsLost
  BY DEF Inv, Types, ShownTypes, FilesInvariant, ReadyHasFiles, ShownStaysReady, OnlyDeletedIsLost
<1> QED BY <1>1, InvInit, InvNext, PTL DEF Spec

(* The quota is checked, under the lock, wherever the use of it grows.     *)
THEOREM QuotaGuardsGrowth == Spec => GrowthWithinLimit
<1>1. Inv /\ [Next]_vars => [used' + reserved' > used + reserved
                               => used' + reserved' <= limit]_vars
  BY GrowthStep, QuotasAssumption, MediaAssumption DEF Inv
<1> QED BY <1>1, InvInit, InvNext, PTL DEF Spec, GrowthWithinLimit
=============================================================================
