----------------------------- MODULE MediaAssets -----------------------------
(***************************************************************************)
(* One organization's pictures: shared/media (services.py, tasks.py,       *)
(* references.py), what they hold of the storage quota (Quotas), what      *)
(* shows them to visitors (publications of pages and of entries in         *)
(* shared/sites, units of shared/booking), and the erasure of the          *)
(* organization (core/organizations/erasure.py).                           *)
(*                                                                         *)
(* Two stores that fail apart: the rows in PostgreSQL and the objects in   *)
(* the storage.  A transaction that fails is undone in the rows only.      *)
(* A task message may be delivered at any time, twice or never, so what a  *)
(* task does is enabled as long as its rows allow it.                      *)
(***************************************************************************)
EXTENDS Quotas

CONSTANTS
  NumAssets,       \* assets; asset a holds storage under the key a
  Sizes,           \* sizes of files
  UploadTTL,       \* MEDIA_UPLOAD_URL_TTL_SECONDS, in ticks
  ProcessingTTL,   \* MEDIA_PROCESSING_RESERVATION_TTL_SECONDS, in ticks
  MaxPublications  \* bound: publications of the site

ASSUME MediaAssumption ==
  /\ NumAssets \in 0..NumHolds
  /\ Sizes \subseteq Nat \ {0}
  /\ UploadTTL \in Nat /\ ProcessingTTL \in Nat /\ MaxPublications \in Nat

Assets       == 1..NumAssets
Headrooms    == (NumAssets + 1)..NumHolds  \* keys of image_generation
Publications == 1..MaxPublications

VARIABLES
  state,     \* MediaAssetState; SCANNING is never committed
  window,    \* ticks until upload_expires_at
  origin,    \* who makes it: an upload, the template catalogue or a model
  dropped,   \* assets whose source_object_key was cleared
  deleted,   \* assets with deleted_at
  cleaned,   \* assets with cleanup_completed_at
  stored,    \* objects in the storage
  refs,      \* MediaReference of each PUBLICATION
  current,   \* the last publication, 0 before the first
  entries,   \* pictures of published entries
  saving,    \* pictures a unit's save has found available
  units,     \* pictures units list
  erased,    \* the organization's rows are gone
  pending    \* pending_object_keys of the erasure receipt

assetRows == <<state, window, origin, dropped, deleted, cleaned>>
shownVars == <<refs, current, entries, saving, units>>
erasure   == <<erased, pending>>
sweep     == <<limit, access, listed>>
vars      == <<quotaVars, assetRows, stored, shownVars, erasure>>

Original(a)  == <<a, "original">>
Processed(a) == <<a, "processed">>  \* the processed file and its variants

(* authorize_entitled for writing *)
MayWrite == access = "full"

(* Transactions of an organization that is still there; what they leave. *)
InMedia == ~erased /\ UNCHANGED <<shownVars, erasure>>
InQuota == InMedia /\ UNCHANGED <<assetRows, stored>>
InSites == ~erased /\ UNCHANGED <<quotaVars, assetRows, stored, erasure>>

(* _stored_object_keys: the objects a row names *)
Named(a) ==
  (IF state[a] = "ready" THEN {Processed(a)} ELSE {}) \cup
  (IF state[a] = "none" \/ (state[a] = "ready" /\ a \in dropped)
     THEN {} ELSE {Original(a)})
-----------------------------------------------------------------------------
(* initiate_media_upload *)
Initiate(a, n) ==
  /\ InMedia
  /\ state[a] = "none" /\ origin[a] = "none"
  /\ Reserve(a, n, UploadTTL)
  /\ state' = [state EXCEPT ![a] = "pending"]
  /\ window' = [window EXCEPT ![a] = UploadTTL]
  /\ origin' = [origin EXCEPT ![a] = "upload"]
  /\ UNCHANGED <<sweep, dropped, deleted, cleaned, stored>>

(* The client PUTs to the signed URL as often as it likes while it is      *)
(* valid, whatever became of the asset or the organization.                *)
ClientPuts(a) ==
  /\ origin[a] = "upload" /\ window[a] > 0
  /\ stored' = stored \cup {Original(a)}
  /\ UNCHANGED <<quotaVars, assetRows, shownVars, erasure>>

(* complete_media_upload.  The HEAD comes before the lock; what it found   *)
(* cannot be gone under the lock, so both are one step.                    *)
Complete(a) ==
  /\ InMedia
  /\ MayWrite
  /\ state[a] = "pending" /\ a \notin deleted
  /\ window[a] > 0
  /\ Original(a) \in stored
  /\ state' = [state EXCEPT ![a] = "uploaded"]
  /\ Extend(a, ProcessingTTL)
  /\ UNCHANGED <<sweep, window, origin, dropped, deleted, cleaned, stored>>

(* stage_generated_media_asset after release_quota of the job's headroom h *)
(* (image_generation/worker.py)                                            *)
StageGenerated(h, a, n) ==
  /\ InMedia
  /\ state[a] = "none" /\ origin[a] \in {"none", "ai"}
  /\ hold[h] \in {"reserved", "released"}
  /\ LET free == IF hold[h] = "reserved" THEN amount[h] ELSE 0 IN
       /\ CanReserve(a, n, free)
       /\ reserved' = reserved - free + n
  /\ hold' = [hold EXCEPT ![h] = "released", ![a] = "reserved"]
  /\ amount' = [amount EXCEPT ![a] = n]
  /\ ttl' = [ttl EXCEPT ![h] = 0, ![a] = ProcessingTTL]
  /\ state' = [state EXCEPT ![a] = "uploaded"]
  /\ window' = [window EXCEPT ![a] = ProcessingTTL]
  /\ origin' = [origin EXCEPT ![a] = "ai"]
  /\ stored' = stored \cup {Original(a)}
  /\ UNCHANGED <<used, sweep, dropped, deleted, cleaned>>

(* materialize_approved_media_asset: staged and processed in one           *)
(* transaction; when it fails its objects are deleted with its rows.       *)
Materialize(a, m, n) ==
  /\ InMedia
  /\ state[a] = "none" /\ origin[a] \in {"none", "template"}
  /\ CanReserve(a, m, 0)
  /\ n > m => Fits(n, 0)
  /\ hold' = [hold EXCEPT ![a] = "committed"]
  /\ amount' = [amount EXCEPT ![a] = n]
  /\ used' = used + n
  /\ state' = [state EXCEPT ![a] = "ready"]
  /\ window' = [window EXCEPT ![a] = ProcessingTTL]
  /\ origin' = [origin EXCEPT ![a] = "template"]
  /\ stored' = stored \cup {Original(a), Processed(a)}
  /\ UNCHANGED <<reserved, ttl, sweep, dropped, deleted, cleaned>>

(* Both put objects before they commit: a crash leaves them without a row, *)
(* under keys a repetition will use again.                                 *)
StagingDies(a, made) ==
  /\ InMedia /\ MayWrite
  /\ state[a] = "none" /\ origin[a] \in {"none", made}
  /\ origin' = [origin EXCEPT ![a] = made]
  /\ stored' = stored \cup IF made = "ai" THEN {Original(a)}
                           ELSE {Original(a), Processed(a)}
  /\ UNCHANGED <<quotaVars, state, window, dropped, deleted, cleaned>>

(* The headroom an image job holds from its request to its end. *)
HoldHeadroom(h, n) ==
  /\ InMedia
  /\ Reserve(h, n, ProcessingTTL)
  /\ UNCHANGED <<sweep, assetRows, stored>>
FreeHeadroom(h) ==
  /\ InMedia
  /\ hold[h] = "reserved" /\ Release(h)
  /\ UNCHANGED <<sweep, assetRows, stored>>
-----------------------------------------------------------------------------
(* process_media_asset: the asset is locked for the whole task. *)
Processable(a) == state[a] = "uploaded" /\ a \notin deleted

BecomeReady(a, n) ==
  /\ InMedia
  /\ Processable(a) /\ Original(a) \in stored
  /\ Settle(a, n)
  /\ state' = [state EXCEPT ![a] = "ready"]
  /\ stored' = stored \cup {Processed(a)}
  /\ UNCHANGED <<sweep, window, origin, dropped, deleted, cleaned>>

(* _reject_media_asset: missing, unsafe, infected, or no storage for it.   *)
Reject(a) ==
  /\ InMedia
  /\ Processable(a)
  /\ Release(a)
  /\ state' = [state EXCEPT ![a] = "rejected"]
  /\ stored' = stored \ {Original(a), Processed(a)}
  /\ UNCHANGED <<sweep, window, origin, dropped, deleted, cleaned>>

(* The task dies or is rolled back (storage or scanner down, commit_quota  *)
(* past the deadline): what it put or deleted stays put or deleted.        *)
ProcessingDies(a) ==
  /\ InMedia
  /\ Processable(a)
  /\ stored' \in {stored \cup {Processed(a)},
                  stored \ {Original(a), Processed(a)}}
  /\ UNCHANGED <<quotaVars, assetRows>>

(* extend_media_processing_hold, for an image job whose scan waits *)
KeepHold(a) ==
  /\ InMedia
  /\ state[a] = "uploaded" /\ origin[a] = "ai"
  /\ Extend(a, ProcessingTTL)
  /\ UNCHANGED <<sweep, assetRows, stored>>

(* cleanup_media_source_object *)
DropSource(a) ==
  /\ InMedia
  /\ state[a] = "ready" /\ origin[a] # "ai" /\ a \notin dropped \cup cleaned
  /\ stored' = stored \ {Original(a)}
  /\ dropped' = dropped \cup {a}
  /\ UNCHANGED <<quotaVars, state, window, origin, deleted, cleaned>>
-----------------------------------------------------------------------------
(* tombstone_media_asset *)
Tombstone(a) ==
  /\ InMedia
  /\ MayWrite
  /\ state[a] # "none" /\ a \notin deleted
  /\ deleted' = deleted \cup {a}
  /\ UNCHANGED <<quotaVars, state, window, origin, dropped, cleaned, stored>>

(* cleanup_tombstoned_media_asset.  Mutants: it only looks at the current  *)
(* publication; what it releases is a reservation in any case.             *)
ShownNow(a) == current # 0 /\ a \in refs[current]
Shown(a) == \E p \in Publications : a \in refs[p]

CanClean(a) ==
  /\ a \in deleted \ cleaned
  /\ window[a] = 0
  /\ ~Shown(a) /\ a \notin units

CleanReserved(a) ==
  /\ InMedia
  /\ CanClean(a)
  /\ IF state[a] = "ready" THEN UNCHANGED <<usage, claims>> ELSE Release(a)
  /\ stored' = stored \ Named(a)
  /\ cleaned' = cleaned \cup {a}
  /\ dropped' = dropped \cup {a}
  /\ UNCHANGED <<sweep, state, window, origin, deleted>>
Clean(a) ==
  /\ InMedia
  /\ CanClean(a)
  /\ IF state[a] = "ready" THEN ReleaseCommitted(a) ELSE Release(a)
  /\ stored' = stored \ Named(a)
  /\ cleaned' = cleaned \cup {a}
  /\ dropped' = dropped \cup {a}
  /\ UNCHANGED <<sweep, state, window, origin, deleted>>

CleanDies(a) ==
  /\ InMedia
  /\ CanClean(a)
  /\ \E gone \in SUBSET Named(a) : stored' = stored \ gone
  /\ UNCHANGED <<quotaVars, assetRows>>
-----------------------------------------------------------------------------
(* MediaAssetReferenceHandler.record for a PUBLICATION: new pictures are   *)
(* locked, ready and not deleted; those carried over need not be.          *)
Usable(a) == state[a] = "ready" /\ a \notin deleted

Carried(S) == S \cap IF current = 0 THEN {} ELSE refs[current]
Record(S) ==
  /\ InSites /\ MayWrite
  /\ current < MaxPublications
  /\ refs' = [refs EXCEPT ![current + 1] = S]
  /\ current' = current + 1
  /\ UNCHANGED <<entries, saving, units>>

(* publish_site; publications derived from the current one; rollback_site *)
Publish(S) == (\A a \in S : Usable(a)) /\ Record(S)
Derive(S)  == current # 0 /\ (\A a \in S \ Carried(S) : Usable(a)) /\ Record(S)
Rollback(p) == p \in 1..current /\ Record(refs[p])

(* publish_entry.  The version it publishes recorded its pictures when     *)
(* they were ready and not deleted, at any time before: the publication    *)
(* records nothing and asks nothing.  withdraw_entry.                      *)
PublishEntry(a) ==
  /\ InSites /\ MayWrite
  /\ state[a] = "ready"
  /\ entries' = entries \cup {a}
  /\ UNCHANGED <<refs, current, saving, units>>
WithdrawEntry(a) ==
  /\ InSites /\ MayWrite
  /\ a \in entries
  /\ entries' = entries \ {a}
  /\ UNCHANGED <<refs, current, saving, units>>

(* _write_resource of booking: check_content asks unavailable_asset_ids    *)
(* without a lock and the transaction commits later; photos are replaced.  *)
CheckUnitPhoto(a) ==
  /\ InSites /\ MayWrite
  /\ Usable(a)
  /\ saving' = saving \cup {a}
  /\ UNCHANGED <<refs, current, entries, units>>
SaveUnit(a) ==
  /\ InSites
  /\ a \in saving
  /\ saving' = saving \ {a} /\ units' = units \cup {a}
  /\ UNCHANGED <<refs, current, entries>>
RemoveUnitPhoto(a) ==
  /\ InSites /\ MayWrite
  /\ a \in units
  /\ units' = units \ {a}
  /\ UNCHANGED <<refs, current, entries, saving>>
-----------------------------------------------------------------------------
(* erase_organization notes the objects that rows name and deletes the     *)
(* rows; purge_erased_objects deletes the objects.  A signed URL lives on. *)
RowsGone ==
  /\ used' = 0 /\ reserved' = 0 /\ listed' = {}
  /\ hold' = [h \in Holds |-> "none"]
  /\ amount' = [h \in Holds |-> 0] /\ ttl' = [h \in Holds |-> 0]
  /\ state' = [a \in Assets |-> "none"]
  /\ dropped' = {} /\ deleted' = {} /\ cleaned' = {}
  /\ refs' = [p \in Publications |-> {}] /\ current' = 0
  /\ entries' = {} /\ saving' = {} /\ units' = {}
Erase ==
  /\ ~erased
  /\ erased' = TRUE
  /\ pending' = UNION {Named(a) : a \in Assets}
  /\ RowsGone
  /\ UNCHANGED <<limit, access, window, origin, stored>>
Purge ==
  /\ erased /\ pending # {}
  /\ \E o \in pending : stored' = stored \ {o} /\ pending' = pending \ {o}
  /\ UNCHANGED <<quotaVars, assetRows, shownVars, erased>>

Less(f) == [x \in DOMAIN f |-> IF f[x] > 0 THEN f[x] - 1 ELSE 0]
Tick ==
  /\ \/ \E h \in Holds : ttl[h] > 0
     \/ \E a \in Assets : window[a] > 0
  /\ ttl' = Less(ttl) /\ window' = Less(window)
  /\ UNCHANGED <<usage, hold, amount, sweep, state, origin, dropped, deleted,
                 cleaned, stored, shownVars, erasure>>

Init ==
  /\ QuotasInit
  /\ state = [a \in Assets |-> "none"] /\ window = [a \in Assets |-> 0]
  /\ origin = [a \in Assets |-> "none"] /\ dropped = {} /\ deleted = {} /\ cleaned = {}
  /\ stored = {}
  /\ refs = [p \in Publications |-> {}] /\ current = 0
  /\ entries = {} /\ saving = {} /\ units = {}
  /\ erased = FALSE /\ pending = {}

Upload(a) ==
  \/ ClientPuts(a) \/ Complete(a)
  \/ \E n \in Sizes : Initiate(a, n)
  \/ \E m, n \in Sizes : Materialize(a, m, n)
  \/ \E h \in Headrooms, n \in Sizes : StageGenerated(h, a, n)
  \/ \E made \in {"ai", "template"} : StagingDies(a, made)
Process(a) ==
  \/ \E n \in Sizes : BecomeReady(a, n)
  \/ Reject(a) \/ ProcessingDies(a) \/ KeepHold(a) \/ DropSource(a)
Delete(a) == Tombstone(a) \/ Clean(a) \/ CleanDies(a)
Show ==
  \/ \E S \in SUBSET Assets : Publish(S) \/ Derive(S)
  \/ \E p \in Publications : Rollback(p)
  \/ \E a \in Assets : \/ PublishEntry(a) \/ WithdrawEntry(a)
                       \/ CheckUnitPhoto(a) \/ SaveUnit(a) \/ RemoveUnitPhoto(a)
Headroom ==
  \E h \in Headrooms : FreeHeadroom(h) \/ \E n \in Sizes : HoldHeadroom(h, n)

StartSweep    == InQuota /\ SweepLists
SweepOne(h)   == InQuota /\ SweepReleases(h)
AbandonSweep  == InQuota /\ SweepDies
PlanChanges   == InQuota /\ ChangeEntitlement

Next ==
  \/ Tick \/ Erase \/ Purge
  \/ \E a \in Assets : Upload(a) \/ Process(a) \/ Delete(a)
  \/ Show \/ Headroom
  \/ StartSweep \/ AbandonSweep \/ PlanChanges
  \/ \E h \in Holds : SweepOne(h)

Spec == Init /\ [][Next]_vars

(* Celery beat starts the sweep whether or not the last one died; workers  *)
(* do not die every time before the same reservation.  Time passes.        *)
Fairness ==
  /\ WF_vars(StartSweep)
  /\ \A h \in Holds : SF_vars(SweepOne(h))

FairSpec == Spec /\ Fairness
-----------------------------------------------------------------------------
TypeOK ==
  /\ used \in Nat /\ reserved \in Nat
  /\ hold \in [Holds -> {"none", "reserved", "committed", "released"}]
  /\ amount \in [Holds -> Nat] /\ ttl \in [Holds -> Nat]
  /\ limit \in Limits /\ access \in {"full", "read_only", "blocked"}
  /\ listed \subseteq Holds
  /\ state \in [Assets -> {"none", "pending", "uploaded", "ready", "rejected"}]
  /\ window \in [Assets -> Nat]
  /\ origin \in [Assets -> {"none", "upload", "template", "ai"}]
  /\ dropped \subseteq Assets
  /\ deleted \subseteq Assets /\ cleaned \subseteq deleted
  /\ stored \subseteq Assets \X {"original", "processed"}
  /\ refs \in [Publications -> SUBSET Assets] /\ current \in 0..MaxPublications
  /\ entries \subseteq Assets /\ saving \subseteq Assets /\ units \subseteq Assets
  /\ erased \in BOOLEAN
  /\ pending \subseteq Assets \X {"original", "processed"}

(* A page never loses a picture: the files of everything a publication of  *)
(* the site references are there, also of the older ones a rollback brings *)
(* back, whatever cleanups were cut short.                                 *)
PageFilesKept ==
  \A p \in Publications : \A a \in refs[p] : Processed(a) \in stored

(* The same for the pictures of published entries.                         *)
EntryFilesKept ==
  \A a \in entries : Processed(a) \in stored

(* What holds of entries, and of the photos of units, which are checked    *)
(* without a lock too: they lose no picture that nobody has deleted.       *)
OnlyDeletedIsLost ==
  \A a \in entries \cup units : a \notin deleted => Processed(a) \in stored

(* A file is paid for with storage while its asset is ready and not        *)
(* cleaned, and never again after; an upload under way has its storage.    *)
StorageCountedOnce ==
  \A a \in Assets :
    /\ hold[a] = "committed" <=> state[a] = "ready" /\ a \notin cleaned
    /\ state[a] = "rejected" \/ a \in cleaned => hold[a] = "released"
    /\ state[a] = "pending" /\ window[a] > 0 /\ a \notin cleaned => hold[a] = "reserved"

(* Whatever raises the use of the quota leaves it within the limit of that *)
(* moment, also when files turn out larger than they were declared.        *)
GrowthWithinLimit ==
  [][used' + reserved' > used + reserved => used' + reserved' <= limit]_vars

(* Storage held for something that never came is given back.               *)
OverdueHoldsEnd == \A h \in Holds : Overdue(h) ~> ~Overdue(h)
===============================================================================
