------------------------------ MODULE MediaProofs ------------------------------
(***************************************************************************)
(* Listing images for any number of images, listings and workers.  Row     *)
(* locks and the listing lock are what the properties rest on: at most one *)
(* worker is between lock and commit of an image, the image is undecided   *)
(* as long, and an upload that is not on record holds its listing.         *)
(***************************************************************************)
EXTENDS ProductMedia, FiniteSetTheorems, TLAPS

InHand == {"published", "cleaning", "retrying"}

(* A job exists only for an image that is on record. *)
JobsInv ==
    /\ MediaTypeOK
    /\ \A a \in Assets : job_state[a] # "none" => asset_state[a] # "none"

Holder(w, a) == worker[w] # None /\ worker[w].asset = a /\ worker[w].phase \in HoldingLocks

LocksInv ==
    /\ \A w \in Workers : worker[w] # None => asset_state[worker[w].asset] # "none"
    /\ \A w \in Workers, a \in Assets : Holder(w, a) => asset_state[a] = "quarantined"
    /\ \A v, w \in Workers, a \in Assets : Holder(v, a) /\ Holder(w, a) => v = w

ObjectsInv == OnlyCleanBytesArePublic /\ UnauditedObjectsAreInHand

(* An original that is not on record and not forgotten is being uploaded,  *)
(* and there is room for it.                                               *)
ListingsInv ==
    /\ \A a \in quarantine :
          asset_state[a] = "none" /\ a \notin abandoned => upload[listing_of[a]] = a
    /\ \A l \in Listings :
          /\ IsFiniteSet(images_of(l))
          /\ Cardinality(images_of(l)) <= MaxPerListing
          /\ upload[l] # None => Cardinality(images_of(l)) < MaxPerListing

MediaInv == JobsInv /\ LocksInv /\ ObjectsInv /\ ListingsInv

LEMMA InitMedia == Init => MediaInv
  <1> SUFFICES ASSUME Init PROVE MediaInv
    OBVIOUS
  <1> USE ProductMediaAssumption
  <1>1. JobsInv
    BY DEF Init, JobsInv, MediaTypeOK, AssetState, JobState
  <1>2. LocksInv /\ ObjectsInv
    BY DEF Init, LocksInv, Holder, ObjectsInv, OnlyCleanBytesArePublic,
           UnauditedObjectsAreInHand
  <1>3. \A l \in Listings : images_of(l) = {}
    BY DEF Init, images_of
  <1>4. ListingsInv
    BY <1>3, FS_EmptySet DEF Init, ListingsInv
  <1> QED
    BY <1>1, <1>2, <1>4 DEF MediaInv

-------------------------------------------------------------------------------
(* Workers. *)

LEMMA Claimed ==
    ASSUME JobsInv, NEW w \in Workers, worker[w] # None
    PROVE  /\ worker[w] \in Claim /\ worker[w].asset \in Assets
           /\ worker[w].phase \in Phase
           /\ worker \in [Workers -> Claim \cup {None}]
  BY DEF JobsInv, MediaTypeOK, Claim

LEMMA WorkerGoes ==
    ASSUME JobsInv, NEW w \in Workers, worker[w] # None, NEW phase \in Phase, Goes(w, phase)
    PROVE  /\ worker' \in [Workers -> Claim \cup {None}]
           /\ worker'[w] # None
           /\ worker'[w].asset = worker[w].asset /\ worker'[w].phase = phase
           /\ \A v \in Workers : v # w => worker'[v] = worker[v]
  <1> DEFINE c == [worker[w] EXCEPT !.phase = phase]
  <1>1. worker[w] \in Claim /\ worker \in [Workers -> Claim \cup {None}]
    BY Claimed
  <1>2. c \in Claim /\ c.asset = worker[w].asset /\ c.phase = phase
    BY <1>1 DEF Claim
  <1>3. worker' = [worker EXCEPT ![w] = c]
    BY <1>1 DEF Goes
  <1> HIDE DEF c
  <1> QED
    BY <1>1, <1>2, <1>3, ClaimsAssumption

LEMMA WorkerDone ==
    ASSUME JobsInv, NEW w \in Workers, Done(w)
    PROVE  /\ worker' \in [Workers -> Claim \cup {None}]
           /\ worker'[w] = None
           /\ \A v \in Workers : v # w => worker'[v] = worker[v]
  BY DEF JobsInv, MediaTypeOK, Done

(* A worker ends or moves on without touching rows or storage.  It holds   *)
(* locks afterwards only if it did or could take them, and what it had in  *)
(* hand stays in hand or is on record as left behind.                      *)
LEMMA LocksKept ==
    ASSUME MediaInv, NEW w \in Workers, worker[w] # None,
           UNCHANGED asset_state,
           \A v \in Workers : v # w => worker'[v] = worker[v],
           worker'[w] # None =>
              /\ worker'[w].asset = worker[w].asset
              /\ worker'[w].phase \in HoldingLocks =>
                    \/ worker[w].phase \in HoldingLocks
                    \/ /\ ~Locked(worker[w].asset)
                       /\ asset_state[worker[w].asset] = "quarantined"
    PROVE  LocksInv'
  <1> DEFINE a == worker[w].asset
  <1>1. \A v \in Workers, x \in Assets : v # w => (Holder(v, x)' <=> Holder(v, x))
    BY DEF Holder
  <1>2. \A x \in Assets : Holder(w, x)' =>
           x = a /\ (Holder(w, x) \/ (asset_state[x] = "quarantined" /\ ~Locked(x)))
    BY DEF Holder
  <1>3. \A v \in Workers, x \in Assets : Holder(v, x) => Locked(x)
    BY DEF Holder, Locked
  <1>4. \A v \in Workers : worker'[v] # None => asset_state'[worker'[v].asset] # "none"
    BY DEF MediaInv, LocksInv
  <1>5. \A v \in Workers, x \in Assets : Holder(v, x)' => asset_state'[x] = "quarantined"
    BY <1>1, <1>2 DEF MediaInv, LocksInv
  <1>6. \A u, v \in Workers, x \in Assets : Holder(u, x)' /\ Holder(v, x)' => u = v
    BY <1>1, <1>2, <1>3 DEF MediaInv, LocksInv
  <1> QED
    BY <1>4, <1>5, <1>6 DEF LocksInv

(* Objects stay in hand, are approved, deleted or on record as left behind. *)
LEMMA ObjectsKept ==
    ASSUME MediaInv, NEW w \in Workers, worker[w] # None,
           \A v \in Workers : v # w => worker'[v] = worker[v],
           abandoned \subseteq abandoned',
           \A x \in Assets : asset_state[x] = "approved" => asset_state'[x] = "approved",
           public' \subseteq public \cup {worker[w].asset},
           worker[w].asset \in public' => content[worker[w].asset] = "clean",
           \/ worker[w].asset \notin public'
           \/ worker[w].asset \in abandoned'
           \/ asset_state'[worker[w].asset] = "approved"
           \/ /\ worker[w].phase \notin InHand
              /\ worker[w].asset \in public
           \/ /\ worker'[w] # None /\ worker'[w].asset = worker[w].asset
              /\ worker'[w].phase \in InHand
    PROVE  ObjectsInv'
  <1> DEFINE a == worker[w].asset
  <1>0. public \subseteq Assets /\ a \in Assets
    BY Claimed DEF MediaInv, JobsInv, MediaTypeOK
  <1>1. OnlyCleanBytesArePublic'
    BY DEF MediaInv, ObjectsInv, OnlyCleanBytesArePublic
  <1>2. ASSUME NEW x \in public', x # a
        PROVE  \/ asset_state'[x] = "approved"
               \/ x \in abandoned'
               \/ \E v \in Workers : /\ worker'[v] # None /\ worker'[v].asset = x
                                     /\ worker'[v].phase \in InHand
    <2>1. x \in public /\ x \in Assets
      BY <1>0, <1>2
    <2>2. \/ asset_state[x] = "approved"
          \/ x \in abandoned
          \/ \E v \in Workers : /\ worker[v] # None /\ worker[v].asset = x
                                /\ worker[v].phase \in InHand
      BY <2>1 DEF MediaInv, ObjectsInv, UnauditedObjectsAreInHand, InHand
    <2> QED
      BY <1>2, <2>1, <2>2
  <1>3. ASSUME a \in public'
        PROVE  \/ asset_state'[a] = "approved"
               \/ a \in abandoned'
               \/ \E v \in Workers : /\ worker'[v] # None /\ worker'[v].asset = a
                                     /\ worker'[v].phase \in InHand
    <2>1. CASE worker[w].phase \notin InHand /\ a \in public
      <3>1. \/ asset_state[a] = "approved"
            \/ a \in abandoned
            \/ \E v \in Workers : /\ worker[v] # None /\ worker[v].asset = a
                                  /\ worker[v].phase \in InHand
        BY <2>1 DEF MediaInv, ObjectsInv, UnauditedObjectsAreInHand, InHand
      <3> QED
        BY <1>0, <2>1, <3>1
    <2> QED
      BY <1>3, <2>1
  <1>4. UnauditedObjectsAreInHand'
    BY <1>2, <1>3 DEF UnauditedObjectsAreInHand, InHand
  <1> QED
    BY <1>1, <1>4 DEF ObjectsInv

-------------------------------------------------------------------------------
(* Listings. *)

(* Images are decided, and objects left behind: the listings have no more  *)
(* images than before.                                                     *)
LEMMA ListingsKept ==
    ASSUME MediaInv, UNCHANGED <<quarantine, upload>>, abandoned \subseteq abandoned',
           \A a \in Assets :
              \/ asset_state'[a] = asset_state[a]
              \/ asset_state[a] = "quarantined" /\ asset_state'[a] \in {"approved", "rejected"}
    PROVE  ListingsInv'
  <1>1. ASSUME NEW l \in Listings
        PROVE  /\ IsFiniteSet(images_of(l)')
               /\ Cardinality(images_of(l)') <= MaxPerListing
               /\ upload'[l] # None => Cardinality(images_of(l)') < MaxPerListing
    <2>1. images_of(l)' \subseteq images_of(l)
      BY DEF images_of
    <2>2. IsFiniteSet(images_of(l))
      BY DEF MediaInv, ListingsInv
    <2>3. /\ IsFiniteSet(images_of(l)')
          /\ Cardinality(images_of(l)') <= Cardinality(images_of(l))
      BY <2>1, <2>2, FS_Subset
    <2>4. Cardinality(images_of(l)') \in Nat /\ Cardinality(images_of(l)) \in Nat
      BY <2>2, <2>3, FS_CardinalityType
    <2> QED
      BY <2>3, <2>4, ProductMediaAssumption DEF MediaInv, ListingsInv
  <1>2. \A a \in quarantine' :
          asset_state'[a] = "none" /\ a \notin abandoned' => upload'[listing_of[a]] = a
    BY DEF MediaInv, ListingsInv, JobsInv, MediaTypeOK
  <1> QED
    BY <1>1, <1>2 DEF ListingsInv

LEMMA StoresMedia ==
    ASSUME MediaInv, NEW a \in Assets, queue_listing_image_stores(a)
    PROVE  MediaInv'
  <1> USE ProductMediaAssumption
  <1>1. JobsInv'
    BY DEF MediaInv, JobsInv, MediaTypeOK, queue_listing_image_stores, jobVars
  <1>2. LocksInv'
    BY DEF MediaInv, LocksInv, Holder, queue_listing_image_stores
  <1>3. ObjectsInv'
    BY DEF MediaInv, ObjectsInv, OnlyCleanBytesArePublic, UnauditedObjectsAreInHand,
           queue_listing_image_stores
  <1>4. \A l \in Listings : images_of(l)' = images_of(l)
    BY DEF images_of, queue_listing_image_stores
  <1>5. \A b \in quarantine' :
          asset_state'[b] = "none" /\ b \notin abandoned' => upload'[listing_of[b]] = b
    <2>1. upload[listing_of[a]] = None /\ upload' = [upload EXCEPT ![listing_of[a]] = a]
      BY DEF queue_listing_image_stores, listing_is_unlocked
    <2> QED
      BY <2>1 DEF MediaInv, JobsInv, MediaTypeOK, ListingsInv, queue_listing_image_stores
  <1>6. \A l \in Listings : upload'[l] # None => Cardinality(images_of(l)) < MaxPerListing
    BY DEF MediaInv, JobsInv, MediaTypeOK, ListingsInv, queue_listing_image_stores
  <1>7. ListingsInv'
    BY <1>4, <1>5, <1>6 DEF MediaInv, ListingsInv
  <1> QED
    BY <1>1, <1>2, <1>3, <1>7 DEF MediaInv

LEMMA CommitsMedia ==
    ASSUME MediaInv, NEW a \in Assets, queue_listing_image_commits(a)
    PROVE  MediaInv'
  <1> USE ProductMediaAssumption
  <1>0. /\ asset_state \in [Assets -> AssetState] /\ job_state \in [Assets -> JobState]
        /\ upload \in [Listings -> Assets \cup {None}] /\ quarantine \subseteq Assets
        /\ listing_of[a] \in Listings
    BY DEF MediaInv, JobsInv, MediaTypeOK
  <1>a. /\ asset_state[a] = "none" /\ a \in quarantine /\ a \notin abandoned
        /\ asset_state' = [asset_state EXCEPT ![a] = "quarantined"]
        /\ job_state' = [job_state EXCEPT ![a] = "queued"]
        /\ upload' = [upload EXCEPT ![listing_of[a]] = None]
        /\ UNCHANGED <<attempt_count, lease, quarantine, public, abandoned, worker>>
    BY DEF queue_listing_image_commits, storageVars
  <1>1. JobsInv'
    BY <1>0, <1>a DEF MediaInv, JobsInv, MediaTypeOK, AssetState, JobState
  <1>2. LocksInv'
    <2>1. \A v \in Workers, x \in Assets : Holder(v, x)' <=> Holder(v, x)
      BY <1>a DEF Holder
    <2>2. \A v \in Workers : worker'[v] # None => asset_state'[worker'[v].asset] # "none"
      BY <1>0, <1>a DEF MediaInv, LocksInv
    <2>3. \A v \in Workers, x \in Assets : Holder(v, x)' => asset_state'[x] = "quarantined"
      BY <1>0, <1>a, <2>1 DEF MediaInv, LocksInv
    <2> QED
      BY <2>1, <2>2, <2>3 DEF MediaInv, LocksInv
  <1>3. ObjectsInv'
    BY <1>0, <1>a DEF MediaInv, JobsInv, MediaTypeOK, ObjectsInv, OnlyCleanBytesArePublic,
                      UnauditedObjectsAreInHand
  <1>4. upload[listing_of[a]] = a
    BY <1>a DEF MediaInv, ListingsInv
  <1>5. \A b \in quarantine' :
          asset_state'[b] = "none" /\ b \notin abandoned' => upload'[listing_of[b]] = b
    BY <1>0, <1>4, <1>a DEF MediaInv, ListingsInv
  <1>6. ASSUME NEW l \in Listings
        PROVE  /\ IsFiniteSet(images_of(l)')
               /\ Cardinality(images_of(l)') <= MaxPerListing
               /\ upload'[l] # None => Cardinality(images_of(l)') < MaxPerListing
    <2>1. CASE l = listing_of[a]
      <3>1. images_of(l)' = images_of(l) \cup {a} /\ a \notin images_of(l)
        BY <1>0, <1>a, <2>1 DEF images_of
      <3>2. IsFiniteSet(images_of(l)) /\ Cardinality(images_of(l)) < MaxPerListing
        BY <1>4, <2>1 DEF MediaInv, ListingsInv
      <3>3. /\ IsFiniteSet(images_of(l)')
            /\ Cardinality(images_of(l)') = Cardinality(images_of(l)) + 1
        BY <3>1, <3>2, FS_AddElement
      <3>4. Cardinality(images_of(l)) \in Nat /\ upload'[l] = None
        BY <1>0, <1>a, <2>1, <3>2, FS_CardinalityType
      <3> QED
        BY <3>2, <3>3, <3>4
    <2>2. CASE l # listing_of[a]
      <3>1. images_of(l)' = images_of(l) /\ upload'[l] = upload[l]
        BY <1>0, <1>a, <2>2 DEF images_of
      <3> QED
        BY <3>1 DEF MediaInv, ListingsInv
    <2> QED
      BY <2>1, <2>2
  <1>7. ListingsInv'
    BY <1>5, <1>6 DEF ListingsInv
  <1> QED
    BY <1>1, <1>2, <1>3, <1>7 DEF MediaInv

LEMMA UploadFailsMedia ==
    ASSUME MediaInv, NEW a \in Assets, queue_listing_image_fails(a)
    PROVE  MediaInv'
  <1> USE ProductMediaAssumption
  <1>0. /\ upload \in [Listings -> Assets \cup {None}] /\ quarantine \subseteq Assets
        /\ listing_of[a] \in Listings /\ abandoned \subseteq Assets
    BY DEF MediaInv, JobsInv, MediaTypeOK
  <1>a. /\ asset_state[a] = "none" /\ a \in quarantine /\ a \notin abandoned
        /\ upload' = [upload EXCEPT ![listing_of[a]] = None]
        /\ \/ quarantine' = quarantine \ {a} /\ abandoned' = abandoned
           \/ quarantine' = quarantine /\ abandoned' = abandoned \cup {a}
        /\ UNCHANGED <<asset_state, job_state, attempt_count, lease, public, worker>>
    BY DEF queue_listing_image_fails, jobVars
  <1>1. JobsInv'
    BY <1>0, <1>a DEF MediaInv, JobsInv, MediaTypeOK
  <1>2. LocksInv'
    BY <1>a DEF MediaInv, LocksInv, Holder
  <1>3. ObjectsInv'
    BY <1>a DEF MediaInv, ObjectsInv, OnlyCleanBytesArePublic, UnauditedObjectsAreInHand
  <1>4. \A l \in Listings : images_of(l)' = images_of(l)
    BY <1>a DEF images_of
  <1>5. upload[listing_of[a]] = a
    BY <1>a DEF MediaInv, ListingsInv
  <1>6. \A b \in quarantine' :
          asset_state'[b] = "none" /\ b \notin abandoned' => upload'[listing_of[b]] = b
    BY <1>0, <1>5, <1>a DEF MediaInv, ListingsInv
  <1>7. \A l \in Listings : upload'[l] # None => Cardinality(images_of(l)) < MaxPerListing
    BY <1>0, <1>a DEF MediaInv, ListingsInv
  <1>8. ListingsInv'
    BY <1>4, <1>6, <1>7 DEF MediaInv, ListingsInv
  <1> QED
    BY <1>1, <1>2, <1>3, <1>8 DEF MediaInv

-------------------------------------------------------------------------------
(* Leases and jobs. *)

(* Only job rows change, and no job appears for an image not on record. *)
LEMMA JobRowsMedia ==
    ASSUME MediaInv, UNCHANGED <<asset_state, storageVars, upload, worker>>, JobsInv'
    PROVE  MediaInv'
  <1>1. LocksInv'
    BY DEF MediaInv, LocksInv, Holder
  <1>2. ObjectsInv'
    BY DEF MediaInv, ObjectsInv, OnlyCleanBytesArePublic, UnauditedObjectsAreInHand, storageVars
  <1>3. ListingsInv'
    BY DEF MediaInv, ListingsInv, images_of, storageVars
  <1> QED
    BY <1>1, <1>2, <1>3 DEF MediaInv

LEMMA LeaseMedia ==
    ASSUME MediaInv, \/ \E a \in Assets : lease_expires(a)
                     \/ expire_exhausted_media_jobs
    PROVE  MediaInv'
  <1>1. UNCHANGED <<asset_state, attempt_count, storageVars, upload, worker>>
    BY DEF lease_expires, expire_exhausted_media_jobs
  <1>2. /\ job_state' \in [Assets -> JobState]
        /\ lease' \in [Assets -> {"none", "live", "expired"}]
        /\ \A a \in Assets : job_state'[a] # "none" => asset_state[a] # "none"
    BY DEF MediaInv, JobsInv, MediaTypeOK, JobState, lease_expires,
           expire_exhausted_media_jobs, exhausted_jobs
  <1>3. JobsInv'
    BY <1>1, <1>2 DEF MediaInv, JobsInv, MediaTypeOK, storageVars
  <1> QED
    BY <1>1, <1>3, JobRowsMedia

LEMMA ClaimMedia ==
    ASSUME MediaInv, NEW w \in Workers, NEW a \in Assets, claim_due_media_job(w, a)
    PROVE  MediaInv'
  <1> USE ProductMediaAssumption
  <1> DEFINE c == [asset |-> a, attempt |-> attempt_count[a] + 1, phase |-> "claimed"]
  <1>0. /\ attempt_count \in [Assets -> 0..MaxAttempts] /\ attempt_count[a] < MaxAttempts
        /\ job_state \in [Assets -> JobState] /\ worker \in [Workers -> Claim \cup {None}]
        /\ lease \in [Assets -> {"none", "live", "expired"}]
        /\ asset_state[a] # "none"
    BY DEF MediaInv, JobsInv, MediaTypeOK, claim_due_media_job, job_is_due
  <1>1. c \in Claim /\ c.asset = a /\ c.phase = "claimed"
    BY <1>0 DEF Claim, Phase
  <1>2. worker' = [worker EXCEPT ![w] = c]
    BY DEF claim_due_media_job
  <1> HIDE DEF c
  <1>3. worker'[w] = c /\ (\A v \in Workers : v # w => worker'[v] = worker[v])
        /\ worker' \in [Workers -> Claim \cup {None}]
    BY <1>0, <1>1, <1>2
  <1>4. /\ attempt_count' \in [Assets -> 0..MaxAttempts]
        /\ job_state' \in [Assets -> JobState]
        /\ lease' \in [Assets -> {"none", "live", "expired"}]
        /\ \A x \in Assets : job_state'[x] # "none" => asset_state[x] # "none"
    BY <1>0 DEF claim_due_media_job, MediaInv, JobsInv, JobState
  <1>5. JobsInv'
    BY <1>3, <1>4 DEF MediaInv, JobsInv, MediaTypeOK, claim_due_media_job, storageVars
  <1>6. \A v \in Workers, x \in Assets : Holder(v, x)' => Holder(v, x)
    BY <1>1, <1>3 DEF Holder, HoldingLocks
  <1>7. LocksInv'
    BY <1>0, <1>1, <1>3, <1>6 DEF MediaInv, LocksInv, claim_due_media_job
  <1>8. worker[w] = None
    BY DEF claim_due_media_job
  <1>9. ObjectsInv'
    <2>1. OnlyCleanBytesArePublic'
      BY DEF MediaInv, ObjectsInv, OnlyCleanBytesArePublic, claim_due_media_job, storageVars
    <2>2. UnauditedObjectsAreInHand'
      BY <1>3, <1>8 DEF MediaInv, ObjectsInv, UnauditedObjectsAreInHand,
                        claim_due_media_job, storageVars
    <2> QED
      BY <2>1, <2>2 DEF ObjectsInv
  <1>10. ListingsInv'
    BY DEF MediaInv, ListingsInv, images_of, claim_due_media_job, storageVars
  <1> QED
    BY <1>5, <1>7, <1>9, <1>10 DEF MediaInv

-------------------------------------------------------------------------------
(* Steps of a worker with a claim. *)

RowsTyped ==
    /\ job_state \in [Assets -> JobState]
    /\ attempt_count \in [Assets -> 0..MaxAttempts]
    /\ lease \in [Assets -> {"none", "live", "expired"}]

LEMMA JobCompleted ==
    ASSUME MediaInv, NEW a \in Assets, asset_state[a] # "none",
           NEW outcome \in {"approved", "rejected", "retry"}, complete_media_job(a, outcome)
    PROVE  /\ RowsTyped'
           /\ \A x \in Assets : job_state'[x] # "none" => asset_state[x] # "none"
  <1>1. completed_as(a, outcome) \in JobState
    BY DEF completed_as, JobState
  <1>2. RowsTyped'
    BY <1>1 DEF MediaInv, JobsInv, MediaTypeOK, RowsTyped, complete_media_job
  <1>3. \A x \in Assets : job_state'[x] # "none" => asset_state[x] # "none"
    BY <1>1 DEF MediaInv, JobsInv, MediaTypeOK, complete_media_job
  <1> QED
    BY <1>2, <1>3

(* The claim is looked at, the bytes are inspected, a commit fails or is   *)
(* rolled back, a retry is scheduled, the process dies: the image's row and *)
(* the buckets stay as they are.                                           *)
LEMMA WorkerOnlyMedia ==
    ASSUME MediaInv, NEW w \in Workers, worker[w] # None,
           UNCHANGED <<asset_state, quarantine, public, upload>>,
           abandoned \subseteq abandoned', abandoned' \subseteq Assets,
           RowsTyped',
           \A x \in Assets : job_state'[x] # "none" => asset_state[x] # "none",
           worker' \in [Workers -> Claim \cup {None}],
           \A v \in Workers : v # w => worker'[v] = worker[v],
           worker'[w] # None =>
              /\ worker'[w].asset = worker[w].asset
              /\ worker'[w].phase \in HoldingLocks =>
                    \/ worker[w].phase \in HoldingLocks
                    \/ /\ ~Locked(worker[w].asset)
                       /\ asset_state[worker[w].asset] = "quarantined",
           worker[w].phase \in InHand =>
              \/ worker[w].asset \in abandoned'
              \/ worker'[w] # None /\ worker'[w].phase \in InHand
    PROVE  MediaInv'
  <1>1. JobsInv'
    BY DEF MediaInv, JobsInv, MediaTypeOK, RowsTyped
  <1>2. LocksInv'
    BY LocksKept
  <1>3. worker[w].asset \in public' => content[worker[w].asset] = "clean"
    BY DEF MediaInv, ObjectsInv, OnlyCleanBytesArePublic
  <1>4. ObjectsInv'
    BY <1>3, ObjectsKept
  <1>5. ListingsInv'
    BY ListingsKept
  <1> QED
    BY <1>1, <1>2, <1>4, <1>5 DEF MediaInv

LEMMA RowsAsBefore ==
    ASSUME MediaInv, UNCHANGED jobVars
    PROVE  /\ RowsTyped'
           /\ \A x \in Assets : job_state'[x] # "none" => asset_state[x] # "none"
  BY DEF MediaInv, JobsInv, MediaTypeOK, RowsTyped, jobVars

LEMMA LockMedia ==
    ASSUME MediaInv, NEW w \in Workers, lock_claimed_job(w)
    PROVE  MediaInv'
  <1> DEFINE a == worker[w].asset
  <1>1. /\ worker[w] # None /\ worker[w].phase = "claimed" /\ ~Locked(a)
        /\ UNCHANGED <<asset_state, quarantine, public, upload, abandoned>>
    BY DEF lock_claimed_job, At, storageVars
  <1>2. a \in Assets /\ asset_state[a] # "none" /\ asset_state[a] \in AssetState
        /\ abandoned \subseteq Assets
    BY <1>1, Claimed DEF MediaInv, LocksInv, JobsInv, MediaTypeOK
  <1>3. worker[w].phase \notin InHand
    BY <1>1 DEF InHand
  <1>4. CASE Done(w)
    <2>1. /\ RowsTyped'
          /\ \A x \in Assets : job_state'[x] # "none" => asset_state[x] # "none"
      <3>1. CASE UNCHANGED jobVars
        BY <3>1, RowsAsBefore
      <3>2. CASE asset_state[a] # "quarantined" /\ complete_media_job(a, asset_state[a])
        <4>1. asset_state[a] \in {"approved", "rejected", "retry"}
          BY <1>2, <3>2 DEF AssetState
        <4> QED
          BY <1>2, <3>2, <4>1, JobCompleted
      <3>3. \/ UNCHANGED jobVars
            \/ asset_state[a] # "quarantined" /\ complete_media_job(a, asset_state[a])
        BY DEF lock_claimed_job
      <3> QED
        BY <3>1, <3>2, <3>3
    <2>2. /\ worker' \in [Workers -> Claim \cup {None}] /\ worker'[w] = None
          /\ \A v \in Workers : v # w => worker'[v] = worker[v]
      BY <1>4, WorkerDone DEF MediaInv
    <2> QED
      BY <1>1, <1>2, <1>3, <2>1, <2>2, WorkerOnlyMedia
  <1>5. CASE Goes(w, "scanning") /\ asset_state[a] = "quarantined" /\ UNCHANGED jobVars
    <2>1. /\ RowsTyped'
          /\ \A x \in Assets : job_state'[x] # "none" => asset_state[x] # "none"
      BY <1>5, RowsAsBefore
    <2>2. "scanning" \in Phase
      BY DEF Phase
    <2>3. /\ worker' \in [Workers -> Claim \cup {None}] /\ worker'[w] # None
          /\ worker'[w].asset = a
          /\ \A v \in Workers : v # w => worker'[v] = worker[v]
      BY <1>1, <1>5, <2>2, WorkerGoes DEF MediaInv
    <2> QED
      BY <1>1, <1>2, <1>3, <1>5, <2>1, <2>3, WorkerOnlyMedia
  <1> QED
    BY <1>4, <1>5 DEF lock_claimed_job

(* The inspection ends without an object, or the transaction does without a *)
(* commit: the worker goes on to a phase without locks, or to the refusal. *)
LEMMA GoesMedia ==
    ASSUME MediaInv, NEW w \in Workers,
           inspection_refuses(w) \/ inspection_fails(w) \/ commit_fails(w)
    PROVE  MediaInv'
  <1>1. /\ worker[w] # None
        /\ UNCHANGED <<asset_state, jobVars, quarantine, public, abandoned, upload>>
    BY DEF inspection_refuses, inspection_fails, commit_fails, At, storageVars
  <1>2. PICK phase \in {"refused", "failing", "retrying"} :
          /\ Goes(w, phase)
          /\ phase = "refused" => worker[w].phase = "scanning"
          /\ worker[w].phase \in InHand => phase = "retrying"
    BY DEF inspection_refuses, inspection_fails, commit_fails, after_rollback, At, InHand
  <1>3. /\ worker' \in [Workers -> Claim \cup {None}] /\ worker'[w] # None
        /\ worker'[w].asset = worker[w].asset /\ worker'[w].phase = phase
        /\ \A v \in Workers : v # w => worker'[v] = worker[v]
    <2>1. phase \in Phase
      BY DEF Phase
    <2> QED
      BY <1>1, <1>2, <2>1, WorkerGoes DEF MediaInv
  <1>4. /\ phase \in HoldingLocks => worker[w].phase \in HoldingLocks
        /\ worker[w].phase \in InHand => phase \in InHand
    BY <1>2 DEF HoldingLocks, InHand
  <1>5. /\ RowsTyped' /\ abandoned \subseteq Assets
        /\ \A x \in Assets : job_state'[x] # "none" => asset_state[x] # "none"
    BY <1>1, RowsAsBefore DEF MediaInv, JobsInv, MediaTypeOK
  <1> QED
    BY <1>1, <1>3, <1>4, <1>5, WorkerOnlyMedia

LEMMA RollbackMedia ==
    ASSUME MediaInv, NEW w \in Workers, rollback_expired(w)
    PROVE  MediaInv'
  <1>1. /\ worker[w] # None /\ worker[w].phase \in {"published", "refused"}
        /\ UNCHANGED <<asset_state, jobVars, quarantine, public, abandoned, upload>>
    BY DEF rollback_expired, At, storageVars
  <1>2. /\ RowsTyped' /\ abandoned \subseteq Assets
        /\ \A x \in Assets : job_state'[x] # "none" => asset_state[x] # "none"
    BY <1>1, RowsAsBefore DEF MediaInv, JobsInv, MediaTypeOK
  <1>3. CASE worker[w].phase = "published" /\ Goes(w, "cleaning")
    <2>1. "cleaning" \in Phase /\ "cleaning" \in InHand /\ "cleaning" \notin HoldingLocks
      BY DEF Phase, InHand, HoldingLocks
    <2>2. /\ worker' \in [Workers -> Claim \cup {None}] /\ worker'[w] # None
          /\ worker'[w].asset = worker[w].asset /\ worker'[w].phase = "cleaning"
          /\ \A v \in Workers : v # w => worker'[v] = worker[v]
      BY <1>1, <1>3, <2>1, WorkerGoes DEF MediaInv
    <2> QED
      BY <1>1, <1>2, <2>1, <2>2, WorkerOnlyMedia
  <1>4. CASE worker[w].phase = "refused" /\ Done(w)
    <2>1. worker[w].phase \notin InHand
      BY <1>4 DEF InHand
    <2>2. /\ worker' \in [Workers -> Claim \cup {None}] /\ worker'[w] = None
          /\ \A v \in Workers : v # w => worker'[v] = worker[v]
      BY <1>4, WorkerDone DEF MediaInv
    <2> QED
      BY <1>1, <1>2, <2>1, <2>2, WorkerOnlyMedia
  <1> QED
    BY <1>1, <1>3, <1>4 DEF rollback_expired, At

LEMMA RetryMedia ==
    ASSUME MediaInv, NEW w \in Workers, schedule_retry(w)
    PROVE  MediaInv'
  <1> DEFINE a == worker[w].asset
  <1>1. /\ worker[w] # None /\ worker[w].phase \notin InHand /\ Done(w)
        /\ UNCHANGED <<asset_state, quarantine, public, abandoned, upload>>
    BY DEF schedule_retry, At, storageVars, InHand
  <1>2. a \in Assets /\ asset_state[a] # "none" /\ abandoned \subseteq Assets
    BY <1>1, Claimed DEF MediaInv, LocksInv, JobsInv, MediaTypeOK
  <1>3. UNCHANGED jobVars \/ complete_media_job(a, "retry")
    BY DEF schedule_retry
  <1>4. /\ RowsTyped'
        /\ \A x \in Assets : job_state'[x] # "none" => asset_state[x] # "none"
    BY <1>2, <1>3, RowsAsBefore, JobCompleted
  <1>5. /\ worker' \in [Workers -> Claim \cup {None}] /\ worker'[w] = None
        /\ \A v \in Workers : v # w => worker'[v] = worker[v]
    BY <1>1, WorkerDone DEF MediaInv
  <1> QED
    BY <1>1, <1>2, <1>4, <1>5, WorkerOnlyMedia

LEMMA CrashMedia ==
    ASSUME MediaInv, NEW w \in Workers, worker_crash(w)
    PROVE  MediaInv'
  <1>1. /\ worker[w] # None /\ Done(w)
        /\ UNCHANGED <<asset_state, jobVars, quarantine, public, upload>>
    BY DEF worker_crash
  <1>2. /\ abandoned \subseteq abandoned' /\ abandoned' \subseteq Assets
        /\ worker[w].phase \in InHand => worker[w].asset \in abandoned'
    BY <1>1, Claimed DEF worker_crash, InHand, MediaInv, JobsInv, MediaTypeOK
  <1>3. /\ RowsTyped'
        /\ \A x \in Assets : job_state'[x] # "none" => asset_state[x] # "none"
    BY <1>1, RowsAsBefore
  <1>4. /\ worker' \in [Workers -> Claim \cup {None}] /\ worker'[w] = None
        /\ \A v \in Workers : v # w => worker'[v] = worker[v]
    BY <1>1, WorkerDone DEF MediaInv
  <1> QED
    BY <1>1, <1>2, <1>3, <1>4, WorkerOnlyMedia

-------------------------------------------------------------------------------
(* Steps that write or delete the object, or decide about the image. *)

(* The scanner's word is what stands between the original and the public. *)
LEMMA PassedIsClean ==
    ASSUME MediaInv, NEW a \in Assets, \E verdict \in scan_verdicts(a) : scan_passes(verdict)
    PROVE  content[a] = "clean"
  BY DEF scan_verdicts, scan_passes

LEMMA PutMedia ==
    ASSUME MediaInv, NEW w \in Workers,
           put_public_derivative(w) \/ put_public_derivative_fails(w)
    PROVE  MediaInv'
  <1> DEFINE a == worker[w].asset
  <1>1. /\ worker[w] # None /\ worker[w].phase = "scanning"
        /\ \E verdict \in scan_verdicts(a) : scan_passes(verdict)
        /\ public' = public \cup {a}
        /\ UNCHANGED <<asset_state, jobVars, quarantine, upload>>
    BY DEF put_public_derivative, put_public_derivative_fails, At
  <1>2. PICK phase \in {"published", "failing"} :
          /\ Goes(w, phase)
          /\ phase = "published" => abandoned' = abandoned
          /\ phase = "failing" => abandoned' = abandoned \cup {a}
    BY DEF put_public_derivative, put_public_derivative_fails
  <1>3. a \in Assets /\ content[a] = "clean" /\ phase \in Phase
    BY <1>1, Claimed, PassedIsClean DEF MediaInv, Phase
  <1>4. /\ worker' \in [Workers -> Claim \cup {None}] /\ worker'[w] # None
        /\ worker'[w].asset = a /\ worker'[w].phase = phase
        /\ \A v \in Workers : v # w => worker'[v] = worker[v]
    BY <1>1, <1>2, <1>3, WorkerGoes DEF MediaInv
  <1>5. JobsInv'
    BY <1>1, <1>2, <1>3, <1>4 DEF MediaInv, JobsInv, MediaTypeOK, jobVars
  <1>6. LocksInv'
    <2>1. worker[w].phase \in HoldingLocks
      BY <1>1 DEF HoldingLocks
    <2> QED
      BY <1>1, <1>4, <2>1, LocksKept
  <1>7. ObjectsInv'
    <2>1. phase \in InHand \/ a \in abandoned'
      BY <1>2 DEF InHand
    <2>2. abandoned \subseteq abandoned'
      BY <1>2
    <2> QED
      BY <1>1, <1>3, <1>4, <2>1, <2>2, ObjectsKept
  <1>8. ListingsInv'
    BY <1>1, <1>2, ListingsKept
  <1> QED
    BY <1>5, <1>6, <1>7, <1>8 DEF MediaInv

LEMMA DeleteMedia ==
    ASSUME MediaInv, NEW w \in Workers, delete_public_derivative(w)
    PROVE  MediaInv'
  <1> DEFINE a == worker[w].asset
  <1>1. /\ worker[w] # None
        /\ \/ public' = public \ {a} /\ abandoned' = abandoned
           \/ public' = public /\ abandoned' = abandoned \cup {a}
        /\ Done(w) \/ Goes(w, "failing")
        /\ UNCHANGED <<asset_state, jobVars, quarantine, upload>>
    BY DEF delete_public_derivative, At
  <1>2. a \in Assets /\ public \subseteq Assets
    BY <1>1, Claimed DEF MediaInv, JobsInv, MediaTypeOK
  <1>3. /\ worker' \in [Workers -> Claim \cup {None}]
        /\ worker'[w] # None => worker'[w].asset = a /\ worker'[w].phase = "failing"
        /\ \A v \in Workers : v # w => worker'[v] = worker[v]
    <2>1. "failing" \in Phase
      BY DEF Phase
    <2> QED
      BY <1>1, <2>1, WorkerGoes, WorkerDone DEF MediaInv
  <1>4. JobsInv'
    BY <1>1, <1>2, <1>3 DEF MediaInv, JobsInv, MediaTypeOK, jobVars
  <1>5. LocksInv'
    <2>1. "failing" \notin HoldingLocks
      BY DEF HoldingLocks
    <2> QED
      BY <1>1, <1>3, <2>1, LocksKept
  <1>6. ObjectsInv'
    <2>1. /\ abandoned \subseteq abandoned' /\ public' \subseteq public \cup {a}
          /\ a \notin public' \/ a \in abandoned'
          /\ a \in public' => content[a] = "clean"
      BY <1>1 DEF MediaInv, ObjectsInv, OnlyCleanBytesArePublic
    <2> QED
      BY <1>1, <1>3, <2>1, ObjectsKept
  <1>7. ListingsInv'
    BY <1>1, ListingsKept
  <1> QED
    BY <1>4, <1>5, <1>6, <1>7 DEF MediaInv

(* The committing worker holds the image's row, so nobody else does and it *)
(* is undecided.                                                           *)
LEMMA CommitMedia ==
    ASSUME MediaInv, NEW w \in Workers, commit_publication(w)
    PROVE  MediaInv'
  <1> DEFINE a == worker[w].asset
  <1>1. PICK outcome \in {"approved", "rejected"} :
          /\ worker[w].phase = (IF outcome = "approved" THEN "published" ELSE "refused")
          /\ asset_state' = [asset_state EXCEPT ![a] = outcome]
          /\ complete_media_job(a, outcome)
    BY DEF commit_publication, At
  <1>2. /\ worker[w] # None /\ Done(w)
        /\ UNCHANGED <<quarantine, public, abandoned, upload>>
    BY DEF commit_publication, At, storageVars
  <1>3. /\ a \in Assets /\ asset_state \in [Assets -> AssetState]
        /\ abandoned \subseteq Assets /\ public \subseteq Assets
    BY <1>2, Claimed DEF MediaInv, JobsInv, MediaTypeOK
  <1>4. Holder(w, a)
    BY <1>1, <1>2 DEF Holder, HoldingLocks
  <1>5. asset_state[a] = "quarantined"
    BY <1>3, <1>4 DEF MediaInv, LocksInv
  <1>6. /\ worker' \in [Workers -> Claim \cup {None}] /\ worker'[w] = None
        /\ \A v \in Workers : v # w => worker'[v] = worker[v]
    BY <1>2, WorkerDone DEF MediaInv
  <1>7. JobsInv'
    <2>1. /\ RowsTyped'
          /\ \A x \in Assets : job_state'[x] # "none" => asset_state[x] # "none"
      BY <1>1, <1>3, <1>5, JobCompleted
    <2>2. /\ asset_state' \in [Assets -> AssetState]
          /\ \A x \in Assets : asset_state[x] # "none" => asset_state'[x] # "none"
      BY <1>1, <1>3 DEF AssetState
    <2> QED
      BY <1>2, <1>6, <2>1, <2>2 DEF MediaInv, JobsInv, MediaTypeOK, RowsTyped
  <1>8. LocksInv'
    <2>1. \A v \in Workers, x \in Assets : Holder(v, x)' => v # w /\ Holder(v, x)
      BY <1>6 DEF Holder
    <2>2. \A v \in Workers, x \in Assets : Holder(v, x)' => x # a
      BY <1>3, <1>4, <2>1 DEF MediaInv, LocksInv
    <2>3. \A v \in Workers, x \in Assets : Holder(v, x)' => asset_state'[x] = "quarantined"
      BY <1>1, <1>3, <2>1, <2>2 DEF MediaInv, LocksInv
    <2>4. \A v \in Workers : worker'[v] # None => asset_state'[worker'[v].asset] # "none"
      <3>1. SUFFICES ASSUME NEW v \in Workers, worker'[v] # None
                     PROVE  asset_state'[worker'[v].asset] # "none"
        OBVIOUS
      <3>2. v # w /\ worker'[v] = worker[v] /\ worker[v] # None
        BY <1>6, <3>1
      <3>3. worker[v].asset \in Assets /\ asset_state[worker[v].asset] # "none"
        BY <3>2, Claimed DEF MediaInv, LocksInv
      <3> QED
        BY <1>1, <1>3, <3>2, <3>3
    <2> QED
      BY <2>1, <2>3, <2>4 DEF MediaInv, LocksInv
  <1>9. ObjectsInv'
    <2>1. \A x \in Assets : asset_state[x] = "approved" => asset_state'[x] = "approved"
      BY <1>1, <1>3, <1>5
    <2>2. a \in public' => content[a] = "clean"
      BY <1>2 DEF MediaInv, ObjectsInv, OnlyCleanBytesArePublic
    <2>3. asset_state'[a] = "approved" \/ worker[w].phase \notin InHand
      BY <1>1, <1>3 DEF InHand
    <2> QED
      BY <1>2, <1>6, <2>1, <2>2, <2>3, ObjectsKept
  <1>10. ListingsInv'
    BY <1>1, <1>2, <1>3, <1>5, ListingsKept
  <1> QED
    BY <1>7, <1>8, <1>9, <1>10 DEF MediaInv

-------------------------------------------------------------------------------
LEMMA WorkerStepMedia ==
    ASSUME MediaInv, NEW w \in Workers, WorkerStep(w) \/ worker_crash(w)
    PROVE  MediaInv'
  BY Zenon, LockMedia, GoesMedia, PutMedia, CommitMedia, RollbackMedia, DeleteMedia, RetryMedia,
     CrashMedia DEF WorkerStep

LEMMA StepMedia == MediaInv /\ [Next]_vars => MediaInv'
  <1> SUFFICES ASSUME MediaInv, [Next]_vars PROVE MediaInv'
    OBVIOUS
  <1>1. CASE \E a \in Assets : queue_listing_image_stores(a)
    BY <1>1, StoresMedia
  <1>2. CASE \E a \in Assets : queue_listing_image_commits(a)
    BY <1>2, CommitsMedia
  <1>3. CASE \E a \in Assets : queue_listing_image_fails(a)
    BY <1>3, UploadFailsMedia
  <1>4. CASE (\E a \in Assets : lease_expires(a)) \/ expire_exhausted_media_jobs
    BY <1>4, LeaseMedia
  <1>5. CASE \E a \in Assets, w \in Workers : claim_due_media_job(w, a)
    BY <1>5, ClaimMedia
  <1>6. CASE \E w \in Workers : WorkerStep(w) \/ worker_crash(w)
    BY <1>6, WorkerStepMedia
  <1>7. CASE UNCHANGED vars
    <2>1. UNCHANGED <<asset_state, storageVars, upload, worker>> /\ UNCHANGED jobVars
      BY <1>7 DEF vars
    <2>2. JobsInv'
      BY <2>1 DEF MediaInv, JobsInv, MediaTypeOK, jobVars, storageVars
    <2> QED
      BY <2>1, <2>2, JobRowsMedia
  <1> QED
    BY Zenon, <1>1, <1>2, <1>3, <1>4, <1>5, <1>6, <1>7 DEF Next

(* Uploads, leases, publication, rollback, clean-up and crashes keep the   *)
(* rows, the row locks, the public objects and the listings' room in step. *)
THEOREM MediaInvariant == Spec => []MediaInv
  BY InitMedia, StepMedia, PTL DEF Spec

(* Rows keep their types, and no job is attempted more often than          *)
(* MEDIA_JOB_MAX_ATTEMPTS, however many workers claim (claim_due_media_job). *)
THEOREM MediaTypeCorrect == Spec => []MediaTypeOK
  <1>1. MediaInv => MediaTypeOK
    BY DEF MediaInv, JobsInv
  <1> QED
    BY <1>1, MediaInvariant, PTL

(* process_quarantined_asset puts an object into the public bucket before  *)
(* the approval is committed, and yet only bytes the scanner passed ever   *)
(* get there.                                                              *)
THEOREM PublicBytesAreClean == Spec => []OnlyCleanBytesArePublic
  <1>1. MediaInv => OnlyCleanBytesArePublic
    BY DEF MediaInv, ObjectsInv
  <1> QED
    BY <1>1, MediaInvariant, PTL

(* A public object without an approval is in the hands of a worker that    *)
(* will approve or delete it, unless a crash or a storage error left it:   *)
(* no rollback, expired lease or failed commit forgets published_key.      *)
THEOREM ObjectsStayInHand == Spec => []UnauditedObjectsAreInHand
  <1>1. MediaInv => UnauditedObjectsAreInHand
    BY DEF MediaInv, ObjectsInv
  <1> QED
    BY <1>1, MediaInvariant, PTL

(* queue_listing_image counts the images, stores the original and writes   *)
(* the row; the listing's row lock keeps MEDIA_IMAGE_MAX_PER_LISTING       *)
(* across the three, for any number of concurrent uploads.                 *)
THEOREM ListingsKeepTheirLimit == Spec => []ListingKeepsItsLimit
  <1>1. MediaInv => ListingKeepsItsLimit
    BY DEF MediaInv, ListingsInv, ListingKeepsItsLimit
  <1> QED
    BY <1>1, MediaInvariant, PTL
===============================================================================
