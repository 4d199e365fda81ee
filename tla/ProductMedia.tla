------------------------------ MODULE ProductMedia ------------------------------
(***************************************************************************)
(* Listing images: an upload puts the private original into object storage *)
(* and queues a job; workers lease jobs, scan the original, publish a      *)
(* derivative and record the approval.  Object storage is not part of the  *)
(* database transaction, so every call of it is a step of its own, and a   *)
(* process may die, or a storage call fail, around each of them.           *)
(*                                                                         *)
(* The derivative's key is made from the asset's id: every attempt at an   *)
(* asset writes and deletes the same public object.  Content is reduced to *)
(* whether the scanner would pass it.  Clock readings are reduced to the   *)
(* lease being live or expired; backoff only delays, which the choice of   *)
(* when a queued job is claimed includes.                                  *)
(***************************************************************************)
EXTENDS Naturals, FiniteSets

CONSTANTS
    Assets,         \* images that may be uploaded
    Listings, listing_of,   \* the listing each one is uploaded for
    content,        \* what the uploaded bytes are: "clean" or "unsafe"
    Workers,        \* worker processes
    MaxAttempts,    \* MEDIA_JOB_MAX_ATTEMPTS
    MaxPerListing,  \* MEDIA_IMAGE_MAX_PER_LISTING
    None            \* NULL

ASSUME ProductMediaAssumption ==
    /\ listing_of \in [Assets -> Listings]
    /\ content \in [Assets -> {"clean", "unsafe"}]
    /\ MaxAttempts \in Nat \ {0}
    /\ MaxPerListing \in Nat
    /\ None \notin Assets

AssetState == {"none", "quarantined", "approved", "rejected"}
JobState == {"none", "queued", "processing", "completed", "failed"}
Phase == {"claimed", "scanning", "published", "refused", "cleaning", "failing", "retrying"}
Claim == [asset : Assets, attempt : 1..MaxAttempts, phase : Phase]

ASSUME ClaimsAssumption == None \notin Claim

VARIABLES
    asset_state,    \* product_media_assets
    job_state, attempt_count, lease,    \* product_media_jobs
    quarantine, public,     \* objects in the private and the public bucket
    upload,         \* per listing: the asset whose upload holds its row lock
    worker,         \* what each worker process is doing
    abandoned       \* history: a crash or a storage error left the object behind

jobVars == <<job_state, attempt_count, lease>>
storageVars == <<quarantine, public, abandoned>>
vars == <<asset_state, jobVars, storageVars, upload, worker>>

(* The steps between the row locks being taken and the commit or rollback. *)
HoldingLocks == {"scanning", "published", "refused"}
Locked(a) ==
    \E w \in Workers :
        worker[w] # None /\ worker[w].asset = a /\ worker[w].phase \in HoldingLocks

At(w, phase) == worker[w] # None /\ worker[w].phase = phase
Goes(w, phase) == worker' = [worker EXCEPT ![w].phase = phase]
Done(w) == worker' = [worker EXCEPT ![w] = None]

Init ==
    /\ asset_state = [a \in Assets |-> "none"]
    /\ job_state = [a \in Assets |-> "none"]
    /\ attempt_count = [a \in Assets |-> 0]
    /\ lease = [a \in Assets |-> "none"]
    /\ quarantine = {}
    /\ public = {}
    /\ upload = [l \in Listings |-> None]
    /\ worker = [w \in Workers |-> None]
    /\ abandoned = {}

-------------------------------------------------------------------------------
(* Uploading: the listing row stays locked from the count to the commit. *)

images_of(l) ==
    {a \in Assets : listing_of[a] = l /\ asset_state[a] \notin {"none", "rejected"}}

(* Mutant: the listing row is read without a lock. *)
listing_is_unlocked_Always(l) == TRUE

listing_is_unlocked(l) == upload[l] = None

queue_listing_image_stores(a) ==
    LET l == listing_of[a]
    IN /\ listing_is_unlocked(l)
       /\ asset_state[a] = "none" /\ a \notin quarantine /\ a \notin abandoned
       /\ Cardinality(images_of(l)) < MaxPerListing
       /\ quarantine' = quarantine \cup {a}
       /\ upload' = [upload EXCEPT ![l] = a]
       /\ UNCHANGED <<asset_state, jobVars, public, worker, abandoned>>

queue_listing_image_commits(a) ==
    /\ a \in quarantine /\ asset_state[a] = "none" /\ a \notin abandoned
    /\ asset_state' = [asset_state EXCEPT ![a] = "quarantined"]
    /\ job_state' = [job_state EXCEPT ![a] = "queued"]
    /\ upload' = [upload EXCEPT ![listing_of[a]] = None]
    /\ UNCHANGED <<attempt_count, lease, storageVars, worker>>

(* The database refuses the rows and the original is deleted, or the process *)
(* dies, or the deletion fails: the original is left in the private bucket.  *)
queue_listing_image_fails(a) ==
    /\ a \in quarantine /\ asset_state[a] = "none" /\ a \notin abandoned
    /\ upload' = [upload EXCEPT ![listing_of[a]] = None]
    /\ \/ quarantine' = quarantine \ {a} /\ UNCHANGED abandoned
       \/ abandoned' = abandoned \cup {a} /\ UNCHANGED quarantine
    /\ UNCHANGED <<asset_state, jobVars, public, worker>>

-------------------------------------------------------------------------------
(* Leases. *)

lease_expires(a) ==
    /\ lease[a] = "live"
    /\ lease' = [lease EXCEPT ![a] = "expired"]
    /\ UNCHANGED <<asset_state, job_state, attempt_count, storageVars, upload, worker>>

(* Mutant: nobody finishes a lease that consumed the final attempt. *)
exhausted_jobs_Ignored == {}

exhausted_jobs ==
    {a \in Assets : /\ job_state[a] = "processing"
                    /\ attempt_count[a] >= MaxAttempts
                    /\ lease[a] = "expired"
                    /\ ~Locked(a)}

expire_exhausted_media_jobs ==
    /\ exhausted_jobs # {}
    /\ job_state' = [a \in Assets |-> IF a \in exhausted_jobs THEN "failed" ELSE job_state[a]]
    /\ lease' = [a \in Assets |-> IF a \in exhausted_jobs THEN "none" ELSE lease[a]]
    /\ UNCHANGED <<asset_state, attempt_count, storageVars, upload, worker>>

(* Mutant: one attempt more than configured. *)
job_is_due_Late(a) ==
    /\ attempt_count[a] <= MaxAttempts
    /\ job_state[a] = "queued" \/ (job_state[a] = "processing" /\ lease[a] = "expired")

job_is_due(a) ==
    /\ attempt_count[a] < MaxAttempts
    /\ job_state[a] = "queued" \/ (job_state[a] = "processing" /\ lease[a] = "expired")

claim_due_media_job(w, a) ==
    /\ worker[w] = None
    /\ job_is_due(a)
    /\ ~Locked(a)
    /\ job_state' = [job_state EXCEPT ![a] = "processing"]
    /\ attempt_count' = [attempt_count EXCEPT ![a] = @ + 1]
    /\ lease' = [lease EXCEPT ![a] = "live"]
    /\ worker' = [worker EXCEPT ![w] =
          [asset |-> a, attempt |-> attempt_count[a] + 1, phase |-> "claimed"]]
    /\ UNCHANGED <<asset_state, storageVars, upload>>

(* complete_media_job: what a job becomes, by outcome. *)
completed_as(a, outcome) ==
    CASE outcome = "approved" -> "completed"
      [] outcome = "rejected" -> "failed"
      [] outcome = "retry" -> IF attempt_count[a] >= MaxAttempts THEN "failed" ELSE "queued"

complete_media_job(a, outcome) ==
    /\ job_state' = [job_state EXCEPT ![a] = completed_as(a, outcome)]
    /\ lease' = [lease EXCEPT ![a] = "none"]
    /\ UNCHANGED attempt_count

claim_is_current(w) ==
    LET a == worker[w].asset
    IN /\ job_state[a] = "processing"
       /\ attempt_count[a] = worker[w].attempt
       /\ lease[a] = "live"

-------------------------------------------------------------------------------
(* Working on a claimed job. *)

(* The claim is looked at again under the row locks, which are then kept.  *)
(* An asset that is already decided only gets its job closed.              *)
lock_claimed_job(w) ==
    /\ At(w, "claimed")
    /\ LET a == worker[w].asset
       IN /\ ~Locked(a)
          /\ IF ~claim_is_current(w)
             THEN Done(w) /\ UNCHANGED jobVars
             ELSE IF asset_state[a] = "quarantined"
                  THEN Goes(w, "scanning") /\ UNCHANGED jobVars
                  ELSE Done(w) /\ complete_media_job(a, asset_state[a])
    /\ UNCHANGED <<asset_state, storageVars, upload>>

(* The scanner's verdict on the bytes; it may always be unavailable. *)
scan_verdicts(a) == {"unavailable", IF content[a] = "clean" THEN "clean" ELSE "infected"}

(* Mutant: a scanner that cannot be reached counts as no objection. *)
scan_passes_Unavailable(verdict) == verdict # "infected"

scan_passes(verdict) == verdict = "clean"

(* inspect_and_render: an original that is gone, does not match its hash,  *)
(* is not an image of the declared kind or is refused by the scanner is    *)
(* rejected for good; a scanner that gives no verdict is an error.         *)
inspection_refuses(w) ==
    /\ At(w, "scanning")
    /\ LET a == worker[w].asset
       IN a \notin quarantine \/ "infected" \in scan_verdicts(a)
    /\ Goes(w, "refused")
    /\ UNCHANGED <<asset_state, jobVars, storageVars, upload>>

inspection_fails(w) ==
    /\ At(w, "scanning")
    /\ Goes(w, "failing")
    /\ UNCHANGED <<asset_state, jobVars, storageVars, upload>>

put_public_derivative(w) ==
    /\ At(w, "scanning")
    /\ LET a == worker[w].asset
       IN /\ a \in quarantine
          /\ \E verdict \in scan_verdicts(a) : scan_passes(verdict)
          /\ public' = public \cup {a}
    /\ Goes(w, "published")
    /\ UNCHANGED <<asset_state, jobVars, quarantine, abandoned, upload>>

(* The object was written, reading it back failed, and so did deleting it. *)
put_public_derivative_fails(w) ==
    /\ At(w, "scanning")
    /\ LET a == worker[w].asset
       IN /\ a \in quarantine
          /\ \E verdict \in scan_verdicts(a) : scan_passes(verdict)
          /\ public' = public \cup {a}
          /\ abandoned' = abandoned \cup {a}
    /\ Goes(w, "failing")
    /\ UNCHANGED <<asset_state, jobVars, quarantine, upload>>

(* Approval or rejection and the end of the job are one commit.  An expired *)
(* lease, read from the row the session loaded, rolls it back instead.     *)
commit_publication(w) ==
    /\ At(w, "published") \/ At(w, "refused")
    /\ LET a == worker[w].asset
           outcome == IF At(w, "published") THEN "approved" ELSE "rejected"
       IN /\ lease[a] = "live"
          /\ asset_state' = [asset_state EXCEPT ![a] = outcome]
          /\ complete_media_job(a, outcome)
    /\ Done(w)
    /\ UNCHANGED <<storageVars, upload>>

(* Mutant: what a rolled back transaction wrote to storage is forgotten. *)
after_rollback_Forgets(w) == "failing"

(* published_key says whether there is an object to delete. *)
after_rollback(w) == IF At(w, "published") THEN "retrying" ELSE "failing"

rollback_expired(w) ==
    /\ At(w, "published") \/ At(w, "refused")
    /\ lease[worker[w].asset] = "expired"
    /\ IF At(w, "published") THEN Goes(w, "cleaning") ELSE Done(w)
    /\ UNCHANGED <<asset_state, jobVars, storageVars, upload>>

commit_fails(w) ==
    /\ At(w, "published") \/ At(w, "refused")
    /\ Goes(w, after_rollback(w))
    /\ UNCHANGED <<asset_state, jobVars, storageVars, upload>>

(* The object is deleted after the rollback, when the locks are gone; then *)
(* the worker moves on, or sees to the retry if there was an error.        *)
delete_public_derivative(w) ==
    /\ At(w, "cleaning") \/ At(w, "retrying")
    /\ LET a == worker[w].asset
       IN \/ public' = public \ {a} /\ UNCHANGED abandoned
          \/ abandoned' = abandoned \cup {a} /\ UNCHANGED public
    /\ IF At(w, "cleaning") THEN Done(w) ELSE Goes(w, "failing")
    /\ UNCHANGED <<asset_state, jobVars, quarantine, upload>>

schedule_retry(w) ==
    /\ At(w, "failing")
    /\ ~Locked(worker[w].asset)
    /\ IF claim_is_current(w) THEN complete_media_job(worker[w].asset, "retry")
                              ELSE UNCHANGED jobVars
    /\ Done(w)
    /\ UNCHANGED <<asset_state, storageVars, upload>>

(* The process dies: its locks are released, its uncommitted rows are gone, *)
(* what it put into storage stays.                                         *)
worker_crash(w) ==
    /\ worker[w] # None
    /\ abandoned' = IF worker[w].phase \in {"published", "cleaning", "retrying"}
                    THEN abandoned \cup {worker[w].asset} ELSE abandoned
    /\ Done(w)
    /\ UNCHANGED <<asset_state, jobVars, quarantine, public, upload>>

-------------------------------------------------------------------------------
WorkerStep(w) ==
    \/ lock_claimed_job(w) \/ inspection_refuses(w) \/ inspection_fails(w)
    \/ put_public_derivative(w) \/ put_public_derivative_fails(w)
    \/ commit_publication(w) \/ rollback_expired(w) \/ commit_fails(w)
    \/ delete_public_derivative(w) \/ schedule_retry(w)

Next ==
    \/ \E a \in Assets :
          \/ queue_listing_image_stores(a) \/ queue_listing_image_commits(a)
          \/ queue_listing_image_fails(a) \/ lease_expires(a)
          \/ \E w \in Workers : claim_due_media_job(w, a)
    \/ expire_exhausted_media_jobs
    \/ \E w \in Workers : WorkerStep(w) \/ worker_crash(w)

(* Workers poll for ever and are restarted when they die, they take the    *)
(* oldest due job first, and clocks move on.  Nothing is assumed of uploads, *)
(* of the scanner or of storage.                                           *)
PollingFairness ==
    /\ \A a \in Assets : WF_vars(lease_expires(a))
    /\ \A a \in Assets : WF_vars(\E w \in Workers : claim_due_media_job(w, a))
    /\ WF_vars(expire_exhausted_media_jobs)
    /\ \A w \in Workers : WF_vars(WorkerStep(w))

Spec == Init /\ [][Next]_vars
FairSpec == Spec /\ PollingFairness

-------------------------------------------------------------------------------
(* Properties. *)

(* Rows keep their types, and no job is attempted more often than          *)
(* MEDIA_JOB_MAX_ATTEMPTS, by however many workers and after however many  *)
(* crashes.                                                                *)
MediaTypeOK ==
    /\ asset_state \in [Assets -> AssetState]
    /\ job_state \in [Assets -> JobState]
    /\ attempt_count \in [Assets -> 0..MaxAttempts]
    /\ lease \in [Assets -> {"none", "live", "expired"}]
    /\ quarantine \subseteq Assets /\ public \subseteq Assets /\ abandoned \subseteq Assets
    /\ upload \in [Listings -> Assets \cup {None}]
    /\ worker \in [Workers -> Claim \cup {None}]

(* Only bytes the scanner passed are ever readable by the public, also     *)
(* while the approval is not committed and when it never is.               *)
OnlyCleanBytesArePublic == \A a \in public : content[a] = "clean"

(* An object that is public without an approval on record is in the hands  *)
(* of a worker that will approve or delete it, unless a crash or a storage *)
(* error left it behind: rollbacks and expired leases leave nothing.       *)
UnauditedObjectsAreInHand ==
    \A a \in public :
        \/ asset_state[a] = "approved"
        \/ a \in abandoned
        \/ \E w \in Workers :
              /\ worker[w] # None
              /\ worker[w].asset = a
              /\ worker[w].phase \in {"published", "cleaning", "retrying"}

(* A listing never shows or holds more images than allowed, although the   *)
(* count is taken before the original is stored and the row written.       *)
ListingKeepsItsLimit ==
    \A l \in Listings : Cardinality(images_of(l)) <= MaxPerListing

(* A job that is queued is decided in the end: completed or failed, never  *)
(* left in processing by a worker that died with the last attempt.         *)
EveryUploadIsDecided ==
    \A a \in Assets : job_state[a] = "queued" ~> job_state[a] \in {"completed", "failed"}

(* What customers are shown as an approved image can be fetched. *)
ApprovedImageIsServed ==
    \A a \in Assets : asset_state[a] = "approved" => a \in public
===============================================================================
