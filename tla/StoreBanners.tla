------------------------------ MODULE StoreBanners ------------------------------
(***************************************************************************)
(* A merchant's storefront and its banner.  Banner versions are built by a *)
(* worker from what the store is called and sells at that moment, reviewed *)
(* by staff, and selected by the merchant; customers see the selected one. *)
(*                                                                         *)
(* A version and its job change state in the same commits, so one status   *)
(* stands for both: "ready" is the version's word for a job that succeeded. *)
(* A job is "processing" only inside a transaction that commits another    *)
(* status or rolls back, so it has no such state here.  A repeated         *)
(* idempotency key and an exhausted regeneration quota change nothing.     *)
(***************************************************************************)
EXTENDS Naturals, FiniteSets

CONSTANTS
    Owner, Admin,   \* the users who may edit the storefront
    Facts,          \* what a banner is made of: store name, locality, category
    Workers,
    MaxVersions,    \* bound on the banner versions of the store
    MaxRevision,    \* bound on the changes of the selection
    MaxAttempts,    \* BANNER_JOB_MAX_ATTEMPTS
    MaxCrashes,     \* bound on the worker processes that die in a job
    None            \* NULL

Users == {Owner, Admin}
Versions == 1..MaxVersions

ASSUME BannersAssumption ==
    /\ None \notin Facts /\ None \notin Versions
    /\ None \notin [facts : Facts, is_active : BOOLEAN]
    /\ Owner # Admin
    /\ MaxAttempts \in Nat \ {0}
    /\ MaxVersions \in Nat /\ MaxRevision \in Nat /\ MaxCrashes \in Nat
    /\ IsFiniteSet(Workers)

VARIABLES
    merchant_status, store, \* merchants, stores: what the merchant decides
    generation, moderation, manifest,   \* store_banner_versions and their jobs
    attempt_count,          \* banner_generation_jobs
    active, revision,       \* store_banner_selections
    seen,           \* the selection each user has on the screen
    worker,         \* what each worker process is doing
    crashes,
    reviewed        \* history: the manifest staff approved, per version

storeVars == <<merchant_status, store>>
buildVars == <<generation, manifest, attempt_count, worker, crashes>>
selectionVars == <<active, revision, seen>>
vars == <<storeVars, buildVars, moderation, selectionVars, reviewed>>

MerchantStatus == {"pending", "approved", "suspended"}
Generation == {"none", "queued", "retrying", "ready", "failed"}
Moderation == {"pending", "approved", "rejected", "disabled"}

Existing == {v \in Versions : generation[v] # "none"}

Init ==
    /\ merchant_status = None
    /\ store = None
    /\ generation = [v \in Versions |-> "none"]
    /\ moderation = [v \in Versions |-> "pending"]
    /\ manifest = [v \in Versions |-> None]
    /\ attempt_count = [v \in Versions |-> 0]
    /\ active = None
    /\ revision = 0
    /\ seen = [u \in Users |-> None]
    /\ worker = [w \in Workers |-> None]
    /\ crashes = 0
    /\ reviewed = [v \in Versions |-> None]

-------------------------------------------------------------------------------
(* The merchant and the store. *)

apply_as_merchant ==
    /\ merchant_status = None
    /\ merchant_status' = "pending"
    /\ UNCHANGED <<store, buildVars, moderation, selectionVars, reviewed>>

(* approve_merchant and update_merchant_status: the store is left alone. *)
set_merchant_status(s) ==
    /\ merchant_status \notin {None, s}
    /\ merchant_status' = s
    /\ UNCHANGED <<store, buildVars, moderation, selectionVars, reviewed>>

(* _owned_store; update_store asks the same. *)
owned_store(u) == store # None /\ (u = Admin \/ merchant_status = "approved")

create_banner_job ==
    \E v \in Versions :
        /\ \A x \in Versions : x < v <=> x \in Existing
        /\ generation' = [generation EXCEPT ![v] = "queued"]
        /\ UNCHANGED <<manifest, attempt_count, worker, crashes, moderation>>

create_store(f) ==
    /\ merchant_status = "approved"
    /\ store = None
    /\ store' = [facts |-> f, is_active |-> TRUE]
    /\ create_banner_job
    /\ UNCHANGED <<merchant_status, selectionVars, reviewed>>

update_store(u, f, is_active) ==
    /\ owned_store(u)
    /\ store' = [facts |-> f, is_active |-> is_active]
    /\ store' # store
    /\ UNCHANGED <<merchant_status, buildVars, moderation, selectionVars, reviewed>>

regenerate_store_banner(u) ==
    /\ owned_store(u)
    /\ create_banner_job
    /\ UNCHANGED <<storeVars, selectionVars, reviewed>>

-------------------------------------------------------------------------------
(* The worker. *)

At(w, phase) == worker[w] # None /\ worker[w].phase = phase
Done(w) == worker' = [worker EXCEPT ![w] = None]

(* The job row is locked from the claim to the commit or the rollback. *)
Locked(v) == \E w \in Workers : At(w, "building") /\ worker[w].version = v

(* Mutant: a job that failed once is never due again. *)
due_statuses_Once == {"queued"}

due_statuses == {"queued", "retrying"}

(* Oldest due job first, skipping locked ones; a job that is retried may   *)
(* not be due yet.                                                         *)
claim_due_job(w, v) ==
    /\ worker[w] = None
    /\ generation[v] \in due_statuses
    /\ ~Locked(v)
    /\ \A x \in Versions : x < v /\ generation[x] = "queued" => Locked(x)
    /\ worker' = [worker EXCEPT ![w] = [version |-> v, phase |-> "building"]]
    /\ UNCHANGED <<generation, manifest, attempt_count, crashes>>

build_manifest == store.facts

build_succeeds(w) ==
    /\ At(w, "building")
    /\ LET v == worker[w].version
       IN /\ manifest' = [manifest EXCEPT ![v] = build_manifest]
          /\ generation' = [generation EXCEPT ![v] = "ready"]
    /\ Done(w)
    /\ UNCHANGED <<attempt_count, crashes>>

(* Any exception rolls back, which releases the job. *)
build_fails(w) ==
    /\ At(w, "building")
    /\ worker' = [worker EXCEPT ![w].phase = "failing"]
    /\ UNCHANGED <<generation, manifest, attempt_count, crashes>>

(* Mutant: one attempt more than configured. *)
exhausted_Late(attempts) == attempts > MaxAttempts

exhausted(attempts) == attempts >= MaxAttempts

(* The job is locked again and written to, whatever it says by now. *)
record_failure(w) ==
    /\ At(w, "failing")
    /\ LET v == worker[w].version
       IN /\ ~Locked(v)
          /\ attempt_count' = [attempt_count EXCEPT ![v] = @ + 1]
          /\ generation' = [generation EXCEPT ![v] =
                IF exhausted(attempt_count[v] + 1) THEN "failed" ELSE "retrying"]
    /\ Done(w)
    /\ UNCHANGED <<manifest, crashes>>

worker_crash(w) ==
    /\ worker[w] # None
    /\ crashes < MaxCrashes
    /\ crashes' = crashes + 1
    /\ Done(w)
    /\ UNCHANGED <<generation, manifest, attempt_count>>

-------------------------------------------------------------------------------
(* Review and selection. *)

selection_read(u) ==
    seen' = [seen EXCEPT ![u] = [revision |-> revision', active |-> active']]

get_store_banner(u) ==
    /\ owned_store(u)
    /\ UNCHANGED <<active, revision>>
    /\ selection_read(u)
    /\ UNCHANGED <<storeVars, buildVars, moderation, reviewed>>

accept_store_banner(u, v) ==
    /\ owned_store(u)
    /\ generation[v] = "ready" /\ moderation[v] = "approved"
    /\ seen[u] # None /\ seen[u].revision = revision
    /\ revision < MaxRevision
    /\ active' = v
    /\ revision' = revision + 1
    /\ selection_read(u)
    /\ UNCHANGED <<storeVars, buildVars, moderation, reviewed>>

(* Mutant: taking a banner down does not count as a change. *)
take_down_Silent(v) ==
    /\ active' = IF active = v THEN None ELSE active
    /\ UNCHANGED revision

take_down(v) ==
    \/ active = v /\ revision < MaxRevision /\ active' = None /\ revision' = revision + 1
    \/ active # v /\ UNCHANGED <<active, revision>>

(* Mutant: drafts can be approved. *)
moderate_store_banner_Drafts(v, target) ==
    /\ moderation' = [moderation EXCEPT ![v] = target]
    /\ IF target = "approved"
       THEN /\ reviewed' = [reviewed EXCEPT ![v] = manifest[v]]
            /\ UNCHANGED <<active, revision>>
       ELSE take_down(v) /\ UNCHANGED reviewed
    /\ UNCHANGED <<storeVars, buildVars, seen>>

moderate_store_banner(v, target) ==
    /\ target = "approved" => generation[v] = "ready"
    /\ moderation' = [moderation EXCEPT ![v] = target]
    /\ IF target = "approved"
       THEN /\ reviewed' = [reviewed EXCEPT ![v] = manifest[v]]
            /\ UNCHANGED <<active, revision>>
       ELSE take_down(v) /\ UNCHANGED reviewed
    /\ UNCHANGED <<storeVars, buildVars, seen>>

-------------------------------------------------------------------------------
EditorStep(u) ==
    \/ \E f \in Facts, is_active \in BOOLEAN : update_store(u, f, is_active)
    \/ regenerate_store_banner(u)
    \/ get_store_banner(u)
    \/ \E v \in Existing : accept_store_banner(u, v)

BuildStep(w) == build_succeeds(w) \/ build_fails(w) \/ record_failure(w)
ClaimStep(v) == \E w \in Workers : claim_due_job(w, v)
WorkerVarsOnly == UNCHANGED <<storeVars, moderation, selectionVars, reviewed>>

Next ==
    \/ apply_as_merchant
    \/ \E s \in MerchantStatus : set_merchant_status(s)
    \/ \E f \in Facts : create_store(f)
    \/ \E u \in Users : EditorStep(u)
    \/ \E v \in Existing, target \in Moderation \ {"pending"} : moderate_store_banner(v, target)
    \/ \E v \in Existing : ClaimStep(v) /\ WorkerVarsOnly
    \/ \E w \in Workers : (BuildStep(w) \/ worker_crash(w)) /\ WorkerVarsOnly

Spec == Init /\ [][Next]_vars

(* The worker polls for ever and finishes what it began unless it dies. *)
WorkerFairness ==
    /\ \A v \in Versions : WF_vars(v \in Existing /\ ClaimStep(v) /\ WorkerVarsOnly)
    /\ \A w \in Workers : WF_vars(BuildStep(w) /\ WorkerVarsOnly)

FairSpec == Spec /\ WorkerFairness

-------------------------------------------------------------------------------
(* What customers are shown: public_presentation of a store that           *)
(* _public_store_stmt finds.                                               *)
public_store == store # None /\ store.is_active /\ merchant_status = "approved"

public_presentation ==
    IF /\ public_store /\ active # None
       /\ generation[active] = "ready" /\ moderation[active] = "approved"
    THEN manifest[active] ELSE None

-------------------------------------------------------------------------------
(* Properties. *)

(* Rows keep their types.  A job is attempted at most                      *)
(* BANNER_JOB_MAX_ATTEMPTS times; workers that failed at the same time may *)
(* each add one.                                                           *)
BannersTypeOK ==
    /\ merchant_status \in MerchantStatus \cup {None}
    /\ store \in [facts : Facts, is_active : BOOLEAN] \cup {None}
    /\ generation \in [Versions -> Generation]
    /\ moderation \in [Versions -> Moderation]
    /\ manifest \in [Versions -> Facts \cup {None}]
    /\ attempt_count \in [Versions -> 0..(MaxAttempts + Cardinality(Workers) - 1)]
    /\ active \in Versions \cup {None}
    /\ revision \in 0..MaxRevision
    /\ seen \in [Users -> [revision : 0..MaxRevision, active : Versions \cup {None}] \cup {None}]
    /\ worker \in [Workers ->
          [version : Versions, phase : {"building", "failing"}] \cup {None}]
    /\ crashes \in 0..MaxCrashes
    /\ reviewed \in [Versions -> Facts \cup {None}]

(* Optimistic locking works: an editor whose selection_revision is accepted *)
(* knew which banner he replaces, also when staff took one down meanwhile. *)
CurrentRevisionSawSelection ==
    \A u \in Users :
        seen[u] # None /\ seen[u].revision = revision => seen[u].active = active

(* Customers are shown exactly what staff reviewed, also when the store    *)
(* was renamed, restocked, suspended or regenerated in between.            *)
CustomersSeeReviewedManifest ==
    public_presentation # None => public_presentation = reviewed[active]

(* A banner that is queued is built or given up in the end. *)
EveryBannerIsBuilt ==
    \A v \in Versions : generation[v] = "queued" ~> generation[v] \in {"ready", "failed"}
===============================================================================
