----------------------------- MODULE BannersProofs -----------------------------
(***************************************************************************)
(* The banner of a store, for every number of versions, facts and edits.   *)
(* That an accepted revision saw the selection holds for any number of     *)
(* workers; that customers see what was reviewed needs the one worker that *)
(* is deployed, because a second one's late failure reopens a version.     *)
(***************************************************************************)
EXTENDS StoreBanners, FiniteSetTheorems, TLAPS

Selected == Versions \cup {None}

(* A page never shows a later revision than the one there is. *)
SelectionInv ==
    /\ active \in Selected
    /\ revision \in 0..MaxRevision
    /\ seen \in [Users -> [revision : 0..MaxRevision, active : Selected] \cup {None}]
    /\ \A u \in Users : seen[u] # None => seen[u].revision <= revision
    /\ CurrentRevisionSawSelection

LEMMA InitSelection == Init => SelectionInv
  BY BannersAssumption DEF Init, SelectionInv, Selected, CurrentRevisionSawSelection

LEMMA ReadingSelection ==
    ASSUME SelectionInv, NEW u \in Users, selection_read(u),
           active' \in Selected, revision' \in 0..MaxRevision,
           \/ active' = active /\ revision' = revision
           \/ revision' = revision + 1
    PROVE  SelectionInv'
  <1> DEFINE page == [revision |-> revision', active |-> active']
  <1>1. page \in [revision : 0..MaxRevision, active : Selected]
    OBVIOUS
  <1> QED
    BY <1>1, BannersAssumption
    DEF SelectionInv, selection_read, CurrentRevisionSawSelection

LEMMA StepSelection == SelectionInv /\ [Next]_vars => SelectionInv'
  <1> SUFFICES ASSUME SelectionInv, [Next]_vars PROVE SelectionInv'
    OBVIOUS
  <1>1. ASSUME UNCHANGED selectionVars PROVE SelectionInv'
    BY <1>1 DEF SelectionInv, selectionVars, CurrentRevisionSawSelection
  <1>2. ASSUME NEW u \in Users, get_store_banner(u) PROVE SelectionInv'
    BY <1>2, ReadingSelection DEF get_store_banner, SelectionInv
  <1>3. ASSUME NEW u \in Users, NEW v \in Existing, accept_store_banner(u, v)
        PROVE  SelectionInv'
    BY <1>3, ReadingSelection, BannersAssumption
    DEF accept_store_banner, SelectionInv, Existing, Selected
  <1>4. ASSUME NEW v \in Existing, NEW target \in Moderation, moderate_store_banner(v, target)
        PROVE  SelectionInv'
    <2>1. seen' = seen
      BY <1>4 DEF moderate_store_banner
    <2>2. CASE UNCHANGED <<active, revision>>
      BY <2>1, <2>2, <1>1 DEF selectionVars
    <2>3. CASE take_down(v)
      BY <2>1, <2>3, BannersAssumption
      DEF take_down, SelectionInv, CurrentRevisionSawSelection, Selected
    <2> QED
      BY <1>4, <2>2, <2>3 DEF moderate_store_banner
  <1>5. ASSUME NEW u \in Users, EditorStep(u) PROVE SelectionInv'
    <2>1. ASSUME NEW f \in Facts, NEW is_active \in BOOLEAN, update_store(u, f, is_active)
          PROVE  SelectionInv'
      BY <1>1, <2>1 DEF update_store
    <2>2. CASE regenerate_store_banner(u)
      BY <1>1, <2>2 DEF regenerate_store_banner
    <2> QED
      BY <1>5, <1>2, <1>3, <2>1, <2>2 DEF EditorStep
  <1>6. CASE UNCHANGED vars
    BY <1>1, <1>6 DEF vars
  <1>7. CASE apply_as_merchant
    BY <1>1, <1>7 DEF apply_as_merchant
  <1>8. ASSUME NEW s \in MerchantStatus, set_merchant_status(s) PROVE SelectionInv'
    BY <1>1, <1>8 DEF set_merchant_status
  <1>9. ASSUME NEW f \in Facts, create_store(f) PROVE SelectionInv'
    BY <1>1, <1>9 DEF create_store
  <1>10. CASE WorkerVarsOnly
    BY <1>1, <1>10 DEF WorkerVarsOnly
  <1> QED
    BY <1>4, <1>5, <1>6, <1>7, <1>8, <1>9, <1>10 DEF Next

(* Whoever accepts a banner has seen which one it replaces, whatever staff  *)
(* and other editors did meanwhile: accept_store_banner's revision check.  *)
THEOREM RevisionsSawSelection == Spec => []CurrentRevisionSawSelection
  <1>1. SelectionInv => CurrentRevisionSawSelection
    BY DEF SelectionInv
  <1> QED
    BY <1>1, InitSelection, StepSelection, PTL DEF Spec

-------------------------------------------------------------------------------
(* With one worker: what it works on is due, and has attempts left. *)

OneWorker == \E w : Workers = {w}

BuildInv ==
    /\ BannersTypeOK
    /\ \A v \in Versions : generation[v] \in due_statuses => attempt_count[v] < MaxAttempts
    /\ \A v \in Versions : generation[v] = "none" => attempt_count[v] = 0
    /\ \A w \in Workers : worker[w] # None => generation[worker[w].version] \in due_statuses
    /\ \A v \in Versions : generation[v] # "none" => store # None

(* What is approved was ready when it was approved, and stays as it was. *)
ReviewInv ==
    \A v \in Versions :
        moderation[v] = "approved" => generation[v] = "ready" /\ reviewed[v] = manifest[v]

(* A row is not NULL. *)
LEMMA RecordIsNotNull ==
    ASSUME NEW f \in Facts, NEW b \in BOOLEAN
    PROVE  [facts |-> f, is_active |-> b] # None
  BY BannersAssumption

LEMMA InitBuild == ASSUME OneWorker PROVE Init => BuildInv /\ ReviewInv
  <1>1. Cardinality(Workers) = 1
    BY FS_Singleton DEF OneWorker
  <1> QED
    BY <1>1, BannersAssumption
    DEF Init, BuildInv, ReviewInv, BannersTypeOK, MerchantStatus, Generation, Moderation,
        due_statuses

LEMMA QueueBuild ==
    ASSUME BuildInv, ReviewInv, create_banner_job, store' # None,
           store' \in [facts : Facts, is_active : BOOLEAN],
           UNCHANGED <<merchant_status, selectionVars, reviewed>>
    PROVE  BuildInv' /\ ReviewInv'
  <1> USE BannersAssumption DEF BuildInv, ReviewInv, due_statuses
  <1>0. PICK v \in Versions :
           /\ \A x \in Versions : x < v <=> x \in Existing
           /\ generation' = [generation EXCEPT ![v] = "queued"]
           /\ UNCHANGED <<manifest, attempt_count, worker, crashes, moderation>>
    BY DEF create_banner_job
  <1>1. generation[v] = "none"
    <2>1. v \in Int /\ ~(v < v)
      BY DEF Versions
    <2> QED
      BY <1>0, <2>1 DEF Existing
  <1>2. BannersTypeOK'
    BY <1>0, <1>1 DEF BannersTypeOK, selectionVars, Generation
  <1>3. \A w \in Workers : worker[w] # None => worker[w].version \in Versions
    BY DEF BannersTypeOK
  <1> QED
    BY <1>0, <1>1, <1>2, <1>3 DEF BannersTypeOK, Generation

LEMMA WorkBuild ==
    ASSUME OneWorker, BuildInv, ReviewInv, WorkerVarsOnly, NEW w \in Workers,
           \/ \E v \in Existing : claim_due_job(w, v)
           \/ BuildStep(w)
           \/ worker_crash(w)
    PROVE  BuildInv' /\ ReviewInv'
  <1> USE BannersAssumption DEF BuildInv, ReviewInv, due_statuses, WorkerVarsOnly, storeVars, selectionVars
  <1>0. Cardinality(Workers) = 1 /\ \A x \in Workers : x = w
    BY FS_Singleton DEF OneWorker
  <1>1. ASSUME NEW v \in Existing, claim_due_job(w, v) PROVE BuildInv' /\ ReviewInv'
    <2>1. v \in Versions
      BY DEF Existing
    <2>2. BannersTypeOK'
      BY <1>1, <2>1 DEF claim_due_job, BannersTypeOK
    <2> QED
      BY <1>0, <1>1, <2>1, <2>2 DEF claim_due_job, BannersTypeOK
  <1>2. ASSUME worker[w] # None
        PROVE  /\ worker[w].version \in Versions
               /\ worker[w].phase \in {"building", "failing"}
               /\ generation[worker[w].version] \in {"queued", "retrying"}
               /\ moderation[worker[w].version] # "approved"
               /\ store # None
    BY <1>2 DEF BannersTypeOK
  <1>3. CASE build_succeeds(w)
    <2> DEFINE v == worker[w].version
    <2>1. /\ worker[w] # None
          /\ manifest' = [manifest EXCEPT ![v] = store.facts]
          /\ generation' = [generation EXCEPT ![v] = "ready"]
          /\ worker' = [worker EXCEPT ![w] = None]
          /\ UNCHANGED <<attempt_count, crashes>>
      BY <1>3 DEF build_succeeds, At, Done, build_manifest
    <2>2. BannersTypeOK'
      BY <1>2, <2>1 DEF BannersTypeOK, Generation
    <2> QED
      BY <1>0, <1>2, <2>1, <2>2 DEF BannersTypeOK
  <1>4. CASE build_fails(w)
    <2>1. /\ worker[w] # None
          /\ worker' = [worker EXCEPT ![w].phase = "failing"]
          /\ UNCHANGED <<generation, manifest, attempt_count, crashes>>
      BY <1>4 DEF build_fails, At
    <2>2. worker' = [worker EXCEPT ![w] = [version |-> worker[w].version, phase |-> "failing"]]
      <3>1. worker[w] \in [version : Versions, phase : {"building", "failing"}]
        BY <2>1 DEF BannersTypeOK
      <3>2. [worker[w] EXCEPT !.phase = "failing"]
              = [version |-> worker[w].version, phase |-> "failing"]
        BY <3>1
      <3> QED
        BY <2>1, <3>2
    <2>3. BannersTypeOK'
      BY <1>2, <2>1, <2>2 DEF BannersTypeOK
    <2> QED
      BY <1>0, <1>2, <2>1, <2>2, <2>3 DEF BannersTypeOK
  <1>5. CASE record_failure(w)
    <2> DEFINE v == worker[w].version
    <2>1. /\ worker[w] # None
          /\ attempt_count' = [attempt_count EXCEPT ![v] = @ + 1]
          /\ generation' = [generation EXCEPT ![v] =
                IF attempt_count[v] + 1 >= MaxAttempts THEN "failed" ELSE "retrying"]
          /\ worker' = [worker EXCEPT ![w] = None]
          /\ UNCHANGED <<manifest, crashes>>
      BY <1>5 DEF record_failure, At, Done, exhausted
    <2>2. attempt_count[v] \in Nat /\ attempt_count[v] < MaxAttempts
      BY <1>0, <1>2, <2>1 DEF BannersTypeOK
    <2>3. BannersTypeOK'
      BY <1>0, <1>2, <2>1, <2>2 DEF BannersTypeOK, Generation
    <2> QED
      BY <1>0, <1>2, <2>1, <2>2, <2>3 DEF BannersTypeOK, Generation
  <1>6. CASE worker_crash(w)
    <2>1. BannersTypeOK'
      BY <1>6 DEF worker_crash, Done, BannersTypeOK
    <2> QED
      BY <1>6, <2>1, <1>0 DEF worker_crash, Done, BannersTypeOK
  <1> QED
    BY <1>1, <1>3, <1>4, <1>5, <1>6 DEF BuildStep

LEMMA EditBuild ==
    ASSUME BuildInv, ReviewInv, SelectionInv', UNCHANGED <<buildVars, moderation, reviewed>>,
           merchant_status' \in MerchantStatus \cup {None},
           store' \in [facts : Facts, is_active : BOOLEAN] \cup {None},
           store # None => store' # None
    PROVE  BuildInv' /\ ReviewInv'
  <1>1. BannersTypeOK'
    BY DEF BuildInv, BannersTypeOK, buildVars, SelectionInv, Selected
  <1> QED
    BY <1>1 DEF BuildInv, ReviewInv, buildVars

LEMMA StepBuild ==
    ASSUME OneWorker
    PROVE  BuildInv /\ ReviewInv /\ SelectionInv /\ [Next]_vars => BuildInv' /\ ReviewInv'
  <1> SUFFICES ASSUME BuildInv, ReviewInv, SelectionInv, [Next]_vars
               PROVE  BuildInv' /\ ReviewInv'
    OBVIOUS
  <1>0. SelectionInv'
    BY StepSelection
  <1>a. /\ merchant_status \in MerchantStatus \cup {None}
        /\ store \in [facts : Facts, is_active : BOOLEAN] \cup {None}
    BY DEF BuildInv, BannersTypeOK
  <1>1. CASE UNCHANGED vars
    BY <1>0, <1>a, <1>1, EditBuild DEF vars, storeVars
  <1>2. CASE apply_as_merchant
    BY <1>0, <1>a, <1>2, EditBuild DEF apply_as_merchant, MerchantStatus
  <1>3. ASSUME NEW s \in MerchantStatus, set_merchant_status(s)
        PROVE  BuildInv' /\ ReviewInv'
    BY <1>0, <1>a, <1>3, EditBuild DEF set_merchant_status
  <1>4. ASSUME NEW f \in Facts, create_store(f) PROVE BuildInv' /\ ReviewInv'
    BY <1>4, QueueBuild, RecordIsNotNull DEF create_store
  <1>5. ASSUME NEW u \in Users, EditorStep(u) PROVE BuildInv' /\ ReviewInv'
    <2>1. ASSUME NEW f \in Facts, NEW is_active \in BOOLEAN, update_store(u, f, is_active)
          PROVE  BuildInv' /\ ReviewInv'
      BY <1>0, <1>a, <2>1, EditBuild, RecordIsNotNull DEF update_store
    <2>2. CASE regenerate_store_banner(u)
      BY <1>a, <2>2, QueueBuild DEF regenerate_store_banner, owned_store, storeVars
    <2>3. CASE get_store_banner(u)
      BY <1>0, <1>a, <2>3, EditBuild DEF get_store_banner, storeVars
    <2>4. ASSUME NEW v \in Existing, accept_store_banner(u, v) PROVE BuildInv' /\ ReviewInv'
      BY <1>0, <1>a, <2>4, EditBuild DEF accept_store_banner, storeVars
    <2> QED
      BY <1>5, <2>1, <2>2, <2>3, <2>4 DEF EditorStep
  <1>6. ASSUME NEW v \in Existing, NEW target \in Moderation, moderate_store_banner(v, target)
        PROVE  BuildInv' /\ ReviewInv'
    <2>1. v \in Versions /\ moderation \in [Versions -> Moderation]
          /\ manifest \in [Versions -> Facts \cup {None}]
          /\ reviewed \in [Versions -> Facts \cup {None}]
      BY DEF Existing, BuildInv, BannersTypeOK
    <2>2. /\ UNCHANGED <<storeVars, buildVars>>
          /\ moderation' = [moderation EXCEPT ![v] = target]
          /\ target = "approved" => generation[v] = "ready"
          /\ reviewed' = IF target = "approved" THEN [reviewed EXCEPT ![v] = manifest[v]]
                                                ELSE reviewed
      BY <1>6 DEF moderate_store_banner
    <2>3. BannersTypeOK'
      BY <1>0, <2>1, <2>2
      DEF BuildInv, BannersTypeOK, SelectionInv, Selected, storeVars, buildVars
    <2>4. BuildInv'
      BY <2>2, <2>3 DEF BuildInv, storeVars, buildVars
    <2>5. ReviewInv'
      BY <2>1, <2>2 DEF ReviewInv, buildVars
    <2> QED
      BY <2>4, <2>5
  <1>7. ASSUME NEW v \in Existing, ClaimStep(v), WorkerVarsOnly PROVE BuildInv' /\ ReviewInv'
    BY <1>7, WorkBuild DEF ClaimStep
  <1>8. ASSUME NEW w \in Workers, BuildStep(w) \/ worker_crash(w), WorkerVarsOnly
        PROVE  BuildInv' /\ ReviewInv'
    BY <1>8, WorkBuild
  <1> QED
    BY <1>1, <1>2, <1>3, <1>4, <1>5, <1>6, <1>7, <1>8 DEF Next

(* With one worker: a version the worker has claimed is still due when its   *)
(* build ends (finish or record_failure), and what is approved is ready    *)
(* and unchanged since staff reviewed it.                                  *)
THEOREM BuildInvariant == ASSUME OneWorker PROVE Spec => [](BuildInv /\ ReviewInv)
  BY InitSelection, StepSelection, InitBuild, StepBuild, PTL DEF Spec

(* With the one worker that is deployed, the rows of the banner are well     *)
(* typed and no version is attempted more often than                       *)
(* BANNER_JOB_MAX_ATTEMPTS.                                                *)
THEOREM BannersTypeCorrect == ASSUME OneWorker PROVE Spec => []BannersTypeOK
  <1>1. BuildInv => BannersTypeOK
    BY DEF BuildInv
  <1> QED
    BY <1>1, BuildInvariant, PTL

(* With the one worker that is deployed, customers are shown the manifest    *)
(* staff approved, whatever happened to store and versions in between.     *)
THEOREM ReviewedIsShown == ASSUME OneWorker PROVE Spec => []CustomersSeeReviewedManifest
  <1>1. BuildInv /\ ReviewInv => CustomersSeeReviewedManifest
    BY DEF BuildInv, BannersTypeOK, ReviewInv, CustomersSeeReviewedManifest, public_presentation
  <1> QED
    BY <1>1, BuildInvariant, PTL

===============================================================================
