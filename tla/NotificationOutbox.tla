--------------------------- MODULE NotificationOutbox ---------------------------
(***************************************************************************)
(* The notification outbox and the devices it is delivered to.             *)
(*                                                                         *)
(* flush_pending locks a batch of due events, sends each of them to the    *)
(* devices of its user, and commits once at the end: until then what it    *)
(* found out is in the memory of the process only (sessions do not         *)
(* autoflush).  The pushes themselves cannot be taken back.                *)
(***************************************************************************)
EXTENDS Naturals, FiniteSets, FiniteSetsExt

CONSTANTS
    Users, Tokens,  \* device tokens
    holders,        \* the users who log in on each device
    MaxEvents,      \* bound on the events; they are numbered in order of creation
    recipient,      \* the user each event is for
    Flushers,       \* worker processes and admin-triggered flushes
    Batch,          \* WORKER_NOTIFICATION_BATCH
    MaxAttempts,    \* MAX_DELIVERY_ATTEMPTS
    MaxCrashes,     \* bound on the flushes that die or fail to commit
    None            \* NULL

Events == 1..MaxEvents

ASSUME OutboxAssumption ==
    /\ None \notin Users
    /\ recipient \in [Events -> Users]
    /\ holders \in [Tokens -> SUBSET Users]
    /\ MaxEvents \in Nat
    /\ Batch \in Nat \ {0}
    /\ MaxAttempts \in Nat \ {0}
    /\ MaxCrashes \in Nat

Status == {"pending", "sent", "no_devices", "in_app_only", "dead"}
NotificationEvent ==
    [user : Users, status : Status, attempt_count : 0..MaxAttempts, due : BOOLEAN]
DeviceRegistration == [user : Users, is_active : BOOLEAN]
Flush ==
    [batch : SUBSET Events, todo : SUBSET Events,
     row : UNION {[b -> NotificationEvent] : b \in SUBSET Events}, invalid : SUBSET Tokens]

ASSUME RowsAssumption == None \notin NotificationEvent \cup DeviceRegistration \cup Flush

VARIABLES
    event,      \* notification_events
    device,     \* device_registrations, by token
    flush,      \* per flusher: the batch it has locked and what it found out
    configured, \* FCM_PROJECT_ID is set; not changed while the system runs
    crashes,
    pushed,     \* history: how often each event reached each token, up to 2
    doubtful    \* history: events whose delivery the server could not record

vars == <<event, device, flush, configured, crashes, pushed, doubtful>>

Enqueued == {e \in Events : event[e] # None}
Pending(e) == event[e] # None /\ event[e].status = "pending"

Init ==
    /\ event = [e \in Events |-> None]
    /\ device = [t \in Tokens |-> None]
    /\ flush = [w \in Flushers |-> None]
    /\ configured \in BOOLEAN
    /\ crashes = 0
    /\ pushed = [e \in Events |-> [t \in Tokens |-> 0]]
    /\ doubtful = {}

enqueue_notification ==
    /\ \E e \in Events :
          /\ \A x \in Events : x < e <=> x \in Enqueued
          /\ event' = [event EXCEPT ![e] =
                [user |-> recipient[e], status |-> "pending", attempt_count |-> 0, due |-> TRUE]]
    /\ UNCHANGED <<device, flush, configured, crashes, pushed, doubtful>>

-------------------------------------------------------------------------------
(* Devices. *)

token_is_free(t, u) ==
    device[t] # None /\ device[t].is_active => device[t].user = u

register_device(t, u) ==
    /\ token_is_free(t, u)
    /\ device' = [device EXCEPT ![t] = [user |-> u, is_active |-> TRUE]]
    /\ UNCHANGED <<event, flush, configured, crashes, pushed, doubtful>>

unregister_device(t) ==
    /\ device[t] # None
    /\ device' = [device EXCEPT ![t].is_active = FALSE]
    /\ UNCHANGED <<event, flush, configured, crashes, pushed, doubtful>>

devices_of(u) == {t \in Tokens : device[t] = [user |-> u, is_active |-> TRUE]}

-------------------------------------------------------------------------------
(* Flushing. *)

locked_events == UNION {flush[w].batch : w \in {x \in Flushers : flush[x] # None}}

(* Mutant: the events are read without a lock. *)
available_events_Unlocked == {e \in Enqueued : Pending(e) /\ event[e].due}

available_events == {e \in Enqueued : Pending(e) /\ event[e].due} \ locked_events

(* Oldest first, at most a batch. *)
due_events(w) ==
    /\ flush[w] = None
    /\ available_events # {}
    /\ LET batch == {e \in available_events :
                        Cardinality({x \in available_events : x < e}) < Batch}
       IN flush' = [flush EXCEPT ![w] =
             [batch |-> batch, todo |-> batch, row |-> [e \in batch |-> event[e]],
              invalid |-> {}]]
    /\ UNCHANGED <<event, device, configured, crashes, pushed, doubtful>>

(* Mutant: a failure does not count. *)
defer_Forever(row) == [row EXCEPT !.due = FALSE]

(* Mutant: one attempt more than configured. *)
defer_Late(row) ==
    LET n == row.attempt_count + 1
    IN [row EXCEPT !.attempt_count = n,
                   !.status = IF n > MaxAttempts THEN "dead" ELSE "pending",
                   !.due = n > MaxAttempts]

defer(row) ==
    LET n == row.attempt_count + 1
    IN [row EXCEPT !.attempt_count = n,
                   !.status = IF n >= MaxAttempts THEN "dead" ELSE "pending",
                   !.due = n >= MaxAttempts]

(* What FCM says of one push: accepted, token unknown, an error before or  *)
(* after the push went out.                                                *)
Answers == {"ok", "unregistered", "error", "lost"}

(* Mutant: an event is sent unless every token was stale. *)
settled_Optimistic(row, answers) ==
    IF answers # {} /\ answers \subseteq {"unregistered"}
    THEN [row EXCEPT !.status = "no_devices"]
    ELSE [row EXCEPT !.status = "sent"]

settled(row, answers) ==
    IF "ok" \in answers THEN [row EXCEPT !.status = "sent"]
    ELSE IF answers \subseteq {"unregistered"} THEN [row EXCEPT !.status = "no_devices"]
    ELSE defer(row)

deliver_event(w) ==
    /\ flush[w] # None /\ flush[w].todo # {}
    /\ LET e == Min(flush[w].todo)
           row == flush[w].row[e]
           reached == devices_of(row.user)
           Learns(new, invalid) ==
               flush' = [flush EXCEPT ![w].todo = @ \ {e}, ![w].row[e] = new,
                                      ![w].invalid = @ \cup invalid]
       IN \/ /\ configured
             /\ \E answer \in [reached -> Answers] :
                   LET got == {t \in reached : answer[t] \in {"ok", "lost"}}
                   IN /\ Learns(settled(row, {answer[t] : t \in reached}),
                                {t \in reached : answer[t] = "unregistered"})
                      /\ pushed' = [pushed EXCEPT ![e] = [t \in Tokens |->
                            IF t \in got /\ @[t] < 2 THEN @[t] + 1 ELSE @[t]]]
                      /\ doubtful' = IF \E t \in reached : answer[t] = "lost"
                                     THEN doubtful \cup {e} ELSE doubtful
          \/ /\ Learns(IF configured THEN defer(row)    \* _firebase() failed
                       ELSE [row EXCEPT !.status = "in_app_only"], {})
             /\ UNCHANGED <<pushed, doubtful>>
    /\ UNCHANGED <<event, device, configured, crashes>>

(* The one commit: the events of the batch, and the tokens found stale,    *)
(* whoever has them by now.                                                *)
flush_pending_commits(w) ==
    /\ flush[w] # None /\ flush[w].todo = {}
    /\ event' = [e \in Events |-> IF e \in flush[w].batch THEN flush[w].row[e] ELSE event[e]]
    /\ device' = [t \in Tokens |->
          IF t \in flush[w].invalid THEN [device[t] EXCEPT !.is_active = FALSE] ELSE device[t]]
    /\ flush' = [flush EXCEPT ![w] = None]
    /\ UNCHANGED <<configured, crashes, pushed, doubtful>>

(* The process dies or the commit fails: what it sent is not on record. *)
flush_pending_dies(w) ==
    /\ flush[w] # None
    /\ crashes < MaxCrashes
    /\ crashes' = crashes + 1
    /\ flush' = [flush EXCEPT ![w] = None]
    /\ doubtful' = doubtful \cup (flush[w].batch \ flush[w].todo)
    /\ UNCHANGED <<event, device, configured, pushed>>

backoff_ends(e) ==
    /\ Pending(e) /\ ~event[e].due
    /\ event' = [event EXCEPT ![e].due = TRUE]
    /\ UNCHANGED <<device, flush, configured, crashes, pushed, doubtful>>

-------------------------------------------------------------------------------
FlushStep(w) == due_events(w) \/ deliver_event(w) \/ flush_pending_commits(w)

Next ==
    \/ enqueue_notification
    \/ \E t \in Tokens : unregister_device(t) \/ \E u \in holders[t] : register_device(t, u)
    \/ \E w \in Flushers : FlushStep(w) \/ flush_pending_dies(w)
    \/ \E e \in Events : backoff_ends(e)

Spec == Init /\ [][Next]_vars

(* The worker polls every WORKER_POLL_SECONDS, takes the oldest due events *)
(* first and finishes its batch unless it dies; clocks move on.            *)
FairSpec ==
    /\ Spec
    /\ \A w \in Flushers : WF_vars(FlushStep(w))
    /\ \A e \in Events : WF_vars(backoff_ends(e))

-------------------------------------------------------------------------------
(* Properties. *)

(* Rows keep their types; no event is tried more often than                *)
(* MAX_DELIVERY_ATTEMPTS, however many flushers work on the outbox.        *)
OutboxTypeOK ==
    /\ event \in [Events -> NotificationEvent \cup {None}]
    /\ device \in [Tokens -> DeviceRegistration \cup {None}]
    /\ configured \in BOOLEAN
    /\ crashes \in 0..MaxCrashes
    /\ pushed \in [Events -> [Tokens -> 0..2]]
    /\ doubtful \subseteq Enqueued
    /\ \A w \in Flushers : flush[w] # None =>
          /\ flush[w].todo \subseteq flush[w].batch
          /\ flush[w].batch \subseteq Enqueued
          /\ Cardinality(flush[w].batch) \in 1..Batch
          /\ flush[w].invalid \subseteq Tokens

(* No device shows a notification twice because two flushers ran at the    *)
(* same time or an event was retried: only a flush that died, or an answer *)
(* of FCM that was lost, can repeat a push.                                *)
NoPushIsRepeated ==
    \A e \in Events : \A t \in Tokens : pushed[e][t] > 1 => e \in doubtful

(* How the rows stand for the notices of Notice. *)
FateOf(e) ==
    CASE event[e] = None -> "none"
      [] Pending(e) -> "owed"
      [] event[e] # None /\ event[e].status = "sent" -> "delivered"
      [] OTHER -> "given_up"

AsNotice == INSTANCE Notice WITH
    fate    <- [e \in Events |-> FateOf(e)],
    reached <- {e \in Events : \E t \in Tokens : pushed[e][t] > 0},
    unsure  <- doubtful

(* Every step of every flusher is a step of the promise or none: an event  *)
(* that is settled is never pushed, retried or settled differently by a    *)
(* flush that began earlier, and the accounting is honest: sent only if it *)
(* reached a device, anything else only if it reached none, as far as the  *)
(* server could know.                                                      *)
ImplementsNotice == AsNotice!NoticeSpec

(* Every event leaves the queue: a permanently failing event is retired,   *)
(* and no event waits behind others for ever.                              *)
EveryEventIsSettled == \A e \in Events : Pending(e) ~> ~Pending(e)
===============================================================================
