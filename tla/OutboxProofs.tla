------------------------------ MODULE OutboxProofs ------------------------------
(***************************************************************************)
(* The outbox for any number of events, devices, flushers and crashes.     *)
(* The properties are about pushes that have been made; what makes them    *)
(* inductive is what a flusher holds: batches are disjoint, what is held   *)
(* is still pending on record, and what has not been tried is in memory as *)
(* it is on record.                                                        *)
(***************************************************************************)
EXTENDS NotificationOutbox, FiniteSetTheorems, WellFoundedInduction, TLAPS

-------------------------------------------------------------------------------
(* Numbers. *)

LEMMA Least ==
    ASSUME NEW S \in SUBSET Nat, S # {}
    PROVE  \E m \in S : \A y \in S : m <= y
  <1>1. PICK m \in S : \A y \in S : ~(<<y, m>> \in OpToRel(<, Nat))
    BY WFMin, NatLessThanWellFounded
  <1>2. \A y \in S : ~(y < m)
    BY <1>1 DEF OpToRel
  <1> QED
    BY <1>2

LEMMA MinIsLeast ==
    ASSUME NEW S \in SUBSET Nat, S # {}
    PROVE  Min(S) \in S /\ \A y \in S : Min(S) <= y
  BY Least DEF Min

LEMMA Greatest ==
    ASSUME NEW n \in Nat, NEW S \in SUBSET (0..n), S # {}
    PROVE  \E m \in S : \A y \in S : y <= m
  <1> DEFINE T == {n - x : x \in S}
  <1>0. \A x \in S : x \in Int /\ n - x \in Nat
    OBVIOUS
  <1>1. T \in SUBSET Nat /\ T # {}
    BY <1>0
  <1>2. PICK k \in T : \A y \in T : k <= y
    BY <1>1, Least
  <1>3. PICK m \in S : k = n - m
    OBVIOUS
  <1>4. ASSUME NEW y \in S PROVE y <= m
    <2>1. n - y \in T
      OBVIOUS
    <2>2. k <= n - y
      BY <1>2, <2>1
    <2>3. y \in Int /\ m \in Int
      OBVIOUS
    <2> QED
      BY <1>3, <2>2, <2>3
  <1> QED
    BY <1>4

(* due_events takes the oldest of the events there are, at least one and at *)
(* most a batch: those before the last it takes are fewer than a batch.    *)
LEMMA BatchIsBounded ==
    ASSUME NEW S \in SUBSET Events, S # {}
    PROVE  LET batch == {e \in S : Cardinality({x \in S : x < e}) < Batch}
           IN IsFiniteSet(batch) /\ Cardinality(batch) \in 1..Batch
  <1> DEFINE Before(e) == {x \in S : x < e}
             batch == {e \in S : Cardinality(Before(e)) < Batch}
  <1> USE OutboxAssumption
  <1>1. /\ IsFiniteSet(S) /\ S \in SUBSET Nat /\ S \in SUBSET (0..MaxEvents)
    <2>1. IsFiniteSet(Events) /\ Events \subseteq 0..MaxEvents /\ Events \subseteq Nat
      BY FS_Interval DEF Events
    <2> QED
      BY <2>1, FS_Subset
  <1>2. IsFiniteSet(batch) /\ \A e \in S : IsFiniteSet(Before(e))
    BY <1>1, FS_Subset
  <1>3. batch # {}
    <2>1. PICK m \in S : \A y \in S : m <= y
      BY <1>1, Least
    <2>2. Before(m) = {}
      <3>1. \A x \in S : x \in Nat /\ m \in Nat
        BY <1>1
      <3>2. \A x \in S : ~(x < m)
        BY <2>1, <3>1
      <3> QED
        BY <3>2
    <2> QED
      BY <2>2, FS_EmptySet
  <1>4. PICK m \in batch : \A y \in batch : y <= m
    BY <1>1, <1>3, Greatest
  <1>5. batch \subseteq Before(m) \cup {m}
    <2> SUFFICES ASSUME NEW y \in batch, y # m PROVE y \in S /\ y < m
      OBVIOUS
    <2>1. y \in S /\ y \in Nat /\ m \in Nat /\ y <= m
      BY <1>1, <1>4
    <2> QED
      BY <2>1
  <1>6. /\ IsFiniteSet(Before(m) \cup {m})
        /\ Cardinality(Before(m) \cup {m}) <= Cardinality(Before(m)) + 1
        /\ Cardinality(Before(m)) \in Nat
    <2>1. IsFiniteSet(Before(m))
      BY <1>2
    <2>2. Cardinality(Before(m)) \in Nat
      BY <2>1, FS_CardinalityType
    <2>3. /\ IsFiniteSet(Before(m) \cup {m})
          /\ Cardinality(Before(m) \cup {m}) =
                IF m \in Before(m) THEN Cardinality(Before(m)) ELSE Cardinality(Before(m)) + 1
      BY <2>1, FS_AddElement
    <2> HIDE DEF Before
    <2> QED
      BY <2>2, <2>3
  <1>7. Cardinality(batch) <= Cardinality(Before(m) \cup {m}) /\ Cardinality(batch) \in Nat
    BY <1>2, <1>5, <1>6, FS_Subset, FS_CardinalityType
  <1>8. Cardinality(batch) # 0
    BY <1>2, <1>3, FS_EmptySet
  <1>9. Cardinality(Before(m)) < Batch /\ Cardinality(Before(m) \cup {m}) \in Nat
    BY <1>6, FS_CardinalityType
  <1> HIDE DEF batch, Before
  <1>10. Cardinality(batch) \in 1..Batch
    BY <1>6, <1>7, <1>8, <1>9
  <1> QED
    BY <1>2, <1>10 DEF batch, Before

-------------------------------------------------------------------------------
(* The inductive invariant. *)

RowsInv ==
    /\ event \in [Events -> NotificationEvent \cup {None}]
    /\ device \in [Tokens -> DeviceRegistration \cup {None}]
    /\ configured \in BOOLEAN
    /\ crashes \in 0..MaxCrashes
    /\ pushed \in [Events -> [Tokens -> 0..2]]
    /\ doubtful \subseteq Enqueued
    /\ \A e \in Events : Pending(e) => event[e].attempt_count < MaxAttempts

Retriable(row) == row.status = "pending" => row.attempt_count < MaxAttempts
Holds(w, e) == flush[w] # None /\ e \in flush[w].batch

HoldsInv ==
    /\ flush \in [Flushers -> Flush \cup {None}]
    /\ \A w \in Flushers : flush[w] # None =>
          /\ flush[w].todo \subseteq flush[w].batch
          /\ Cardinality(flush[w].batch) \in 1..Batch
          /\ flush[w].row \in [flush[w].batch -> NotificationEvent]
          /\ \A e \in flush[w].batch : Pending(e) /\ event[e].due /\ Retriable(flush[w].row[e])
          /\ \A e \in flush[w].todo : flush[w].row[e] = event[e]
          /\ \A t \in flush[w].invalid : device[t] # None
    /\ \A w1, w2 \in Flushers, e \in Events : Holds(w1, e) /\ Holds(w2, e) => w1 = w2

(* An event that reached a device, as far as the server knows. *)
Sent(e) ==
    \/ event[e] # None /\ event[e].status = "sent"
    \/ \E w \in Flushers :
          Holds(w, e) /\ e \notin flush[w].todo /\ flush[w].row[e].status = "sent"

PushesInv ==
    \A e \in Events :
        /\ e \notin doubtful =>
              \A t \in Tokens : pushed[e][t] > 0 => pushed[e][t] = 1 /\ Sent(e)
        /\ Sent(e) => \E t \in Tokens : pushed[e][t] > 0

OutboxInv == RowsInv /\ HoldsInv /\ PushesInv

LEMMA InitOutbox == Init => OutboxInv
  <1> SUFFICES ASSUME Init PROVE OutboxInv
    OBVIOUS
  <1>1. RowsInv
    BY OutboxAssumption DEF Init, RowsInv, Pending, Enqueued
  <1>2. HoldsInv
    BY DEF Init, HoldsInv, Holds
  <1>3. PushesInv
    BY DEF Init, PushesInv, Sent, Holds
  <1> QED
    BY <1>1, <1>2, <1>3 DEF OutboxInv

(* What a flusher holds, spelled out. *)
LEMMA Held ==
    ASSUME HoldsInv, NEW w \in Flushers, flush[w] # None
    PROVE  /\ flush[w] \in Flush
           /\ flush[w].batch \subseteq Enqueued /\ flush[w].batch \subseteq Events
           /\ flush[w].todo \subseteq flush[w].batch
           /\ flush[w].invalid \subseteq Tokens
           /\ flush[w].row \in [flush[w].batch -> NotificationEvent]
  BY DEF HoldsInv, Flush, Pending, Enqueued

LEMMA Deferred ==
    ASSUME NEW row \in NotificationEvent, row.attempt_count < MaxAttempts
    PROVE  /\ defer(row) \in NotificationEvent
           /\ Retriable(defer(row))
           /\ defer(row).status # "sent"
  <1> DEFINE n == row.attempt_count + 1
             s == IF n >= MaxAttempts THEN "dead" ELSE "pending"
             d == n >= MaxAttempts
  <1>1. n \in 0..MaxAttempts /\ s \in {"dead", "pending"} /\ d \in BOOLEAN
    BY OutboxAssumption DEF NotificationEvent
  <1>2. s = "pending" => n < MaxAttempts
    BY <1>1, OutboxAssumption
  <1>3. defer(row) = [row EXCEPT !.attempt_count = n, !.status = s, !.due = d]
    BY DEF defer
  <1> HIDE DEF n, s, d
  <1>4. /\ defer(row) \in NotificationEvent
        /\ defer(row).attempt_count = n /\ defer(row).status = s
    BY <1>1, <1>3 DEF NotificationEvent, Status
  <1> QED
    BY <1>1, <1>2, <1>4 DEF Retriable

LEMMA Settled ==
    ASSUME NEW row \in NotificationEvent, row.attempt_count < MaxAttempts,
           NEW answers \in SUBSET Answers
    PROVE  /\ settled(row, answers) \in NotificationEvent
           /\ Retriable(settled(row, answers))
           /\ settled(row, answers).status = "sent" <=> "ok" \in answers
  <1>1. ASSUME NEW s \in {"sent", "no_devices"}
        PROVE  /\ [row EXCEPT !.status = s] \in NotificationEvent
               /\ [row EXCEPT !.status = s].status = s
    BY DEF NotificationEvent, Status
  <1> QED
    BY <1>1, Deferred DEF settled, Retriable

-------------------------------------------------------------------------------
(* The steps. *)

(* Devices come and go; their rows stay. *)
LEMMA DevicesChange ==
    ASSUME OutboxInv, device' \in [Tokens -> DeviceRegistration \cup {None}],
           \A t \in Tokens : device[t] # None => device'[t] # None,
           UNCHANGED <<event, flush, configured, crashes, pushed, doubtful>>
    PROVE  OutboxInv'
  <1>1. RowsInv'
    BY DEF OutboxInv, RowsInv, Enqueued, Pending
  <1>2. HoldsInv'
    <2>1. \A w \in Flushers : flush[w] # None => flush[w].invalid \subseteq Tokens
      BY Held DEF OutboxInv
    <2> QED
      BY <2>1 DEF OutboxInv, HoldsInv, Holds, Pending
  <1>3. PushesInv'
    BY DEF OutboxInv, PushesInv, Sent, Holds
  <1> QED
    BY <1>1, <1>2, <1>3 DEF OutboxInv

(* A row nobody holds is written, without becoming sent. *)
LEMMA FreeEventChanges ==
    ASSUME OutboxInv, NEW e \in Events, \A w \in Flushers : ~Holds(w, e),
           NEW row \in NotificationEvent, row.status = "pending",
           row.attempt_count < MaxAttempts,
           event[e] # None => event[e].status = "pending",
           event' = [event EXCEPT ![e] = row],
           UNCHANGED <<device, flush, configured, crashes, pushed, doubtful>>
    PROVE  OutboxInv'
  <1> USE RowsAssumption
  <1>1. /\ event' \in [Events -> NotificationEvent \cup {None}]
        /\ event'[e] = row /\ row # None /\ \A x \in Events : x # e => event'[x] = event[x]
    BY DEF OutboxInv, RowsInv
  <1>2. Enqueued \subseteq Enqueued'
    BY <1>1 DEF Enqueued
  <1>3. RowsInv'
    BY <1>1, <1>2 DEF OutboxInv, RowsInv, Pending
  <1>4. HoldsInv'
    <2>1. \A w \in Flushers : flush[w] # None => \A x \in flush[w].batch :
             x \in Events /\ event'[x] = event[x]
      BY <1>1, Held DEF OutboxInv, Holds
    <2>2. \A w \in Flushers : flush[w] # None => flush[w].todo \subseteq flush[w].batch
      BY DEF OutboxInv, HoldsInv
    <2> QED
      BY <2>1, <2>2 DEF OutboxInv, HoldsInv, Holds, Pending
  <1>5. \A x \in Events : Sent(x)' <=> Sent(x)
    BY <1>1 DEF Sent, Holds
  <1>6. PushesInv'
    BY <1>5 DEF OutboxInv, PushesInv
  <1> QED
    BY <1>3, <1>4, <1>6 DEF OutboxInv

LEMMA Enqueues ==
    ASSUME OutboxInv, enqueue_notification
    PROVE  OutboxInv'
  <1>1. PICK e \in Events :
          /\ \A x \in Events : x < e <=> x \in Enqueued
          /\ event' = [event EXCEPT ![e] =
                [user |-> recipient[e], status |-> "pending", attempt_count |-> 0, due |-> TRUE]]
    BY DEF enqueue_notification
  <1> DEFINE row == [user |-> recipient[e], status |-> "pending", attempt_count |-> 0, due |-> TRUE]
  <1>2. event[e] = None
    <2>1. ~(e < e)
      BY OutboxAssumption DEF Events
    <2> QED
      BY <1>1, <2>1 DEF Enqueued
  <1>3. \A w \in Flushers : ~Holds(w, e)
    BY <1>2, Held DEF OutboxInv, Holds, Enqueued
  <1>4. row \in NotificationEvent /\ row.status = "pending" /\ row.attempt_count < MaxAttempts
    BY OutboxAssumption DEF NotificationEvent, Status
  <1> HIDE DEF row
  <1> QED
    BY <1>1, <1>2, <1>3, <1>4, FreeEventChanges DEF enqueue_notification, row

LEMMA BackoffEnds ==
    ASSUME OutboxInv, NEW e \in Events, backoff_ends(e)
    PROVE  OutboxInv'
  <1> DEFINE row == [event[e] EXCEPT !.due = TRUE]
  <1>1. /\ event[e] \in NotificationEvent /\ event[e].status = "pending"
        /\ event[e].attempt_count < MaxAttempts /\ ~event[e].due
    BY DEF backoff_ends, Pending, OutboxInv, RowsInv
  <1>2. \A w \in Flushers : ~Holds(w, e)
    BY <1>1 DEF OutboxInv, HoldsInv, Holds
  <1>3. row \in NotificationEvent /\ row.status = "pending" /\ row.attempt_count < MaxAttempts
    BY <1>1 DEF NotificationEvent
  <1>4. event' = [event EXCEPT ![e] = row]
    BY <1>1 DEF backoff_ends, NotificationEvent
  <1> HIDE DEF row
  <1> QED
    BY <1>1, <1>2, <1>3, <1>4, FreeEventChanges DEF backoff_ends

LEMMA BatchTaken ==
    ASSUME OutboxInv, NEW w \in Flushers, due_events(w)
    PROVE  OutboxInv'
  <1> DEFINE batch == {e \in available_events :
                          Cardinality({x \in available_events : x < e}) < Batch}
             new == [batch |-> batch, todo |-> batch, row |-> [e \in batch |-> event[e]],
                     invalid |-> {}]
  <1>1. /\ flush[w] = None /\ available_events # {}
        /\ flush' = [flush EXCEPT ![w] = new]
        /\ UNCHANGED <<event, device, configured, crashes, pushed, doubtful>>
    BY DEF due_events
  <1>2. /\ available_events \in SUBSET Events
        /\ \A e \in available_events :
              /\ Pending(e) /\ event[e].due /\ event[e] \in NotificationEvent
              /\ event[e].attempt_count < MaxAttempts
              /\ \A v \in Flushers : ~Holds(v, e)
    BY DEF available_events, locked_events, Enqueued, Holds, Pending, OutboxInv, RowsInv
  <1>3. Cardinality(batch) \in 1..Batch
    BY <1>1, <1>2, BatchIsBounded
  <1>4. batch \subseteq available_events
    OBVIOUS
  <1> HIDE DEF batch
  <1>5. [e \in batch |-> event[e]] \in [batch -> NotificationEvent] /\ batch \in SUBSET Events
    BY <1>2, <1>4
  <1>6. /\ new \in Flush
        /\ new.batch = batch /\ new.todo = batch /\ new.invalid = {}
        /\ new.row \in [batch -> NotificationEvent]
        /\ \A e \in batch : new.row[e] = event[e]
    BY <1>5 DEF Flush
  <1> HIDE DEF new
  <1>7. flush'[w] = new /\ \A v \in Flushers : v # w => flush'[v] = flush[v]
    BY <1>1 DEF OutboxInv, HoldsInv
  <1>8. RowsInv'
    BY <1>1 DEF OutboxInv, RowsInv, Enqueued, Pending
  <1>9. HoldsInv'
    <2>1. flush' \in [Flushers -> Flush \cup {None}]
      BY <1>1, <1>6 DEF OutboxInv, HoldsInv
    <2>2. ASSUME NEW v \in Flushers, flush'[v] # None
          PROVE  /\ flush'[v].todo \subseteq flush'[v].batch
                 /\ Cardinality(flush'[v].batch) \in 1..Batch
                 /\ flush'[v].row \in [flush'[v].batch -> NotificationEvent]
                 /\ \A e \in flush'[v].batch :
                       Pending(e)' /\ event'[e].due /\ Retriable(flush'[v].row[e])
                 /\ \A e \in flush'[v].todo : flush'[v].row[e] = event'[e]
                 /\ \A t \in flush'[v].invalid : device'[t] # None
      <3>1. \A e \in Events : Pending(e)' <=> Pending(e)
        BY <1>1 DEF Pending
      <3>2. CASE v = w
        BY <1>1, <1>2, <1>3, <1>4, <1>5, <1>6, <1>7, <3>1, <3>2 DEF Retriable
      <3>3. CASE v # w
        <4>1. flush'[v] = flush[v] /\ flush[v].batch \subseteq Events
          BY <1>7, <2>2, <3>3, Held DEF OutboxInv
        <4> QED
          BY <1>1, <2>2, <3>1, <4>1 DEF OutboxInv, HoldsInv
      <3> QED
        BY <3>2, <3>3
    <2>3. \A w1, w2 \in Flushers, e \in Events : Holds(w1, e)' /\ Holds(w2, e)' => w1 = w2
      <3>1. \A v \in Flushers, e \in Events :
               Holds(v, e)' => IF v = w THEN e \in available_events ELSE Holds(v, e)
        BY <1>4, <1>6, <1>7 DEF Holds
      <3> QED
        BY <1>2, <3>1 DEF OutboxInv, HoldsInv
    <2> QED
      BY <2>1, <2>2, <2>3 DEF HoldsInv, Retriable
  <1>10. PushesInv'
    <2>1. \A e \in Events : Sent(e)' <=> Sent(e)
      BY <1>1, <1>6, <1>7 DEF Sent, Holds
    <2> QED
      BY <1>1, <2>1 DEF OutboxInv, PushesInv
  <1> QED
    BY <1>8, <1>9, <1>10 DEF OutboxInv

(* What a flusher remembers once it has tried an event. *)
Learnt(f, e, new, invalid) ==
    [f EXCEPT !.todo = @ \ {e}, !.row = [@ EXCEPT ![e] = new], !.invalid = @ \cup invalid]

(* A flusher tries one event: only what it has in memory changes.  Sent is *)
(* as before for every other event, and for this one it is what the        *)
(* flusher has just found out.                                             *)
LEMMA EventTried ==
    ASSUME OutboxInv, NEW w \in Flushers, flush[w] # None, NEW e \in flush[w].todo,
           NEW new \in NotificationEvent, Retriable(new),
           NEW invalid \in SUBSET Tokens, \A t \in invalid : device[t] # None,
           flush' = [flush EXCEPT ![w] = Learnt(flush[w], e, new, invalid)],
           UNCHANGED <<event, device>>
    PROVE  /\ HoldsInv'
           /\ e \in Events /\ Pending(e) /\ ~Sent(e)
           /\ Sent(e)' <=> new.status = "sent"
           /\ \A x \in Events : x # e => (Sent(x)' <=> Sent(x))
  <1> DEFINE old == flush[w]
             now == Learnt(old, e, new, invalid)
  <1> USE RowsAssumption
  <1>1. /\ old \in Flush /\ old.batch \subseteq Events /\ old.todo \subseteq old.batch
        /\ old.row \in [old.batch -> NotificationEvent] /\ e \in old.batch /\ e \in Events
        /\ old.invalid \subseteq Tokens
    BY Held DEF OutboxInv
  <1>2. flush \in [Flushers -> Flush \cup {None}]
    BY DEF OutboxInv, HoldsInv
  <1>3. flush' = [flush EXCEPT ![w] = now]
    OBVIOUS
  <1>4. [old.row EXCEPT ![e] = new] \in [old.batch -> NotificationEvent]
    BY <1>1
  <1>5. /\ now.batch = old.batch /\ now.todo = old.todo \ {e}
        /\ now.row = [old.row EXCEPT ![e] = new] /\ now.invalid = old.invalid \cup invalid
    BY <1>1 DEF Flush, Learnt
  <1>6. now \in Flush /\ now # None
    <2>1. old.batch \in SUBSET Events
      BY <1>1
    <2>2. [old.row EXCEPT ![e] = new] \in UNION {[b -> NotificationEvent] : b \in SUBSET Events}
      BY <1>4, <2>1
    <2>3. now \in Flush
      BY <1>1, <2>2 DEF Flush, Learnt
    <2> QED
      BY <2>3
  <1> HIDE DEF now
  <1>7. flush'[w] = now /\ \A v \in Flushers : v # w => flush'[v] = flush[v]
    BY <1>2, <1>3
  <1>8. \A x : Pending(x)' <=> Pending(x)
    BY DEF Pending
  <1>9. \A v \in Flushers, x \in Events : Holds(v, x)' <=> Holds(v, x)
    BY <1>5, <1>6, <1>7 DEF Holds
  <1>10. /\ now.row[e] = new
         /\ \A x \in old.batch : x # e => now.row[x] = old.row[x]
    BY <1>1, <1>5
  <1>11. HoldsInv'
    <2>1. flush' \in [Flushers -> Flush \cup {None}]
      BY <1>2, <1>3, <1>6
    <2>2. ASSUME NEW v \in Flushers, flush'[v] # None
          PROVE  /\ flush'[v].todo \subseteq flush'[v].batch
                 /\ Cardinality(flush'[v].batch) \in 1..Batch
                 /\ flush'[v].row \in [flush'[v].batch -> NotificationEvent]
                 /\ \A x \in flush'[v].batch :
                       Pending(x)' /\ event'[x].due /\ Retriable(flush'[v].row[x])
                 /\ \A x \in flush'[v].todo : flush'[v].row[x] = event'[x]
                 /\ \A t \in flush'[v].invalid : device'[t] # None
      <3>1. CASE v = w
        <4>1. /\ Cardinality(old.batch) \in 1..Batch
              /\ \A x \in old.batch : Pending(x) /\ event[x].due /\ Retriable(old.row[x])
              /\ \A x \in old.todo : old.row[x] = event[x]
              /\ \A t \in old.invalid : device[t] # None
          BY DEF OutboxInv, HoldsInv
        <4>2. \A x \in old.batch : Retriable(now.row[x])
          BY <1>10, <4>1
        <4>3. \A x \in old.todo \ {e} : now.row[x] = event[x]
          BY <1>1, <1>10, <4>1
        <4>4. now.row \in [now.batch -> NotificationEvent]
          BY <1>4, <1>5
        <4> QED
          BY <1>1, <1>5, <1>7, <1>8, <3>1, <4>1, <4>2, <4>3, <4>4
      <3>2. CASE v # w
        BY <1>7, <1>8, <2>2, <3>2 DEF OutboxInv, HoldsInv
      <3> QED
        BY <3>1, <3>2
    <2>3. \A w1, w2 \in Flushers, x \in Events : Holds(w1, x)' /\ Holds(w2, x)' => w1 = w2
      BY <1>9 DEF OutboxInv, HoldsInv
    <2> QED
      BY <2>1, <2>2, <2>3 DEF HoldsInv, Retriable
  <1>12. Pending(e) /\ Holds(w, e)
    BY <1>1 DEF OutboxInv, HoldsInv, Holds
  <1>13. \A v \in Flushers : Holds(v, e) => v = w
    BY <1>1, <1>12 DEF OutboxInv, HoldsInv
  <1>14. ~Sent(e)
    BY <1>12, <1>13 DEF Sent, Pending
  <1>15. Sent(e)' <=> new.status = "sent"
    <2>1. event'[e].status # "sent"
      BY <1>12 DEF Pending
    <2>2. Holds(w, e)' /\ e \notin flush'[w].todo /\ flush'[w].row[e] = new
      BY <1>1, <1>5, <1>7, <1>9, <1>10, <1>12
    <2>3. \A v \in Flushers : Holds(v, e)' => v = w
      BY <1>1, <1>9, <1>13
    <2> QED
      BY <2>1, <2>2, <2>3 DEF Sent
  <1>16. ASSUME NEW x \in Events, x # e PROVE Sent(x)' <=> Sent(x)
    <2>1. ASSUME NEW v \in Flushers, Holds(v, x)
          PROVE  /\ flush'[v].row[x] = flush[v].row[x]
                 /\ x \in flush'[v].todo <=> x \in flush[v].todo
      BY <1>5, <1>7, <1>10, <1>16, <2>1 DEF Holds
    <2> QED
      BY <1>9, <2>1 DEF Sent
  <1> QED
    BY <1>1, <1>11, <1>12, <1>14, <1>15, <1>16

LEMMA Delivers ==
    ASSUME OutboxInv, NEW w \in Flushers, deliver_event(w)
    PROVE  OutboxInv'
  <1>1. /\ flush[w] # None /\ flush[w].todo # {}
        /\ UNCHANGED <<event, device, configured, crashes>>
    BY DEF deliver_event
  <1>2. PICK e \in flush[w].todo : e = Min(flush[w].todo)
    <2>1. flush[w].todo \in SUBSET Nat
      BY <1>1, Held, OutboxAssumption DEF OutboxInv, Events
    <2> QED
      BY <1>1, <2>1, MinIsLeast
  <1> DEFINE row == flush[w].row[e]
             reached == devices_of(row.user)
  <1>3. /\ e \in Events /\ row \in NotificationEvent /\ row.status = "pending"
        /\ row.attempt_count < MaxAttempts
    BY <1>1, <1>2, Held DEF OutboxInv, HoldsInv, RowsInv, Pending
  <1>4. reached \subseteq Tokens /\ \A t \in reached : device[t] # None
    <2>1. [user |-> row.user, is_active |-> TRUE] \in DeviceRegistration
      BY <1>3 DEF NotificationEvent, DeviceRegistration
    <2> QED
      BY <2>1, RowsAssumption DEF devices_of
  <1>b. UNCHANGED <<event, device>>
    BY <1>1
  <1>a. flush \in [Flushers -> Flush \cup {None}] /\ flush[w] \in Flush
    BY <1>1, Held DEF OutboxInv, HoldsInv
  <1>5. ASSUME UNCHANGED <<pushed, doubtful>>, NEW new \in NotificationEvent, Retriable(new),
               new.status # "sent",
               flush' = [flush EXCEPT ![w].todo = @ \ {e}, ![w].row[e] = new,
                                      ![w].invalid = @ \cup {}]
        PROVE  OutboxInv'
    <2>0. PICK none \in SUBSET Tokens : none = {}
      <3>1. {} \in SUBSET Tokens
        OBVIOUS
      <3> QED
        BY <3>1, Zenon
    <2>c. \A t \in none : device[t] # None
      BY <2>0
    <2>d. new \in NotificationEvent /\ Retriable(new)
      BY <1>5
    <2>b. flush' = [flush EXCEPT ![w] = Learnt(flush[w], e, new, none)]
      BY <1>5, <1>a, <2>0 DEF Flush, Learnt
    <2>1. RowsInv'
      BY <1>1, <1>5 DEF OutboxInv, RowsInv, Pending, Enqueued
    <2>a. /\ HoldsInv' /\ Pending(e) /\ ~Sent(e)
          /\ Sent(e)' <=> new.status = "sent"
          /\ \A x \in Events : x # e => (Sent(x)' <=> Sent(x))
      BY <1>1, <1>b, <2>b, <2>c, <2>d, EventTried, Zenon
    <2>2. \A x \in Events : Sent(x)' <=> Sent(x)
      BY <1>5, <2>a
    <2>3. PushesInv'
      BY <1>5, <2>2 DEF OutboxInv, PushesInv
    <2> QED
      BY <2>1, <2>a, <2>3 DEF OutboxInv
  <1>6. ASSUME NEW answer \in [reached -> Answers],
               flush' = [flush EXCEPT ![w].todo = @ \ {e},
                            ![w].row[e] = settled(row, {answer[t] : t \in reached}),
                            ![w].invalid = @ \cup {t \in reached : answer[t] = "unregistered"}],
               pushed' = [pushed EXCEPT ![e] = [t \in Tokens |->
                  IF t \in {y \in reached : answer[y] \in {"ok", "lost"}} /\ @[t] < 2
                  THEN @[t] + 1 ELSE @[t]]],
               doubtful' = IF \E t \in reached : answer[t] = "lost"
                           THEN doubtful \cup {e} ELSE doubtful
        PROVE  OutboxInv'
    <2> DEFINE answers == {answer[t] : t \in reached}
               new == settled(row, answers)
               invalid == {t \in reached : answer[t] = "unregistered"}
               got == {t \in reached : answer[t] \in {"ok", "lost"}}
    <2>1. answers \in SUBSET Answers
      OBVIOUS
    <2>2. /\ new \in NotificationEvent /\ Retriable(new)
          /\ new.status = "sent" <=> \E t \in reached : answer[t] = "ok"
      <3> HIDE DEF row, reached
      <3>1. /\ new \in NotificationEvent /\ Retriable(new)
            /\ new.status = "sent" <=> "ok" \in answers
        <4> HIDE DEF answers
        <4> QED
          BY <1>3, <2>1, Settled
      <3> QED
        BY <3>1
    <2>3. invalid \in SUBSET Tokens /\ \A t \in invalid : device[t] # None
      BY <1>4
    <2>4. flush' = [flush EXCEPT ![w] = Learnt(flush[w], e, new, invalid)]
      BY <1>6, <1>a DEF Flush, Learnt
    <2> HIDE DEF new, invalid, reached, row, answers
    <2>5. /\ HoldsInv' /\ Pending(e) /\ ~Sent(e)
          /\ Sent(e)' <=> new.status = "sent"
          /\ \A x \in Events : x # e => (Sent(x)' <=> Sent(x))
      BY <1>1, <1>b, <2>2, <2>3, <2>4, EventTried, Zenon
    <2>6. /\ pushed \in [Events -> [Tokens -> 0..2]]
          /\ pushed' \in [Events -> [Tokens -> 0..2]]
          /\ \A x \in Events : x # e => pushed'[x] = pushed[x]
          /\ \A t \in Tokens : pushed'[e][t] =
                IF t \in got /\ pushed[e][t] < 2 THEN pushed[e][t] + 1 ELSE pushed[e][t]
      <3>1. pushed \in [Events -> [Tokens -> 0..2]]
        BY DEF OutboxInv, RowsInv
      <3> DEFINE col == [t \in Tokens |-> IF t \in got /\ pushed[e][t] < 2
                                          THEN pushed[e][t] + 1 ELSE pushed[e][t]]
      <3>2. pushed' = [pushed EXCEPT ![e] = col]
        BY <1>3, <1>6, <3>1
      <3>3. col \in [Tokens -> 0..2]
        <4>1. \A t \in Tokens : pushed[e][t] \in 0..2
          BY <1>3, <3>1
        <4>2. \A t \in Tokens : (IF t \in got /\ pushed[e][t] < 2
                                 THEN pushed[e][t] + 1 ELSE pushed[e][t]) \in 0..2
          BY <4>1
        <4> QED
          BY <4>2
      <3>4. \A t \in Tokens : col[t] = IF t \in got /\ pushed[e][t] < 2
                                       THEN pushed[e][t] + 1 ELSE pushed[e][t]
        OBVIOUS
      <3> HIDE DEF col
      <3> QED
        BY <1>3, <3>1, <3>2, <3>3, <3>4
    <2>7. RowsInv'
      <3>1. e \in Enqueued /\ Enqueued' = Enqueued
        BY <1>1, <1>3, <2>5 DEF Pending, Enqueued
      <3>2. doubtful' \subseteq Enqueued'
        BY <1>6, <3>1 DEF OutboxInv, RowsInv
      <3>3. \A x \in Events : Pending(x)' => event'[x].attempt_count < MaxAttempts
        BY <1>1 DEF OutboxInv, RowsInv, Pending
      <3> QED
        BY <1>1, <2>6, <3>2, <3>3 DEF OutboxInv, RowsInv
    <2>8. PushesInv'
      <3>1. ASSUME NEW x \in Events, x # e
            PROVE  /\ x \notin doubtful' =>
                        \A t \in Tokens : pushed'[x][t] > 0 => pushed'[x][t] = 1 /\ Sent(x)'
                   /\ Sent(x)' => \E t \in Tokens : pushed'[x][t] > 0
        BY <1>6, <2>5, <2>6, <3>1 DEF OutboxInv, PushesInv
      <3>2. \A t \in Tokens : pushed[e][t] \in 0..2
        BY <1>3, <2>6
      <3>3. ASSUME e \notin doubtful', NEW t \in Tokens, pushed'[e][t] > 0
            PROVE  pushed'[e][t] = 1 /\ Sent(e)'
        <4>1. e \notin doubtful /\ ~\E y \in reached : answer[y] = "lost"
          BY <1>6, <3>3
        <4>2. pushed[e][t] = 0
          BY <1>3, <2>5, <3>2, <4>1 DEF OutboxInv, PushesInv
        <4>3. t \in got /\ pushed'[e][t] = 1
          BY <2>6, <3>3, <4>2
        <4>4. t \in reached /\ answer[t] = "ok"
          BY <4>1, <4>3
        <4> QED
          BY <2>2, <2>5, <4>3, <4>4
      <3>4. ASSUME Sent(e)' PROVE \E t \in Tokens : pushed'[e][t] > 0
        <4>1. PICK t \in reached : answer[t] = "ok"
          BY <2>2, <2>5, <3>4
        <4>2. t \in Tokens /\ t \in got
          BY <1>4, <4>1
        <4> QED
          BY <2>6, <3>2, <4>2
      <3> QED
        BY <1>3, <3>1, <3>3, <3>4 DEF PushesInv
    <2> QED
      BY <2>5, <2>7, <2>8 DEF OutboxInv
  <1>7. CASE configured /\ \E answer \in [reached -> Answers] :
               /\ flush' = [flush EXCEPT ![w].todo = @ \ {e},
                            ![w].row[e] = settled(row, {answer[t] : t \in reached}),
                            ![w].invalid = @ \cup {t \in reached : answer[t] = "unregistered"}]
               /\ pushed' = [pushed EXCEPT ![e] = [t \in Tokens |->
                  IF t \in {y \in reached : answer[y] \in {"ok", "lost"}} /\ @[t] < 2
                  THEN @[t] + 1 ELSE @[t]]]
               /\ doubtful' = IF \E t \in reached : answer[t] = "lost"
                              THEN doubtful \cup {e} ELSE doubtful
    BY <1>6, <1>7
  <1>8. CASE /\ flush' = [flush EXCEPT ![w].todo = @ \ {e},
                   ![w].row[e] = IF configured THEN defer(row)
                                               ELSE [row EXCEPT !.status = "in_app_only"],
                   ![w].invalid = @ \cup {}]
             /\ UNCHANGED <<pushed, doubtful>>
    <2> DEFINE new == IF configured THEN defer(row) ELSE [row EXCEPT !.status = "in_app_only"]
    <2>1. new \in NotificationEvent /\ Retriable(new) /\ new.status # "sent"
      <3> HIDE DEF row
      <3>1. /\ [row EXCEPT !.status = "in_app_only"] \in NotificationEvent
            /\ [row EXCEPT !.status = "in_app_only"].status = "in_app_only"
        BY <1>3 DEF NotificationEvent, Status
      <3> QED
        BY <1>3, <3>1, Deferred DEF Retriable
    <2>2. flush' = [flush EXCEPT ![w].todo = @ \ {e}, ![w].row[e] = new, ![w].invalid = @ \cup {}]
      BY <1>8
    <2> HIDE DEF new, row
    <2> QED
      BY <1>5, <1>8, <2>1, <2>2
  <1> QED
    BY <1>2, <1>7, <1>8 DEF deliver_event

(* The tokens a flusher found stale have rows, which stay. *)
LEMMA StaleTokens ==
    ASSUME OutboxInv, NEW w \in Flushers, flush_pending_commits(w)
    PROVE  /\ device' \in [Tokens -> DeviceRegistration \cup {None}]
           /\ \A t \in Tokens : device[t] # None =>
                 device'[t] # None /\ device'[t].user = device[t].user
  <1>1. /\ flush[w] # None
        /\ device' = [t \in Tokens |-> IF t \in flush[w].invalid
                        THEN [device[t] EXCEPT !.is_active = FALSE] ELSE device[t]]
    BY DEF flush_pending_commits
  <1>2. device \in [Tokens -> DeviceRegistration \cup {None}]
    BY DEF OutboxInv, RowsInv
  <1>3. \A t \in flush[w].invalid : device[t] # None
    BY <1>1 DEF OutboxInv, HoldsInv
  <1>4. \A r \in DeviceRegistration :
           /\ [r EXCEPT !.is_active = FALSE] \in DeviceRegistration
           /\ [r EXCEPT !.is_active = FALSE].user = r.user
    BY DEF DeviceRegistration
  <1> QED
    BY <1>1, <1>2, <1>3, <1>4, RowsAssumption

LEMMA Commits ==
    ASSUME OutboxInv, NEW w \in Flushers, flush_pending_commits(w)
    PROVE  OutboxInv'
  <1> DEFINE f == flush[w]
  <1> USE RowsAssumption
  <1>1. /\ f # None /\ f.todo = {}
        /\ event' = [e \in Events |-> IF e \in f.batch THEN f.row[e] ELSE event[e]]
        /\ flush' = [flush EXCEPT ![w] = None]
        /\ UNCHANGED <<configured, crashes, pushed, doubtful>>
    BY DEF flush_pending_commits
  <1>2. /\ f.batch \subseteq Events /\ f.row \in [f.batch -> NotificationEvent]
        /\ \A e \in f.batch : Pending(e) /\ Retriable(f.row[e])
    BY <1>1, Held DEF OutboxInv, HoldsInv
  <1>3. event \in [Events -> NotificationEvent \cup {None}]
    BY DEF OutboxInv, RowsInv
  <1>4. \A e \in f.batch : event'[e] = f.row[e] /\ f.row[e] \in NotificationEvent
    BY <1>1, <1>2
  <1>5. \A e \in Events \ f.batch : event'[e] = event[e]
    BY <1>1
  <1>6. /\ \A v \in Flushers : flush'[v] # None => v # w /\ flush'[v] = flush[v]
        /\ \A v \in Flushers : v # w => flush'[v] = flush[v]
        /\ flush'[w] = None
    BY <1>1 DEF OutboxInv, HoldsInv
  <1> HIDE DEF f
  <1>7. event' \in [Events -> NotificationEvent \cup {None}]
    BY <1>1, <1>3, <1>4, <1>5
  <1>8. Enqueued' = Enqueued
    BY <1>2, <1>4, <1>5 DEF Enqueued, Pending
  <1>9. RowsInv'
    <2>1. ASSUME NEW e \in Events, Pending(e)' PROVE event'[e].attempt_count < MaxAttempts
      <3>1. CASE e \in f.batch
        BY <1>2, <1>4, <2>1, <3>1 DEF Pending, Retriable
      <3>2. CASE e \notin f.batch
        BY <1>5, <2>1, <3>2 DEF Pending, OutboxInv, RowsInv
      <3> QED
        BY <3>1, <3>2
    <2> QED
      BY <1>1, <1>7, <1>8, <2>1, StaleTokens DEF OutboxInv, RowsInv
  <1>10. \A v \in Flushers, e \in Events : Holds(v, e)' <=> v # w /\ Holds(v, e)
    BY <1>6 DEF Holds
  <1>11. \A v \in Flushers, e \in Events : v # w /\ Holds(v, e) => e \notin f.batch
    BY <1>1 DEF OutboxInv, HoldsInv, Holds, f
  <1>12. HoldsInv'
    <2>1. flush' \in [Flushers -> Flush \cup {None}]
      BY <1>1 DEF OutboxInv, HoldsInv
    <2>2. ASSUME NEW v \in Flushers, flush'[v] # None
          PROVE  /\ flush'[v].todo \subseteq flush'[v].batch
                 /\ Cardinality(flush'[v].batch) \in 1..Batch
                 /\ flush'[v].row \in [flush'[v].batch -> NotificationEvent]
                 /\ \A e \in flush'[v].batch :
                       Pending(e)' /\ event'[e].due /\ Retriable(flush'[v].row[e])
                 /\ \A e \in flush'[v].todo : flush'[v].row[e] = event'[e]
                 /\ \A t \in flush'[v].invalid : device'[t] # None
      <3>1. v # w /\ flush'[v] = flush[v] /\ flush[v] # None
        BY <1>6, <2>2
      <3>2. /\ flush[v].batch \subseteq Events /\ flush[v].invalid \subseteq Tokens
            /\ flush[v].todo \subseteq flush[v].batch
        BY <3>1, Held DEF OutboxInv
      <3>3. \A e \in flush[v].batch : event'[e] = event[e]
        BY <1>5, <1>11, <3>1, <3>2 DEF Holds
      <3>4. \A e \in flush[v].batch : Pending(e)' <=> Pending(e)
        BY <3>3 DEF Pending
      <3>5. \A t \in flush[v].invalid : device'[t] # None
        BY <3>1, <3>2, StaleTokens DEF OutboxInv, HoldsInv
      <3> QED
        BY <3>1, <3>2, <3>3, <3>4, <3>5 DEF OutboxInv, HoldsInv
    <2>3. \A w1, w2 \in Flushers, e \in Events : Holds(w1, e)' /\ Holds(w2, e)' => w1 = w2
      BY <1>10 DEF OutboxInv, HoldsInv
    <2> QED
      BY <2>1, <2>2, <2>3 DEF HoldsInv, Retriable
  <1>13. \A e \in Events : Sent(e)' <=> Sent(e)
    <2> SUFFICES ASSUME NEW e \in Events PROVE Sent(e)' <=> Sent(e)
      OBVIOUS
    <2>1. CASE e \in f.batch
      <3>1. Holds(w, e) /\ \A v \in Flushers : Holds(v, e) => v = w
        BY <1>1, <1>11, <2>1 DEF Holds, f
      <3>2. Sent(e) <=> f.row[e].status = "sent"
        BY <1>1, <1>2, <2>1, <3>1 DEF Sent, Pending, f
      <3>3. Sent(e)' <=> f.row[e].status = "sent"
        BY <1>4, <1>10, <2>1, <3>1 DEF Sent
      <3> QED
        BY <3>2, <3>3
    <2>2. CASE e \notin f.batch
      <3>1. ~Holds(w, e)
        BY <2>2 DEF Holds, f
      <3> QED
        BY <1>5, <1>6, <1>10, <2>2, <3>1 DEF Sent
    <2> QED
      BY <2>1, <2>2
  <1>14. PushesInv'
    BY <1>1, <1>13 DEF OutboxInv, PushesInv
  <1> QED
    BY <1>9, <1>12, <1>14 DEF OutboxInv

(* What a dying flusher has pushed is in doubt; the rest is as it was. *)
LEMMA Dies ==
    ASSUME OutboxInv, NEW w \in Flushers, flush_pending_dies(w)
    PROVE  OutboxInv'
  <1>1. /\ flush[w] # None /\ crashes < MaxCrashes /\ crashes' = crashes + 1
        /\ flush' = [flush EXCEPT ![w] = None]
        /\ doubtful' = doubtful \cup (flush[w].batch \ flush[w].todo)
        /\ UNCHANGED <<event, device, configured, pushed>>
    BY DEF flush_pending_dies
  <1>2. /\ \A v \in Flushers : flush'[v] # None => v # w /\ flush'[v] = flush[v]
        /\ \A v \in Flushers : v # w => flush'[v] = flush[v]
        /\ flush'[w] = None
    BY <1>1 DEF OutboxInv, HoldsInv
  <1>3. flush[w].batch \subseteq Enqueued
    BY <1>1, Held DEF OutboxInv
  <1>4. RowsInv'
    <2>1. crashes' \in 0..MaxCrashes
      BY <1>1, OutboxAssumption DEF OutboxInv, RowsInv
    <2>2. doubtful' \subseteq Enqueued'
      BY <1>1, <1>3 DEF OutboxInv, RowsInv, Enqueued
    <2>3. \A e \in Events : Pending(e)' => event'[e].attempt_count < MaxAttempts
      BY <1>1 DEF OutboxInv, RowsInv, Pending
    <2> QED
      BY <1>1, <2>1, <2>2, <2>3 DEF OutboxInv, RowsInv
  <1>5. \A v \in Flushers, e \in Events : Holds(v, e)' <=> v # w /\ Holds(v, e)
    BY <1>2 DEF Holds
  <1>6. HoldsInv'
    <2>1. flush' \in [Flushers -> Flush \cup {None}]
      BY <1>1 DEF OutboxInv, HoldsInv
    <2>2. \A e : Pending(e)' <=> Pending(e)
      BY <1>1 DEF Pending
    <2>3. \A w1, w2 \in Flushers, e \in Events : Holds(w1, e)' /\ Holds(w2, e)' => w1 = w2
      BY <1>5 DEF OutboxInv, HoldsInv
    <2> QED
      BY <1>1, <1>2, <2>1, <2>2, <2>3 DEF OutboxInv, HoldsInv, Retriable
  <1>7. ASSUME NEW e \in Events
        PROVE  /\ Sent(e)' => Sent(e)
               /\ Sent(e) /\ e \notin doubtful' => Sent(e)'
    <2>1. Holds(w, e) /\ e \notin flush[w].todo => e \in doubtful'
      BY <1>1 DEF Holds
    <2> QED
      BY <1>1, <1>2, <1>5, <2>1 DEF Sent
  <1>8. PushesInv'
    BY <1>1, <1>7 DEF OutboxInv, PushesInv
  <1> QED
    BY <1>4, <1>6, <1>8 DEF OutboxInv

LEMMA Registers ==
    ASSUME OutboxInv, NEW t \in Tokens,
           unregister_device(t) \/ \E u \in holders[t] : register_device(t, u)
    PROVE  /\ device' \in [Tokens -> DeviceRegistration \cup {None}]
           /\ \A x \in Tokens : device[x] # None => device'[x] # None
           /\ \A x \in Tokens : device[x] # None /\ device[x].is_active =>
                 device'[x].user = device[x].user
           /\ UNCHANGED <<event, flush, configured, crashes, pushed, doubtful>>
  <1> USE RowsAssumption
  <1>1. device \in [Tokens -> DeviceRegistration \cup {None}]
    BY DEF OutboxInv, RowsInv
  <1>2. \A r \in DeviceRegistration :
           /\ [r EXCEPT !.is_active = FALSE] \in DeviceRegistration
           /\ [r EXCEPT !.is_active = FALSE].user = r.user
    BY DEF DeviceRegistration
  <1>3. CASE unregister_device(t)
    <2>1. device[t] \in DeviceRegistration
      BY <1>1, <1>3 DEF unregister_device
    <2>2. device' = [device EXCEPT ![t] = [device[t] EXCEPT !.is_active = FALSE]]
      BY <1>3 DEF unregister_device
    <2> QED
      BY <1>1, <1>2, <1>3, <2>1, <2>2 DEF unregister_device
  <1>4. ASSUME NEW u \in holders[t], register_device(t, u)
        PROVE  /\ device' \in [Tokens -> DeviceRegistration \cup {None}]
               /\ \A x \in Tokens : device[x] # None => device'[x] # None
               /\ \A x \in Tokens : device[x] # None /\ device[x].is_active =>
                     device'[x].user = device[x].user
               /\ UNCHANGED <<event, flush, configured, crashes, pushed, doubtful>>
    <2> DEFINE r == [user |-> u, is_active |-> TRUE]
    <2>1. r \in DeviceRegistration /\ r.user = u
      BY OutboxAssumption DEF DeviceRegistration
    <2>2. device' = [device EXCEPT ![t] = r]
      BY <1>4 DEF register_device
    <2> HIDE DEF r
    <2> QED
      BY <1>1, <1>4, <2>1, <2>2 DEF register_device, token_is_free
  <1> QED
    BY <1>3, <1>4

LEMMA StepOutbox == OutboxInv /\ [Next]_vars => OutboxInv'
  <1> SUFFICES ASSUME OutboxInv, [Next]_vars PROVE OutboxInv'
    OBVIOUS
  <1>1. ASSUME NEW t \in Tokens,
               unregister_device(t) \/ \E u \in holders[t] : register_device(t, u)
        PROVE  OutboxInv'
    BY <1>1, Registers, DevicesChange
  <1>2. CASE UNCHANGED vars
    BY <1>2, DevicesChange DEF vars, OutboxInv, RowsInv
  <1> QED
    BY <1>1, <1>2, Enqueues, BackoffEnds, BatchTaken, Delivers, Commits, Dies
    DEF Next, FlushStep

(* The inductive invariant: rows, what flushers hold, and which pushes were *)
(* made for which events.                                                  *)
THEOREM OutboxInvariant == Spec => []OutboxInv
  BY InitOutbox, StepOutbox, PTL DEF Spec

(* Rows keep their types, no batch is larger than configured and no event  *)
(* is tried more often than MAX_DELIVERY_ATTEMPTS, however many flushers   *)
(* work on the outbox and whichever of them die.                           *)
THEOREM OutboxTypeCorrect == Spec => []OutboxTypeOK
  <1>1. OutboxInv => OutboxTypeOK
    <2> SUFFICES ASSUME OutboxInv PROVE OutboxTypeOK
      OBVIOUS
    <2>1. \A w \in Flushers : flush[w] # None =>
             /\ flush[w].todo \subseteq flush[w].batch
             /\ flush[w].batch \subseteq Enqueued
             /\ Cardinality(flush[w].batch) \in 1..Batch
             /\ flush[w].invalid \subseteq Tokens
      BY Held DEF OutboxInv, HoldsInv
    <2> QED
      BY <2>1 DEF OutboxInv, RowsInv, OutboxTypeOK
  <1> QED
    BY <1>1, OutboxInvariant, PTL

(* Concurrent flushes and retries push nothing twice to one device: only a *)
(* flush that died or an answer that was lost does.                        *)
THEOREM PushesAreNotRepeated == Spec => []NoPushIsRepeated
  <1>1. OutboxInv => NoPushIsRepeated
    <2> SUFFICES ASSUME OutboxInv, NEW e \in Events, NEW t \in Tokens, e \notin doubtful,
                        pushed[e][t] > 1
                 PROVE  FALSE
      BY DEF NoPushIsRepeated
    <2>1. pushed[e][t] \in 0..2
      BY DEF OutboxInv, RowsInv
    <2> QED
      BY <2>1 DEF OutboxInv, PushesInv
  <1> QED
    BY <1>1, OutboxInvariant, PTL

(* An event is on record as sent only if it reached a device, and as        *)
(* anything else only if it reached none, as far as the server could know. *)
AccountingIsHonest ==
    \A e \in Enqueued :
        LET reached == \E t \in Tokens : pushed[e][t] > 0
        IN /\ event[e].status = "sent" => reached
           /\ event[e].status \in {"no_devices", "in_app_only", "dead"} /\ reached =>
                 e \in doubtful

(* What the rows say is true, by what was pushed. *)
LEMMA HonestRows == OutboxInv => AccountingIsHonest
  <1> SUFFICES ASSUME OutboxInv, NEW e \in Enqueued
               PROVE  /\ event[e].status = "sent" => \E t \in Tokens : pushed[e][t] > 0
                      /\ /\ event[e].status \in {"no_devices", "in_app_only", "dead"}
                         /\ \E t \in Tokens : pushed[e][t] > 0
                         => e \in doubtful
    BY DEF AccountingIsHonest
  <1>1. e \in Events /\ event[e] # None
    BY DEF Enqueued
  <1>2. event[e].status = "sent" => Sent(e)
    BY <1>1 DEF Sent
  <1>3. event[e].status \in {"no_devices", "in_app_only", "dead"} => ~Sent(e)
    BY DEF Sent, OutboxInv, HoldsInv, Holds, Pending
  <1> QED
    BY <1>1, <1>2, <1>3 DEF OutboxInv, PushesInv

LEMMA HonestRowsAfter == OutboxInv' => AccountingIsHonest'
  BY HonestRows, PTL

(* What is on record as sent reached a device; what is on record as given  *)
(* up reached none, as far as the server could know.                       *)
THEOREM AccountsAreHonest == Spec => []AccountingIsHonest
  BY HonestRows, OutboxInvariant, PTL

-------------------------------------------------------------------------------
(* The outbox implements Notice. *)

Reached(e) == \E t \in Tokens : pushed[e][t] > 0

(* A push is made for an event that is still owed, and only ever adds. *)
LEMMA PushedIsPending ==
    ASSUME OutboxInv, NEW w \in Flushers, deliver_event(w)
    PROVE  \E e \in Events :
              /\ Pending(e) /\ UNCHANGED event
              /\ \A x \in Events : x # e => (Reached(x)' <=> Reached(x))
              /\ Reached(e) => Reached(e)'
              /\ doubtful' # doubtful => doubtful' = doubtful \cup {e} /\ Reached(e)'
  <1>1. flush[w] # None /\ flush[w].todo # {} /\ UNCHANGED event
    BY DEF deliver_event
  <1>2. PICK e \in flush[w].todo : e = Min(flush[w].todo)
    <2>1. flush[w].todo \in SUBSET Nat
      BY <1>1, Held, OutboxAssumption DEF OutboxInv, Events
    <2> QED
      BY <1>1, <2>1, MinIsLeast
  <1>3. e \in Events /\ Pending(e)
    BY <1>1, <1>2, Held DEF OutboxInv, HoldsInv
  <1>4. pushed \in [Events -> [Tokens -> 0..2]]
    BY DEF OutboxInv, RowsInv
  <1>5. CASE UNCHANGED <<pushed, doubtful>>
    BY <1>1, <1>3, <1>5 DEF Reached
  <1>6. ASSUME NEW got \in SUBSET Tokens,
               pushed' = [pushed EXCEPT ![e] = [t \in Tokens |->
                  IF t \in got /\ @[t] < 2 THEN @[t] + 1 ELSE @[t]]],
               doubtful' # doubtful => doubtful' = doubtful \cup {e} /\ got # {}
        PROVE  /\ \A x \in Events : x # e => (Reached(x)' <=> Reached(x))
               /\ Reached(e) => Reached(e)'
               /\ doubtful' # doubtful => doubtful' = doubtful \cup {e} /\ Reached(e)'
    <2>1. \A x \in Events : x # e => pushed'[x] = pushed[x]
      BY <1>4, <1>6
    <2>2. \A t \in Tokens :
             /\ pushed[e][t] \in 0..2
             /\ pushed'[e][t] = IF t \in got /\ pushed[e][t] < 2 THEN pushed[e][t] + 1
                                                                ELSE pushed[e][t]
      BY <1>3, <1>4, <1>6
    <2>3. \A t \in Tokens : t \in got \/ pushed[e][t] > 0 => pushed'[e][t] > 0
      BY <2>2
    <2> QED
      BY <1>6, <2>1, <2>3 DEF Reached
  <1>7. CASE ~UNCHANGED <<pushed, doubtful>>
    <2> DEFINE reached == devices_of(flush[w].row[e].user)
    <2>1. PICK answer \in [reached -> Answers] :
            /\ pushed' = [pushed EXCEPT ![e] = [t \in Tokens |->
                  IF t \in {y \in reached : answer[y] \in {"ok", "lost"}} /\ @[t] < 2
                  THEN @[t] + 1 ELSE @[t]]]
            /\ doubtful' = IF \E t \in reached : answer[t] = "lost"
                           THEN doubtful \cup {e} ELSE doubtful
      BY <1>2, <1>7 DEF deliver_event
    <2>2. PICK got \in SUBSET Tokens : got = {y \in reached : answer[y] \in {"ok", "lost"}}
      BY DEF devices_of
    <2>3. doubtful' # doubtful => doubtful' = doubtful \cup {e} /\ got # {}
      BY <2>1, <2>2
    <2>4. pushed' = [pushed EXCEPT ![e] = [t \in Tokens |->
                  IF t \in got /\ @[t] < 2 THEN @[t] + 1 ELSE @[t]]]
      BY <2>1, <2>2
    <2> QED
      BY <1>1, <1>3, <1>6, <2>3, <2>4
  <1> QED
    BY <1>5, <1>7

LEMMA FateIsTyped ==
    ASSUME RowsInv
    PROVE  \A e \in Events :
              /\ FateOf(e) \in {"none", "owed", "delivered", "given_up"}
              /\ FateOf(e) = "owed" <=> Pending(e)
              /\ FateOf(e) = "none" <=> event[e] = None
              /\ FateOf(e) = "delivered" <=> event[e] # None /\ event[e].status = "sent"
  BY DEF FateOf, Pending

LEMMA SameFate ==
    ASSUME UNCHANGED event
    PROVE  [e \in Events |-> FateOf(e)]' = [e \in Events |-> FateOf(e)]
  BY DEF FateOf, Pending

LEMMA StepNotice == OutboxInv /\ [Next]_vars => [AsNotice!NoticeNext]_(AsNotice!noticeVars)
  <1> SUFFICES ASSUME OutboxInv, [Next]_vars
               PROVE  AsNotice!NoticeNext \/ UNCHANGED AsNotice!noticeVars
    OBVIOUS
  <1> USE DEF AsNotice!Owed
  <1>0. RowsInv /\ OutboxInv' /\ RowsInv'
    BY StepOutbox DEF OutboxInv
  <1>1. ASSUME UNCHANGED <<event, pushed, doubtful>> PROVE UNCHANGED AsNotice!noticeVars
    BY <1>1, SameFate DEF AsNotice!noticeVars
  <1>2. ASSUME enqueue_notification PROVE AsNotice!NoticeNext
    <2>1. PICK e \in Events :
            /\ \A x \in Events : x < e <=> x \in Enqueued
            /\ event' = [event EXCEPT ![e] =
                  [user |-> recipient[e], status |-> "pending", attempt_count |-> 0, due |-> TRUE]]
      BY <1>2 DEF enqueue_notification
    <2> DEFINE row == [user |-> recipient[e], status |-> "pending", attempt_count |-> 0,
                       due |-> TRUE]
    <2>2. event[e] = None
      <3>1. ~(e < e)
        BY OutboxAssumption DEF Events
      <3> QED
        BY <2>1, <3>1 DEF Enqueued
    <2>3. row \in NotificationEvent /\ row.status = "pending"
      BY OutboxAssumption DEF NotificationEvent, Status
    <2>4. event' = [event EXCEPT ![e] = row]
      BY <2>1
    <2> HIDE DEF row
    <2>5. /\ FateOf(e) = "none" /\ FateOf(e)' = "owed"
          /\ \A x \in Events : x # e => FateOf(x)' = FateOf(x)
      BY <1>0, <2>2, <2>3, <2>4, RowsAssumption DEF RowsInv, FateOf, Pending
    <2>6. AsNotice!Owe(e)
      BY <1>2, <2>5 DEF AsNotice!Owe, enqueue_notification
    <2> QED
      BY <2>6 DEF AsNotice!NoticeNext
  <1>3. ASSUME NEW e \in Events, backoff_ends(e) PROVE UNCHANGED AsNotice!noticeVars
    <2>1. event[e] \in NotificationEvent /\ event[e].status = "pending" /\ event[e] # None
      BY <1>0, <1>3 DEF backoff_ends, Pending, RowsInv
    <2>2. event'[e] # None /\ event'[e].status = "pending"
      BY <1>0, <1>3, <2>1, RowsAssumption DEF backoff_ends, RowsInv, NotificationEvent
    <2>3. \A x \in Events : x # e => event'[x] = event[x]
      BY <1>0, <1>3 DEF backoff_ends, RowsInv
    <2>4. \A x \in Events : FateOf(x)' = FateOf(x)
      BY <2>1, <2>2, <2>3 DEF FateOf, Pending
    <2> QED
      BY <1>3, <2>4 DEF backoff_ends, AsNotice!noticeVars
  <1>4. ASSUME NEW w \in Flushers, deliver_event(w)
        PROVE  AsNotice!NoticeNext \/ UNCHANGED AsNotice!noticeVars
    <2>1. PICK e \in Events :
            /\ Pending(e) /\ UNCHANGED event
            /\ \A x \in Events : x # e => (Reached(x)' <=> Reached(x))
            /\ Reached(e) => Reached(e)'
            /\ doubtful' # doubtful => doubtful' = doubtful \cup {e} /\ Reached(e)'
      BY <1>4, PushedIsPending
    <2>2. CASE Reached(e)'
      <3>1. {x \in Events : Reached(x)}' = {x \in Events : Reached(x)} \cup {e}
        BY <2>1, <2>2
      <3>2. AsNotice!Reach(e)
        BY <1>0, <2>1, <3>1, FateIsTyped, SameFate DEF AsNotice!Reach, Reached
      <3> QED
        BY <3>2 DEF AsNotice!NoticeNext
    <2>3. CASE ~Reached(e)'
      <3>1. {x \in Events : Reached(x)}' = {x \in Events : Reached(x)}
        BY <2>1, <2>3
      <3> QED
        BY <2>1, <2>3, <3>1, SameFate DEF AsNotice!noticeVars, Reached
    <2> QED
      BY <2>2, <2>3
  <1>5. ASSUME NEW w \in Flushers, flush_pending_commits(w) PROVE AsNotice!NoticeNext
    <2>1. /\ flush[w] # None /\ UNCHANGED <<pushed, doubtful>>
          /\ event' = [e \in Events |-> IF e \in flush[w].batch THEN flush[w].row[e] ELSE event[e]]
      BY <1>5 DEF flush_pending_commits
    <2>2. \A e \in flush[w].batch : Pending(e)
      BY <2>1 DEF OutboxInv, HoldsInv
    <2>3. flush[w].row \in [flush[w].batch -> NotificationEvent]
      BY <2>1, Held DEF OutboxInv
    <2>4. AccountingIsHonest'
      BY <1>0, HonestRowsAfter
    <2>5. ASSUME NEW e \in Events, FateOf(e)' # FateOf(e)
          PROVE  /\ Pending(e)
                 /\ \/ FateOf(e)' = "delivered" /\ Reached(e)
                    \/ FateOf(e)' = "given_up" /\ (Reached(e) => e \in doubtful)
      <3>1. e \in flush[w].batch
        BY <2>1, <2>5 DEF FateOf, Pending
      <3>2. event'[e] \in NotificationEvent /\ event'[e] # None
        BY <2>1, <2>3, <3>1, RowsAssumption
      <3>3. FateOf(e) = "owed" /\ Pending(e)
        BY <1>0, <2>2, <3>1, FateIsTyped
      <3>4. event'[e].status # "pending" /\ event'[e].status \in Status
        BY <2>5, <3>2, <3>3 DEF FateOf, Pending, NotificationEvent
      <3>5. CASE event'[e].status = "sent"
        <4>1. FateOf(e)' = "delivered"
          BY <3>2, <3>5 DEF FateOf, Pending
        <4>2. Reached(e)
          BY <2>1, <2>4, <3>2, <3>5 DEF AccountingIsHonest, Enqueued, Reached
        <4> QED
          BY <3>3, <4>1, <4>2
      <3>6. CASE event'[e].status # "sent"
        <4>1. FateOf(e)' = "given_up"
          BY <3>2, <3>4, <3>6 DEF FateOf, Pending
        <4>2. event'[e].status \in {"no_devices", "in_app_only", "dead"}
          BY <3>4, <3>6 DEF Status
        <4>3. Reached(e) => e \in doubtful
          BY <2>1, <2>4, <3>2, <4>2 DEF AccountingIsHonest, Enqueued, Reached
        <4> QED
          BY <3>3, <4>1, <4>3
      <3> QED
        BY <3>5, <3>6
    <2>6. AsNotice!Settle
      <3>1. \A e \in Events : FateOf(e)' \in {"none", "owed", "delivered", "given_up"}
        BY DEF FateOf
      <3>2. \A e \in Events : Pending(e) => FateOf(e) = "owed"
        BY <1>0, FateIsTyped
      <3> QED
        BY <2>1, <2>5, <3>1, <3>2 DEF AsNotice!Settle, Reached
    <2> QED
      BY <2>6 DEF AsNotice!NoticeNext
  <1>6. ASSUME NEW w \in Flushers, flush_pending_dies(w) PROVE AsNotice!NoticeNext
    <2> DEFINE lost == flush[w].batch \ flush[w].todo
    <2>1. /\ flush[w] # None /\ UNCHANGED <<event, pushed>>
          /\ doubtful' = doubtful \cup lost
      BY <1>6 DEF flush_pending_dies
    <2>2. \A e \in lost : e \in Events /\ FateOf(e) = "owed"
      BY <1>0, <2>1, Held, FateIsTyped DEF OutboxInv, HoldsInv
    <2> HIDE DEF lost
    <2>3. AsNotice!Forget
      BY <2>1, <2>2, SameFate DEF AsNotice!Forget
    <2> QED
      BY <2>3 DEF AsNotice!NoticeNext
  <1>7. ASSUME \/ \E w \in Flushers : due_events(w)
               \/ \E t \in Tokens : \/ unregister_device(t)
                                    \/ \E u \in holders[t] : register_device(t, u)
               \/ UNCHANGED vars
        PROVE  UNCHANGED <<event, pushed, doubtful>>
    BY <1>7 DEF due_events, unregister_device, register_device, vars
  <1> QED
    BY <1>1, <1>2, <1>3, <1>4, <1>5, <1>6, <1>7 DEF Next, FlushStep

(* flush_pending, deliver_event and their crashes, by any number of        *)
(* flushers, keep what Notice promises: an event that is settled stays as  *)
(* it is and is not pushed any more, and the record is true as far as the  *)
(* server can know.                                                        *)
THEOREM NoticesAreKept == Spec => ImplementsNotice
  <1>1. Init => AsNotice!NoticeInit
    <2> SUFFICES ASSUME Init PROVE AsNotice!NoticeInit
      OBVIOUS
    <2>1. \A e \in Events : FateOf(e) = "none"
      BY DEF Init, FateOf, Pending
    <2>2. {e \in Events : \E t \in Tokens : pushed[e][t] > 0} = {} /\ doubtful = {}
      BY DEF Init
    <2> QED
      BY <2>1, <2>2 DEF AsNotice!NoticeInit
  <1> QED
    BY <1>1, StepNotice, OutboxInvariant, PTL DEF Spec, ImplementsNotice, AsNotice!NoticeSpec
===============================================================================
