-------------------------------- MODULE Support --------------------------------
(***************************************************************************)
(* Support tickets: created once per idempotency key by anybody, worked on *)
(* by administrators who read a ticket, think, and send the version they   *)
(* saw along with their change.                                            *)
(*                                                                         *)
(* Every handler that changes an existing ticket locks its row first, so   *)
(* it is one action.  create_ticket locks nothing: it looks the key up,    *)
(* and the unique constraint decides when it inserts, so it is two.  A     *)
(* request that is rejected, and a retried message that is answered with   *)
(* the stored one, change nothing and need no action.                      *)
(*                                                                         *)
(* An order has exactly one delivery row, which is named by its order.     *)
(***************************************************************************)
EXTENDS Naturals

CONSTANTS
    Customers, Merchants, Riders, Admins,   \* users, by role
    Orders, Stores,
    order_user, order_store,    \* the rows references are checked against
    store_merchant, delivery_partner,
    Tickets,        \* tickets that may be created
    Keys,           \* idempotency keys clients send
    Texts,          \* subjects, message bodies, resolution notes
    Threads,        \* create requests the server works on at the same time
    Requests,       \* the create requests clients send, of TicketCreate below
    MaxVersion,     \* bound on the changes made to one ticket
    None,           \* NULL
    Keep            \* a field the request leaves out

Users == Customers \cup Merchants \cup Riders \cup Admins

ASSUME SupportAssumption ==
    /\ None \notin Users \cup Orders \cup Stores \cup Tickets \cup Keys \cup Texts
    /\ Keep \notin Texts \cup {None}
    /\ order_user \in [Orders -> Customers]
    /\ order_store \in [Orders -> Stores]
    /\ store_merchant \in [Stores -> Merchants]
    /\ delivery_partner \in [Orders -> Riders \cup {None}]
    /\ MaxVersion \in Nat

TicketStatus == {"open", "in_progress", "waiting_customer", "resolved", "closed"}

ALLOWED_TRANSITIONS ==
    [s \in TicketStatus |->
        CASE s = "open" -> {"in_progress", "waiting_customer", "resolved", "closed"}
          [] s = "in_progress" -> {"waiting_customer", "resolved", "closed"}
          [] s = "waiting_customer" -> {"in_progress", "resolved", "closed"}
          [] s = "resolved" -> {"in_progress", "closed"}
          [] s = "closed" -> {"open"}]

References ==
    [order : Orders \cup {None}, delivery : Orders \cup {None}, store : Stores \cup {None}]
TicketCreate == [user : Users, key : Keys \cup {None}, text : Texts, refs : References]

ASSUME RequestsAssumption == Requests \subseteq TicketCreate

SupportTicket ==
    [user : Users, key : Keys \cup {None}, text : Texts, links : References,
     status : TicketStatus, notes : Texts \cup {None}, assigned : Admins \cup {None},
     version : 0..MaxVersion, resolved : BOOLEAN]
Visibility == {"public", "internal"}
SupportMessage ==
    [ticket : Tickets, key : Keys, author : Users, visibility : Visibility, body : Texts]

ASSUME RowsAssumption == None \notin SupportTicket

VARIABLES
    ticket,     \* support_tickets
    messages,   \* support_messages
    notices,    \* the last notification event enqueued about each ticket
    create,     \* create requests: looked up, or answered with a ticket
    view        \* what each administrator has on the screen

vars == <<ticket, messages, notices, create, view>>

Existing == {t \in Tickets : ticket[t] # None}
Row(t) ==
    [status |-> ticket[t].status, notes |-> ticket[t].notes,
     assigned |-> ticket[t].assigned]
Thread(t, v) == {m \in messages : m.ticket = t /\ m.visibility = v}

Init ==
    /\ ticket = [t \in Tickets |-> None]
    /\ messages = {}
    /\ notices = [t \in Tickets |-> None]
    /\ create = [th \in Threads |-> None]
    /\ view = [a \in Admins |-> None]

-------------------------------------------------------------------------------
(* Which references a requester may link, and what gets linked. *)

(* explicit_order and delivery_order *)
orders_named(r) == {r.order, r.delivery} \ {None}
stores_named(r) == ({r.store} \ {None}) \cup {order_store[o] : o \in orders_named(r)}

belongs_to_requester(u, r) ==
    \/ orders_named(r) = {} /\ r.store = None
    \/ /\ u \in Customers
       /\ orders_named(r) # {}
       /\ \A o \in orders_named(r) : order_user[o] = u
    \/ /\ u \in Merchants
       /\ \A s \in stores_named(r) : store_merchant[s] = u
    \/ /\ u \in Riders
       /\ r.delivery # None
       /\ delivery_partner[r.delivery] = u
    \/ u \in Admins

(* Mutant: the store is not compared with the order's. *)
references_agree_NoStore(r) ==
    r.order # None /\ r.delivery # None => r.order = r.delivery

references_agree(r) ==
    /\ r.order # None /\ r.delivery # None => r.order = r.delivery
    /\ r.store # None => \A o \in orders_named(r) : order_store[o] = r.store

linked(r) ==
    LET order == IF r.order # None THEN r.order ELSE r.delivery
    IN [order |-> order, delivery |-> r.delivery,
        store |-> IF r.store # None \/ order = None THEN r.store ELSE order_store[order]]

-------------------------------------------------------------------------------
(* Creating a ticket. *)

(* Mutant: the key is neither looked up nor unique. *)
existing_ticket_replay_Never(p) == {}

existing_ticket_replay(p) ==
    {t \in Existing : p.key # None /\ ticket[t].user = p.user /\ ticket[t].key = p.key}

ticket_replay_matches(t, p) ==
    ticket[t].text = p.text /\ ticket[t].links = linked(p.refs)

Answer(th, p, t) == create' = [create EXCEPT ![th] = [asked |-> p, ticket |-> t]]

replayed_ticket_or_conflict(th, p) ==
    /\ \E t \in existing_ticket_replay(p) :
          IF ticket_replay_matches(t, p) THEN Answer(th, p, t)
                                         ELSE create' = [create EXCEPT ![th] = None]
    /\ UNCHANGED <<ticket, messages, notices, view>>

Waiting(th) == create[th] # None /\ create[th].ticket = None

create_ticket_looks_up(th, p) ==
    /\ ~Waiting(th)
    /\ belongs_to_requester(p.user, p.refs)
    /\ references_agree(p.refs)
    /\ \/ replayed_ticket_or_conflict(th, p)
       \/ /\ existing_ticket_replay(p) = {}
          /\ Answer(th, p, None)
          /\ UNCHANGED <<ticket, messages, notices, view>>

create_ticket_inserts(th) ==
    /\ Waiting(th)
    /\ LET p == create[th].asked
       IN \/ replayed_ticket_or_conflict(th, p)
          \/ /\ existing_ticket_replay(p) = {}
             /\ \E t \in Tickets \ Existing :
                   /\ ticket' = [ticket EXCEPT ![t] =
                         [user |-> p.user, key |-> p.key, text |-> p.text,
                          links |-> linked(p.refs), status |-> "open", notes |-> None,
                          assigned |-> None, version |-> 0, resolved |-> FALSE]]
                   /\ Answer(th, p, t)
             /\ UNCHANGED <<messages, notices, view>>

-------------------------------------------------------------------------------
(* The conversation. *)

enqueue_notification(t, u) ==
    notices' = [notices EXCEPT ![t] = [version |-> ticket'[t].version, to |-> u]]

(* Mutant: a retried message is posted again. *)
message_is_new_Always(t, k) == TRUE

message_is_new(t, k) == \A m \in messages : m.ticket = t => m.key # k

(* Mutant: a message does not count as a change of the ticket. *)
add_message_NoVersion(t, u, k, visibility, body, new_status) ==
    /\ message_is_new(t, k)
    /\ messages' = messages \cup
          {[ticket |-> t, key |-> k, author |-> u, visibility |-> visibility, body |-> body]}
    /\ ticket' = [ticket EXCEPT ![t].status = new_status]
    /\ UNCHANGED <<create, view>>

(* Posts the message and gives the ticket its next version; the caller says *)
(* what status it has afterwards.                                          *)
add_message(t, u, k, visibility, body, new_status) ==
    /\ message_is_new(t, k)
    /\ ticket[t].version < MaxVersion
    /\ messages' = messages \cup
          {[ticket |-> t, key |-> k, author |-> u, visibility |-> visibility, body |-> body]}
    /\ ticket' = [ticket EXCEPT ![t].version = @ + 1, ![t].status = new_status]
    /\ UNCHANGED <<create, view>>

add_requester_message(t, k, body) ==
    /\ ticket[t].status # "closed"
    /\ add_message(t, ticket[t].user, k, "public", body,
          IF ticket[t].status = "waiting_customer" THEN "in_progress" ELSE ticket[t].status)
    /\ IF ticket[t].assigned # None THEN enqueue_notification(t, ticket[t].assigned)
                                    ELSE UNCHANGED notices

add_admin_public_message(a, t, k, body) ==
    /\ ticket[t].status # "closed"
    /\ add_message(t, a, k, "public", body, ticket[t].status)
    /\ enqueue_notification(t, ticket[t].user)

add_internal_note(a, t, k, body) ==
    /\ add_message(t, a, k, "internal", body, ticket[t].status)
    /\ UNCHANGED notices

-------------------------------------------------------------------------------
(* The administrator's screen. *)

shows(a, t) == view[a] # None /\ view[a].ticket = t

(* The queue, the ticket itself and the answer to a change, which is read    *)
(* anew after the commit, all show the row and its version, and no message. *)
(* What is already on the screen of the conversation stays there; "loaded" *)
(* says which lists were complete at this version or later.                *)
admin_ticket(a, t) ==
    /\ view' = [view EXCEPT ![a] =
          [ticket |-> t, version |-> ticket[t].version, row |-> Row(t),
           seen |-> IF shows(a, t) THEN view[a].seen ELSE {}, loaded |-> {}]]
    /\ UNCHANGED <<ticket, messages, notices, create>>

(* The messages come from another endpoint, one list and one page at a time; *)
(* the list is loaded when no further page is left.                        *)
admin_ticket_messages(a, t, v) ==
    /\ shows(a, t)
    /\ \E page \in SUBSET Thread(t, v) :
          LET seen == view[a].seen \cup page
          IN view' = [view EXCEPT
                ![a].seen = seen,
                ![a].loaded = IF Thread(t, v) \subseteq seen THEN @ \cup {v} ELSE @]
    /\ UNCHANGED <<ticket, messages, notices, create>>

check_version(a, t) == shows(a, t) /\ view[a].version = ticket[t].version

(* Reopening takes the stamp away again. *)
resolved_at(s) == s \in {"resolved", "closed"}

(* expected_version is optional here: a client that leaves it out overwrites *)
(* whatever it did not see.                                                *)
update_ticket(a, t, s, n, sends_version) ==
    LET notes == IF n = Keep THEN ticket[t].notes ELSE n
    IN /\ sends_version => check_version(a, t)
       /\ s # ticket[t].status \/ notes # ticket[t].notes
       /\ s # ticket[t].status => s \in ALLOWED_TRANSITIONS[ticket[t].status]
       /\ ticket[t].version < MaxVersion
       /\ ticket' = [ticket EXCEPT
             ![t].status = s, ![t].notes = notes, ![t].version = @ + 1,
             ![t].resolved = resolved_at(s)]
       /\ enqueue_notification(t, ticket[t].user)
       /\ UNCHANGED <<messages, create, view>>

(* Mutant: the assignee's capability is not looked at. *)
assignable_Anybody == Users \cup {None}

assignable == Admins \cup {None}

assign_ticket(a, t, assignee) ==
    /\ check_version(a, t)
    /\ assignee # ticket[t].assigned
    /\ ticket[t].version < MaxVersion
    /\ ticket' = [ticket EXCEPT ![t].assigned = assignee, ![t].version = @ + 1]
    /\ UNCHANGED <<messages, notices, create, view>>

-------------------------------------------------------------------------------
AdminStep(a, t) ==
    \/ admin_ticket(a, t)
    \/ \E v \in Visibility : admin_ticket_messages(a, t, v)
    \/ \E s \in TicketStatus, n \in Texts \cup {None, Keep}, sends_version \in BOOLEAN :
          update_ticket(a, t, s, n, sends_version)
    \/ \E assignee \in assignable : assign_ticket(a, t, assignee)
    \/ \E k \in Keys, body \in Texts :
          add_admin_public_message(a, t, k, body) \/ add_internal_note(a, t, k, body)

Next ==
    \/ \E th \in Threads :
          (\E p \in Requests : create_ticket_looks_up(th, p)) \/ create_ticket_inserts(th)
    \/ \E t \in Existing :
          \/ \E k \in Keys, body \in Texts : add_requester_message(t, k, body)
          \/ \E a \in Admins : AdminStep(a, t)

Spec == Init /\ [][Next]_vars

-------------------------------------------------------------------------------
(* Properties. *)

(* Tickets, messages, notices, requests and screens keep their types; no   *)
(* message belongs to a ticket that does not exist.                        *)
SupportTypeOK ==
    /\ ticket \in [Tickets -> SupportTicket \cup {None}]
    /\ messages \subseteq SupportMessage
    /\ \A m \in messages : m.ticket \in Existing
    /\ notices \in [Tickets -> [version : 0..MaxVersion, to : Users] \cup {None}]
    /\ \A th \in Threads :
          create[th] # None =>
             create[th].asked \in Requests /\ create[th].ticket \in Tickets \cup {None}
    /\ \A a \in Admins :
          view[a] # None => view[a].ticket \in Existing /\ view[a].version \in 0..MaxVersion

(* Optimistic locking: while _check_version accepts a version, nothing was  *)
(* changed or posted since it was read.  The page shows the status, notes  *)
(* and assignee the ticket has, and each list of messages that was loaded  *)
(* after the version is still the whole list, whoever works on the ticket. *)
(* A list loaded before the version promises nothing.                      *)
AcceptedVersionIsUpToDate ==
    \A a \in Admins : \A t \in Existing :
        check_version(a, t) =>
           /\ view[a].row = Row(t)
           /\ \A v \in view[a].loaded : Thread(t, v) \subseteq view[a].seen

(* However create requests with one key interleave, are retried or overtake *)
(* each other, every one that is answered gets the same ticket, and it is  *)
(* the requester's and says what that request said.                        *)
RetriesGetOneTicket ==
    \A th1, th2 \in Threads :
        LET Answered(th) == create[th] # None /\ create[th].ticket # None
            p == create[th1].asked
            q == create[th2].asked
        IN /\ Answered(th1) =>
                 /\ ticket[create[th1].ticket].user = p.user
                 /\ ticket[create[th1].ticket].text = p.text
           /\ Answered(th1) /\ Answered(th2) =>
                 (p.user = q.user /\ p.key = q.key /\ p.key # None =>
                     create[th1].ticket = create[th2].ticket)

(* What _validate_references lets a ticket link is one consistent context: *)
(* the delivery is the order's, the store is the order's, and a requester  *)
(* who is not staff reaches all of it from a row of his own.               *)
LinkedContextBelongs ==
    \A t \in Existing :
        LET l == ticket[t].links
            u == ticket[t].user
        IN /\ l.delivery # None => l.delivery = l.order
           /\ l.order # None => l.store = order_store[l.order]
           /\ l.store # None =>
                 \/ u \in Admins
                 \/ u \in Customers /\ l.order # None /\ order_user[l.order] = u
                 \/ u \in Merchants /\ store_merchant[l.store] = u
                 \/ u \in Riders /\ l.order # None /\ delivery_partner[l.order] = u

(* What the requester can see of a ticket. *)
PublicFace(t) ==
    [status |-> ticket[t].status, notes |-> ticket[t].notes,
     messages |-> {m \in messages : m.ticket = t /\ m.visibility = "public"}]

(* A change of what the requester sees is told exactly once: to the        *)
(* requester when staff made it, to the assigned administrator when the    *)
(* requester wrote.  Assignments, internal notes and retries tell nobody.  *)
VisibleChangesAreToldOnce ==
    [][\A t \in Existing :
          LET told(u) == notices'[t] = [version |-> ticket'[t].version, to |-> u]
              nobody == notices'[t] = notices[t]
              seen == PublicFace(t)' # PublicFace(t)
              wrote == \E m \in messages' \ messages :
                          m.ticket = t /\ m.author = ticket[t].user
          IN ticket[t].user \notin Admins =>
                /\ seen /\ ~wrote => told(ticket[t].user)
                /\ seen /\ wrote =>
                      IF ticket[t].assigned = None THEN nobody ELSE told(ticket[t].assigned)
                /\ ~seen => nobody]_vars
===============================================================================
