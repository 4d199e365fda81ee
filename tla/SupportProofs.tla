----------------------------- MODULE SupportProofs -----------------------------
(***************************************************************************)
(* Support tickets, for any number of tickets, requests, administrators    *)
(* and messages.                                                           *)
(***************************************************************************)
EXTENDS Support, TLAPS

Rows ==
    [status : TicketStatus, notes : Texts \cup {None}, assigned : Admins \cup {None}]
Pages ==
    [ticket : Tickets, version : 0..MaxVersion, row : Rows,
     seen : SUBSET SupportMessage, loaded : SUBSET Visibility]
Creations == [asked : Requests, ticket : Tickets \cup {None}]

RowsInv ==
    /\ ticket \in [Tickets -> SupportTicket \cup {None}]
    /\ messages \subseteq SupportMessage
    /\ \A m \in messages : m.ticket \in Existing
    /\ notices \in [Tickets -> [version : 0..MaxVersion, to : Users] \cup {None}]

(* Page g shows the row of its ticket, and the whole of the lists loaded. *)
UpToDate(g) ==
    /\ g.row = Row(g.ticket)
    /\ \A v \in g.loaded : Thread(g.ticket, v) \subseteq g.seen

(* A page is up to date as long as its version is. *)
PagesInv ==
    /\ view \in [Admins -> Pages \cup {None}]
    /\ \A a \in Admins :
          view[a] # None =>
             /\ view[a].ticket \in Existing
             /\ view[a].version <= ticket[view[a].ticket].version
             /\ view[a].version = ticket[view[a].ticket].version => UpToDate(view[a])

(* A request that waits has had its references checked; one that is answered *)
(* got a ticket with its key and its words; keys are unique.               *)
CreationsInv ==
    /\ create \in [Threads -> Creations \cup {None}]
    /\ \A th \in Threads :
          LET p == create[th].asked
              t == create[th].ticket
          IN create[th] # None =>
                /\ belongs_to_requester(p.user, p.refs) /\ references_agree(p.refs)
                /\ t # None =>
                      /\ t \in Existing
                      /\ ticket[t].user = p.user
                      /\ ticket[t].key = p.key
                      /\ ticket[t].text = p.text
    /\ \A t1, t2 \in Existing :
          /\ ticket[t1].user = ticket[t2].user
          /\ ticket[t1].key = ticket[t2].key
          /\ ticket[t1].key # None
          => t1 = t2

SupportInv == RowsInv /\ PagesInv /\ CreationsInv /\ LinkedContextBelongs

LEMMA InitSupport == Init => SupportInv
  BY DEF Init, SupportInv, RowsInv, PagesInv, CreationsInv, LinkedContextBelongs, Existing

LEMMA ExistingRows ==
    ASSUME RowsInv, NEW t \in Existing
    PROVE  t \in Tickets /\ ticket[t] \in SupportTicket /\ ticket[t] # None
  BY DEF RowsInv, Existing

(* references_agree and belongs_to_requester make linked a context of the  *)
(* requester's own.                                                        *)
LEMMA ContextBelongs ==
    ASSUME NEW u \in Users, NEW r \in References,
           belongs_to_requester(u, r), references_agree(r)
    PROVE  LET l == linked(r)
           IN /\ l \in References
              /\ l.delivery # None => l.delivery = l.order
              /\ l.order # None => l.store = order_store[l.order]
              /\ l.store # None =>
                    \/ u \in Admins
                    \/ u \in Customers /\ l.order # None /\ order_user[l.order] = u
                    \/ u \in Merchants /\ store_merchant[l.store] = u
                    \/ u \in Riders /\ l.order # None /\ delivery_partner[l.order] = u
  <1> USE SupportAssumption DEF References, linked, orders_named, stores_named
  <1> DEFINE l == linked(r)
  <1>1. /\ r.order \in Orders \cup {None} /\ r.delivery \in Orders \cup {None}
        /\ r.store \in Stores \cup {None}
    OBVIOUS
  <1>2. /\ l.order = (IF r.order # None THEN r.order ELSE r.delivery)
        /\ l.delivery = r.delivery
        /\ l.store = (IF r.store # None \/ l.order = None THEN r.store ELSE order_store[l.order])
    OBVIOUS
  <1>3. l \in References
    BY <1>1
  <1>4. l.delivery # None => l.delivery = l.order
    BY <1>2 DEF references_agree
  <1>5. l.order # None => l.order \in orders_named(r)
    BY <1>2
  <1>6. l.order # None => l.store = order_store[l.order]
    BY <1>2, <1>5 DEF references_agree
  <1>7. l.store # None => l.store \in stores_named(r)
    BY <1>2, <1>5, <1>6
  <1>8. orders_named(r) # {} => l.order # None
    BY <1>2
  <1>9. r.delivery # None => l.order = r.delivery
    BY <1>4, <1>2
  <1>10. orders_named(r) = {} /\ r.store = None => l.store = None
    BY <1>2, <1>5
  <1>11. l.store # None =>
                    \/ u \in Admins
                    \/ u \in Customers /\ l.order # None /\ order_user[l.order] = u
                    \/ u \in Merchants /\ store_merchant[l.store] = u
                    \/ u \in Riders /\ l.order # None /\ delivery_partner[l.order] = u
    <2> HIDE DEF linked, orders_named, stores_named, l
    <2> QED
      BY <1>5, <1>7, <1>8, <1>9, <1>10 DEF belongs_to_requester
  <1> QED
    BY <1>3, <1>4, <1>6, <1>11

(* A change of an existing ticket: it keeps what it was created with and     *)
(* gets a new version, so that every page of it is outdated.               *)
LEMMA ChangedTicket ==
    ASSUME SupportInv, NEW t \in Existing, NEW row \in SupportTicket,
           ticket' = [ticket EXCEPT ![t] = row],
           row.user = ticket[t].user, row.key = ticket[t].key,
           row.text = ticket[t].text, row.links = ticket[t].links,
           row.version = ticket[t].version + 1,
           NEW new \in SUBSET SupportMessage, \A m \in new : m.ticket = t,
           messages' = messages \cup new,
           notices' \in [Tickets -> [version : 0..MaxVersion, to : Users] \cup {None}],
           UNCHANGED <<create, view>>
    PROVE  SupportInv'
  <1> USE SupportAssumption, RowsAssumption DEF SupportInv
  <1>1. t \in Tickets /\ ticket[t] \in SupportTicket /\ ticket \in [Tickets -> SupportTicket \cup {None}]
    BY ExistingRows DEF RowsInv
  <1>2. row # None /\ ticket'[t] = row /\ \A x \in Tickets : x # t => ticket'[x] = ticket[x]
    BY <1>1
  <1>3. Existing' = Existing
    BY <1>1, <1>2 DEF Existing
  <1>4. RowsInv'
    BY <1>1, <1>2, <1>3 DEF RowsInv
  <1>5. PagesInv'
    <2> SUFFICES ASSUME NEW a \in Admins, view[a] # None
                 PROVE  /\ view[a].ticket \in Existing
                        /\ view[a].version <= ticket'[view[a].ticket].version
                        /\ view[a].version = ticket'[view[a].ticket].version =>
                              UpToDate(view[a])'
      BY <1>3 DEF PagesInv
    <2> DEFINE x == view[a].ticket
    <2>1. /\ x \in Existing /\ view[a].version \in Nat
          /\ view[a].version <= ticket[x].version
          /\ view[a].version = ticket[x].version => UpToDate(view[a])
      BY DEF PagesInv, Pages
    <2>2. ticket[t].version \in Nat
      BY <1>1 DEF SupportTicket
    <2>3. CASE x = t
      BY <1>2, <2>1, <2>2, <2>3
    <2>4. CASE x # t
      <3>1. x \in Tickets /\ ticket'[x] = ticket[x]
        BY <1>2, <2>1, <2>4 DEF Existing
      <3>2. \A v : Thread(x, v)' = Thread(x, v)
        BY <2>4 DEF Thread
      <3>3. Row(x)' = Row(x)
        BY <3>1 DEF Row
      <3>4. UpToDate(view[a])' <=> UpToDate(view[a])
        BY <3>2, <3>3 DEF UpToDate
      <3> QED
        BY <2>1, <3>1, <3>4
    <2> QED
      BY <2>3, <2>4
  <1>6. CreationsInv'
    <2>1. \A x \in Existing : /\ x \in Tickets
                              /\ ticket'[x].user = ticket[x].user
                              /\ ticket'[x].key = ticket[x].key
                              /\ ticket'[x].text = ticket[x].text
      BY <1>2 DEF Existing
    <2> QED
      BY <1>3, <2>1 DEF CreationsInv
  <1>7. LinkedContextBelongs'
    BY <1>1, <1>2, <1>3 DEF LinkedContextBelongs, Existing
  <1> QED
    BY <1>4, <1>5, <1>6, <1>7

(* A request is answered, or remembered, and no row changes. *)
LEMMA AnsweredCreation ==
    ASSUME SupportInv, NEW th \in Threads, NEW p \in Requests,
           belongs_to_requester(p.user, p.refs), references_agree(p.refs),
           \/ replayed_ticket_or_conflict(th, p)
           \/ Answer(th, p, None) /\ UNCHANGED <<ticket, messages, notices, view>>
    PROVE  SupportInv'
  <1>0. UNCHANGED <<ticket, messages, notices, view>>
    BY DEF replayed_ticket_or_conflict
  <1>1. RowsInv' /\ PagesInv' /\ LinkedContextBelongs' /\ Existing' = Existing
    BY <1>0 DEF SupportInv, RowsInv, PagesInv, LinkedContextBelongs, Existing, UpToDate, Row,
                  Thread
  <1>2. \/ create' = [create EXCEPT ![th] = None]
        \/ \E t \in existing_ticket_replay(p) \cup {None} :
              /\ create' = [create EXCEPT ![th] = [asked |-> p, ticket |-> t]]
              /\ t # None => ticket[t].text = p.text
    BY DEF replayed_ticket_or_conflict, Answer, ticket_replay_matches
  <1>3. CreationsInv'
    <2>1. CASE create' = [create EXCEPT ![th] = None]
      BY <1>0, <1>1, <2>1 DEF SupportInv, CreationsInv
    <2>2. ASSUME NEW t \in existing_ticket_replay(p) \cup {None},
                 create' = [create EXCEPT ![th] = [asked |-> p, ticket |-> t]],
                 t # None => ticket[t].text = p.text
          PROVE  CreationsInv'
      <3>1. t # None => t \in Existing /\ ticket[t].user = p.user /\ ticket[t].key = p.key
        BY <2>2 DEF existing_ticket_replay
      <3>2. [asked |-> p, ticket |-> t] \in Creations
        BY <3>1 DEF Creations, Existing
      <3> QED
        BY <1>0, <1>1, <2>2, <3>1, <3>2 DEF SupportInv, CreationsInv
    <2> QED
      BY <1>2, <2>1, <2>2
  <1> QED
    BY <1>1, <1>3 DEF SupportInv

(* The insert: the ticket is new, its key is not taken, its context is the *)
(* one checked when the request was looked up.                             *)
LEMMA InsertedTicket ==
    ASSUME SupportInv, NEW th \in Threads, create_ticket_inserts(th)
    PROVE  SupportInv'
  <1> USE SupportAssumption, RowsAssumption, RequestsAssumption DEF SupportInv
  <1> DEFINE p == create[th].asked
             row == [user |-> p.user, key |-> p.key, text |-> p.text,
                     links |-> linked(p.refs), status |-> "open", notes |-> None,
                     assigned |-> None, version |-> 0, resolved |-> FALSE]
  <1>1. /\ create \in [Threads -> Creations \cup {None}]
        /\ create[th] # None /\ p \in Requests
        /\ belongs_to_requester(p.user, p.refs) /\ references_agree(p.refs)
    BY DEF create_ticket_inserts, Waiting, CreationsInv, Creations
  <1>2. /\ p \in TicketCreate /\ p.user \in Users /\ p.key \in Keys \cup {None}
        /\ p.text \in Texts /\ p.refs \in References
    BY <1>1 DEF TicketCreate
  <1>3. CASE replayed_ticket_or_conflict(th, p)
    <2> HIDE DEF p, SupportInv
    <2> QED
      BY <1>1, <1>3, AnsweredCreation, Zenon
  <1>4. ASSUME existing_ticket_replay(p) = {},
               NEW t \in Tickets \ Existing,
               ticket' = [ticket EXCEPT ![t] = row],
               create' = [create EXCEPT ![th] = [asked |-> p, ticket |-> t]],
               UNCHANGED <<messages, notices, view>>
        PROVE  SupportInv'
    <2>1. linked(p.refs) \in References
      BY <1>1, <1>2, ContextBelongs
    <2>2. row \in SupportTicket
      BY <1>2, <2>1 DEF SupportTicket, TicketStatus
    <2>3. /\ row # None /\ ticket \in [Tickets -> SupportTicket \cup {None}]
          /\ ticket'[t] = row /\ \A x \in Tickets : x # t => ticket'[x] = ticket[x]
      BY <1>4, <2>2 DEF RowsInv
    <2> HIDE DEF row
    <2>4. /\ row.user = p.user /\ row.key = p.key /\ row.text = p.text
          /\ row.links = linked(p.refs)
      BY DEF row
    <2>5. /\ Existing' = Existing \cup {t}
          /\ \A x \in Existing : x \in Tickets /\ ticket'[x] = ticket[x]
      BY <1>4, <2>3 DEF Existing
    <2>6. RowsInv'
      BY <1>4, <2>2, <2>3, <2>5 DEF RowsInv
    <2>7. PagesInv'
      <3>1. \A x \in Existing : Row(x)' = Row(x) /\ \A v : Thread(x, v)' = Thread(x, v)
        BY <1>4, <2>5 DEF Row, Thread
      <3>2. ASSUME NEW g, g.ticket \in Existing PROVE UpToDate(g)' <=> UpToDate(g)
        BY <3>1, <3>2 DEF UpToDate
      <3>3. \A a \in Admins : view'[a] = view[a]
        BY <1>4
      <3>4. ASSUME NEW a \in Admins, view'[a] # None
            PROVE  /\ view'[a].ticket \in Existing'
                   /\ view'[a].version <= ticket'[view'[a].ticket].version
                   /\ view'[a].version = ticket'[view'[a].ticket].version => UpToDate(view[a])'
        BY <2>5, <3>2, <3>3, <3>4 DEF PagesInv
      <3> QED
        BY <1>4, <3>4 DEF PagesInv
    <2>8. CreationsInv'
      <3>1. create' \in [Threads -> Creations \cup {None}]
        BY <1>1, <1>4 DEF Creations
      <3>2. ASSUME NEW x \in Threads, create'[x] # None
            PROVE  LET q == create'[x].asked
                       y == create'[x].ticket
                   IN /\ belongs_to_requester(q.user, q.refs) /\ references_agree(q.refs)
                      /\ y # None =>
                            /\ y \in Existing'
                            /\ ticket'[y].user = q.user
                            /\ ticket'[y].key = q.key
                            /\ ticket'[y].text = q.text
        <4>1. CASE x = th
          <5>1. create'[x].asked = p /\ create'[x].ticket = t
            BY <1>1, <1>4, <4>1
          <5> HIDE DEF p
          <5> QED
            BY <1>1, <2>3, <2>4, <2>5, <5>1
        <4>2. CASE x # th
          <5>1. create'[x] = create[x]
            BY <1>1, <1>4, <4>2
          <5> QED
            BY <2>5, <3>2, <5>1 DEF CreationsInv
        <4> QED
          BY <4>1, <4>2
      <3>3. \A x \in Existing :
               p.key # None => ~(ticket[x].user = p.user /\ ticket[x].key = p.key)
        BY <1>4 DEF existing_ticket_replay
      <3>4. \A t1, t2 \in Existing' :
               /\ ticket'[t1].user = ticket'[t2].user
               /\ ticket'[t1].key = ticket'[t2].key
               /\ ticket'[t1].key # None
               => t1 = t2
        <4> HIDE DEF p
        <4> QED
          BY <2>3, <2>4, <2>5, <3>3 DEF CreationsInv
      <3> QED
        BY <3>1, <3>2, <3>4 DEF CreationsInv, belongs_to_requester, references_agree,
              orders_named, stores_named
    <2>9. LinkedContextBelongs'
      <3> SUFFICES ASSUME NEW x \in Existing'
                   PROVE  LET l == ticket'[x].links
                              u == ticket'[x].user
                          IN /\ l.delivery # None => l.delivery = l.order
                             /\ l.order # None => l.store = order_store[l.order]
                             /\ l.store # None =>
                                   \/ u \in Admins
                                   \/ u \in Customers /\ l.order # None /\ order_user[l.order] = u
                                   \/ u \in Merchants /\ store_merchant[l.store] = u
                                   \/ u \in Riders /\ l.order # None /\ delivery_partner[l.order] = u
        BY DEF LinkedContextBelongs
      <3>1. CASE x = t
        <4> HIDE DEF p
        <4> QED
          BY <1>1, <1>2, <2>3, <2>4, <3>1, ContextBelongs
      <3>2. CASE x # t
        BY <2>5, <3>2 DEF LinkedContextBelongs
      <3> QED
        BY <3>1, <3>2
    <2> QED
      BY <2>6, <2>7, <2>8, <2>9
  <1> QED
    BY <1>3, <1>4 DEF create_ticket_inserts, Answer

(* A new page of an administrator's, of the ticket as it is or of an older  *)
(* version.                                                                *)
LEMMA NewPage ==
    ASSUME SupportInv, NEW a \in Admins, NEW g \in Pages, g.ticket \in Existing,
           g.version <= ticket[g.ticket].version,
           g.version = ticket[g.ticket].version => UpToDate(g),
           view' = [view EXCEPT ![a] = g], UNCHANGED <<ticket, messages, notices, create>>
    PROVE  SupportInv'
  <1> USE DEF SupportInv
  <1>1. RowsInv' /\ LinkedContextBelongs' /\ Existing' = Existing
    BY DEF RowsInv, LinkedContextBelongs, Existing
  <1>2. CreationsInv'
    BY <1>1 DEF CreationsInv
  <1>3. \A x \in Admins : view'[x] = IF x = a THEN g ELSE view[x]
    BY DEF PagesInv
  <1>4. ASSUME NEW x \in Admins, view'[x] # None
        PROVE  /\ view'[x].ticket \in Existing'
               /\ view'[x].version <= ticket'[view'[x].ticket].version
               /\ view'[x].version = ticket'[view'[x].ticket].version => UpToDate(view[x])'
    <2>1. CASE x = a
      BY <1>1, <1>3, <2>1 DEF UpToDate, Row, Thread
    <2>2. CASE x # a
      BY <1>1, <1>3, <1>4, <2>2 DEF PagesInv, UpToDate, Row, Thread
    <2> QED
      BY <2>1, <2>2
  <1>5. view' \in [Admins -> Pages \cup {None}]
    BY DEF PagesInv
  <1>6. PagesInv'
    BY <1>4, <1>5 DEF PagesInv
  <1> QED
    BY <1>1, <1>2, <1>6

(* The row is shown as it is; no list has been loaded since. *)
LEMMA ReadTicket ==
    ASSUME SupportInv, NEW a \in Admins, NEW t \in Existing, admin_ticket(a, t)
    PROVE  SupportInv'
  <1> DEFINE g == [ticket |-> t, version |-> ticket[t].version, row |-> Row(t),
                   seen |-> IF shows(a, t) THEN view[a].seen ELSE {}, loaded |-> {}]
  <1>1. view' = [view EXCEPT ![a] = g] /\ UNCHANGED <<ticket, messages, notices, create>>
    BY DEF admin_ticket
  <1>2. t \in Tickets /\ ticket[t] \in SupportTicket
    BY ExistingRows DEF SupportInv
  <1>3. Row(t) \in Rows
    BY <1>2 DEF Row, Rows, SupportTicket
  <1>4. (IF shows(a, t) THEN view[a].seen ELSE {}) \in SUBSET SupportMessage
    BY DEF SupportInv, PagesInv, Pages, shows
  <1>5. g \in Pages
    BY <1>2, <1>3, <1>4 DEF Pages, SupportTicket
  <1>6. ticket[t].version \in Nat
    BY <1>2, SupportAssumption DEF SupportTicket
  <1>7. /\ g.ticket = t /\ g.version = ticket[t].version
        /\ g.row = Row(t) /\ g.loaded = {}
    OBVIOUS
  <1> HIDE DEF g
  <1>8. UpToDate(g)
    BY <1>7 DEF UpToDate
  <1>9. g.version <= ticket[g.ticket].version
    BY <1>6, <1>7
  <1> QED
    BY <1>1, <1>5, <1>7, <1>8, <1>9, NewPage

(* More messages of one list: it is loaded if all of it is on the screen. *)
LEMMA ReadMessages ==
    ASSUME SupportInv, NEW a \in Admins, NEW t \in Existing, NEW v \in Visibility,
           admin_ticket_messages(a, t, v)
    PROVE  SupportInv'
  <1>1. PICK new \in SUBSET Thread(t, v) :
            view' = [view EXCEPT
                ![a].seen = view[a].seen \cup new,
                ![a].loaded = IF Thread(t, v) \subseteq view[a].seen \cup new
                              THEN @ \cup {v} ELSE @]
    BY DEF admin_ticket_messages
  <1> DEFINE seen == view[a].seen \cup new
             loaded == IF Thread(t, v) \subseteq seen THEN view[a].loaded \cup {v}
                                                      ELSE view[a].loaded
             g == [view[a] EXCEPT !.seen = seen, !.loaded = loaded]
  <1>2. /\ view[a] \in Pages /\ view[a].ticket = t
        /\ view \in [Admins -> Pages \cup {None}]
        /\ view[a].version <= ticket[t].version
        /\ view[a].version = ticket[t].version => UpToDate(view[a])
    BY DEF admin_ticket_messages, shows, SupportInv, PagesInv
  <1>3. seen \in SUBSET SupportMessage /\ loaded \in SUBSET Visibility
    BY <1>2 DEF Pages, Thread, SupportInv, RowsInv
  <1>4. view' = [view EXCEPT ![a] = g]
    BY <1>1, <1>2 DEF Pages
  <1>5. /\ g \in Pages /\ g.ticket = t /\ g.version = view[a].version
        /\ g.row = view[a].row /\ g.seen = seen /\ g.loaded = loaded
    BY <1>2, <1>3 DEF Pages
  <1>6. \A w \in loaded : w \in view[a].loaded \/ (w = v /\ Thread(t, v) \subseteq seen)
    OBVIOUS
  <1>7. view[a].seen \subseteq seen
    OBVIOUS
  <1> HIDE DEF g, seen, loaded
  <1>8. UpToDate(view[a]) => UpToDate(g)
    BY <1>2, <1>5, <1>6, <1>7 DEF UpToDate
  <1>9. UNCHANGED <<ticket, messages, notices, create>>
    BY DEF admin_ticket_messages
  <1> QED
    BY <1>2, <1>4, <1>5, <1>8, <1>9, NewPage

(* What enqueue_notification stores, once the new row is known. *)
LEMMA TypedNotice ==
    ASSUME RowsInv, NEW t \in Tickets, NEW row \in SupportTicket, NEW u \in Users,
           ticket' = [ticket EXCEPT ![t] = row],
           enqueue_notification(t, u)
    PROVE  notices' \in [Tickets -> [version : 0..MaxVersion, to : Users] \cup {None}]
  <1>1. ticket'[t] = row /\ row.version \in 0..MaxVersion
    BY DEF RowsInv, SupportTicket
  <1> QED
    BY <1>1 DEF RowsInv, enqueue_notification

(* Every operation on the conversation is one message and one new version. *)
LEMMA PostedMessage ==
    ASSUME SupportInv, NEW t \in Existing, NEW u \in Users, NEW k \in Keys,
           NEW visibility \in Visibility, NEW body \in Texts,
           NEW new_status \in TicketStatus, NEW to \in Users,
           add_message(t, u, k, visibility, body, new_status),
           UNCHANGED notices \/ enqueue_notification(t, to)
    PROVE  SupportInv'
  <1> DEFINE row == [ticket[t] EXCEPT !.version = @ + 1, !.status = new_status]
             m == [ticket |-> t, key |-> k, author |-> u, visibility |-> visibility, body |-> body]
  <1>1. /\ t \in Tickets /\ ticket[t] \in SupportTicket /\ RowsInv
        /\ ticket \in [Tickets -> SupportTicket \cup {None}]
    BY ExistingRows DEF SupportInv, RowsInv
  <1>2. /\ ticket[t].version < MaxVersion /\ messages' = messages \cup {m}
        /\ UNCHANGED <<create, view>>
    BY DEF add_message
  <1>v. ticket[t].version + 1 \in 0..MaxVersion
    BY <1>1, <1>2, SupportAssumption DEF SupportTicket
  <1>3. ticket' = [ticket EXCEPT ![t] = row]
    BY <1>1 DEF add_message, SupportTicket
  <1>4. /\ row \in SupportTicket
        /\ row.user = ticket[t].user /\ row.key = ticket[t].key
        /\ row.text = ticket[t].text /\ row.links = ticket[t].links
        /\ row.version = ticket[t].version + 1
    BY <1>1, <1>v DEF SupportTicket
  <1>5. {m} \in SUBSET SupportMessage /\ \A x \in {m} : x.ticket = t
    BY <1>1 DEF SupportMessage
  <1> HIDE DEF row, m
  <1>6. notices' \in [Tickets -> [version : 0..MaxVersion, to : Users] \cup {None}]
    <2>1. CASE UNCHANGED notices
      BY <1>1, <2>1 DEF RowsInv
    <2>2. CASE enqueue_notification(t, to)
      BY <1>1, <1>3, <1>4, <2>2, TypedNotice
    <2> QED
      BY <2>1, <2>2
  <1> QED
    BY <1>2, <1>3, <1>4, <1>5, <1>6, ChangedTicket

LEMMA UpdatedTicket ==
    ASSUME SupportInv, NEW t \in Existing, NEW a \in Admins, NEW s \in TicketStatus,
           NEW n \in Texts \cup {None, Keep}, NEW sends_version \in BOOLEAN,
           update_ticket(a, t, s, n, sends_version)
    PROVE  SupportInv'
  <1> DEFINE notes == IF n = Keep THEN ticket[t].notes ELSE n
             row == [ticket[t] EXCEPT !.status = s, !.notes = notes, !.version = @ + 1,
                                      !.resolved = resolved_at(s)]
  <1>1. /\ t \in Tickets /\ ticket[t] \in SupportTicket /\ RowsInv
        /\ ticket \in [Tickets -> SupportTicket \cup {None}]
        /\ ticket[t].user \in Users
    BY ExistingRows DEF SupportInv, RowsInv, SupportTicket
  <1>2. /\ ticket[t].version < MaxVersion /\ messages' = messages
        /\ enqueue_notification(t, ticket[t].user)
        /\ UNCHANGED <<create, view>>
    BY DEF update_ticket
  <1>v. ticket[t].version + 1 \in 0..MaxVersion
    BY <1>1, <1>2, SupportAssumption DEF SupportTicket
  <1>3. ticket' = [ticket EXCEPT ![t] = row]
    BY <1>1 DEF update_ticket, SupportTicket
  <1>4. notes \in Texts \cup {None} /\ resolved_at(s) \in BOOLEAN
    BY <1>1 DEF SupportTicket, resolved_at
  <1> HIDE DEF notes
  <1>5. /\ row \in SupportTicket
        /\ row.user = ticket[t].user /\ row.key = ticket[t].key
        /\ row.text = ticket[t].text /\ row.links = ticket[t].links
        /\ row.version = ticket[t].version + 1
    BY <1>1, <1>v, <1>4 DEF SupportTicket
  <1> HIDE DEF row
  <1>6. notices' \in [Tickets -> [version : 0..MaxVersion, to : Users] \cup {None}]
    BY <1>1, <1>2, <1>3, <1>5, TypedNotice
  <1>e. {} \in SUBSET SupportMessage /\ (\A m \in {} : m.ticket = t) /\ messages' = messages \cup {}
    BY <1>2
  <1> QED
    BY <1>2, <1>3, <1>5, <1>6, <1>e, ChangedTicket

LEMMA AssignedTicket ==
    ASSUME SupportInv, NEW t \in Existing, NEW a \in Admins, NEW assignee \in assignable,
           assign_ticket(a, t, assignee)
    PROVE  SupportInv'
  <1> DEFINE row == [ticket[t] EXCEPT !.assigned = assignee, !.version = @ + 1]
  <1>1. /\ t \in Tickets /\ ticket[t] \in SupportTicket /\ RowsInv
        /\ ticket \in [Tickets -> SupportTicket \cup {None}]
    BY ExistingRows DEF SupportInv, RowsInv
  <1>2. /\ ticket[t].version < MaxVersion /\ messages' = messages
        /\ UNCHANGED <<create, view, notices>>
    BY DEF assign_ticket
  <1>v. ticket[t].version + 1 \in 0..MaxVersion
    BY <1>1, <1>2, SupportAssumption DEF SupportTicket
  <1>3. ticket' = [ticket EXCEPT ![t] = row]
    BY <1>1 DEF assign_ticket, SupportTicket
  <1>4. /\ row \in SupportTicket
        /\ row.user = ticket[t].user /\ row.key = ticket[t].key
        /\ row.text = ticket[t].text /\ row.links = ticket[t].links
        /\ row.version = ticket[t].version + 1
    BY <1>1, <1>v DEF SupportTicket, assignable
  <1> HIDE DEF row
  <1>5. notices' \in [Tickets -> [version : 0..MaxVersion, to : Users] \cup {None}]
    BY <1>1, <1>2 DEF RowsInv
  <1>e. {} \in SUBSET SupportMessage /\ (\A m \in {} : m.ticket = t) /\ messages' = messages \cup {}
    BY <1>2
  <1> QED
    BY <1>2, <1>3, <1>4, <1>5, <1>e, ChangedTicket

LEMMA StepSupport == SupportInv /\ [Next]_vars => SupportInv'
  <1> SUFFICES ASSUME SupportInv, [Next]_vars PROVE SupportInv'
    OBVIOUS
  <1>0. \A t \in Existing :
           /\ ticket[t].user \in Users /\ ticket[t].status \in TicketStatus
           /\ ticket[t].assigned # None => ticket[t].assigned \in Users
    BY ExistingRows DEF SupportInv, SupportTicket, Users
  <1>1. ASSUME NEW th \in Threads, NEW p \in Requests, create_ticket_looks_up(th, p)
        PROVE  SupportInv'
    <2>1. /\ belongs_to_requester(p.user, p.refs) /\ references_agree(p.refs)
          /\ \/ replayed_ticket_or_conflict(th, p)
             \/ Answer(th, p, None) /\ UNCHANGED <<ticket, messages, notices, view>>
      BY <1>1, Zenon DEF create_ticket_looks_up
    <2> QED
      BY <2>1, AnsweredCreation, Zenon
  <1>2. ASSUME NEW th \in Threads, create_ticket_inserts(th) PROVE SupportInv'
    BY <1>2, InsertedTicket
  <1>3. ASSUME NEW t \in Existing, NEW k \in Keys, NEW body \in Texts,
               add_requester_message(t, k, body)
        PROVE  SupportInv'
    <2> DEFINE to == IF ticket[t].assigned # None THEN ticket[t].assigned ELSE ticket[t].user
               st == IF ticket[t].status = "waiting_customer" THEN "in_progress"
                                                              ELSE ticket[t].status
    <2>1. to \in Users /\ st \in TicketStatus
      BY <1>0 DEF TicketStatus
    <2>2. /\ add_message(t, ticket[t].user, k, "public", body, st)
          /\ UNCHANGED notices \/ enqueue_notification(t, to)
      BY <1>3 DEF add_requester_message
    <2> HIDE DEF to, st
    <2> QED
      BY <1>0, <2>1, <2>2, PostedMessage DEF Visibility
  <1>4. ASSUME NEW t \in Existing, NEW a \in Admins, NEW k \in Keys, NEW body \in Texts,
               add_admin_public_message(a, t, k, body) \/ add_internal_note(a, t, k, body)
        PROVE  SupportInv'
    <2>1. a \in Users
      BY DEF Users
    <2>2. CASE add_admin_public_message(a, t, k, body)
      BY <1>0, <2>1, <2>2, PostedMessage DEF add_admin_public_message, Visibility
    <2>3. CASE add_internal_note(a, t, k, body)
      BY <1>0, <2>1, <2>3, PostedMessage DEF add_internal_note, Visibility
    <2> QED
      BY <1>4, <2>2, <2>3
  <1>5. ASSUME NEW t \in Existing, NEW a \in Admins, AdminStep(a, t) PROVE SupportInv'
    BY <1>4, <1>5, ReadTicket, ReadMessages, UpdatedTicket, AssignedTicket DEF AdminStep
  <1>6. CASE UNCHANGED vars
    BY <1>6 DEF vars, SupportInv, RowsInv, PagesInv, CreationsInv, LinkedContextBelongs,
                Existing, UpToDate, Row, Thread
  <1> QED
    BY <1>1, <1>2, <1>3, <1>5, <1>6 DEF Next

(* The inductive invariant: rows are typed, pages outdate, keys are unique *)
(* and a linked context belongs to its requester.                          *)
THEOREM SupportInvariant == Spec => []SupportInv
  BY InitSupport, StepSupport, PTL DEF Spec

(* Tickets, messages, notices, requests and screens keep their types under *)
(* every handler of routes/support.py.                                     *)
THEOREM SupportTypeCorrect == Spec => []SupportTypeOK
  <1>1. SupportInv => SupportTypeOK
    <2> SUFFICES ASSUME SupportInv PROVE SupportTypeOK
      OBVIOUS
    <2>1. \A th \in Threads :
             create[th] # None =>
                create[th].asked \in Requests /\ create[th].ticket \in Tickets \cup {None}
      BY DEF SupportInv, CreationsInv, Creations
    <2>2. \A a \in Admins :
             view[a] # None => view[a].ticket \in Existing /\ view[a].version \in 0..MaxVersion
      BY DEF SupportInv, PagesInv, Pages
    <2> QED
      BY <2>1, <2>2 DEF SupportInv, RowsInv, SupportTypeOK
  <1> QED
    BY <1>1, SupportInvariant, PTL

(* Optimistic locking: as long as _check_version accepts a version, the page *)
(* shows the ticket's row as it is, and so are the lists of messages that  *)
(* were loaded after it.                                                   *)
THEOREM AcceptedVersionsAreUpToDate == Spec => []AcceptedVersionIsUpToDate
  <1>1. SupportInv => AcceptedVersionIsUpToDate
    BY DEF SupportInv, PagesInv, UpToDate, AcceptedVersionIsUpToDate, check_version, shows
  <1> QED
    BY <1>1, SupportInvariant, PTL

(* Retries of create_ticket with one idempotency key, concurrent or late,  *)
(* are answered with one ticket, the requester's own.                      *)
THEOREM RetriesShareOneTicket == Spec => []RetriesGetOneTicket
  <1>1. SupportInv => RetriesGetOneTicket
    BY DEF SupportInv, CreationsInv, RetriesGetOneTicket
  <1> QED
    BY <1>1, SupportInvariant, PTL

(* What _validate_references accepted stays one context of the requester's: *)
(* the ticket's delivery and store are its order's.                        *)
THEOREM ContextsBelong == Spec => []LinkedContextBelongs
  <1>1. SupportInv => LinkedContextBelongs
    BY DEF SupportInv
  <1> QED
    BY <1>1, SupportInvariant, PTL

-------------------------------------------------------------------------------
(* Who is told of a change, one ticket at a time. *)

PublicMessages(t) == {m \in messages : m.ticket = t /\ m.visibility = "public"}
Told(t, u) == notices'[t] = [version |-> ticket'[t].version, to |-> u]
Seen(t) == PublicFace(t)' # PublicFace(t)
Wrote(t) == \E m \in messages' \ messages : m.ticket = t /\ m.author = ticket[t].user

ToldOnce(t) ==
    ticket[t].user \notin Admins =>
       /\ Seen(t) /\ ~Wrote(t) => Told(t, ticket[t].user)
       /\ Seen(t) /\ Wrote(t) => IF ticket[t].assigned = None THEN notices'[t] = notices[t]
                                                    ELSE Told(t, ticket[t].assigned)
       /\ ~Seen(t) => notices'[t] = notices[t]

LEMMA WhatIsSeen ==
    ASSUME NEW t
    PROVE  Seen(t) <=> \/ ticket'[t].status # ticket[t].status
                       \/ ticket'[t].notes # ticket[t].notes
                       \/ PublicMessages(t)' # PublicMessages(t)
  BY DEF Seen, PublicFace, PublicMessages

(* A ticket a step says nothing about. *)
LEMMA QuietTicket ==
    ASSUME NEW t, ticket'[t] = ticket[t], notices'[t] = notices[t],
           \A m : m.ticket = t => (m \in messages' <=> m \in messages)
    PROVE  ToldOnce(t)
  <1>1. PublicMessages(t)' = PublicMessages(t)
    BY DEF PublicMessages
  <1>2. ~Seen(t)
    BY <1>1, WhatIsSeen
  <1> QED
    BY <1>2 DEF ToldOnce

(* A posted message belongs to its own ticket and is not one that was there: *)
(* a retry with the same key is answered before this.                      *)
LEMMA NewMessage ==
    ASSUME SupportInv, NEW t \in Existing, NEW u, NEW k, NEW visibility, NEW body,
           NEW new_status, add_message(t, u, k, visibility, body, new_status)
    PROVE  \E m : /\ messages' = messages \cup {m} /\ m \notin messages
                  /\ m.ticket = t /\ m.author = u /\ m.visibility = visibility
                  /\ ticket'[t].status = new_status
                  /\ ticket'[t].notes = ticket[t].notes
                  /\ \A x \in Existing : x # t => ticket'[x] = ticket[x]
  <1> DEFINE m == [ticket |-> t, key |-> k, author |-> u, visibility |-> visibility, body |-> body]
  <1>1. m.ticket = t /\ m.author = u /\ m.visibility = visibility /\ m.key = k
    OBVIOUS
  <1>2. messages' = messages \cup {m}
    BY DEF add_message
  <1>3. m \notin messages
    BY <1>1 DEF add_message, message_is_new
  <1>4. /\ ticket[t] \in SupportTicket /\ t \in Tickets /\ Existing \subseteq Tickets
        /\ ticket \in [Tickets -> SupportTicket \cup {None}]
    BY ExistingRows DEF SupportInv, RowsInv, Existing
  <1>5. /\ ticket'[t].status = new_status /\ ticket'[t].notes = ticket[t].notes
        /\ \A x \in Existing : x # t => ticket'[x] = ticket[x]
    BY <1>4 DEF add_message, SupportTicket
  <1> HIDE DEF m
  <1> QED
    BY <1>1, <1>2, <1>3, <1>5

LEMMA OtherNotices ==
    ASSUME SupportInv, NEW t \in Existing, NEW u,
           UNCHANGED notices \/ enqueue_notification(t, u)
    PROVE  /\ \A x \in Existing : x # t => notices'[x] = notices[x]
           /\ enqueue_notification(t, u) => Told(t, u)
  BY DEF SupportInv, RowsInv, Existing, enqueue_notification, Told

(* A public message is seen; told is who did not write it. *)
LEMMA PublicMessageTold ==
    ASSUME SupportInv, NEW t \in Existing, NEW u, NEW k, NEW body, NEW new_status,
           add_message(t, u, k, "public", body, new_status), NEW to,
           UNCHANGED notices \/ enqueue_notification(t, to),
           u = ticket[t].user \/ u \in Admins,
           u = ticket[t].user =>
              IF ticket[t].assigned = None THEN UNCHANGED notices
              ELSE enqueue_notification(t, to) /\ to = ticket[t].assigned,
           u \in Admins => enqueue_notification(t, to) /\ to = ticket[t].user
    PROVE  \A x \in Existing : ToldOnce(x)
  <1>1. PICK m : /\ messages' = messages \cup {m} /\ m \notin messages
                 /\ m.ticket = t /\ m.author = u /\ m.visibility = "public"
                 /\ \A x \in Existing : x # t => ticket'[x] = ticket[x]
    BY NewMessage
  <1>2. /\ \A x \in Existing : x # t => notices'[x] = notices[x]
        /\ enqueue_notification(t, to) => Told(t, to)
    BY OtherNotices
  <1>3. ASSUME NEW x \in Existing, x # t PROVE ToldOnce(x)
    BY <1>1, <1>2, <1>3, QuietTicket
  <1>4. ToldOnce(t)
    <2>1. m \in PublicMessages(t)' /\ m \notin PublicMessages(t)
      BY <1>1 DEF PublicMessages
    <2>2. Seen(t)
      BY <2>1, WhatIsSeen
    <2>3. Wrote(t) <=> u = ticket[t].user
      BY <1>1 DEF Wrote
    <2> QED
      BY <1>2, <2>2, <2>3 DEF ToldOnce
  <1> QED
    BY <1>3, <1>4

LEMMA InternalNoteTold ==
    ASSUME SupportInv, NEW t \in Existing, NEW a, NEW k, NEW body, add_internal_note(a, t, k, body)
    PROVE  \A x \in Existing : ToldOnce(x)
  <1>1. UNCHANGED notices
    BY DEF add_internal_note
  <1>2. PICK m : /\ messages' = messages \cup {m}
                 /\ m.ticket = t /\ m.visibility = "internal"
                 /\ ticket'[t].status = ticket[t].status
                 /\ ticket'[t].notes = ticket[t].notes
                 /\ \A x \in Existing : x # t => ticket'[x] = ticket[x]
    BY NewMessage DEF add_internal_note
  <1>3. ASSUME NEW x \in Existing, x # t PROVE ToldOnce(x)
    BY <1>1, <1>2, <1>3, QuietTicket
  <1>4. PublicMessages(t)' = PublicMessages(t)
    BY <1>2 DEF PublicMessages
  <1>5. ~Seen(t)
    BY <1>2, <1>4, WhatIsSeen
  <1> QED
    BY <1>1, <1>3, <1>5 DEF ToldOnce

LEMMA UpdateTold ==
    ASSUME SupportInv, NEW t \in Existing, NEW a, NEW s, NEW n, NEW sends_version,
           update_ticket(a, t, s, n, sends_version)
    PROVE  \A x \in Existing : ToldOnce(x)
  <1>1. UNCHANGED messages /\ enqueue_notification(t, ticket[t].user)
    BY DEF update_ticket
  <1>2. /\ ticket[t] \in SupportTicket /\ t \in Tickets /\ Existing \subseteq Tickets
        /\ ticket \in [Tickets -> SupportTicket \cup {None}]
    BY ExistingRows DEF SupportInv, RowsInv, Existing
  <1>3. /\ \/ ticket'[t].status # ticket[t].status
           \/ ticket'[t].notes # ticket[t].notes
        /\ \A x \in Existing : x # t => ticket'[x] = ticket[x]
    BY <1>2 DEF update_ticket, SupportTicket
  <1>4. /\ \A x \in Existing : x # t => notices'[x] = notices[x]
        /\ Told(t, ticket[t].user)
    BY <1>1, OtherNotices
  <1>5. ASSUME NEW x \in Existing, x # t PROVE ToldOnce(x)
    BY <1>1, <1>3, <1>4, <1>5, QuietTicket
  <1>6. Seen(t) /\ ~Wrote(t)
    BY <1>1, <1>3, WhatIsSeen DEF Wrote
  <1> QED
    BY <1>4, <1>5, <1>6 DEF ToldOnce

LEMMA AssignTold ==
    ASSUME SupportInv, NEW t \in Existing, NEW a, NEW assignee, assign_ticket(a, t, assignee)
    PROVE  \A x \in Existing : ToldOnce(x)
  <1>1. UNCHANGED <<messages, notices>>
    BY DEF assign_ticket
  <1>2. /\ ticket[t] \in SupportTicket /\ t \in Tickets /\ Existing \subseteq Tickets
        /\ ticket \in [Tickets -> SupportTicket \cup {None}]
    BY ExistingRows DEF SupportInv, RowsInv, Existing
  <1>3. /\ ticket'[t].status = ticket[t].status /\ ticket'[t].notes = ticket[t].notes
        /\ \A x \in Existing : x # t => ticket'[x] = ticket[x]
    BY <1>2 DEF assign_ticket, SupportTicket
  <1>4. \A x : PublicMessages(x)' = PublicMessages(x)
    BY <1>1 DEF PublicMessages
  <1>5. \A x \in Existing : ~Seen(x)
    BY <1>3, <1>4, WhatIsSeen
  <1> QED
    BY <1>1, <1>5 DEF ToldOnce

LEMMA CreationTold ==
    ASSUME SupportInv, NEW th \in Threads,
           (\E p \in Requests : create_ticket_looks_up(th, p)) \/ create_ticket_inserts(th)
    PROVE  \A x \in Existing : ToldOnce(x)
  <1>1. UNCHANGED <<messages, notices>>
    BY DEF create_ticket_looks_up, create_ticket_inserts, replayed_ticket_or_conflict
  <1>2. \A x \in Existing : ticket'[x] = ticket[x]
    <2>1. ticket \in [Tickets -> SupportTicket \cup {None}]
      BY DEF SupportInv, RowsInv
    <2>2. CASE UNCHANGED ticket
      BY <2>2
    <2>3. CASE \E t \in Tickets \ Existing : \E row : ticket' = [ticket EXCEPT ![t] = row]
      BY <2>1, <2>3 DEF Existing
    <2> QED
      BY <2>2, <2>3 DEF create_ticket_looks_up, create_ticket_inserts, replayed_ticket_or_conflict
  <1> QED
    BY <1>1, <1>2, QuietTicket

LEMMA StepTold == SupportInv /\ [Next]_vars => (\A x \in Existing : ToldOnce(x)) \/ UNCHANGED vars
  <1> SUFFICES ASSUME SupportInv, Next PROVE \A x \in Existing : ToldOnce(x)
    OBVIOUS
  <1>1. ASSUME NEW t \in Existing, NEW k \in Keys, NEW body \in Texts,
               add_requester_message(t, k, body)
        PROVE  \A x \in Existing : ToldOnce(x)
    <2>1. CASE ticket[t].user \in Admins
      <3>1. PICK st :
              /\ add_message(t, ticket[t].user, k, "public", body, st)
              /\ UNCHANGED notices \/ enqueue_notification(t, ticket[t].assigned)
        BY <1>1 DEF add_requester_message
      <3>2. PICK m : /\ messages' = messages \cup {m} /\ m.ticket = t
                     /\ \A x \in Existing : x # t => ticket'[x] = ticket[x]
        BY <3>1, NewMessage
      <3>3. \A x \in Existing : x # t => notices'[x] = notices[x]
        BY <3>1, OtherNotices
      <3>4. ASSUME NEW x \in Existing, x # t PROVE ToldOnce(x)
        BY <3>2, <3>3, <3>4, QuietTicket
      <3> QED
        BY <2>1, <3>4 DEF ToldOnce
    <2>2. CASE ticket[t].user \notin Admins
      <3>1. PICK st :
              /\ add_message(t, ticket[t].user, k, "public", body, st)
              /\ IF ticket[t].assigned = None THEN UNCHANGED notices
                 ELSE enqueue_notification(t, ticket[t].assigned)
        BY <1>1 DEF add_requester_message
      <3> QED
        BY <2>2, <3>1, PublicMessageTold
    <2> QED
      BY <2>1, <2>2
  <1>2. ASSUME NEW t \in Existing, NEW a \in Admins, NEW k \in Keys, NEW body \in Texts,
               add_admin_public_message(a, t, k, body)
        PROVE  \A x \in Existing : ToldOnce(x)
    <2>1. /\ add_message(t, a, k, "public", body, ticket[t].status)
          /\ enqueue_notification(t, ticket[t].user)
      BY <1>2 DEF add_admin_public_message
    <2>2. CASE a = ticket[t].user
      <3>1. PICK m : /\ messages' = messages \cup {m} /\ m.ticket = t
                     /\ \A x \in Existing : x # t => ticket'[x] = ticket[x]
        BY <2>1, NewMessage
      <3>2. \A x \in Existing : x # t => notices'[x] = notices[x]
        BY <2>1, OtherNotices
      <3>3. ASSUME NEW x \in Existing, x # t PROVE ToldOnce(x)
        BY <3>1, <3>2, <3>3, QuietTicket
      <3> QED
        BY <2>2, <3>3 DEF ToldOnce
    <2>3. CASE a # ticket[t].user
      BY <2>1, <2>3, PublicMessageTold
    <2> QED
      BY <2>2, <2>3
  <1>3. ASSUME NEW t \in Existing, NEW a \in Admins, admin_ticket(a, t)
        PROVE  \A x \in Existing : ToldOnce(x)
    BY <1>3, QuietTicket DEF admin_ticket
  <1>3a. ASSUME NEW t \in Existing, NEW a \in Admins, NEW v \in Visibility,
                admin_ticket_messages(a, t, v)
         PROVE  \A x \in Existing : ToldOnce(x)
    BY <1>3a, QuietTicket DEF admin_ticket_messages
  <1>4. ASSUME NEW t \in Existing, NEW a \in Admins, AdminStep(a, t)
        PROVE  \A x \in Existing : ToldOnce(x)
    BY <1>2, <1>3, <1>3a, <1>4, InternalNoteTold, UpdateTold, AssignTold DEF AdminStep
  <1> QED
    BY <1>1, <1>4, CreationTold DEF Next

(* A change the requester sees is told exactly once and to the other side: *)
(* the enqueue_notification calls of routes/support.py match what its      *)
(* handlers show, and a retry, an assignment or an internal note is silent. *)
THEOREM ChangesAreToldOnce == Spec => VisibleChangesAreToldOnce
  <1>1. (\A x \in Existing : ToldOnce(x)) \/ UNCHANGED vars =>
        [\A t \in Existing :
          LET told(u) == notices'[t] = [version |-> ticket'[t].version, to |-> u]
              nobody == notices'[t] = notices[t]
              seen == PublicFace(t)' # PublicFace(t)
              wrote == \E m \in messages' \ messages :
                          m.ticket = t /\ m.author = ticket[t].user
          IN ticket[t].user \notin Admins =>
                /\ seen /\ ~wrote => told(ticket[t].user)
                /\ seen /\ wrote =>
                      IF ticket[t].assigned = None THEN nobody ELSE told(ticket[t].assigned)
                /\ ~seen => nobody]_vars
    BY DEF ToldOnce, Seen, Wrote, Told
  <1> QED
    BY <1>1, StepTold, SupportInvariant, PTL DEF Spec, VisibleChangesAreToldOnce
===============================================================================
