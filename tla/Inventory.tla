------------------------------ MODULE Inventory -------------------------------
(***************************************************************************)
(* Carts, listings and the units that move between the shelf and orders.   *)
(*                                                                         *)
(* A listing is a store's offer of a product; a listing nobody has created *)
(* yet looks like one with no units that is not available, and an edit     *)
(* creates it.  Checkout and restoration lock every row they read before   *)
(* they decide, so each is one action.  The cart handlers and the          *)
(* merchant's edits take no locks: they read, compute, and their UPDATE    *)
(* names only the columns whose value differs from the one they loaded.    *)
(* Each of their looks at the database is an action and so is the commit,  *)
(* and a thread holds what it has seen in between.                         *)
(*                                                                         *)
(* Prices, addresses, opening hours, service areas and approval only       *)
(* reject requests, so an action that may or may not be tried includes     *)
(* every behaviour they allow.                                             *)
(***************************************************************************)
EXTENDS Naturals

CONSTANTS
    Stores, Products, Customers,
    Orders,         \* orders that may be placed
    Keys,           \* Idempotency-Key values clients send
    Threads,        \* requests the server works on at the same time
    MaxQuantity,    \* largest quantity of a cart line (the schema allows 99)
    MaxStock,       \* largest figure a merchant enters
    Edits,          \* the listing edits merchants make, of MerchantEdits below
    NoStore, NoKey, NoRequest,  \* NULL
    Keep            \* a field the merchant's request leaves out

ASSUME InventoryAssumption ==
    /\ Customers # {}
    /\ NoStore \notin Stores
    /\ NoKey \notin Keys
    /\ MaxQuantity \in Nat \ {0}
    /\ MaxStock \in Nat
    /\ Keep \notin Nat \cup BOOLEAN

(* The merchant's listing edits, as <<stock_quantity, is_available>>: PATCH  *)
(* sends any of the fields, POST on a catalogue product all of them; POST  *)
(* of a product of the merchant's own makes a fresh row, available if      *)
(* there are units.                                                        *)
update_store_product ==
    (((0..MaxStock) \cup {Keep}) \X (BOOLEAN \cup {Keep})) \ {<<Keep, Keep>>}
upsert_store_product == (0..MaxStock) \X BOOLEAN
create_merchant_product_listing ==
    {edit \in upsert_store_product : edit[2] <=> edit[1] > 0}
MerchantEdits ==
    update_store_product \cup upsert_store_product \cup create_merchant_product_listing

ASSUME EditsAssumption == Edits \subseteq MerchantEdits

VARIABLES
    stock_quantity, is_available,                            \* store_products
    cart_store, cart_items,                                  \* carts, cart_items
    order_customer, order_store, order_key, order_items,     \* orders, order_items
    stock_restored,
    request         \* what each thread has seen, and deleted, before its commit

listingVars == <<stock_quantity, is_available>>
cartVars    == <<cart_store, cart_items>>
orderVars   == <<order_customer, order_store, order_key, order_items, stock_restored>>
vars == <<listingVars, cartVars, orderVars, request>>

Listings == Stores \X Products
store_of(l) == l[1]

Quantity == 1..MaxQuantity
EmptyCart == [l \in Listings |-> 0]
EmptyOrder == [p \in Products |-> 0]

(* add_cart_item after its look at the cart, and after its look for the line. *)
AddRequest ==
    [op : {"add"}, customer : Customers, listing : Listings,
     quantity : Quantity, store_seen : Stores \cup {NoStore}]
PutRequest ==
    [op : {"put"}, customer : Customers, listing : Listings,
     quantity : Quantity, store_seen : Stores \cup {NoStore},
     line_seen : 0..MaxQuantity]
(* remove_cart_item names one listing, clear_cart all of them; after its    *)
(* DELETE a request holds the locks of the rows that will be gone.         *)
EmptyRequest ==
    [op : {"empty"}, customer : Customers, listings : SUBSET Listings,
     store_seen : Stores \cup {NoStore}]
DeleteRequest ==
    [op : {"delete"}, customer : Customers, lines : SUBSET Listings,
     store_seen : Stores \cup {NoStore}, last : BOOLEAN]
EditRequest ==
    [op : {"edit"}, listing : Listings,
     stock : (0..MaxStock) \cup {Keep}, available : BOOLEAN \cup {Keep},
     stock_seen : Nat, available_seen : BOOLEAN]
Request == AddRequest \cup PutRequest \cup EmptyRequest \cup DeleteRequest
               \cup EditRequest

Placed(o) == order_store[o] # NoStore
Idle(t) == request[t] = NoRequest
Reads(t, r) == Idle(t) /\ request' = [request EXCEPT ![t] = r]
Answers(t) == request' = [request EXCEPT ![t] = NoRequest]

(* The session's unit of work: a column set to the value it was loaded with *)
(* is not part of the UPDATE.                                              *)
written(new, seen, now) == IF new = seen THEN now ELSE new

Init ==
    /\ stock_quantity \in [Listings -> 0..MaxStock]
    /\ is_available = [l \in Listings |-> stock_quantity[l] > 0]
    /\ cart_store = [c \in Customers |-> NoStore]
    /\ cart_items = [c \in Customers |-> EmptyCart]
    /\ order_customer = [o \in Orders |-> CHOOSE c \in Customers : TRUE]
    /\ order_store = [o \in Orders |-> NoStore]
    /\ order_key = [o \in Orders |-> NoKey]
    /\ order_items = [o \in Orders |-> EmptyOrder]
    /\ stock_restored = [o \in Orders |-> FALSE]
    /\ request = [t \in Threads |-> NoRequest]

-------------------------------------------------------------------------------
(* The merchant's edits of a listing. *)

edit_reads(t, l) ==
    /\ \E edit \in Edits :
           Reads(t, [op |-> "edit", listing |-> l,
                     stock |-> edit[1], available |-> edit[2],
                     stock_seen |-> stock_quantity[l],
                     available_seen |-> is_available[l]])
    /\ UNCHANGED <<listingVars, cartVars, orderVars>>

edited(new, seen, now) == IF new = Keep THEN now ELSE written(new, seen, now)

edit_writes(t) ==
    /\ ~Idle(t) /\ request[t].op = "edit"
    /\ LET r == request[t]
           l == r.listing
       IN /\ stock_quantity' = [stock_quantity EXCEPT
                 ![l] = edited(r.stock, r.stock_seen, stock_quantity[l])]
          /\ is_available' = [is_available EXCEPT
                 ![l] = edited(r.available, r.available_seen, is_available[l])]
    /\ Answers(t)
    /\ UNCHANGED <<cartVars, orderVars>>

-------------------------------------------------------------------------------
(* The customer's cart. *)

cart_accepts_Any(c, l) == TRUE  \* mutant: the store is not compared

cart_accepts(c, l) == cart_store[c] \in {NoStore, store_of(l)}

add_cart_item_reads(t, c, l, q) ==
    /\ is_available[l] /\ stock_quantity[l] >= q
    /\ cart_accepts(c, l)
    /\ Reads(t, [op |-> "add", customer |-> c, listing |-> l, quantity |-> q,
                 store_seen |-> cart_store[c]])
    /\ UNCHANGED <<listingVars, cartVars, orderVars>>

add_cart_item_looks(t) ==
    /\ ~Idle(t) /\ request[t].op = "add"
    /\ LET r == request[t]
       IN  request' = [request EXCEPT ![t] =
               [op |-> "put", customer |-> r.customer, listing |-> r.listing,
                quantity |-> r.quantity, store_seen |-> r.store_seen,
                line_seen |-> cart_items[r.customer][r.listing]]]
    /\ UNCHANGED <<listingVars, cartVars, orderVars>>

inserts(r) == r.line_seen = 0
updates(r) == r.line_seen \notin {0, r.quantity}

(* Rows of the customer's cart that an open transaction has deleted. *)
is_locked(c, l) ==
    \E u \in Threads : /\ ~Idle(u) /\ request[u].op = "delete"
                       /\ request[u].customer = c
                       /\ l \in request[u].lines

(* One line to a listing: an INSERT needs the line to be absent, after      *)
(* waiting for whoever is deleting it; an UPDATE needs the row it found,   *)
(* and a quantity it found already is not written at all.                  *)
add_cart_item_writes(t) ==
    /\ ~Idle(t) /\ request[t].op = "put"
    /\ LET r == request[t]
           c == r.customer
       IN /\ inserts(r) => cart_items[c][r.listing] = 0
          /\ updates(r) => ~is_locked(c, r.listing)
          /\ cart_items' = [cart_items EXCEPT ![c][r.listing] =
                 written(r.quantity, r.line_seen, cart_items[c][r.listing])]
          /\ cart_store' = [cart_store EXCEPT
                 ![c] = written(store_of(r.listing), r.store_seen, cart_store[c])]
    /\ Answers(t)
    /\ UNCHANGED <<listingVars, orderVars>>

empty_cart_reads(t, c, ls) ==
    /\ Reads(t, [op |-> "empty", customer |-> c, listings |-> ls,
                 store_seen |-> cart_store[c]])
    /\ UNCHANGED <<listingVars, cartVars, orderVars>>

remove_cart_item(t, c, l) == empty_cart_reads(t, c, {l})
clear_cart(t, c) == empty_cart_reads(t, c, Listings)

lines_in(c, ls) == {l \in ls : cart_items[c][l] > 0}

(* The DELETE, which waits for locked rows, and the look at what remains.   *)
(* Until the commit only this request sees the lines gone.                 *)
empty_cart_deletes(t) ==
    /\ ~Idle(t) /\ request[t].op = "empty"
    /\ LET r == request[t]
           c == r.customer
           lines == lines_in(c, r.listings)
       IN /\ \A l \in lines : ~is_locked(c, l)
          /\ request' = [request EXCEPT ![t] =
                 [op |-> "delete", customer |-> c, lines |-> lines,
                  store_seen |-> r.store_seen, last |-> lines_in(c, Listings \ r.listings) = {}]]
    /\ UNCHANGED <<listingVars, cartVars, orderVars>>

(* The rows of these lines are gone when thread t answers: an UPDATE that   *)
(* found one of them before will find none and its request is rolled back. *)
AnswersDeleting(t, c, ls) ==
    request' = [u \in Threads |->
                   IF \/ u = t
                      \/ /\ ~Idle(u) /\ request[u].op = "put"
                         /\ request[u].customer = c /\ request[u].listing \in ls
                         /\ updates(request[u])
                   THEN NoRequest ELSE request[u]]

(* The commit; the store is forgotten if no line was seen to remain. *)
empty_cart_writes(t) ==
    /\ ~Idle(t) /\ request[t].op = "delete"
    /\ LET r == request[t]
           c == r.customer
       IN /\ cart_items' = [cart_items EXCEPT ![c] =
                 [l \in Listings |-> IF l \in r.lines THEN 0 ELSE cart_items[c][l]]]
          /\ cart_store' = [cart_store EXCEPT ![c] =
                 IF r.last THEN written(NoStore, r.store_seen, cart_store[c])
                           ELSE cart_store[c]]
          /\ AnswersDeleting(t, c, r.lines)
    /\ UNCHANGED <<listingVars, orderVars>>

-------------------------------------------------------------------------------
(* Checkout and restoration. *)

key_is_used_Never(c, k) == FALSE  \* mutant: a retried checkout is a new one

key_is_used(c, k) ==
    /\ k # NoKey
    /\ \E o \in Orders : /\ Placed(o)
                         /\ order_customer[o] = c
                         /\ order_key[o] = k

(* Mutants: the check made when the line was added is relied on; lines of    *)
(* another store are let through.                                          *)
line_is_valid_Stale(c, l) == store_of(l) = cart_store[c]
line_is_valid_AnyStore(c, l) ==
    is_available[l] /\ stock_quantity[l] >= cart_items[c][l]

line_is_valid(c, l) ==
    /\ store_of(l) = cart_store[c]
    /\ is_available[l]
    /\ stock_quantity[l] >= cart_items[c][l]

safe_checkout(t, c, k, o) ==
    /\ Idle(t) /\ ~Placed(o)
    /\ ~key_is_used(c, k)
    /\ cart_store[c] # NoStore
    /\ \E l \in Listings : cart_items[c][l] > 0
    /\ \A l \in Listings : cart_items[c][l] > 0 => line_is_valid(c, l)
    /\ \A l \in lines_in(c, Listings) : ~is_locked(c, l)
    /\ order_customer' = [order_customer EXCEPT ![o] = c]
    /\ order_store' = [order_store EXCEPT ![o] = cart_store[c]]
    /\ order_key' = [order_key EXCEPT ![o] = k]
    /\ order_items' = [order_items EXCEPT
           ![o] = [p \in Products |-> cart_items[c][<<cart_store[c], p>>]]]
    /\ stock_quantity' =
           [l \in Listings |-> stock_quantity[l] - cart_items[c][l]]
    /\ is_available' =
           [l \in Listings |-> /\ is_available[l]
                               /\ cart_items[c][l] > 0 => stock_quantity'[l] # 0]
    /\ cart_items' = [cart_items EXCEPT ![c] = EmptyCart]
    /\ cart_store' = [cart_store EXCEPT ![c] = NoStore]
    /\ AnswersDeleting(t, c, Listings)
    /\ UNCHANGED stock_restored

restoration_is_due_Always(o) == Placed(o)  \* mutant: no guard

restoration_is_due(o) == Placed(o) /\ ~stock_restored[o]

returned_units(o, l) ==
    IF store_of(l) = order_store[o] THEN order_items[o][l[2]] ELSE 0

(* Called by every handler that closes an order unfulfilled. *)
restore_order_stock_once(t, o) ==
    /\ Idle(t) /\ restoration_is_due(o)
    /\ stock_quantity' =
           [l \in Listings |-> stock_quantity[l] + returned_units(o, l)]
    /\ is_available' =
           [l \in Listings |-> \/ is_available[l]
                               \/ returned_units(o, l) > 0 /\ stock_quantity[l] = 0]
    /\ stock_restored' = [stock_restored EXCEPT ![o] = TRUE]
    /\ UNCHANGED <<cartVars, order_customer, order_store, order_key, order_items,
                   request>>

(* The transaction is rolled back: a duplicate or vanished row, a deadlock, *)
(* a dying process.                                                        *)
request_aborts(t) ==
    /\ ~Idle(t)
    /\ Answers(t)
    /\ UNCHANGED <<listingVars, cartVars, orderVars>>

ThreadNext(t) ==
    \/ \E l \in Listings : edit_reads(t, l)
    \/ edit_writes(t)
    \/ \E c \in Customers, l \in Listings, q \in Quantity : add_cart_item_reads(t, c, l, q)
    \/ add_cart_item_looks(t)
    \/ add_cart_item_writes(t)
    \/ \E c \in Customers, l \in Listings : remove_cart_item(t, c, l)
    \/ \E c \in Customers : clear_cart(t, c)
    \/ empty_cart_deletes(t)
    \/ empty_cart_writes(t)
    \/ \E c \in Customers, k \in Keys \cup {NoKey}, o \in Orders : safe_checkout(t, c, k, o)
    \/ \E o \in Orders : restore_order_stock_once(t, o)
    \/ request_aborts(t)

Next == \E t \in Threads : ThreadNext(t)

Spec == Init /\ [][Next]_vars

-------------------------------------------------------------------------------
(* Rows and requests in flight keep their types; in particular the shelf    *)
(* never holds a negative number of units, whatever was in the carts when  *)
(* the figures changed.                                                    *)
InventoryTypeOK ==
    /\ stock_quantity \in [Listings -> Nat]
    /\ is_available \in [Listings -> BOOLEAN]
    /\ cart_store \in [Customers -> Stores \cup {NoStore}]
    /\ cart_items \in [Customers -> [Listings -> 0..MaxQuantity]]
    /\ order_customer \in [Orders -> Customers]
    /\ order_store \in [Orders -> Stores \cup {NoStore}]
    /\ order_key \in [Orders -> Keys \cup {NoKey}]
    /\ order_items \in [Orders -> [Products -> 0..MaxQuantity]]
    /\ stock_restored \in [Orders -> BOOLEAN]
    /\ request \in [Threads -> Request \cup {NoRequest}]

(* Units of listing l that order o holds. *)
held_units(o, l) ==
    IF Placed(o) /\ ~stock_restored[o] THEN returned_units(o, l) ELSE 0

UnitsMove ==
    \/ \E t \in Threads : edit_writes(t)
    \/ /\ stock_quantity' = stock_quantity
       /\ \A o \in Orders, l \in Listings : held_units(o, l)' = held_units(o, l)
    \/ \E o \in Orders :
           /\ \A l \in Listings :
                  stock_quantity'[l] + held_units(o, l)' = stock_quantity[l] + held_units(o, l)
           /\ \A u \in Orders \ {o}, l \in Listings : held_units(u, l)' = held_units(u, l)

(* Units are neither made nor lost: unless the merchant enters a new        *)
(* figure, a step moves units between the shelf and one order, even when   *)
(* races have put lines of several stores into the cart.                   *)
UnitsAreConserved == [][UnitsMove]_vars

(* A checkout retried with its key, even after the cart was filled again,   *)
(* buys once.                                                              *)
OneOrderPerKey ==
    \A o, u \in Orders :
        /\ Placed(o) /\ Placed(u)
        /\ order_customer[o] = order_customer[u]
        /\ order_key[o] = order_key[u] /\ order_key[o] # NoKey
        => o = u

(* A cart names the store of its lines, and names one exactly while it has  *)
(* lines: what the cart handlers leave behind when nothing interferes.     *)
CartNamesItsStore ==
    \A c \in Customers :
        /\ \A l \in Listings : cart_items[c][l] > 0 => store_of(l) = cart_store[c]
        /\ (\A l \in Listings : cart_items[c][l] = 0) => cart_store[c] = NoStore

(* What a cart request has seen is still so. *)
LookIsCurrent(t) ==
    ~Idle(t) /\ request[t].op \in {"put", "delete"}
    => LET r == request[t]
           c == r.customer
       IN /\ r.store_seen = cart_store[c]
          /\ r.op = "put" => r.line_seen = cart_items[c][r.listing]
          /\ r.op = "delete" => (r.last <=> lines_in(c, Listings \ r.lines) = {})

(* A cart is spoiled, with lines of another store, a store without lines or *)
(* lines without a store, only by the commit of a request whose own look   *)
(* at the store, at its line or at the lines that remain was overtaken: no *)
(* other step, checkouts included, does it.                                *)
OnlyStaleLooksSpoilCarts ==
    [][ CartNamesItsStore /\ ~CartNamesItsStore'
        => \E t \in Threads : ~LookIsCurrent(t) /\ Idle(t)' ]_vars
===============================================================================
