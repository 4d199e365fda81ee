---------------------------- MODULE InventoryProofs ----------------------------
(***************************************************************************)
(* The shelf and the carts for every number of stores, products,           *)
(* customers, orders and concurrent requests.                              *)
(***************************************************************************)
EXTENDS Inventory, TLAPS

(* Only a placed order has its units restored; otherwise a checkout could   *)
(* create an order that holds nothing.                                     *)
UnplacedIsUntouched ==
    \A o \in Orders : ~Placed(o) => ~stock_restored[o]

InventoryInv == InventoryTypeOK /\ UnplacedIsUntouched

LEMMA RequestKinds ==
    ASSUME NEW r \in Request
    PROVE  /\ r.op = "add" => r \in AddRequest
           /\ r.op = "put" => r \in PutRequest
           /\ r.op = "empty" => r \in EmptyRequest
           /\ r.op = "delete" => r \in DeleteRequest
           /\ r.op = "edit" => r \in EditRequest
  BY DEF Request, AddRequest, PutRequest, EmptyRequest, DeleteRequest, EditRequest

LEMMA InitInventory == Init => InventoryInv
  <1> SUFFICES ASSUME Init PROVE InventoryInv
    OBVIOUS
  <1>1. (CHOOSE c \in Customers : TRUE) \in Customers
    BY InventoryAssumption
  <1>2. stock_quantity \in [Listings -> Nat]
    BY InventoryAssumption DEF Init
  <1>3. InventoryTypeOK
    BY <1>1, <1>2, InventoryAssumption DEF Init, InventoryTypeOK, EmptyCart, EmptyOrder
  <1> QED
    BY <1>3 DEF Init, InventoryInv, UnplacedIsUntouched

(* A request in flight has its type when it is read. *)
LEMMA ReadsKeepTypes ==
    ASSUME InventoryInv, NEW t \in Threads, NEW r \in Request, Reads(t, r),
           UNCHANGED <<listingVars, cartVars, orderVars>>
    PROVE  InventoryInv'
  BY DEF InventoryInv, InventoryTypeOK, UnplacedIsUntouched, Placed, Reads,
         listingVars, cartVars, orderVars

LEMMA LooksKeepTypes ==
    ASSUME InventoryInv, NEW t \in Threads, NEW r \in Request,
           request' = [request EXCEPT ![t] = r],
           UNCHANGED <<listingVars, cartVars, orderVars>>
    PROVE  InventoryInv'
  BY DEF InventoryInv, InventoryTypeOK, UnplacedIsUntouched, Placed, listingVars,
         cartVars, orderVars

LEMMA DeletionsAnswer ==
    ASSUME request \in [Threads -> Request \cup {NoRequest}],
           NEW t, NEW c, NEW ls, AnswersDeleting(t, c, ls)
    PROVE  /\ request' \in [Threads -> Request \cup {NoRequest}]
           /\ \A u \in Threads : request'[u] \in {request[u], NoRequest}
           /\ t \in Threads => request'[t] = NoRequest
  BY DEF AnswersDeleting

LEMMA StepInventory == InventoryInv /\ [Next]_vars => InventoryInv'
  <1> SUFFICES ASSUME InventoryInv, [Next]_vars PROVE InventoryInv'
    OBVIOUS
  <1>0. InventoryTypeOK /\ UnplacedIsUntouched
    BY DEF InventoryInv
  <1>1. CASE UNCHANGED vars
    BY <1>0, <1>1 DEF InventoryInv, InventoryTypeOK, UnplacedIsUntouched, Placed, vars,
        listingVars, cartVars, orderVars
  <1>2. ASSUME NEW t \in Threads, ThreadNext(t) PROVE InventoryInv'
    <2>1. ASSUME NEW l \in Listings, edit_reads(t, l) PROVE InventoryInv'
      <3>1. PICK e \in Edits :
                Reads(t, [op |-> "edit", listing |-> l, stock |-> e[1], available |-> e[2],
                          stock_seen |-> stock_quantity[l],
                          available_seen |-> is_available[l]])
        BY <2>1 DEF edit_reads
      <3>2. /\ e[1] \in (0..MaxStock) \cup {Keep}
            /\ e[2] \in BOOLEAN \cup {Keep}
        <4>1. e \in ((0..MaxStock) \cup {Keep}) \X (BOOLEAN \cup {Keep})
          BY EditsAssumption
          DEF MerchantEdits, update_store_product, upsert_store_product,
              create_merchant_product_listing
        <4> QED
          BY <4>1
      <3>3. stock_quantity[l] \in Nat /\ is_available[l] \in BOOLEAN
        BY <1>0 DEF InventoryTypeOK
      <3>4. [op |-> "edit", listing |-> l, stock |-> e[1], available |-> e[2],
             stock_seen |-> stock_quantity[l],
             available_seen |-> is_available[l]] \in Request
        BY <3>2, <3>3 DEF Request, EditRequest
      <3> QED
        BY <2>1, <3>1, <3>4, ReadsKeepTypes DEF edit_reads
    <2>2. ASSUME NEW c \in Customers, NEW l \in Listings, NEW q \in Quantity,
                 add_cart_item_reads(t, c, l, q)
          PROVE  InventoryInv'
      <3>1. [op |-> "add", customer |-> c, listing |-> l, quantity |-> q,
             store_seen |-> cart_store[c]] \in Request
        BY <1>0 DEF InventoryTypeOK, Request, AddRequest
      <3> QED
        BY <2>2, <3>1, ReadsKeepTypes DEF add_cart_item_reads
    <2>3. ASSUME NEW c \in Customers, NEW ls \in SUBSET Listings, empty_cart_reads(t, c, ls)
          PROVE  InventoryInv'
      <3>1. [op |-> "empty", customer |-> c, listings |-> ls,
             store_seen |-> cart_store[c]] \in Request
        BY <1>0 DEF InventoryTypeOK, Request, EmptyRequest
      <3> QED
        BY <2>3, <3>1, ReadsKeepTypes DEF empty_cart_reads
    <2>4. CASE edit_writes(t)
      <3>1. request[t] \in EditRequest
        BY <1>0, <2>4, RequestKinds DEF edit_writes, InventoryTypeOK, Idle
      <3>2. /\ stock_quantity' \in [Listings -> Nat]
            /\ is_available' \in [Listings -> BOOLEAN]
        <4> DEFINE r == request[t]
                   stock == edited(r.stock, r.stock_seen, stock_quantity[r.listing])
                   available ==
                       edited(r.available, r.available_seen, is_available[r.listing])
        <4>1. r.listing \in Listings
          BY <3>1 DEF EditRequest
        <4>2. stock \in Nat
          BY <1>0, <3>1, <4>1 DEF InventoryTypeOK, EditRequest, edited, written
        <4>3. available \in BOOLEAN
          BY <1>0, <3>1, <4>1 DEF InventoryTypeOK, EditRequest, edited, written
        <4>4. /\ stock_quantity' = [stock_quantity EXCEPT ![r.listing] = stock]
              /\ is_available' = [is_available EXCEPT ![r.listing] = available]
          BY <2>4 DEF edit_writes
        <4> HIDE DEF r, stock, available
        <4> QED
          BY <1>0, <4>1, <4>2, <4>3, <4>4 DEF InventoryTypeOK
      <3> QED
        BY <1>0, <2>4, <3>2
        DEF edit_writes, InventoryInv, InventoryTypeOK, UnplacedIsUntouched, Placed,
            Answers, cartVars, orderVars
    <2>4a. CASE add_cart_item_looks(t)
      <3>1. request[t] \in AddRequest
        BY <1>0, <2>4a, RequestKinds DEF add_cart_item_looks, InventoryTypeOK, Idle
      <3> DEFINE r == request[t]
                 put == [op |-> "put", customer |-> r.customer, listing |-> r.listing,
                         quantity |-> r.quantity, store_seen |-> r.store_seen,
                         line_seen |-> cart_items[r.customer][r.listing]]
      <3>2. put \in Request
        BY <1>0, <3>1 DEF InventoryTypeOK, AddRequest, Request, PutRequest
      <3> QED
        BY <2>4a, <3>2, LooksKeepTypes DEF add_cart_item_looks
    <2>5. CASE add_cart_item_writes(t)
      <3>1. request[t] \in PutRequest
        BY <1>0, <2>5, RequestKinds DEF add_cart_item_writes, InventoryTypeOK, Idle
      <3>2. /\ cart_items' \in [Customers -> [Listings -> 0..MaxQuantity]]
            /\ cart_store' \in [Customers -> Stores \cup {NoStore}]
        BY <1>0, <2>5, <3>1, InventoryAssumption
        DEF add_cart_item_writes, InventoryTypeOK, PutRequest, written, Quantity,
            Listings, store_of
      <3> QED
        BY <1>0, <2>5, <3>2
        DEF add_cart_item_writes, InventoryInv, InventoryTypeOK, UnplacedIsUntouched,
            Placed, Answers, listingVars, orderVars
    <2>5a. CASE empty_cart_deletes(t)
      <3>1. request[t] \in EmptyRequest
        BY <1>0, <2>5a, RequestKinds DEF empty_cart_deletes, InventoryTypeOK, Idle
      <3> DEFINE r == request[t]
                 delete == [op |-> "delete", customer |-> r.customer,
                            lines |-> lines_in(r.customer, r.listings),
                            store_seen |-> r.store_seen,
                            last |-> lines_in(r.customer, Listings \ r.listings) = {}]
      <3>2. delete \in Request
        BY <3>1 DEF EmptyRequest, Request, DeleteRequest, lines_in
      <3> QED
        BY <2>5a, <3>2, LooksKeepTypes DEF empty_cart_deletes
    <2>6. CASE empty_cart_writes(t)
      <3>1. request[t] \in DeleteRequest
        BY <1>0, <2>6, RequestKinds DEF empty_cart_writes, InventoryTypeOK, Idle
      <3>2. /\ cart_items' \in [Customers -> [Listings -> 0..MaxQuantity]]
            /\ cart_store' \in [Customers -> Stores \cup {NoStore}]
        BY <1>0, <2>6, <3>1, InventoryAssumption
        DEF empty_cart_writes, InventoryTypeOK, DeleteRequest, written
      <3>3. request' \in [Threads -> Request \cup {NoRequest}]
        BY <1>0, <2>6, DeletionsAnswer DEF empty_cart_writes, InventoryTypeOK
      <3> QED
        BY <1>0, <2>6, <3>2, <3>3
        DEF empty_cart_writes, InventoryInv, InventoryTypeOK, UnplacedIsUntouched,
            Placed, listingVars, orderVars
    <2>7. ASSUME NEW c \in Customers, NEW k \in Keys \cup {NoKey}, NEW o \in Orders,
                 safe_checkout(t, c, k, o)
          PROVE  InventoryInv'
      <3>1. stock_quantity' \in [Listings -> Nat]
        <4>1. \A l \in Listings : cart_items[c][l] > 0 => stock_quantity[l] >= cart_items[c][l]
          BY <2>7 DEF safe_checkout, line_is_valid
        <4>2. \A l \in Listings : stock_quantity[l] \in Nat /\ cart_items[c][l] \in Nat
          BY <1>0, InventoryAssumption DEF InventoryTypeOK
        <4>3. \A l \in Listings : stock_quantity[l] - cart_items[c][l] \in Nat
          BY <4>1, <4>2
        <4> QED
          BY <2>7, <4>3 DEF safe_checkout
      <3>2. is_available' \in [Listings -> BOOLEAN]
        BY <2>7 DEF safe_checkout
      <3>3. order_items' \in [Orders -> [Products -> 0..MaxQuantity]]
        BY <1>0, <2>7 DEF safe_checkout, InventoryTypeOK, Listings
      <3>4. /\ cart_items' \in [Customers -> [Listings -> 0..MaxQuantity]]
            /\ cart_store' \in [Customers -> Stores \cup {NoStore}]
        BY <1>0, <2>7, InventoryAssumption DEF safe_checkout, InventoryTypeOK, EmptyCart
      <3>5. /\ order_customer' \in [Orders -> Customers]
            /\ order_store' \in [Orders -> Stores \cup {NoStore}]
            /\ order_key' \in [Orders -> Keys \cup {NoKey}]
        BY <1>0, <2>7 DEF safe_checkout, InventoryTypeOK
      <3>6. UnplacedIsUntouched'
        BY <1>0, <2>7 DEF safe_checkout, InventoryTypeOK, UnplacedIsUntouched, Placed
      <3>7. request' \in [Threads -> Request \cup {NoRequest}]
        BY <1>0, <2>7, DeletionsAnswer DEF safe_checkout, InventoryTypeOK
      <3> QED
        BY <1>0, <2>7, <3>1, <3>2, <3>3, <3>4, <3>5, <3>6, <3>7
        DEF safe_checkout, InventoryInv, InventoryTypeOK
    <2>8. ASSUME NEW o \in Orders, restore_order_stock_once(t, o) PROVE InventoryInv'
      <3>1. stock_quantity' \in [Listings -> Nat]
        <4>1. \A l \in Listings : returned_units(o, l) \in Nat
          BY <1>0, InventoryAssumption DEF returned_units, InventoryTypeOK, Listings
        <4> QED
          BY <1>0, <2>8, <4>1 DEF restore_order_stock_once, InventoryTypeOK
      <3>2. is_available' \in [Listings -> BOOLEAN]
        BY <2>8 DEF restore_order_stock_once
      <3> QED
        BY <1>0, <2>8, <3>1, <3>2
        DEF restore_order_stock_once, restoration_is_due, InventoryInv, InventoryTypeOK,
            UnplacedIsUntouched, Placed, cartVars
    <2>9. CASE request_aborts(t)
      BY <1>0, <2>9
      DEF request_aborts, InventoryInv, InventoryTypeOK, UnplacedIsUntouched, Placed,
          Answers, listingVars, cartVars, orderVars
    <2> QED
      BY <1>2, <2>1, <2>2, <2>3, <2>4, <2>4a, <2>5, <2>5a, <2>6, <2>7, <2>8, <2>9
      DEF ThreadNext, remove_cart_item, clear_cart
  <1> QED
    BY <1>1, <1>2 DEF Next

(* Columns keep their types and the shelf never goes below zero, whatever    *)
(* interleaving of stale reads, edits, checkouts and restorations.         *)
THEOREM InventoryTypeCorrect == Spec => []InventoryTypeOK
  <1>1. Spec => []InventoryInv
    BY InitInventory, StepInventory, PTL DEF Spec
  <1> QED
    BY <1>1, PTL DEF InventoryInv

-------------------------------------------------------------------------------
LEMMA CartStepsMoveNothing ==
    ASSUME UNCHANGED <<stock_quantity, orderVars>>
    PROVE  UnitsMove
  BY DEF UnitsMove, orderVars, held_units, returned_units, Placed

LEMMA CheckoutMovesUnits ==
    ASSUME InventoryInv, NEW t \in Threads, NEW c \in Customers,
           NEW k \in Keys \cup {NoKey}, NEW o \in Orders, safe_checkout(t, c, k, o)
    PROVE  UnitsMove
  <1>0. InventoryTypeOK /\ UnplacedIsUntouched
    BY DEF InventoryInv
  <1>1. ASSUME NEW l \in Listings
        PROVE  stock_quantity'[l] + held_units(o, l)' = stock_quantity[l] + held_units(o, l)
    <2>1. stock_quantity'[l] = stock_quantity[l] - cart_items[c][l]
      BY DEF safe_checkout
    <2>2. held_units(o, l) = 0
      BY DEF safe_checkout, held_units
    <2>3. /\ Placed(o)'
          /\ ~stock_restored'[o]
          /\ order_store'[o] = cart_store[c]
          /\ order_items'[o] = [p \in Products |-> cart_items[c][<<cart_store[c], p>>]]
      BY <1>0 DEF safe_checkout, InventoryTypeOK, UnplacedIsUntouched, Placed
    <2>4. l = <<l[1], l[2]>> /\ l[2] \in Products
      BY DEF Listings
    <2>5. held_units(o, l)' = cart_items[c][l]
      <3>1. CASE l[1] = cart_store[c]
        BY <2>3, <2>4, <3>1 DEF held_units, returned_units, store_of
      <3>2. CASE l[1] # cart_store[c]
        <4>1. ~(cart_items[c][l] > 0)
          BY <3>2 DEF safe_checkout, line_is_valid, store_of
        <4>2. cart_items[c][l] = 0
          BY <1>0, <4>1, InventoryAssumption DEF InventoryTypeOK
        <4> QED
          BY <2>3, <3>2, <4>2 DEF held_units, returned_units, store_of
      <3> QED
        BY <3>1, <3>2
    <2> QED
      BY <1>0, <2>1, <2>2, <2>5, InventoryAssumption DEF InventoryTypeOK
  <1>2. ASSUME NEW u \in Orders \ {o}, NEW l \in Listings
        PROVE  held_units(u, l)' = held_units(u, l)
    BY <1>0 DEF safe_checkout, held_units, returned_units, Placed, InventoryTypeOK
  <1> QED
    BY <1>1, <1>2 DEF UnitsMove

LEMMA RestorationMovesUnits ==
    ASSUME InventoryInv, NEW t \in Threads, NEW o \in Orders,
           restore_order_stock_once(t, o)
    PROVE  UnitsMove
  <1>0. InventoryTypeOK
    BY DEF InventoryInv
  <1>1. ASSUME NEW l \in Listings
        PROVE  stock_quantity'[l] + held_units(o, l)' = stock_quantity[l] + held_units(o, l)
    <2>1. stock_quantity'[l] = stock_quantity[l] + returned_units(o, l)
      BY DEF restore_order_stock_once
    <2>2. held_units(o, l) = returned_units(o, l)
      BY DEF restore_order_stock_once, restoration_is_due, held_units
    <2>3. held_units(o, l)' = 0
      BY <1>0 DEF restore_order_stock_once, held_units, InventoryTypeOK
    <2>4. stock_quantity[l] \in Nat /\ returned_units(o, l) \in Nat
      BY <1>0, InventoryAssumption DEF InventoryTypeOK, returned_units, Listings
    <2> QED
      BY <2>1, <2>2, <2>3, <2>4
  <1>2. ASSUME NEW u \in Orders \ {o}, NEW l \in Listings
        PROVE  held_units(u, l)' = held_units(u, l)
    BY <1>0 DEF restore_order_stock_once, held_units, returned_units, Placed,
                InventoryTypeOK
  <1> QED
    BY <1>1, <1>2 DEF UnitsMove

(* However requests interleave and whatever mixed carts they leave, units    *)
(* only move between the shelf and the order that holds them.              *)
THEOREM UnitsStayConserved == Spec => UnitsAreConserved
  <1>1. InventoryInv /\ [Next]_vars => [UnitsMove]_vars
    <2> SUFFICES ASSUME InventoryInv, NEW t \in Threads, ThreadNext(t) PROVE UnitsMove
      BY DEF Next
    <2>1. CASE edit_writes(t)
      BY <2>1 DEF UnitsMove
    <2>2. ASSUME NEW c \in Customers, NEW k \in Keys \cup {NoKey}, NEW o \in Orders,
                 safe_checkout(t, c, k, o)
          PROVE  UnitsMove
      BY <2>2, CheckoutMovesUnits
    <2>3. ASSUME NEW o \in Orders, restore_order_stock_once(t, o) PROVE UnitsMove
      BY <2>3, RestorationMovesUnits
    <2>4. \/ \E l \in Listings : edit_reads(t, l)
          \/ \E c \in Customers, l \in Listings, q \in Quantity :
                 add_cart_item_reads(t, c, l, q)
          \/ add_cart_item_looks(t)
          \/ add_cart_item_writes(t)
          \/ \E c \in Customers, l \in Listings : remove_cart_item(t, c, l)
          \/ \E c \in Customers : clear_cart(t, c)
          \/ empty_cart_deletes(t)
          \/ empty_cart_writes(t)
          \/ request_aborts(t)
          => UNCHANGED <<stock_quantity, orderVars>>
      BY DEF edit_reads, add_cart_item_reads, add_cart_item_looks, add_cart_item_writes,
             remove_cart_item, clear_cart, empty_cart_reads, empty_cart_deletes,
             empty_cart_writes, request_aborts, listingVars
    <2> QED
      BY <2>1, <2>2, <2>3, <2>4, CartStepsMoveNothing DEF ThreadNext
  <1> QED
    BY <1>1, InitInventory, StepInventory, PTL DEF Spec, UnitsAreConserved

(* The key is looked up under the cart's lock, so no interleaving of retries *)
(* places a second order for it.                                           *)
THEOREM RetriesBuyOnce == Spec => []OneOrderPerKey
  <1>1. Init => OneOrderPerKey
    BY DEF Init, OneOrderPerKey, Placed
  <1>2. InventoryInv /\ OneOrderPerKey /\ [Next]_vars => OneOrderPerKey'
    <2> SUFFICES ASSUME InventoryInv, OneOrderPerKey, [Next]_vars PROVE OneOrderPerKey'
      OBVIOUS
    <2>1. ASSUME NEW t \in Threads, NEW c \in Customers, NEW k \in Keys \cup {NoKey},
                 NEW o \in Orders, safe_checkout(t, c, k, o)
          PROVE  OneOrderPerKey'
      BY <2>1 DEF safe_checkout, key_is_used, OneOrderPerKey, Placed, InventoryInv,
                  InventoryTypeOK
    <2>2. ASSUME NEW t \in Threads, ThreadNext(t)
          PROVE  \/ UNCHANGED <<order_customer, order_store, order_key>>
                 \/ \E c \in Customers, k \in Keys \cup {NoKey}, o \in Orders :
                        safe_checkout(t, c, k, o)
      BY <2>2
      DEF ThreadNext, orderVars, edit_reads, edit_writes, add_cart_item_reads,
          add_cart_item_looks, add_cart_item_writes, remove_cart_item, clear_cart,
          empty_cart_reads, empty_cart_deletes, empty_cart_writes,
          restore_order_stock_once, request_aborts
    <2>3. ASSUME UNCHANGED <<order_customer, order_store, order_key>>
          PROVE  OneOrderPerKey'
      BY <2>3 DEF OneOrderPerKey, Placed
    <2>4. CASE UNCHANGED vars
      BY <2>3, <2>4 DEF vars, orderVars
    <2> QED
      BY <2>1, <2>2, <2>3, <2>4 DEF Next
  <1> QED
    BY <1>1, <1>2, InitInventory, StepInventory, PTL DEF Spec

-------------------------------------------------------------------------------
(* An addition was let through when the cart named its store or none. *)
ReadsFit ==
    \A t \in Threads :
        ~Idle(t) /\ request[t].op \in {"add", "put"}
        => request[t].store_seen \in {NoStore, store_of(request[t].listing)}

LEMMA ReadsStayFit ==
    ASSUME InventoryTypeOK, ReadsFit, [Next]_vars
    PROVE  ReadsFit'
  <1> USE DEF ReadsFit, Idle
  <1>0. request \in [Threads -> Request \cup {NoRequest}]
    BY DEF InventoryTypeOK
  <1>1. CASE UNCHANGED vars
    BY <1>1 DEF vars
  <1>2. ASSUME NEW t \in Threads, ThreadNext(t) PROVE ReadsFit'
    <2>1. ASSUME Answers(t) PROVE ReadsFit'
      BY <1>0, <2>1 DEF Answers
    <2>2. ASSUME NEW r, request' = [request EXCEPT ![t] = r],
                 r.op \in {"add", "put"} => r.store_seen \in {NoStore, store_of(r.listing)}
          PROVE  ReadsFit'
      BY <1>0, <2>2
    <2>3. ASSUME NEW l \in Listings, edit_reads(t, l) PROVE ReadsFit'
      BY <2>2, <2>3 DEF edit_reads, Reads
    <2>4. ASSUME NEW c \in Customers, NEW l \in Listings, NEW q \in Quantity,
                 add_cart_item_reads(t, c, l, q)
          PROVE  ReadsFit'
      BY <2>2, <2>4 DEF add_cart_item_reads, cart_accepts, Reads
    <2>5. ASSUME NEW c \in Customers, NEW ls, empty_cart_reads(t, c, ls)
          PROVE  ReadsFit'
      BY <2>2, <2>5 DEF empty_cart_reads, Reads
    <2>6. CASE add_cart_item_looks(t)
      BY <2>2, <2>6 DEF add_cart_item_looks
    <2>7. CASE empty_cart_deletes(t)
      BY <2>2, <2>7 DEF empty_cart_deletes
    <2>8. CASE edit_writes(t) \/ request_aborts(t) \/ add_cart_item_writes(t)
      BY <2>1, <2>8 DEF edit_writes, request_aborts, add_cart_item_writes
    <2>9. ASSUME NEW c, NEW ls, AnswersDeleting(t, c, ls) PROVE ReadsFit'
      BY <1>0, <2>9, DeletionsAnswer
    <2>10. ASSUME UNCHANGED request PROVE ReadsFit'
      BY <2>10
    <2> QED
      BY <1>2, <2>3, <2>4, <2>5, <2>6, <2>7, <2>8, <2>9, <2>10
      DEF ThreadNext, remove_cart_item, clear_cart, empty_cart_writes, safe_checkout,
          restore_order_stock_once
  <1> QED
    BY <1>1, <1>2 DEF Next

(* The commit of a request that saw the cart as it still is leaves a        *)
(* consistent cart consistent.                                             *)
LEMMA CurrentAdditionsFit ==
    ASSUME InventoryTypeOK, ReadsFit, CartNamesItsStore, NEW t \in Threads,
           LookIsCurrent(t), add_cart_item_writes(t)
    PROVE  CartNamesItsStore'
  <1>1. request[t] \in PutRequest
    BY RequestKinds DEF add_cart_item_writes, Idle, InventoryTypeOK
  <1>2. PICK c \in Customers, m \in Listings, q \in Quantity :
            /\ c = request[t].customer /\ m = request[t].listing
            /\ q = request[t].quantity
    BY <1>1 DEF PutRequest
  <1>3. /\ cart_store[c] \in {NoStore, store_of(m)}
        /\ request[t].store_seen = cart_store[c]
        /\ request[t].line_seen = cart_items[c][m]
    BY <1>2 DEF LookIsCurrent, ReadsFit, add_cart_item_writes
  <1>4. cart_store' = [cart_store EXCEPT ![c] = store_of(m)]
    BY <1>2, <1>3 DEF add_cart_item_writes, written, InventoryTypeOK
  <1>5. cart_items' = [cart_items EXCEPT ![c][m] = q]
    BY <1>2, <1>3 DEF add_cart_item_writes, written, InventoryTypeOK
  <1>6. \A l \in Listings : cart_items[c][l] > 0 => store_of(l) = store_of(m)
    BY <1>3, InventoryAssumption DEF CartNamesItsStore, store_of, Listings
  <1>7. q > 0
    BY InventoryAssumption DEF Quantity
  <1> QED
    BY <1>4, <1>5, <1>6, <1>7 DEF CartNamesItsStore, InventoryTypeOK

LEMMA CurrentRemovalsFit ==
    ASSUME InventoryTypeOK, CartNamesItsStore, NEW t \in Threads,
           LookIsCurrent(t), empty_cart_writes(t)
    PROVE  CartNamesItsStore'
  <1>1. request[t] \in DeleteRequest
    BY RequestKinds DEF empty_cart_writes, Idle, InventoryTypeOK
  <1>2. PICK c \in Customers, ls \in SUBSET Listings, last \in BOOLEAN :
            /\ c = request[t].customer /\ ls = request[t].lines
            /\ last = request[t].last
    BY <1>1 DEF DeleteRequest
  <1> DEFINE left == [l \in Listings |-> IF l \in ls THEN 0 ELSE cart_items[c][l]]
  <1>3. /\ request[t].store_seen = cart_store[c]
        /\ last <=> lines_in(c, Listings \ ls) = {}
    BY <1>2 DEF LookIsCurrent, empty_cart_writes
  <1>4. cart_items' = [cart_items EXCEPT ![c] = left]
    BY <1>2 DEF empty_cart_writes
  <1>5. last <=> \A l \in Listings : left[l] = 0
    <2>1. \A l \in Listings : cart_items[c][l] > 0 <=> cart_items[c][l] # 0
      BY InventoryAssumption DEF InventoryTypeOK
    <2> QED
      BY <1>3, <2>1 DEF lines_in
  <1>6. cart_store' = [cart_store EXCEPT ![c] = IF last THEN NoStore ELSE cart_store[c]]
    BY <1>2, <1>3 DEF empty_cart_writes, written, InventoryTypeOK
  <1> HIDE DEF left
  <1>7. \A l \in Listings : left[l] = 0 \/ left[l] = cart_items[c][l]
    BY DEF left
  <1> QED
    BY <1>4, <1>5, <1>6, <1>7, InventoryAssumption DEF CartNamesItsStore, InventoryTypeOK

(* Whatever the number of requests, customers, stores and products: a cart   *)
(* that becomes inconsistent was written by a request whose own look at the *)
(* cart was overtaken.                                                     *)
THEOREM StaleLooksAlone == Spec => OnlyStaleLooksSpoilCarts
  <1>1. Init => ReadsFit
    BY DEF Init, ReadsFit, Idle
  <1>2. InventoryInv /\ ReadsFit /\ [Next]_vars => ReadsFit'
    BY ReadsStayFit DEF InventoryInv
  <1>3. InventoryInv /\ ReadsFit /\ [Next]_vars =>
          [ CartNamesItsStore /\ ~CartNamesItsStore'
            => \E t \in Threads : ~LookIsCurrent(t) /\ Idle(t)' ]_vars
    <2> SUFFICES ASSUME InventoryInv, ReadsFit, CartNamesItsStore, ~CartNamesItsStore',
                        NEW t \in Threads, ThreadNext(t)
                 PROVE  ~LookIsCurrent(t) /\ Idle(t)'
      BY DEF Next
    <2>0. InventoryTypeOK
      BY DEF InventoryInv
    <2>1. CASE add_cart_item_writes(t)
      BY <2>0, <2>1, CurrentAdditionsFit
      DEF add_cart_item_writes, Answers, Idle, InventoryTypeOK
    <2>2. CASE empty_cart_writes(t)
      <3>1. PICK c, ls : AnswersDeleting(t, c, ls)
        BY <2>2 DEF empty_cart_writes
      <3>2. Idle(t)'
        BY <3>1 DEF AnswersDeleting, Idle
      <3> QED
        BY <2>0, <2>2, <3>2, CurrentRemovalsFit
    <2>3. ASSUME NEW c \in Customers, NEW k \in Keys \cup {NoKey}, NEW o \in Orders,
                 safe_checkout(t, c, k, o)
          PROVE  CartNamesItsStore'
      BY <2>0, <2>3 DEF safe_checkout, CartNamesItsStore, InventoryTypeOK, EmptyCart
    <2>4. ASSUME UNCHANGED cartVars PROVE CartNamesItsStore'
      BY <2>4 DEF CartNamesItsStore, cartVars
    <2> QED
      BY <2>1, <2>2, <2>3, <2>4
      DEF ThreadNext, edit_reads, edit_writes, add_cart_item_reads, add_cart_item_looks,
          remove_cart_item, clear_cart, empty_cart_reads, empty_cart_deletes,
          restore_order_stock_once, request_aborts
  <1> QED
    BY <1>1, <1>2, <1>3, InitInventory, StepInventory, PTL
    DEF Spec, OnlyStaleLooksSpoilCarts
================================================================================
