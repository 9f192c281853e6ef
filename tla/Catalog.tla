------------------------------- MODULE Catalog -------------------------------
(* The products of merchants and their cache in Redis                             *)
(* (src/src/merchant-products/): cache-aside reads of one product and of the list  *)
(* with its stock figures, writes that drop the cached answers of the merchant,    *)
(* and a Redis that may fail to.  A handler is a sequence of steps, one per        *)
(* database or cache call.                                                         *)
EXTENDS Integers, FiniteSets

CONSTANTS
    Merchants,
    Reqs,         \* slots for handlers under way at the same time
    MaxProducts,  \* bound: products ever created
    Stocks,       \* stock quantities: on both sides of the limits of deriveStatus
    MaxFailures,  \* bound: invalidations that fail
    None

Assumptions ==
    /\ Stocks \subseteq Nat
    /\ {MaxProducts, MaxFailures} \subseteq Nat
    /\ None \notin Merchants

VARIABLES
    product,   \* the merchant products collection
    item,      \* the cached answers of getProduct
    list,      \* the cached answers of listMyProducts, for one query of each merchant
    req,       \* the handlers in flight
    failures,  \* invalidations that failed
    gone,      \* products deleted, for the properties
    outdated,  \* cached answers known to miss a write: [items, lists]
    overlapped \* products of which two updates overlapped

vars == <<product, item, list, req, failures, gone, outdated, overlapped>>

-----------------------------------------------------------------------------
Products == 1..MaxProducts

Labels == {"In Stock", "Low Stock", "Out of Stock"}

deriveStatus(stockQuantity) ==
    CASE stockQuantity <= 0  -> "Out of Stock"
      [] stockQuantity \in 1..10 -> "Low Stock"
      [] OTHER               -> "In Stock"

Product == [merchant: Merchants \cup {None}, stockQuantity: Stocks \cup {0},
            status: Labels]

NoProduct == [merchant |-> None, stockQuantity |-> 0, status |-> "Out of Stock"]

\* What a list answers: the products, and how many are low or out of stock.
Answer == [rows: [Products -> Product], low: 0..MaxProducts, out: 0..MaxProducts]

NoAnswer == [rows |-> [p \in Products |-> NoProduct], low |-> 0, out |-> 0]

Step == {"idle", "insert", "save", "delete", "invalidate", "get_fetch", "get_store",
         "list_rows", "list_stats", "list_store"}

Request == [at: Step, merchant: Merchants \cup {None}, id: Products \cup {0},
            read: Product, mine: Product, answer: Answer]

Idle == [at |-> "idle", merchant |-> None, id |-> 0, read |-> NoProduct,
         mine |-> NoProduct, answer |-> NoAnswer]

Exists(p) == product[p] # NoProduct
Free(r) == req[r].at = "idle"
Begin(r, q) == Free(r) /\ req' = [req EXCEPT ![r] = q]
Goto(r, at) == req' = [req EXCEPT ![r] = [Idle EXCEPT !.at = at, !.merchant = req[r].merchant]]
Finish(r) == req' = [req EXCEPT ![r] = Idle]

Saved(now, read, mine) ==
    [f \in DOMAIN now |-> IF mine[f] = read[f] THEN now[f] ELSE mine[f]]

Init ==
    /\ product = [p \in Products |-> NoProduct]
    /\ item = [p \in Products |-> None]
    /\ list = [m \in Merchants |-> None]
    /\ req = [r \in Reqs |-> Idle]
    /\ failures = 0
    /\ gone = {}
    /\ outdated = [items |-> {}, lists |-> {}]
    /\ overlapped = {}

-----------------------------------------------------------------------------
(* Writes *)

Create(r, m, stockQuantity) ==
    /\ \E p \in Products :
        /\ ~Exists(p) /\ p \notin gone
        /\ \A q \in Products : q < p => Exists(q) \/ q \in gone
        /\ product' = [product EXCEPT ![p] =
               [merchant |-> m, stockQuantity |-> stockQuantity,
                status |-> deriveStatus(stockQuantity)]]
    /\ Begin(r, [Idle EXCEPT !.at = "invalidate", !.merchant = m])
    /\ UNCHANGED <<item, list, failures, gone, outdated, overlapped>>

Updating(p) == {r \in Reqs : req[r].at = "save" /\ req[r].id = p}

\* Regression: the status is left as it was when the stock changes.
UpdateFindStock(r, p, stockQuantity) ==
    /\ Exists(p)
    /\ Begin(r, [Idle EXCEPT !.at = "save", !.merchant = product[p].merchant, !.id = p,
                 !.read = product[p],
                 !.mine = [product[p] EXCEPT !.stockQuantity = stockQuantity]])
    /\ overlapped' = IF Updating(p) = {} THEN overlapped ELSE overlapped \cup {p}
    /\ UNCHANGED <<product, item, list, failures, gone, outdated>>

\* The stock and its status change together.
UpdateFind(r, p, stockQuantity) ==
    /\ Exists(p)
    /\ Begin(r, [Idle EXCEPT !.at = "save", !.merchant = product[p].merchant, !.id = p,
                 !.read = product[p],
                 !.mine = [product[p] EXCEPT !.stockQuantity = stockQuantity,
                                             !.status = deriveStatus(stockQuantity)]])
    /\ overlapped' = IF Updating(p) = {} THEN overlapped ELSE overlapped \cup {p}
    /\ UNCHANGED <<product, item, list, failures, gone, outdated>>

\* save() of a document that is gone throws.
UpdateSave(r) ==
    /\ req[r].at = "save"
    /\ LET p == req[r].id
       IN  IF Exists(p)
           THEN /\ product' = [product EXCEPT ![p] = Saved(@, req[r].read, req[r].mine)]
                /\ Goto(r, "invalidate")
           ELSE Finish(r) /\ UNCHANGED product
    /\ UNCHANGED <<item, list, failures, gone, outdated, overlapped>>

DeleteFind(r, p) ==
    /\ Exists(p)
    /\ Begin(r, [Idle EXCEPT !.at = "delete", !.merchant = product[p].merchant, !.id = p])
    /\ UNCHANGED <<product, item, list, failures, gone, outdated, overlapped>>

Delete(r) ==
    /\ req[r].at = "delete"
    /\ product' = [product EXCEPT ![req[r].id] = NoProduct]
    /\ gone' = gone \cup {req[r].id}
    /\ Goto(r, "invalidate")
    /\ UNCHANGED <<item, list, failures, outdated, overlapped>>

\* The keys of a product carry its merchant, deleted or not.
CachedOf(m) ==
    {p \in Products : item[p] # None /\ item[p].merchant = m}

\* Regression: only the lists are dropped.
InvalidateLists(r) ==
    /\ req[r].at = "invalidate"
    /\ list' = [list EXCEPT ![req[r].merchant] = None]
    /\ outdated' = [outdated EXCEPT !.lists = @ \ {req[r].merchant}]
    /\ Finish(r)
    /\ UNCHANGED <<product, item, failures, gone, overlapped>>

\* Every cached answer of the merchant is dropped.
Invalidate(r) ==
    /\ req[r].at = "invalidate"
    /\ LET m == req[r].merchant
       IN  /\ list' = [list EXCEPT ![m] = None]
           /\ item' = [p \in Products |-> IF p \in CachedOf(m) THEN None ELSE item[p]]
           /\ outdated' = [items |-> outdated.items \ CachedOf(m),
                           lists |-> outdated.lists \ {m}]
    /\ Finish(r)
    /\ UNCHANGED <<product, failures, gone, overlapped>>

\* RedisService logs the error of a failed call and goes on.
InvalidateFails(r) ==
    /\ req[r].at = "invalidate"
    /\ failures < MaxFailures
    /\ failures' = failures + 1
    /\ outdated' = [items |-> outdated.items \cup CachedOf(req[r].merchant),
                    lists |-> outdated.lists \cup {req[r].merchant}]
    /\ Finish(r)
    /\ UNCHANGED <<product, item, list, gone, overlapped>>

-----------------------------------------------------------------------------
(* Reads *)

\* A hit is the whole of the handler.
GetProduct(r, p, m) ==
    /\ ~(item[p] # None /\ item[p].merchant = m)
    /\ Begin(r, [Idle EXCEPT !.at = "get_fetch", !.merchant = m, !.id = p])
    /\ UNCHANGED <<product, item, list, failures, gone, outdated, overlapped>>

\* Regression: an answer is stored for a product that is not there, too.
GetFetchMissing(r) ==
    /\ req[r].at = "get_fetch"
    /\ req' = [req EXCEPT ![r].at = "get_store", ![r].read = product[req[r].id]]
    /\ UNCHANGED <<product, item, list, failures, gone, outdated, overlapped>>

\* A product that is not there, or not the merchant's, is refused and not stored.
GetFetch(r) ==
    /\ req[r].at = "get_fetch"
    /\ LET p == req[r].id
       IN  IF Exists(p) /\ product[p].merchant = req[r].merchant
           THEN req' = [req EXCEPT ![r].at = "get_store", ![r].read = product[p]]
           ELSE Finish(r)
    /\ UNCHANGED <<product, item, list, failures, gone, outdated, overlapped>>

GetStore(r) ==
    /\ req[r].at = "get_store"
    /\ LET p == req[r].id
       IN  /\ item' = [item EXCEPT ![p] = req[r].read]
           /\ outdated' = [outdated EXCEPT !.items = IF req[r].read = product[p]
                                                     THEN @ \ {p} ELSE @ \cup {p}]
    /\ Finish(r)
    /\ UNCHANGED <<product, list, failures, gone, overlapped>>

ListMyProducts(r, m) ==
    /\ list[m] = None
    /\ Begin(r, [Idle EXCEPT !.at = "list_rows", !.merchant = m])
    /\ UNCHANGED <<product, item, list, failures, gone, outdated, overlapped>>

Mine(m) == {p \in Products : product[p].merchant = m}
RowsOf(m) == [p \in Products |-> IF p \in Mine(m) THEN product[p] ELSE NoProduct]

\* lowStockProducts and outOfStockProducts count quantities, not statuses.
LowStock(m) == Cardinality({p \in Mine(m) : product[p].stockQuantity \in 1..10})
OutOfStock(m) == Cardinality({p \in Mine(m) : product[p].stockQuantity = 0})

\* The queries run at the same time: a write can fall between the rows and the counts.
ListRows(r) ==
    /\ req[r].at = "list_rows"
    /\ req' = [req EXCEPT ![r].at = "list_stats", ![r].answer.rows = RowsOf(req[r].merchant)]
    /\ UNCHANGED <<product, item, list, failures, gone, outdated, overlapped>>

ListStats(r) ==
    /\ req[r].at = "list_stats"
    /\ req' = [req EXCEPT ![r].at = "list_store", ![r].answer.low = LowStock(req[r].merchant),
                                                  ![r].answer.out = OutOfStock(req[r].merchant)]
    /\ UNCHANGED <<product, item, list, failures, gone, outdated, overlapped>>

ListAnswer(m) == [rows |-> RowsOf(m), low |-> LowStock(m), out |-> OutOfStock(m)]

ListStore(r) ==
    /\ req[r].at = "list_store"
    /\ LET m == req[r].merchant
       IN  /\ list' = [list EXCEPT ![m] = req[r].answer]
           /\ outdated' = [outdated EXCEPT !.lists = IF req[r].answer = ListAnswer(m)
                                                     THEN @ \ {m} ELSE @ \cup {m}]
    /\ Finish(r)
    /\ UNCHANGED <<product, item, failures, gone, overlapped>>

\* 300 seconds for a product, 120 for a list.
ItemTimesOut(p) ==
    /\ item[p] # None
    /\ item' = [item EXCEPT ![p] = None]
    /\ outdated' = [outdated EXCEPT !.items = @ \ {p}]
    /\ UNCHANGED <<product, list, req, failures, gone, overlapped>>

ListTimesOut(m) ==
    /\ list[m] # None
    /\ list' = [list EXCEPT ![m] = None]
    /\ outdated' = [outdated EXCEPT !.lists = @ \ {m}]
    /\ UNCHANGED <<product, item, req, failures, gone, overlapped>>

-----------------------------------------------------------------------------
Asked(r) ==
    \/ \E m \in Merchants, s \in Stocks : Create(r, m, s)
    \/ \E p \in Products, s \in Stocks : UpdateFind(r, p, s)
    \/ \E p \in Products : DeleteFind(r, p) \/ \E m \in Merchants : GetProduct(r, p, m)
    \/ \E m \in Merchants : ListMyProducts(r, m)

HandlerStep(r) ==
    \/ UpdateSave(r) \/ Delete(r) \/ Invalidate(r) \/ InvalidateFails(r)
    \/ GetFetch(r) \/ GetStore(r) \/ ListRows(r) \/ ListStats(r) \/ ListStore(r)

Next ==
    \/ \E r \in Reqs : (Free(r) /\ Asked(r)) \/ HandlerStep(r)
    \/ \E p \in Products : ItemTimesOut(p)
    \/ \E m \in Merchants : ListTimesOut(m)

Spec == Init /\ [][Next]_vars

\* A handler under way goes on, and an answer in Redis times out.
Fairness ==
    /\ \A r \in Reqs : WF_vars(HandlerStep(r))
    /\ \A p \in Products : WF_vars(ItemTimesOut(p))
    /\ \A m \in Merchants : WF_vars(ListTimesOut(m))

FairSpec == Spec /\ Fairness

-----------------------------------------------------------------------------
(* Properties *)

\* Every variable stays within its type.
TypeOK ==
    /\ product \in [Products -> Product]
    /\ item \in [Products -> Product \cup {None}]
    /\ list \in [Merchants -> Answer \cup {None}]
    /\ req \in [Reqs -> Request]
    /\ failures \in 0..MaxFailures
    /\ gone \subseteq Products
    /\ outdated \in [items: SUBSET Products, lists: SUBSET Merchants]
    /\ overlapped \subseteq Products

WillDrop(m) == \E r \in Reqs : req[r].at = "invalidate" /\ req[r].merchant = m

\* A cached product or list agrees with the collection, or is about to be dropped,
\* unless a read stored it after a write it had not seen, or an invalidation failed
\* (invalidateMerchantProductCache).
CacheFollows ==
    /\ \A p \in Products :
        item[p] # None /\ p \notin outdated.items => item[p] = product[p] \/ WillDrop(item[p].merchant)
    /\ \A m \in Merchants :
        list[m] # None /\ m \notin outdated.lists => list[m] = ListAnswer(m) \/ WillDrop(m)

\* The status shown is the one of the quantity in stock, unless two updates of the
\* product overlapped: the later save can write one of the two fields only.
StatusFollowsStock ==
    \A p \in Products :
        Exists(p) /\ p \notin overlapped => product[p].status = deriveStatus(product[p].stockQuantity)

\* Whatever raced or failed, a deleted product is out of the cache for good in the end:
\* reads do not store it again, and what they stored before times out.
DeletedLeavesCache ==
    \A p \in Products : p \in gone ~> [](item[p] = None)
=============================================================================
