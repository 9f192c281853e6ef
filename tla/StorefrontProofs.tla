--------------------------- MODULE StorefrontProofs ---------------------------
(* Proofs about what customers browse (MCStorefront), for any number of merchants,   *)
(* products, advertisements, messages, vouchers and handlers.  Banners and vouchers  *)
(* are proved in BannersProofs and VouchersProofs; products (C) and advertisements   *)
(* (L) here.                                                                         *)
EXTENDS MCStorefront, BannersProofs

(* Products *)

\* A product that was created, deleted or not: its id is not given to another.
Known(p) == C!Exists(p) \/ p \in cgone

ProductsOK ==
    \A p \in C!Products : C!Exists(p) => product[p].merchant \in Merchants /\ p \notin cgone

ItemsKnown == \A p \in C!Products : item[p] # None => Known(p)

Saves(r, p) == creq[r].at = "save" /\ creq[r].id = p

\* What a handler knows of the product it is about to write or to store, however long
\* ago it found it.
HandlerOK(r) ==
    /\ creq[r].at \in {"save", "delete"} =>
          /\ creq[r].id \in C!Products /\ Known(creq[r].id) /\ creq[r].merchant \in Merchants
          /\ C!Exists(creq[r].id) => product[creq[r].id].merchant = creq[r].merchant
    /\ creq[r].at = "save" =>
          /\ creq[r].mine.merchant = creq[r].read.merchant
          /\ creq[r].mine.status = C!deriveStatus(creq[r].mine.stockQuantity)
          /\ C!Exists(creq[r].id) /\ creq[r].id \notin overlapped
                => creq[r].read = product[creq[r].id]
    /\ creq[r].at \in {"get_fetch", "get_store"} => creq[r].id \in C!Products
    /\ creq[r].at = "get_store" => Known(creq[r].id)
    /\ creq[r].at \in {"invalidate", "get_fetch", "list_rows", "list_stats", "list_store"}
          => creq[r].merchant \in Merchants

HandlersOK == \A r \in Reqs : HandlerOK(r)

\* Unless updates overlapped, one handler at most is about to save a product.
OneSaves ==
    \A p \in C!Products \ overlapped : \A r, s \in Reqs : Saves(r, p) /\ Saves(s, p) => r = s

CInv ==
    /\ C!TypeOK /\ ProductsOK /\ ItemsKnown /\ HandlersOK /\ OneSaves
    /\ C!StatusFollowsStock /\ C!CacheFollows

-----------------------------------------------------------------------------
CMoved(r) ==
    /\ creq' \in [Reqs -> C!Request]
    /\ \A s \in Reqs \ {r} : creq'[s] = creq[s]

LEMMA CCount ==
    ASSUME NEW S, S \subseteq C!Products
    PROVE  C!Cardinality(S) \in 0..MaxProducts
  <1>1. C!Cardinality(S) = Cardinality(S)
    BY DEF C!Cardinality, Cardinality
  <1>2. IsFiniteSet(C!Products) /\ Cardinality(C!Products) = MaxProducts
    BY CatalogAssumptions, FS_Interval DEF C!Assumptions, C!Products
  <1>3. Cardinality(S) <= MaxProducts /\ Cardinality(S) \in Nat
    BY <1>2, FS_Subset, FS_CardinalityType
  <1> QED BY <1>1, <1>3, CatalogAssumptions DEF C!Assumptions

LEMMA CStatus == \A n : C!deriveStatus(n) \in C!Labels
  BY DEF C!deriveStatus, C!Labels

LEMMA CIdle == C!Idle \in C!Request /\ C!NoProduct \in C!Product /\ C!NoAnswer \in C!Answer
  <1>1. C!NoProduct \in C!Product
    BY DEF C!NoProduct, C!Product, C!Labels
  <1>2. 0 \in 0..MaxProducts
    BY CatalogAssumptions DEF C!Assumptions
  <1>3. C!NoAnswer \in C!Answer
    BY <1>1, <1>2 DEF C!NoAnswer, C!Answer
  <1> QED BY <1>1, <1>3 DEF C!Idle, C!Request, C!Step

LEMMA CNone == C!NoProduct.merchant = None
  BY DEF C!NoProduct

\* What a list answers.
LEMMA CAnswers ==
    ASSUME C!TypeOK, NEW m
    PROVE  /\ C!RowsOf(m) \in [C!Products -> C!Product]
           /\ C!LowStock(m) \in 0..MaxProducts /\ C!OutOfStock(m) \in 0..MaxProducts
  <1>1. C!RowsOf(m) \in [C!Products -> C!Product]
    BY CIdle DEF C!RowsOf, C!TypeOK
  <1>2. C!LowStock(m) \in 0..MaxProducts
    <2> DEFINE S == {p \in C!Mine(m) : product[p].stockQuantity \in 1..10}
    <2>1. S \subseteq C!Products
      BY DEF C!Mine
    <2> HIDE DEF S
    <2>2. C!Cardinality(S) \in 0..MaxProducts
      BY <2>1, CCount
    <2> QED BY <2>2 DEF S, C!LowStock
  <1>3. C!OutOfStock(m) \in 0..MaxProducts
    <2> DEFINE S == {p \in C!Mine(m) : product[p].stockQuantity = 0}
    <2>1. S \subseteq C!Products
      BY DEF C!Mine
    <2> HIDE DEF S
    <2>2. C!Cardinality(S) \in 0..MaxProducts
      BY <2>1, CCount
    <2> QED BY <2>2 DEF S, C!OutOfStock
  <1> QED BY <1>1, <1>2, <1>3

\* The list of a merchant depends on the merchant's products alone.
LEMMA CAnswerKept ==
    ASSUME NEW m,
           \A p \in C!Products : \/ product'[p] = product[p]
                                 \/ product[p].merchant # m /\ product'[p].merchant # m
    PROVE  C!ListAnswer(m)' = C!ListAnswer(m)
  <1>1. C!Mine(m)' = C!Mine(m) /\ \A p \in C!Mine(m) : product'[p] = product[p]
    BY DEF C!Mine
  <1>2. C!RowsOf(m)' = C!RowsOf(m)
    BY <1>1 DEF C!RowsOf
  <1>3. {p \in C!Mine(m)' : product'[p].stockQuantity \in 1..10}
          = {p \in C!Mine(m) : product[p].stockQuantity \in 1..10}
    BY <1>1
  <1>4. {p \in C!Mine(m)' : product'[p].stockQuantity = 0}
          = {p \in C!Mine(m) : product[p].stockQuantity = 0}
    BY <1>1
  <1>5. C!LowStock(m)' = C!LowStock(m)
    BY <1>3 DEF C!LowStock
  <1>6. C!OutOfStock(m)' = C!OutOfStock(m)
    BY <1>4 DEF C!OutOfStock
  <1> QED BY <1>2, <1>5, <1>6 DEF C!ListAnswer

\* A handler that did not move knows what it knew, when products kept their merchants and
\* what it read is still there.
ProductsKept ==
    /\ cgone \subseteq cgone' /\ overlapped \subseteq overlapped'
    /\ \A p \in C!Products : C!Exists(p) =>
         IF C!Exists(p)' THEN product'[p].merchant = product[p].merchant ELSE p \in cgone'
    /\ ProductsOK'

LEMMA COthers ==
    ASSUME CInv, ProductsKept, NEW r \in Reqs, creq'[r] = creq[r],
           Saves(r, creq[r].id) /\ creq[r].id \notin overlapped' /\ C!Exists(creq[r].id)'
              => product'[creq[r].id] = product[creq[r].id]
    PROVE  HandlerOK(r)'
  <1>1. HandlerOK(r)
    BY DEF CInv, HandlersOK
  <1>2. ASSUME NEW p \in C!Products, Known(p)
        PROVE  Known(p)' /\ (C!Exists(p)' => C!Exists(p) /\ product'[p].merchant = product[p].merchant)
    BY <1>2 DEF Known, ProductsKept, ProductsOK
  <1>3. CASE creq[r].at \in {"save", "delete"}
    <2>1. PICK p \in C!Products : p = creq[r].id
      BY <1>1, <1>3 DEF HandlerOK
    <2>2. Known(p) /\ Known(p)' /\ (C!Exists(p)' => C!Exists(p) /\ product'[p].merchant = product[p].merchant)
      BY <1>1, <1>2, <1>3, <2>1 DEF HandlerOK
    <2>3. creq[r].at = "save" /\ p \notin overlapped' /\ C!Exists(p)' => creq[r].read = product'[p]
      BY <1>1, <2>1, <2>2 DEF HandlerOK, Saves, ProductsKept
    <2> QED BY <1>1, <1>3, <2>1, <2>2, <2>3 DEF HandlerOK
  <1>4. CASE creq[r].at \notin {"save", "delete"}
    BY <1>1, <1>2, <1>4 DEF HandlerOK
  <1> QED BY <1>3, <1>4

\* What a handler knows that is done, or goes on to drop the answers of a merchant.
LEMMA CPlain ==
    ASSUME NEW r \in Reqs,
           creq'[r].at \in {"idle", "invalidate", "get_fetch", "list_rows", "list_stats", "list_store"},
           creq'[r].at \in {"invalidate", "get_fetch", "list_rows", "list_stats", "list_store"}
              => creq'[r].merchant \in Merchants,
           creq'[r].at = "get_fetch" => creq'[r].id \in C!Products
    PROVE  HandlerOK(r)'
  BY DEF HandlerOK

-----------------------------------------------------------------------------
\* A handler that read, and left products and cache alone.
LEMMA CRead ==
    ASSUME CInv, NEW r \in Reqs, CMoved(r), HandlerOK(r)', creq[r].at # "invalidate", OneSaves',
           overlapped \subseteq overlapped', overlapped' \subseteq C!Products,
           UNCHANGED <<product, item, list, failures, cgone, coutdated>>
    PROVE  CInv'
  <1>1. C!TypeOK'
    BY DEF CInv, C!TypeOK, CMoved
  <1>2. ProductsOK' /\ ItemsKnown'
    BY DEF CInv, ProductsOK, ItemsKnown, Known, C!Exists
  <1>3. HandlersOK'
    <2>1. ProductsKept
      BY <1>2 DEF ProductsKept, C!Exists
    <2> QED BY <2>1, COthers DEF HandlersOK, CMoved
  <1>4. C!StatusFollowsStock'
    BY DEF CInv, C!StatusFollowsStock, C!Exists
  <1>5. \A m : C!WillDrop(m) => C!WillDrop(m)'
    BY DEF C!WillDrop, CMoved
  <1>6. \A m : C!ListAnswer(m)' = C!ListAnswer(m)
    BY CAnswerKept
  <1>7. C!CacheFollows'
    BY <1>5, <1>6 DEF CInv, C!CacheFollows
  <1> QED BY <1>1, <1>2, <1>3, <1>4, <1>7, CIdle DEF CInv

\* A handler that does not save afterwards leaves the other saves as they were.
LEMMA OneSavesKept ==
    ASSUME OneSaves, NEW r \in Reqs, CMoved(r), creq'[r].at # "save",
           overlapped \subseteq overlapped'
    PROVE  OneSaves'
  BY DEF OneSaves, Saves, CMoved

\* A handler wrote a product of merchant m and goes on to drop the answers of m.
LEMMA CWrite ==
    ASSUME CInv, NEW r \in Reqs, CMoved(r), creq[r].at # "invalidate",
           NEW m \in Merchants, creq'[r].at = "invalidate", creq'[r].merchant = m,
           NEW p \in C!Products, NEW x \in C!Product, product' = [product EXCEPT ![p] = x],
           {product[p].merchant, x.merchant} \subseteq {m, None},
           x = product[p] \/ ~Known(p) \/ product[p].merchant = m,
           cgone \subseteq cgone', cgone' \subseteq C!Products,
           C!Exists(p) => IF C!Exists(p)' THEN x.merchant = product[p].merchant ELSE p \in cgone',
           ProductsOK', Known(p)',
           C!Exists(p)' /\ p \notin overlapped => x.status = C!deriveStatus(x.stockQuantity),
           \A s \in Reqs \ {r} : Saves(s, p) => p \in overlapped \/ ~C!Exists(p)',
           UNCHANGED <<item, list, failures, coutdated, overlapped>>
    PROVE  CInv'
  <1>1. /\ product' \in [C!Products -> C!Product] /\ product'[p] = x
        /\ \A q \in C!Products \ {p} : product'[q] = product[q]
    BY DEF CInv, C!TypeOK
  <1>2. C!TypeOK'
    BY <1>1 DEF CInv, C!TypeOK, CMoved
  <1>3. ProductsKept
    BY <1>1 DEF ProductsKept, C!Exists
  <1>4. ItemsKnown'
    BY <1>1 DEF CInv, ItemsKnown, Known, C!Exists
  <1>5. HandlersOK'
    <2>1. HandlerOK(r)'
      BY CPlain
    <2>2. ASSUME NEW s \in Reqs \ {r} PROVE HandlerOK(s)'
      <3>1. creq'[s] = creq[s]
        BY DEF CMoved
      <3>2. ASSUME Saves(s, creq[s].id), creq[s].id \notin overlapped', C!Exists(creq[s].id)'
            PROVE  product'[creq[s].id] = product[creq[s].id]
        <4>1. creq[s].id \in C!Products /\ creq'[s].id = creq[s].id
          BY <3>1, <3>2 DEF CInv, HandlersOK, HandlerOK, Saves
        <4>2. creq[s].id # p
          BY <3>1, <3>2, <4>1 DEF C!Exists
        <4> QED BY <1>1, <4>1, <4>2
      <3> QED BY <1>3, <3>1, <3>2, COthers
    <2> QED BY <2>1, <2>2 DEF HandlersOK
  <1>6. OneSaves'
    BY OneSavesKept DEF CInv
  <1>7. C!StatusFollowsStock'
    <2> SUFFICES ASSUME NEW q \in C!Products, C!Exists(q)', q \notin overlapped
                 PROVE  product'[q].status = C!deriveStatus(product'[q].stockQuantity)
      BY DEF C!StatusFollowsStock
    <2>1. CASE q = p
      BY <1>1, <2>1
    <2>2. CASE q # p
      BY <1>1, <2>2 DEF CInv, C!StatusFollowsStock, C!Exists
    <2> QED BY <2>1, <2>2
  <1>8. /\ C!WillDrop(m)'
        /\ \A n : C!WillDrop(n) => C!WillDrop(n)'
    BY DEF C!WillDrop, CMoved
  <1>9. C!CacheFollows'
    <2>1. ASSUME NEW q \in C!Products, item[q] # None, q \notin coutdated.items
          PROVE  item[q] = product'[q] \/ C!WillDrop(item[q].merchant)'
      <3>1. item[q] = product[q] \/ C!WillDrop(item[q].merchant)
        BY <2>1 DEF CInv, C!CacheFollows
      <3>2. Known(q)
        BY <2>1 DEF CInv, ItemsKnown
      <3>3. CASE q = p
        BY <1>1, <1>8, <3>1, <3>2, <3>3
      <3>4. CASE q # p
        BY <1>1, <1>8, <3>1, <3>4
      <3> QED BY <3>3, <3>4
    <2>2. ASSUME NEW n \in Merchants, list[n] # None, n \notin coutdated.lists
          PROVE  list[n] = C!ListAnswer(n)' \/ C!WillDrop(n)'
      <3>1. CASE n = m
        BY <1>8, <3>1
      <3>2. CASE n # m
        <4>1. n # None
          BY CatalogAssumptions DEF C!Assumptions
        <4>2. C!ListAnswer(n)' = C!ListAnswer(n)
          BY <1>1, <3>2, <4>1, CAnswerKept
        <4>3. list[n] = C!ListAnswer(n) \/ C!WillDrop(n)
          BY <2>2 DEF CInv, C!CacheFollows
        <4> QED BY <1>8, <4>2, <4>3
      <3> QED BY <3>1, <3>2
    <2> QED BY <2>1, <2>2 DEF C!CacheFollows
  <1> QED BY <1>2, <1>4, <1>5, <1>6, <1>7, <1>9 DEF CInv

\* A step of the cache alone.
LEMMA CCache ==
    ASSUME CInv, NEW r, CMoved(r), creq'[r] = creq[r] \/ creq'[r] = C!Idle,
           UNCHANGED <<product, cgone, overlapped>>,
           item' \in [C!Products -> C!Product \cup {None}],
           list' \in [Merchants -> C!Answer \cup {None}],
           failures' \in 0..MaxFailures,
           coutdated' \in [items: SUBSET C!Products, lists: SUBSET Merchants],
           ItemsKnown', C!CacheFollows'
    PROVE  CInv'
  <1>1. C!TypeOK'
    BY DEF CInv, C!TypeOK, CMoved
  <1>2. ProductsOK' /\ C!StatusFollowsStock'
    BY DEF CInv, ProductsOK, C!StatusFollowsStock, C!Exists
  <1>3. HandlersOK'
    <2>1. ProductsKept
      BY <1>2 DEF ProductsKept, C!Exists
    <2>2. r \in Reqs /\ creq'[r] = C!Idle => HandlerOK(r)'
      BY CPlain DEF C!Idle
    <2> QED BY <2>1, <2>2, COthers DEF HandlersOK, CMoved
  <1>4. OneSaves'
    BY DEF CInv, OneSaves, Saves, CMoved, C!Idle
  <1> QED BY <1>1, <1>2, <1>3, <1>4 DEF CInv

\* The merchants whose answers are still to be dropped, when r is done.
LEMMA CDrops ==
    ASSUME NEW r \in Reqs, \A s \in Reqs \ {r} : creq'[s] = creq[s], NEW m, C!WillDrop(m),
           creq[r].at # "invalidate" \/ creq[r].merchant # m
    PROVE  C!WillDrop(m)'
  BY DEF C!WillDrop

-----------------------------------------------------------------------------
LEMMA CCreate ==
    ASSUME CInv, NEW r \in Reqs, NEW m \in Merchants, NEW s \in Stocks, C!Create(r, m, s)
    PROVE  CInv'
  <1> DEFINE x == [merchant |-> m, stockQuantity |-> s, status |-> C!deriveStatus(s)]
             q == [C!Idle EXCEPT !.at = "invalidate", !.merchant = m]
  <1>1. PICK p \in C!Products : ~C!Exists(p) /\ p \notin cgone /\ product' = [product EXCEPT ![p] = x]
    BY DEF C!Create
  <1>2. /\ creq[r].at = "idle" /\ creq' = [creq EXCEPT ![r] = q]
        /\ UNCHANGED <<item, list, failures, cgone, coutdated, overlapped>>
    BY DEF C!Create, C!Begin, C!Free
  <1>3. q \in C!Request /\ q.at = "invalidate" /\ q.merchant = m
    BY CIdle DEF C!Idle, C!Request, C!Step
  <1>4. x \in C!Product /\ x.merchant = m /\ x.status = C!deriveStatus(x.stockQuantity)
    BY CStatus DEF C!Product
  <1> HIDE DEF x, q
  <1>5. CMoved(r) /\ creq'[r] = q
    BY <1>2, <1>3 DEF CMoved, CInv, C!TypeOK
  <1>6. product[p].merchant = None
    BY <1>1, CNone DEF C!Exists
  <1>7. /\ product'[p] = x /\ \A o \in C!Products \ {p} : product'[o] = product[o]
    BY <1>1 DEF CInv, C!TypeOK
  <1>8. C!Exists(p)' /\ Known(p)'
    BY <1>4, <1>7, CNone, CatalogAssumptions DEF C!Exists, Known, C!Assumptions
  <1>9. ProductsOK'
    BY <1>1, <1>2, <1>4, <1>7 DEF CInv, ProductsOK, C!Exists
  <1>10. ~Known(p)
    BY <1>1 DEF Known
  <1>11. \A h \in Reqs : ~Saves(h, p)
    BY <1>10 DEF CInv, HandlersOK, HandlerOK, Saves
  <1>12. /\ cgone \subseteq cgone' /\ cgone' \subseteq C!Products
         /\ creq[r].at # "invalidate" /\ ~C!Exists(p)
         /\ {product[p].merchant, x.merchant} \subseteq {m, None}
         /\ creq'[r].at = "invalidate" /\ creq'[r].merchant = m
    BY <1>1, <1>2, <1>3, <1>4, <1>5, <1>6 DEF CInv, C!TypeOK
  <1> QED BY <1>1, <1>2, <1>4, <1>5, <1>8, <1>9, <1>10, <1>11, <1>12, CWrite

LEMMA CSaved ==
    ASSUME NEW now \in C!Product, NEW read \in C!Product, NEW mine \in C!Product
    PROVE  /\ C!Saved(now, read, mine) \in C!Product
           /\ mine.merchant = read.merchant => C!Saved(now, read, mine).merchant = now.merchant
           /\ now = read => C!Saved(now, read, mine) = mine
  <1>1. DOMAIN now = {"merchant", "stockQuantity", "status"}
    BY DEF C!Product
  <1>2. C!Saved(now, read, mine) \in C!Product
    BY <1>1 DEF C!Saved, C!Product
  <1>3. \A f \in {"merchant", "stockQuantity", "status"} :
          C!Saved(now, read, mine)[f] = IF mine[f] = read[f] THEN now[f] ELSE mine[f]
    BY <1>1 DEF C!Saved
  <1>4. now = read => C!Saved(now, read, mine) = mine
    BY <1>2, <1>3 DEF C!Product
  <1> QED BY <1>2, <1>3, <1>4

LEMMA CGoto ==
    ASSUME CInv, NEW r \in Reqs, C!Goto(r, "invalidate")
    PROVE  /\ CMoved(r) /\ creq'[r].at = "invalidate" /\ creq'[r].merchant = creq[r].merchant
  <1> DEFINE q == [C!Idle EXCEPT !.at = "invalidate", !.merchant = creq[r].merchant]
  <1>1. creq[r] \in C!Request /\ creq \in [Reqs -> C!Request]
    BY DEF CInv, C!TypeOK
  <1>2. q \in C!Request /\ q.at = "invalidate" /\ q.merchant = creq[r].merchant
    BY <1>1, CIdle DEF C!Idle, C!Request, C!Step
  <1>3. creq' = [creq EXCEPT ![r] = q]
    BY DEF C!Goto
  <1> HIDE DEF q
  <1> QED BY <1>1, <1>2, <1>3 DEF CMoved

LEMMA CFinish ==
    ASSUME CInv, NEW r \in Reqs, C!Finish(r)
    PROVE  CMoved(r) /\ creq'[r] = C!Idle /\ HandlerOK(r)'
  <1>1. CMoved(r) /\ creq'[r] = C!Idle
    BY CIdle DEF C!Finish, CMoved, CInv, C!TypeOK
  <1> QED BY <1>1, CPlain DEF C!Idle

\* The later of two saves may mix two changes; one alone is what its handler made of the
\* product it read.
LEMMA CUpdateSave ==
    ASSUME CInv, NEW r \in Reqs, C!UpdateSave(r)
    PROVE  CInv'
  <1>1. /\ creq[r].at = "save" /\ HandlerOK(r) /\ creq[r] \in C!Request
        /\ UNCHANGED <<item, list, failures, cgone, coutdated, overlapped>>
    BY DEF C!UpdateSave, CInv, HandlersOK, C!TypeOK
  <1>2. PICK p \in C!Products, m \in Merchants : p = creq[r].id /\ m = creq[r].merchant
    BY <1>1 DEF HandlerOK
  <1>3. CASE ~C!Exists(p)
    <2>1. C!Finish(r) /\ UNCHANGED product
      BY <1>2, <1>3 DEF C!UpdateSave
    <2>2. OneSaves'
      BY <1>1, <2>1, CFinish, OneSavesKept DEF CInv, C!Idle
    <2>3. overlapped \subseteq C!Products
      BY DEF CInv, C!TypeOK
    <2> QED BY <1>1, <2>1, <2>2, <2>3, CFinish, CRead
  <1>4. CASE C!Exists(p)
    <2>1. PICK read \in C!Product, mine \in C!Product : read = creq[r].read /\ mine = creq[r].mine
      BY <1>1 DEF C!Request
    <2>2. PICK x : x = C!Saved(product[p], read, mine)
      OBVIOUS
    <2>3. product' = [product EXCEPT ![p] = x] /\ C!Goto(r, "invalidate")
      BY <1>2, <1>4, <2>1, <2>2 DEF C!UpdateSave
    <2>4. /\ product[p] \in C!Product /\ product[p].merchant = m
          /\ mine.merchant = read.merchant
          /\ mine.status = C!deriveStatus(mine.stockQuantity)
          /\ p \notin overlapped => read = product[p]
      BY <1>1, <1>2, <1>4, <2>1 DEF HandlerOK, CInv, C!TypeOK
    <2>5. x \in C!Product /\ x.merchant = m /\ (p \notin overlapped => x = mine)
      BY <2>2, <2>4, CSaved
    <2>6. product'[p] = x /\ \A o \in C!Products \ {p} : product'[o] = product[o]
      BY <2>3 DEF CInv, C!TypeOK
    <2>7. C!Exists(p)' /\ Known(p)'
      BY <2>5, <2>6, CNone, CatalogAssumptions DEF C!Exists, Known, C!Assumptions
    <2>8. ProductsOK'
      BY <1>1, <1>4, <2>5, <2>6 DEF CInv, ProductsOK, C!Exists
    <2>9. \A s \in Reqs \ {r} : Saves(s, p) => p \in overlapped
      BY <1>1, <1>2 DEF CInv, OneSaves, Saves
    <2>10. CMoved(r) /\ creq'[r].at = "invalidate" /\ creq'[r].merchant = m
      BY <1>2, <2>3, CGoto
    <2>11. cgone \subseteq C!Products
      BY DEF CInv, C!TypeOK
    <2> QED BY <1>1, <1>4, <2>3, <2>4, <2>5, <2>7, <2>8, <2>9, <2>10, <2>11, CWrite
  <1> QED BY <1>3, <1>4

LEMMA CDelete ==
    ASSUME CInv, NEW r \in Reqs, C!Delete(r)
    PROVE  CInv'
  <1>1. /\ creq[r].at = "delete" /\ HandlerOK(r) /\ C!Goto(r, "invalidate")
        /\ UNCHANGED <<item, list, failures, coutdated, overlapped>>
    BY DEF C!Delete, CInv, HandlersOK
  <1>2. PICK p \in C!Products, m \in Merchants : p = creq[r].id /\ m = creq[r].merchant
    BY <1>1 DEF HandlerOK
  <1>3. product' = [product EXCEPT ![p] = C!NoProduct] /\ cgone' = cgone \cup {p}
    BY <1>2 DEF C!Delete
  <1>4. product'[p] = C!NoProduct /\ \A o \in C!Products \ {p} : product'[o] = product[o]
    BY <1>3 DEF CInv, C!TypeOK
  <1>5. ~C!Exists(p)' /\ Known(p)'
    BY <1>3, <1>4 DEF C!Exists, Known
  <1>6. ProductsOK'
    BY <1>3, <1>4 DEF CInv, ProductsOK, C!Exists
  <1>7. /\ {product[p].merchant, C!NoProduct.merchant} \subseteq {m, None}
        /\ C!NoProduct = product[p] \/ product[p].merchant = m
    <2>1. CASE C!Exists(p)
      BY <1>1, <1>2, <2>1, CNone DEF HandlerOK
    <2>2. CASE ~C!Exists(p)
      BY <2>2, CNone DEF C!Exists
    <2> QED BY <2>1, <2>2
  <1>8. CMoved(r) /\ creq'[r].at = "invalidate" /\ creq'[r].merchant = m
    BY <1>1, <1>2, CGoto
  <1>9. cgone \subseteq cgone' /\ cgone' \subseteq C!Products
    BY <1>3 DEF CInv, C!TypeOK
  <1>10. creq[r].at # "invalidate"
    BY <1>1
  <1>11. C!Exists(p) => p \in cgone'
    BY <1>3
  <1> QED BY <1>1, <1>3, <1>5, <1>6, <1>7, <1>8, <1>9, <1>10, <1>11, CIdle, CWrite, ZenonT(60)

-----------------------------------------------------------------------------
\* A handler begins by reading: what it found, it knows.
LEMMA CBegin ==
    ASSUME CInv, NEW r \in Reqs, NEW q \in C!Request, C!Begin(r, q), HandlerOK(r)', OneSaves',
           overlapped \subseteq overlapped', overlapped' \subseteq C!Products,
           UNCHANGED <<product, item, list, failures, cgone, coutdated>>
    PROVE  CInv'
  <1>1. CMoved(r) /\ creq[r].at = "idle"
    BY DEF C!Begin, C!Free, CMoved, CInv, C!TypeOK
  <1> QED BY <1>1, CRead

LEMMA CUpdateFind ==
    ASSUME CInv, NEW r \in Reqs, NEW p \in C!Products, NEW s \in Stocks, C!UpdateFind(r, p, s)
    PROVE  CInv'
  <1> DEFINE mine == [product[p] EXCEPT !.stockQuantity = s, !.status = C!deriveStatus(s)]
             q == [C!Idle EXCEPT !.at = "save", !.merchant = product[p].merchant, !.id = p,
                                 !.read = product[p], !.mine = mine]
  <1>1. /\ C!Exists(p) /\ C!Begin(r, q)
        /\ overlapped' = IF C!Updating(p) = {} THEN overlapped ELSE overlapped \cup {p}
        /\ UNCHANGED <<product, item, list, failures, cgone, coutdated>>
    BY DEF C!UpdateFind
  <1>2. product[p] \in C!Product /\ product[p].merchant \in Merchants
    BY <1>1 DEF CInv, C!TypeOK, ProductsOK
  <1>3. /\ mine \in C!Product /\ mine.merchant = product[p].merchant
        /\ mine.status = C!deriveStatus(mine.stockQuantity)
    BY <1>2, CStatus DEF C!Product
  <1> HIDE DEF mine
  <1>4. /\ q \in C!Request /\ q.at = "save" /\ q.id = p /\ q.merchant = product[p].merchant
        /\ q.read = product[p] /\ q.mine = mine
    BY <1>2, <1>3, CIdle DEF C!Idle, C!Request, C!Step
  <1> HIDE DEF q
  <1>5. CMoved(r) /\ creq'[r] = q /\ creq[r].at = "idle"
    BY <1>1, <1>4 DEF C!Begin, C!Free, CMoved, CInv, C!TypeOK
  <1>6. HandlerOK(r)'
    BY <1>1, <1>2, <1>3, <1>4, <1>5 DEF HandlerOK, Known, C!Exists
  <1>7. OneSaves'
    <2> SUFFICES ASSUME NEW o \in C!Products, o \notin overlapped', NEW h \in Reqs, NEW i \in Reqs,
                        Saves(h, o)', Saves(i, o)'
                 PROVE  h = i
      BY DEF OneSaves
    <2>1. CASE o = p
      <3>1. C!Updating(p) = {}
        BY <1>1, <2>1
      <3>2. \A j \in Reqs : ~Saves(j, p)
        BY <3>1 DEF C!Updating, Saves
      <3>3. h = r /\ i = r
        BY <1>5, <2>1, <3>2 DEF CMoved, Saves
      <3> QED BY <3>3
    <2>2. CASE o # p
      <3>1. h # r /\ i # r
        BY <1>4, <1>5, <2>2 DEF Saves
      <3>2. Saves(h, o) /\ Saves(i, o) /\ o \notin overlapped
        BY <1>1, <1>5, <3>1 DEF CMoved, Saves
      <3> QED BY <3>2 DEF CInv, OneSaves
    <2> QED BY <2>1, <2>2
  <1>8. overlapped \subseteq overlapped' /\ overlapped' \subseteq C!Products
    BY <1>1 DEF CInv, C!TypeOK
  <1> QED BY <1>1, <1>4, <1>6, <1>7, <1>8, CBegin

\* The other handlers begin, with what they look up or are going to delete.
LEMMA COtherFinds ==
    ASSUME CInv, NEW r \in Reqs,
           \/ \E p \in C!Products : \/ C!DeleteFind(r, p)
                                    \/ \E m \in Merchants : C!GetProduct(r, p, m)
           \/ \E m \in Merchants : C!ListMyProducts(r, m)
    PROVE  CInv'
  <1>1. ASSUME NEW q \in C!Request, C!Begin(r, q), q.at # "save",
               UNCHANGED <<product, item, list, failures, cgone, coutdated, overlapped>>,
               CMoved(r) /\ creq'[r] = q => HandlerOK(r)'
        PROVE  CInv'
    <2>1. CMoved(r) /\ creq'[r] = q
      BY <1>1 DEF C!Begin, CMoved, CInv, C!TypeOK
    <2>2. OneSaves'
      BY <1>1, <2>1, OneSavesKept DEF CInv
    <2>3. overlapped \subseteq C!Products
      BY DEF CInv, C!TypeOK
    <2> QED BY <1>1, <2>1, <2>2, <2>3, CBegin
  <1>2. ASSUME NEW p \in C!Products, C!DeleteFind(r, p) PROVE CInv'
    <2> DEFINE q == [C!Idle EXCEPT !.at = "delete", !.merchant = product[p].merchant, !.id = p]
    <2>1. /\ C!Exists(p) /\ C!Begin(r, q)
          /\ UNCHANGED <<product, item, list, failures, cgone, coutdated, overlapped>>
      BY <1>2 DEF C!DeleteFind
    <2>2. product[p].merchant \in Merchants
      BY <2>1 DEF CInv, ProductsOK
    <2>3. q \in C!Request /\ q.at = "delete" /\ q.id = p /\ q.merchant = product[p].merchant
      BY <2>2, CIdle DEF C!Idle, C!Request, C!Step
    <2> HIDE DEF q
    <2>4. CMoved(r) /\ creq'[r] = q => HandlerOK(r)'
      BY <2>1, <2>2, <2>3 DEF HandlerOK, Known, C!Exists
    <2> QED BY <1>1, <2>1, <2>3, <2>4
  <1>3. ASSUME NEW p \in C!Products, NEW m \in Merchants, C!GetProduct(r, p, m) PROVE CInv'
    <2> DEFINE q == [C!Idle EXCEPT !.at = "get_fetch", !.merchant = m, !.id = p]
    <2>1. /\ C!Begin(r, q)
          /\ UNCHANGED <<product, item, list, failures, cgone, coutdated, overlapped>>
      BY <1>3 DEF C!GetProduct
    <2>2. q \in C!Request /\ q.at = "get_fetch" /\ q.id = p /\ q.merchant = m
      BY CIdle DEF C!Idle, C!Request, C!Step
    <2> HIDE DEF q
    <2>3. CMoved(r) /\ creq'[r] = q => HandlerOK(r)'
      BY <2>2 DEF HandlerOK
    <2> QED BY <1>1, <2>1, <2>2, <2>3
  <1>4. ASSUME NEW m \in Merchants, C!ListMyProducts(r, m) PROVE CInv'
    <2> DEFINE q == [C!Idle EXCEPT !.at = "list_rows", !.merchant = m]
    <2>1. /\ C!Begin(r, q)
          /\ UNCHANGED <<product, item, list, failures, cgone, coutdated, overlapped>>
      BY <1>4 DEF C!ListMyProducts
    <2>2. q \in C!Request /\ q.at = "list_rows" /\ q.merchant = m
      BY CIdle DEF C!Idle, C!Request, C!Step
    <2> HIDE DEF q
    <2>3. CMoved(r) /\ creq'[r] = q => HandlerOK(r)'
      BY <2>2 DEF HandlerOK
    <2> QED BY <1>1, <2>1, <2>2, <2>3
  <1> QED BY <1>2, <1>3, <1>4

\* A handler under way reads.
LEMMA CReadsOn ==
    ASSUME CInv, NEW r \in Reqs, C!GetFetch(r) \/ C!ListRows(r) \/ C!ListStats(r)
    PROVE  CInv'
  <1>1. /\ creq[r] \in C!Request /\ creq \in [Reqs -> C!Request] /\ HandlerOK(r)
        /\ creq[r].at \in {"get_fetch", "list_rows", "list_stats"}
        /\ UNCHANGED <<product, item, list, failures, cgone, coutdated, overlapped>>
    BY DEF CInv, C!TypeOK, HandlersOK, C!GetFetch, C!ListRows, C!ListStats
  <1>2. CMoved(r) /\ creq'[r].at # "save" /\ HandlerOK(r)'
    <2>1. CASE C!Finish(r)
      BY <2>1, CFinish DEF C!Idle
    <2>2. CASE C!GetFetch(r) /\ ~C!Finish(r)
      <3>1. PICK p \in C!Products : p = creq[r].id
        BY <1>1, <2>2 DEF C!GetFetch, HandlerOK
      <3>2. /\ C!Exists(p)
            /\ creq' = [creq EXCEPT ![r].at = "get_store", ![r].read = product[p]]
        BY <2>2, <3>1 DEF C!GetFetch
      <3>3. product[p] \in C!Product
        BY DEF CInv, C!TypeOK
      <3>4. CMoved(r) /\ creq'[r].at = "get_store" /\ creq'[r].id = p
        BY <1>1, <3>1, <3>2, <3>3 DEF CMoved, C!Request, C!Step
      <3> QED BY <1>1, <3>2, <3>4 DEF HandlerOK, Known, C!Exists
    <2>3. CASE C!ListRows(r)
      <3>1. C!RowsOf(creq[r].merchant) \in [C!Products -> C!Product]
        BY CAnswers DEF CInv
      <3>2. /\ creq[r].at = "list_rows"
            /\ creq' = [creq EXCEPT ![r].at = "list_stats",
                                    ![r].answer.rows = C!RowsOf(creq[r].merchant)]
        BY <2>3 DEF C!ListRows
      <3>3. CMoved(r) /\ creq'[r].at = "list_stats" /\ creq'[r].merchant = creq[r].merchant
        BY <1>1, <3>1, <3>2 DEF CMoved, C!Request, C!Step, C!Answer
      <3> QED BY <1>1, <3>2, <3>3 DEF HandlerOK
    <2>4. CASE C!ListStats(r)
      <3>1. /\ C!LowStock(creq[r].merchant) \in 0..MaxProducts
            /\ C!OutOfStock(creq[r].merchant) \in 0..MaxProducts
        BY CAnswers DEF CInv
      <3>2. /\ creq[r].at = "list_stats"
            /\ creq' = [creq EXCEPT ![r].at = "list_store",
                                    ![r].answer.low = C!LowStock(creq[r].merchant),
                                    ![r].answer.out = C!OutOfStock(creq[r].merchant)]
        BY <2>4 DEF C!ListStats
      <3>3. CMoved(r) /\ creq'[r].at = "list_store" /\ creq'[r].merchant = creq[r].merchant
        BY <1>1, <3>1, <3>2 DEF CMoved, C!Request, C!Step, C!Answer
      <3> QED BY <1>1, <3>2, <3>3 DEF HandlerOK
    <2> QED BY <2>1, <2>2, <2>3, <2>4
  <1>3. OneSaves'
    BY <1>1, <1>2, OneSavesKept DEF CInv
  <1>4. overlapped \subseteq C!Products
    BY DEF CInv, C!TypeOK
  <1> QED BY <1>1, <1>2, <1>3, <1>4, CRead

-----------------------------------------------------------------------------
(* The cache of products *)

LEMMA CInvalidate ==
    ASSUME CInv, NEW r \in Reqs, C!Invalidate(r)
    PROVE  CInv'
  <1>1. /\ creq[r].at = "invalidate" /\ creq[r].merchant \in Merchants /\ C!Finish(r)
        /\ UNCHANGED <<product, failures, cgone, overlapped>>
    BY DEF C!Invalidate, CInv, HandlersOK, HandlerOK
  <1>2. PICK m \in Merchants : m = creq[r].merchant
    BY <1>1
  <1>3. /\ list' = [list EXCEPT ![m] = None]
        /\ item' = [p \in C!Products |-> IF p \in C!CachedOf(m) THEN None ELSE item[p]]
        /\ coutdated' = [items |-> coutdated.items \ C!CachedOf(m), lists |-> coutdated.lists \ {m}]
    BY <1>2 DEF C!Invalidate
  <1>4. /\ item \in [C!Products -> C!Product \cup {None}]
        /\ list \in [Merchants -> C!Answer \cup {None}]
        /\ coutdated \in [items: SUBSET C!Products, lists: SUBSET Merchants]
        /\ failures \in 0..MaxFailures
    BY DEF CInv, C!TypeOK
  <1>5. /\ item' \in [C!Products -> C!Product \cup {None}]
        /\ list' \in [Merchants -> C!Answer \cup {None}]
        /\ coutdated' \in [items: SUBSET C!Products, lists: SUBSET Merchants]
        /\ coutdated'.items = coutdated.items \ C!CachedOf(m)
        /\ coutdated'.lists = coutdated.lists \ {m}
    BY <1>3, <1>4
  <1>6. ItemsKnown'
    BY <1>1, <1>3 DEF CInv, ItemsKnown, Known, C!Exists
  <1>7. \A s \in Reqs \ {r} : creq'[s] = creq[s]
    BY <1>1, CFinish DEF CMoved
  <1>8. C!CacheFollows'
    <2>1. ASSUME NEW p \in C!Products, item'[p] # None, p \notin coutdated'.items,
                 NEW n, n = item'[p].merchant
          PROVE  item'[p] = product[p] \/ C!WillDrop(n)'
      <3>1. item'[p] = item[p] /\ p \notin C!CachedOf(m) /\ p \notin coutdated.items
        BY <1>3, <1>5, <2>1
      <3>2. n # m
        BY <2>1, <3>1 DEF C!CachedOf
      <3>3. item[p] = product[p] \/ C!WillDrop(n)
        BY <2>1, <3>1 DEF CInv, C!CacheFollows
      <3> QED BY <1>2, <1>7, <3>1, <3>2, <3>3, CDrops
    <2>2. ASSUME NEW n \in Merchants, list'[n] # None, n \notin coutdated'.lists
          PROVE  list'[n] = C!ListAnswer(n) \/ C!WillDrop(n)'
      <3>1. n # m /\ list'[n] = list[n] /\ n \notin coutdated.lists
        BY <1>3, <1>4, <1>5, <2>2
      <3>2. list[n] = C!ListAnswer(n) \/ C!WillDrop(n)
        BY <2>2, <3>1 DEF CInv, C!CacheFollows
      <3> QED BY <1>2, <1>7, <3>1, <3>2, CDrops
    <2>3. \A n : C!ListAnswer(n)' = C!ListAnswer(n)
      BY <1>1, CAnswerKept
    <2> QED BY <1>1, <2>1, <2>2, <2>3 DEF C!CacheFollows, C!WillDrop
  <1> QED BY <1>1, <1>4, <1>5, <1>6, <1>8, CFinish, CCache

LEMMA CInvalidateFails ==
    ASSUME CInv, NEW r \in Reqs, C!InvalidateFails(r)
    PROVE  CInv'
  <1>1. /\ creq[r].at = "invalidate" /\ creq[r].merchant \in Merchants /\ C!Finish(r)
        /\ failures < MaxFailures /\ failures' = failures + 1
        /\ UNCHANGED <<product, item, list, cgone, overlapped>>
    BY DEF C!InvalidateFails, CInv, HandlersOK, HandlerOK
  <1>2. PICK m \in Merchants : m = creq[r].merchant
    BY <1>1
  <1>3. coutdated' = [items |-> coutdated.items \cup C!CachedOf(m), lists |-> coutdated.lists \cup {m}]
    BY <1>2 DEF C!InvalidateFails
  <1>4. /\ item \in [C!Products -> C!Product \cup {None}]
        /\ list \in [Merchants -> C!Answer \cup {None}]
        /\ coutdated \in [items: SUBSET C!Products, lists: SUBSET Merchants]
        /\ failures' \in 0..MaxFailures
    BY <1>1, CatalogAssumptions DEF CInv, C!TypeOK, C!Assumptions
  <1>5. /\ coutdated' \in [items: SUBSET C!Products, lists: SUBSET Merchants]
        /\ coutdated'.items = coutdated.items \cup C!CachedOf(m)
        /\ coutdated'.lists = coutdated.lists \cup {m}
    BY <1>3, <1>4 DEF C!CachedOf
  <1>6. ItemsKnown'
    BY <1>1 DEF CInv, ItemsKnown, Known, C!Exists
  <1>7. \A s \in Reqs \ {r} : creq'[s] = creq[s]
    BY <1>1, CFinish DEF CMoved
  <1>8. C!CacheFollows'
    <2>1. ASSUME NEW p \in C!Products, item[p] # None, p \notin coutdated'.items,
                 NEW n, n = item[p].merchant
          PROVE  item[p] = product[p] \/ C!WillDrop(n)'
      <3>1. p \notin C!CachedOf(m) /\ p \notin coutdated.items
        BY <1>5, <2>1
      <3>2. n # m
        BY <2>1, <3>1 DEF C!CachedOf
      <3>3. item[p] = product[p] \/ C!WillDrop(n)
        BY <2>1, <3>1 DEF CInv, C!CacheFollows
      <3> QED BY <1>2, <1>7, <3>2, <3>3, CDrops
    <2>2. ASSUME NEW n \in Merchants, list[n] # None, n \notin coutdated'.lists
          PROVE  list[n] = C!ListAnswer(n) \/ C!WillDrop(n)'
      <3>1. n # m /\ n \notin coutdated.lists
        BY <1>5, <2>2
      <3>2. list[n] = C!ListAnswer(n) \/ C!WillDrop(n)
        BY <2>2, <3>1 DEF CInv, C!CacheFollows
      <3> QED BY <1>2, <1>7, <3>1, <3>2, CDrops
    <2>3. \A n : C!ListAnswer(n)' = C!ListAnswer(n)
      BY <1>1, CAnswerKept
    <2> QED BY <1>1, <2>1, <2>2, <2>3 DEF C!CacheFollows, C!WillDrop
  <1> QED BY <1>1, <1>4, <1>5, <1>6, <1>8, CFinish, CCache

\* The answer about one product, or about none, changes.
LEMMA CItemStep ==
    ASSUME CInv, NEW r, CMoved(r), creq'[r] = creq[r] \/ creq'[r] = C!Idle,
           creq[r].at # "invalidate" \/ creq'[r] = creq[r],
           NEW p \in C!Products, NEW x \in C!Product \cup {None},
           item' = [item EXCEPT ![p] = x], x # None => Known(p),
           NEW items \in SUBSET C!Products, items \ {p} = coutdated.items \ {p},
           coutdated' = [coutdated EXCEPT !.items = items],
           x # None /\ p \notin items => x = product[p],
           UNCHANGED <<product, list, failures, cgone, overlapped>>
    PROVE  CInv'
  <1>1. /\ item \in [C!Products -> C!Product \cup {None}]
        /\ list \in [Merchants -> C!Answer \cup {None}]
        /\ coutdated \in [items: SUBSET C!Products, lists: SUBSET Merchants]
        /\ failures \in 0..MaxFailures
    BY DEF CInv, C!TypeOK
  <1>2. /\ item' \in [C!Products -> C!Product \cup {None}]
        /\ item'[p] = x /\ \A q \in C!Products \ {p} : item'[q] = item[q]
        /\ coutdated' \in [items: SUBSET C!Products, lists: SUBSET Merchants]
        /\ coutdated'.items = items /\ coutdated'.lists = coutdated.lists
    BY <1>1
  <1>3. ItemsKnown'
    BY <1>2 DEF CInv, ItemsKnown, Known, C!Exists
  <1>4. \A n : C!WillDrop(n) => C!WillDrop(n)'
    BY DEF C!WillDrop, CMoved
  <1>5. C!CacheFollows'
    <2>1. ASSUME NEW q \in C!Products, item'[q] # None, q \notin items,
                 NEW n, n = item'[q].merchant
          PROVE  item'[q] = product[q] \/ C!WillDrop(n)'
      <3>1. CASE q = p
        BY <1>2, <2>1, <3>1
      <3>2. CASE q # p
        <4>1. item'[q] = item[q] /\ q \notin coutdated.items
          BY <1>2, <2>1, <3>2
        <4>2. item[q] = product[q] \/ C!WillDrop(n)
          BY <2>1, <4>1 DEF CInv, C!CacheFollows
        <4> QED BY <1>4, <4>1, <4>2
      <3> QED BY <3>1, <3>2
    <2>2. \A n : C!ListAnswer(n)' = C!ListAnswer(n)
      BY CAnswerKept
    <2> QED BY <1>2, <1>4, <2>1, <2>2 DEF CInv, C!CacheFollows, C!WillDrop
  <1> QED BY <1>1, <1>2, <1>3, <1>5, CCache

\* The list of one merchant changes.
LEMMA CListStep ==
    ASSUME CInv, NEW r, CMoved(r), creq'[r] = creq[r] \/ creq'[r] = C!Idle,
           creq[r].at # "invalidate" \/ creq'[r] = creq[r],
           NEW m \in Merchants, NEW x \in C!Answer \cup {None},
           list' = [list EXCEPT ![m] = x],
           NEW lists \in SUBSET Merchants, lists \ {m} = coutdated.lists \ {m},
           coutdated' = [coutdated EXCEPT !.lists = lists],
           x # None /\ m \notin lists => x = C!ListAnswer(m),
           UNCHANGED <<product, item, failures, cgone, overlapped>>
    PROVE  CInv'
  <1>1. /\ item \in [C!Products -> C!Product \cup {None}]
        /\ list \in [Merchants -> C!Answer \cup {None}]
        /\ coutdated \in [items: SUBSET C!Products, lists: SUBSET Merchants]
        /\ failures \in 0..MaxFailures
    BY DEF CInv, C!TypeOK
  <1>2. /\ list' \in [Merchants -> C!Answer \cup {None}]
        /\ list'[m] = x /\ \A n \in Merchants \ {m} : list'[n] = list[n]
        /\ coutdated' \in [items: SUBSET C!Products, lists: SUBSET Merchants]
        /\ coutdated'.lists = lists /\ coutdated'.items = coutdated.items
    BY <1>1
  <1>3. ItemsKnown'
    BY DEF CInv, ItemsKnown, Known, C!Exists
  <1>4. \A n : C!WillDrop(n) => C!WillDrop(n)'
    BY DEF C!WillDrop, CMoved
  <1>5. C!CacheFollows'
    <2>1. ASSUME NEW n \in Merchants, list'[n] # None, n \notin lists
          PROVE  list'[n] = C!ListAnswer(n) \/ C!WillDrop(n)'
      <3>1. CASE n = m
        BY <1>2, <2>1, <3>1
      <3>2. CASE n # m
        <4>1. list'[n] = list[n] /\ n \notin coutdated.lists
          BY <1>2, <2>1, <3>2
        <4>2. list[n] = C!ListAnswer(n) \/ C!WillDrop(n)
          BY <2>1, <4>1 DEF CInv, C!CacheFollows
        <4> QED BY <1>4, <4>1, <4>2
      <3> QED BY <3>1, <3>2
    <2>2. \A n : C!ListAnswer(n)' = C!ListAnswer(n)
      BY CAnswerKept
    <2>3. ASSUME NEW p \in C!Products, item[p] # None, p \notin coutdated.items,
                 NEW n, n = item[p].merchant
          PROVE  item[p] = product[p] \/ C!WillDrop(n)'
      BY <1>4, <2>3 DEF CInv, C!CacheFollows
    <2> QED BY <1>2, <2>1, <2>2, <2>3 DEF C!CacheFollows, C!WillDrop
  <1> QED BY <1>1, <1>2, <1>3, <1>5, CCache

LEMMA CStores ==
    ASSUME CInv, NEW r \in Reqs, C!GetStore(r) \/ C!ListStore(r)
    PROVE  CInv'
  <1>1. /\ creq[r] \in C!Request /\ HandlerOK(r) /\ C!Finish(r) /\ CMoved(r) /\ creq'[r] = C!Idle
        /\ coutdated \in [items: SUBSET C!Products, lists: SUBSET Merchants]
    BY CFinish DEF CInv, C!TypeOK, HandlersOK, C!GetStore, C!ListStore
  <1>2. CASE C!GetStore(r)
    <2>1. PICK p \in C!Products, x \in C!Product : p = creq[r].id /\ x = creq[r].read
      BY <1>1, <1>2 DEF C!GetStore, HandlerOK, C!Request
    <2>2. PICK items : items = IF x = product[p] THEN coutdated.items \ {p} ELSE coutdated.items \cup {p}
      OBVIOUS
    <2>3. /\ creq[r].at = "get_store" /\ item' = [item EXCEPT ![p] = x]
          /\ coutdated' = [coutdated EXCEPT !.items = items]
          /\ UNCHANGED <<product, list, failures, cgone, overlapped>>
      BY <1>2, <2>1, <2>2 DEF C!GetStore
    <2>4. Known(p)
      BY <1>1, <2>1, <2>3 DEF HandlerOK
    <2>5. /\ items \in SUBSET C!Products /\ items \ {p} = coutdated.items \ {p}
          /\ p \notin items => x = product[p]
      BY <1>1, <2>2
    <2> QED BY <1>1, <2>3, <2>4, <2>5, CItemStep
  <1>3. CASE C!ListStore(r)
    <2>1. PICK m \in Merchants, x \in C!Answer : m = creq[r].merchant /\ x = creq[r].answer
      BY <1>1, <1>3 DEF C!ListStore, HandlerOK, C!Request
    <2>2. PICK lists : lists = IF x = C!ListAnswer(m) THEN coutdated.lists \ {m}
                               ELSE coutdated.lists \cup {m}
      OBVIOUS
    <2>3. /\ creq[r].at = "list_store" /\ list' = [list EXCEPT ![m] = x]
          /\ coutdated' = [coutdated EXCEPT !.lists = lists]
          /\ UNCHANGED <<product, item, failures, cgone, overlapped>>
      BY <1>3, <2>1, <2>2 DEF C!ListStore
    <2>4. /\ lists \in SUBSET Merchants /\ lists \ {m} = coutdated.lists \ {m}
          /\ m \notin lists => x = C!ListAnswer(m)
      BY <1>1, <2>2
    <2> QED BY <1>1, <2>3, <2>4, CListStep
  <1> QED BY <1>2, <1>3

\* An answer times out.
LEMMA CTimesOut ==
    ASSUME CInv,
           \/ \E p \in C!Products : C!ItemTimesOut(p)
           \/ \E m \in Merchants : C!ListTimesOut(m)
    PROVE  CInv'
  <1>1. coutdated \in [items: SUBSET C!Products, lists: SUBSET Merchants]
    BY DEF CInv, C!TypeOK
  <1>2. ASSUME UNCHANGED creq PROVE CMoved(None) /\ creq'[None] = creq[None]
    BY <1>2 DEF CMoved, CInv, C!TypeOK
  <1>3. ASSUME NEW p \in C!Products, C!ItemTimesOut(p) PROVE CInv'
    <2>1. PICK items : items = coutdated.items \ {p}
      OBVIOUS
    <2>2. /\ item' = [item EXCEPT ![p] = None] /\ coutdated' = [coutdated EXCEPT !.items = items]
          /\ UNCHANGED <<product, list, creq, failures, cgone, overlapped>>
      BY <1>3, <2>1 DEF C!ItemTimesOut
    <2>3. items \in SUBSET C!Products /\ items \ {p} = coutdated.items \ {p}
      BY <1>1, <2>1
    <2> QED BY <1>2, <2>2, <2>3, CItemStep
  <1>4. ASSUME NEW m \in Merchants, C!ListTimesOut(m) PROVE CInv'
    <2>1. PICK lists : lists = coutdated.lists \ {m}
      OBVIOUS
    <2>2. /\ list' = [list EXCEPT ![m] = None] /\ coutdated' = [coutdated EXCEPT !.lists = lists]
          /\ UNCHANGED <<product, item, creq, failures, cgone, overlapped>>
      BY <1>4, <2>1 DEF C!ListTimesOut
    <2>3. lists \in SUBSET Merchants /\ lists \ {m} = coutdated.lists \ {m}
      BY <1>1, <2>1
    <2> QED BY <1>2, <2>2, <2>3, CListStep
  <1> QED BY <1>3, <1>4

LEMMA CStays == CInv /\ [C!Next]_C!vars => CInv'
  <1> SUFFICES ASSUME CInv, [C!Next]_C!vars PROVE CInv'
    OBVIOUS
  <1>1. CASE UNCHANGED C!vars
    <2>1. /\ UNCHANGED <<product, item, list, creq, failures, cgone, coutdated, overlapped>>
          /\ CMoved(None) /\ creq'[None] = creq[None]
      BY <1>1 DEF C!vars, CMoved, CInv, C!TypeOK
    <2>2. /\ item' \in [C!Products -> C!Product \cup {None}]
          /\ list' \in [Merchants -> C!Answer \cup {None}]
          /\ failures' \in 0..MaxFailures
          /\ coutdated' \in [items: SUBSET C!Products, lists: SUBSET Merchants]
      BY <2>1 DEF CInv, C!TypeOK
    <2>3. ItemsKnown'
      BY <2>1 DEF CInv, ItemsKnown, Known, C!Exists
    <2>4. \A n : C!ListAnswer(n)' = C!ListAnswer(n)
      BY <2>1, CAnswerKept
    <2>5. C!CacheFollows'
      BY <2>1, <2>4 DEF CInv, C!CacheFollows, C!WillDrop
    <2> QED BY <2>1, <2>2, <2>3, <2>5, CCache
  <1>2. ASSUME NEW r \in Reqs, C!Asked(r) PROVE CInv'
    BY <1>2, CCreate, CUpdateFind, COtherFinds DEF C!Asked
  <1>3. ASSUME NEW r \in Reqs, C!HandlerStep(r) PROVE CInv'
    BY <1>3, CUpdateSave, CDelete, CInvalidate, CInvalidateFails, CReadsOn, CStores
       DEF C!HandlerStep
  <1>4. CASE (\E p \in C!Products : C!ItemTimesOut(p)) \/ \E m \in Merchants : C!ListTimesOut(m)
    BY <1>4, CTimesOut
  <1> QED BY <1>1, <1>2, <1>3, <1>4 DEF C!Next

LEMMA CStarts == C!Init => CInv
  <1> SUFFICES ASSUME C!Init PROVE CInv
    OBVIOUS
  <1>1. C!TypeOK
    BY CIdle, CatalogAssumptions DEF C!Init, C!TypeOK, C!Assumptions
  <1>2. \A p \in C!Products : ~C!Exists(p)
    BY DEF C!Init, C!Exists
  <1>3. ProductsOK /\ ItemsKnown /\ C!StatusFollowsStock /\ C!CacheFollows
    BY <1>2 DEF C!Init, ProductsOK, ItemsKnown, C!StatusFollowsStock, C!CacheFollows
  <1>4. HandlersOK /\ OneSaves
    BY DEF C!Init, HandlersOK, HandlerOK, OneSaves, Saves, C!Idle
  <1> QED BY <1>1, <1>3, <1>4 DEF CInv

-----------------------------------------------------------------------------
(* Advertisements *)

\* A handler names the ad it writes and the page it reads.
LRequests ==
    {q \in L!Request : /\ q.at \in {"edit_save", "delete"} => q.ad \in L!Ads
                       /\ q.at \in {"fetch", "store"} => q.key \in L!Keys}

LTyped ==
    /\ L!TypeOK
    /\ lreq \in [Reqs -> LRequests]
    /\ DOMAIN page = L!Keys
    /\ \A m \in L!Messages : topic[m] # None /\ topic[m].kind # "create" => topic[m].ad \in L!Ads

Edits(r, a) == lreq[r].at = "edit_save" /\ lreq[r].ad = a

\* Unless edits of an ad overlapped, one handler at most is about to save one, and the ad
\* was not edited before.
EditsOK ==
    \A a \in L!Ads \ clashed :
        /\ ad[a].edits <= 1
        /\ \A r \in Reqs : Edits(r, a) => ad[a].edits = 0
        /\ \A r, s \in Reqs : Edits(r, a) /\ Edits(s, a) => r = s

LInv == LTyped /\ EditsOK /\ L!CacheFollows

LMoved(r) ==
    /\ lreq' \in [Reqs -> LRequests]
    /\ \A s \in Reqs \ {r} : lreq'[s] = lreq[s]

LDrop == {"drop_homepage", "drop_category"}

\* The variables but ad, page, lreq and loutdated, within their types.
LRest ==
    /\ topic \in [L!Messages -> L!Message \cup {None}]
    /\ \A m \in L!Messages : topic[m] # None /\ topic[m].kind # "create" => topic[m].ad \in L!Ads
    /\ sent \in 0..MaxMessages /\ {silent, aborts} \subseteq Nat /\ clashed \subseteq L!Ads

LEMMA LIdle == L!Idle \in LRequests
  BY DEF L!Idle, LRequests, L!Request, L!Step

LEMMA LRestOK == LTyped => LRest
  BY DEF LTyped, LRest, L!TypeOK

\* The parts are typed.
LEMMA LTypes ==
    ASSUME LRest', ad' \in [L!Ads -> L!Ad], lreq' \in [Reqs -> LRequests],
           DOMAIN page' = L!Keys,
           \A k \in L!Keys : page'[k] = None \/ page'[k] \subseteq L!Ads \X Nat,
           loutdated' \subseteq L!Keys
    PROVE  LTyped'
  <1>1. \A r \in Reqs : lreq'[r].at \in L!Step /\ lreq'[r].msg \in L!Messages \cup {0}
    BY DEF LRequests, L!Request
  <1> QED BY <1>1 DEF LRest, LTyped, L!TypeOK

LEMMA LRowsType == LTyped => L!Rows \subseteq L!Ads \X Nat
  BY DEF LTyped, L!TypeOK, L!Rows, L!Ad

\* A step that makes no edit and begins none.
LEMMA EditsKept ==
    ASSUME EditsOK, NEW r, \A s \in Reqs \ {r} : lreq'[s] = lreq[s],
           r \in Reqs => lreq'[r].at # "edit_save" \/ lreq'[r] = lreq[r],
           \A a \in L!Ads : ad'[a].edits = ad[a].edits, clashed \subseteq clashed'
    PROVE  EditsOK'
  BY DEF EditsOK, Edits

\* A page that was to be dropped still is, when r is not done with it.
LEMMA LDropsKept ==
    ASSUME NEW r, \A s \in Reqs \ {r} : lreq'[s] = lreq[s], NEW k, L!WillDrop(k) # {},
           r \in Reqs => lreq[r].at \notin LDrop \/ lreq'[r] = lreq[r]
    PROVE  L!WillDrop(k)' # {}
  BY DEF L!WillDrop, LDrop

\* A handler wrote, and the pages are to be dropped or known to be left behind.
LEMMA LWriteFollows ==
    ASSUME NEW r, page' = page,
           \/ r \in Reqs /\ lreq'[r].at = "drop_homepage"
           \/ loutdated' = loutdated \cup {k \in L!Keys : page[k] # None}
    PROVE  L!CacheFollows'
  BY DEF L!CacheFollows, L!WillDrop

\* A handler that left the ads and the pages alone.
LEMMA LQuiet ==
    ASSUME LInv, NEW r, LMoved(r), LRest', EditsOK', UNCHANGED <<ad, page, loutdated>>,
           r \in Reqs => lreq[r].at \notin LDrop \/ lreq'[r] = lreq[r]
    PROVE  LInv'
  <1>1. LTyped'
    BY LTypes DEF LInv, LTyped, L!TypeOK, LMoved
  <1>2. L!Rows' = L!Rows
    BY DEF L!Rows
  <1>3. L!CacheFollows'
    BY <1>2, LDropsKept DEF LInv, L!CacheFollows, LMoved
  <1> QED BY <1>1, <1>3 DEF LInv

LEMMA LBegin ==
    ASSUME LInv, NEW r \in Reqs, NEW q \in LRequests, L!Begin(r, q), q.at # "edit_save",
           UNCHANGED <<ad, page, topic, sent, silent, aborts, clashed, loutdated>>
    PROVE  LInv'
  <1>1. LMoved(r) /\ lreq[r].at = "idle" /\ lreq'[r] = q
    BY DEF L!Begin, L!Free, LMoved, LInv, LTyped
  <1>2. LRest'
    BY LRestOK DEF LInv, LRest
  <1>3. EditsOK'
    BY <1>1, EditsKept DEF LInv, LMoved
  <1> QED BY <1>1, <1>2, <1>3, LQuiet DEF LDrop

\* An edit begins: of an ad that was not edited, or that somebody else is editing.
LEMMA LEdit ==
    ASSUME LInv, NEW r \in Reqs, NEW q \in LRequests, NEW a \in L!Ads, L!UpdateFind(q, r, a),
           UNCHANGED <<ad, page, topic, sent, silent, aborts, loutdated>>
    PROVE  LInv'
  <1> DEFINE z == [q EXCEPT !.at = "edit_save", !.ad = a]
  <1>1. z \in LRequests /\ z.at = "edit_save" /\ z.ad = a
    BY DEF LRequests, L!Request, L!Step
  <1>2. /\ ad[a].edits = 0 /\ L!Begin(r, z)
        /\ clashed' = IF L!Editing(a) = {} THEN clashed ELSE clashed \cup {a}
    BY DEF L!UpdateFind, L!NoteEdit
  <1> HIDE DEF z
  <1>3. LMoved(r) /\ lreq[r].at = "idle" /\ lreq'[r] = z
    BY <1>1, <1>2 DEF L!Begin, L!Free, LMoved, LInv, LTyped
  <1>4. LRest'
    BY <1>2, LRestOK DEF LInv, LRest
  <1>5. EditsOK'
    <2> SUFFICES ASSUME NEW b \in L!Ads, b \notin clashed'
                 PROVE  /\ ad[b].edits <= 1
                        /\ \A s \in Reqs : Edits(s, b)' => ad[b].edits = 0
                        /\ \A s, t \in Reqs : Edits(s, b)' /\ Edits(t, b)' => s = t
      BY DEF EditsOK
    <2>0. b \notin clashed
      BY <1>2
    <2>1. CASE b = a
      <3>1. L!Editing(a) = {}
        BY <1>2, <2>1
      <3>2. \A s \in Reqs : ~Edits(s, a)
        BY <3>1 DEF L!Editing, Edits
      <3>3. \A s \in Reqs : Edits(s, a)' => s = r
        BY <1>3, <3>2 DEF LMoved, Edits
      <3> QED BY <1>2, <2>0, <2>1, <3>3 DEF LInv, EditsOK
    <2>2. CASE b # a
      <3>1. \A s \in Reqs : Edits(s, b)' => Edits(s, b)
        BY <1>1, <1>3, <2>2 DEF LMoved, Edits
      <3> QED BY <2>0, <3>1 DEF LInv, EditsOK
    <2> QED BY <2>1, <2>2
  <1> QED BY <1>3, <1>4, <1>5, LQuiet DEF LDrop

\* What a handler does after its write.
LEMMA LAfter ==
    ASSUME LTyped, NEW r \in Reqs, L!AfterWrite(r)
    PROVE  /\ LMoved(r)
           /\ lreq'[r].at \in {"drop_homepage", "commit", "idle"}
           /\ lreq[r].via = "rest" => lreq'[r].at = "drop_homepage"
  <1>1. lreq[r] \in LRequests /\ lreq[r] \in L!Request /\ lreq \in [Reqs -> LRequests]
    BY DEF LTyped, LRequests
  <1> DEFINE z == CASE lreq[r].via = "rest"  -> [L!Idle EXCEPT !.at = "drop_homepage"]
                    [] lreq[r].via = "kafka" -> L!ToCommit(lreq[r].msg)
                    [] OTHER                 -> L!Idle
  <1>2. lreq' = [lreq EXCEPT ![r] = z]
    BY <1>1 DEF L!AfterWrite
  <1>3. /\ z \in LRequests
        /\ z.at \in {"drop_homepage", "commit", "idle"}
        /\ lreq[r].via = "rest" => z.at = "drop_homepage"
    <2>1. [L!Idle EXCEPT !.at = "drop_homepage"] \in LRequests
      BY DEF L!Idle, LRequests, L!Request, L!Step
    <2>2. L!ToCommit(lreq[r].msg) \in LRequests /\ L!ToCommit(lreq[r].msg).at = "commit"
      BY <1>1 DEF L!ToCommit, L!ByMessage, L!Idle, LRequests, L!Request, L!Step
    <2> QED BY <2>1, <2>2, LIdle DEF L!Idle
  <1> HIDE DEF z
  <1> QED BY <1>1, <1>2, <1>3 DEF LMoved

LEMMA LFinish ==
    ASSUME LTyped, NEW r \in Reqs, L!Finish(r)
    PROVE  LMoved(r) /\ lreq'[r] = L!Idle /\ lreq'[r].at = "idle"
  BY LIdle DEF L!Finish, LMoved, LTyped, L!Idle

\* A handler wrote an ad.
LEMMA LWrite ==
    ASSUME LInv, NEW r, LMoved(r), EditsOK', LRest', ad' \in [L!Ads -> L!Ad], page' = page,
           \/ r \in Reqs /\ lreq'[r].at = "drop_homepage" /\ loutdated' = loutdated
           \/ loutdated' = loutdated \cup {k \in L!Keys : page[k] # None}
    PROVE  LInv'
  <1>1. LTyped'
    BY LTypes DEF LInv, LTyped, L!TypeOK, LMoved
  <1>2. L!CacheFollows'
    BY LWriteFollows
  <1> QED BY <1>1, <1>2 DEF LInv

\* An ad's status changes, or a new ad appears.
LEMMA LStatus ==
    ASSUME LTyped, NEW a \in L!Ads, NEW s \in L!Status, ad' = [ad EXCEPT ![a].status = s]
    PROVE  ad' \in [L!Ads -> L!Ad] /\ \A b \in L!Ads : ad'[b].edits = ad[b].edits
  BY DEF LTyped, L!TypeOK, L!Ad

-----------------------------------------------------------------------------
LEMMA LAsked ==
    ASSUME LInv, NEW r \in Reqs, L!Free(r), L!Asked(r)
    PROVE  LInv'
  <1>1. CASE L!CreateAd(r)
    <2>1. [L!Idle EXCEPT !.at = "create"] \in LRequests
          /\ [L!Idle EXCEPT !.at = "create"].at = "create"
      BY DEF L!Idle, LRequests, L!Request, L!Step
    <2> QED BY <1>1, <2>1, LBegin DEF L!CreateAd
  <1>2. ASSUME NEW a \in L!Ads, L!UpdateAd(r, a) PROVE LInv'
    BY <1>2, LEdit, LIdle DEF L!UpdateAd
  <1>3. ASSUME NEW a \in L!Ads, L!PromoteAd(r, a) PROVE LInv'
    <2>1. [L!Idle EXCEPT !.via = "promote"] \in LRequests
      BY DEF L!Idle, LRequests, L!Request, L!Step
    <2> QED BY <1>3, <2>1, LEdit DEF L!PromoteAd
  <1>4. ASSUME NEW a \in L!Ads, L!DeleteAd(r, a) PROVE LInv'
    <2> DEFINE q == [L!Idle EXCEPT !.at = "delete", !.ad = a]
    <2>1. q \in LRequests /\ q.at = "delete"
      BY DEF L!Idle, LRequests, L!Request, L!Step
    <2> QED BY <1>4, <2>1, LBegin DEF L!DeleteAd
  <1>5. ASSUME NEW a \in L!Ads, L!Cleanup(r, a) PROVE LInv'
    <2> DEFINE q == [L!Idle EXCEPT !.at = "drop_homepage"]
    <2>1. q \in LRequests /\ q.at = "drop_homepage"
      BY DEF L!Idle, LRequests, L!Request, L!Step
    <2>2. /\ L!Begin(r, q)
          /\ \E s \in {"expired", "gone"} : ad' = [ad EXCEPT ![a].status = s]
          /\ UNCHANGED <<page, topic, sent, silent, aborts, clashed, loutdated>>
      BY <1>5 DEF L!Cleanup
    <2> HIDE DEF q
    <2>3. LMoved(r) /\ lreq'[r] = q
      BY <2>1, <2>2 DEF L!Begin, LMoved, LInv, LTyped
    <2>4. ad' \in [L!Ads -> L!Ad] /\ \A b \in L!Ads : ad'[b].edits = ad[b].edits
      <3>1. PICK s \in L!Status : ad' = [ad EXCEPT ![a].status = s]
        BY <2>2 DEF L!Status
      <3> QED BY <3>1, LStatus DEF LInv
    <2>5. EditsOK'
      BY <2>1, <2>2, <2>3, <2>4, EditsKept DEF LInv, LMoved
    <2>6. LRest'
      BY <2>2, LRestOK DEF LInv, LRest
    <2> QED BY <2>1, <2>2, <2>3, <2>4, <2>5, <2>6, LWrite
  <1>6. ASSUME NEW m \in L!Messages
        PROVE  /\ L!ByMessage(m) \in LRequests /\ L!ToCommit(m) \in LRequests
               /\ [L!ByMessage(m) EXCEPT !.at = "create"] \in LRequests
               /\ [L!ByMessage(m) EXCEPT !.at = "create"].at = "create"
               /\ L!ToCommit(m).at = "commit"
    BY DEF L!ByMessage, L!ToCommit, L!Idle, LRequests, L!Request, L!Step
  <1>7. ASSUME NEW m \in L!Messages, L!handleAdCreate(r, m) PROVE LInv'
    BY <1>6, <1>7, LBegin DEF L!handleAdCreate
  <1>8. ASSUME NEW m \in L!Messages, L!handleAdUpdate(r, m) PROVE LInv'
    <2>1. topic[m].ad \in L!Ads
      BY <1>8 DEF L!handleAdUpdate, L!Delivered, LInv, LTyped
    <2>2. CASE L!UpdateFind(L!ByMessage(m), r, topic[m].ad)
      <3>1. PICK a \in L!Ads : a = topic[m].ad
        BY <2>1
      <3> QED BY <1>6, <1>8, <2>2, <3>1, LEdit DEF L!handleAdUpdate
    <2>3. CASE L!Begin(r, L!ToCommit(m)) /\ UNCHANGED clashed
      BY <1>6, <1>8, <2>3, LBegin DEF L!handleAdUpdate
    <2> QED BY <1>8, <2>2, <2>3 DEF L!handleAdUpdate
  <1>9. ASSUME NEW m \in L!Messages, L!handleAdDelete(r, m) PROVE LInv'
    <2>1. PICK a \in L!Ads : a = topic[m].ad
      BY <1>9 DEF L!handleAdDelete, L!Delivered, LInv, LTyped
    <2> DEFINE q == [L!ByMessage(m) EXCEPT !.at = "delete", !.ad = a]
    <2>2. q \in LRequests /\ q.at = "delete"
      BY DEF L!ByMessage, L!Idle, LRequests, L!Request, L!Step
    <2>3. L!Begin(r, IF L!Stored(a) THEN q ELSE L!ToCommit(m))
          /\ UNCHANGED <<ad, page, topic, sent, silent, aborts, clashed, loutdated>>
      BY <1>9, <2>1 DEF L!handleAdDelete
    <2>4. CASE L!Stored(a)
      <3>1. L!Begin(r, q)
        BY <2>3, <2>4
      <3> QED BY <2>2, <2>3, <3>1, LBegin
    <2>5. CASE ~L!Stored(a)
      <3>1. L!Begin(r, L!ToCommit(m))
        BY <2>3, <2>5
      <3> QED BY <1>6, <2>3, <3>1, LBegin
    <2> QED BY <2>4, <2>5
  <1>10. ASSUME NEW k \in L!Keys, L!List(r, k) PROVE LInv'
    <2> DEFINE q == [L!Idle EXCEPT !.at = "fetch", !.key = k]
    <2>1. q \in LRequests /\ q.at = "fetch"
      BY DEF L!Idle, LRequests, L!Request, L!Step
    <2> QED BY <1>10, <2>1, LBegin DEF L!List
  <1> QED BY <1>1, <1>2, <1>3, <1>4, <1>5, <1>7, <1>8, <1>9, <1>10 DEF L!Asked

\* A handler saves what it was asked to: every write but an edit leaves the edits alone.
LEMMA LSaves ==
    ASSUME LInv, NEW r \in Reqs, L!CreateSave(r) \/ L!EditSave(r) \/ L!DeleteSave(r)
    PROVE  LInv'
  <1>1. /\ lreq[r] \in LRequests /\ lreq[r].at \in {"create", "edit_save", "delete"}
        /\ ad \in [L!Ads -> L!Ad] /\ lreq \in [Reqs -> LRequests]
        /\ UNCHANGED <<page, topic, sent, silent, aborts, clashed>>
    BY DEF LInv, LTyped, L!TypeOK, L!CreateSave, L!EditSave, L!DeleteSave
  <1>2. LRest' /\ LTyped
    BY <1>1, LRestOK DEF LInv, LRest
  <1>3. ASSUME L!AfterWrite(r), L!Overtaken(lreq[r].via), ad' \in [L!Ads -> L!Ad],
               LMoved(r) => EditsOK'
        PROVE  LInv'
    <2>1. /\ LMoved(r)
          /\ lreq[r].via = "rest" => lreq'[r].at = "drop_homepage"
      BY <1>2, <1>3, LAfter
    <2>2. \/ lreq'[r].at = "drop_homepage" /\ loutdated' = loutdated
          \/ loutdated' = loutdated \cup {k \in L!Keys : page[k] # None}
      BY <1>3, <2>1 DEF L!Overtaken
    <2> QED BY <1>1, <1>2, <1>3, <2>1, <2>2, LWrite
  <1>4. ASSUME L!AfterWrite(r), \A b \in L!Ads : ad'[b].edits = ad[b].edits PROVE EditsOK'
    <2>1. LMoved(r) /\ lreq'[r].at # "edit_save"
      BY <1>2, <1>4, LAfter
    <2> QED BY <1>1, <1>4, <2>1, EditsKept DEF LInv, LMoved
  <1>5. CASE L!CreateSave(r)
    <2>1. PICK a \in L!Ads : ad' = [ad EXCEPT ![a].status = "active"]
      BY <1>5 DEF L!CreateSave
    <2>2. ad' \in [L!Ads -> L!Ad] /\ \A b \in L!Ads : ad'[b].edits = ad[b].edits
      BY <1>2, <2>1, LStatus DEF L!Status
    <2> QED BY <1>3, <1>4, <1>5, <2>2 DEF L!CreateSave
  <1>6. CASE L!DeleteSave(r)
    <2>1. PICK a \in L!Ads : a = lreq[r].ad
      BY <1>1, <1>6 DEF L!DeleteSave, LRequests
    <2>2. ad' = ad \/ ad' = [ad EXCEPT ![a].status = "deleted"]
      BY <1>6, <2>1 DEF L!DeleteSave
    <2>3. ad' \in [L!Ads -> L!Ad] /\ \A b \in L!Ads : ad'[b].edits = ad[b].edits
      BY <1>1, <1>2, <2>2, LStatus DEF L!Status
    <2> QED BY <1>3, <1>4, <1>6, <2>3 DEF L!DeleteSave
  <1>7. CASE L!EditSave(r)
    <2>1. PICK a \in L!Ads : a = lreq[r].ad /\ Edits(r, a)
      BY <1>1, <1>7 DEF L!EditSave, LRequests, Edits
    <2>2. CASE L!Stored(a)
      <3>1. /\ ad' = [ad EXCEPT ![a].edits = @ + 1]
            /\ L!Overtaken(lreq[r].via) /\ L!AfterWrite(r)
        BY <1>7, <2>1, <2>2 DEF L!EditSave
      <3>2. /\ ad' \in [L!Ads -> L!Ad] /\ ad[a].edits \in Nat /\ ad'[a].edits = ad[a].edits + 1
            /\ \A b \in L!Ads \ {a} : ad'[b] = ad[b]
        BY <1>1, <3>1 DEF L!Ad
      <3>3. LMoved(r) /\ lreq'[r].at # "edit_save"
        BY <1>2, <3>1, LAfter
      <3>4. EditsOK'
        <4> SUFFICES ASSUME NEW b \in L!Ads, b \notin clashed
                     PROVE  /\ ad'[b].edits <= 1
                            /\ \A s \in Reqs : Edits(s, b)' => ad'[b].edits = 0
                            /\ \A s, t \in Reqs : Edits(s, b)' /\ Edits(t, b)' => s = t
          BY <1>1 DEF EditsOK
        <4>1. \A s \in Reqs : Edits(s, b)' => s # r /\ Edits(s, b)
          BY <3>3 DEF LMoved, Edits
        <4>2. CASE b = a
          <5>1. ad[a].edits = 0 /\ \A s \in Reqs : Edits(s, a) => s = r
            BY <2>1, <4>2 DEF LInv, EditsOK
          <5> QED BY <3>2, <4>1, <4>2, <5>1
        <4>3. CASE b # a
          BY <3>2, <4>1, <4>3 DEF LInv, EditsOK
        <4> QED BY <4>2, <4>3
      <3> QED BY <1>3, <3>1, <3>2, <3>4
    <2>3. CASE ~L!Stored(a)
      <3> DEFINE z == IF lreq[r].via = "kafka" THEN L!ToCommit(lreq[r].msg) ELSE L!Idle
      <3>1. lreq' = [lreq EXCEPT ![r] = z] /\ UNCHANGED <<ad, loutdated>>
        BY <1>1, <1>7, <2>1, <2>3 DEF L!EditSave
      <3>2. z \in LRequests /\ z.at # "edit_save"
        BY <1>1, LIdle, ZenonT(60) DEF L!ToCommit, L!ByMessage, L!Idle, LRequests, L!Request, L!Step
      <3> HIDE DEF z
      <3>3. LMoved(r) /\ lreq'[r].at # "edit_save"
        BY <1>1, <3>1, <3>2 DEF LMoved
      <3>4. EditsOK'
        BY <1>1, <3>1, <3>3, EditsKept DEF LInv, LMoved
      <3> QED BY <1>1, <1>2, <3>1, <3>3, <3>4, LQuiet DEF LDrop
    <2> QED BY <2>2, <2>3
  <1> QED BY <1>5, <1>6, <1>7


\* Pages are dropped, by a handler that drops the others next or by nobody.
LEMMA LDropped ==
    ASSUME LInv, NEW r, LMoved(r), LRest', EditsOK', ad' = ad,
           NEW keys \in SUBSET L!Keys, L!Dropped(keys),
           \A k \in L!Keys \ keys : r \in L!WillDrop(k) => r \in L!WillDrop(k)'
    PROVE  LInv'
  <1>1. /\ \A k \in L!Keys : page'[k] = IF k \in keys THEN None ELSE page[k]
        /\ DOMAIN page' = L!Keys
        /\ loutdated' = loutdated \ keys
    BY DEF L!Dropped
  <1>2. LTyped'
    BY <1>1, LTypes DEF LInv, LTyped, L!TypeOK, LMoved
  <1>3. L!Rows' = L!Rows
    BY DEF L!Rows
  <1>4. ASSUME NEW k \in L!Keys, page'[k] # None, k \notin loutdated', L!WillDrop(k)' = {}
        PROVE  page'[k] = L!Rows'
    <2>1. k \notin keys /\ page'[k] = page[k] /\ k \notin loutdated
      BY <1>1, <1>4
    <2>2. L!WillDrop(k) = {}
      BY <1>4, <2>1 DEF L!WillDrop, LMoved
    <2> QED BY <1>3, <1>4, <2>1, <2>2 DEF LInv, L!CacheFollows
  <1>5. L!CacheFollows'
    BY <1>4 DEF L!CacheFollows
  <1> QED BY <1>2, <1>5 DEF LInv

\* A handler commits its message, or drops pages.
LEMMA LEnds ==
    ASSUME LInv, NEW r \in Reqs, L!Commit(r) \/ L!DropHomepage(r) \/ L!DropCategory(r)
    PROVE  LInv'
  <1>1. LTyped /\ LRest /\ lreq \in [Reqs -> LRequests] /\ lreq[r] \in L!Request
    BY LRestOK DEF LInv, LTyped, LRequests
  <1>2. CASE L!Commit(r)
    <2>1. /\ LMoved(r) /\ lreq'[r].at = "idle"
      BY <1>1, <1>2, LFinish DEF L!Commit
    <2>2. LRest'
      <3>1. /\ topic' = [topic EXCEPT ![lreq[r].msg] = None]
            /\ UNCHANGED <<sent, silent, aborts, clashed>>
        BY <1>2 DEF L!Commit
      <3> QED BY <1>1, <3>1 DEF LRest
    <2>3. EditsOK'
      BY <1>2, <2>1, EditsKept DEF LInv, LMoved, L!Commit
    <2> QED BY <1>2, <2>1, <2>2, <2>3, LQuiet DEF L!Commit, LDrop
  <1>3. CASE L!DropHomepage(r)
    <2> DEFINE z == [lreq[r] EXCEPT !.at = "drop_category"]
    <2>1. lreq' = [lreq EXCEPT ![r] = z] /\ z \in LRequests /\ z.at = "drop_category"
      BY <1>1, <1>3 DEF L!DropHomepage, LRequests, L!Request, L!Step
    <2> HIDE DEF z
    <2>2. LMoved(r) /\ lreq'[r] = z
      BY <1>1, <2>1 DEF LMoved
    <2>3. LRest'
      BY <1>1, <1>3 DEF L!DropHomepage, LRest
    <2>4. EditsOK'
      BY <1>3, <2>1, <2>2, EditsKept DEF LInv, LMoved, L!DropHomepage
    <2>5. r \in L!WillDrop("category")'
      BY <2>1, <2>2 DEF L!WillDrop
    <2>6. \A k \in L!Keys \ {"homepage"} : k = "category"
      BY DEF L!Keys
    <2>7. {"homepage"} \in SUBSET L!Keys /\ L!Dropped({"homepage"}) /\ ad' = ad
      BY <1>3 DEF L!DropHomepage, L!Keys
    <2> QED BY <2>2, <2>3, <2>4, <2>5, <2>6, <2>7, LDropped
  <1>4. CASE L!DropCategory(r)
    <2>1. LMoved(r) /\ lreq'[r].at = "idle"
      BY <1>1, <1>4, LFinish DEF L!DropCategory
    <2>2. LRest'
      BY <1>1, <1>4 DEF L!DropCategory, LRest
    <2>3. EditsOK'
      BY <1>4, <2>1, EditsKept DEF LInv, LMoved, L!DropCategory
    <2>4. lreq[r].at = "drop_category" /\ L!Dropped({"category"}) /\ ad' = ad
      BY <1>4 DEF L!DropCategory
    <2>5. {"category"} \in SUBSET L!Keys /\ \A k \in L!Keys \ {"category"} : r \notin L!WillDrop(k)
      BY <2>4 DEF L!Keys, L!WillDrop
    <2> QED BY <2>1, <2>2, <2>3, <2>4, <2>5, LDropped
  <1> QED BY <1>2, <1>3, <1>4

\* A read finds the rows of the moment, and stores what it found.
LEMMA LReads ==
    ASSUME LInv, NEW r \in Reqs, L!Fetch(r) \/ L!Store(r)
    PROVE  LInv'
  <1>1. LTyped /\ LRest /\ lreq \in [Reqs -> LRequests] /\ lreq[r] \in LRequests
    BY LRestOK DEF LInv, LTyped
  <1>2. CASE L!Fetch(r)
    <2>1. PICK rows \in SUBSET (L!Ads \X Nat) : rows = L!Rows
      BY <1>1, LRowsType
    <2> DEFINE z == [lreq[r] EXCEPT !.at = "store", !.rows = rows]
    <2>2. lreq[r].at = "fetch" /\ lreq' = [lreq EXCEPT ![r] = z]
      BY <1>1, <1>2, <2>1 DEF L!Fetch, LRequests, L!Request
    <2>3. z \in LRequests /\ z.at = "store"
      BY <1>1, <2>2 DEF LRequests, L!Request, L!Step
    <2> HIDE DEF z
    <2>4. LMoved(r) /\ lreq'[r] = z
      BY <1>1, <2>2, <2>3 DEF LMoved
    <2>5. LRest'
      BY <1>1, <1>2 DEF L!Fetch, LRest
    <2>6. EditsOK'
      BY <1>2, <2>3, <2>4, EditsKept DEF LInv, LMoved, L!Fetch
    <2> QED BY <1>2, <2>2, <2>4, <2>5, <2>6, LQuiet DEF L!Fetch, LDrop
  <1>3. CASE L!Store(r)
    <2>1. PICK k \in L!Keys, rows \in SUBSET (L!Ads \X Nat) : k = lreq[r].key /\ rows = lreq[r].rows
      BY <1>1, <1>3 DEF L!Store, LRequests, L!Request
    <2>2. /\ page' = [page EXCEPT ![k] = rows] /\ lreq[r].at = "store" /\ ad' = ad
          /\ loutdated' = IF rows = L!Rows THEN loutdated \ {k} ELSE loutdated \cup {k}
      BY <1>3, <2>1 DEF L!Store
    <2>3. LMoved(r) /\ lreq'[r].at = "idle"
      BY <1>1, <1>3, LFinish DEF L!Store
    <2>4. LRest'
      BY <1>1, <1>3 DEF L!Store, LRest
    <2>5. EditsOK'
      BY <1>3, <2>3, EditsKept DEF LInv, LMoved, L!Store
    <2>6. /\ DOMAIN page' = L!Keys /\ page'[k] = rows
          /\ \A j \in L!Keys \ {k} : page'[j] = page[j]
      BY <1>1, <2>2 DEF LTyped
    <2>7. LTyped'
      BY <2>2, <2>3, <2>4, <2>6, LTypes DEF LInv, LTyped, L!TypeOK, LMoved
    <2>8. L!Rows' = L!Rows
      BY <2>2 DEF L!Rows
    <2>9. ASSUME NEW j \in L!Keys, page'[j] # None, j \notin loutdated', L!WillDrop(j)' = {}
          PROVE  page'[j] = L!Rows'
      <3>1. CASE rows = L!Rows /\ j = k
        BY <2>6, <2>8, <3>1
      <3>2. CASE rows # L!Rows /\ j = k
        BY <2>2, <2>9, <3>2
      <3>3. CASE j # k
        <4>1. page'[j] = page[j] /\ j \notin loutdated
          BY <2>2, <2>6, <2>9, <3>3
        <4>2. L!WillDrop(j) = {}
          BY <2>2, <2>3, <2>9 DEF L!WillDrop, LMoved
        <4> QED BY <2>8, <2>9, <4>1, <4>2 DEF LInv, L!CacheFollows
      <3> QED BY <3>1, <3>2, <3>3
    <2> QED BY <2>5, <2>7, <2>9 DEF LInv, L!CacheFollows
  <1> QED BY <1>2, <1>3


\* A handler dies, and the pages it was to drop are left behind.
LEMMA LAborts ==
    ASSUME LInv, NEW r \in Reqs, L!Abort(r)
    PROVE  LInv'
  <1>1. LTyped /\ LRest
    BY LRestOK DEF LInv
  <1>2. LMoved(r) /\ lreq'[r].at = "idle" /\ UNCHANGED <<ad, page, topic, sent, silent, clashed>>
    BY <1>1, LFinish DEF L!Abort
  <1>3. LRest'
    BY <1>1, <1>2 DEF LRest, L!Abort
  <1>4. EditsOK'
    BY <1>2, EditsKept DEF LInv, LMoved
  <1>5. CASE lreq[r].at \in LDrop
    <2>1. loutdated' = loutdated \cup {k \in L!Keys : page[k] # None}
      BY <1>5 DEF L!Abort, LDrop
    <2>2. ad' \in [L!Ads -> L!Ad]
      BY <1>1, <1>2 DEF LTyped, L!TypeOK
    <2> QED BY <1>2, <1>3, <1>4, <2>1, <2>2, LWrite
  <1>6. CASE lreq[r].at \notin LDrop
    <2>1. loutdated' = loutdated
      BY <1>6 DEF L!Abort, LDrop
    <2> QED BY <1>2, <1>3, <1>4, <1>6, <2>1, LQuiet
  <1> QED BY <1>5, <1>6

\* What nobody's handler does: a message is sent, a moderator changes an ad, and a page
\* times out.
LEMMA LOutside ==
    ASSUME LInv,
           \/ L!createAdAsync
           \/ \E a \in L!Ads : L!updateAdAsync(a) \/ L!deleteAdAsync(a)
           \/ \E a \in L!Ads, status \in {"active", "expired", "deleted", "gone"} :
                L!Moderated(a, status)
           \/ \E k \in L!Keys : L!TimesOut(k)
           \/ UNCHANGED L!vars
    PROVE  LInv'
  <1>1. LTyped /\ LRest /\ MaxMessages \in Nat
    BY LRestOK, ListingsAssumptions DEF LInv, L!Assumptions
  <1>2. ASSUME lreq' = lreq
        PROVE  LMoved(None) /\ (None \in Reqs => lreq'[None] = lreq[None])
               /\ \A k : None \in L!WillDrop(k) => None \in L!WillDrop(k)'
    BY <1>1, <1>2 DEF LMoved, LTyped, L!WillDrop
  <1>3. ASSUME lreq' = lreq, clashed' = clashed, \A a \in L!Ads : ad'[a].edits = ad[a].edits
        PROVE  EditsOK'
    BY <1>2, <1>3, EditsKept DEF LInv, LMoved
  <1>4. ASSUME NEW kind \in L!Kind, NEW a \in L!Ads \cup {0}, kind # "create" => a \in L!Ads,
               L!Send(kind, a)
        PROVE  LInv'
    <2> DEFINE m == [kind |-> kind, ad |-> a]
    <2>1. m \in L!Message /\ m.kind = kind /\ m.ad = a
      BY DEF L!Message
    <2>2. /\ sent < MaxMessages /\ sent' = sent + 1
          /\ topic' = [topic EXCEPT ![sent + 1] = m]
          /\ UNCHANGED <<ad, page, lreq, silent, aborts, clashed, loutdated>>
      BY <1>4 DEF L!Send
    <2> HIDE DEF m
    <2>3. LRest'
      <3>1. sent \in Nat /\ sent' \in 0..MaxMessages
        BY <1>1, <2>2 DEF LRest
      <3>2. /\ topic' \in [L!Messages -> L!Message \cup {None}]
            /\ \A n \in L!Messages : topic'[n] = topic[n] \/ topic'[n] = m
        BY <1>1, <2>1, <2>2 DEF LRest
      <3>3. \A n \in L!Messages : topic'[n] # None /\ topic'[n].kind # "create"
                                    => topic'[n].ad \in L!Ads
        BY <1>1, <1>4, <2>1, <3>2 DEF LRest
      <3> QED BY <1>1, <2>2, <3>1, <3>2, <3>3 DEF LRest
    <2> QED BY <1>2, <1>3, <2>2, <2>3, LQuiet
  <1>5. ASSUME NEW a \in L!Ads, NEW status \in {"active", "expired", "deleted", "gone"},
               L!Moderated(a, status)
        PROVE  LInv'
    <2>1. /\ ad' = [ad EXCEPT ![a].status = status] /\ silent' = silent + 1
          /\ loutdated' = loutdated \cup {k \in L!Keys : page[k] # None}
          /\ UNCHANGED <<page, topic, sent, lreq, aborts, clashed>>
      BY <1>5 DEF L!Moderated, L!Overtaken
    <2>2. ad' \in [L!Ads -> L!Ad] /\ \A b \in L!Ads : ad'[b].edits = ad[b].edits
      BY <1>1, <2>1, LStatus DEF L!Status
    <2>3. LRest'
      BY <1>1, <2>1 DEF LRest
    <2> QED BY <1>2, <1>3, <2>1, <2>2, <2>3, LWrite
  <1>6. ASSUME NEW k \in L!Keys, L!TimesOut(k)
        PROVE  LInv'
    <2>1. L!Dropped({k}) /\ UNCHANGED <<ad, topic, sent, lreq, silent, aborts, clashed>>
      BY <1>6 DEF L!TimesOut
    <2>2. LRest'
      BY <1>1, <2>1 DEF LRest
    <2>3. {k} \in SUBSET L!Keys
      OBVIOUS
    <2> QED BY <1>2, <1>3, <2>1, <2>2, <2>3, LDropped
  <1>7. ASSUME UNCHANGED L!vars
        PROVE  LInv'
    <2>1. UNCHANGED <<ad, page, topic, sent, lreq, silent, aborts, clashed, loutdated>>
      BY <1>7 DEF L!vars
    <2>2. LRest'
      BY <1>1, <2>1 DEF LRest
    <2> QED BY <1>2, <1>3, <2>1, <2>2, LQuiet
  <1> QED BY <1>4, <1>5, <1>6, <1>7
          DEF L!createAdAsync, L!updateAdAsync, L!deleteAdAsync, L!Kind

LEMMA LStays == LInv /\ [L!Next]_L!vars => LInv'
  <1> SUFFICES ASSUME LInv, [L!Next]_L!vars PROVE LInv'
    OBVIOUS
  <1>1. ASSUME NEW r \in Reqs, L!HandlerStep(r) PROVE LInv'
    BY <1>1, LSaves, LEnds, LReads DEF L!HandlerStep
  <1>2. ASSUME NEW r \in Reqs, L!Free(r) /\ L!Asked(r) PROVE LInv'
    BY <1>2, LAsked
  <1>3. ASSUME NEW r \in Reqs, L!Abort(r) PROVE LInv'
    BY <1>3, LAborts
  <1> QED BY <1>1, <1>2, <1>3, LOutside DEF L!Next

LEMMA LStarts == L!Init => LInv
  <1> SUFFICES ASSUME L!Init PROVE LInv
    OBVIOUS
  <1>1. MaxMessages \in Nat /\ MaxAds \in Nat
    BY ListingsAssumptions DEF L!Assumptions
  <1>2. /\ lreq \in [Reqs -> LRequests] /\ \A r \in Reqs : lreq[r].at = "idle" /\ lreq[r].msg = 0
    BY LIdle DEF L!Init, L!Idle
  <1>3. LTyped
    BY <1>1, <1>2 DEF L!Init, LTyped, L!TypeOK, L!NoAd, L!Ad, L!Status, L!Step
  <1>4. EditsOK
    BY <1>2 DEF L!Init, EditsOK, Edits, L!NoAd
  <1>5. L!CacheFollows
    BY DEF L!Init, L!CacheFollows
  <1> QED BY <1>3, <1>4, <1>5 DEF LInv

-----------------------------------------------------------------------------
(* Vouchers: one customer, who does one thing at a time *)

VInv == V!Inv /\ V!TurnInv

LEMMA VOneAtATime == V!OneAtATime
  BY VouchersAssumptions DEF V!OneAtATime

LEMMA VAssumed ==
    /\ [o \in Offers |-> merchant] \in [Offers -> {customer, merchant}]
    /\ {} \subseteq V!OrderStatus
    /\ 0 \in Nat /\ 0 \in Nat
    /\ None \notin {customer, merchant} \cup Offers \cup Vouchers \cup {}
  BY VouchersAssumptions

LEMMA VStarts == V!Init => VInv
  BY V!InitInv, V!TurnInit, VAssumed DEF VInv

LEMMA VStays == VInv /\ [V!Next]_V!vars => VInv'
  BY V!StepInv, V!TurnStep, VOneAtATime, VAssumed DEF VInv

LEMMA VMeans == VInv => V!TypeOK /\ V!InTurn
  BY V!TurnMeans, VAssumed DEF VInv, V!Inv


-----------------------------------------------------------------------------
(* The parts together *)

StorefrontInv ==
    /\ Inv /\ LimitInv /\ FollowInv
    /\ part = "catalog" => CInv
    /\ part = "listings" => LInv
    /\ part = "vouchers" => VInv

LEMMA StorefrontStarts == StorefrontInit => StorefrontInv
  BY InitRefines, LimitInit, FollowInit, CStarts, LStarts, VStarts
     DEF StorefrontInit, StorefrontInv

\* A step of one part leaves the others as they are.
LEMMA PartsStep ==
    ASSUME [StorefrontNext]_storefrontVars
    PROVE  /\ [Next]_vars /\ part' = part
           /\ part = "catalog" => [C!Next]_C!vars
           /\ part = "listings" => [L!Next]_L!vars
           /\ part = "vouchers" => [V!Next]_V!vars
  <1>1. [Next]_vars /\ part' = part
    BY DEF StorefrontNext, BannersStep, CatalogStep, ListingsStep, VouchersStep, storefrontVars
  <1>2. part = "catalog" => [C!Next]_C!vars
    BY DEF StorefrontNext, BannersStep, CatalogStep, ListingsStep, VouchersStep, storefrontVars,
           catalogVars, C!vars
  <1>3. part = "listings" => [L!Next]_L!vars
    BY DEF StorefrontNext, BannersStep, CatalogStep, ListingsStep, VouchersStep, storefrontVars,
           listingVars, L!vars
  <1>4. part = "vouchers" => [V!Next]_V!vars
    BY DEF StorefrontNext, BannersStep, CatalogStep, ListingsStep, VouchersStep, storefrontVars,
           voucherVars, V!vars
  <1> QED BY <1>1, <1>2, <1>3, <1>4

LEMMA StorefrontStays ==
    ASSUME StorefrontInv, [StorefrontNext]_storefrontVars
    PROVE  StorefrontInv'
  <1>1. Inv' /\ LimitInv' /\ FollowInv'
    BY PartsStep, StepRefines, LimitStep, FollowStep DEF StorefrontInv
  <1>2. part' = "catalog" => CInv'
    BY PartsStep, CStays DEF StorefrontInv
  <1>3. part' = "listings" => LInv'
    BY PartsStep, LStays DEF StorefrontInv
  <1>4. part' = "vouchers" => VInv'
    BY PartsStep, VStays DEF StorefrontInv
  <1> QED BY <1>1, <1>2, <1>3, <1>4 DEF StorefrontInv

\* The invariants of all the parts hold in every state.
THEOREM StorefrontInvariance == StorefrontSpec => []StorefrontInv
  BY StorefrontStarts, StorefrontStays, PTL DEF StorefrontSpec

\* Every variable of the parts stays within its type, however many merchants, handlers,
\* promotions, products, advertisements, messages and vouchers there are.
THEOREM StorefrontTyped == StorefrontSpec => []StorefrontTypeOK
  <1>1. StorefrontInv => StorefrontTypeOK
    BY VMeans DEF StorefrontInv, Inv, CInv, LInv, LTyped, StorefrontTypeOK
  <1> QED BY <1>1, StorefrontInvariance, PTL

\* What Redis holds of banners, products and advertisements follows the database or is
\* about to be dropped, but for the races and the failures that each part names
\* (invalidateBannerCache, invalidateMerchantProductCache, invalidateAdsCache, the reads
\* that fill the caches).
THEOREM CachesFollowDatabase == StorefrontSpec => []CachesFollow
  <1>1. StorefrontInv => CachesFollow
    BY DEF StorefrontInv, FollowInv, CInv, LInv, CachesFollow
  <1> QED BY <1>1, StorefrontInvariance, PTL

\* The status of a product follows its stock, unless updates of it overlapped
\* (create, updateProduct, deriveStatus).
THEOREM StatusIsDerived == StorefrontSpec => []StatusFollowsStock
  <1>1. StorefrontInv => StatusFollowsStock
    BY DEF StorefrontInv, CInv, StatusFollowsStock
  <1> QED BY <1>1, StorefrontInvariance, PTL

\* An ad is edited once, by whatever route and however often Kafka delivers the edit,
\* unless two edits overlapped (updateAd, promoteAd, handleAdUpdate).
THEOREM AdsAreEditedOnce == StorefrontSpec => []EditedOnce
  <1>1. LInv => L!EditedOnce
    BY DEF LInv, EditsOK, L!EditedOnce
  <1>2. StorefrontInv => EditedOnce
    BY <1>1 DEF StorefrontInv, EditedOnce
  <1> QED BY <1>2, StorefrontInvariance, PTL

\* Of a customer who does one thing at a time, one voucher of an offer is active, and no
\* order stays open once its voucher was redeemed (claimOffer, redeemVoucher,
\* completeOrderByVoucherId).
THEOREM TurnsHold == StorefrontSpec => []InTurn
  <1>1. StorefrontInv => InTurn
    BY VMeans DEF StorefrontInv, InTurn
  <1> QED BY <1>1, StorefrontInvariance, PTL

==============================================================================
