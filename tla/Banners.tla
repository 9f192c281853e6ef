------------------------------- MODULE Banners -------------------------------
(* Banner promotions and offers of merchants: submission, review, payment with the *)
(* limit of active promotions, pausing and resuming, deletion, expiry, and the     *)
(* lists kept in Redis (src/src/banners/).  A handler is a sequence of steps, one  *)
(* per database or cache call.                                                     *)
EXTENDS Integers, FiniteSets

CONSTANTS
    Merchants,
    Reqs,       \* slots for handlers under way at the same time
    MaxPromos,  \* bound: promotions ever submitted
    MaxPays,    \* bound: payments ever begun
    MaxUpdates, \* bound: updates by merchants ever begun
    Limit,      \* active promotions kept, and banners on the homepage: 5 in the code
    Listed,     \* the lists asked for: "home", "admin" and those of merchants
    None

ASSUME LimitAssumption == Limit \in Nat \ {0}
ASSUME BoundsAssumption == {MaxPromos, MaxPays, MaxUpdates} \subseteq Nat
ASSUME ListedAssumption == Listed \subseteq {"home", "admin"} \cup Merchants
ASSUME NoneAssumption == None \notin Merchants

VARIABLES
    promo,      \* the banner_promotions collection, in the order of creation
    pays,       \* the number of payments begun: the clock of paidAt
    updates,    \* the number of updates begun
    cache,      \* the lists in Redis
    req,        \* the handlers in flight
    gone,       \* promotions deleted, for the properties
    unchecked,  \* promotions live again since the limit was last enforced
    outdated    \* lists stored after a write they miss, or that lost an evicted row

vars == <<promo, pays, updates, cache, req, gone, unchecked, outdated>>

-----------------------------------------------------------------------------
Promos == 1..MaxPromos
Keys == {"home", "admin"} \cup Merchants

Status == {"none", "under_review", "approved", "rejected", "active", "expired"}

\* over: endDate has passed; paidAt: 0 when unset; approved: an admin approved it, or
\* it is an offer, which needs no approval (for the properties).
Promo == [status: Status, type: {"banner", "offer"}, merchant: Merchants \cup {None},
          paid: BOOLEAN, paidAt: 0..MaxPays, visible: BOOLEAN, over: BOOLEAN,
          approved: BOOLEAN]

NoPromo == [status |-> "none", type |-> "banner", merchant |-> None, paid |-> FALSE,
            paidAt |-> 0, visible |-> FALSE, over |-> FALSE, approved |-> FALSE]

Rows == [Promos -> Status]

Step == {"idle", "review_save", "pay_save", "enforce_find", "enforce_delete",
         "update_save", "delete", "invalidate", "expire_update", "expire_drop",
         "cache_get", "fetch", "store"}

\* read, mine: the document as found and as changed; ids: promotions to delete or to
\* expire; touched: merchants whose lists are to be dropped; key: the list asked for.
Request == [at: Step, id: Promos \cup {0}, read: Promo, mine: Promo, ids: SUBSET Promos,
            touched: SUBSET Merchants, key: Keys \cup {None},
            rows: Rows \cup {None}]

Idle == [at |-> "idle", id |-> 0, read |-> NoPromo, mine |-> NoPromo, ids |-> {},
         touched |-> {}, key |-> None, rows |-> None]

Exists(p) == promo[p].status # "none"
Live == {p \in Promos : promo[p].status = "active" /\ promo[p].paid /\ promo[p].visible}

\* What the homepage asks for, its dates included.
OnHomepage(p) ==
    /\ promo[p].type = "banner"
    /\ promo[p].status \in {"approved", "active"}
    /\ promo[p].visible

Free(r) == req[r].at = "idle"
Begin(r, q) == req[r].at = "idle" /\ req' = [req EXCEPT ![r] = q]
Goto(r, at) == req' = [req EXCEPT ![r].at = at]
ForgetAndGoto(r, at) ==
    req' = [req EXCEPT ![r] = [Idle EXCEPT !.at = at, !.touched = req[r].touched]]
Finish(r) == req' = [req EXCEPT ![r] = Idle]

\* mongoose save(): a field assigned a value equal to the one read is not written.
Saved(now, read, mine) ==
    [f \in DOMAIN now |-> IF mine[f] = read[f] THEN now[f] ELSE mine[f]]

Init ==
    /\ promo = [p \in Promos |-> NoPromo]
    /\ pays = 0
    /\ updates = 0
    /\ cache = [k \in Keys |-> None]
    /\ req = [r \in Reqs |-> Idle]
    /\ gone = {}
    /\ unchecked = {}
    /\ outdated = {}

-----------------------------------------------------------------------------
(* The handlers of merchants and admins *)

\* An offer is live at once; a banner waits for a review.
Submit(r, m, type) ==
    /\ \E p \in Promos :
        /\ ~Exists(p) /\ p \notin gone
        /\ \A q \in Promos : q < p => Exists(q) \/ q \in gone
        /\ LET offer == type = "offer"
           IN  /\ promo' = [promo EXCEPT ![p] = [NoPromo EXCEPT
                     !.status = IF offer THEN "active" ELSE "under_review",
                     !.type = type, !.merchant = m, !.paid = offer,
                     !.visible = offer, !.approved = offer]]
               /\ unchecked' = IF offer THEN unchecked \cup {p} ELSE unchecked
    /\ Begin(r, [Idle EXCEPT !.at = "invalidate", !.touched = {m}])
    /\ UNCHANGED <<pays, updates, cache, gone, outdated>>

ReviewFind(r, p, decision) ==
    /\ promo[p].status = "under_review"
    /\ LET mine == [promo[p] EXCEPT !.status = decision,
                                    !.visible = decision = "approved",
                                    !.approved = @ \/ decision = "approved"]
       IN  Begin(r, [Idle EXCEPT !.at = "review_save", !.id = p, !.read = promo[p],
                                 !.mine = mine, !.touched = {promo[p].merchant}])
    /\ UNCHANGED <<promo, pays, updates, cache, gone, unchecked, outdated>>

\* save() of a document that is gone throws.
Save(r, at, next) ==
    /\ req[r].at = at
    /\ LET p == req[r].id
       IN  IF Exists(p)
           THEN /\ promo' = [promo EXCEPT ![p] = Saved(@, req[r].read, req[r].mine)]
                /\ ForgetAndGoto(r, next)
           ELSE Finish(r) /\ UNCHANGED promo
    /\ UNCHANGED <<pays, updates, cache, gone, outdated>>

ReviewSave(r) == Save(r, "review_save", "invalidate") /\ UNCHANGED unchecked

\* paidAt is taken before the document is saved.
PayFind(r, p) ==
    /\ promo[p].status = "approved"
    /\ pays < MaxPays
    /\ pays' = pays + 1
    /\ LET mine == [promo[p] EXCEPT !.status = "active", !.paid = TRUE,
                                    !.paidAt = pays + 1, !.visible = TRUE]
       IN  Begin(r, [Idle EXCEPT !.at = "pay_save", !.id = p, !.read = promo[p],
                                 !.mine = mine, !.touched = {promo[p].merchant}])
    /\ UNCHANGED <<promo, updates, cache, gone, unchecked, outdated>>

PaySave(r) == Save(r, "pay_save", "enforce_find") /\ UNCHANGED unchecked

\* sort({ paidAt: 1, createdAt: 1 })
PaidBefore(p, q) ==
    \/ promo[p].paidAt < promo[q].paidAt
    \/ promo[p].paidAt = promo[q].paidAt /\ p < q

\* Regression: one promotion too many is kept.
EnforceFindOneMore(r) ==
    /\ req[r].at = "enforce_find"
    /\ LET excess == {p \in Live : Cardinality({q \in Live : PaidBefore(p, q)}) > Limit}
       IN  req' = [req EXCEPT ![r].ids = excess,
                              ![r].at = IF excess = {} THEN "invalidate" ELSE "enforce_delete"]
    /\ unchecked' = {}
    /\ UNCHANGED <<promo, pays, updates, cache, gone, outdated>>

\* The oldest beyond the limit are to be deleted, whoever they belong to.
EnforceFind(r) ==
    /\ req[r].at = "enforce_find"
    /\ LET excess == {p \in Live : Cardinality({q \in Live : PaidBefore(p, q)}) >= Limit}
       IN  req' = [req EXCEPT ![r].ids = excess,
                              ![r].at = IF excess = {} THEN "invalidate" ELSE "enforce_delete"]
    /\ unchecked' = {}
    /\ UNCHANGED <<promo, pays, updates, cache, gone, outdated>>

Deleted(ids) ==
    /\ promo' = [p \in Promos |-> IF p \in ids THEN NoPromo ELSE promo[p]]
    /\ gone' = gone \cup {p \in ids : Exists(p)}

\* Only the lists of the merchant who paid are dropped afterwards.
EnforceDelete(r) ==
    /\ req[r].at = "enforce_delete"
    /\ Deleted(req[r].ids)
    /\ LET owners == {promo[p].merchant : p \in {i \in req[r].ids : Exists(i)}}
       IN  outdated' = outdated \cup (owners \ req[r].touched)
    /\ req' = [req EXCEPT ![r].at = "invalidate", ![r].ids = {}]
    /\ UNCHANGED <<pays, updates, cache, unchecked>>

\* The dates asked for, an offer that is not expired going live with them, then the
\* action.
Redated(b, dates) ==
    IF dates = "keep" THEN b
    ELSE LET moved == [b EXCEPT !.over = dates = "past"]
         IN  IF b.type = "offer" /\ b.status # "expired"
             THEN [moved EXCEPT !.status = "active", !.visible = TRUE]
             ELSE moved

Acted(b, action) ==
    CASE action = "pause"  -> [b EXCEPT !.visible = FALSE,
                                        !.status = IF @ = "active" THEN "approved" ELSE @]
      [] action = "resume" -> [b EXCEPT !.visible = TRUE, !.status = "active"]
      [] OTHER             -> b

\* Regression: a promotion is resumed without a look at its payment.
UpdateFindUnpaid(r, p, dates, action) ==
    /\ Exists(p)
    /\ updates < MaxUpdates
    /\ updates' = updates + 1
    /\ LET mine == Acted(Redated(promo[p], dates), action)
       IN  Begin(r, [Idle EXCEPT !.at = "update_save", !.id = p, !.read = promo[p],
                                 !.mine = mine, !.touched = {promo[p].merchant}])
    /\ UNCHANGED <<promo, pays, cache, gone, unchecked, outdated>>

UpdateFind(r, p, dates, action) ==
    /\ Exists(p)
    /\ updates < MaxUpdates
    /\ updates' = updates + 1
    /\ action = "resume" => promo[p].paid
    /\ LET mine == Acted(Redated(promo[p], dates), action)
       IN  Begin(r, [Idle EXCEPT !.at = "update_save", !.id = p, !.read = promo[p],
                                 !.mine = mine, !.touched = {promo[p].merchant}])
    /\ UNCHANGED <<promo, pays, cache, gone, unchecked, outdated>>

\* The limit is not enforced here.
UpdateSave(r) ==
    /\ Save(r, "update_save", "invalidate")
    /\ unchecked' = unchecked \cup {req[r].id}

DeleteFind(r, p) ==
    /\ Exists(p)
    /\ Begin(r, [Idle EXCEPT !.at = "delete", !.id = p, !.touched = {promo[p].merchant}])
    /\ UNCHANGED <<promo, pays, updates, cache, gone, unchecked, outdated>>

DeleteOne(r) ==
    /\ req[r].at = "delete"
    /\ Deleted({req[r].id})
    /\ ForgetAndGoto(r, "invalidate")
    /\ UNCHANGED <<pays, updates, cache, unchecked, outdated>>

\* The keys a change of a promotion touches.
DropKeys(touched) ==
    LET keys == {"home", "admin"} \cup touched
    IN  /\ cache' = [k \in Keys |-> IF k \in keys THEN None ELSE cache[k]]
        /\ outdated' = outdated \ keys

\* Regression: the lists of the merchant are dropped, the homepage is not.
InvalidateMerchant(r) ==
    /\ req[r].at = "invalidate"
    /\ cache' = [k \in Keys |-> IF k \in req[r].touched THEN None ELSE cache[k]]
    /\ outdated' = outdated \ req[r].touched
    /\ Finish(r)
    /\ UNCHANGED <<promo, pays, updates, gone, unchecked>>

Invalidate(r) ==
    /\ req[r].at = "invalidate"
    /\ DropKeys(req[r].touched)
    /\ Finish(r)
    /\ UNCHANGED <<promo, pays, updates, gone, unchecked>>

-----------------------------------------------------------------------------
(* The lists: expired promotions are closed first, then the cache is looked at *)

Expired == {p \in Promos : promo[p].status = "active" /\ promo[p].over}

List(r, k) ==
    /\ Begin(r, [Idle EXCEPT !.key = k, !.ids = Expired,
                             !.touched = {promo[p].merchant : p \in Expired},
                             !.at = IF Expired # {} THEN "expire_update" ELSE "cache_get"])
    /\ UNCHANGED <<promo, pays, updates, cache, gone, unchecked, outdated>>

\* getNearbyOffers is not stored: it writes only if it finds something to close.
ListNearby(r) ==
    /\ Expired # {}
    /\ Begin(r, [Idle EXCEPT !.ids = Expired, !.at = "expire_update",
                             !.touched = {promo[p].merchant : p \in Expired}])
    /\ UNCHANGED <<promo, pays, updates, cache, gone, unchecked, outdated>>

\* The update takes the promotions found, whatever became of them.
ExpireUpdate(r) ==
    /\ req[r].at = "expire_update"
    /\ promo' = [p \in Promos |-> IF p \in req[r].ids /\ Exists(p)
                                  THEN [promo[p] EXCEPT !.status = "expired", !.visible = FALSE]
                                  ELSE promo[p]]
    /\ Goto(r, "expire_drop")
    /\ UNCHANGED <<pays, updates, cache, gone, unchecked, outdated>>

ExpireDrop(r) ==
    /\ req[r].at = "expire_drop"
    /\ DropKeys(req[r].touched)
    /\ IF req[r].key = None THEN Finish(r)
       ELSE req' = [req EXCEPT ![r].at = "cache_get", ![r].ids = {}, ![r].touched = {}]
    /\ UNCHANGED <<promo, pays, updates, gone, unchecked>>

CacheGet(r) ==
    /\ req[r].at = "cache_get"
    /\ IF cache[req[r].key] # None THEN Finish(r) ELSE Goto(r, "fetch")
    /\ UNCHANGED <<promo, pays, updates, cache, gone, unchecked, outdated>>

\* sort({ status: 1, paidAt: -1, createdAt: -1 })
ShownBefore(p, q) ==
    \/ promo[p].status = "active" /\ promo[q].status = "approved"
    \/ promo[p].status = promo[q].status /\ PaidBefore(q, p)

HomeRows ==
    LET found == {p \in Promos : OnHomepage(p) /\ ~promo[p].over}
    IN  {p \in found : Cardinality({q \in found : ShownBefore(q, p)}) < Limit}

RowsOf(ids) == [p \in Promos |-> IF p \in ids THEN promo[p].status ELSE "none"]

ListRows(k) ==
    RowsOf(CASE k = "home"  -> HomeRows
             [] k = "admin" -> Promos
             [] OTHER       -> {p \in Promos : promo[p].merchant = k})

\* What getNearbyOffers answers: its filters of place, text and price only narrow it.
NearbyOffers ==
    {p \in Promos : promo[p].type = "offer" /\ promo[p].status = "active" /\ ~promo[p].over}

Fetch(r) ==
    /\ req[r].at = "fetch"
    /\ req' = [req EXCEPT ![r].at = "store", ![r].rows = ListRows(req[r].key)]
    /\ UNCHANGED <<promo, pays, updates, cache, gone, unchecked, outdated>>

\* A stored list agrees with the collection: nothing on the homepage that should not
\* be there, and the other lists row by row.
Follows(k, rows) ==
    IF k = "home" THEN \A p \in Promos : rows[p] # "none" => OnHomepage(p)
    ELSE rows = ListRows(k)

Store(r) ==
    /\ req[r].at = "store"
    /\ LET k == req[r].key
       IN  /\ cache' = [cache EXCEPT ![k] = req[r].rows]
           /\ outdated' = IF Follows(k, req[r].rows) THEN outdated \ {k}
                          ELSE outdated \cup {k}
    /\ Finish(r)
    /\ UNCHANGED <<promo, pays, updates, gone, unchecked>>

\* The time to live of a list is 60 or 120 seconds.
TimeToLive(k) ==
    /\ cache[k] # None
    /\ cache' = [cache EXCEPT ![k] = None]
    /\ outdated' = outdated \ {k}
    /\ UNCHANGED <<promo, pays, updates, req, gone, unchecked>>

EndDatePasses(p) ==
    /\ Exists(p) /\ ~promo[p].over
    /\ promo' = [promo EXCEPT ![p].over = TRUE]
    /\ UNCHANGED <<pays, updates, cache, req, gone, unchecked, outdated>>

-----------------------------------------------------------------------------
Asked(r) ==
    \/ \E m \in Merchants, type \in {"banner", "offer"} : Submit(r, m, type)
    \/ \E p \in Promos :
        \/ \E decision \in {"approved", "rejected"} : ReviewFind(r, p, decision)
        \/ PayFind(r, p)
        \/ \E dates \in {"keep", "future", "past"}, action \in {"none", "pause", "resume"} :
             UpdateFind(r, p, dates, action)
        \/ DeleteFind(r, p)
    \/ \E k \in Listed : List(r, k)
    \/ ListNearby(r)

HandlerStep(r) ==
    \/ ReviewSave(r) \/ PaySave(r) \/ EnforceFind(r) \/ EnforceDelete(r)
    \/ UpdateSave(r) \/ DeleteOne(r) \/ Invalidate(r)
    \/ ExpireUpdate(r) \/ ExpireDrop(r) \/ CacheGet(r) \/ Fetch(r) \/ Store(r)

Next ==
    \/ \E r \in Reqs : (Free(r) /\ Asked(r)) \/ HandlerStep(r)
    \/ \E k \in Keys : TimeToLive(k)
    \/ \E p \in Promos : EndDatePasses(p)

Spec == Init /\ [][Next]_vars

-----------------------------------------------------------------------------
(* Properties *)

\* Every variable stays within its type.
TypeOK ==
    /\ promo \in [Promos -> Promo]
    /\ pays \in 0..MaxPays
    /\ updates \in 0..MaxUpdates
    /\ cache \in [Keys -> Rows \cup {None}]
    /\ req \in [Reqs -> Request]
    /\ gone \subseteq Promos
    /\ unchecked \subseteq Promos
    /\ outdated \subseteq Keys

\* When no payment is between its save and the end of the enforcement, at most Limit
\* promotions are live, not counting those submitted live, resumed or redated since
\* the limit was last enforced: two payments at the limit count each other
\* (enforceActiveBannerLimit).
LimitAtRest ==
    (\A r \in Reqs : req[r].at \notin {"enforce_find", "enforce_delete"})
        => Cardinality(Live \ unchecked) <= Limit

\* The handlers that are still going to drop a list.
WillDrop(k) ==
    {r \in Reqs : /\ req[r].at \in {"enforce_find", "enforce_delete", "invalidate", "expire_drop"}
                  /\ k \in {"home", "admin"} \cup req[r].touched}

\* A list in Redis that disagrees with the collection is about to be dropped, unless it
\* was stored by a read that a write overtook, or lost a row to the enforcement for
\* another merchant (invalidateBannerCache).
CacheFollows ==
    \A k \in Keys :
        cache[k] # None /\ k \notin outdated => Follows(k, cache[k]) \/ WillDrop(k) # {}

\* The collection implements Showcase: what runs at the same time never shows a banner
\* no admin approved, on the homepage or among the offers nearby, never loses a payment
\* and never brings a deleted promotion back.
Show == INSTANCE Showcase WITH
    Items    <- Promos,
    approved <- {p \in Promos : promo[p].approved},
    paid     <- {p \in Promos : promo[p].paid},
    shown    <- {p \in Promos : OnHomepage(p) /\ ~promo[p].over} \cup NearbyOffers,
    gone     <- gone

ImplementsShowcase == Show!Spec
=============================================================================
