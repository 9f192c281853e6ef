------------------------------ MODULE Vouchers ------------------------------
(***************************************************************************)
(* Vouchers and the orders that follow them:                               *)
(* src/src/vouchers/vouchers.service.ts, src/src/orders/orders.service.ts. *)
(*                                                                         *)
(* Claiming an offer creates a voucher and, in a later database call, an   *)
(* order of the merchant; redeeming the voucher completes the order, again *)
(* in later calls.  A request occupies a slot of Reqs and remembers the    *)
(* document as it read it; save() writes only the fields it changed.       *)
(***************************************************************************)
EXTENDS Integers, FiniteSets

CONSTANTS
    People,     \* users; a merchant is a user
    Offers,
    Owner,      \* the merchant of each offer
    Vouchers,   \* voucher ids; the order of a claim is named by its voucher
    Codes,      \* verification codes
    Reqs,       \* slots for requests being served at the same time
    Sent,       \* the order statuses merchants send to updateOrderStatus
    MaxStars,   \* loyalty points an offer can award
    MaxAborts,  \* bound: requests cut short by a crash or a database error
    None

OrderStatus == {"pending", "accepted", "rejected", "completed"}

ASSUME OwnerAssumption == Owner \in [Offers -> People]
ASSUME SentAssumption == Sent \subseteq OrderStatus
ASSUME BoundsAssumption == MaxStars \in Nat /\ MaxAborts \in Nat
ASSUME NoneAssumption == None \notin People \cup Offers \cup Vouchers \cup Codes

VARIABLES
    voucher,  \* the vouchers collection
    order,    \* the orders collection
    stars,    \* banners collection: the loyalty points of each offer now
    late,     \* the vouchers whose expiresAt has passed
    req,      \* the requests in flight
    told,     \* notifications about the order of each voucher
    redeems,  \* history: successful redemptions of each voucher
    aborts    \* requests cut short so far

vars == <<voucher, order, stars, late, req, told, redeems, aborts>>

-----------------------------------------------------------------------------
\* The claimed status of the enumeration is never set.
VoucherStatus == {"active", "redeemed", "expired"}

\* user is None while the document does not exist.
Voucher == [user: People \cup {None}, offer: Offers \cup {None}, status: VoucherStatus,
            code: Codes \cup {None}, by: People \cup {None}, points: Nat]

NoVoucher == [user |-> None, offer |-> None, status |-> "active",
              code |-> None, by |-> None, points |-> 0]

Order == [status: OrderStatus \cup {"none"}, acceptedAt: BOOLEAN, completedAt: BOOLEAN]

NoOrder == [status |-> "none", acceptedAt |-> FALSE, completedAt |-> FALSE]

Step == {"idle", "claim_insert", "claim_order", "code_save", "verify_expire",
         "redeem_expire", "redeem_offer", "redeem_save", "sync_find", "order_read",
         "order_save", "order_notify"}

Request == [at: Step, user: People \cup {None}, offer: Offers \cup {None},
            id: Vouchers \cup {None}, code: Codes \cup {None}, points: Nat,
            want: OrderStatus, read: Voucher, readOrder: Order]

Idle == [at |-> "idle", user |-> None, offer |-> None, id |-> None, code |-> None,
         points |-> 0, want |-> "completed", read |-> NoVoucher, readOrder |-> NoOrder]

Claimed(v) == voucher[v].user # None
Merchant(v) == Owner[voucher[v].offer]
Open == {"pending", "accepted"}

Begin(r, q) == req[r].at = "idle" /\ req' = [req EXCEPT ![r] = q]
Move(r, at, q) == req[r].at = at /\ req' = [req EXCEPT ![r] = q]
Sync(r) == [Idle EXCEPT !.at = "sync_find", !.user = req[r].user, !.id = req[r].id]
Notify(r) == [Idle EXCEPT !.at = "order_notify", !.id = req[r].id, !.want = req[r].want]
Finish(r, at) == req[r].at = at /\ req' = [req EXCEPT ![r] = Idle]

\* mongoose save(): a field assigned a value equal to the one read is not written.
\* Regression: save() writes every field, as a replacement of the document would.
SavedWhole(now, read, mine) == mine

Saved(now, read, mine) ==
    [f \in DOMAIN now |-> IF mine[f] = read[f] THEN now[f] ELSE mine[f]]

Init ==
    /\ voucher = [v \in Vouchers |-> NoVoucher]
    /\ order = [v \in Vouchers |-> NoOrder]
    /\ stars \in [Offers -> 0..MaxStars]
    /\ late = {}
    /\ req = [r \in Reqs |-> Idle]
    /\ told = [v \in Vouchers |-> {}]
    /\ redeems = [v \in Vouchers |-> 0]
    /\ aborts = 0

-----------------------------------------------------------------------------
(* claimOffer *)

\* Regression: claims of the offer are not looked up.
ClaimLookupAny(r, u, o) ==
    /\ Begin(r, [Idle EXCEPT !.at = "claim_insert", !.user = u, !.offer = o])
    /\ UNCHANGED <<voucher, order, stars, late, told, redeems, aborts>>

\* The claim is refused while the user holds an active voucher of the offer.
ClaimLookup(r, u, o) ==
    /\ \A v \in Vouchers : ~(/\ voucher[v].user = u
                             /\ voucher[v].offer = o
                             /\ voucher[v].status = "active")
    /\ Begin(r, [Idle EXCEPT !.at = "claim_insert", !.user = u, !.offer = o])
    /\ UNCHANGED <<voucher, order, stars, late, told, redeems, aborts>>

\* Regression: the claim goes on to the order although no voucher was stored.
ClaimInsertSwallowed(r) ==
    /\ \E v \in {v \in Vouchers : ~Claimed(v)} :
         /\ req[r].at = "claim_insert"
         /\ req' = [req EXCEPT ![r].at = "claim_order", ![r].id = v]
         /\ \/ voucher' = [voucher EXCEPT ![v] =
                   [NoVoucher EXCEPT !.user = req[r].user, !.offer = req[r].offer]]
            \/ UNCHANGED voucher
    /\ UNCHANGED <<order, stars, late, told, redeems, aborts>>

\* The voucher gets a fresh id, or the insert fails: the id is the millisecond of
\* the claim, and the index on voucherId refuses a second one.
ClaimInsert(r) ==
    /\ \/ \E v \in {v \in Vouchers : ~Claimed(v)} :
            /\ req[r].at = "claim_insert"
            /\ req' = [req EXCEPT ![r].at = "claim_order", ![r].id = v]
            /\ voucher' = [voucher EXCEPT ![v] =
                   [NoVoucher EXCEPT !.user = req[r].user, !.offer = req[r].offer]]
       \/ /\ Finish(r, "claim_insert")
          /\ UNCHANGED voucher
    /\ UNCHANGED <<order, stars, late, told, redeems, aborts>>

\* An order is pending at first; telling the merchant may fail.
createOrder(v) ==
    /\ order' = [order EXCEPT ![v].status = "pending"]
    /\ told' \in {told, [told EXCEPT ![v] = @ \cup {"pending"}]}

\* The failure of createOrder is swallowed.  A merchant who claims an offer of their
\* own gets no order.
ClaimOrder(r) ==
    /\ Finish(r, "claim_order")
    /\ \/ Owner[req[r].offer] # req[r].user /\ createOrder(req[r].id)
       \/ UNCHANGED <<order, told>>
    /\ UNCHANGED <<voucher, stars, late, redeems, aborts>>

-----------------------------------------------------------------------------
(* Verification codes: getVoucherById and generateVerificationCodeForVoucher *)

CodeRead(r, v, c) ==
    /\ Claimed(v)
    /\ voucher[v].code = None
    /\ \A w \in Vouchers : voucher[w].code # c
    /\ Begin(r, [Idle EXCEPT !.at = "code_save", !.id = v, !.code = c,
                             !.read = voucher[v]])
    /\ UNCHANGED <<voucher, order, stars, late, told, redeems, aborts>>

\* The index on verificationCode refuses a code another voucher has.
CodeSave(r) ==
    /\ Finish(r, "code_save")
    /\ LET v == req[r].id
           c == req[r].code
           read == req[r].read
       IN  \/ /\ \A w \in Vouchers : voucher[w].code # c
              /\ voucher' = [voucher EXCEPT ![v] = Saved(@, read, [read EXCEPT !.code = c])]
           \/ /\ \E w \in Vouchers \ {v} : voucher[w].code = c
              /\ UNCHANGED voucher
    /\ UNCHANGED <<order, stars, late, told, redeems, aborts>>

-----------------------------------------------------------------------------
(* verifyVoucher and verifyVoucherByCode *)

\* A voucher found past its expiry is marked expired in a second call.
VerifyRead(r, v) ==
    /\ Claimed(v)
    /\ voucher[v].status # "redeemed"
    /\ v \in late
    /\ Begin(r, [Idle EXCEPT !.at = "verify_expire", !.id = v])
    /\ UNCHANGED <<voucher, order, stars, late, told, redeems, aborts>>

\* Regression: a status outside the enumeration, which an update does not validate.
VerifyExpireUnlisted(r) ==
    /\ Finish(r, "verify_expire")
    /\ voucher' = [voucher EXCEPT ![req[r].id].status = "invalid"]
    /\ UNCHANGED <<order, stars, late, told, redeems, aborts>>

\* findOneAndUpdate by id alone: the status may have changed since.
VerifyExpire(r) ==
    /\ Finish(r, "verify_expire")
    /\ voucher' = [voucher EXCEPT ![req[r].id].status = "expired"]
    /\ UNCHANGED <<order, stars, late, told, redeems, aborts>>

-----------------------------------------------------------------------------
(* redeemVoucher, with the QR code or the verification code of the voucher *)

RedeemRead(r, v, m) ==
    /\ Claimed(v)
    /\ voucher[v].status # "redeemed"
    /\ Begin(r, [Idle EXCEPT !.at = IF v \in late THEN "redeem_expire" ELSE "redeem_offer",
                             !.user = m, !.id = v, !.read = voucher[v]])
    /\ UNCHANGED <<voucher, order, stars, late, told, redeems, aborts>>

RedeemExpire(r) ==
    /\ Finish(r, "redeem_expire")
    /\ LET v == req[r].id
           read == req[r].read
       IN  voucher' = [voucher EXCEPT
                         ![v] = Saved(@, read, [read EXCEPT !.status = "expired"])]
    /\ UNCHANGED <<order, stars, late, told, redeems, aborts>>

\* The loyalty points are those the offer has when it is looked up.
RedeemOffer(r) ==
    /\ req[r].at = "redeem_offer"
    /\ req' = [req EXCEPT ![r].at = "redeem_save",
                          ![r].points = stars[voucher[req[r].id].offer]]
    /\ UNCHANGED <<voucher, order, stars, late, told, redeems, aborts>>

\* Regression: the points are added to those the voucher has.
RedeemSaveAdding(r) ==
    /\ Move(r, "redeem_save", Sync(r))
    /\ LET v == req[r].id
       IN  /\ voucher' = [voucher EXCEPT ![v].status = "redeemed", ![v].by = req[r].user,
                                         ![v].points = @ + req[r].points]
           /\ redeems' = [redeems EXCEPT ![v] = @ + 1]
    /\ UNCHANGED <<order, stars, late, told, aborts>>

\* Regression: the redemption is answered although the save failed.
RedeemSaveSwallowed(r) ==
    /\ Move(r, "redeem_save", Sync(r))
    /\ redeems' = [redeems EXCEPT ![req[r].id] = @ + 1]
    /\ UNCHANGED <<voucher, order, stars, late, told, aborts>>

\* The save fails when another voucher was redeemed in the same millisecond: the
\* index on redemptionCode refuses the second.
RedeemSave(r) ==
    /\ LET v == req[r].id
           read == req[r].read
       IN  \/ /\ Move(r, "redeem_save", Sync(r))
              /\ voucher' = [voucher EXCEPT ![v] =
                    Saved(@, read, [read EXCEPT !.status = "redeemed",
                                                !.by     = req[r].user,
                                                !.points = req[r].points])]
              /\ redeems' = [redeems EXCEPT ![v] = @ + 1]
           \/ /\ Finish(r, "redeem_save")
              /\ UNCHANGED <<voucher, redeems>>
    /\ UNCHANGED <<order, stars, late, told, aborts>>

\* Regression: only accepted orders are looked up.
SyncFindAccepted(r) ==
    /\ req[r].at = "sync_find"
    /\ LET v == req[r].id
       IN  IF Merchant(v) = req[r].user /\ order[v].status = "accepted"
           THEN Move(r, "sync_find", [req[r] EXCEPT !.at = "order_read"])
           ELSE Finish(r, "sync_find")
    /\ UNCHANGED <<voucher, order, stars, late, told, redeems, aborts>>

\* completeOrderByVoucherId looks the open order of the redeeming merchant up by its
\* voucher, then has updateOrderStatus read it again.
SyncFind(r) ==
    /\ req[r].at = "sync_find"
    /\ LET v == req[r].id
       IN  IF Merchant(v) = req[r].user /\ order[v].status \in Open
           THEN Move(r, "sync_find", [req[r] EXCEPT !.at = "order_read"])
           ELSE Finish(r, "sync_find")
    /\ UNCHANGED <<voucher, order, stars, late, told, redeems, aborts>>

-----------------------------------------------------------------------------
(* updateOrderStatus and completeOrderWithQr: any status may follow any other *)

UpdateOrderRead(r, v, want) ==
    /\ order[v].status # "none"
    /\ Begin(r, [Idle EXCEPT !.at = "order_save", !.id = v, !.want = want,
                             !.readOrder = order[v]])
    /\ UNCHANGED <<voucher, order, stars, late, told, redeems, aborts>>

SyncOrderRead(r) ==
    /\ req[r].at = "order_read"
    /\ req' = [req EXCEPT ![r].at = "order_save", ![r].want = "completed",
                          ![r].readOrder = order[req[r].id]]
    /\ UNCHANGED <<voucher, order, stars, late, told, redeems, aborts>>

CompleteOrderWithQrRead(r, v) == UpdateOrderRead(r, v, "completed")

\* Regression: an order is given its completion time only if it was accepted first.
OrderSaveUntimed(r) ==
    /\ Move(r, "order_save", Notify(r))
    /\ LET v == req[r].id
           read == req[r].readOrder
           want == req[r].want
           mine == [status      |-> want,
                    acceptedAt  |-> read.acceptedAt \/ want = "accepted",
                    completedAt |-> read.completedAt
                                    \/ (want = "completed" /\ read.status = "accepted")]
       IN  order' = [order EXCEPT ![v] = Saved(@, read, mine)]
    /\ UNCHANGED <<voucher, stars, late, told, redeems, aborts>>

\* Regression: a failed save is swallowed.
OrderSaveSwallowed(r) ==
    /\ Move(r, "order_save", Notify(r))
    /\ UNCHANGED <<voucher, order, stars, late, told, redeems, aborts>>

OrderSave(r) ==
    /\ Move(r, "order_save", Notify(r))
    /\ LET v == req[r].id
           read == req[r].readOrder
           want == req[r].want
           mine == [status      |-> want,
                    acceptedAt  |-> read.acceptedAt \/ want = "accepted",
                    completedAt |-> read.completedAt \/ want = "completed"]
       IN  order' = [order EXCEPT ![v] = Saved(@, read, mine)]
    /\ UNCHANGED <<voucher, stars, late, told, redeems, aborts>>

\* The customer is told of every status but pending; a failure is swallowed.
OrderNotify(r) ==
    /\ Finish(r, "order_notify")
    /\ \/ /\ req[r].want # "pending"
          /\ told' = [told EXCEPT ![req[r].id] = @ \cup {req[r].want}]
       \/ UNCHANGED told
    /\ UNCHANGED <<voucher, order, stars, late, redeems, aborts>>

-----------------------------------------------------------------------------
(* Time, the merchant's offer, crashes *)

\* The thirty days of a voucher are over.
Lapse(v) ==
    /\ Claimed(v)
    /\ v \notin late
    /\ late' = late \cup {v}
    /\ UNCHANGED <<voucher, order, stars, req, told, redeems, aborts>>

\* The merchant changes the loyalty reward of an offer, or removes the offer.
OfferChanges(o, s) ==
    /\ stars[o] # s
    /\ stars' = [stars EXCEPT ![o] = s]
    /\ UNCHANGED <<voucher, order, late, req, told, redeems, aborts>>

\* A request ends at an await: the process dies or the database call rejects.
RequestAborts(r) ==
    /\ req[r].at # "idle"
    /\ aborts < MaxAborts
    /\ aborts' = aborts + 1
    /\ Finish(r, req[r].at)
    /\ UNCHANGED <<voucher, order, stars, late, told, redeems>>

-----------------------------------------------------------------------------
\* Requests are made by REST or by messages; a message that is delivered again is one
\* more request.
VoucherAsked(r) ==
    \/ \E u \in People, o \in Offers : ClaimLookup(r, u, o)
    \/ \E v \in Vouchers :
        \/ \E c \in Codes : CodeRead(r, v, c)
        \/ VerifyRead(r, v)
        \/ \E m \in People : RedeemRead(r, v, m)

OrderAsked(r) ==
    \E v \in Vouchers :
        \/ \E want \in Sent : UpdateOrderRead(r, v, want)
        \/ CompleteOrderWithQrRead(r, v)

HandlerStep(r) ==
    \/ ClaimInsert(r)
    \/ ClaimOrder(r)
    \/ CodeSave(r)
    \/ VerifyExpire(r)
    \/ RedeemExpire(r)
    \/ RedeemOffer(r)
    \/ RedeemSave(r)
    \/ SyncFind(r)
    \/ SyncOrderRead(r)
    \/ OrderSave(r)
    \/ OrderNotify(r)

Next ==
    \/ \E r \in Reqs : VoucherAsked(r) \/ OrderAsked(r) \/ HandlerStep(r) \/ RequestAborts(r)
    \/ \E v \in Vouchers : Lapse(v)
    \/ \E o \in Offers, s \in 0..MaxStars : OfferChanges(o, s)

Spec == Init /\ [][Next]_vars

-----------------------------------------------------------------------------
(* Properties *)

\* Every variable stays within its type.
TypeOK ==
    /\ voucher \in [Vouchers -> Voucher]
    /\ order \in [Vouchers -> Order]
    /\ stars \in [Offers -> 0..MaxStars]
    /\ late \subseteq Vouchers
    /\ req \in [Reqs -> Request]
    /\ told \in [Vouchers -> SUBSET OrderStatus]
    /\ redeems \in [Vouchers -> Nat]
    /\ aborts \in 0..MaxAborts

\* The merchant never gets an order without a voucher, nor one for a claim of their
\* own offer, whatever fails on the way (claimOffer).
OrderHasVoucher ==
    \A v \in Vouchers : order[v].status # "none" =>
        Claimed(v) /\ voucher[v].user # Merchant(v)

\* A voucher that was redeemed or expired is never usable again: no request that
\* read it while it was active brings the old status back (redeemVoucher,
\* verifyVoucher, getVoucherById).
NeverUsableAgain ==
    [][\A v \in Vouchers : voucher[v].status # "active" => voucher'[v].status # "active"]_vars

\* However many redemptions of a voucher race, it awards the points of the offer
\* once (redeemVoucher; getMerchantLoyaltyRewards sums them up).
PointsAwardedOnce ==
    \A v \in Vouchers : voucher[v].points <= MaxStars

\* A redemption the merchant was told of stays recorded, with the merchant, also
\* when an expiry check overtakes it.
RedemptionRecorded ==
    \A v \in Vouchers : redeems[v] > 0 =>
        voucher[v].by # None /\ voucher[v].status # "active"

\* An accepted order has its acceptance time and a completed one its completion
\* time, although racing requests save status and times from stale reads
\* (updateOrderStatus, completeOrderWithQr).
TimesMatchStatus ==
    \A v \in Vouchers : /\ order[v].status = "accepted" => order[v].acceptedAt
                        /\ order[v].status = "completed" => order[v].completedAt

\* The customer is told that an order was accepted or completed only after it was.
ToldAfterTheFact ==
    \A v \in Vouchers : /\ "accepted" \in told[v] => order[v].acceptedAt
                        /\ "completed" \in told[v] => order[v].completedAt

\* A user holds at most one active voucher of an offer (claimOffer).
OneActiveClaim ==
    \A v, w \in Vouchers :
        /\ Claimed(v) /\ Claimed(w)
        /\ voucher[v].user = voucher[w].user /\ voucher[v].offer = voucher[w].offer
        /\ voucher[v].status = "active" /\ voucher[w].status = "active"
        => v = w

\* The Orders tab follows the voucher: once its merchant redeemed it and no request
\* is under way, its order is not open any more (redeemVoucher).
OrderFollowsVoucher ==
    (\A r \in Reqs : req[r].at = "idle") =>
        \A v \in Vouchers :
            voucher[v].status = "redeemed" /\ voucher[v].by = Merchant(v)
            => order[v].status \notin Open

\* Redemptions that race award the points of one, and what the merchant was told of
\* stays (redeemVoucher).
RedemptionSound == PointsAwardedOnce /\ RedemptionRecorded

\* The times of an order and the notices about it fit its status, whichever requests
\* saved it from stale reads (updateOrderStatus, completeOrderWithQr).
OrderHistory == TimesMatchStatus /\ ToldAfterTheFact

\* What holds when requests are served one at a time, and no longer when two of them
\* overlap: one active claim of an offer, and an order that follows its voucher.
InTurn == OneActiveClaim /\ OrderFollowsVoucher

\* A voucher is redeemed at most once (redeemVoucher).
RedeemedOnce ==
    \A v \in Vouchers : redeems[v] <= 1
=============================================================================
