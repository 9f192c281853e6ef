---------------------------- MODULE VouchersProofs ----------------------------
(* Proofs about Vouchers: what racing requests record about vouchers and orders    *)
(* fits together, for any number of people, offers, vouchers and requests.         *)
EXTENDS Vouchers, TLAPS

VoucherStep == {"code_save", "verify_expire", "redeem_expire", "redeem_offer", "redeem_save"}
SaveStep    == {"code_save", "redeem_expire", "redeem_offer", "redeem_save"}
RedeemStep  == {"redeem_offer", "redeem_save"}
OrderStep   == {"order_read", "order_save", "order_notify"}

\* What a request in flight knows for sure of the documents, however stale its read is.
RequestOK(r) ==
    /\ req[r].at = "claim_insert" => req[r].user \in People /\ req[r].offer \in Offers
    /\ req[r].at = "claim_order" =>
          /\ req[r].id \in Vouchers /\ Claimed(req[r].id)
          /\ voucher[req[r].id].user = req[r].user
          /\ voucher[req[r].id].offer = req[r].offer
    /\ req[r].at \in VoucherStep => req[r].id \in Vouchers /\ Claimed(req[r].id)
    /\ req[r].at = "code_save" => req[r].code \in Codes
    /\ req[r].at \in SaveStep => (req[r].read.by # None => voucher[req[r].id].by # None)
    /\ req[r].at \in RedeemStep => req[r].read.status # "redeemed" /\ req[r].user \in People
    /\ req[r].at = "redeem_save" => req[r].points <= MaxStars
    /\ req[r].at = "sync_find" => req[r].id \in Vouchers
    /\ req[r].at \in OrderStep => req[r].id \in Vouchers /\ order[req[r].id].status # "none"
    /\ req[r].at = "order_save" =>
          /\ req[r].readOrder.acceptedAt => order[req[r].id].acceptedAt
          /\ req[r].readOrder.completedAt => order[req[r].id].completedAt
    /\ req[r].at = "order_notify" =>
          /\ req[r].want = "accepted" => order[req[r].id].acceptedAt
          /\ req[r].want = "completed" => order[req[r].id].completedAt

ReqOK == \A r \in Reqs : RequestOK(r)

\* A voucher is of an offer; a document that does not exist was never used.
DocOK == \A v \in Vouchers :
    IF Claimed(v) THEN voucher[v].offer \in Offers
                  ELSE voucher[v].status = "active" /\ voucher[v].by = None

Inv == TypeOK /\ ReqOK /\ DocOK /\ OrderHasVoucher /\ RedemptionSound /\ OrderHistory

\* What no step undoes.
VouchersKept ==
    \A v \in Vouchers :
        /\ Claimed(v) => /\ voucher'[v].user = voucher[v].user
                         /\ voucher'[v].offer = voucher[v].offer
        /\ voucher[v].by # None => voucher'[v].by # None
        /\ voucher[v].status # "active" => voucher'[v].status # "active"

OrdersKept ==
    \A v \in Vouchers :
        /\ order[v].status # "none" => order'[v].status # "none"
        /\ order[v].acceptedAt => order'[v].acceptedAt
        /\ order[v].completedAt => order'[v].completedAt

\* Only request r moved.
OnlyMoved(r) ==
    /\ req' \in [Reqs -> Request]
    /\ \A s \in Reqs \ {r} : req'[s] = req[s]

-----------------------------------------------------------------------------
(* What save() does *)

LEMMA SavedVoucher ==
    ASSUME NEW now \in Voucher, NEW read \in Voucher, NEW mine \in Voucher
    PROVE  /\ Saved(now, read, mine) \in Voucher
           /\ \A f \in {"user", "offer", "status", "code", "by", "points"} :
                Saved(now, read, mine)[f] = IF mine[f] = read[f] THEN now[f] ELSE mine[f]
  <1>1. DOMAIN now = {"user", "offer", "status", "code", "by", "points"}
    BY DEF Voucher
  <1>2. \A f \in {"user", "offer", "status", "code", "by", "points"} :
                Saved(now, read, mine)[f] = IF mine[f] = read[f] THEN now[f] ELSE mine[f]
    BY <1>1 DEF Saved
  <1>3. Saved(now, read, mine) \in Voucher
    BY <1>1 DEF Saved, Voucher
  <1> QED BY <1>2, <1>3

LEMMA SavedOrder ==
    ASSUME NEW now \in Order, NEW read \in Order, NEW mine \in Order
    PROVE  /\ Saved(now, read, mine) \in Order
           /\ \A f \in {"status", "acceptedAt", "completedAt"} :
                Saved(now, read, mine)[f] = IF mine[f] = read[f] THEN now[f] ELSE mine[f]
  <1>1. DOMAIN now = {"status", "acceptedAt", "completedAt"}
    BY DEF Order
  <1>2. \A f \in {"status", "acceptedAt", "completedAt"} :
                Saved(now, read, mine)[f] = IF mine[f] = read[f] THEN now[f] ELSE mine[f]
    BY <1>1 DEF Saved
  <1>3. Saved(now, read, mine) \in Order
    BY <1>1 DEF Saved, Order
  <1> QED BY <1>2, <1>3

\* The request itself does not make the voucher active or unassigned again.
FitToSave(v, read, mine) ==
    /\ mine.user = read.user /\ mine.offer = read.offer
    /\ mine.by = read.by \/ mine.by # None
    /\ read.by # None => voucher[v].by # None
    /\ mine.status = read.status \/ mine.status # "active"
    /\ mine.points = read.points \/ mine.points <= MaxStars

\* A request that saves a voucher it read, whatever was saved since, keeps what others
\* rely on.
LEMMA SaveKeepsVoucher ==
    ASSUME Inv, NEW v \in Vouchers, Claimed(v), NEW read \in Voucher, NEW mine \in Voucher,
           voucher' = [voucher EXCEPT ![v] = Saved(@, read, mine)],
           FitToSave(v, read, mine)
    PROVE  /\ voucher' \in [Vouchers -> Voucher]
           /\ VouchersKept
           /\ DocOK'
           /\ PointsAwardedOnce'
           /\ voucher'[v].by = IF mine.by = read.by THEN voucher[v].by ELSE mine.by
           /\ voucher'[v].status = IF mine.status = read.status THEN voucher[v].status
                                                                ELSE mine.status
  <1>1. voucher \in [Vouchers -> Voucher]
    BY DEF Inv, TypeOK
  <1>2. /\ voucher'[v] \in Voucher
        /\ \A f \in {"user", "offer", "status", "code", "by", "points"} :
             voucher'[v][f] = IF mine[f] = read[f] THEN voucher[v][f] ELSE mine[f]
        /\ \A w \in Vouchers \ {v} : voucher'[w] = voucher[w]
    BY <1>1, SavedVoucher
  <1>3. voucher' \in [Vouchers -> Voucher]
    BY <1>1, <1>2
  <1>4. VouchersKept
    BY <1>2 DEF VouchersKept, FitToSave
  <1>5. DocOK'
    BY <1>2 DEF Inv, DocOK, Claimed, FitToSave
  <1>6. PointsAwardedOnce'
    BY <1>2 DEF Inv, RedemptionSound, PointsAwardedOnce, FitToSave
  <1> QED BY <1>2, <1>3, <1>4, <1>5, <1>6

-----------------------------------------------------------------------------
(* What a step leaves alone *)

\* What is kept is all that the requests that did not move know.
LEMMA RequestsKept ==
    ASSUME Inv, VouchersKept, OrdersKept, NEW r \in Reqs, OnlyMoved(r), RequestOK(r)'
    PROVE  ReqOK'
  <1> SUFFICES ASSUME NEW s \in Reqs \ {r} PROVE RequestOK(s)'
    BY DEF ReqOK
  <1>1. RequestOK(s) /\ req'[s] = req[s]
    BY DEF Inv, ReqOK, OnlyMoved
  <1> QED BY <1>1 DEF RequestOK, VouchersKept, OrdersKept, Claimed,
                      VoucherStep, SaveStep, RedeemStep, OrderStep

LEMMA DoneOK ==
    ASSUME NEW r \in Reqs, req'[r] = Idle
    PROVE  RequestOK(r)'
  BY DEF RequestOK, Idle, VoucherStep, SaveStep, RedeemStep, OrderStep

\* A step that only reads.
LEMMA ReadInv ==
    ASSUME Inv, NEW r \in Reqs, OnlyMoved(r), RequestOK(r)', aborts' \in 0..MaxAborts,
           UNCHANGED <<voucher, order, stars, late, told, redeems>>
    PROVE  Inv'
  <1>1. VouchersKept /\ OrdersKept
    BY DEF VouchersKept, OrdersKept
  <1>2. ReqOK'
    BY <1>1, RequestsKept
  <1>3. TypeOK'
    BY DEF Inv, TypeOK, OnlyMoved
  <1>4. DocOK' /\ OrderHasVoucher' /\ RedemptionSound' /\ OrderHistory'
    BY DEF Inv, DocOK, Claimed, OrderHasVoucher, Merchant, RedemptionSound, PointsAwardedOnce,
           RedemptionRecorded, OrderHistory, TimesMatchStatus, ToldAfterTheFact
  <1> QED BY <1>2, <1>3, <1>4 DEF Inv

\* A step that writes vouchers and no order.
LEMMA VoucherWriteInv ==
    ASSUME Inv, NEW r \in Reqs, OnlyMoved(r), RequestOK(r)',
           voucher' \in [Vouchers -> Voucher], VouchersKept, DocOK', PointsAwardedOnce',
           redeems' \in [Vouchers -> Nat],
           \A v \in Vouchers : redeems'[v] > 0 =>
              redeems[v] > 0 \/ (voucher'[v].by # None /\ voucher'[v].status # "active"),
           UNCHANGED <<order, stars, late, told, aborts>>
    PROVE  Inv'
  <1>1. OrdersKept
    BY DEF OrdersKept
  <1>2. ReqOK'
    BY <1>1, RequestsKept
  <1>3. TypeOK'
    BY DEF Inv, TypeOK, OnlyMoved
  <1>4. OrderHasVoucher'
    BY DEF Inv, OrderHasVoucher, VouchersKept, Merchant, Claimed
  <1>5. RedemptionSound'
    BY DEF Inv, RedemptionSound, RedemptionRecorded, VouchersKept
  <1>6. OrderHistory'
    BY DEF Inv, OrderHistory, TimesMatchStatus, ToldAfterTheFact
  <1> QED BY <1>2, <1>3, <1>4, <1>5, <1>6 DEF Inv

\* A step that writes an order of a voucher that exists, and no voucher.
LEMMA OrderWriteInv ==
    ASSUME Inv, NEW r \in Reqs, OnlyMoved(r), RequestOK(r)',
           order' \in [Vouchers -> Order], OrdersKept, OrderHasVoucher', OrderHistory',
           told' \in [Vouchers -> SUBSET OrderStatus],
           UNCHANGED <<voucher, stars, late, redeems, aborts>>
    PROVE  Inv'
  <1>1. VouchersKept
    BY DEF VouchersKept
  <1>2. ReqOK'
    BY <1>1, RequestsKept
  <1>3. TypeOK'
    BY DEF Inv, TypeOK, OnlyMoved
  <1>4. DocOK' /\ RedemptionSound'
    BY DEF Inv, DocOK, Claimed, RedemptionSound, PointsAwardedOnce, RedemptionRecorded
  <1> QED BY <1>2, <1>3, <1>4 DEF Inv

-----------------------------------------------------------------------------
(* One lemma for each action that writes *)

LEMMA IdleType == Idle \in Request
  BY NoneAssumption DEF Idle, Request, Step, NoVoucher, NoOrder, Voucher, Order,
        VoucherStatus, OrderStatus

LEMMA FinishMoves ==
    ASSUME Inv, NEW r \in Reqs, NEW at, Finish(r, at)
    PROVE  OnlyMoved(r) /\ req'[r] = Idle /\ RequestOK(r)'
  <1>1. OnlyMoved(r) /\ req'[r] = Idle
    BY IdleType DEF Inv, TypeOK, Finish, OnlyMoved
  <1> QED BY <1>1, DoneOK

\* A request that moves on, with some of its fields set.
LEMMA MoveOn ==
    ASSUME Inv, NEW r \in Reqs, NEW q \in Request, req' = [req EXCEPT ![r] = q]
    PROVE  OnlyMoved(r) /\ req'[r] = q
  BY DEF Inv, TypeOK, OnlyMoved

LEMMA ClaimInsertInv ==
    ASSUME Inv, NEW r \in Reqs, ClaimInsert(r)
    PROVE  Inv' /\ VouchersKept
  <1>1. ASSUME NEW v \in Vouchers, ~Claimed(v), req[r].at = "claim_insert",
               req' = [req EXCEPT ![r].at = "claim_order", ![r].id = v],
               voucher' = [voucher EXCEPT ![v] =
                   [NoVoucher EXCEPT !.user = req[r].user, !.offer = req[r].offer]]
        PROVE  Inv' /\ VouchersKept
    <2>1. RequestOK(r) /\ req[r].user \in People /\ req[r].offer \in Offers
      BY <1>1 DEF Inv, ReqOK, RequestOK
    <2> DEFINE q == [req[r] EXCEPT !.at = "claim_order", !.id = v]
    <2>2. q \in Request
      BY ZenonT(60) DEF Inv, TypeOK, Request, Step
    <2>3. OnlyMoved(r) /\ req'[r] = q
      BY <1>1, <2>2 DEF Inv, TypeOK, OnlyMoved
    <2>4. /\ voucher'[v] \in Voucher
          /\ voucher'[v].user = req[r].user /\ voucher'[v].offer = req[r].offer
          /\ voucher'[v].status = "active" /\ voucher'[v].points = 0 /\ voucher'[v].by = None
          /\ \A w \in Vouchers \ {v} : voucher'[w] = voucher[w]
      BY <1>1, <2>1 DEF Inv, TypeOK, NoVoucher, Voucher, VoucherStatus
    <2>5. voucher' \in [Vouchers -> Voucher]
      BY <1>1, <2>4 DEF Inv, TypeOK
    <2>6. voucher[v].status = "active"
      BY <1>1 DEF Inv, DocOK
    <2>7. RequestOK(r)'
      <3>1. Claimed(v)'
        BY <2>1, <2>4, NoneAssumption DEF Claimed
      <3> QED BY <2>3, <2>4, <3>1
              DEF RequestOK, Inv, TypeOK, Request, VoucherStep, SaveStep, RedeemStep, OrderStep
    <2>8. DocOK'
      BY <2>1, <2>4 DEF Inv, DocOK, Claimed
    <2>9. PointsAwardedOnce'
      BY <2>4, BoundsAssumption DEF Inv, RedemptionSound, PointsAwardedOnce
    <2>10. VouchersKept
      BY <1>1, <2>4 DEF Inv, DocOK, VouchersKept, Claimed
    <2>11. UNCHANGED <<order, stars, late, told, redeems, aborts>>
      BY DEF ClaimInsert
    <2> HIDE DEF q
    <2>12. Inv'
      BY <2>3, <2>5, <2>7, <2>8, <2>9, <2>10, <2>11, VoucherWriteInv DEF Inv, TypeOK
    <2> QED BY <2>10, <2>12
  <1>2. ASSUME Finish(r, "claim_insert"), UNCHANGED voucher
        PROVE  Inv' /\ VouchersKept
    <2>1. UNCHANGED <<voucher, order, stars, late, told, redeems, aborts>>
      BY <1>2 DEF ClaimInsert
    <2>2. VouchersKept
      BY <2>1 DEF VouchersKept
    <2>3. aborts' \in 0..MaxAborts
      BY <2>1 DEF Inv, TypeOK
    <2> QED BY <1>2, <2>1, <2>2, <2>3, FinishMoves, ReadInv
  <1> QED BY <1>1, <1>2 DEF ClaimInsert

\* An order is created for the voucher of the claim, and never for the merchant's own.
LEMMA ClaimOrderInv ==
    ASSUME Inv, NEW r \in Reqs, ClaimOrder(r)
    PROVE  Inv' /\ VouchersKept
  <1> DEFINE v == req[r].id
  <1>1. /\ v \in Vouchers /\ Claimed(v)
        /\ voucher[v].user = req[r].user /\ voucher[v].offer = req[r].offer
    BY DEF ClaimOrder, Finish, Inv, ReqOK, RequestOK
  <1>2. OnlyMoved(r) /\ RequestOK(r)'
    BY FinishMoves DEF ClaimOrder
  <1>3. UNCHANGED <<voucher, stars, late, redeems, aborts>>
    BY DEF ClaimOrder
  <1>4. VouchersKept
    BY <1>3 DEF VouchersKept
  <1>5. CASE Owner[req[r].offer] # req[r].user /\ createOrder(v)
    <2>1. /\ order'[v] = [order[v] EXCEPT !.status = "pending"]
          /\ \A w \in Vouchers \ {v} : order'[w] = order[w]
          /\ order' \in [Vouchers -> Order]
      BY <1>1, <1>5 DEF createOrder, Inv, TypeOK, Order, OrderStatus
    <2>2. told' = told \/ told' = [told EXCEPT ![v] = @ \cup {"pending"}]
      BY <1>5 DEF createOrder
    <2>3. /\ told' \in [Vouchers -> SUBSET OrderStatus]
          /\ \A w \in Vouchers : told'[w] \subseteq told[w] \cup {"pending"}
      BY <2>2 DEF Inv, TypeOK, OrderStatus
    <2>4. order[v] \in Order
      BY <1>1 DEF Inv, TypeOK
    <2>5. /\ order'[v].status = "pending"
          /\ order'[v].acceptedAt = order[v].acceptedAt
          /\ order'[v].completedAt = order[v].completedAt
      BY <2>1, <2>4 DEF Order
    <2>6. OrdersKept
      BY <2>1, <2>5 DEF OrdersKept
    <2>7. OrderHasVoucher'
      BY <1>1, <1>3, <1>5, <2>1 DEF Inv, OrderHasVoucher, Merchant, Claimed
    <2>8. OrderHistory'
      BY <2>1, <2>3, <2>5, ZenonT(60) DEF Inv, OrderHistory, TimesMatchStatus, ToldAfterTheFact
    <2> HIDE DEF v
    <2>9. Inv'
      BY <1>2, <1>3, <2>1, <2>3, <2>6, <2>7, <2>8, OrderWriteInv
    <2> QED BY <1>4, <2>9
  <1>6. CASE UNCHANGED <<order, told>>
    <2>1. aborts' \in 0..MaxAborts
      BY <1>3 DEF Inv, TypeOK
    <2>2. Inv'
      BY <1>2, <1>3, <1>6, <2>1, ReadInv
    <2> QED BY <1>4, <2>2
  <1> QED BY <1>5, <1>6 DEF ClaimOrder

LEMMA CodeSaveInv ==
    ASSUME Inv, NEW r \in Reqs, CodeSave(r)
    PROVE  Inv' /\ VouchersKept
  <1> DEFINE v == req[r].id
             read == req[r].read
             mine == [read EXCEPT !.code = req[r].code]
  <1>1. /\ v \in Vouchers /\ Claimed(v) /\ req[r].code \in Codes
        /\ read.by # None => voucher[v].by # None
    BY DEF CodeSave, Finish, Inv, ReqOK, RequestOK, VoucherStep, SaveStep
  <1>2. OnlyMoved(r) /\ RequestOK(r)'
    BY FinishMoves DEF CodeSave
  <1>3. UNCHANGED <<order, stars, late, told, redeems, aborts>>
    BY DEF CodeSave
  <1>4. CASE voucher' = [voucher EXCEPT ![v] = Saved(@, read, mine)]
    <2>1. read \in Voucher
      BY DEF Inv, TypeOK, Request
    <2>2. /\ mine \in Voucher
          /\ mine.user = read.user /\ mine.offer = read.offer /\ mine.by = read.by
          /\ mine.status = read.status /\ mine.points = read.points
      BY <1>1, <2>1 DEF Voucher
    <2> HIDE DEF v, read, mine
    <2>3. /\ voucher' \in [Vouchers -> Voucher] /\ VouchersKept /\ DocOK' /\ PointsAwardedOnce'
      BY <1>1, <1>4, <2>1, <2>2, SaveKeepsVoucher DEF FitToSave
    <2>4. Inv'
      BY <1>2, <1>3, <2>3, VoucherWriteInv DEF Inv, TypeOK
    <2> QED BY <2>3, <2>4
  <1>5. CASE UNCHANGED voucher
    <2>1. aborts' \in 0..MaxAborts /\ VouchersKept
      BY <1>3, <1>5 DEF Inv, TypeOK, VouchersKept
    <2>2. Inv'
      BY <1>2, <1>3, <1>5, <2>1, ReadInv
    <2> QED BY <2>1, <2>2
  <1> QED BY <1>4, <1>5 DEF CodeSave

\* The expiry that does not look at the status again keeps who redeemed the voucher.
LEMMA VerifyExpireInv ==
    ASSUME Inv, NEW r \in Reqs, VerifyExpire(r)
    PROVE  Inv' /\ VouchersKept
  <1> DEFINE v == req[r].id
  <1>1. v \in Vouchers /\ Claimed(v)
    BY DEF VerifyExpire, Finish, Inv, ReqOK, RequestOK, VoucherStep
  <1>2. OnlyMoved(r) /\ RequestOK(r)'
    BY FinishMoves DEF VerifyExpire
  <1>3. UNCHANGED <<order, stars, late, told, redeems, aborts>>
    BY DEF VerifyExpire
  <1>4. voucher[v] \in Voucher
    BY <1>1 DEF Inv, TypeOK
  <1>5. /\ voucher' \in [Vouchers -> Voucher]
        /\ voucher'[v] = [voucher[v] EXCEPT !.status = "expired"]
        /\ \A w \in Vouchers \ {v} : voucher'[w] = voucher[w]
    BY <1>1, SMTT(60) DEF VerifyExpire, Inv, TypeOK, Voucher, VoucherStatus
  <1>6. /\ voucher'[v].user = voucher[v].user /\ voucher'[v].offer = voucher[v].offer
        /\ voucher'[v].by = voucher[v].by /\ voucher'[v].points = voucher[v].points
        /\ voucher'[v].status = "expired"
    BY <1>4, <1>5 DEF Voucher
  <1> HIDE DEF v
  <1>7. VouchersKept
    BY <1>5, <1>6 DEF VouchersKept
  <1>8. DocOK' /\ PointsAwardedOnce'
    <2>1. DocOK'
      <3> SUFFICES ASSUME NEW w \in Vouchers
                   PROVE  IF voucher'[w].user # None
                          THEN voucher'[w].offer \in Offers
                          ELSE voucher'[w].status = "active" /\ voucher'[w].by = None
        BY DEF DocOK, Claimed
      <3>1. CASE w = v
        <4>1. voucher[v].user # None /\ voucher[v].offer \in Offers
          BY <1>1 DEF Inv, DocOK, Claimed
        <4> QED BY <1>6, <3>1, <4>1
      <3>2. CASE w # v
        BY <1>5, <3>2 DEF Inv, DocOK, Claimed
      <3> QED BY <3>1, <3>2
    <2>2. PointsAwardedOnce'
      <3> SUFFICES ASSUME NEW w \in Vouchers PROVE voucher'[w].points <= MaxStars
        BY DEF PointsAwardedOnce
      <3> QED BY <1>5, <1>6 DEF Inv, RedemptionSound, PointsAwardedOnce
    <2> QED BY <2>1, <2>2
  <1>9. Inv'
    BY <1>2, <1>3, <1>5, <1>7, <1>8, VoucherWriteInv DEF Inv, TypeOK
  <1> QED BY <1>7, <1>9

LEMMA RedeemExpireInv ==
    ASSUME Inv, NEW r \in Reqs, RedeemExpire(r)
    PROVE  Inv' /\ VouchersKept
  <1> DEFINE v == req[r].id
             read == req[r].read
             mine == [read EXCEPT !.status = "expired"]
  <1>1. /\ v \in Vouchers /\ Claimed(v)
        /\ read.by # None => voucher[v].by # None
    BY DEF RedeemExpire, Finish, Inv, ReqOK, RequestOK, VoucherStep, SaveStep
  <1>2. OnlyMoved(r) /\ RequestOK(r)'
    BY FinishMoves DEF RedeemExpire
  <1>3. /\ voucher' = [voucher EXCEPT ![v] = Saved(@, read, mine)]
        /\ UNCHANGED <<order, stars, late, told, redeems, aborts>>
    BY DEF RedeemExpire
  <1>4. read \in Voucher
    BY DEF Inv, TypeOK, Request
  <1>5. /\ mine \in Voucher
        /\ mine.user = read.user /\ mine.offer = read.offer /\ mine.by = read.by
        /\ mine.status = "expired" /\ mine.points = read.points
    BY <1>1, <1>4 DEF Voucher, VoucherStatus
  <1> HIDE DEF v, read, mine
  <1>6. /\ voucher' \in [Vouchers -> Voucher] /\ VouchersKept /\ DocOK' /\ PointsAwardedOnce'
    BY <1>1, <1>3, <1>4, <1>5, SaveKeepsVoucher DEF FitToSave
  <1>7. Inv'
    BY <1>2, <1>3, <1>6, VoucherWriteInv DEF Inv, TypeOK
  <1> QED BY <1>6, <1>7

\* A redemption leaves the voucher redeemed, with its merchant, whatever it overtook.
LEMMA RedeemSaveInv ==
    ASSUME Inv, NEW r \in Reqs, RedeemSave(r)
    PROVE  Inv' /\ VouchersKept
  <1> DEFINE v == req[r].id
             read == req[r].read
             mine == [read EXCEPT !.status = "redeemed", !.by = req[r].user,
                                  !.points = req[r].points]
  <1>1. /\ v \in Vouchers /\ Claimed(v) /\ req[r].user \in People
        /\ read.by # None => voucher[v].by # None
        /\ read.status # "redeemed" /\ req[r].points <= MaxStars
    BY DEF RedeemSave, Move, Finish, Inv, ReqOK, RequestOK, VoucherStep, SaveStep, RedeemStep
  <1>2. UNCHANGED <<order, stars, late, told, aborts>>
    BY DEF RedeemSave
  <1>3. read \in Voucher /\ req[r].points \in Nat
    BY DEF Inv, TypeOK, Request
  <1>4. /\ mine \in Voucher
        /\ mine.user = read.user /\ mine.offer = read.offer /\ mine.by = req[r].user
        /\ mine.status = "redeemed" /\ mine.points = req[r].points
    BY <1>1, <1>3 DEF Voucher, VoucherStatus
  <1>5. CASE /\ Move(r, "redeem_save", Sync(r))
             /\ voucher' = [voucher EXCEPT ![v] = Saved(@, read, mine)]
             /\ redeems' = [redeems EXCEPT ![v] = @ + 1]
    <2>1. Sync(r) \in Request /\ Sync(r).at = "sync_find" /\ Sync(r).id = v
      BY <1>1, IdleType DEF Sync, Idle, Request, Step
    <2>2. OnlyMoved(r) /\ req'[r] = Sync(r)
      BY <1>5, <2>1 DEF Inv, TypeOK, Move, OnlyMoved
    <2>3. RequestOK(r)'
      BY <1>1, <2>1, <2>2 DEF RequestOK, VoucherStep, SaveStep, RedeemStep, OrderStep
    <2>4. redeems' \in [Vouchers -> Nat]
      BY <1>1, <1>5 DEF Inv, TypeOK
    <2>5. \A w \in Vouchers \ {v} : redeems'[w] = redeems[w]
      BY <1>5 DEF Inv, TypeOK
    <2>6. mine.by # None
      BY <1>1, <1>4, NoneAssumption
    <2> HIDE DEF v, read, mine
    <2>7. /\ voucher' \in [Vouchers -> Voucher] /\ VouchersKept /\ DocOK' /\ PointsAwardedOnce'
          /\ voucher'[v].by = IF mine.by = read.by THEN voucher[v].by ELSE mine.by
          /\ voucher'[v].status = IF mine.status = read.status THEN voucher[v].status
                                                               ELSE mine.status
      <3>1. FitToSave(v, read, mine)
        BY <1>1, <1>4, <2>6 DEF FitToSave
      <3>2. voucher' = [voucher EXCEPT ![v] = Saved(@, read, mine)]
        BY <1>5
      <3>3. v \in Vouchers /\ Claimed(v) /\ read \in Voucher /\ mine \in Voucher
        BY <1>1, <1>3, <1>4
      <3>4. voucher' \in [Vouchers -> Voucher] /\ VouchersKept /\ DocOK' /\ PointsAwardedOnce'
        BY <3>1, <3>2, <3>3, SaveKeepsVoucher
      <3>5. voucher'[v].by = IF mine.by = read.by THEN voucher[v].by ELSE mine.by
        BY <3>1, <3>2, <3>3, SaveKeepsVoucher
      <3>6. voucher'[v].status = IF mine.status = read.status THEN voucher[v].status
                                                             ELSE mine.status
        BY <3>1, <3>2, <3>3, SaveKeepsVoucher, ZenonT(60)
      <3> QED BY <3>4, <3>5, <3>6
    <2>8. voucher'[v].by # None /\ voucher'[v].status # "active"
      BY <1>1, <1>4, <2>6, <2>7 DEF read
    <2>9. Inv'
      BY <1>2, <2>2, <2>3, <2>4, <2>5, <2>7, <2>8, VoucherWriteInv
    <2> QED BY <2>7, <2>9
  <1>6. CASE Finish(r, "redeem_save") /\ UNCHANGED <<voucher, redeems>>
    <2>1. aborts' \in 0..MaxAborts /\ VouchersKept
      BY <1>2, <1>6 DEF Inv, TypeOK, VouchersKept
    <2>2. Inv'
      BY <1>2, <1>6, <2>1, FinishMoves, ReadInv
    <2> QED BY <2>1, <2>2
  <1> QED BY <1>5, <1>6 DEF RedeemSave

\* The times of an order only grow, so a stale read never takes one away; the status
\* that is saved brings its own.
LEMMA OrderSaveInv ==
    ASSUME Inv, NEW r \in Reqs, OrderSave(r)
    PROVE  Inv' /\ VouchersKept
  <1> DEFINE v == req[r].id
             read == req[r].readOrder
             want == req[r].want
             mine == [status      |-> want,
                      acceptedAt  |-> read.acceptedAt \/ want = "accepted",
                      completedAt |-> read.completedAt \/ want = "completed"]
  <1>1. /\ v \in Vouchers /\ order[v].status # "none"
        /\ read.acceptedAt => order[v].acceptedAt
        /\ read.completedAt => order[v].completedAt
    BY DEF OrderSave, Move, Inv, ReqOK, RequestOK, OrderStep
  <1>2. /\ order' = [order EXCEPT ![v] = Saved(@, read, mine)]
        /\ UNCHANGED <<voucher, stars, late, told, redeems, aborts>>
    BY DEF OrderSave
  <1>3. read \in Order /\ want \in OrderStatus /\ order[v] \in Order
    BY <1>1 DEF Inv, TypeOK, Request
  <1>4. /\ mine \in Order
        /\ mine.status = want
        /\ mine.acceptedAt = (read.acceptedAt \/ want = "accepted")
        /\ mine.completedAt = (read.completedAt \/ want = "completed")
    BY <1>3 DEF Order
  <1>5. Notify(r) \in Request /\ Notify(r).at = "order_notify" /\ Notify(r).id = v
        /\ Notify(r).want = want
    BY <1>1, <1>3, IdleType DEF Notify, Idle, Request, Step
  <1>6. OnlyMoved(r) /\ req'[r] = Notify(r)
    BY <1>5 DEF OrderSave, Inv, TypeOK, Move, OnlyMoved
  <1>7. read.acceptedAt \in BOOLEAN /\ read.completedAt \in BOOLEAN
    BY <1>3 DEF Order
  <1> HIDE DEF mine
  <1>8. /\ order'[v] \in Order
        /\ \A w \in Vouchers \ {v} : order'[w] = order[w]
        /\ order' \in [Vouchers -> Order]
        /\ \A f \in {"status", "acceptedAt", "completedAt"} :
             order'[v][f] = IF mine[f] = read[f] THEN order[v][f] ELSE mine[f]
    BY <1>1, <1>2, <1>3, <1>4, SavedOrder DEF Inv, TypeOK
  <1>9. /\ order'[v].status = IF want = read.status THEN order[v].status ELSE want
        /\ order'[v].acceptedAt = IF mine.acceptedAt = read.acceptedAt
                                  THEN order[v].acceptedAt ELSE mine.acceptedAt
        /\ order'[v].completedAt = IF mine.completedAt = read.completedAt
                                   THEN order[v].completedAt ELSE mine.completedAt
    BY <1>4, <1>8
  <1>10. /\ order[v].acceptedAt \/ want = "accepted" => order'[v].acceptedAt
         /\ order[v].completedAt \/ want = "completed" => order'[v].completedAt
    BY <1>1, <1>4, <1>7, <1>9
  <1>11. VouchersKept
    BY <1>2 DEF VouchersKept
  <1>12. OrdersKept
    BY <1>1, <1>3, <1>8, <1>9, <1>10 DEF OrdersKept, OrderStatus
  <1>13. OrderHasVoucher'
    BY <1>1, <1>2, <1>8 DEF Inv, OrderHasVoucher, Merchant, Claimed
  <1>14. OrderHistory'
    BY <1>2, <1>8, <1>9, <1>10 DEF Inv, OrderHistory, TimesMatchStatus, ToldAfterTheFact
  <1>15. RequestOK(r)'
    BY <1>1, <1>5, <1>6, <1>10, <1>12
       DEF RequestOK, OrdersKept, VoucherStep, SaveStep, RedeemStep, OrderStep
  <1>16. told' \in [Vouchers -> SUBSET OrderStatus]
    BY <1>2 DEF Inv, TypeOK
  <1>17. Inv'
    BY <1>2, <1>6, <1>8, <1>12, <1>13, <1>14, <1>15, <1>16, OrderWriteInv
  <1> QED BY <1>11, <1>17

LEMMA OrderNotifyInv ==
    ASSUME Inv, NEW r \in Reqs, OrderNotify(r)
    PROVE  Inv' /\ VouchersKept
  <1> DEFINE v == req[r].id
  <1>1. /\ v \in Vouchers
        /\ req[r].want = "accepted" => order[v].acceptedAt
        /\ req[r].want = "completed" => order[v].completedAt
    BY DEF OrderNotify, Finish, Inv, ReqOK, RequestOK, OrderStep
  <1>2. OnlyMoved(r) /\ RequestOK(r)'
    BY FinishMoves DEF OrderNotify
  <1>3. UNCHANGED <<voucher, order, stars, late, redeems, aborts>>
    BY DEF OrderNotify
  <1>4. /\ told' \in [Vouchers -> SUBSET OrderStatus]
        /\ \A w \in Vouchers : told'[w] \subseteq told[w] \cup
                                   (IF w = v THEN {req[r].want} ELSE {})
    BY <1>1 DEF OrderNotify, Inv, TypeOK, Request
  <1>5. OrderHistory'
    BY <1>1, <1>3, <1>4 DEF Inv, OrderHistory, TimesMatchStatus, ToldAfterTheFact
  <1>6. VouchersKept /\ OrdersKept /\ OrderHasVoucher' /\ order' \in [Vouchers -> Order]
    BY <1>3 DEF VouchersKept, OrdersKept, Inv, TypeOK, OrderHasVoucher, Merchant, Claimed
  <1>7. Inv'
    BY <1>2, <1>3, <1>4, <1>5, <1>6, OrderWriteInv
  <1> QED BY <1>6, <1>7

-----------------------------------------------------------------------------
(* The actions that only read *)

LEMMA BeginMoves ==
    ASSUME Inv, NEW r \in Reqs, NEW q \in Request, Begin(r, q)
    PROVE  OnlyMoved(r) /\ req'[r] = q
  BY DEF Inv, TypeOK, OnlyMoved, Begin

LEMMA VoucherAskedInv ==
    ASSUME Inv, NEW r \in Reqs, VoucherAsked(r)
    PROVE  Inv'
  <1> USE DEF RequestOK, VoucherStep, SaveStep, RedeemStep, OrderStep
  <1>0. UNCHANGED <<voucher, order, stars, late, told, redeems, aborts>>
        /\ aborts' \in 0..MaxAborts
    BY DEF VoucherAsked, ClaimLookup, CodeRead, VerifyRead, RedeemRead, Inv, TypeOK
  <1>1. ASSUME NEW u \in People, NEW o \in Offers, ClaimLookup(r, u, o) PROVE Inv'
    <2> DEFINE q == [Idle EXCEPT !.at = "claim_insert", !.user = u, !.offer = o]
    <2>1. q \in Request
      BY IdleType DEF Idle, Request, Step
    <2>2. OnlyMoved(r) /\ req'[r] = q
      BY <1>1, <2>1, BeginMoves DEF ClaimLookup
    <2>3. RequestOK(r)'
      BY <2>2 DEF Idle
    <2> QED BY <1>0, <2>2, <2>3, ReadInv
  <1>2. ASSUME NEW v \in Vouchers, NEW c \in Codes, CodeRead(r, v, c) PROVE Inv'
    <2> DEFINE q == [Idle EXCEPT !.at = "code_save", !.id = v, !.code = c, !.read = voucher[v]]
    <2>1. q \in Request
      BY IdleType DEF Idle, Request, Step, Inv, TypeOK
    <2>2. OnlyMoved(r) /\ req'[r] = q
      BY <1>2, <2>1, BeginMoves DEF CodeRead
    <2>3. RequestOK(r)'
      BY <1>0, <1>2, <2>2 DEF Idle, CodeRead, Claimed
    <2> QED BY <1>0, <2>2, <2>3, ReadInv
  <1>3. ASSUME NEW v \in Vouchers, VerifyRead(r, v) PROVE Inv'
    <2> DEFINE q == [Idle EXCEPT !.at = "verify_expire", !.id = v]
    <2>1. q \in Request
      BY IdleType DEF Idle, Request, Step
    <2>2. OnlyMoved(r) /\ req'[r] = q
      BY <1>3, <2>1, BeginMoves DEF VerifyRead
    <2>3. RequestOK(r)'
      BY <1>0, <1>3, <2>2 DEF Idle, VerifyRead, Claimed
    <2> QED BY <1>0, <2>2, <2>3, ReadInv
  <1>4. ASSUME NEW v \in Vouchers, NEW m \in People, RedeemRead(r, v, m) PROVE Inv'
    <2> DEFINE at == IF v \in late THEN "redeem_expire" ELSE "redeem_offer"
               q == [Idle EXCEPT !.at = at, !.user = m, !.id = v, !.read = voucher[v]]
    <2>1. q \in Request
      BY IdleType DEF Idle, Request, Step, Inv, TypeOK
    <2>2. OnlyMoved(r) /\ req'[r] = q
      BY <1>4, <2>1, BeginMoves DEF RedeemRead
    <2>3. RequestOK(r)'
      BY <1>0, <1>4, <2>2 DEF Idle, RedeemRead, Claimed
    <2> QED BY <1>0, <2>2, <2>3, ReadInv
  <1> QED BY <1>1, <1>2, <1>3, <1>4 DEF VoucherAsked

LEMMA OrderReadInv ==
    ASSUME Inv, NEW r \in Reqs, NEW v \in Vouchers, NEW want \in OrderStatus,
           UpdateOrderRead(r, v, want)
    PROVE  Inv'
  <1> DEFINE q == [Idle EXCEPT !.at = "order_save", !.id = v, !.want = want,
                               !.readOrder = order[v]]
  <1>0. UNCHANGED <<voucher, order, stars, late, told, redeems, aborts>>
        /\ aborts' \in 0..MaxAborts
    BY DEF UpdateOrderRead, Inv, TypeOK
  <1>1. q \in Request
    BY IdleType DEF Idle, Request, Step, Inv, TypeOK
  <1>2. OnlyMoved(r) /\ req'[r] = q
    BY <1>1, BeginMoves DEF UpdateOrderRead
  <1>3. RequestOK(r)'
    BY <1>0, <1>2 DEF Idle, UpdateOrderRead, RequestOK, VoucherStep, SaveStep, RedeemStep,
                      OrderStep
  <1> QED BY <1>0, <1>2, <1>3, ReadInv

LEMMA OrderAskedInv ==
    ASSUME Inv, NEW r \in Reqs, OrderAsked(r)
    PROVE  Inv'
  BY OrderReadInv, SentAssumption DEF OrderAsked, CompleteOrderWithQrRead, OrderStatus

LEMMA HandlerReadInv ==
    ASSUME Inv, NEW r \in Reqs, RedeemOffer(r) \/ SyncFind(r) \/ SyncOrderRead(r)
    PROVE  Inv'
  <1> USE DEF RequestOK, VoucherStep, SaveStep, RedeemStep, OrderStep
  <1>0. UNCHANGED <<voucher, order, stars, late, told, redeems, aborts>>
        /\ aborts' \in 0..MaxAborts
    BY DEF RedeemOffer, SyncFind, SyncOrderRead, Inv, TypeOK
  <1>t. RequestOK(r)
    BY DEF Inv, ReqOK
  <1>u. req[r] \in Request
    BY DEF Inv, TypeOK
  <1>1. CASE RedeemOffer(r)
    <2> DEFINE p == stars[voucher[req[r].id].offer]
               q == [req[r] EXCEPT !.at = "redeem_save", !.points = p]
    <2>1. p \in 0..MaxStars
      BY <1>1, <1>t DEF RedeemOffer, Inv, DocOK, TypeOK
    <2> HIDE DEF p
    <2>2. q \in Request
      <3>1. p \in Nat
        BY <2>1, BoundsAssumption
      <3> QED BY <1>u, <3>1 DEF Request, Step
    <2>3. OnlyMoved(r) /\ req'[r] = q
      <3>1. req' = [req EXCEPT ![r] = q]
        BY <1>1, <1>u DEF RedeemOffer, Inv, TypeOK, p
      <3> QED BY <2>2, <3>1, MoveOn
    <2>4. /\ q.at = "redeem_save" /\ q.points = p
          /\ q.id = req[r].id /\ q.user = req[r].user /\ q.read = req[r].read
      BY <1>u DEF Request
    <2> HIDE DEF q
    <2>5. /\ req[r].id \in Vouchers /\ Claimed(req[r].id) /\ req[r].user \in People
          /\ req[r].read.by # None => voucher[req[r].id].by # None
          /\ req[r].read.status # "redeemed"
      BY <1>1, <1>t DEF RedeemOffer
    <2>6. p <= MaxStars
      BY <2>1, BoundsAssumption
    <2>7. RequestOK(r)'
      BY <1>0, <2>3, <2>4, <2>5, <2>6 DEF Claimed
    <2> QED BY <1>0, <2>3, <2>7, ReadInv
  <1>2. CASE SyncFind(r)
    <2>1. CASE Finish(r, "sync_find")
      BY <1>0, <2>1, FinishMoves, ReadInv
    <2>2. CASE ~Finish(r, "sync_find")
      <3> DEFINE q == [req[r] EXCEPT !.at = "order_read"]
      <3>1. q \in Request
        BY <1>u DEF Request, Step
      <3>2. OnlyMoved(r) /\ req'[r] = q /\ order[req[r].id].status \in Open
        BY <1>2, <2>2, <3>1 DEF SyncFind, Move, Inv, TypeOK, OnlyMoved
      <3>3. RequestOK(r)'
        BY <1>0, <1>2, <1>t, <1>u, <3>2 DEF SyncFind, Request, Open
      <3> QED BY <1>0, <3>2, <3>3, ReadInv
    <2> QED BY <2>1, <2>2
  <1>3. CASE SyncOrderRead(r)
    <2> DEFINE q == [req[r] EXCEPT !.at = "order_save", !.want = "completed",
                                   !.readOrder = order[req[r].id]]
    <2>1. req[r].id \in Vouchers /\ order[req[r].id].status # "none"
      BY <1>3, <1>t DEF SyncOrderRead
    <2>2. q \in Request
      BY <1>u, <2>1 DEF Request, Step, OrderStatus, Inv, TypeOK
    <2>3. OnlyMoved(r) /\ req'[r] = q
      <3>1. req' = [req EXCEPT ![r] = q]
        BY <1>3, <1>u DEF SyncOrderRead, Inv, TypeOK
      <3> QED BY <2>2, <3>1, MoveOn
    <2>4. q.at = "order_save" /\ q.id = req[r].id /\ q.readOrder = order[req[r].id]
      BY <1>u DEF Request
    <2> HIDE DEF q
    <2>5. RequestOK(r)'
      BY <1>0, <2>1, <2>3, <2>4
    <2> QED BY <1>0, <2>3, <2>5, ReadInv
  <1> QED BY <1>1, <1>2, <1>3

\* Time passes, the merchant changes the offer: nothing a request relies on.
LEMMA OutsideInv ==
    ASSUME Inv,
           \/ \E v \in Vouchers : Lapse(v)
           \/ \E o \in Offers, s \in 0..MaxStars : OfferChanges(o, s)
    PROVE  Inv' /\ VouchersKept
  <1>1. UNCHANGED <<voucher, order, req, told, redeems, aborts>>
    BY DEF Lapse, OfferChanges
  <1>2. late' \subseteq Vouchers /\ stars' \in [Offers -> 0..MaxStars]
    BY DEF Inv, TypeOK, Lapse, OfferChanges
  <1>3. TypeOK'
    BY <1>1, <1>2 DEF Inv, TypeOK
  <1>4. ReqOK' /\ DocOK'
    BY <1>1 DEF Inv, ReqOK, RequestOK, DocOK, Claimed
  <1>5. OrderHasVoucher' /\ RedemptionSound' /\ OrderHistory' /\ VouchersKept
    BY <1>1 DEF Inv, OrderHasVoucher, Merchant, Claimed, RedemptionSound, PointsAwardedOnce,
           RedemptionRecorded, OrderHistory, TimesMatchStatus, ToldAfterTheFact, VouchersKept
  <1> QED BY <1>3, <1>4, <1>5 DEF Inv

LEMMA AbortInv ==
    ASSUME Inv, NEW r \in Reqs, RequestAborts(r)
    PROVE  Inv'
  <1>1. aborts' \in 0..MaxAborts
    BY BoundsAssumption DEF RequestAborts, Inv, TypeOK
  <1> QED BY <1>1, FinishMoves, ReadInv DEF RequestAborts

-----------------------------------------------------------------------------
LEMMA InitInv == Init => Inv
  <1> SUFFICES ASSUME Init PROVE Inv
    OBVIOUS
  <1>1. TypeOK
    BY IdleType, BoundsAssumption DEF Init, TypeOK, NoVoucher, Voucher, VoucherStatus, NoOrder,
          Order, OrderStatus
  <1>2. ReqOK
    BY DEF Init, ReqOK, RequestOK, Idle, VoucherStep, SaveStep, RedeemStep, OrderStep
  <1>3. DocOK /\ OrderHasVoucher /\ OrderHistory
    BY DEF Init, DocOK, Claimed, NoVoucher, NoOrder, OrderHasVoucher, OrderHistory,
           TimesMatchStatus, ToldAfterTheFact
  <1>4. RedemptionSound
    BY BoundsAssumption DEF Init, NoVoucher, RedemptionSound, PointsAwardedOnce,
       RedemptionRecorded
  <1> QED BY <1>1, <1>2, <1>3, <1>4 DEF Inv

\* Every step keeps the invariant, and what was used up stays used up.
LEMMA StepInv ==
    ASSUME Inv, [Next]_vars
    PROVE  Inv' /\ VouchersKept
  <1>1. CASE UNCHANGED vars
    BY <1>1 DEF vars, Inv, TypeOK, ReqOK, RequestOK, DocOK, Claimed, OrderHasVoucher, Merchant,
         RedemptionSound, PointsAwardedOnce, RedemptionRecorded, OrderHistory, TimesMatchStatus,
         ToldAfterTheFact, VouchersKept
  <1>2. ASSUME NEW r \in Reqs, VoucherAsked(r) \/ OrderAsked(r) \/ RequestAborts(r)
        PROVE  Inv' /\ VouchersKept
    <2>1. UNCHANGED voucher
      BY <1>2 DEF VoucherAsked, ClaimLookup, CodeRead, VerifyRead, RedeemRead, OrderAsked,
                  UpdateOrderRead, CompleteOrderWithQrRead, RequestAborts
    <2>2. VouchersKept
      BY <2>1 DEF VouchersKept
    <2> QED BY <1>2, <2>2, VoucherAskedInv, OrderAskedInv, AbortInv
  <1>3. ASSUME NEW r \in Reqs, RedeemOffer(r) \/ SyncFind(r) \/ SyncOrderRead(r)
        PROVE  Inv' /\ VouchersKept
    <2>1. VouchersKept
      BY <1>3 DEF RedeemOffer, SyncFind, SyncOrderRead, VouchersKept
    <2> QED BY <1>3, <2>1, HandlerReadInv
  <1>4. ASSUME NEW r \in Reqs, HandlerStep(r) PROVE Inv' /\ VouchersKept
    BY <1>3, <1>4, ClaimInsertInv, ClaimOrderInv, CodeSaveInv, VerifyExpireInv, RedeemExpireInv,
       RedeemSaveInv, OrderSaveInv, OrderNotifyInv DEF HandlerStep
  <1> QED BY <1>1, <1>2, <1>4, OutsideInv DEF Next

\* The strengthened invariant holds in every state.
THEOREM Invariance == Spec => []Inv
  <1>1. Inv /\ [Next]_vars => Inv'
    BY StepInv
  <1> QED BY <1>1, InitInv, PTL DEF Spec

\* Every variable stays within its type.
THEOREM VouchersTypeOK == Spec => []TypeOK
  BY Invariance, PTL DEF Inv

\* No order without a voucher, and none for a merchant's claim of their own offer
\* (claimOffer).
THEOREM OrdersHaveVouchers == Spec => []OrderHasVoucher
  BY Invariance, PTL DEF Inv

\* Redemptions that race award the points of one, and stay recorded (redeemVoucher).
THEOREM RedemptionsSound == Spec => []RedemptionSound
  BY Invariance, PTL DEF Inv

\* The times and notices of an order fit its status (updateOrderStatus).
THEOREM OrdersKeepHistory == Spec => []OrderHistory
  BY Invariance, PTL DEF Inv

\* No request brings a voucher that was redeemed or expired back (redeemVoucher,
\* verifyVoucher, getVoucherById).
THEOREM VouchersNeverUsableAgain == Spec => NeverUsableAgain
  <1>1. Inv /\ [Next]_vars =>
          [\A v \in Vouchers : voucher[v].status # "active"
                               => voucher'[v].status # "active"]_vars
    BY StepInv DEF VouchersKept
  <1> QED BY <1>1, Invariance, PTL DEF Spec, NeverUsableAgain

-----------------------------------------------------------------------------
(* One request at a time, none of them cut short, and a merchant who does not reopen  *)
(* orders                                                                             *)

OneAtATime ==
    /\ \A r, s \in Reqs : r = s
    /\ Sent \cap Open = {}
    /\ MaxAborts = 0

\* What was read is what is there.
TurnOK(r) ==
    /\ req[r].at = "claim_insert" =>
          \A v \in Vouchers : ~(/\ voucher[v].user = req[r].user
                                /\ voucher[v].offer = req[r].offer
                                /\ voucher[v].status = "active")
    /\ req[r].at = "claim_order" => voucher[req[r].id].status = "active"
    /\ req[r].at \in SaveStep => req[r].read = voucher[req[r].id]
    /\ req[r].at = "order_save" => req[r].readOrder = order[req[r].id] /\ req[r].want \notin Open

\* The vouchers whose orders are still to be completed.
Overdue ==
    {v \in Vouchers : /\ voucher[v].status = "redeemed" /\ voucher[v].by = Merchant(v)
                      /\ order[v].status \in Open}

Completing(r, v) ==
    /\ req[r].id = v
    /\ \/ req[r].at = "sync_find" /\ req[r].user = Merchant(v)
       \/ req[r].at \in {"order_read", "order_save"}

TurnInv ==
    /\ \A r \in Reqs : TurnOK(r)
    /\ OneActiveClaim
    /\ \A v \in Overdue : \E r \in Reqs : Completing(r, v)

LEMMA TurnMeans == TurnInv => InTurn
  <1> SUFFICES ASSUME TurnInv, \A r \in Reqs : req[r].at = "idle",
                      NEW v \in Vouchers, v \in Overdue
               PROVE  FALSE
    BY DEF TurnInv, InTurn, OrderFollowsVoucher, Overdue
  <1> QED BY DEF TurnInv, Completing

\* The request that moved, or begins, left the vouchers and the orders alone.
LEMMA TurnReads ==
    ASSUME OneAtATime, TurnInv, NEW r \in Reqs, TurnOK(r)', UNCHANGED <<voucher, order>>,
           \A v \in Overdue : Completing(r, v) => Completing(r, v)'
    PROVE  TurnInv'
  <1>1. \A s \in Reqs : s = r
    BY DEF OneAtATime
  <1>2. \A s \in Reqs : TurnOK(s)'
    BY <1>1
  <1>3. OneActiveClaim'
    BY DEF TurnInv, OneActiveClaim, Claimed
  <1>4. Overdue' = Overdue
    BY DEF Overdue, Merchant
  <1>5. \A v \in Overdue : Completing(r, v)'
    BY <1>1 DEF TurnInv
  <1> QED BY <1>2, <1>3, <1>4, <1>5 DEF TurnInv

\* The request wrote one voucher, and made it neither active nor another's.
LEMMA TurnWrites ==
    ASSUME OneAtATime, Inv, TurnInv, NEW r \in Reqs, req[r].at \in VoucherStep, TurnOK(r)',
           voucher' \in [Vouchers -> Voucher], UNCHANGED order,
           NEW v \in Vouchers, \A w \in Vouchers \ {v} : voucher'[w] = voucher[w],
           voucher'[v].user = voucher[v].user, voucher'[v].offer = voucher[v].offer,
           voucher'[v].status = "active" => voucher[v].status = "active",
           v \in Overdue' => v \in Overdue \/ Completing(r, v)'
    PROVE  TurnInv'
  <1>1. \A s \in Reqs : s = r
    BY DEF OneAtATime
  <1>2. \A s \in Reqs : TurnOK(s)'
    BY <1>1
  <1>3. OneActiveClaim'
    BY DEF TurnInv, OneActiveClaim, Claimed
  <1>4. Overdue = {}
    BY <1>1 DEF TurnInv, Completing, VoucherStep
  <1>5. \A w \in Overdue' : w = v
    BY <1>4 DEF Overdue, Merchant
  <1> QED BY <1>2, <1>3, <1>4, <1>5 DEF TurnInv

LEMMA SavedSame ==
    ASSUME NEW now \in Voucher, NEW mine \in Voucher
    PROVE  \A f \in {"user", "offer", "status", "code", "by", "points"} :
              Saved(now, now, mine)[f] = mine[f]
  BY SavedVoucher

-----------------------------------------------------------------------------
LEMMA AskedTurn ==
    ASSUME OneAtATime, Inv, TurnInv, NEW r \in Reqs, VoucherAsked(r) \/ OrderAsked(r)
    PROVE  TurnInv'
  <1>1. req[r].at = "idle" /\ req \in [Reqs -> Request] /\ UNCHANGED <<voucher, order>>
    BY DEF Inv, TypeOK, VoucherAsked, OrderAsked, ClaimLookup, CodeRead, VerifyRead, RedeemRead,
           UpdateOrderRead, CompleteOrderWithQrRead, Begin
  <1>2. \A v \in Overdue : Completing(r, v) => Completing(r, v)'
    BY <1>1 DEF Completing
  <1>3. TurnOK(r)'
    <2>1. ASSUME NEW u \in People, NEW o \in Offers, ClaimLookup(r, u, o) PROVE TurnOK(r)'
      BY <1>1, <2>1 DEF ClaimLookup, Begin, Idle, TurnOK, SaveStep
    <2>2. ASSUME NEW v \in Vouchers, NEW c \in Codes, CodeRead(r, v, c) PROVE TurnOK(r)'
      BY <1>1, <2>2 DEF CodeRead, Begin, Idle, TurnOK, SaveStep
    <2>3. ASSUME NEW v \in Vouchers, VerifyRead(r, v) PROVE TurnOK(r)'
      BY <1>1, <2>3 DEF VerifyRead, Begin, Idle, TurnOK, SaveStep
    <2>4. ASSUME NEW v \in Vouchers, NEW m \in People, RedeemRead(r, v, m) PROVE TurnOK(r)'
      BY <1>1, <2>4 DEF RedeemRead, Begin, Idle, TurnOK, SaveStep
    <2>5. ASSUME NEW v \in Vouchers, NEW want \in Sent \cup {"completed"},
                 UpdateOrderRead(r, v, want)
          PROVE  TurnOK(r)'
      <3>1. want \notin Open
        BY DEF OneAtATime, Open
      <3> QED BY <1>1, <2>5, <3>1 DEF UpdateOrderRead, Begin, Idle, TurnOK, SaveStep
    <2> QED BY <2>1, <2>2, <2>3, <2>4, <2>5
            DEF VoucherAsked, OrderAsked, CompleteOrderWithQrRead
  <1> QED BY <1>1, <1>2, <1>3, TurnReads

\* The claim was looked up, and nobody claimed since.
LEMMA ClaimTurn ==
    ASSUME OneAtATime, Inv, TurnInv, NEW r \in Reqs, ClaimInsert(r) \/ ClaimOrder(r)
    PROVE  TurnInv'
  <1>1. /\ \A s \in Reqs : s = r
        /\ req[r] \in Request /\ RequestOK(r) /\ TurnOK(r)
        /\ req \in [Reqs -> Request] /\ voucher \in [Vouchers -> Voucher]
        /\ order \in [Vouchers -> Order]
    BY DEF OneAtATime, Inv, TypeOK, ReqOK, TurnInv
  <1>2. req[r].at \in {"claim_insert", "claim_order"}
    BY DEF ClaimInsert, ClaimOrder, Finish
  <1>3. Overdue = {}
    BY <1>1, <1>2 DEF TurnInv, Completing
  <1>4. CASE Finish(r, "claim_insert") /\ UNCHANGED <<voucher, order>>
    <2>1. TurnOK(r)'
      BY <1>1, <1>4 DEF Finish, Idle, TurnOK, SaveStep
    <2> QED BY <1>3, <1>4, <2>1, TurnReads
  <1>5. ASSUME NEW v \in Vouchers, ~Claimed(v), req[r].at = "claim_insert",
               req' = [req EXCEPT ![r].at = "claim_order", ![r].id = v],
               voucher' = [voucher EXCEPT ![v] =
                   [NoVoucher EXCEPT !.user = req[r].user, !.offer = req[r].offer]],
               UNCHANGED order
        PROVE  TurnInv'
    <2>1. /\ voucher'[v].user = req[r].user /\ voucher'[v].offer = req[r].offer
          /\ voucher'[v].status = "active"
          /\ \A w \in Vouchers \ {v} : voucher'[w] = voucher[w]
      BY <1>1, <1>5 DEF NoVoucher
    <2>2. req'[r].at = "claim_order" /\ req'[r].id = v
      BY <1>1, <1>5 DEF Request
    <2>3. \A s \in Reqs : TurnOK(s)'
      BY <1>1, <2>1, <2>2 DEF TurnOK, SaveStep
    <2>4. \A w \in Vouchers : ~(/\ voucher[w].user = req[r].user
                                /\ voucher[w].offer = req[r].offer
                                /\ voucher[w].status = "active")
      BY <1>1, <1>5 DEF TurnOK
    <2>5. OneActiveClaim'
      BY <2>1, <2>4 DEF TurnInv, OneActiveClaim, Claimed
    <2>6. Overdue' = {}
      BY <1>3, <1>5, <2>1 DEF Overdue, Merchant
    <2> QED BY <2>3, <2>5, <2>6 DEF TurnInv
  <1>6. CASE ClaimOrder(r)
    <2>1. /\ req'[r] = Idle /\ UNCHANGED voucher /\ req[r].at = "claim_order"
          /\ order' = order \/ order' = [order EXCEPT ![req[r].id].status = "pending"]
      BY <1>1, <1>6 DEF ClaimOrder, Finish, createOrder
    <2>2. voucher[req[r].id].status = "active"
      BY <1>1, <2>1 DEF TurnOK
    <2>3. \A w \in Vouchers \ {req[r].id} : order'[w] = order[w]
      BY <1>1, <2>1
    <2>4. Overdue' = {}
      BY <1>3, <2>1, <2>2, <2>3 DEF Overdue, Merchant
    <2>5. \A s \in Reqs : TurnOK(s)'
      BY <1>1, <2>1 DEF TurnOK, Idle, SaveStep
    <2> QED BY <2>1, <2>4, <2>5 DEF TurnInv, OneActiveClaim, Claimed
  <1> QED BY <1>4, <1>5, <1>6 DEF ClaimInsert

\* A request saves what it read a moment ago.
LEMMA SaveTurn ==
    ASSUME OneAtATime, Inv, TurnInv, NEW r \in Reqs,
           CodeSave(r) \/ VerifyExpire(r) \/ RedeemExpire(r) \/ RedeemSave(r)
    PROVE  TurnInv'
  <1>0. PICK v \in Vouchers : v = req[r].id
    BY DEF CodeSave, VerifyExpire, RedeemExpire, RedeemSave, Finish, Move, VoucherStep,
           Inv, ReqOK, RequestOK
  <1>1. /\ req[r].at \in VoucherStep
        /\ voucher[v] \in Voucher /\ req[r].at \in SaveStep => req[r].read = voucher[v]
        /\ voucher \in [Vouchers -> Voucher] /\ req \in [Reqs -> Request] /\ UNCHANGED order
        /\ req[r].at = "code_save" => req[r].code \in Codes
        /\ req[r].at = "redeem_save" => req[r].user \in People /\ req[r].points \in Nat
        /\ req[r] \in Request
    BY <1>0 DEF CodeSave, VerifyExpire, RedeemExpire, RedeemSave, Finish, Move, VoucherStep, RedeemStep,
           SaveStep, Inv, TypeOK, ReqOK, RequestOK, TurnInv, TurnOK, Request
  <1>2. /\ voucher' \in [Vouchers -> Voucher]
        /\ voucher'[v].user = voucher[v].user /\ voucher'[v].offer = voucher[v].offer
        /\ voucher'[v].status = "active" => voucher[v].status = "active"
        /\ \A w \in Vouchers \ {v} : voucher'[w] = voucher[w]
        /\ ~RedeemSave(r) => voucher'[v].status = voucher[v].status \/ voucher'[v].status = "expired"
        /\ ~RedeemSave(r) => voucher'[v].by = voucher[v].by
        /\ RedeemSave(r) => UNCHANGED voucher \/ voucher'[v].by = req[r].user
    <2>1. CASE UNCHANGED voucher
      BY <1>1, <2>1
    <2>2. ASSUME NEW mine \in Voucher, req[r].at \in SaveStep,
                 voucher' = [voucher EXCEPT ![v] = Saved(@, req[r].read, mine)]
          PROVE  /\ voucher' \in [Vouchers -> Voucher]
                 /\ \A f \in {"user", "offer", "status", "code", "by", "points"} :
                      voucher'[v][f] = mine[f]
                 /\ \A w \in Vouchers \ {v} : voucher'[w] = voucher[w]
      <3>1. req[r].read = voucher[v]
        BY <1>1, <2>2
      <3>2. voucher' = [voucher EXCEPT ![v] = Saved(voucher[v], voucher[v], mine)]
        BY <1>1, <2>2, <3>1
      <3>3. Saved(voucher[v], voucher[v], mine) \in Voucher
        BY <1>1, SavedVoucher
      <3>4. voucher'[v] = Saved(voucher[v], voucher[v], mine)
        BY <1>1, <3>2
      <3> QED BY <1>1, <3>2, <3>3, <3>4, SavedSame
    <2>3. CASE CodeSave(r) /\ ~UNCHANGED voucher
      <3> DEFINE mine == [req[r].read EXCEPT !.code = req[r].code]
      <3>1. req[r].at = "code_save" /\ voucher' = [voucher EXCEPT ![v] = Saved(@, req[r].read, mine)]
        BY <1>0, <2>3 DEF CodeSave, Finish
      <3>2. /\ mine \in Voucher /\ mine.user = voucher[v].user /\ mine.offer = voucher[v].offer
            /\ mine.status = voucher[v].status /\ mine.by = voucher[v].by
        BY <1>1, <3>1 DEF Voucher, SaveStep
      <3>3. ~RedeemSave(r)
        BY <3>1 DEF RedeemSave, Move, Finish
      <3> HIDE DEF mine
      <3> QED BY <2>2, <3>1, <3>2, <3>3 DEF SaveStep
    <2>4. CASE VerifyExpire(r)
      <3>1. ~RedeemSave(r) /\ voucher' = [voucher EXCEPT ![v].status = "expired"]
        BY <1>0, <2>4 DEF RedeemSave, Move, Finish, VerifyExpire
      <3> QED BY <1>1, <3>1 DEF Voucher, VoucherStatus
    <2>5. CASE RedeemExpire(r)
      <3> DEFINE mine == [req[r].read EXCEPT !.status = "expired"]
      <3>1. req[r].at = "redeem_expire" /\ voucher' = [voucher EXCEPT ![v] = Saved(@, req[r].read, mine)]
        BY <1>0, <2>5 DEF RedeemExpire, Finish
      <3>2. /\ mine \in Voucher /\ mine.user = voucher[v].user /\ mine.offer = voucher[v].offer
            /\ mine.status = "expired" /\ mine.by = voucher[v].by
        BY <1>1, <3>1 DEF Voucher, VoucherStatus, SaveStep
      <3>3. ~RedeemSave(r)
        BY <3>1 DEF RedeemSave, Move, Finish
      <3> HIDE DEF mine
      <3> QED BY <2>2, <3>1, <3>2, <3>3 DEF SaveStep
    <2>6. CASE RedeemSave(r) /\ ~UNCHANGED voucher
      <3> DEFINE mine == [req[r].read EXCEPT !.status = "redeemed", !.by = req[r].user,
                                             !.points = req[r].points]
      <3>1. req[r].at = "redeem_save" /\ voucher' = [voucher EXCEPT ![v] = Saved(@, req[r].read, mine)]
        BY <1>0, <2>6 DEF RedeemSave, Move
      <3>2. /\ mine \in Voucher /\ mine.user = voucher[v].user /\ mine.offer = voucher[v].offer
            /\ mine.status = "redeemed" /\ mine.by = req[r].user
        BY <1>1, <3>1 DEF Voucher, VoucherStatus, SaveStep
      <3> HIDE DEF mine
      <3> QED BY <2>2, <2>6, <3>1, <3>2 DEF SaveStep
    <2> QED BY <2>1, <2>3, <2>4, <2>5, <2>6
  <1>3. \/ req'[r] = Idle
        \/ /\ RedeemSave(r) /\ req'[r].at = "sync_find" /\ req'[r].id = v
           /\ req'[r].user = req[r].user
    <2>1. CASE req' = [req EXCEPT ![r] = Idle]
      BY <1>1, <2>1
    <2>2. CASE RedeemSave(r) /\ req' = [req EXCEPT ![r] = Sync(r)]
      BY <1>0, <1>1, <2>2 DEF Sync, Idle
    <2> QED BY <2>1, <2>2 DEF CodeSave, VerifyExpire, RedeemExpire, RedeemSave, Finish, Move
  <1>4. TurnOK(r)'
    BY <1>3 DEF TurnOK, Idle, SaveStep
  <1>5. ASSUME v \in Overdue' PROVE v \in Overdue \/ Completing(r, v)'
    <2>1. CASE ~RedeemSave(r) \/ UNCHANGED voucher
      BY <1>1, <1>2, <1>5, <2>1 DEF Overdue, Merchant
    <2>2. CASE RedeemSave(r) /\ ~UNCHANGED voucher
      <3>1. req'[r].at = "sync_find" /\ req'[r].id = v /\ req'[r].user = req[r].user
        BY <1>0, <1>1, <2>2, ZenonT(60) DEF RedeemSave, Finish, Move, Sync, Idle
      <3>2. Merchant(v)' = req[r].user
        <4>1. voucher'[v].by = Merchant(v)'
          BY <1>5 DEF Overdue, Merchant
        <4> QED BY <1>2, <2>2, <4>1
      <3> QED BY <3>1, <3>2 DEF Completing
    <2> QED BY <2>1, <2>2
  <1> QED BY <1>1, <1>2, <1>4, <1>5, TurnWrites

\* The redemption looks its order up, and completes it.
LEMMA SyncTurn ==
    ASSUME OneAtATime, Inv, TurnInv, NEW r \in Reqs,
           RedeemOffer(r) \/ SyncFind(r) \/ SyncOrderRead(r)
    PROVE  TurnInv'
  <1>1. /\ \A s \in Reqs : s = r
        /\ req[r] \in Request /\ TurnOK(r) /\ req \in [Reqs -> Request]
        /\ UNCHANGED <<voucher, order>>
    BY DEF OneAtATime, Inv, TypeOK, TurnInv, RedeemOffer, SyncFind, SyncOrderRead
  <1>2. CASE RedeemOffer(r)
    <2>1. /\ req[r].at = "redeem_offer" /\ req'[r].at = "redeem_save"
          /\ req'[r].read = req[r].read /\ req'[r].id = req[r].id
      BY <1>1, <1>2 DEF RedeemOffer, Request
    <2>2. TurnOK(r)'
      BY <1>1, <2>1 DEF TurnOK, SaveStep
    <2>3. \A v \in Overdue : ~Completing(r, v)
      BY <2>1 DEF Completing
    <2> QED BY <1>1, <2>2, <2>3, TurnReads
  <1>3. CASE SyncFind(r)
    <2>1. PICK v \in Vouchers : v = req[r].id
      BY <1>3 DEF SyncFind, Inv, ReqOK, RequestOK
    <2>2. CASE Merchant(v) = req[r].user /\ order[v].status \in Open
      <3>1. req'[r].at = "order_read" /\ req'[r].id = v
        BY <1>1, <1>3, <2>1, <2>2 DEF SyncFind, Move, Request
      <3>2. TurnOK(r)' /\ \A w \in Overdue : Completing(r, w) => Completing(r, w)'
        BY <2>1, <3>1 DEF TurnOK, SaveStep, Completing
      <3> QED BY <1>1, <3>2, TurnReads
    <2>3. CASE ~(Merchant(v) = req[r].user /\ order[v].status \in Open)
      <3>1. req'[r] = Idle /\ req[r].at = "sync_find"
        BY <1>1, <1>3, <2>1, <2>3 DEF SyncFind, Finish
      <3>2. \A w \in Overdue : ~Completing(r, w)
        BY <2>1, <2>3, <3>1 DEF Overdue, Completing
      <3>3. TurnOK(r)'
        BY <3>1 DEF TurnOK, Idle, SaveStep
      <3> QED BY <1>1, <3>2, <3>3, TurnReads
    <2> QED BY <2>2, <2>3
  <1>4. CASE SyncOrderRead(r)
    <2>1. /\ req'[r].at = "order_save" /\ req'[r].id = req[r].id
          /\ req'[r].want = "completed" /\ req'[r].readOrder = order[req[r].id]
      BY <1>1, <1>4 DEF SyncOrderRead, Request
    <2>2. TurnOK(r)' /\ \A v \in Overdue : Completing(r, v) => Completing(r, v)'
      BY <1>1, <2>1 DEF TurnOK, SaveStep, Completing, Open
    <2> QED BY <1>1, <2>2, TurnReads
  <1> QED BY <1>2, <1>3, <1>4

\* An order that is saved is not open any more.
LEMMA OrderTurn ==
    ASSUME OneAtATime, Inv, TurnInv, NEW r \in Reqs, OrderSave(r) \/ OrderNotify(r)
    PROVE  TurnInv'
  <1>1. /\ \A s \in Reqs : s = r
        /\ req[r] \in Request /\ TurnOK(r) /\ req \in [Reqs -> Request]
        /\ order \in [Vouchers -> Order] /\ UNCHANGED voucher
    BY DEF OneAtATime, Inv, TypeOK, TurnInv, OrderSave, OrderNotify
  <1>2. CASE OrderNotify(r)
    <2>1. req'[r] = Idle /\ req[r].at = "order_notify" /\ UNCHANGED order
      BY <1>1, <1>2 DEF OrderNotify, Finish
    <2>2. TurnOK(r)' /\ \A v \in Overdue : ~Completing(r, v)
      BY <2>1 DEF TurnOK, Idle, SaveStep, Completing
    <2> QED BY <1>1, <2>1, <2>2, TurnReads
  <1>3. CASE OrderSave(r)
    <2>1. PICK v \in Vouchers : v = req[r].id
      BY <1>3 DEF OrderSave, Move, Inv, ReqOK, RequestOK, OrderStep
    <2> DEFINE mine == [status      |-> req[r].want,
                        acceptedAt  |-> req[r].readOrder.acceptedAt \/ req[r].want = "accepted",
                        completedAt |-> req[r].readOrder.completedAt \/ req[r].want = "completed"]
    <2>2. /\ req[r].at = "order_save" /\ req'[r].at = "order_notify"
          /\ order' = [order EXCEPT ![v] = Saved(@, req[r].readOrder, mine)]
      BY <1>1, <1>3, <2>1 DEF OrderSave, Move, Notify, Idle
    <2>3. req[r].readOrder = order[v] /\ req[r].want \notin Open /\ req[r].want \in OrderStatus
      BY <1>1, <2>1, <2>2 DEF TurnOK, Request
    <2>4. order[v] \in Order /\ mine \in Order /\ mine.status = req[r].want
      BY <1>1, <2>3 DEF Order
    <2> HIDE DEF mine
    <2>5. order'[v] = Saved(order[v], order[v], mine)
      BY <1>1, <2>2, <2>3
    <2>6. order'[v].status = req[r].want
      BY <2>4, <2>5, SavedOrder
    <2>7. \A w \in Vouchers \ {v} : order'[w] = order[w]
      BY <1>1, <2>2
    <2>8. Overdue \subseteq {v}
      BY <1>1, <2>1, <2>2 DEF TurnInv, Completing
    <2>9. Overdue' = {}
      BY <1>1, <2>3, <2>6, <2>7, <2>8 DEF Overdue, Merchant
    <2>10. \A s \in Reqs : TurnOK(s)'
      BY <1>1, <2>2 DEF TurnOK, SaveStep
    <2> QED BY <1>1, <2>9, <2>10 DEF TurnInv, OneActiveClaim, Claimed
  <1> QED BY <1>2, <1>3

LEMMA TurnStep ==
    ASSUME OneAtATime, Inv, TurnInv, [Next]_vars
    PROVE  TurnInv'
  <1>1. ASSUME UNCHANGED <<voucher, order, req>> PROVE TurnInv'
    BY <1>1 DEF TurnInv, TurnOK, OneActiveClaim, Overdue, Completing, Merchant, Claimed
  <1>2. ASSUME NEW r \in Reqs, HandlerStep(r) PROVE TurnInv'
    BY <1>2, ClaimTurn, SaveTurn, SyncTurn, OrderTurn DEF HandlerStep
  <1>3. ASSUME NEW r \in Reqs, RequestAborts(r) PROVE FALSE
    BY <1>3 DEF RequestAborts, OneAtATime, Inv, TypeOK
  <1>4. CASE UNCHANGED vars
    BY <1>1, <1>4 DEF vars
  <1>5. ASSUME NEW v \in Vouchers, Lapse(v) PROVE TurnInv'
    BY <1>1, <1>5 DEF Lapse
  <1>6. ASSUME NEW o \in Offers, NEW s \in 0..MaxStars, OfferChanges(o, s) PROVE TurnInv'
    BY <1>1, <1>6 DEF OfferChanges
  <1> QED BY <1>2, <1>3, <1>4, <1>5, <1>6, AskedTurn DEF Next

LEMMA TurnInit == Init => TurnInv
  <1> SUFFICES ASSUME Init PROVE TurnInv
    OBVIOUS
  <1>1. \A r \in Reqs : TurnOK(r)
    BY DEF Init, TurnOK, Idle, SaveStep
  <1>2. OneActiveClaim
    BY DEF Init, OneActiveClaim, Claimed, NoVoucher
  <1>3. Overdue = {}
    BY DEF Init, Overdue, NoVoucher
  <1> QED BY <1>1, <1>2, <1>3 DEF TurnInv

\* Of requests served one at a time, none of them cut short, and with no merchant who
\* reopens orders, a user holds one active voucher of an offer, and the order of a voucher
\* its merchant redeemed is not left open (claimOffer, redeemVoucher).
THEOREM TurnsAgree == OneAtATime /\ Spec => []InTurn
  <1>1. OneAtATime /\ Inv /\ TurnInv /\ [Next]_vars => TurnInv'
    BY TurnStep
  <1>2. OneAtATime => []OneAtATime
    <2>1. OneAtATime => OneAtATime'
      BY DEF OneAtATime
    <2> QED BY <2>1, PTL
  <1> QED BY <1>1, <1>2, TurnInit, TurnMeans, Invariance, PTL DEF Spec

=============================================================================
