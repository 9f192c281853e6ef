--------------------------- MODULE PaymentsProofs ---------------------------
(***************************************************************************)
(* Proofs about Payments: typing, the accounting of refunds, idempotent     *)
(* order creation, for any number of orders, requests and amounts.         *)
(***************************************************************************)
EXTENDS Payments, TLAPS, FiniteSetTheorems, NaturalsInduction, WellFoundedInduction

CreateStep == {"create_gateway", "create_insert"}
RefundStep == {"refund_gateway", "refund_save"}
PayStep    == RefundStep \cup {"verify_fetch", "verify_save", "webhook_save"}
SaveStep   == PayStep \cup {"fail_save"}

\* What a request in flight knows for sure.
RequestOK(r) ==
    /\ req[r].at \in CreateStep => req[r].key \in Keys
    /\ req[r].at = "create_insert" =>
          req[r].order \in gwOrders /\ ~Stored(req[r].order)
    /\ req[r].at \in SaveStep => req[r].order \in Orders /\ Stored(req[r].order)
    /\ req[r].at \in PayStep =>
          req[r].pay \in Pays /\ attempt[req[r].pay].order = req[r].order
    /\ req[r].at = "verify_save" => req[r].status \in {"failed", "captured", "authorized"}
    /\ req[r].at = "webhook_save" => req[r].event \in WebhookEvent
    /\ req[r].at \in RefundStep => req[r].amt > 0

ReqOK == \A r \in Reqs : RequestOK(r)

\* Two requests never hold the same fresh order.
FreshOrders ==
    \A r, s \in Reqs : r # s /\ req[r].at = "create_insert" /\ req[s].at = "create_insert"
                          => req[r].order # req[s].order

\* Documents belong to orders of the gateway and name payments of their order.
DocOK ==
    /\ \A o \in Orders : /\ Stored(o) => o \in gwOrders
                         /\ ~Stored(o) => doc[o] = NoDoc
                         /\ doc[o].payId # None => attempt[doc[o].payId].order = o
    /\ \A p \in Pays : attempt[p].order # None => attempt[p].state # "none"

Inv == TypeOK /\ ReqOK /\ FreshOrders /\ DocOK

-----------------------------------------------------------------------------
\* save() keeps every document in its type and touches one document only.
LEMMA SaveType ==
    ASSUME doc \in [Orders -> Doc], NEW o \in Orders, NEW read \in Doc, NEW mine \in Doc,
           mine.refunds >= read.refunds, Save(o, read, mine)
    PROVE  /\ doc' \in [Orders -> Doc]
           /\ \A q \in Orders \ {o} : doc'[q] = doc[q]
           /\ doc'[o].key = doc[o].key
           /\ doc'[o].status = SavedField(doc[o].status, read.status, mine.status)
           /\ doc'[o].payId = SavedField(doc[o].payId, read.payId, mine.payId)
           /\ doc'[o].refunded = SavedField(doc[o].refunded, read.refunded, mine.refunded)
           /\ doc'[o].refunds = doc[o].refunds + (mine.refunds - read.refunds)
  <1>1. doc[o] \in Doc
    OBVIOUS
  <1>2. /\ SavedField(doc[o].status, read.status, mine.status) \in PaymentStatus
        /\ SavedField(doc[o].payId, read.payId, mine.payId) \in Pays \cup {None}
        /\ SavedField(doc[o].refunded, read.refunded, mine.refunded) \in Nat
        /\ doc[o].refunds + (mine.refunds - read.refunds) \in Nat
    BY <1>1 DEF SavedField, Doc
  <1>3. doc[o].events \cup mine.events \in SUBSET WebhookEvent
    BY <1>1 DEF Doc
  <1>4. doc[o].key \in Keys \cup {None}
    BY <1>1 DEF Doc
  <1> DEFINE new == [key      |-> doc[o].key,
                     status   |-> SavedField(doc[o].status, read.status, mine.status),
                     payId    |-> SavedField(doc[o].payId, read.payId, mine.payId),
                     refunded |-> SavedField(doc[o].refunded, read.refunded, mine.refunded),
                     refunds  |-> doc[o].refunds + (mine.refunds - read.refunds),
                     events   |-> doc[o].events \cup mine.events]
  <1>5. doc' = [doc EXCEPT ![o] = new]
    BY DEF Save
  <1>6. new \in Doc
    BY <1>2, <1>3, <1>4 DEF Doc
  <1> HIDE DEF new
  <1>7. doc' \in [Orders -> Doc] /\ doc'[o] = new /\ \A q \in Orders \ {o} : doc'[q] = doc[q]
    BY <1>5, <1>6
  <1> QED
    BY <1>7 DEF new

LEMMA IdleType == Idle \in Request
  BY DEF Idle, Request, Step, PaymentStatus, NoDoc, Doc

LEMMA InitInv == Init => Inv
  <1> SUFFICES ASSUME Init PROVE Inv
    OBVIOUS
  <1> USE DEF Init
  <1>1. TypeOK
    <2>1. NoDoc \in Doc
      BY DEF NoDoc, Doc, PaymentStatus
    <2>2. aborts \in 0..MaxAborts
      BY AbortsAssumption
    <2> QED
      BY <2>1, <2>2, IdleType DEF TypeOK, Attempt
  <1>2. ReqOK
    BY DEF ReqOK, RequestOK, Idle, CreateStep, SaveStep, PayStep, RefundStep
  <1>3. FreshOrders
    BY DEF FreshOrders, Idle
  <1>4. DocOK
    BY DEF DocOK, Stored, NoDoc
  <1> QED
    BY <1>1, <1>2, <1>3, <1>4 DEF Inv

-----------------------------------------------------------------------------
(* Each action preserves Inv. *)

\* A request that does not move keeps what it knows.
LEMMA OthersOK ==
    ASSUME Inv, NEW s \in Reqs, req'[s] = req[s], gwOrders \subseteq gwOrders',
           \A o \in Orders : Stored(o) => Stored(o)',
           req[s].at = "create_insert" => ~Stored(req[s].order)',
           \A p \in Pays : attempt[p].order # None => attempt'[p].order = attempt[p].order
    PROVE  RequestOK(s)'
  BY NoneAssumption DEF Inv, ReqOK, RequestOK, PayStep, RefundStep, SaveStep

\* A request that ends, or that saves its document and ends.
LEMMA EndOK ==
    ASSUME Inv, NEW r \in Reqs, Finish(r),
           doc' \in [Orders -> Doc], paidBack' \in [Orders -> Nat],
           lost' \in [Orders -> Nat], aborts' \in 0..MaxAborts,
           replied' \in [Keys -> SUBSET Orders],
           pending' \subseteq WebhookEvent \X Pays,
           UNCHANGED <<gwOrders, attempt>>,
           \A o \in Orders : /\ Stored(o) <=> Stored(o)'
                             /\ ~Stored(o)' => doc'[o] = NoDoc
                             /\ doc'[o].payId # None => attempt[doc'[o].payId].order = o
    PROVE  Inv'
  <1>1. TypeOK'
    BY IdleType DEF Inv, TypeOK, Finish
  <1>2. req'[r] = Idle /\ \A s \in Reqs \ {r} : req'[s] = req[s]
    BY DEF Finish, Inv, TypeOK
  <1>3. ReqOK'
    <2> SUFFICES ASSUME NEW s \in Reqs PROVE RequestOK(s)'
      BY DEF ReqOK
    <2>1. CASE s = r
      BY <1>2, <2>1 DEF RequestOK, Idle, CreateStep, SaveStep, PayStep, RefundStep
    <2>2. CASE s # r
      <3>1. req[s].at = "create_insert" => ~Stored(req[s].order)'
        BY <1>2, <2>2 DEF Inv, ReqOK, RequestOK, TypeOK, Stored
      <3> QED
        BY <1>2, <2>2, <3>1, OthersOK
    <2> QED
      BY <2>1, <2>2
  <1>4. FreshOrders'
    BY <1>2 DEF FreshOrders, Inv, Idle
  <1>5. DocOK'
    BY DEF DocOK, Inv, Stored
  <1> QED
    BY <1>1, <1>3, <1>4, <1>5 DEF Inv

\* A request that starts or goes on, while the documents stay.
LEMMA MoveOK ==
    ASSUME Inv, NEW r \in Reqs, NEW new \in Request, req' = [req EXCEPT ![r] = new],
           UNCHANGED <<doc, attempt, pending, aborts>>,
           gwOrders \subseteq gwOrders', gwOrders' \subseteq Orders,
           paidBack' \in [Orders -> Nat], lost' \in [Orders -> Nat],
           replied' \in [Keys -> SUBSET Orders],
           new.at = "create_insert" => new.order \notin gwOrders,
           RequestOK(r)'
    PROVE  Inv'
  <1>1. TypeOK'
    BY DEF Inv, TypeOK
  <1>2. req'[r] = new /\ \A s \in Reqs \ {r} : req'[s] = req[s]
    BY DEF Inv, TypeOK
  <1>3. ReqOK'
    <2> SUFFICES ASSUME NEW s \in Reqs, s # r PROVE RequestOK(s)'
      BY DEF ReqOK
    <2>1. req[s].at = "create_insert" => ~Stored(req[s].order)'
      BY <1>2 DEF Inv, ReqOK, RequestOK, Stored
    <2> QED
      BY <1>2, <2>1, OthersOK DEF Stored
  <1>4. FreshOrders'
    BY <1>2 DEF FreshOrders, Inv, ReqOK, RequestOK
  <1>5. DocOK'
    BY DEF DocOK, Inv, Stored
  <1> QED
    BY <1>1, <1>3, <1>4, <1>5 DEF Inv

\* save() by a request whose document, payment and changes fit together.
LEMMA SaveOK ==
    ASSUME Inv, NEW r \in Reqs, Finish(r), req[r].at \in SaveStep,
           NEW mine \in Doc, mine.refunds >= req[r].read.refunds,
           mine.payId # req[r].read.payId => mine.payId \in Pays
                                             /\ attempt[mine.payId].order = req[r].order,
           Save(req[r].order, req[r].read, mine),
           pending' \subseteq WebhookEvent \X Pays,
           UNCHANGED <<gwOrders, attempt, paidBack, replied, lost, aborts>>
    PROVE  Inv'
  <1>1. req[r].order \in Orders /\ Stored(req[r].order) /\ req[r].read \in Doc
    BY DEF Inv, ReqOK, RequestOK, TypeOK, Request
  <1> DEFINE o == req[r].order
  <1>2. /\ doc' \in [Orders -> Doc]
        /\ \A q \in Orders \ {o} : doc'[q] = doc[q]
        /\ doc'[o].key = doc[o].key
        /\ doc'[o].payId = SavedField(doc[o].payId, req[r].read.payId, mine.payId)
    BY <1>1, SaveType DEF Inv, TypeOK
  <1>3. \A q \in Orders : Stored(q) <=> Stored(q)'
    BY <1>2 DEF Stored
  <1>4. \A q \in Orders : ~Stored(q)' => doc'[q] = NoDoc
    BY <1>1, <1>2, <1>3 DEF Inv, DocOK
  <1>5. \A q \in Orders : doc'[q].payId # None => attempt[doc'[q].payId].order = q
    BY <1>1, <1>2 DEF Inv, DocOK, SavedField
  <1> QED
    BY <1>2, <1>3, <1>4, <1>5, EndOK DEF Inv, TypeOK

LEMMA StepInv == Inv /\ [Next]_vars => Inv'
  <1> SUFFICES ASSUME Inv, [Next]_vars PROVE Inv'
    OBVIOUS
  <1> USE DEF gateway
  <1>t. TypeOK
    BY DEF Inv
  <1>1. ASSUME NEW r \in Reqs, NEW k \in Keys, CreateOrderLookup(r, k)
        PROVE  Inv'
    <2> DEFINE new == [Idle EXCEPT !.at = "create_gateway", !.key = k]
    <2>1. CASE UNCHANGED req
      <3>1. ReqOK' /\ FreshOrders' /\ DocOK'
        BY <1>1, <2>1 DEF CreateOrderLookup, Inv, ReqOK, RequestOK, FreshOrders, DocOK, Stored
      <3>2. TypeOK'
        BY <1>1, <2>1, <1>t DEF CreateOrderLookup, TypeOK
      <3> QED
        BY <3>1, <3>2 DEF Inv
    <2>2. CASE req' = [req EXCEPT ![r] = new] /\ UNCHANGED replied
      <3>1. new \in Request
        BY DEF Idle, Request, Step, PaymentStatus, NoDoc, Doc
      <3>2. RequestOK(r)'
        BY <2>2, <1>t DEF RequestOK, Idle, TypeOK, CreateStep, SaveStep, PayStep, RefundStep
      <3> QED
        BY <1>1, <2>2, <3>1, <3>2, <1>t, MoveOK DEF CreateOrderLookup, TypeOK, Idle
    <2> QED
      BY <1>1, <2>1, <2>2 DEF CreateOrderLookup
  <1>2. ASSUME NEW r \in Reqs, CreateOrderGateway(r)
        PROVE  Inv'
    <2>1. ASSUME NEW o \in Orders \ gwOrders, gwOrders' = gwOrders \cup {o},
                 req' = [req EXCEPT ![r].at = "create_insert", ![r].order = o]
          PROVE  Inv'
      <3> DEFINE new == [req[r] EXCEPT !.at = "create_insert", !.order = o]
      <3>1. new \in Request /\ req' = [req EXCEPT ![r] = new]
        BY <2>1, <1>t, ZenonT(60) DEF TypeOK, Request, Step
      <3>2. RequestOK(r)'
        <4>1. req[r].key \in Keys
          BY <1>2 DEF CreateOrderGateway, Inv, ReqOK, RequestOK, CreateStep
        <4>2. ~Stored(o) /\ doc' = doc
          BY <1>2, <2>1 DEF CreateOrderGateway, Inv, DocOK
        <4> QED
          BY <3>1, <4>1, <4>2, <2>1, <1>t
          DEF RequestOK, TypeOK, CreateStep, SaveStep, PayStep, RefundStep, Stored, Request
      <3> QED
        BY <1>2, <2>1, <3>1, <3>2, <1>t, MoveOK DEF CreateOrderGateway, TypeOK, Request
    <2>2. CASE Finish(r) /\ UNCHANGED gwOrders
      BY <1>2, <2>2, <1>t, EndOK DEF CreateOrderGateway, TypeOK, Inv, DocOK, Stored
    <2> QED
      BY <1>2, <2>1, <2>2 DEF CreateOrderGateway
  <1>3. ASSUME NEW r \in Reqs, CreateOrderInsert(r)
        PROVE  Inv'
    <2> DEFINE o == req[r].order
               k == req[r].key
    <2>1. o \in gwOrders /\ o \in Orders /\ ~Stored(o) /\ k \in Keys /\ k # None
      BY <1>3, <1>t, NoneAssumption
      DEF CreateOrderInsert, Inv, ReqOK, RequestOK, CreateStep, TypeOK
    <2>2. CASE UNCHANGED <<doc, replied>>
      BY <1>3, <2>2, <1>t, EndOK DEF CreateOrderInsert, TypeOK, Inv, DocOK, Stored
    <2>3. CASE /\ doc' = [doc EXCEPT ![o] = [NoDoc EXCEPT !.key = k]]
               /\ replied' = [replied EXCEPT ![k] = @ \cup {o}]
      <3> DEFINE new == [NoDoc EXCEPT !.key = k]
      <3>1. new \in Doc /\ new.key = k /\ new.payId = None
        BY <2>1 DEF NoDoc, Doc, PaymentStatus
      <3> HIDE DEF new, o, k
      <3>2. /\ doc' \in [Orders -> Doc] /\ doc'[o] = new
            /\ \A q \in Orders \ {o} : doc'[q] = doc[q]
        BY <2>1, <2>3, <3>1, <1>t DEF TypeOK, new
      <3>3. TypeOK'
        BY <1>3, <2>1, <2>3, <3>2, <1>t, IdleType DEF CreateOrderInsert, TypeOK, Finish
      <3>4. req'[r] = Idle /\ \A s \in Reqs \ {r} : req'[s] = req[s]
        BY <1>3, <1>t DEF CreateOrderInsert, Finish, TypeOK
      <3>5. ReqOK'
        <4> SUFFICES ASSUME NEW s \in Reqs PROVE RequestOK(s)'
          BY DEF ReqOK
        <4>1. CASE s = r
          BY <3>4, <4>1 DEF RequestOK, Idle, CreateStep, SaveStep, PayStep, RefundStep
        <4>2. CASE s # r
          <5>1. \A q \in Orders : Stored(q) => Stored(q)'
            BY <2>1, <3>1, <3>2 DEF Stored
          <5>2. req[s].at = "create_insert" =>
                  req[s].order \in Orders /\ req[s].order # o /\ ~Stored(req[s].order)
            BY <1>3, <1>t, <4>2 DEF o, CreateOrderInsert, Inv, FreshOrders, ReqOK, RequestOK, TypeOK
          <5>3. req[s].at = "create_insert" => ~Stored(req[s].order)'
            BY <3>2, <3>4, <4>2, <5>2 DEF Stored
          <5> QED
            BY <1>3, <3>4, <4>2, <5>1, <5>3, OthersOK DEF CreateOrderInsert
        <4> QED
          BY <4>1, <4>2
      <3>6. FreshOrders'
        BY <3>4 DEF FreshOrders, Inv, Idle
      <3>7. DocOK'
        BY <1>3, <2>1, <3>1, <3>2 DEF CreateOrderInsert, DocOK, Inv, Stored
      <3> QED
        BY <3>3, <3>5, <3>6, <3>7 DEF Inv
    <2> QED
      BY <1>3, <2>2, <2>3 DEF CreateOrderInsert
  <1>4. ASSUME NEW r \in Reqs, NEW o \in Orders, NEW p \in Pays, VerifyPaymentRead(r, o, p)
        PROVE  Inv'
    <2> DEFINE mine == [Idle EXCEPT !.order = o, !.pay = p, !.read = doc[o]]
    <2>1. doc[o] \in Doc
      BY <1>t DEF TypeOK
    <2>2. CASE req' = [req EXCEPT ![r] = [mine EXCEPT !.at = "verify_save", !.status = "failed"]]
      <3> DEFINE new == [mine EXCEPT !.at = "verify_save", !.status = "failed"]
      <3>1. new \in Request
        BY <2>1 DEF Idle, Request, Step, PaymentStatus
      <3>2. RequestOK(r)'
        BY <1>4, <2>2, <1>t DEF VerifyPaymentRead, RequestOK, Idle, TypeOK,
           CreateStep, SaveStep, PayStep, RefundStep, Stored
      <3> QED
        BY <1>4, <2>2, <3>1, <3>2, <1>t, MoveOK DEF VerifyPaymentRead, TypeOK, Idle
    <2>3. CASE req' = [req EXCEPT ![r] = [mine EXCEPT !.at = "verify_fetch"]]
      <3> DEFINE new == [mine EXCEPT !.at = "verify_fetch"]
      <3>1. new \in Request
        BY <2>1 DEF Idle, Request, Step, PaymentStatus
      <3>2. RequestOK(r)'
        BY <1>4, <2>3, <1>t DEF VerifyPaymentRead, RequestOK, Idle, TypeOK,
           CreateStep, SaveStep, PayStep, RefundStep, Stored
      <3> QED
        BY <1>4, <2>3, <3>1, <3>2, <1>t, MoveOK DEF VerifyPaymentRead, TypeOK, Idle
    <2> QED
      BY <1>4, <2>2, <2>3 DEF VerifyPaymentRead
  <1>5. ASSUME NEW r \in Reqs, VerifyPaymentFetch(r)
        PROVE  Inv'
    <2>1. PICK st \in {"captured", "authorized"} :
             req' = [req EXCEPT ![r].at = "verify_save", ![r].status = st]
      BY <1>5 DEF VerifyPaymentFetch
    <2> DEFINE new == [req[r] EXCEPT !.at = "verify_save", !.status = st]
    <2>2. new \in Request /\ req' = [req EXCEPT ![r] = new]
      BY <2>1, <1>t, ZenonT(60) DEF TypeOK, Request, Step, PaymentStatus
    <2>3. RequestOK(r)'
      <3>1. RequestOK(r) /\ req[r].at = "verify_fetch"
        BY <1>5 DEF Inv, ReqOK, VerifyPaymentFetch
      <3> QED
        BY <1>5, <2>2, <3>1, <1>t DEF VerifyPaymentFetch, RequestOK, TypeOK, Request,
           CreateStep, SaveStep, PayStep, RefundStep, Stored
    <2> QED
      BY <1>5, <2>2, <2>3, <1>t, MoveOK DEF VerifyPaymentFetch, TypeOK, Request
  <1>6. ASSUME NEW r \in Reqs, VerifyPaymentSave(r)
        PROVE  Inv'
    <2> DEFINE mine == [req[r].read EXCEPT !.status = req[r].status, !.payId = req[r].pay]
    <2>1. mine \in Doc /\ mine.refunds = req[r].read.refunds /\ mine.refunds \in Nat
      BY <1>t, ZenonT(60) DEF TypeOK, Request, Doc
    <2>2. RequestOK(r) /\ req[r].at \in SaveStep /\ req[r].at \in PayStep
      BY <1>6 DEF VerifyPaymentSave, Inv, ReqOK, SaveStep, PayStep
    <2>3. mine.payId \in Pays /\ attempt[mine.payId].order = req[r].order
      BY <2>2, <1>t DEF RequestOK, TypeOK, Request, Doc
    <2>4. Save(req[r].order, req[r].read, mine)
      BY <1>6 DEF VerifyPaymentSave
    <2> HIDE DEF mine
    <2> QED
      BY <1>6, <2>1, <2>2, <2>3, <2>4, <1>t, SaveOK DEF VerifyPaymentSave, TypeOK
  <1>7. ASSUME NEW r \in Reqs, NEW o \in Orders, MarkPaymentFailedRead(r, o)
        PROVE  Inv'
    <2> DEFINE new == [Idle EXCEPT !.at = "fail_save", !.order = o, !.read = doc[o]]
    <2>1. new \in Request /\ req' = [req EXCEPT ![r] = new]
      BY <1>7, <1>t DEF MarkPaymentFailedRead, TypeOK, Idle, Request, Step, PaymentStatus
    <2>2. RequestOK(r)'
      BY <1>7, <1>t DEF MarkPaymentFailedRead, RequestOK, Idle, TypeOK,
         CreateStep, SaveStep, PayStep, RefundStep, Stored
    <2> QED
      BY <1>7, <2>1, <2>2, <1>t, MoveOK DEF MarkPaymentFailedRead, TypeOK, Idle
  <1>8. ASSUME NEW r \in Reqs, MarkPaymentFailedSave(r)
        PROVE  Inv'
    <2> DEFINE mine == [req[r].read EXCEPT !.status = "failed"]
    <2>0. req[r].read \in Doc
      BY <1>t DEF TypeOK, Request
    <2>1. /\ mine \in Doc /\ mine.refunds = req[r].read.refunds /\ mine.refunds \in Nat
          /\ mine.payId = req[r].read.payId
      BY <2>0 DEF Doc, PaymentStatus
    <2>2. req[r].at \in SaveStep
      BY <1>8 DEF MarkPaymentFailedSave, SaveStep
    <2>3. Save(req[r].order, req[r].read, mine)
      BY <1>8 DEF MarkPaymentFailedSave
    <2> HIDE DEF mine
    <2> QED
      BY <1>8, <2>1, <2>2, <2>3, <1>t, SaveOK DEF MarkPaymentFailedSave, TypeOK
  <1>9. ASSUME NEW r \in Reqs, NEW o \in Orders, NEW amt \in 1..Amount,
               RefundPaymentRead(r, o, amt)
        PROVE  Inv'
    <2> DEFINE new == [Idle EXCEPT !.at = "refund_gateway", !.order = o,
                         !.pay = doc[o].payId, !.amt = amt, !.read = doc[o]]
    <2>0. doc[o] \in Doc /\ doc[o].payId \in Pays \cup {None} /\ amt \in Nat
      BY <1>t, AmountAssumption DEF TypeOK, Doc
    <2>1. new \in Request /\ req' = [req EXCEPT ![r] = new]
      BY <1>9, <2>0 DEF RefundPaymentRead, Idle, Request, Step, PaymentStatus
    <2>2. doc[o].payId \in Pays /\ attempt[doc[o].payId].order = o
      BY <1>9, <1>t DEF RefundPaymentRead, Inv, DocOK, TypeOK, Doc
    <2>3. RequestOK(r)'
      BY <1>9, <2>0, <2>1, <2>2, <1>t DEF RefundPaymentRead, RequestOK, Idle, TypeOK,
         CreateStep, SaveStep, PayStep, RefundStep, Stored
    <2> QED
      BY <1>9, <2>1, <2>3, <1>t, MoveOK DEF RefundPaymentRead, TypeOK, Idle
  <1>10. ASSUME NEW r \in Reqs, RefundPaymentGateway(r)
         PROVE  Inv'
    <2>1. /\ paidBack' \in [Orders -> Nat]
          /\ lost' \in [Orders -> Nat]
      BY <1>10, <1>t DEF RefundPaymentGateway, TypeOK, Request
    <2>2. CASE Finish(r)
      BY <1>10, <2>1, <2>2, <1>t, EndOK DEF RefundPaymentGateway, TypeOK, Inv, DocOK, Stored
    <2>3. CASE req' = [req EXCEPT ![r].at = "refund_save"]
      <3> DEFINE new == [req[r] EXCEPT !.at = "refund_save"]
      <3>1. new \in Request /\ req' = [req EXCEPT ![r] = new]
        BY <2>3, <1>t DEF TypeOK, Request, Step
      <3>2. RequestOK(r)'
        <4>1. RequestOK(r) /\ req[r].at = "refund_gateway"
          BY <1>10 DEF Inv, ReqOK, RefundPaymentGateway
        <4> QED
          BY <1>10, <3>1, <4>1, <1>t DEF RefundPaymentGateway, RequestOK, TypeOK, Request,
             CreateStep, SaveStep, PayStep, RefundStep, Stored
      <3> QED
        BY <1>10, <2>1, <3>1, <3>2, <1>t, MoveOK DEF RefundPaymentGateway, TypeOK, Request
    <2> QED
      BY <1>10, <2>2, <2>3 DEF RefundPaymentGateway
  <1>11. ASSUME NEW r \in Reqs, RefundPaymentSave(r)
         PROVE  Inv'
    <2> DEFINE read  == req[r].read
               total == read.refunded + req[r].amt
               st    == IF total >= Amount THEN "refunded" ELSE "partially_refunded"
               mine  == [read EXCEPT !.refunds = @ + req[r].amt, !.refunded = total,
                                     !.status = st]
    <2>0. req[r].at \in SaveStep /\ Save(req[r].order, read, mine)
      BY <1>11 DEF RefundPaymentSave, SaveStep, PayStep, RefundStep
    <2>1. read \in Doc /\ req[r].amt \in Nat
      BY <1>t DEF TypeOK, Request
    <2>2. total \in Nat /\ read.refunds + req[r].amt \in Nat
      BY <2>1 DEF Doc
    <2>3. st \in PaymentStatus
      BY DEF PaymentStatus
    <2> HIDE DEF total, st
    <2>4. mine \in Doc
      BY <2>1, <2>2, <2>3 DEF Doc
    <2>5. mine.refunds >= read.refunds /\ mine.payId = read.payId
      BY <2>1 DEF Doc
    <2> HIDE DEF mine
    <2> QED
      BY <1>11, <2>0, <2>4, <2>5, <1>t, SaveOK DEF RefundPaymentSave, TypeOK
  <1>12. ASSUME NEW r \in Reqs, NEW e \in WebhookEvent \X Pays, HandleWebhookRead(r, e)
         PROVE  Inv'
    <2>1. PICK o \in Orders : /\ o = attempt[e[2]].order
            /\ \/ pending' = pending \ {e} /\ UNCHANGED req
               \/ /\ Stored(o)
                  /\ req' = [req EXCEPT ![r] = [Idle EXCEPT !.at = "webhook_save",
                       !.order = o, !.pay = e[2], !.event = e[1], !.read = doc[o]]]
                  /\ UNCHANGED pending
      BY <1>12 DEF HandleWebhookRead
    <2>2. CASE pending' = pending \ {e} /\ UNCHANGED req
      <3>1. ReqOK' /\ FreshOrders' /\ DocOK'
        BY <1>12, <2>2 DEF HandleWebhookRead, Inv, ReqOK, RequestOK, FreshOrders, DocOK, Stored
      <3>2. TypeOK'
        BY <1>12, <2>2, <1>t DEF HandleWebhookRead, TypeOK
      <3> QED
        BY <3>1, <3>2 DEF Inv
    <2> DEFINE new == [Idle EXCEPT !.at = "webhook_save", !.order = o, !.pay = e[2],
                                   !.event = e[1], !.read = doc[o]]
    <2>3. CASE Stored(o) /\ req' = [req EXCEPT ![r] = new] /\ UNCHANGED pending
      <3>1. new \in Request
        BY <1>t DEF TypeOK, Idle, Request, Step, PaymentStatus
      <3>2. RequestOK(r)'
        BY <1>12, <2>1, <2>3, <1>t DEF HandleWebhookRead, RequestOK, Idle, TypeOK,
           CreateStep, SaveStep, PayStep, RefundStep, Stored
      <3> QED
        BY <1>12, <2>3, <3>1, <3>2, <1>t, MoveOK DEF HandleWebhookRead, TypeOK, Idle
    <2> QED
      BY <2>1, <2>2, <2>3
  <1>13. ASSUME NEW r \in Reqs, HandleWebhookSave(r)
         PROVE  Inv'
    <2> DEFINE mine == [req[r].read EXCEPT !.events = @ \cup {req[r].event},
                          !.payId  = req[r].pay,
                          !.status = IF req[r].event \in {"captured", "failed"}
                                     THEN req[r].event ELSE @]
    <2>1. RequestOK(r) /\ req[r].at \in SaveStep /\ req[r].at \in PayStep
      BY <1>13 DEF HandleWebhookSave, Inv, ReqOK, SaveStep, PayStep
    <2>2. req[r].event \in WebhookEvent
      BY <1>13, <2>1 DEF HandleWebhookSave, RequestOK
    <2>0. req[r].read \in Doc /\ req[r].pay \in Pays \cup {None}
      BY <1>t DEF TypeOK, Request
    <2>3. mine \in Doc /\ mine.refunds = req[r].read.refunds /\ mine.refunds \in Nat
      BY <2>0, <2>2 DEF Doc, PaymentStatus, WebhookEvent
    <2>4. mine.payId \in Pays /\ attempt[mine.payId].order = req[r].order
      BY <2>1, <1>t DEF RequestOK, TypeOK, Request, Doc
    <2>5. pending' \subseteq WebhookEvent \X Pays
      BY <1>13, <1>t DEF HandleWebhookSave, TypeOK
    <2>6. Save(req[r].order, req[r].read, mine)
      BY <1>13 DEF HandleWebhookSave
    <2> HIDE DEF mine
    <2> QED
      BY <1>13, <2>1, <2>3, <2>4, <2>5, <2>6, SaveOK DEF HandleWebhookSave
  <1>14. ASSUME NEW p \in Pays, NEW o \in Orders, ClientPays(p, o)
         PROVE  Inv'
    <2>1. PICK result \in {"authorized", "failed"} :
            /\ attempt' = [attempt EXCEPT ![p] = [order |-> o, state |-> result]]
            /\ pending' = pending \cup {<<result, p>>}
      BY <1>14 DEF ClientPays
    <2>2. attempt[p].order = None
      BY <1>14 DEF ClientPays, Inv, DocOK
    <2>3. TypeOK'
      BY <1>14, <2>1, <1>t DEF ClientPays, TypeOK, Attempt, WebhookEvent
    <2>4. \A q \in Pays : attempt[q].order # None => attempt'[q].order = attempt[q].order
      BY <2>1, <2>2, <1>t DEF TypeOK
    <2>5. ReqOK'
      BY <1>14, <2>4, OthersOK DEF ClientPays, Inv, ReqOK, RequestOK, Stored
    <2>6. FreshOrders'
      BY <1>14 DEF ClientPays, FreshOrders, Inv
    <2>7. DocOK'
      <3>1. \A q \in Pays : attempt'[q].order # None => attempt'[q].state # "none"
        BY <2>1, <1>t DEF TypeOK, Inv, DocOK
      <3>2. \A q \in Orders : doc[q].payId # None => doc[q].payId \in Pays
        BY <1>t DEF TypeOK, Doc
      <3> QED
        BY <1>14, <2>4, <3>1, <3>2, NoneAssumption DEF ClientPays, DocOK, Inv, Stored
    <2> QED
      BY <2>3, <2>5, <2>6, <2>7 DEF Inv
  <1>15. ASSUME NEW p \in Pays, GatewayCaptures(p)
         PROVE  Inv'
    <2>1. TypeOK'
      BY <1>15, <1>t DEF GatewayCaptures, TypeOK, Attempt, WebhookEvent
    <2>2. \A q \in Pays : attempt'[q].order = attempt[q].order
      BY <1>15, <1>t DEF GatewayCaptures, TypeOK, Attempt
    <2>3. ReqOK'
      BY <1>15, <2>2, OthersOK DEF GatewayCaptures, Inv, ReqOK, RequestOK, Stored
    <2>4. FreshOrders'
      BY <1>15 DEF GatewayCaptures, FreshOrders, Inv
    <2>5. DocOK'
      <3>1. \A q \in Pays : attempt'[q].order # None => attempt'[q].state # "none"
        BY <1>15, <1>t DEF GatewayCaptures, TypeOK, Inv, DocOK, Attempt
      <3>2. \A q \in Orders : doc[q].payId # None => doc[q].payId \in Pays
        BY <1>t DEF TypeOK, Doc
      <3> QED
        BY <1>15, <2>2, <3>1, <3>2 DEF GatewayCaptures, DocOK, Inv, Stored
    <2> QED
      BY <2>1, <2>3, <2>4, <2>5 DEF Inv
  <1>16. ASSUME NEW r \in Reqs, RequestAborts(r)
         PROVE  Inv'
    <2>1. lost' \in [Orders -> Nat]
      BY <1>16, <1>t DEF RequestAborts, TypeOK, Request
    <2>2. aborts' \in 0..MaxAborts
      BY <1>16, <1>t, AbortsAssumption DEF RequestAborts, TypeOK
    <2> QED
      BY <1>16, <2>1, <2>2, <1>t, EndOK DEF RequestAborts, TypeOK, Inv, DocOK, Stored
  <1>17. CASE UNCHANGED vars
    <2>1. TypeOK' /\ FreshOrders' /\ DocOK'
      BY <1>17, <1>t DEF vars, TypeOK, Inv, FreshOrders, DocOK, Stored
    <2>2. ReqOK'
      BY <1>17 DEF vars, Inv, ReqOK, RequestOK, Stored
    <2> QED
      BY <2>1, <2>2 DEF Inv
  <1> QED
    BY <1>1, <1>2, <1>3, <1>4, <1>5, <1>6, <1>7, <1>8, <1>9, <1>10, <1>11, <1>12, <1>13,
       <1>14, <1>15, <1>16, <1>17 DEF Next, HandlerStep

\* Every variable stays within its type, for any number of orders and requests.
THEOREM TypeCorrect == Spec => []TypeOK
  <1>1. Inv => TypeOK
    BY DEF Inv
  <1> QED
    BY InitInv, StepInv, <1>1, PTL DEF Spec

THEOREM InvCorrect == Spec => []Inv
  BY InitInv, StepInv, PTL DEF Spec

-----------------------------------------------------------------------------
(***************************************************************************)
(* Refunds.  A request that read the total t and refunds the amount a will *)
(* write t + a.  Two refunds the gateway made for one order are never both *)
(* missing from a total and beyond the money given back: what one request  *)
(* will write, and the amount of any other that is about to save, fit      *)
(* together in paidBack.  No sum over the requests is needed.              *)
(***************************************************************************)
Refunding(r) == req[r].at \in RefundStep
Made(r) == req[r].at = "refund_save"
WillWrite(r) == IF Made(r) THEN req[r].read.refunded + req[r].amt ELSE req[r].read.refunded

TotalsOK ==
    \A o \in Orders : /\ doc[o].refunded <= doc[o].refunds
                      /\ doc[o].refunded <= paidBack[o]
                      /\ paidBack[o] <= Amount
                      /\ doc[o].status = "refunded" => doc[o].refunded = Amount

ReadsOK ==
    \A r \in Reqs : Refunding(r) =>
        /\ WillWrite(r) <= paidBack[req[r].order]
        /\ req[r].read.refunded <= doc[req[r].order].refunds

MadeOK ==
    \A s \in Reqs : Made(s) =>
        doc[req[s].order].refunded + req[s].amt <= paidBack[req[s].order]

PairsOK ==
    \A r, s \in Reqs : r # s /\ Refunding(r) /\ Made(s) /\ req[r].order = req[s].order =>
        WillWrite(r) + req[s].amt <= paidBack[req[s].order]

RefundInv == TotalsOK /\ ReadsOK /\ MadeOK /\ PairsOK

LEMMA InitRefund == Init => RefundInv
  <1> SUFFICES ASSUME Init PROVE RefundInv
    OBVIOUS
  <1>1. TotalsOK
    BY AmountAssumption DEF Init, TotalsOK, NoDoc
  <1>2. ReadsOK /\ MadeOK /\ PairsOK
    BY DEF Init, ReadsOK, MadeOK, PairsOK, Refunding, Made, RefundStep, Idle
  <1> QED
    BY <1>1, <1>2 DEF RefundInv

\* The types the refund steps calculate with.
LEMMA RefundTypes ==
    ASSUME Inv
    PROVE  /\ \A o \in Orders : /\ doc[o] \in Doc /\ doc[o].refunded \in Nat
                                /\ doc[o].refunds \in Nat /\ paidBack[o] \in Nat
           /\ \A r \in Reqs : /\ req[r].amt \in Nat
                              /\ req[r].read \in Doc
                              /\ req[r].read.refunded \in Nat
                              /\ req[r].read.refunds \in Nat
                              /\ Refunding(r) => req[r].order \in Orders /\ req[r].amt > 0
                              /\ Made(r) => Refunding(r)
  BY DEF Inv, TypeOK, Request, Doc, ReqOK, RequestOK, Refunding, Made,
         RefundStep, PayStep, SaveStep

\* A step that starts no refund and writes no refund fields.
LEMMA RefundFrame ==
    ASSUME Inv, RefundInv,
           \A o \in Orders : /\ doc'[o].refunded = doc[o].refunded
                             /\ doc'[o].refunds = doc[o].refunds
                             /\ doc'[o].status = "refunded" => doc[o].status = "refunded",
           UNCHANGED paidBack,
           \A r \in Reqs : req'[r].at \in RefundStep => req'[r] = req[r]
    PROVE  RefundInv'
  <1>1. TotalsOK'
    BY DEF TotalsOK, RefundInv
  <1>2. \A r \in Reqs : Refunding(r)' => /\ req'[r] = req[r] /\ Refunding(r)
                                         /\ WillWrite(r)' = WillWrite(r)
    BY DEF Refunding, WillWrite, Made
  <1>3. \A r \in Reqs : Made(r)' => Made(r) /\ Refunding(r)'
    BY DEF Refunding, Made, RefundStep
  <1>4. ReadsOK'
    BY <1>2, RefundTypes DEF ReadsOK, RefundInv
  <1>5. MadeOK'
    BY <1>2, <1>3, RefundTypes DEF MadeOK, RefundInv
  <1>6. PairsOK'
    BY <1>2, <1>3, RefundTypes DEF PairsOK, RefundInv
  <1> QED
    BY <1>1, <1>4, <1>5, <1>6 DEF RefundInv

FullStays == \A o \in Orders : doc[o].refunded = Amount => doc'[o].refunded = Amount

\* A save that changes no refund field.
LEMMA SaveFrame ==
    ASSUME Inv, RefundInv, NEW r \in Reqs, req[r].at \in SaveStep, Finish(r),
           NEW mine \in Doc, mine.refunds = req[r].read.refunds,
           mine.refunded = req[r].read.refunded,
           mine.status = "refunded" => mine.status = req[r].read.status,
           Save(req[r].order, req[r].read, mine), UNCHANGED paidBack
    PROVE  RefundInv' /\ FullStays
  <1>1. req[r].order \in Orders /\ req[r].read \in Doc /\ req[r].read.refunds \in Nat
    BY DEF Inv, ReqOK, RequestOK, TypeOK, Request, Doc
  <1> DEFINE o == req[r].order
  <1>2. /\ \A q \in Orders \ {o} : doc'[q] = doc[q]
        /\ doc'[o].status = SavedField(doc[o].status, req[r].read.status, mine.status)
        /\ doc'[o].refunded = SavedField(doc[o].refunded, req[r].read.refunded, mine.refunded)
        /\ doc'[o].refunds = doc[o].refunds + (mine.refunds - req[r].read.refunds)
    BY <1>1, SaveType DEF Inv, TypeOK
  <1>3. \A q \in Orders : /\ doc'[q].refunded = doc[q].refunded
                          /\ doc'[q].refunds = doc[q].refunds
                          /\ doc'[q].status = "refunded" => doc[q].status = "refunded"
    BY <1>1, <1>2, RefundTypes DEF SavedField
  <1>4. \A s \in Reqs : req'[s].at \in RefundStep => req'[s] = req[s]
    BY DEF Finish, Inv, TypeOK, Idle, RefundStep
  <1> QED
    BY <1>3, <1>4, RefundFrame DEF FullStays

\* A step that leaves documents and gateway refunds alone and starts no refund.
LEMMA QuietFrame ==
    ASSUME Inv, RefundInv, UNCHANGED <<doc, paidBack>>,
           \A r \in Reqs : req'[r].at \in RefundStep => req'[r] = req[r]
    PROVE  RefundInv' /\ FullStays
  BY RefundFrame DEF FullStays

LEMMA RefundReadInv ==
    ASSUME Inv, RefundInv, NEW r \in Reqs, NEW o \in Orders, NEW amt \in 1..Amount,
           RefundPaymentRead(r, o, amt)
    PROVE  RefundInv' /\ FullStays
  <1>1. /\ req'[r].at = "refund_gateway" /\ req'[r].order = o /\ req'[r].read = doc[o]
        /\ \A s \in Reqs \ {r} : req'[s] = req[s]
        /\ UNCHANGED <<doc, paidBack>>
    BY DEF RefundPaymentRead, Inv, TypeOK, Idle, gateway
  <1>2. /\ WillWrite(r)' = doc[o].refunded /\ ~Made(r)'
        /\ \A s \in Reqs \ {r} : /\ WillWrite(s)' = WillWrite(s)
                                 /\ Made(s)' <=> Made(s)
                                 /\ Refunding(s)' <=> Refunding(s)
    BY <1>1 DEF WillWrite, Made, Refunding
  <1>3. TotalsOK'
    BY <1>1 DEF TotalsOK, RefundInv
  <1>4. ReadsOK'
    BY <1>1, <1>2, RefundTypes DEF ReadsOK, RefundInv, TotalsOK
  <1>5. MadeOK'
    BY <1>1, <1>2 DEF MadeOK, RefundInv
  <1>6. PairsOK'
    BY <1>1, <1>2, RefundTypes DEF PairsOK, MadeOK, RefundInv
  <1> QED
    BY <1>1, <1>3, <1>4, <1>5, <1>6 DEF RefundInv, FullStays

LEMMA RefundGatewayInv ==
    ASSUME Inv, RefundInv, NEW r \in Reqs, RefundPaymentGateway(r)
    PROVE  RefundInv' /\ FullStays
  <1> DEFINE o == req[r].order
             a == req[r].amt
  <1>1. /\ attempt[req[r].pay].order = o /\ o \in Orders /\ a \in Nat /\ a > 0
        /\ req[r].at = "refund_gateway" /\ Refunding(r) /\ ~Made(r)
        /\ UNCHANGED doc
    BY RefundTypes DEF RefundPaymentGateway, Inv, ReqOK, RequestOK, PayStep, RefundStep,
       Refunding, Made
  <1>2. \A s \in Reqs \ {r} : req'[s] = req[s]
    BY DEF RefundPaymentGateway, Finish, Inv, TypeOK
  <1>3. CASE UNCHANGED paidBack /\ Finish(r)
    BY <1>1, <1>2, <1>3, QuietFrame DEF Finish, Inv, TypeOK, Idle, RefundStep
  <1>4. CASE /\ paidBack[o] + a <= Amount
             /\ paidBack' = [paidBack EXCEPT ![o] = @ + a]
             /\ Finish(r) \/ req' = [req EXCEPT ![r].at = "refund_save"]
    <2>1. /\ paidBack'[o] = paidBack[o] + a
          /\ \A q \in Orders \ {o} : paidBack'[q] = paidBack[q]
          /\ \A q \in Orders : paidBack'[q] >= paidBack[q] /\ paidBack'[q] \in Nat
      BY <1>1, <1>4, RefundTypes DEF Inv, TypeOK
    <2>2. Refunding(r)' => /\ req'[r].order = o /\ req'[r].amt = a
                           /\ req'[r].read = req[r].read
                           /\ Made(r)' /\ WillWrite(r)' = WillWrite(r) + a
      BY <1>1, <1>4 DEF Refunding, Made, WillWrite, Finish, Idle, RefundStep, Inv, TypeOK, Request
    <2>3. \A s \in Reqs \ {r} : /\ WillWrite(s)' = WillWrite(s)
                                /\ Made(s)' <=> Made(s)
                                /\ Refunding(s)' <=> Refunding(s)
      BY <1>2 DEF WillWrite, Made, Refunding
    <2>4. Made(r)' => Refunding(r)'
      BY DEF Made, Refunding, RefundStep
    <2>5. \A s \in Reqs : Refunding(s) => WillWrite(s) \in Nat
      BY RefundTypes DEF WillWrite
    <2>6. TotalsOK'
      BY <1>1, <1>4, <2>1, RefundTypes DEF TotalsOK, RefundInv
    <2>7. ReadsOK'
      <3>1. \A s \in Reqs : Refunding(s) => WillWrite(s) <= paidBack[req[s].order]
        BY DEF ReadsOK, RefundInv
      <3>2. \A s \in Reqs : Refunding(s) => req[s].read.refunded <= doc[req[s].order].refunds
        BY DEF ReadsOK, RefundInv
      <3> QED
        BY <1>1, <1>2, <2>1, <2>2, <2>3, <2>5, <3>1, <3>2, RefundTypes DEF ReadsOK
    <2>8. MadeOK'
      BY <1>1, <1>2, <2>1, <2>2, <2>3, <2>4, RefundTypes DEF MadeOK, RefundInv, TotalsOK
    <2>9. PairsOK'
      <3> SUFFICES ASSUME NEW s \in Reqs, NEW t \in Reqs, s # t, Refunding(s)', Made(t)',
                          req'[s].order = req'[t].order
                   PROVE  WillWrite(s)' + req'[t].amt <= paidBack'[req'[t].order]
        BY DEF PairsOK
      <3>1. CASE s # r /\ t # r
        BY <3>1, <1>2, <2>1, <2>3, <2>5, RefundTypes DEF PairsOK, RefundInv
      <3>2. CASE s = r
        <4>1. WillWrite(r) + req[t].amt <= paidBack[o] /\ Refunding(t) /\ req[t].order = o
          BY <1>1, <1>2, <2>2, <2>3, <3>2, RefundTypes DEF PairsOK, RefundInv
        <4> QED
          BY <4>1, <1>1, <1>2, <2>1, <2>2, <2>5, <3>2, RefundTypes
      <3>3. CASE t = r
        <4>1. WillWrite(s) <= paidBack[o] /\ Refunding(s) /\ req[s].order = o
          BY <1>1, <1>2, <2>2, <2>3, <2>4, <3>3 DEF ReadsOK, RefundInv
        <4> QED
          BY <4>1, <1>1, <1>2, <2>1, <2>2, <2>3, <2>4, <2>5, <3>3, RefundTypes
      <3> QED
        BY <3>1, <3>2, <3>3
    <2> QED
      BY <1>1, <2>6, <2>7, <2>8, <2>9 DEF RefundInv, FullStays
  <1> QED
    BY <1>1, <1>3, <1>4 DEF RefundPaymentGateway

LEMMA RefundSaveInv ==
    ASSUME Inv, RefundInv, NEW r \in Reqs, RefundPaymentSave(r)
    PROVE  RefundInv' /\ FullStays
  <1> DEFINE o     == req[r].order
             a     == req[r].amt
             read  == req[r].read
             total == read.refunded + a
             st    == IF total >= Amount THEN "refunded" ELSE "partially_refunded"
             mine  == [read EXCEPT !.refunds = @ + a, !.refunded = total, !.status = st]
  <1>1. /\ Made(r) /\ Refunding(r) /\ o \in Orders /\ a \in Nat /\ a > 0
        /\ read \in Doc /\ read.refunded \in Nat /\ read.refunds \in Nat
        /\ total \in Nat /\ WillWrite(r) = total
    BY RefundTypes DEF RefundPaymentSave, Made, Refunding, RefundStep, WillWrite
  <1>2. /\ mine \in Doc /\ mine.refunds = read.refunds + a
        /\ mine.refunded = total /\ mine.status = st
    <2>1. st \in PaymentStatus /\ read.refunds + a \in Nat
      BY <1>1 DEF PaymentStatus
    <2> HIDE DEF st, total
    <2> QED
      BY <1>1, <2>1 DEF Doc
  <1>3. Save(o, read, mine) /\ Finish(r) /\ UNCHANGED paidBack
    BY DEF RefundPaymentSave, gateway
  <1>4. /\ \A q \in Orders \ {o} : doc'[q] = doc[q]
        /\ doc'[o].status = SavedField(doc[o].status, read.status, st)
        /\ doc'[o].refunded = total
        /\ doc'[o].refunds = doc[o].refunds + a
    <2> HIDE DEF mine
    <2>1. /\ \A q \in Orders \ {o} : doc'[q] = doc[q]
          /\ doc'[o].status = SavedField(doc[o].status, read.status, mine.status)
          /\ doc'[o].refunded = SavedField(doc[o].refunded, read.refunded, mine.refunded)
          /\ doc'[o].refunds = doc[o].refunds + (mine.refunds - read.refunds)
      BY <1>1, <1>2, <1>3, SaveType DEF Inv, TypeOK
    <2> QED
      BY <2>1, <1>1, <1>2, RefundTypes DEF SavedField
  <1> HIDE DEF mine
  <1>5. /\ total <= paidBack[o] /\ paidBack[o] <= Amount
        /\ doc[o].refunded + a <= paidBack[o]
        /\ read.refunded <= doc[o].refunds
    BY <1>1 DEF RefundInv, TotalsOK, ReadsOK, MadeOK
  <1>6. \A s \in Reqs \ {r} : Made(s) /\ req[s].order = o => total + req[s].amt <= paidBack[o]
    BY <1>1 DEF RefundInv, PairsOK
  <1>7. /\ req'[r] = Idle
        /\ \A s \in Reqs \ {r} : req'[s] = req[s]
        /\ ~Refunding(r)' /\ ~Made(r)'
        /\ \A s \in Reqs \ {r} : /\ WillWrite(s)' = WillWrite(s)
                                 /\ Made(s)' <=> Made(s)
                                 /\ Refunding(s)' <=> Refunding(s)
    BY <1>3 DEF Finish, Inv, TypeOK, Idle, WillWrite, Made, Refunding, RefundStep
  <1>8. TotalsOK'
    <2>1. doc[o].refunded # Amount
      BY <1>1, <1>5, RefundTypes, AmountAssumption
    <2>2. doc'[o].status = "refunded" => total = Amount
      <3>1. doc[o].status # "refunded"
        BY <1>1, <2>1 DEF RefundInv, TotalsOK
      <3>2. total >= Amount => total = Amount
        BY <1>1, <1>5, RefundTypes, AmountAssumption
      <3> QED
        BY <1>4, <3>1, <3>2 DEF SavedField
    <2> HIDE DEF total
    <2>3. doc'[o].refunded <= doc'[o].refunds
      BY <1>1, <1>4, <1>5, RefundTypes DEF total
    <2> QED
      BY <1>1, <1>3, <1>4, <1>5, <2>2, <2>3 DEF RefundInv, TotalsOK
  <1>9. ReadsOK'
    <2>1. \A q \in Orders : doc'[q].refunds >= doc[q].refunds /\ doc'[q].refunds \in Nat
      BY <1>1, <1>4, RefundTypes
    <2> QED
      BY <1>3, <1>7, <2>1, RefundTypes DEF RefundInv, ReadsOK
  <1>10. MadeOK'
    BY <1>1, <1>3, <1>4, <1>6, <1>7, RefundTypes DEF RefundInv, MadeOK
  <1>11. PairsOK'
    BY <1>3, <1>7, RefundTypes DEF RefundInv, PairsOK
  <1>12. FullStays
    BY <1>1, <1>4, <1>5, RefundTypes, AmountAssumption DEF FullStays
  <1> QED
    BY <1>8, <1>9, <1>10, <1>11, <1>12 DEF RefundInv

LEMMA RefundStepInv == Inv /\ RefundInv /\ [Next]_vars => RefundInv' /\ FullStays
  <1> SUFFICES ASSUME Inv, RefundInv, [Next]_vars PROVE RefundInv' /\ FullStays
    OBVIOUS
  <1> USE DEF gateway
  <1>t. TypeOK
    BY DEF Inv
  <1>1. ASSUME NEW r \in Reqs, NEW k \in Keys, CreateOrderLookup(r, k)
        PROVE  RefundInv' /\ FullStays
    <2>1. \A s \in Reqs : req'[s].at \in RefundStep => req'[s] = req[s]
      <3>1. CASE UNCHANGED req
        BY <3>1
      <3>2. CASE req' = [req EXCEPT ![r] = [Idle EXCEPT !.at = "create_gateway", !.key = k]]
        BY <3>2, <1>t DEF Idle, TypeOK, RefundStep
      <3> QED
        BY <1>1, <3>1, <3>2 DEF CreateOrderLookup
    <2>2. UNCHANGED <<doc, paidBack>>
      BY <1>1 DEF CreateOrderLookup
    <2> QED
      BY <2>1, <2>2, QuietFrame
  <1>2. ASSUME NEW r \in Reqs, CreateOrderGateway(r)
        PROVE  RefundInv' /\ FullStays
    <2>1. \A s \in Reqs : req'[s].at \in RefundStep => req'[s] = req[s]
      <3>1. ASSUME NEW o \in Orders,
                   req' = [req EXCEPT ![r].at = "create_insert", ![r].order = o]
            PROVE  \A s \in Reqs : req'[s].at \in RefundStep => req'[s] = req[s]
        BY <3>1, <1>t DEF TypeOK, Request, RefundStep
      <3>2. CASE Finish(r)
        BY <3>2, <1>t DEF Finish, Idle, TypeOK, RefundStep
      <3> QED
        BY <1>2, <3>1, <3>2 DEF CreateOrderGateway
    <2>2. UNCHANGED <<doc, paidBack>>
      BY <1>2 DEF CreateOrderGateway
    <2> QED
      BY <2>1, <2>2, QuietFrame
  <1>3. ASSUME NEW r \in Reqs, CreateOrderInsert(r)
        PROVE  RefundInv' /\ FullStays
    <2> DEFINE o == req[r].order
    <2>1. o \in Orders /\ doc[o] = NoDoc
      BY <1>3, <1>t DEF CreateOrderInsert, Inv, ReqOK, RequestOK, DocOK, TypeOK
    <2>2. \A s \in Reqs : req'[s].at \in RefundStep => req'[s] = req[s]
      BY <1>3, <1>t DEF CreateOrderInsert, Finish, Idle, TypeOK, RefundStep
    <2>3. \A q \in Orders : /\ doc'[q].refunded = doc[q].refunded
                            /\ doc'[q].refunds = doc[q].refunds
                            /\ doc'[q].status = "refunded" => doc[q].status = "refunded"
      BY <1>3, <2>1, <1>t DEF CreateOrderInsert, NoDoc, TypeOK
    <2> QED
      BY <1>3, <2>2, <2>3, RefundFrame DEF CreateOrderInsert, FullStays
  <1>4. ASSUME NEW r \in Reqs, NEW o \in Orders, NEW p \in Pays, VerifyPaymentRead(r, o, p)
        PROVE  RefundInv' /\ FullStays
    <2> DEFINE mine == [Idle EXCEPT !.order = o, !.pay = p, !.read = doc[o]]
    <2>1. \A s \in Reqs : req'[s].at \in RefundStep => req'[s] = req[s]
      <3>1. CASE req' = [req EXCEPT ![r] = [mine EXCEPT !.at = "verify_save", !.status = "failed"]]
        BY <3>1, <1>t DEF Idle, TypeOK, RefundStep
      <3>2. CASE req' = [req EXCEPT ![r] = [mine EXCEPT !.at = "verify_fetch"]]
        BY <3>2, <1>t DEF Idle, TypeOK, RefundStep
      <3> QED
        BY <1>4, <3>1, <3>2 DEF VerifyPaymentRead
    <2>2. UNCHANGED <<doc, paidBack>>
      BY <1>4 DEF VerifyPaymentRead
    <2> QED
      BY <2>1, <2>2, QuietFrame
  <1>5. ASSUME NEW r \in Reqs, VerifyPaymentFetch(r)
        PROVE  RefundInv' /\ FullStays
    BY <1>5, <1>t, QuietFrame DEF VerifyPaymentFetch, TypeOK, RefundStep, Request
  <1>6. ASSUME NEW r \in Reqs, VerifyPaymentSave(r)
        PROVE  RefundInv' /\ FullStays
    <2> DEFINE mine == [req[r].read EXCEPT !.status = req[r].status, !.payId = req[r].pay]
    <2>1. req[r].read \in Doc /\ req[r].status \in PaymentStatus /\ req[r].pay \in Pays \cup {None}
      BY <1>t DEF TypeOK, Request
    <2>2. /\ mine \in Doc /\ mine.refunds = req[r].read.refunds
          /\ mine.refunded = req[r].read.refunded /\ mine.status = req[r].status
      BY <2>1 DEF Doc
    <2>3. req[r].at \in SaveStep /\ req[r].status # "refunded"
      BY <1>6 DEF VerifyPaymentSave, Inv, ReqOK, RequestOK, SaveStep, PayStep
    <2>4. Save(req[r].order, req[r].read, mine)
      BY <1>6 DEF VerifyPaymentSave
    <2> HIDE DEF mine
    <2> QED
      BY <1>6, <2>2, <2>3, <2>4, SaveFrame DEF VerifyPaymentSave
  <1>7. ASSUME NEW r \in Reqs, NEW o \in Orders, MarkPaymentFailedRead(r, o)
        PROVE  RefundInv' /\ FullStays
    BY <1>7, <1>t, QuietFrame DEF MarkPaymentFailedRead, Idle, TypeOK, RefundStep
  <1>8. ASSUME NEW r \in Reqs, MarkPaymentFailedSave(r)
        PROVE  RefundInv' /\ FullStays
    <2> DEFINE mine == [req[r].read EXCEPT !.status = "failed"]
    <2>1. req[r].read \in Doc /\ req[r].at \in SaveStep
      BY <1>8, <1>t DEF TypeOK, Request, MarkPaymentFailedSave, SaveStep
    <2>2. /\ mine \in Doc /\ mine.refunds = req[r].read.refunds
          /\ mine.refunded = req[r].read.refunded /\ mine.status = "failed"
      BY <2>1 DEF Doc, PaymentStatus
    <2>3. Save(req[r].order, req[r].read, mine)
      BY <1>8 DEF MarkPaymentFailedSave
    <2> HIDE DEF mine
    <2> QED
      BY <1>8, <2>1, <2>2, <2>3, SaveFrame DEF MarkPaymentFailedSave
  <1>9. ASSUME NEW r \in Reqs, NEW o \in Orders, NEW amt \in 1..Amount,
               RefundPaymentRead(r, o, amt)
        PROVE  RefundInv' /\ FullStays
    BY <1>9, RefundReadInv
  <1>10. ASSUME NEW r \in Reqs, RefundPaymentGateway(r)
         PROVE  RefundInv' /\ FullStays
    BY <1>10, RefundGatewayInv
  <1>11. ASSUME NEW r \in Reqs, RefundPaymentSave(r)
         PROVE  RefundInv' /\ FullStays
    BY <1>11, RefundSaveInv
  <1>12. ASSUME NEW r \in Reqs, NEW e \in WebhookEvent \X Pays, HandleWebhookRead(r, e)
         PROVE  RefundInv' /\ FullStays
    <2>1. \A s \in Reqs : req'[s].at \in RefundStep => req'[s] = req[s]
      <3>1. CASE UNCHANGED req
        BY <3>1
      <3>2. ASSUME NEW o \in Orders,
                   req' = [req EXCEPT ![r] = [Idle EXCEPT !.at = "webhook_save",
                             !.order = o, !.pay = e[2], !.event = e[1], !.read = doc[o]]]
            PROVE  \A s \in Reqs : req'[s].at \in RefundStep => req'[s] = req[s]
        BY <3>2, <1>t DEF Idle, TypeOK, RefundStep
      <3> QED
        BY <1>12, <3>1, <3>2 DEF HandleWebhookRead
    <2>2. UNCHANGED <<doc, paidBack>>
      BY <1>12 DEF HandleWebhookRead
    <2> QED
      BY <2>1, <2>2, QuietFrame
  <1>13. ASSUME NEW r \in Reqs, HandleWebhookSave(r)
         PROVE  RefundInv' /\ FullStays
    <2> DEFINE st   == IF req[r].event \in {"captured", "failed"}
                       THEN req[r].event ELSE req[r].read.status
               mine == [req[r].read EXCEPT !.events = @ \cup {req[r].event},
                          !.payId  = req[r].pay,
                          !.status = IF req[r].event \in {"captured", "failed"}
                                     THEN req[r].event ELSE @]
    <2>1. /\ req[r].read \in Doc /\ req[r].pay \in Pays \cup {None}
          /\ req[r].event \in WebhookEvent /\ req[r].at \in SaveStep
      BY <1>13, <1>t DEF TypeOK, Request, HandleWebhookSave, Inv, ReqOK, RequestOK,
         SaveStep, PayStep
    <2>2. /\ mine \in Doc /\ mine.refunds = req[r].read.refunds
          /\ mine.refunded = req[r].read.refunded /\ mine.status = st
      BY <2>1 DEF Doc, PaymentStatus, WebhookEvent
    <2>3. Save(req[r].order, req[r].read, mine)
      BY <1>13 DEF HandleWebhookSave
    <2> HIDE DEF mine
    <2> QED
      BY <1>13, <2>1, <2>2, <2>3, SaveFrame DEF HandleWebhookSave
  <1>14. ASSUME NEW p \in Pays, NEW o \in Orders, ClientPays(p, o)
         PROVE  RefundInv' /\ FullStays
    BY <1>14, QuietFrame DEF ClientPays
  <1>15. ASSUME NEW p \in Pays, GatewayCaptures(p)
         PROVE  RefundInv' /\ FullStays
    BY <1>15, QuietFrame DEF GatewayCaptures
  <1>16. ASSUME NEW r \in Reqs, RequestAborts(r)
         PROVE  RefundInv' /\ FullStays
    BY <1>16, <1>t, QuietFrame DEF RequestAborts, Finish, Idle, TypeOK, RefundStep
  <1>17. CASE UNCHANGED vars
    BY <1>17, QuietFrame DEF vars
  <1> QED
    BY <1>1, <1>2, <1>3, <1>4, <1>5, <1>6, <1>7, <1>8, <1>9, <1>10, <1>11, <1>12, <1>13,
       <1>14, <1>15, <1>16, <1>17 DEF Next, HandlerStep

\* Whatever refunds race: the recorded total never exceeds the recorded refunds nor
\* the money the gateway gave back.
THEOREM RefundTotals == Spec => []RefundTotalSound
  <1>1. RefundInv => RefundTotalSound
    BY DEF RefundInv, TotalsOK, RefundTotalSound
  <1> QED
    BY InitInv, StepInv, InitRefund, RefundStepInv, <1>1, PTL DEF Spec

\* A payment whose status says refunded was given back in full.
THEOREM RefundedComplete == Spec => []RefundedIsComplete
  <1>1. Inv /\ RefundInv => RefundedIsComplete
    <2> SUFFICES ASSUME Inv, RefundInv, NEW o \in Orders, doc[o].status = "refunded"
                 PROVE  doc[o].refunded = Amount /\ paidBack[o] = Amount
      BY DEF RefundedIsComplete
    <2>1. /\ doc[o].refunded = Amount /\ doc[o].refunded <= paidBack[o]
          /\ paidBack[o] <= Amount
      BY DEF RefundInv, TotalsOK
    <2> QED
      BY <2>1, RefundTypes, AmountAssumption
  <1> QED
    BY InitInv, StepInv, InitRefund, RefundStepInv, <1>1, PTL DEF Spec

\* A total that says all was refunded is never taken back by a stale writer.
THEOREM FullyRefunded == Spec => FullyRefundedStays
  <1>1. Inv /\ RefundInv /\ [Next]_vars =>
          [\A o \in Orders : doc[o].refunded = Amount => doc'[o].refunded = Amount]_vars
    BY RefundStepInv DEF FullStays
  <1> QED
    BY InitInv, StepInv, InitRefund, RefundStepInv, <1>1, PTL DEF Spec, FullyRefundedStays

-----------------------------------------------------------------------------
(* Orders: one order for an idempotency key, a document for every order that can be *)
(* paid, and no status that claims money nobody paid.                              *)

Claims == {"captured", "partially_refunded", "refunded"}

Genuine(o) == \E p \in Pays : attempt[p] = [order |-> o, state |-> "captured"]

\* A request that is about to write a status that claims money.
Claiming(r) ==
    \/ req[r].at = "refund_save"
    \/ req[r].at = "verify_save" /\ req[r].status = "captured"
    \/ req[r].at = "webhook_save" /\ req[r].event = "captured"

ClaimsOK == \A r \in Reqs : Claiming(r) => Genuine(req[r].order)

\* The webhooks of the gateway tell the truth about captures.
PendingOK == \A p \in Pays : <<"captured", p>> \in pending => attempt[p].state = "captured"

\* The unique index, and what it makes of the answers to requests with a key.
UniqueOK == \A o, q \in Orders : Stored(o) /\ doc[o].key = doc[q].key => o = q
RepliedOK == \A k \in Keys : \A o \in replied[k] : doc[o].key = k

\* What can be paid for is an order that has its document.
PaidOK ==
    \A p \in Pays : attempt[p].state # "none" =>
        attempt[p].order \in Orders /\ Stored(attempt[p].order)

OrderInv ==
    /\ CapturedIsGenuine /\ ClaimsOK /\ PendingOK
    /\ UniqueOK /\ RepliedOK /\ PaidOK

-----------------------------------------------------------------------------
LEMMA PaidIsGenuine ==
    ASSUME Inv, NEW p \in Pays, attempt[p].state = "captured"
    PROVE  Genuine(attempt[p].order)
  <1>1. attempt[p] \in Attempt
    BY DEF Inv, TypeOK
  <1>2. attempt[p] = [order |-> attempt[p].order, state |-> "captured"]
    BY <1>1 DEF Attempt
  <1> QED BY <1>2 DEF Genuine

\* A step that writes no document and no answer.
LEMMA QuietOK ==
    ASSUME OrderInv, UNCHANGED <<doc, attempt, replied>>, pending' \subseteq pending,
           \A r \in Reqs : Claiming(r)' => Genuine(req'[r].order)
    PROVE  OrderInv'
  <1>1. CapturedIsGenuine' /\ PendingOK' /\ UniqueOK' /\ RepliedOK' /\ PaidOK'
    BY DEF OrderInv, CapturedIsGenuine, PendingOK, UniqueOK, RepliedOK,
           PaidOK, Stored
  <1>2. ClaimsOK'
    BY DEF ClaimsOK, Genuine
  <1> QED BY <1>1, <1>2 DEF OrderInv

\* A request that starts, goes on or ends without claiming money.
LEMMA MovedOK ==
    ASSUME OrderInv, NEW r \in Reqs, \A s \in Reqs \ {r} : req'[s] = req[s], ~Claiming(r)',
           UNCHANGED <<doc, attempt, replied>>, pending' \subseteq pending
    PROVE  OrderInv'
  <1>1. ASSUME NEW s \in Reqs, Claiming(s)' PROVE Genuine(req'[s].order)
    <2>1. s # r /\ req'[s] = req[s]
      BY <1>1
    <2> QED BY <1>1, <2>1 DEF OrderInv, ClaimsOK, Claiming
  <1> QED BY <1>1, QuietOK

\* A save, of a request that claims no money or knows of it.
LEMMA SavedOK ==
    ASSUME Inv, OrderInv, NEW r \in Reqs, req[r].at \in SaveStep, Finish(r),
           NEW mine \in Doc, mine.refunds >= req[r].read.refunds,
           mine.status \in Claims => mine.status = req[r].read.status \/ Claiming(r),
           Save(req[r].order, req[r].read, mine), UNCHANGED <<attempt, replied>>,
           pending' \subseteq pending
    PROVE  OrderInv'
  <1> DEFINE o == req[r].order
  <1>1. o \in Orders /\ Stored(o) /\ req[r].read \in Doc
    BY DEF Inv, ReqOK, RequestOK, TypeOK, Request
  <1>2. /\ \A q \in Orders \ {o} : doc'[q] = doc[q]
        /\ doc'[o].status = SavedField(doc[o].status, req[r].read.status, mine.status)
        /\ \A q \in Orders : doc'[q].key = doc[q].key
    <2>1. /\ \A q \in Orders \ {o} : doc'[q] = doc[q]
          /\ doc'[o].status = SavedField(doc[o].status, req[r].read.status, mine.status)
          /\ doc'[o].key = doc[o].key
      BY <1>1, SaveType DEF Inv, TypeOK
    <2> QED BY <2>1
  <1>3. CapturedIsGenuine'
    <2>1. ASSUME NEW q \in Orders, doc'[q].status \in Claims PROVE Genuine(q)
      <3>1. CASE doc'[q].status = doc[q].status
        BY <2>1, <3>1 DEF OrderInv, CapturedIsGenuine, Genuine, Claims
      <3>2. CASE doc'[q].status # doc[q].status
        <4>1. q = o /\ mine.status \in Claims /\ mine.status # req[r].read.status
          BY <1>2, <2>1, <3>2 DEF SavedField
        <4> QED BY <4>1 DEF OrderInv, ClaimsOK
      <3> QED BY <3>1, <3>2
    <2> QED BY <2>1 DEF CapturedIsGenuine, Genuine, Claims
  <1>4. ClaimsOK'
    <2>1. \A s \in Reqs : Claiming(s)' => Claiming(s) /\ req'[s] = req[s]
      BY DEF Finish, Inv, TypeOK, Claiming, Idle
    <2> QED BY <2>1 DEF OrderInv, ClaimsOK, Genuine
  <1>5. UniqueOK' /\ RepliedOK'
    <2>1. \A k \in Keys : replied[k] \subseteq Orders
      BY DEF Inv, TypeOK
    <2> QED BY <1>2, <2>1 DEF OrderInv, UniqueOK, RepliedOK, Stored
  <1>6. PendingOK'
    BY DEF OrderInv, PendingOK
  <1>7. PaidOK'
    BY <1>2 DEF OrderInv, PaidOK, Stored
  <1> QED BY <1>3, <1>4, <1>5, <1>6, <1>7 DEF OrderInv

-----------------------------------------------------------------------------
(* createOrder *)

LEMMA LookupOK ==
    ASSUME Inv, OrderInv, NEW r \in Reqs, NEW k \in Keys, CreateOrderLookup(r, k)
    PROVE  OrderInv'
  <1>1. UNCHANGED <<doc, gateway>>
    BY DEF CreateOrderLookup
  <1>2. CASE UNCHANGED req
    <2>1. PICK o \in Orders : doc[o].key = k /\ replied' = [replied EXCEPT ![k] = @ \cup {o}]
      <3>1. \E o \in Orders : doc[o].key = k /\ replied' = [replied EXCEPT ![k] = @ \cup {o}]
        <4>1. CASE req' = [req EXCEPT ![r] = [Idle EXCEPT !.at = "create_gateway", !.key = k]]
          BY <1>2, <4>1 DEF CreateOrderLookup, Inv, TypeOK, Idle
        <4> QED BY <4>1 DEF CreateOrderLookup
      <3> QED BY <3>1
    <2>2. RepliedOK'
      BY <1>1, <2>1 DEF OrderInv, RepliedOK, Inv, TypeOK
    <2> QED BY <1>1, <1>2, <2>2 DEF OrderInv, CapturedIsGenuine, ClaimsOK, Claiming, Genuine,
                                    PendingOK, UniqueOK, PaidOK, Stored, gateway
  <1>3. CASE UNCHANGED replied
    <2>1. CASE UNCHANGED req
      BY <1>1, <1>3, <2>1, QuietOK DEF OrderInv, ClaimsOK, Claiming, gateway
    <2>2. CASE req' = [req EXCEPT ![r] = [Idle EXCEPT !.at = "create_gateway", !.key = k]]
      <3>1. ~Claiming(r)' /\ \A s \in Reqs \ {r} : req'[s] = req[s]
        BY <2>2 DEF Claiming, Idle, Inv, TypeOK
      <3> QED BY <1>1, <1>3, <3>1, MovedOK DEF gateway
    <2> QED BY <2>1, <2>2 DEF CreateOrderLookup
  <1> QED BY <1>2, <1>3 DEF CreateOrderLookup

LEMMA GatewayOrderOK ==
    ASSUME Inv, OrderInv, NEW r \in Reqs, CreateOrderGateway(r)
    PROVE  OrderInv'
  <1>1. UNCHANGED <<doc, attempt, pending, replied>>
    BY DEF CreateOrderGateway
  <1>2. CASE Finish(r)
    <2>1. ~Claiming(r)' /\ \A s \in Reqs \ {r} : req'[s] = req[s]
      BY <1>2 DEF Finish, Claiming, Idle, Inv, TypeOK
    <2> QED BY <1>1, <2>1, MovedOK
  <1>3. ASSUME NEW o \in Orders, req' = [req EXCEPT ![r].at = "create_insert", ![r].order = o]
        PROVE  OrderInv'
    <2>1. ~Claiming(r)' /\ \A s \in Reqs \ {r} : req'[s] = req[s]
      BY <1>3 DEF Claiming, Inv, TypeOK, Request
    <2> QED BY <1>1, <2>1, MovedOK
  <1> QED BY <1>2, <1>3 DEF CreateOrderGateway

LEMMA InsertOK ==
    ASSUME Inv, OrderInv, NEW r \in Reqs, CreateOrderInsert(r)
    PROVE  OrderInv'
  <1> DEFINE k == req[r].key
             o == req[r].order
  <1>1. /\ UNCHANGED <<gateway, lost, aborts>> /\ req[r].at = "create_insert"
        /\ req' = [req EXCEPT ![r] = Idle]
    BY DEF CreateOrderInsert, Finish
  <1>2. CASE UNCHANGED <<doc, replied>>
    <2>1. ~Claiming(r)' /\ \A s \in Reqs \ {r} : req'[s] = req[s]
      BY <1>1 DEF Claiming, Idle, Inv, TypeOK
    <2> QED BY <1>1, <1>2, <2>1, MovedOK DEF gateway
  <1>3. CASE /\ \A q \in Orders : doc[q].key # k
             /\ doc' = [doc EXCEPT ![o] = [NoDoc EXCEPT !.key = k]]
             /\ replied' = [replied EXCEPT ![k] = @ \cup {o}]
    <2>1. k \in Keys /\ o \in Orders /\ ~Stored(o) /\ k # None
      BY <1>1, NoneAssumption DEF Inv, ReqOK, RequestOK, CreateStep, TypeOK
    <2>2. /\ doc'[o].key = k /\ doc'[o].status = "created"
          /\ \A q \in Orders \ {o} : doc'[q] = doc[q]
      BY <1>3, <2>1 DEF Inv, TypeOK, NoDoc
    <2>3. UniqueOK'
      BY <1>3, <2>1, <2>2 DEF OrderInv, UniqueOK, Stored
    <2>4. RepliedOK'
      <3>1. ASSUME NEW j \in Keys, NEW q \in replied'[j] PROVE doc'[q].key = j
        <4>1. replied \in [Keys -> SUBSET Orders]
          BY DEF Inv, TypeOK
        <4>2. CASE q \in replied[j]
          <5>1. q \in Orders /\ doc[q].key = j
            BY <4>1, <4>2 DEF OrderInv, RepliedOK
          <5>2. q # o
            BY <2>1, <5>1, NoneAssumption DEF Stored
          <5> QED BY <2>2, <5>1, <5>2
        <4>3. CASE q \notin replied[j]
          <5>1. j = k /\ q = o
            BY <1>3, <2>1, <4>1, <4>3
          <5> QED BY <2>2, <5>1
        <4> QED BY <4>2, <4>3
      <3> QED BY <3>1 DEF RepliedOK
    <2>5. CapturedIsGenuine' /\ PaidOK' /\ PendingOK'
      BY <1>1, <2>1, <2>2 DEF OrderInv, CapturedIsGenuine, PaidOK, PendingOK, Stored, gateway
    <2>6. ClaimsOK'
      BY <1>1 DEF OrderInv, ClaimsOK, Claiming, Genuine, Idle, Inv, TypeOK, gateway
    <2> QED BY <2>3, <2>4, <2>5, <2>6 DEF OrderInv
  <1> QED BY <1>2, <1>3 DEF CreateOrderInsert

-----------------------------------------------------------------------------
(* verifyPayment and markPaymentFailed *)

LEMMA VerifyOK ==
    ASSUME Inv, OrderInv, NEW r \in Reqs,
           \/ \E o \in Orders, p \in Pays : VerifyPaymentRead(r, o, p)
           \/ VerifyPaymentFetch(r)
           \/ VerifyPaymentSave(r)
    PROVE  OrderInv'
  <1>1. ASSUME NEW o \in Orders, NEW p \in Pays, VerifyPaymentRead(r, o, p)
        PROVE  OrderInv'
    <2>1. UNCHANGED <<doc, attempt, pending, replied>>
      BY <1>1 DEF VerifyPaymentRead, gateway
    <2> DEFINE mine == [Idle EXCEPT !.order = o, !.pay = p, !.read = doc[o]]
    <2>2. /\ \A s \in Reqs \ {r} : req'[s] = req[s]
          /\ \/ req'[r].at = "verify_fetch"
             \/ req'[r].at = "verify_save" /\ req'[r].status = "failed"
      <3>1. CASE req' = [req EXCEPT ![r] =
                           [mine EXCEPT !.at = "verify_save", !.status = "failed"]]
        BY <3>1 DEF Idle, Inv, TypeOK
      <3>2. CASE req' = [req EXCEPT ![r] = [mine EXCEPT !.at = "verify_fetch"]]
        BY <3>2 DEF Idle, Inv, TypeOK
      <3> QED BY <1>1, <3>1, <3>2 DEF VerifyPaymentRead
    <2>3. ~Claiming(r)'
      BY <2>2 DEF Claiming
    <2> QED BY <2>1, <2>2, <2>3, MovedOK
  <1>2. CASE VerifyPaymentFetch(r)
    <2>1. /\ UNCHANGED <<doc, attempt, pending, replied>> /\ req[r].at = "verify_fetch"
          /\ req[r] \in Request
      BY <1>2 DEF VerifyPaymentFetch, gateway, Inv, TypeOK
    <2>2. req[r].pay \in Pays /\ attempt[req[r].pay].order = req[r].order
      BY <2>1 DEF Inv, ReqOK, RequestOK, PayStep
    <2>3. ASSUME NEW s \in Reqs, Claiming(s)' PROVE Genuine(req'[s].order)
      <3>1. CASE s # r
        <4>1. req'[s] = req[s]
          BY <1>2, <3>1 DEF VerifyPaymentFetch, Inv, TypeOK
        <4> QED BY <2>3, <4>1 DEF OrderInv, ClaimsOK, Claiming
      <3>2. CASE s = r
        <4>1. req'[r].order = req[r].order
          BY <1>2 DEF VerifyPaymentFetch, Inv, TypeOK, Request
        <4>2. attempt[req[r].pay].state = "captured"
          BY <1>2, <2>1, <2>3, <3>2 DEF VerifyPaymentFetch, Claiming, Inv, TypeOK, Request
        <4> QED BY <2>2, <3>2, <4>1, <4>2, PaidIsGenuine
      <3> QED BY <3>1, <3>2
    <2> QED BY <2>1, <2>3, QuietOK
  <1>3. CASE VerifyPaymentSave(r)
    <2> DEFINE mine == [req[r].read EXCEPT !.status = req[r].status, !.payId = req[r].pay]
    <2>1. /\ req[r].read \in Doc /\ req[r].status \in PaymentStatus
          /\ req[r].pay \in Pays \cup {None} /\ req[r].read.refunds \in Nat
      BY DEF Inv, TypeOK, Request, Doc
    <2>2. mine \in Doc /\ mine.refunds = req[r].read.refunds /\ mine.status = req[r].status
      BY <2>1 DEF Doc
    <2>3. /\ req[r].at = "verify_save" /\ req[r].at \in SaveStep /\ Finish(r)
          /\ UNCHANGED <<attempt, replied, pending>> /\ Save(req[r].order, req[r].read, mine)
      BY <1>3 DEF VerifyPaymentSave, SaveStep, PayStep, gateway
    <2>4. mine.status \in Claims => Claiming(r)
      BY <2>2, <2>3 DEF Inv, ReqOK, RequestOK, Claims, Claiming
    <2> HIDE DEF mine
    <2> QED BY <2>1, <2>2, <2>3, <2>4, SavedOK
  <1> QED BY <1>1, <1>2, <1>3

LEMMA MarkFailedOK ==
    ASSUME Inv, OrderInv, NEW r \in Reqs,
           (\E o \in Orders : MarkPaymentFailedRead(r, o)) \/ MarkPaymentFailedSave(r)
    PROVE  OrderInv'
  <1>1. ASSUME NEW o \in Orders, MarkPaymentFailedRead(r, o) PROVE OrderInv'
    <2>1. UNCHANGED <<doc, attempt, pending, replied>>
      BY <1>1 DEF MarkPaymentFailedRead, gateway
    <2>2. ~Claiming(r)' /\ \A s \in Reqs \ {r} : req'[s] = req[s]
      BY <1>1 DEF MarkPaymentFailedRead, Claiming, Idle, Inv, TypeOK
    <2> QED BY <2>1, <2>2, MovedOK
  <1>2. CASE MarkPaymentFailedSave(r)
    <2> DEFINE mine == [req[r].read EXCEPT !.status = "failed"]
    <2>1. req[r].read \in Doc /\ req[r].read.refunds \in Nat
      BY DEF Inv, TypeOK, Request, Doc
    <2>2. mine \in Doc /\ mine.refunds = req[r].read.refunds /\ mine.status = "failed"
      BY <2>1 DEF Doc, PaymentStatus
    <2>3. /\ req[r].at \in SaveStep /\ Finish(r)
          /\ UNCHANGED <<attempt, replied, pending>> /\ Save(req[r].order, req[r].read, mine)
      BY <1>2 DEF MarkPaymentFailedSave, SaveStep, gateway
    <2> HIDE DEF mine
    <2> QED BY <2>1, <2>2, <2>3, SavedOK DEF Claims
  <1> QED BY <1>1, <1>2

-----------------------------------------------------------------------------
(* refundPayment *)

LEMMA RefundOK ==
    ASSUME Inv, OrderInv, NEW r \in Reqs,
           \/ \E o \in Orders, amt \in 1..Amount : RefundPaymentRead(r, o, amt)
           \/ RefundPaymentGateway(r)
           \/ RefundPaymentSave(r)
    PROVE  OrderInv'
  <1>1. ASSUME NEW o \in Orders, NEW amt \in 1..Amount, RefundPaymentRead(r, o, amt)
        PROVE  OrderInv'
    <2>1. UNCHANGED <<doc, attempt, pending, replied>>
      BY <1>1 DEF RefundPaymentRead, gateway
    <2>2. ~Claiming(r)' /\ \A s \in Reqs \ {r} : req'[s] = req[s]
      BY <1>1 DEF RefundPaymentRead, Claiming, Idle, Inv, TypeOK
    <2> QED BY <2>1, <2>2, MovedOK
  <1>2. CASE RefundPaymentGateway(r)
    <2>1. /\ UNCHANGED <<doc, attempt, pending, replied>> /\ req[r].at = "refund_gateway"
          /\ \A s \in Reqs \ {r} : req'[s] = req[s]
      BY <1>2 DEF RefundPaymentGateway, Finish, Inv, TypeOK
    <2>2. req[r].pay \in Pays /\ attempt[req[r].pay].order = req[r].order
      BY <2>1 DEF Inv, ReqOK, RequestOK, PayStep, RefundStep
    <2>3. CASE Finish(r)
      <3>1. ~Claiming(r)'
        BY <2>3 DEF Finish, Claiming, Idle, Inv, TypeOK
      <3> QED BY <2>1, <3>1, MovedOK
    <2>4. CASE /\ attempt[req[r].pay].state = "captured"
               /\ req' = [req EXCEPT ![r].at = "refund_save"]
      <3>1. req'[r].order = req[r].order
        BY <2>4 DEF Inv, TypeOK, Request
      <3>2. Genuine(req'[r].order)
        BY <2>2, <2>4, <3>1, PaidIsGenuine
      <3>3. ASSUME NEW s \in Reqs, Claiming(s)' PROVE Genuine(req'[s].order)
        BY <2>1, <3>2, <3>3 DEF OrderInv, ClaimsOK, Claiming
      <3> QED BY <2>1, <3>3, QuietOK
    <2> QED BY <1>2, <2>3, <2>4 DEF RefundPaymentGateway
  <1>3. CASE RefundPaymentSave(r)
    <2> DEFINE total == req[r].read.refunded + req[r].amt
               st == IF total >= Amount THEN "refunded" ELSE "partially_refunded"
               read == req[r].read
               n == read.refunds + req[r].amt
               mine == [read EXCEPT !.refunds = n, !.refunded = total, !.status = st]
    <2>1. /\ req[r].read \in Doc /\ req[r].amt \in Nat
          /\ req[r].read.refunds \in Nat /\ req[r].read.refunded \in Nat
      BY RefundTypes
    <2>5. Save(req[r].order, req[r].read, mine)
      BY <1>3 DEF RefundPaymentSave
    <2>6. total \in Nat /\ n \in Nat /\ n >= read.refunds /\ st \in PaymentStatus
      BY <2>1 DEF PaymentStatus
    <2>7. read \in Doc
      BY <2>1
    <2> HIDE DEF total, n, st, read
    <2>2. mine \in Doc
      BY <2>6, <2>7 DEF Doc
    <2>8. mine.refunds = n
      BY <2>7 DEF Doc
    <2>3. mine.refunds >= req[r].read.refunds
      BY <2>6, <2>8 DEF read
    <2>4. /\ req[r].at \in SaveStep /\ Claiming(r) /\ Finish(r)
          /\ UNCHANGED <<attempt, replied, pending>>
      BY <1>3 DEF RefundPaymentSave, SaveStep, PayStep, RefundStep, Claiming, gateway
    <2> HIDE DEF mine
    <2> QED BY <2>2, <2>3, <2>4, <2>5, SavedOK
  <1> QED BY <1>1, <1>2, <1>3

-----------------------------------------------------------------------------
(* handleWebhook *)

LEMMA WebhookOK ==
    ASSUME Inv, OrderInv, NEW r \in Reqs,
           \/ \E e \in WebhookEvent \X Pays : HandleWebhookRead(r, e)
           \/ HandleWebhookSave(r)
    PROVE  OrderInv'
  <1>1. ASSUME NEW e \in WebhookEvent \X Pays, HandleWebhookRead(r, e)
        PROVE  OrderInv'
    <2>a. e = <<e[1], e[2]>> /\ e[2] \in Pays
      OBVIOUS
    <2>b. UNCHANGED <<doc, attempt, replied>> /\ e \in pending
      BY <1>1 DEF HandleWebhookRead
    <2>c. pending' \subseteq pending
      <3>1. pending' = pending \ {e} \/ pending' = pending
        BY <1>1 DEF HandleWebhookRead
      <3> QED BY <3>1
    <2>1. /\ UNCHANGED <<doc, attempt, replied>> /\ pending' \subseteq pending
          /\ e \in pending /\ e = <<e[1], e[2]>> /\ e[2] \in Pays
      BY <2>a, <2>b, <2>c
    <2>2. CASE UNCHANGED req
      BY <2>1, <2>2, QuietOK DEF OrderInv, ClaimsOK, Claiming
    <2>3. ASSUME NEW o \in Orders, o = attempt[e[2]].order,
                 req' = [req EXCEPT ![r] = [Idle EXCEPT !.at = "webhook_save",
                           !.order = o, !.pay = e[2], !.event = e[1], !.read = doc[o]]]
          PROVE  OrderInv'
      <3>1. /\ req'[r].order = o /\ req'[r].at = "webhook_save" /\ req'[r].event = e[1]
            /\ \A s \in Reqs \ {r} : req'[s] = req[s]
        BY <2>3 DEF Idle, Inv, TypeOK
      <3>2. e[1] = "captured" => Genuine(o)
        <4>1. e[1] = "captured" => attempt[e[2]].state = "captured"
          BY <2>1 DEF OrderInv, PendingOK
        <4> QED BY <2>1, <2>3, <4>1, PaidIsGenuine
      <3>3. ASSUME NEW s \in Reqs, Claiming(s)' PROVE Genuine(req'[s].order)
        <4>1. CASE s = r
          BY <3>1, <3>2, <3>3, <4>1 DEF Claiming
        <4>2. CASE s # r
          BY <3>1, <3>3, <4>2 DEF OrderInv, ClaimsOK, Claiming
        <4> QED BY <4>1, <4>2
      <3> QED BY <2>1, <3>3, QuietOK
    <2> QED BY <1>1, <2>2, <2>3 DEF HandleWebhookRead
  <1>2. CASE HandleWebhookSave(r)
    <2> DEFINE st == IF req[r].event \in {"captured", "failed"}
                     THEN req[r].event ELSE req[r].read.status
               mine == [req[r].read EXCEPT !.events = @ \cup {req[r].event},
                          !.payId  = req[r].pay,
                          !.status = IF req[r].event \in {"captured", "failed"}
                                     THEN req[r].event ELSE @]
    <2>1. /\ req[r].read \in Doc /\ req[r].pay \in Pays \cup {None}
          /\ req[r].event \in WebhookEvent /\ req[r].at \in SaveStep
          /\ req[r].read.refunds \in Nat
      BY <1>2, RefundTypes DEF HandleWebhookSave, Inv, TypeOK, Request, ReqOK, RequestOK,
         SaveStep, PayStep
    <2>2. mine \in Doc /\ mine.refunds = req[r].read.refunds /\ mine.status = st
      BY <2>1 DEF Doc, PaymentStatus, WebhookEvent
    <2>3. /\ Save(req[r].order, req[r].read, mine) /\ Finish(r)
          /\ UNCHANGED <<attempt, replied>> /\ pending' \subseteq pending
      BY <1>2 DEF HandleWebhookSave
    <2>4. mine.status \in Claims => mine.status = req[r].read.status \/ Claiming(r)
      BY <1>2, <2>2 DEF HandleWebhookSave, Claims, Claiming
    <2> HIDE DEF mine
    <2> QED BY <2>1, <2>2, <2>3, <2>4, SavedOK
  <1> QED BY <1>1, <1>2

-----------------------------------------------------------------------------
(* The gateway, and the theorems *)

LEMMA CheckoutOK ==
    ASSUME Inv, OrderInv, NEW p \in Pays,
           (\E o \in Orders : ClientPays(p, o)) \/ GatewayCaptures(p)
    PROVE  OrderInv'
  <1>1. /\ UNCHANGED <<doc, req, replied>> /\ attempt[p] \in Attempt
        /\ attempt[p].state \in {"none", "authorized"}
    BY DEF ClientPays, GatewayCaptures, Inv, TypeOK
  <1>2. \A s \in Pays \ {p} : attempt'[s] = attempt[s]
    BY DEF ClientPays, GatewayCaptures, Inv, TypeOK
  <1>3. \A o \in Orders : Genuine(o) => Genuine(o)'
    BY <1>1, <1>2 DEF Genuine
  <1>4. CapturedIsGenuine'
    BY <1>1, <1>3 DEF OrderInv, CapturedIsGenuine, Genuine
  <1>5. ClaimsOK'
    <2>1. ASSUME NEW r \in Reqs, Claiming(r) PROVE req[r].order \in Orders
      BY <2>1 DEF Claiming, Inv, ReqOK, RequestOK, SaveStep, PayStep, RefundStep
    <2>2. ASSUME NEW r \in Reqs, Claiming(r)' PROVE Genuine(req[r].order)'
      <3>1. Claiming(r) /\ req'[r] = req[r]
        BY <1>1, <2>2 DEF Claiming
      <3>2. Genuine(req[r].order) /\ req[r].order \in Orders
        BY <2>1, <3>1 DEF OrderInv, ClaimsOK
      <3> QED BY <1>2, <1>1, <3>1, <3>2 DEF Genuine
    <2> QED BY <2>2 DEF ClaimsOK
  <1>6. UniqueOK' /\ RepliedOK'
    BY <1>1 DEF OrderInv, UniqueOK, RepliedOK, Stored
  <1>7. PaidOK' /\ PendingOK'
    <2>1. ASSUME NEW o \in Orders, ClientPays(p, o) PROVE PaidOK' /\ PendingOK'
      <3>1. Stored(o)
        BY <2>1, NoneAssumption DEF ClientPays, Payable, OrderInv, RepliedOK, Stored
      <3>2. PICK result \in {"authorized", "failed"} :
              /\ attempt' = [attempt EXCEPT ![p] = [order |-> o, state |-> result]]
              /\ pending' = pending \cup {<<result, p>>}
        BY <2>1 DEF ClientPays
      <3>3. attempt'[p] = [order |-> o, state |-> result]
        BY <3>2 DEF Inv, TypeOK
      <3>4. PaidOK'
        BY <1>1, <1>2, <3>1, <3>3 DEF OrderInv, PaidOK, Stored
      <3>5. PendingOK'
        BY <1>1, <1>2, <3>2, <3>3 DEF OrderInv, PendingOK
      <3> QED BY <3>4, <3>5
    <2>2. CASE GatewayCaptures(p)
      <3>1. /\ attempt'[p].order = attempt[p].order /\ attempt'[p].state = "captured"
            /\ pending' = pending \cup {<<"captured", p>>}
            /\ attempt[p].state # "none"
        BY <1>1, <2>2 DEF GatewayCaptures, Inv, TypeOK, Attempt
      <3> QED BY <1>1, <1>2, <3>1 DEF OrderInv, PaidOK, PendingOK, Stored
    <2> QED BY <2>1, <2>2
  <1> QED BY <1>4, <1>5, <1>6, <1>7 DEF OrderInv

LEMMA AbortOK ==
    ASSUME Inv, OrderInv, NEW r \in Reqs, RequestAborts(r)
    PROVE  OrderInv'
  <1>1. UNCHANGED <<doc, attempt, pending, replied>>
    BY DEF RequestAborts, gateway
  <1>2. ~Claiming(r)' /\ \A s \in Reqs \ {r} : req'[s] = req[s]
    BY DEF RequestAborts, Finish, Claiming, Idle, Inv, TypeOK
  <1> QED BY <1>1, <1>2, MovedOK

LEMMA InitOrders == Init => OrderInv
  BY NoneAssumption DEF Init, OrderInv, CapturedIsGenuine, ClaimsOK, Claiming, PendingOK,
     UniqueOK, RepliedOK, PaidOK, Stored, NoDoc, Idle, Claims

LEMMA OrderStepInv == Inv /\ OrderInv /\ [Next]_vars => OrderInv'
  <1> SUFFICES ASSUME Inv, OrderInv, [Next]_vars PROVE OrderInv'
    OBVIOUS
  <1>1. CASE UNCHANGED vars
    BY <1>1, QuietOK DEF vars, OrderInv, ClaimsOK, Claiming
  <1>2. ASSUME NEW r \in Reqs, HandlerStep(r) PROVE OrderInv'
    BY <1>2, GatewayOrderOK, InsertOK, VerifyOK, MarkFailedOK, RefundOK, WebhookOK DEF HandlerStep
  <1> QED BY <1>1, <1>2, LookupOK, VerifyOK, MarkFailedOK, RefundOK, WebhookOK, CheckoutOK,
             AbortOK DEF Next

LEMMA OrderInvariance == Spec => [](Inv /\ OrderInv)
  BY InitInv, StepInv, InitOrders, OrderStepInv, PTL DEF Spec

\* Requests with one idempotency key are answered one order, whatever they race with, and
\* every order that can be paid has its document (createOrder).
THEOREM OneOrderEach == Spec => []OrdersRecorded
  <1>1. Inv /\ OrderInv => OrdersRecorded
    <2> SUFFICES ASSUME Inv, OrderInv PROVE OrdersRecorded
      OBVIOUS
    <2>1. ASSUME NEW k \in Keys \ NullKeys, NEW o \in replied[k], NEW q \in replied[k]
          PROVE  o = q
      <3>1. o \in Orders /\ q \in Orders /\ k # None
        BY NoneAssumption DEF Inv, TypeOK
      <3>2. doc[o].key = k /\ doc[q].key = k
        BY DEF OrderInv, RepliedOK
      <3> QED BY <3>1, <3>2 DEF OrderInv, UniqueOK, Stored
    <2>2. PayableOrderHasRecord
      BY DEF OrderInv, PaidOK, PayableOrderHasRecord
    <2> QED BY <2>1, <2>2 DEF OrdersRecorded, OneOrderPerKey
  <1> QED BY <1>1, OrderInvariance, PTL

\* No status claims money that the gateway did not capture for that order, whichever
\* verifications, webhooks, refunds and failure reports race for the document.
THEOREM ClaimsAreGenuine == Spec => []CapturedIsGenuine
  BY OrderInvariance, PTL DEF OrderInv

-----------------------------------------------------------------------------
(***************************************************************************)
(* Sums.  SumFunctionOnSet adds up the elements of a finite set, each time *)
(* taking one that CHOOSE gives.  The recursive function by which it is    *)
(* defined exists (UnrolledExists, by induction on the size of the         *)
(* subsets), and the sum is the same whichever element is taken first      *)
(* (UnrolledAdd).                                                          *)
(***************************************************************************)

LEMMA LeastExists ==
    ASSUME NEW S \in SUBSET Nat, S # {}
    PROVE  \E x \in S : \A y \in S : x <= y
  <1> DEFINE Less == OpToRel(<, Nat)
  <1>1. IsWellFoundedOn(Less, Nat)
    BY NatLessThanWellFounded
  <1>2. \A x, y \in Nat : <<y, x>> \in Less <=> y < x
    BY DEF OpToRel
  <1> HIDE DEF Less
  <1>3. PICK x \in S : \A y \in S : ~(<<y, x>> \in Less)
    BY <1>1, WFMin
  <1>4. \A y \in S : y \in Nat /\ x \in Nat /\ ~(y < x)
    BY <1>2, <1>3
  <1> QED BY <1>4

\* A set of naturals that holds each number after those before it holds all.
LEMMA Reaches ==
    ASSUME NEW N \in SUBSET Nat, \A n \in Nat : (\A m \in Nat : m < n => m \in N) => n \in N
    PROVE  N = Nat
  <1> SUFFICES ASSUME Nat \ N # {} PROVE FALSE
    OBVIOUS
  <1>1. PICK n \in Nat \ N : \A m \in Nat \ N : n <= m
    BY LeastExists
  <1>2. \A m \in Nat : m < n => m \in N
    BY <1>1
  <1> QED BY <1>1, <1>2

\* The element of T that a sum takes first, and the sum of the others.
First(T) == CHOOSE x \in T : TRUE

Unrolled(f, S, sum) ==
    sum = [T \in SUBSET S |-> IF T = {} THEN 0 ELSE f[First(T)] + sum[T \ {First(T)}]]

LEMMA FirstIn == ASSUME NEW T, T # {} PROVE First(T) \in T
  BY DEF First

LEMMA FewerLeft ==
    ASSUME NEW T, IsFiniteSet(T), NEW x \in T
    PROVE  /\ IsFiniteSet(T \ {x}) /\ Cardinality(T) \in Nat /\ Cardinality(T \ {x}) \in Nat
           /\ Cardinality(T \ {x}) < Cardinality(T)
  <1>1. IsFiniteSet(T \ {x}) /\ Cardinality(T \ {x}) = Cardinality(T) - 1
    BY FS_RemoveElement
  <1> QED BY <1>1, FS_CardinalityType

LEMMA UnrolledExists ==
    ASSUME NEW S, IsFiniteSet(S), NEW f, \A x \in S : f[x] \in Nat
    PROVE  \E sum \in [SUBSET S -> Nat] : Unrolled(f, S, sum)
  <1> DEFINE Adding(sum, T) == IF T = {} THEN 0 ELSE f[First(T)] + sum[T \ {First(T)}]
             Upto(sum, n) == \A T \in SUBSET S : Cardinality(T) < n => sum[T] = Adding(sum, T)
             N == {n \in Nat : \E sum \in [SUBSET S -> Nat] : Upto(sum, n)}
  <1>1. \A T \in SUBSET S : IsFiniteSet(T) /\ Cardinality(T) \in Nat
    BY FS_Subset, FS_CardinalityType
  <1>2. ASSUME NEW T \in SUBSET S, T # {}
        PROVE  /\ First(T) \in S /\ T \ {First(T)} \in SUBSET S
               /\ Cardinality(T \ {First(T)}) < Cardinality(T)
               /\ Cardinality(T \ {First(T)}) \in Nat
    BY <1>1, <1>2, FirstIn, FewerLeft
  <1>3. ASSUME NEW n \in Nat, n + 1 \notin N PROVE n \notin N
    <2> SUFFICES ASSUME NEW sum \in [SUBSET S -> Nat], Upto(sum, n)
                 PROVE  n + 1 \in N
      BY <1>3
    <2> DEFINE next == [T \in SUBSET S |-> Adding(sum, T)]
    <2>1. ASSUME NEW T \in SUBSET S PROVE Adding(sum, T) \in Nat
      <3>1. CASE T = {}
        BY <3>1
      <3>2. CASE T # {}
        <4>1. f[First(T)] \in Nat /\ sum[T \ {First(T)}] \in Nat
          BY <1>2, <3>2
        <4> QED BY <3>2, <4>1
      <3> QED BY <3>1, <3>2
    <2>2. next \in [SUBSET S -> Nat] /\ \A T \in SUBSET S : next[T] = Adding(sum, T)
      BY <2>1
    <2> HIDE DEF next
    <2>3. ASSUME NEW T \in SUBSET S, Cardinality(T) < n + 1 PROVE next[T] = Adding(next, T)
      <3>1. CASE T = {}
        BY <2>2, <3>1
      <3>2. CASE T # {}
        <4>1. PICK R \in SUBSET S : R = T \ {First(T)}
          BY <1>2, <3>2
        <4>2. Cardinality(R) < n
          BY <1>1, <1>2, <2>3, <3>2, <4>1
        <4>3. next[R] = sum[R]
          BY <2>2, <4>2
        <4> QED BY <2>2, <3>2, <4>1, <4>3
      <3> QED BY <3>1, <3>2
    <2>4. Upto(next, n + 1)
      BY <2>3
    <2>5. n + 1 \in Nat
      OBVIOUS
    <2> QED BY <2>2, <2>4, <2>5
  <1>4. 0 \in N
    <2>1. [T \in SUBSET S |-> 0] \in [SUBSET S -> Nat]
      OBVIOUS
    <2>2. \A T \in SUBSET S : ~(Cardinality(T) < 0)
      BY <1>1
    <2> QED BY <2>1, <2>2
  <1> HIDE DEF N
  <1>5. N = Nat
    <2>1. N \in SUBSET Nat
      BY DEF N
    <2>2. ASSUME NEW n \in Nat, \A m \in Nat : m < n => m \in N PROVE n \in N
      <3>1. CASE n = 0
        BY <1>4, <3>1
      <3>2. CASE n # 0
        <4>1. n - 1 \in Nat /\ n - 1 \in N /\ (n - 1) + 1 = n
          BY <2>2, <3>2
        <4> QED BY <1>3, <4>1
      <3> QED BY <3>1, <3>2
    <2> QED BY <2>1, <2>2, Reaches
  <1>6. Cardinality(S) + 1 \in N
    BY <1>5, FS_CardinalityType
  <1>7. PICK sum \in [SUBSET S -> Nat] : Upto(sum, Cardinality(S) + 1)
    BY <1>6 DEF N
  <1>8. \A T \in SUBSET S : Cardinality(T) < Cardinality(S) + 1
    BY <1>1, FS_Subset, FS_CardinalityType
  <1>9. \A T \in SUBSET S : sum[T] = Adding(sum, T)
    BY <1>7, <1>8
  <1> QED BY <1>9 DEF Unrolled

LEMMA SumUnrolls ==
    ASSUME NEW S, IsFiniteSet(S), NEW f, \A x \in S : f[x] \in Nat
    PROVE  \E sum : Unrolled(f, S, sum) /\ SumFunctionOnSet(f, S) = sum[S]
  <1>1. SumFunctionOnSet(f, S) = (CHOOSE sum : Unrolled(f, S, sum))[S]
    BY DEF SumFunctionOnSet, FoldFunctionOnSet, MapThenFoldSet, Unrolled, First
  <1>2. \E sum : Unrolled(f, S, sum)
    BY UnrolledExists
  <1> QED BY <1>1, <1>2

\* Two ways to unroll a sum agree where they both apply.
LEMMA UnrolledSame ==
    ASSUME NEW S, IsFiniteSet(S), NEW R, IsFiniteSet(R), NEW f, NEW g, NEW a, NEW b,
           Unrolled(f, S, a), Unrolled(g, R, b), \A x \in S \cap R : f[x] = g[x],
           NEW T \in SUBSET (S \cap R)
    PROVE  a[T] = b[T]
  <1> DEFINE N == {n \in Nat : \A U \in SUBSET (S \cap R) : Cardinality(U) = n => a[U] = b[U]}
  <1>1. \A U \in SUBSET (S \cap R) : IsFiniteSet(U) /\ Cardinality(U) \in Nat
    BY FS_Subset, FS_CardinalityType
  <1>2. ASSUME NEW n \in Nat, \A m \in Nat : m < n => m \in N,
               NEW U \in SUBSET (S \cap R), Cardinality(U) = n
        PROVE  a[U] = b[U]
    <2>1. CASE U = {}
      BY <2>1 DEF Unrolled
    <2>2. CASE U # {}
      <3>1. PICK x \in U : x = First(U)
        BY <2>2, FirstIn
      <3>2. PICK V \in SUBSET (S \cap R) : V = U \ {x}
        OBVIOUS
      <3>3. Cardinality(V) \in Nat /\ Cardinality(V) < n
        BY <1>1, <1>2, <3>2, FewerLeft
      <3>4. a[V] = b[V]
        BY <1>2, <3>3
      <3>5. a[U] = f[x] + a[V] /\ b[U] = g[x] + b[V]
        BY <2>2, <3>1, <3>2 DEF Unrolled
      <3> QED BY <3>4, <3>5
    <2> QED BY <2>1, <2>2
  <1>3. N = Nat
    <2>1. N \in SUBSET Nat
      OBVIOUS
    <2>2. \A n \in Nat : (\A m \in Nat : m < n => m \in N) => n \in N
      BY <1>2
    <2> HIDE DEF N
    <2> QED BY <2>1, <2>2, Reaches
  <1> QED BY <1>1, <1>3

\* However a sum takes its elements, any of them can be taken first.
LEMMA UnrolledAdd ==
    ASSUME NEW S, IsFiniteSet(S), NEW f, \A x \in S : f[x] \in Nat, NEW sum, Unrolled(f, S, sum),
           NEW Q \in SUBSET S
    PROVE  sum[Q] \in Nat /\ \A r \in Q : sum[Q] = f[r] + sum[Q \ {r}]
  <1> DEFINE N == {n \in Nat : \A T \in SUBSET S : Cardinality(T) = n =>
                       sum[T] \in Nat /\ \A r \in T : sum[T] = f[r] + sum[T \ {r}]}
  <1>1. \A T \in SUBSET S : IsFiniteSet(T) /\ Cardinality(T) \in Nat
    BY FS_Subset, FS_CardinalityType
  <1>2. ASSUME NEW n \in Nat, \A m \in Nat : m < n => m \in N,
               NEW T \in SUBSET S, Cardinality(T) = n
        PROVE  sum[T] \in Nat /\ \A r \in T : sum[T] = f[r] + sum[T \ {r}]
    <2>1. CASE T = {}
      BY <2>1 DEF Unrolled
    <2>2. CASE T # {}
      <3>1. PICK x \in T : x = First(T)
        BY <2>2, FirstIn
      <3>2. \A y \in T : /\ T \ {y} \in SUBSET S /\ Cardinality(T \ {y}) \in Nat
                         /\ Cardinality(T \ {y}) < n
        BY <1>1, <1>2, FewerLeft
      <3>3. \A y \in T : /\ sum[T \ {y}] \in Nat
                         /\ \A r \in T \ {y} : sum[T \ {y}] = f[r] + sum[(T \ {y}) \ {r}]
        BY <1>2, <3>2
      <3>4. sum[T] = f[x] + sum[T \ {x}]
        BY <2>2, <3>1 DEF Unrolled
      <3>5. sum[T] \in Nat
        <4>1. f[x] \in Nat /\ sum[T \ {x}] \in Nat
          BY <3>3
        <4> QED BY <3>4, <4>1
      <3>6. ASSUME NEW r \in T, r # x PROVE sum[T] = f[r] + sum[T \ {r}]
        <4>1. sum[T \ {x}] = f[r] + sum[(T \ {x}) \ {r}]
          BY <3>3, <3>6
        <4>2. sum[T \ {r}] = f[x] + sum[(T \ {r}) \ {x}]
          BY <3>3, <3>6
        <4>3. PICK V : V = (T \ {x}) \ {r} /\ V = (T \ {r}) \ {x}
          <5>1. (T \ {x}) \ {r} = (T \ {r}) \ {x}
            OBVIOUS
          <5> QED BY <5>1
        <4>4. sum[V] \in Nat
          <5>1. V \in SUBSET S /\ Cardinality(V) \in Nat /\ Cardinality(V) < n
            <6>1. Cardinality(V) < Cardinality(T \ {x}) /\ Cardinality(V) \in Nat
              BY <1>1, <3>2, <3>6, <4>3, FewerLeft
            <6> QED BY <3>2, <4>3, <6>1
          <5> QED BY <1>2, <5>1
        <4>5. f[x] \in Nat /\ f[r] \in Nat
          OBVIOUS
        <4>6. sum[T \ {x}] = f[r] + sum[V] /\ sum[T \ {r}] = f[x] + sum[V]
          BY <4>1, <4>2, <4>3
        <4> QED BY <3>4, <4>4, <4>5, <4>6
      <3> QED BY <3>4, <3>5, <3>6
    <2> QED BY <2>1, <2>2
  <1>3. N = Nat
    <2>1. N \in SUBSET Nat
      OBVIOUS
    <2>2. \A n \in Nat : (\A m \in Nat : m < n => m \in N) => n \in N
      BY <1>2
    <2> HIDE DEF N
    <2> QED BY <2>1, <2>2, Reaches
  <1>4. /\ \A T \in SUBSET S : sum[T] \in Nat
        /\ \A T \in SUBSET S : \A r \in T : sum[T] = f[r] + sum[T \ {r}]
    BY <1>1, <1>3
  <1> QED BY <1>4

LEMMA SumNone == ASSUME NEW f PROVE SumFunctionOnSet(f, {}) = 0
  <1>1. IsFiniteSet({})
    BY FS_EmptySet
  <1>2. PICK sum : Unrolled(f, {}, sum) /\ SumFunctionOnSet(f, {}) = sum[{}]
    BY <1>1, SumUnrolls
  <1> QED BY <1>2 DEF Unrolled

LEMMA SumSame ==
    ASSUME NEW S, IsFiniteSet(S), NEW f, NEW g, \A x \in S : f[x] \in Nat /\ f[x] = g[x]
    PROVE  SumFunctionOnSet(f, S) = SumFunctionOnSet(g, S)
  <1>1. PICK a : Unrolled(f, S, a) /\ SumFunctionOnSet(f, S) = a[S]
    BY SumUnrolls
  <1>2. PICK b : Unrolled(g, S, b) /\ SumFunctionOnSet(g, S) = b[S]
    BY SumUnrolls
  <1>3. a[S] = b[S]
    BY <1>1, <1>2, UnrolledSame
  <1> QED BY <1>1, <1>2, <1>3

LEMMA SumAdd ==
    ASSUME NEW S, IsFiniteSet(S), NEW r, r \notin S, NEW f, \A x \in S \cup {r} : f[x] \in Nat
    PROVE  /\ SumFunctionOnSet(f, S) \in Nat
           /\ SumFunctionOnSet(f, S \cup {r}) = f[r] + SumFunctionOnSet(f, S)
  <1>1. IsFiniteSet(S \cup {r})
    BY FS_AddElement
  <1>2. PICK a : Unrolled(f, S, a) /\ SumFunctionOnSet(f, S) = a[S]
    BY SumUnrolls
  <1>3. PICK b : Unrolled(f, S \cup {r}, b) /\ SumFunctionOnSet(f, S \cup {r}) = b[S \cup {r}]
    BY <1>1, SumUnrolls
  <1>4. /\ b[S] \in Nat
        /\ \A x \in S \cup {r} : b[S \cup {r}] = f[x] + b[(S \cup {r}) \ {x}]
    <2>1. PICK R : R = S \cup {r}
      OBVIOUS
    <2>2. IsFiniteSet(R) /\ (\A x \in R : f[x] \in Nat) /\ Unrolled(f, R, b)
      BY <1>1, <1>3, <2>1
    <2>3. S \in SUBSET R /\ R \in SUBSET R
      BY <2>1
    <2>4. b[S] \in Nat /\ \A x \in R : b[R] = f[x] + b[R \ {x}]
      BY <2>2, <2>3, UnrolledAdd
    <2> QED BY <2>1, <2>4
  <1>5. (S \cup {r}) \ {r} = S
    OBVIOUS
  <1>6. a[S] = b[S]
    BY <1>1, <1>2, <1>3, UnrolledSame
  <1> QED BY <1>2, <1>3, <1>4, <1>5, <1>6

LEMMA SumType ==
    ASSUME NEW S, IsFiniteSet(S), NEW f, \A x \in S : f[x] \in Nat
    PROVE  SumFunctionOnSet(f, S) \in Nat
  <1>1. PICK sum \in [SUBSET S -> Nat] : Unrolled(f, S, sum)
    BY UnrolledExists
  <1>2. PICK a : Unrolled(f, S, a) /\ SumFunctionOnSet(f, S) = a[S]
    BY SumUnrolls
  <1>3. a[S] = sum[S]
    BY <1>1, <1>2, UnrolledSame
  <1> QED BY <1>1, <1>2, <1>3

-----------------------------------------------------------------------------
(***************************************************************************)
(* The account of an order's refunds: what the gateway gave back is        *)
(* recorded, lost, or owed by the requests about to save it.               *)
(***************************************************************************)
Owed(o) == SumFunctionOnSet(Amounts, SavingRefund(o))

AccountInv ==
    \A o \in Orders : /\ IsFiniteSet(SavingRefund(o))
                      /\ paidBack[o] = doc[o].refunds + lost[o] + Owed(o)

LEMMA OwedTypes ==
    ASSUME Inv, NEW o \in Orders, IsFiniteSet(SavingRefund(o))
    PROVE  /\ \A r \in Reqs : Amounts[r] = req[r].amt /\ Amounts[r] \in Nat
           /\ SavingRefund(o) \subseteq Reqs
           /\ Owed(o) \in Nat
           /\ paidBack[o] \in Nat /\ lost[o] \in Nat /\ doc[o].refunds \in Nat
  <1>1. /\ \A r \in Reqs : Amounts[r] = req[r].amt /\ Amounts[r] \in Nat
        /\ SavingRefund(o) \subseteq Reqs
    BY DEF Amounts, SavingRefund, Inv, TypeOK, Request
  <1>2. Owed(o) \in Nat
    BY <1>1, SumType DEF Owed
  <1> QED BY <1>1, <1>2 DEF Inv, TypeOK, Doc

\* The requests about to save refunds of o are the same.
LEMMA OwedSame ==
    ASSUME Inv, Inv', NEW o \in Orders, IsFiniteSet(SavingRefund(o)),
           SavingRefund(o)' = SavingRefund(o), \A s \in SavingRefund(o) : req'[s] = req[s]
    PROVE  IsFiniteSet(SavingRefund(o)') /\ Owed(o)' = Owed(o)
  <1>1. PICK S : S = SavingRefund(o) /\ S = SavingRefund(o)'
    OBVIOUS
  <1>2. PICK f : f = Amounts
    OBVIOUS
  <1>3. PICK g : g = Amounts'
    OBVIOUS
  <1>4. \A s \in S : f[s] \in Nat /\ f[s] = g[s]
    BY <1>1, <1>2, <1>3, OwedTypes DEF Amounts
  <1>5. SumFunctionOnSet(f, S) = SumFunctionOnSet(g, S)
    BY <1>1, <1>4, SumSame
  <1> QED BY <1>1, <1>2, <1>3, <1>5 DEF Owed

\* One more request is about to save a refund of o.
LEMMA OwedMore ==
    ASSUME Inv, Inv', NEW o \in Orders, IsFiniteSet(SavingRefund(o)),
           NEW r \in Reqs, r \notin SavingRefund(o),
           SavingRefund(o)' = SavingRefund(o) \cup {r},
           \A s \in SavingRefund(o) : req'[s] = req[s]
    PROVE  IsFiniteSet(SavingRefund(o)') /\ Owed(o)' = Owed(o) + req'[r].amt
  <1>1. PICK S : S = SavingRefund(o) /\ S \cup {r} = SavingRefund(o)'
    OBVIOUS
  <1>2. PICK f : f = Amounts
    OBVIOUS
  <1>3. PICK g : g = Amounts'
    OBVIOUS
  <1>4. IsFiniteSet(S \cup {r})
    BY <1>1, FS_AddElement
  <1>5. \A s \in S \cup {r} : g[s] \in Nat
    BY <1>1, <1>3, <1>4 DEF Amounts, SavingRefund, Inv, TypeOK, Request
  <1>6. \A s \in S : f[s] \in Nat /\ f[s] = g[s]
    BY <1>1, <1>2, <1>3, <1>5, OwedTypes DEF Amounts
  <1>7. SumFunctionOnSet(f, S) = SumFunctionOnSet(g, S)
    BY <1>1, <1>6, SumSame
  <1>8. /\ SumFunctionOnSet(g, S) \in Nat
        /\ SumFunctionOnSet(g, S \cup {r}) = g[r] + SumFunctionOnSet(g, S)
    BY <1>1, <1>5, SumAdd
  <1>9. g[r] = req'[r].amt /\ g[r] \in Nat
    BY <1>3, <1>5 DEF Amounts
  <1> QED BY <1>1, <1>2, <1>3, <1>4, <1>7, <1>8, <1>9 DEF Owed

\* A request that was about to save a refund of o is no longer.
LEMMA OwedLess ==
    ASSUME Inv, Inv', NEW o \in Orders, IsFiniteSet(SavingRefund(o)),
           NEW r \in SavingRefund(o), SavingRefund(o)' = SavingRefund(o) \ {r},
           \A s \in SavingRefund(o) \ {r} : req'[s] = req[s]
    PROVE  IsFiniteSet(SavingRefund(o)') /\ Owed(o) = Owed(o)' + req[r].amt
  <1>1. PICK S : S = SavingRefund(o)' /\ S \cup {r} = SavingRefund(o) /\ r \notin S
    <2>1. (SavingRefund(o) \ {r}) \cup {r} = SavingRefund(o)
      OBVIOUS
    <2> QED BY <2>1
  <1>2. PICK f : f = Amounts
    OBVIOUS
  <1>3. PICK g : g = Amounts'
    OBVIOUS
  <1>4. IsFiniteSet(S)
    BY <1>1, FS_Subset
  <1>5. \A s \in S \cup {r} : s \in Reqs /\ f[s] = req[s].amt /\ f[s] \in Nat
    BY <1>1, <1>2, OwedTypes
  <1>6. \A s \in S : f[s] \in Nat /\ f[s] = g[s]
    BY <1>1, <1>3, <1>5 DEF Amounts
  <1>7. SumFunctionOnSet(f, S) = SumFunctionOnSet(g, S)
    BY <1>4, <1>6, SumSame
  <1>8. /\ SumFunctionOnSet(f, S) \in Nat
        /\ SumFunctionOnSet(f, S \cup {r}) = f[r] + SumFunctionOnSet(f, S)
    BY <1>1, <1>4, <1>5, SumAdd
  <1>9. Owed(o) = SumFunctionOnSet(f, S \cup {r}) /\ Owed(o)' = SumFunctionOnSet(g, S)
    BY <1>1, <1>2, <1>3 DEF Owed
  <1>10. f[r] = req[r].amt /\ f[r] \in Nat
    BY <1>5
  <1> QED BY <1>1, <1>4, <1>7, <1>8, <1>9, <1>10

\* The account of an order none of whose refunds moved.
LEMMA AccountKept ==
    ASSUME Inv, Inv', AccountInv, NEW o \in Orders, doc'[o].refunds = doc[o].refunds,
           paidBack'[o] = paidBack[o], lost'[o] = lost[o],
           \A s \in Reqs : s \in SavingRefund(o) \/ s \in SavingRefund(o)' => req'[s] = req[s]
    PROVE  /\ IsFiniteSet(SavingRefund(o)')
           /\ paidBack'[o] = doc'[o].refunds + lost'[o] + Owed(o)'
  <1>1. SavingRefund(o)' = SavingRefund(o)
    BY DEF SavingRefund
  <1>2. IsFiniteSet(SavingRefund(o)') /\ Owed(o)' = Owed(o)
    BY <1>1, OwedSame DEF AccountInv, SavingRefund
  <1> QED BY <1>2 DEF AccountInv

LEMMA AccountQuiet ==
    ASSUME Inv, Inv', AccountInv, \A o \in Orders : doc'[o].refunds = doc[o].refunds,
           UNCHANGED <<paidBack, lost>>,
           \A s \in Reqs : req[s].at = "refund_save" \/ req'[s].at = "refund_save"
                           => req'[s] = req[s]
    PROVE  AccountInv'
  <1>1. \A o \in Orders, s \in Reqs :
           s \in SavingRefund(o) \/ s \in SavingRefund(o)' => req'[s] = req[s]
    BY DEF SavingRefund
  <1> QED BY <1>1, AccountKept DEF AccountInv

\* A save that adds no refund.
LEMMA AccountSaved ==
    ASSUME Inv, Inv', AccountInv, NEW r \in Reqs, req[r].at \in SaveStep \ {"refund_save"},
           Finish(r), NEW mine \in Doc, mine.refunds = req[r].read.refunds,
           Save(req[r].order, req[r].read, mine), UNCHANGED <<paidBack, lost>>
    PROVE  AccountInv'
  <1>1. PICK o \in Orders : o = req[r].order
    BY DEF Inv, ReqOK, RequestOK
  <1>2. doc \in [Orders -> Doc] /\ req[r].read \in Doc /\ req[r].read.refunds \in Nat
    BY DEF Inv, TypeOK, Request, Doc
  <1>3. /\ \A q \in Orders \ {o} : doc'[q] = doc[q]
        /\ doc'[o].refunds = doc[o].refunds + (mine.refunds - req[r].read.refunds)
    BY <1>1, <1>2, SaveType
  <1>4. \A q \in Orders : doc'[q].refunds = doc[q].refunds
    BY <1>1, <1>2, <1>3, RefundTypes
  <1>5. req'[r].at = "idle" /\ \A s \in Reqs \ {r} : req'[s] = req[s]
    BY DEF Finish, Idle, Inv, TypeOK
  <1> QED BY <1>4, <1>5, AccountQuiet

\* The gateway makes a refund: it is about to be saved, or lost with its answer.
LEMMA GatewayAccount ==
    ASSUME Inv, Inv', AccountInv, NEW r \in Reqs, RefundPaymentGateway(r)
    PROVE  AccountInv'
  <1>1. /\ req[r].at = "refund_gateway" /\ attempt[req[r].pay].order = req[r].order
        /\ req[r].order \in Orders /\ UNCHANGED doc
    BY DEF RefundPaymentGateway, Inv, ReqOK, RequestOK, PayStep, RefundStep, SaveStep
  <1>2. PICK o \in Orders, a \in Nat : o = req[r].order /\ a = req[r].amt
    BY <1>1 DEF Inv, TypeOK, Request
  <1>3. \A s \in Reqs \ {r} : req'[s] = req[s]
    BY DEF RefundPaymentGateway, Finish, Inv, TypeOK
  <1>4. ASSUME Finish(r) PROVE req'[r].at = "idle"
    BY <1>4 DEF Finish, Idle, Inv, TypeOK
  <1>5. CASE Finish(r) /\ UNCHANGED <<paidBack, lost>>
    BY <1>1, <1>3, <1>4, <1>5, AccountQuiet
  <1>6. CASE paidBack' = [paidBack EXCEPT ![o] = @ + a]
    <2>1. /\ paidBack'[o] = paidBack[o] + a
          /\ \A q \in Orders \ {o} : paidBack'[q] = paidBack[q]
      BY <1>2, <1>6 DEF Inv, TypeOK
    <2>2. \/ /\ req' = [req EXCEPT ![r].at = "refund_save"] /\ UNCHANGED lost
          \/ /\ Finish(r) /\ lost' = [lost EXCEPT ![o] = @ + a]
          \/ /\ Finish(r) /\ UNCHANGED <<paidBack, lost>>
      BY <1>1, <1>2 DEF RefundPaymentGateway
    <2>3. ASSUME NEW q \in Orders \ {o}
          PROVE  /\ IsFiniteSet(SavingRefund(q)')
                 /\ paidBack'[q] = doc'[q].refunds + lost'[q] + Owed(q)'
      <3>1. lost'[q] = lost[q]
        BY <2>2, <2>3 DEF Inv, TypeOK
      <3>2. req'[r].order = o \/ req'[r].at = "idle"
        BY <1>2, <1>4, <2>2 DEF Inv, TypeOK, Request
      <3>3. r \notin SavingRefund(q) /\ r \notin SavingRefund(q)'
        BY <1>1, <2>3, <3>2 DEF SavingRefund
      <3>4. \A s \in Reqs : s \in SavingRefund(q) \/ s \in SavingRefund(q)' => req'[s] = req[s]
        BY <1>3, <3>3
      <3> QED BY <1>1, <2>1, <3>1, <3>4, AccountKept
    <2>4. /\ IsFiniteSet(SavingRefund(o)) /\ paidBack[o] = doc[o].refunds + lost[o] + Owed(o)
          /\ Owed(o) \in Nat /\ paidBack[o] \in Nat /\ lost[o] \in Nat /\ doc[o].refunds \in Nat
      BY OwedTypes DEF AccountInv
    <2>5. r \notin SavingRefund(o) /\ \A s \in SavingRefund(o) : req'[s] = req[s]
      BY <1>1, <1>3 DEF SavingRefund
    <2>6. CASE req' = [req EXCEPT ![r].at = "refund_save"] /\ UNCHANGED lost
      <3>1. req'[r].at = "refund_save" /\ req'[r].order = o /\ req'[r].amt = a
        BY <1>2, <2>6 DEF Inv, TypeOK, Request
      <3>2. SavingRefund(o)' = SavingRefund(o) \cup {r}
        BY <1>1, <1>3, <3>1 DEF SavingRefund
      <3>3. IsFiniteSet(SavingRefund(o)') /\ Owed(o)' = Owed(o) + a
        BY <2>4, <2>5, <3>1, <3>2, OwedMore
      <3>4. paidBack'[o] = doc'[o].refunds + lost'[o] + Owed(o)'
        BY <1>1, <2>1, <2>4, <2>6, <3>3
      <3> QED BY <2>3, <3>3, <3>4 DEF AccountInv
    <2>7. CASE Finish(r) /\ lost' = [lost EXCEPT ![o] = @ + a]
      <3>1. SavingRefund(o)' = SavingRefund(o)
        BY <1>1, <1>3, <1>4, <2>7 DEF SavingRefund
      <3>2. IsFiniteSet(SavingRefund(o)') /\ Owed(o)' = Owed(o)
        BY <2>4, <2>5, <3>1, OwedSame
      <3>3. lost'[o] = lost[o] + a
        BY <2>7 DEF Inv, TypeOK
      <3>4. paidBack'[o] = doc'[o].refunds + lost'[o] + Owed(o)'
        BY <1>1, <2>1, <2>4, <3>2, <3>3
      <3> QED BY <2>3, <3>2, <3>4 DEF AccountInv
    <2> QED BY <1>1, <1>3, <1>4, <1>5, <2>2, <2>6, <2>7
  <1> QED BY <1>1, <1>2, <1>5, <1>6 DEF RefundPaymentGateway

\* A request saves the refund it had made, or dies before: it is owed no more.
LEMMA SettledAccount ==
    ASSUME Inv, Inv', AccountInv, NEW r \in Reqs, req[r].at = "refund_save", Finish(r),
           UNCHANGED paidBack,
           \A q \in Orders : doc'[q].refunds + lost'[q] = doc[q].refunds + lost[q]
                                + (IF q = req[r].order THEN req[r].amt ELSE 0),
           \A q \in Orders \ {req[r].order} : doc'[q].refunds = doc[q].refunds /\ lost'[q] = lost[q]
    PROVE  AccountInv'
  <1>1. PICK o \in Orders : o = req[r].order
    BY DEF Inv, ReqOK, RequestOK, RefundStep, PayStep, SaveStep
  <1>2. req'[r].at = "idle" /\ \A s \in Reqs \ {r} : req'[s] = req[s]
    BY DEF Finish, Idle, Inv, TypeOK
  <1>3. ASSUME NEW q \in Orders \ {o}
        PROVE  /\ IsFiniteSet(SavingRefund(q)')
               /\ paidBack'[q] = doc'[q].refunds + lost'[q] + Owed(q)'
    <2>1. \A s \in Reqs : s \in SavingRefund(q) \/ s \in SavingRefund(q)' => req'[s] = req[s]
      BY <1>1, <1>2, <1>3 DEF SavingRefund
    <2> QED BY <1>1, <1>3, <2>1, AccountKept
  <1>4. /\ IsFiniteSet(SavingRefund(o)) /\ paidBack[o] = doc[o].refunds + lost[o] + Owed(o)
        /\ Owed(o) \in Nat /\ lost[o] \in Nat /\ doc[o].refunds \in Nat
        /\ lost'[o] \in Nat /\ doc'[o].refunds \in Nat /\ req[r].amt \in Nat
    BY OwedTypes DEF AccountInv, Inv, TypeOK, Request, Doc
  <1>5. r \in SavingRefund(o) /\ SavingRefund(o)' = SavingRefund(o) \ {r}
    BY <1>1, <1>2 DEF SavingRefund
  <1>6. IsFiniteSet(SavingRefund(o)') /\ Owed(o) = Owed(o)' + req[r].amt
    <2>1. \A s \in SavingRefund(o) \ {r} : req'[s] = req[s]
      BY <1>2 DEF SavingRefund
    <2> QED BY <1>4, <1>5, <2>1, OwedLess
  <1>7. Owed(o)' \in Nat
    <2>1. \A s \in SavingRefund(o)' : Amounts'[s] \in Nat
      BY DEF Amounts, SavingRefund, Inv, TypeOK, Request
    <2>2. SumFunctionOnSet(Amounts', SavingRefund(o)') \in Nat
      BY <1>6, <2>1, SumType
    <2> QED BY <2>2 DEF Owed
  <1>8. paidBack'[o] = doc'[o].refunds + lost'[o] + Owed(o)'
    <2>1. doc'[o].refunds + lost'[o] = doc[o].refunds + lost[o] + req[r].amt
      BY <1>1
    <2> QED BY <1>4, <1>6, <1>7, <2>1
  <1> QED BY <1>3, <1>6, <1>8 DEF AccountInv


LEMMA RefundSaveAccount ==
    ASSUME Inv, Inv', AccountInv, NEW r \in Reqs, RefundPaymentSave(r)
    PROVE  AccountInv'
  <1> DEFINE o     == req[r].order
             a     == req[r].amt
             read  == req[r].read
             total == read.refunded + a
             st    == IF total >= Amount THEN "refunded" ELSE "partially_refunded"
             mine  == [read EXCEPT !.refunds = @ + a, !.refunded = total, !.status = st]
  <1>1. o \in Orders /\ req[r].at = "refund_save"
    BY DEF RefundPaymentSave, Inv, ReqOK, RequestOK, RefundStep, PayStep, SaveStep
  <1>2. /\ doc \in [Orders -> Doc] /\ read \in Doc /\ a \in Nat
        /\ read.refunds \in Nat /\ total \in Nat
    BY DEF Inv, TypeOK, Request, Doc
  <1>3. mine \in Doc /\ mine.refunds = read.refunds + a
    <2>1. st \in PaymentStatus /\ read.refunds + a \in Nat
      BY <1>2 DEF PaymentStatus
    <2> HIDE DEF st, total
    <2> QED BY <1>2, <2>1 DEF Doc
  <1>4. Save(o, read, mine) /\ Finish(r) /\ UNCHANGED <<paidBack, lost>>
    BY DEF RefundPaymentSave, gateway
  <1>5. mine.refunds >= read.refunds
    BY <1>2, <1>3
  <1>6. /\ \A q \in Orders \ {o} : doc'[q] = doc[q]
        /\ doc'[o].refunds = doc[o].refunds + (mine.refunds - read.refunds)
    <2> HIDE DEF mine
    <2> QED BY <1>1, <1>2, <1>3, <1>4, <1>5, SaveType
  <1> HIDE DEF mine
  <1>7. doc'[o].refunds = doc[o].refunds + a
    BY <1>1, <1>2, <1>3, <1>6, RefundTypes
  <1>8. \A q \in Orders : doc'[q].refunds + lost'[q] = doc[q].refunds + lost[q]
                               + (IF q = req[r].order THEN req[r].amt ELSE 0)
    BY <1>2, <1>4, <1>6, <1>7, RefundTypes DEF Inv, TypeOK
  <1>9. \A q \in Orders \ {req[r].order} : doc'[q].refunds = doc[q].refunds /\ lost'[q] = lost[q]
    BY <1>4, <1>6
  <1> QED BY <1>1, <1>4, <1>8, <1>9, SettledAccount

LEMMA AbortAccount ==
    ASSUME Inv, Inv', AccountInv, NEW r \in Reqs, RequestAborts(r)
    PROVE  AccountInv'
  <1>1. /\ UNCHANGED <<doc, paidBack>> /\ Finish(r)
        /\ lost' = [o \in Orders |->
                      IF req[r].at = "refund_save" /\ req[r].order = o
                      THEN lost[o] + req[r].amt ELSE lost[o]]
    BY DEF RequestAborts, gateway
  <1>2. lost \in [Orders -> Nat] /\ req[r].amt \in Nat /\ \A o \in Orders : doc[o].refunds \in Nat
    BY DEF Inv, TypeOK, Request, Doc
  <1>3. CASE req[r].at = "refund_save"
    <2>1. \A o \in Orders : doc'[o].refunds + lost'[o] = doc[o].refunds + lost[o]
                                + (IF o = req[r].order THEN req[r].amt ELSE 0)
      BY <1>1, <1>2, <1>3
    <2>2. \A o \in Orders \ {req[r].order} : doc'[o].refunds = doc[o].refunds /\ lost'[o] = lost[o]
      BY <1>1, <1>2
    <2> QED BY <1>1, <1>3, <2>1, <2>2, SettledAccount
  <1>4. CASE req[r].at # "refund_save"
    <2>1. UNCHANGED lost
      BY <1>1, <1>2, <1>4
    <2>2. req'[r].at = "idle" /\ \A s \in Reqs \ {r} : req'[s] = req[s]
      BY <1>1 DEF Finish, Idle, Inv, TypeOK
    <2> QED BY <1>1, <1>4, <2>1, <2>2, AccountQuiet
  <1> QED BY <1>3, <1>4

LEMMA AccountInit == Init => AccountInv
  <1> SUFFICES ASSUME Init, NEW o \in Orders
               PROVE  /\ IsFiniteSet(SavingRefund(o))
                      /\ paidBack[o] = doc[o].refunds + lost[o] + Owed(o)
    BY DEF AccountInv
  <1>1. SavingRefund(o) = {}
    BY DEF Init, Idle, SavingRefund
  <1>2. Owed(o) = 0 /\ IsFiniteSet(SavingRefund(o))
    <2>1. SumFunctionOnSet(Amounts, {}) = 0
      BY SumNone
    <2> QED BY <1>1, <2>1, FS_EmptySet DEF Owed
  <1> QED BY <1>2 DEF Init, NoDoc

LEMMA AccountStep == Inv /\ Inv' /\ AccountInv /\ [Next]_vars => AccountInv'
  <1> SUFFICES ASSUME Inv, Inv', AccountInv, [Next]_vars PROVE AccountInv'
    OBVIOUS
  <1> USE DEF gateway
  <1> DEFINE Untouched == \A s \in Reqs : req[s].at = "refund_save" \/ req'[s].at = "refund_save"
                                         => req'[s] = req[s]
  <1>t. TypeOK
    BY DEF Inv
  <1>1. ASSUME NEW r \in Reqs, NEW k \in Keys, CreateOrderLookup(r, k)
        PROVE  AccountInv'
    <2>1. Untouched
      BY <1>1, <1>t DEF CreateOrderLookup, Idle, TypeOK
    <2> QED BY <1>1, <2>1, AccountQuiet DEF CreateOrderLookup
  <1>2. ASSUME NEW r \in Reqs, CreateOrderGateway(r)
        PROVE  AccountInv'
    <2>1. CASE Finish(r)
      BY <1>2, <2>1, <1>t, AccountQuiet DEF CreateOrderGateway, Finish, Idle, TypeOK
    <2>2. ASSUME NEW o \in Orders,
                 req' = [req EXCEPT ![r].at = "create_insert", ![r].order = o]
          PROVE  AccountInv'
      <3>1. Untouched
        BY <1>2, <2>2, <1>t DEF CreateOrderGateway, TypeOK, Request
      <3> QED BY <1>2, <3>1, AccountQuiet DEF CreateOrderGateway
    <2> QED BY <1>2, <2>1, <2>2 DEF CreateOrderGateway
  <1>3. ASSUME NEW r \in Reqs, CreateOrderInsert(r)
        PROVE  AccountInv'
    <2> DEFINE o == req[r].order
    <2>1. o \in Orders /\ doc[o] = NoDoc
      BY <1>3, <1>t DEF CreateOrderInsert, Inv, ReqOK, RequestOK, DocOK, TypeOK
    <2>2. Untouched
      BY <1>3, <1>t DEF CreateOrderInsert, Finish, Idle, TypeOK
    <2>3. \A q \in Orders : doc'[q].refunds = doc[q].refunds
      BY <1>3, <2>1, <1>t DEF CreateOrderInsert, NoDoc, TypeOK
    <2> QED BY <1>3, <2>2, <2>3, AccountQuiet DEF CreateOrderInsert
  <1>4. ASSUME NEW r \in Reqs, NEW o \in Orders, NEW p \in Pays, VerifyPaymentRead(r, o, p)
        PROVE  AccountInv'
    <2>1. Untouched
      BY <1>4, <1>t, ZenonT(60) DEF VerifyPaymentRead, Idle, TypeOK
    <2> QED BY <1>4, <2>1, AccountQuiet DEF VerifyPaymentRead
  <1>5. ASSUME NEW r \in Reqs, VerifyPaymentFetch(r)
        PROVE  AccountInv'
    <2>1. Untouched
      BY <1>5, <1>t DEF VerifyPaymentFetch, TypeOK, Request
    <2> QED BY <1>5, <2>1, AccountQuiet DEF VerifyPaymentFetch
  <1>6. ASSUME NEW r \in Reqs, VerifyPaymentSave(r)
        PROVE  AccountInv'
    <2> DEFINE mine == [req[r].read EXCEPT !.status = req[r].status, !.payId = req[r].pay]
    <2>1. req[r].read \in Doc /\ req[r].status \in PaymentStatus /\ req[r].pay \in Pays \cup {None}
      BY <1>t DEF TypeOK, Request
    <2>2. mine \in Doc /\ mine.refunds = req[r].read.refunds
      BY <2>1 DEF Doc
    <2>3. Save(req[r].order, req[r].read, mine)
      BY <1>6 DEF VerifyPaymentSave
    <2>4. req[r].at \in SaveStep \ {"refund_save"}
      BY <1>6 DEF VerifyPaymentSave, SaveStep, PayStep
    <2> HIDE DEF mine
    <2> QED BY <1>6, <2>2, <2>3, <2>4, AccountSaved DEF VerifyPaymentSave
  <1>7. ASSUME NEW r \in Reqs, NEW o \in Orders, MarkPaymentFailedRead(r, o)
        PROVE  AccountInv'
    <2>1. Untouched
      BY <1>7, <1>t DEF MarkPaymentFailedRead, Idle, TypeOK
    <2> QED BY <1>7, <2>1, AccountQuiet DEF MarkPaymentFailedRead
  <1>8. ASSUME NEW r \in Reqs, MarkPaymentFailedSave(r)
        PROVE  AccountInv'
    <2> DEFINE mine == [req[r].read EXCEPT !.status = "failed"]
    <2>1. req[r].read \in Doc
      BY <1>t DEF TypeOK, Request
    <2>2. mine \in Doc /\ mine.refunds = req[r].read.refunds
      BY <2>1 DEF Doc, PaymentStatus
    <2>3. Save(req[r].order, req[r].read, mine) /\ req[r].at \in SaveStep \ {"refund_save"}
      BY <1>8 DEF MarkPaymentFailedSave, SaveStep
    <2> HIDE DEF mine
    <2> QED BY <1>8, <2>2, <2>3, AccountSaved DEF MarkPaymentFailedSave
  <1>9. ASSUME NEW r \in Reqs, NEW o \in Orders, NEW amt \in 1..Amount,
               RefundPaymentRead(r, o, amt)
        PROVE  AccountInv'
    <2>1. Untouched
      BY <1>9, <1>t DEF RefundPaymentRead, Idle, TypeOK
    <2> QED BY <1>9, <2>1, AccountQuiet DEF RefundPaymentRead
  <1>10. ASSUME NEW r \in Reqs, RefundPaymentGateway(r)
         PROVE  AccountInv'
    BY <1>10, GatewayAccount
  <1>11. ASSUME NEW r \in Reqs, RefundPaymentSave(r)
         PROVE  AccountInv'
    BY <1>11, RefundSaveAccount
  <1>12. ASSUME NEW r \in Reqs, NEW e \in WebhookEvent \X Pays, HandleWebhookRead(r, e)
         PROVE  AccountInv'
    <2>1. Untouched
      <3>1. CASE UNCHANGED req
        BY <3>1
      <3>2. ASSUME NEW o \in Orders,
                   req' = [req EXCEPT ![r] = [Idle EXCEPT !.at = "webhook_save",
                             !.order = o, !.pay = e[2], !.event = e[1], !.read = doc[o]]]
            PROVE  Untouched
        BY <1>12, <3>2, <1>t DEF HandleWebhookRead, Idle, TypeOK
      <3> QED BY <1>12, <3>1, <3>2 DEF HandleWebhookRead
    <2> QED BY <1>12, <2>1, AccountQuiet DEF HandleWebhookRead
  <1>13. ASSUME NEW r \in Reqs, HandleWebhookSave(r)
         PROVE  AccountInv'
    <2> DEFINE mine == [req[r].read EXCEPT !.events = @ \cup {req[r].event},
                          !.payId  = req[r].pay,
                          !.status = IF req[r].event \in {"captured", "failed"}
                                     THEN req[r].event ELSE @]
    <2>1. /\ req[r].read \in Doc /\ req[r].pay \in Pays \cup {None}
          /\ req[r].event \in WebhookEvent
      BY <1>13, <1>t DEF TypeOK, Request, HandleWebhookSave, Inv, ReqOK, RequestOK,
         SaveStep, PayStep
    <2>2. mine \in Doc /\ mine.refunds = req[r].read.refunds
      BY <2>1 DEF Doc, PaymentStatus, WebhookEvent
    <2>3. Save(req[r].order, req[r].read, mine)
      BY <1>13 DEF HandleWebhookSave
    <2>4. req[r].at \in SaveStep \ {"refund_save"}
      BY <1>13 DEF HandleWebhookSave, SaveStep, PayStep
    <2> HIDE DEF mine
    <2> QED BY <1>13, <2>2, <2>3, <2>4, AccountSaved DEF HandleWebhookSave
  <1>14. ASSUME NEW p \in Pays, NEW o \in Orders, ClientPays(p, o)
         PROVE  AccountInv'
    BY <1>14, AccountQuiet DEF ClientPays
  <1>15. ASSUME NEW p \in Pays, GatewayCaptures(p)
         PROVE  AccountInv'
    BY <1>15, AccountQuiet DEF GatewayCaptures
  <1>16. ASSUME NEW r \in Reqs, RequestAborts(r)
         PROVE  AccountInv'
    BY <1>16, AbortAccount
  <1>17. CASE UNCHANGED vars
    BY <1>17, AccountQuiet DEF vars
  <1> QED
    BY <1>1, <1>2, <1>3, <1>4, <1>5, <1>6, <1>7, <1>8, <1>9, <1>10, <1>11, <1>12, <1>13,
       <1>14, <1>15, <1>16, <1>17 DEF Next, HandlerStep

\* Every amount the gateway gave back is an entry of the document's refunds, about to
\* be saved by a request in flight, or of a refund whose request died before save()
\* (refundPayment): the documents and the gateway never disagree otherwise.
THEOREM RefundsKeepAccount == Spec => []RefundsAccounted
  <1>1. AccountInv => RefundsAccounted
    BY DEF AccountInv, RefundsAccounted, Owed
  <1> QED
    BY InitInv, StepInv, AccountInit, AccountStep, <1>1, PTL DEF Spec

-----------------------------------------------------------------------------
(* The ledger of refunds *)

\* What a request is about to save was given back, and is recorded nowhere yet.
LEMMA SavedIsOwed ==
    ASSUME Inv, AccountInv, NEW r \in Reqs, req[r].at = "refund_save"
    PROVE  req[r].amt <= paidBack[req[r].order] - doc[req[r].order].refunds - lost[req[r].order]
  <1>1. PICK o \in Orders : o = req[r].order
    BY DEF Inv, ReqOK, RequestOK, RefundStep, PayStep, SaveStep
  <1>2. PICK S : S = SavingRefund(o) \ {r}
    OBVIOUS
  <1>3. S \cup {r} = SavingRefund(o) /\ r \notin S
    BY <1>1, <1>2 DEF SavingRefund
  <1>4. PICK f : f = Amounts
    OBVIOUS
  <1>5. \A s \in S \cup {r} : f[s] = req[s].amt /\ f[s] \in Nat
    <2>1. S \cup {r} \subseteq Reqs
      BY <1>3 DEF SavingRefund
    <2>2. \A s \in Reqs : Amounts[s] = req[s].amt /\ Amounts[s] \in Nat
      BY <1>1, OwedTypes DEF AccountInv
    <2> QED BY <1>4, <2>1, <2>2
  <1>6. IsFiniteSet(S)
    BY <1>1, <1>2, FS_Subset DEF AccountInv
  <1>7. /\ SumFunctionOnSet(f, S) \in Nat
        /\ SumFunctionOnSet(f, S \cup {r}) = f[r] + SumFunctionOnSet(f, S)
    BY <1>3, <1>5, <1>6, SumAdd
  <1>8. Owed(o) = SumFunctionOnSet(f, S \cup {r})
    BY <1>3, <1>4 DEF Owed
  <1>9. Owed(o) \in Nat /\ req[r].amt \in Nat /\ req[r].amt <= Owed(o)
    BY <1>5, <1>7, <1>8
  <1>10. /\ paidBack[o] = doc[o].refunds + lost[o] + Owed(o)
         /\ doc[o].refunds \in Nat /\ lost[o] \in Nat
    BY <1>1, OwedTypes DEF AccountInv
  <1> QED BY <1>1, <1>9, <1>10

\* A step that leaves the money and the refund fields of the documents alone.
Unentered ==
    /\ \A o \in Orders : doc'[o].refunds = doc[o].refunds /\ doc'[o].refunded = doc[o].refunded
    /\ UNCHANGED <<paidBack, lost>>

LEMMA UnenteredStutters == Unentered => UNCHANGED Ledger!ledger
  BY DEF Unentered, Ledger!ledger

LEMMA SaveEntersNothing ==
    ASSUME Inv, NEW r \in Reqs, req[r].at \in SaveStep, NEW mine \in Doc,
           mine.refunds = req[r].read.refunds, mine.refunded = req[r].read.refunded,
           Save(req[r].order, req[r].read, mine), UNCHANGED <<paidBack, lost>>
    PROVE  Unentered
  <1>1. PICK o \in Orders : o = req[r].order
    BY DEF Inv, ReqOK, RequestOK
  <1>2. doc \in [Orders -> Doc] /\ req[r].read \in Doc /\ req[r].read.refunds \in Nat
    BY DEF Inv, TypeOK, Request, Doc
  <1>3. /\ \A q \in Orders \ {o} : doc'[q] = doc[q]
        /\ doc'[o].refunds = doc[o].refunds + (mine.refunds - req[r].read.refunds)
        /\ doc'[o].refunded = SavedField(doc[o].refunded, req[r].read.refunded, mine.refunded)
    BY <1>1, <1>2, SaveType
  <1> QED BY <1>1, <1>2, <1>3, RefundTypes DEF Unentered, SavedField

LEMMA GatewayGivesBack ==
    ASSUME Inv, RefundInv, NEW r \in Reqs, RefundPaymentGateway(r)
    PROVE  [Ledger!Next]_(Ledger!ledger)
  <1>1. /\ req[r].at = "refund_gateway" /\ attempt[req[r].pay].order = req[r].order
        /\ req[r].order \in Orders /\ req[r].amt > 0 /\ UNCHANGED doc
    BY RefundTypes DEF RefundPaymentGateway, Inv, ReqOK, RequestOK, PayStep, RefundStep, SaveStep,
       Refunding
  <1>2. PICK o \in Orders, a \in Nat : o = req[r].order /\ a = req[r].amt /\ a > 0
    BY <1>1 DEF Inv, TypeOK, Request
  <1>3. CASE UNCHANGED <<paidBack, lost>>
    BY <1>1, <1>3, UnenteredStutters DEF Unentered
  <1>4. CASE /\ paidBack[o] + a <= Amount /\ paidBack' = [paidBack EXCEPT ![o] = @ + a]
             /\ lost' \in {lost, [lost EXCEPT ![o] = @ + a]}
    <2>1. a \in 1..Amount
      BY <1>2, <1>4, RefundTypes, AmountAssumption
    <2>2. Ledger!GiveBack(o, a)
      BY <1>1, <1>4 DEF Ledger!GiveBack
    <2> QED BY <2>1, <2>2 DEF Ledger!Next
  <1> QED BY <1>1, <1>2, <1>3, <1>4 DEF RefundPaymentGateway

LEMMA RefundSaveEnters ==
    ASSUME Inv, RefundInv, RefundInv', Inv', FullStays, AccountInv,
           NEW r \in Reqs, RefundPaymentSave(r)
    PROVE  Ledger!Next
  <1> DEFINE o     == req[r].order
             a     == req[r].amt
             read  == req[r].read
             t     == read.refunded + a
             st    == IF t >= Amount THEN "refunded" ELSE "partially_refunded"
             mine  == [read EXCEPT !.refunds = @ + a, !.refunded = t, !.status = st]
  <1>1. /\ req[r].at = "refund_save" /\ o \in Orders /\ a \in Nat /\ a > 0
        /\ doc \in [Orders -> Doc] /\ read \in Doc
        /\ read.refunds \in Nat /\ read.refunded \in Nat /\ t \in Nat
    BY RefundTypes DEF RefundPaymentSave, Made, Refunding, RefundStep, Inv, TypeOK
  <1>2. mine \in Doc /\ mine.refunds = read.refunds + a /\ mine.refunded = t
    <2>1. st \in PaymentStatus /\ read.refunds + a \in Nat
      BY <1>1 DEF PaymentStatus
    <2> HIDE DEF st, t
    <2> QED BY <1>1, <2>1 DEF Doc
  <1>3. Save(o, read, mine) /\ UNCHANGED <<paidBack, lost>>
    BY DEF RefundPaymentSave, gateway
  <1>4. mine.refunds >= read.refunds
    BY <1>1, <1>2
  <1>5. /\ \A q \in Orders \ {o} : doc'[q] = doc[q]
        /\ doc'[o].refunded = SavedField(doc[o].refunded, read.refunded, mine.refunded)
        /\ doc'[o].refunds = doc[o].refunds + (mine.refunds - read.refunds)
    <2> HIDE DEF mine
    <2> QED BY <1>1, <1>2, <1>3, <1>4, SaveType
  <1> HIDE DEF mine
  <1>6. doc'[o].refunded = t /\ doc'[o].refunds = doc[o].refunds + a
    BY <1>1, <1>2, <1>5, RefundTypes DEF SavedField
  <1> HIDE DEF o, a, t, read
  <1>7. /\ t <= doc[o].refunds + a /\ t <= paidBack[o] /\ paidBack[o] <= Amount
        /\ a <= t /\ paidBack[o] \in Nat
    <2>1. doc'[o].refunded <= doc'[o].refunds /\ doc'[o].refunded <= paidBack'[o]
      BY <1>1 DEF RefundInv, TotalsOK
    <2>2. paidBack[o] <= Amount
      BY <1>1 DEF RefundInv, TotalsOK
    <2> QED BY <1>1, <1>3, <1>6, <2>1, <2>2, RefundTypes DEF t, a
  <1>8. a <= paidBack[o] - doc[o].refunds - lost[o]
    BY <1>1, SavedIsOwed DEF a, o
  <1>9. doc[o].refunded = Amount => t = Amount
    BY <1>1, <1>6 DEF FullStays
  <1>10. Ledger!Enter(o, a, t)
    <2>1. /\ [q \in Orders |-> doc'[q].refunds]
               = [[q \in Orders |-> doc[q].refunds] EXCEPT ![o] = @ + a]
          /\ [q \in Orders |-> doc'[q].refunded]
               = [[q \in Orders |-> doc[q].refunded] EXCEPT ![o] = t]
      BY <1>1, <1>5, <1>6
    <2> QED BY <1>1, <1>3, <1>7, <1>8, <1>9, <2>1 DEF Ledger!Enter, Ledger!Outstanding
  <1>11. a \in 1..Amount /\ t \in 1..Amount
    BY <1>1, <1>7, AmountAssumption
  <1>12. PICK q \in Orders, b \in 1..Amount, u \in 1..Amount : q = o /\ b = a /\ u = t
    BY <1>1, <1>11
  <1>13. Ledger!Enter(q, b, u)
    BY <1>10, <1>12 DEF Ledger!Enter, Ledger!Outstanding
  <1> QED BY <1>13 DEF Ledger!Next

LEMMA AbortWritesOff ==
    ASSUME Inv, RefundInv, AccountInv, NEW r \in Reqs, RequestAborts(r)
    PROVE  [Ledger!Next]_(Ledger!ledger)
  <1>1. /\ UNCHANGED <<doc, paidBack>>
        /\ lost' = [o \in Orders |->
                      IF req[r].at = "refund_save" /\ req[r].order = o
                      THEN lost[o] + req[r].amt ELSE lost[o]]
    BY DEF RequestAborts, gateway
  <1>2. lost \in [Orders -> Nat]
    BY DEF Inv, TypeOK
  <1>3. CASE req[r].at # "refund_save"
    <2>1. UNCHANGED lost
      BY <1>1, <1>2, <1>3
    <2> QED BY <1>1, <2>1, UnenteredStutters DEF Unentered
  <1>4. CASE req[r].at = "refund_save"
    <2>1. PICK o \in Orders, a \in Nat : o = req[r].order /\ a = req[r].amt /\ a > 0
      BY <1>4, RefundTypes DEF Made, Refunding, RefundStep
    <2>2. a <= paidBack[o] - doc[o].refunds - lost[o]
      BY <1>4, <2>1, SavedIsOwed
    <2>3. /\ paidBack[o] \in Nat /\ doc[o].refunds \in Nat /\ lost[o] \in Nat
          /\ paidBack[o] <= Amount
      BY <1>2, RefundTypes DEF RefundInv, TotalsOK
    <2>4. a \in 1..Amount
      BY <2>1, <2>2, <2>3, AmountAssumption
    <2>5. lost' = [lost EXCEPT ![o] = @ + a]
      BY <1>1, <1>2, <1>4, <2>1
    <2>6. Ledger!WriteOff(o, a)
      BY <1>1, <2>2, <2>5 DEF Ledger!WriteOff, Ledger!Outstanding
    <2> QED BY <2>4, <2>6 DEF Ledger!Next
  <1> QED BY <1>3, <1>4

LEMMA LedgerStep ==
    ASSUME Inv, Inv', RefundInv, RefundInv', AccountInv, FullStays, [Next]_vars
    PROVE  [Ledger!Next]_(Ledger!ledger)
  <1> USE DEF gateway
  <1>t. TypeOK
    BY DEF Inv
  <1>1. CASE UNCHANGED <<doc, paidBack, lost>>
    BY <1>1, UnenteredStutters DEF Unentered
  <1>2. ASSUME NEW r \in Reqs, CreateOrderInsert(r)
        PROVE  Unentered
    <2> DEFINE o == req[r].order
    <2>1. o \in Orders /\ doc[o] = NoDoc
      BY <1>2, <1>t DEF CreateOrderInsert, Inv, ReqOK, RequestOK, DocOK, TypeOK
    <2> QED BY <1>2, <2>1, <1>t DEF CreateOrderInsert, NoDoc, TypeOK, Unentered
  <1>3. ASSUME NEW r \in Reqs, VerifyPaymentSave(r)
        PROVE  Unentered
    <2> DEFINE mine == [req[r].read EXCEPT !.status = req[r].status, !.payId = req[r].pay]
    <2>1. req[r].read \in Doc /\ req[r].status \in PaymentStatus /\ req[r].pay \in Pays \cup {None}
      BY <1>t DEF TypeOK, Request
    <2>2. mine \in Doc /\ mine.refunds = req[r].read.refunds /\ mine.refunded = req[r].read.refunded
      BY <2>1 DEF Doc
    <2>3. Save(req[r].order, req[r].read, mine)
      BY <1>3 DEF VerifyPaymentSave
    <2>4. req[r].at \in SaveStep /\ UNCHANGED <<paidBack, lost>>
      BY <1>3 DEF VerifyPaymentSave, SaveStep, PayStep
    <2> HIDE DEF mine
    <2> QED BY <2>2, <2>3, <2>4, SaveEntersNothing
  <1>4. ASSUME NEW r \in Reqs, MarkPaymentFailedSave(r)
        PROVE  Unentered
    <2> DEFINE mine == [req[r].read EXCEPT !.status = "failed"]
    <2>1. req[r].read \in Doc
      BY <1>t DEF TypeOK, Request
    <2>2. mine \in Doc /\ mine.refunds = req[r].read.refunds /\ mine.refunded = req[r].read.refunded
      BY <2>1 DEF Doc, PaymentStatus
    <2>3. Save(req[r].order, req[r].read, mine)
      BY <1>4 DEF MarkPaymentFailedSave
    <2>4. req[r].at \in SaveStep /\ UNCHANGED <<paidBack, lost>>
      BY <1>4 DEF MarkPaymentFailedSave, SaveStep
    <2> HIDE DEF mine
    <2> QED BY <2>2, <2>3, <2>4, SaveEntersNothing
  <1>5. ASSUME NEW r \in Reqs, HandleWebhookSave(r)
        PROVE  Unentered
    <2> DEFINE mine == [req[r].read EXCEPT !.events = @ \cup {req[r].event},
                          !.payId  = req[r].pay,
                          !.status = IF req[r].event \in {"captured", "failed"}
                                     THEN req[r].event ELSE @]
    <2>1. /\ req[r].read \in Doc /\ req[r].pay \in Pays \cup {None}
          /\ req[r].event \in WebhookEvent
      BY <1>5, <1>t DEF TypeOK, Request, HandleWebhookSave, Inv, ReqOK, RequestOK,
         SaveStep, PayStep
    <2>2. mine \in Doc /\ mine.refunds = req[r].read.refunds /\ mine.refunded = req[r].read.refunded
      BY <2>1 DEF Doc, PaymentStatus, WebhookEvent
    <2>3. Save(req[r].order, req[r].read, mine)
      BY <1>5 DEF HandleWebhookSave
    <2>4. req[r].at \in SaveStep /\ UNCHANGED <<paidBack, lost>>
      BY <1>5 DEF HandleWebhookSave, SaveStep, PayStep
    <2> HIDE DEF mine
    <2> QED BY <2>2, <2>3, <2>4, SaveEntersNothing
  <1>6. ASSUME NEW r \in Reqs, HandlerStep(r)
        PROVE  [Ledger!Next]_(Ledger!ledger)
    <2>1. CASE CreateOrderGateway(r) \/ VerifyPaymentFetch(r)
      BY <1>1, <2>1 DEF CreateOrderGateway, VerifyPaymentFetch
    <2>2. CASE CreateOrderInsert(r) \/ VerifyPaymentSave(r) \/ MarkPaymentFailedSave(r)
               \/ HandleWebhookSave(r)
      BY <1>2, <1>3, <1>4, <1>5, <2>2, UnenteredStutters
    <2>3. CASE RefundPaymentGateway(r)
      BY <2>3, GatewayGivesBack
    <2>4. CASE RefundPaymentSave(r)
      BY <2>4, RefundSaveEnters
    <2> QED BY <1>6, <2>1, <2>2, <2>3, <2>4 DEF HandlerStep
  <1>7. ASSUME NEW r \in Reqs, RequestAborts(r)
        PROVE  [Ledger!Next]_(Ledger!ledger)
    BY <1>7, AbortWritesOff
  <1>8. CASE \/ \E r \in Reqs, k \in Keys : CreateOrderLookup(r, k)
             \/ \E r \in Reqs, o \in Orders, p \in Pays : VerifyPaymentRead(r, o, p)
             \/ \E r \in Reqs, o \in Orders : MarkPaymentFailedRead(r, o)
             \/ \E r \in Reqs, o \in Orders, amt \in 1..Amount : RefundPaymentRead(r, o, amt)
             \/ \E r \in Reqs, e \in WebhookEvent \X Pays : HandleWebhookRead(r, e)
             \/ \E p \in Pays, o \in Orders : ClientPays(p, o)
             \/ \E p \in Pays : GatewayCaptures(p)
    BY <1>1, <1>8 DEF CreateOrderLookup, VerifyPaymentRead, MarkPaymentFailedRead,
       RefundPaymentRead, HandleWebhookRead, ClientPays, GatewayCaptures
  <1>9. CASE UNCHANGED vars
    BY <1>1, <1>9 DEF vars
  <1> QED BY <1>6, <1>7, <1>8, <1>9 DEF Next

\* Payments implements RefundLedger: whatever requests race and whichever die, a refund is
\* within the price, is entered once and by nobody else, is not taken back, and a total
\* that says all was refunded stays (refundPayment).
THEOREM LedgerIsKept == Spec => KeepsLedger
  <1>1. Init => Ledger!Init
    BY DEF Init, NoDoc, Ledger!Init
  <1>2. Inv /\ Inv' /\ RefundInv /\ RefundInv' /\ AccountInv /\ FullStays /\ [Next]_vars
            => [Ledger!Next]_(Ledger!ledger)
    BY LedgerStep
  <1> QED
    BY InitInv, StepInv, InitRefund, RefundStepInv, AccountInit, AccountStep, <1>1, <1>2, PTL
       DEF Spec, KeepsLedger, Ledger!Spec

=============================================================================
