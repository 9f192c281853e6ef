------------------------------ MODULE Payments ------------------------------
(***************************************************************************)
(* Payment orders, verification, refunds and webhooks of                   *)
(* src/src/payments/payments.service.ts.                                   *)
(*                                                                         *)
(* Every handler awaits the database or Razorpay between reading a payment *)
(* document and saving it, so requests interleave at each await.  A        *)
(* request occupies a slot of Reqs and remembers the document as it read   *)
(* it; mongoose's save() writes only the fields the handler changed.       *)
(***************************************************************************)
EXTENDS Integers, Functions

CONSTANTS
    Orders,    \* Razorpay order ids; a payment document is named by its order
    Pays,      \* Razorpay payment ids: the attempts to pay an order
    Reqs,      \* slots for requests being served at the same time
    Keys,      \* (userId, idempotencyKey) pairs
    NullKeys,  \* the pairs of requests that send no idempotencyKey
    Amount,    \* the price of an order
    MaxAborts, \* bound: requests cut short by a crash or a database error
    None

ASSUME AmountAssumption == Amount \in Nat \ {0}
ASSUME AbortsAssumption == MaxAborts \in Nat
ASSUME KeysAssumption == NullKeys \subseteq Keys
ASSUME NoneAssumption == None \notin Orders \cup Pays \cup Keys

VARIABLES
    doc,       \* the payments collection
    req,       \* the requests in flight
    gwOrders,  \* gateway: the orders created
    attempt,   \* gateway: the payment attempts
    paidBack,  \* gateway: the amount refunded of each order
    pending,   \* gateway: webhook events not acknowledged yet
    replied,   \* history: the orders answered to createOrder with a key
    lost,      \* history: refunds whose request ended before it saved them
    aborts     \* requests cut short so far

gateway == <<gwOrders, attempt, paidBack, pending>>
vars == <<doc, req, gwOrders, attempt, paidBack, pending, replied, lost, aborts>>

-----------------------------------------------------------------------------
PaymentStatus == {"created", "authorized", "captured", "failed",
                  "partially_refunded", "refunded"}

WebhookEvent == {"authorized", "captured", "failed"}

\* key is None while the document does not exist; refunds is the total of the
\* entries pushed to the refunds array, refunded the refundedAmountInPaise field.
Doc == [key: Keys \cup {None}, status: PaymentStatus, payId: Pays \cup {None},
        refunded: Nat, refunds: Nat, events: SUBSET WebhookEvent]

NoDoc == [key |-> None, status |-> "created", payId |-> None,
          refunded |-> 0, refunds |-> 0, events |-> {}]

Attempt == [order: Orders \cup {None},
            state: {"none", "authorized", "captured", "failed"}]

Step == {"idle", "create_gateway", "create_insert", "verify_fetch", "verify_save",
         "fail_save", "refund_gateway", "refund_save", "webhook_save"}

Request == [at: Step, key: Keys \cup {None}, order: Orders \cup {None},
            pay: Pays \cup {None}, event: WebhookEvent \cup {None}, amt: Nat,
            status: PaymentStatus, read: Doc]

Idle == [at |-> "idle", key |-> None, order |-> None, pay |-> None,
         event |-> None, amt |-> 0, status |-> "created", read |-> NoDoc]

Stored(o) == doc[o].key # None

Finish(r) == req' = [req EXCEPT ![r] = Idle]

\* mongoose save(): a field assigned a value equal to the one read is not
\* written, a changed one is $set, and an array push is a $push.
\* Regression: save() writes every field, as a replacement of the document would.
SavedFieldWhole(now, read, mine) == mine

SavedField(now, read, mine) == IF mine = read THEN now ELSE mine

\* Regression: the refunds array is written as a whole.
SaveRefundsWhole(o, read, mine) ==
    doc' = [doc EXCEPT ![o] =
        [key      |-> @.key,
         status   |-> SavedField(@.status, read.status, mine.status),
         payId    |-> SavedField(@.payId, read.payId, mine.payId),
         refunded |-> SavedField(@.refunded, read.refunded, mine.refunded),
         refunds  |-> SavedField(@.refunds, read.refunds, mine.refunds),
         events   |-> @.events \cup mine.events]]

Save(o, read, mine) ==
    doc' = [doc EXCEPT ![o] =
        [key      |-> @.key,
         status   |-> SavedField(@.status, read.status, mine.status),
         payId    |-> SavedField(@.payId, read.payId, mine.payId),
         refunded |-> SavedField(@.refunded, read.refunded, mine.refunded),
         refunds  |-> @.refunds + (mine.refunds - read.refunds),
         events   |-> @.events \cup mine.events]]

Init ==
    /\ doc = [o \in Orders |-> NoDoc]
    /\ req = [r \in Reqs |-> Idle]
    /\ gwOrders = {}
    /\ attempt = [p \in Pays |-> [order |-> None, state |-> "none"]]
    /\ paidBack = [o \in Orders |-> 0]
    /\ pending = {}
    /\ replied = [k \in Keys |-> {}]
    /\ lost = [o \in Orders |-> 0]
    /\ aborts = 0

-----------------------------------------------------------------------------
(* createOrder *)

\* The lookup by idempotency key; a request without a key skips it.
CreateOrderLookup(r, k) ==
    /\ req[r].at = "idle"
    /\ \/ /\ k \notin NullKeys
          /\ \E o \in Orders :
                /\ doc[o].key = k
                /\ replied' = [replied EXCEPT ![k] = @ \cup {o}]
          /\ UNCHANGED req
       \/ /\ k \in NullKeys \/ \A o \in Orders : doc[o].key # k
          /\ req' = [req EXCEPT ![r] = [Idle EXCEPT !.at = "create_gateway", !.key = k]]
          /\ UNCHANGED replied
    /\ UNCHANGED <<doc, gateway, lost, aborts>>

\* Regression: the order is answered before its document is stored.
CreateOrderGatewayEarlyReply(r) ==
    /\ req[r].at = "create_gateway"
    /\ \E o \in Orders \ gwOrders :
         /\ gwOrders' = gwOrders \cup {o}
         /\ replied' = [replied EXCEPT ![req[r].key] = @ \cup {o}]
         /\ req' = [req EXCEPT ![r].at = "create_insert", ![r].order = o]
    /\ UNCHANGED <<doc, attempt, paidBack, pending, lost, aborts>>

\* gateway.orders.create gives a fresh order, or throws.
CreateOrderGateway(r) ==
    /\ req[r].at = "create_gateway"
    /\ \/ \E o \in Orders \ gwOrders :
            /\ gwOrders' = gwOrders \cup {o}
            /\ req' = [req EXCEPT ![r].at = "create_insert", ![r].order = o]
       \/ /\ Finish(r)
          /\ UNCHANGED gwOrders
    /\ UNCHANGED <<doc, attempt, paidBack, pending, replied, lost, aborts>>

\* Regression: no unique index.
CreateOrderInsertUnchecked(r) ==
    /\ req[r].at = "create_insert"
    /\ doc' = [doc EXCEPT ![req[r].order] = [NoDoc EXCEPT !.key = req[r].key]]
    /\ replied' = [replied EXCEPT ![req[r].key] = @ \cup {req[r].order}]
    /\ Finish(r)
    /\ UNCHANGED <<gateway, lost, aborts>>

\* paymentModel.create under the unique index on (userId, idempotencyKey).
\* userId is always there, so the sparse index also holds the documents
\* without a key, under the null key of their user.
CreateOrderInsert(r) ==
    /\ req[r].at = "create_insert"
    /\ LET k == req[r].key
           o == req[r].order
       IN  \/ /\ \A q \in Orders : doc[q].key # k
              /\ doc' = [doc EXCEPT ![o] = [NoDoc EXCEPT !.key = k]]
              /\ replied' = [replied EXCEPT ![k] = @ \cup {o}]
           \/ /\ \E q \in Orders : doc[q].key = k
              /\ UNCHANGED <<doc, replied>>
    /\ Finish(r)
    /\ UNCHANGED <<gateway, lost, aborts>>

-----------------------------------------------------------------------------
(* verifyPayment: the client reports the payment the checkout gave it *)

\* A wrong signature marks the payment failed, a right one is checked at the
\* gateway.  The gateway signs only payments that went through.
VerifyPaymentRead(r, o, p) ==
    /\ req[r].at = "idle"
    /\ Stored(o)
    /\ attempt[p].order = o
    /\ LET mine == [Idle EXCEPT !.order = o, !.pay = p, !.read = doc[o]]
       IN  \/ req' = [req EXCEPT ![r] =
                        [mine EXCEPT !.at = "verify_save", !.status = "failed"]]
           \/ /\ attempt[p].state \in {"authorized", "captured"}
              /\ req' = [req EXCEPT ![r] = [mine EXCEPT !.at = "verify_fetch"]]
    /\ UNCHANGED <<doc, gateway, replied, lost, aborts>>

\* Regression: a right signature counts as captured when the fetch throws.
VerifyPaymentFetchOptimistic(r) ==
    /\ req[r].at = "verify_fetch"
    /\ req' = [req EXCEPT ![r].at = "verify_save", ![r].status = "captured"]
    /\ UNCHANGED <<doc, gateway, replied, lost, aborts>>

\* payments.fetch; when it throws the payment counts as authorized.
VerifyPaymentFetch(r) ==
    /\ req[r].at = "verify_fetch"
    /\ \/ /\ attempt[req[r].pay].state = "captured"
          /\ req' = [req EXCEPT ![r].at = "verify_save", ![r].status = "captured"]
       \/ req' = [req EXCEPT ![r].at = "verify_save", ![r].status = "authorized"]
    /\ UNCHANGED <<doc, gateway, replied, lost, aborts>>

VerifyPaymentSave(r) ==
    /\ req[r].at = "verify_save"
    /\ Save(req[r].order, req[r].read,
            [req[r].read EXCEPT !.status = req[r].status, !.payId = req[r].pay])
    /\ Finish(r)
    /\ UNCHANGED <<gateway, replied, lost, aborts>>

-----------------------------------------------------------------------------
(* markPaymentFailed: no guard on the status the payment has *)

MarkPaymentFailedRead(r, o) ==
    /\ req[r].at = "idle"
    /\ Stored(o)
    /\ req' = [req EXCEPT ![r] =
                 [Idle EXCEPT !.at = "fail_save", !.order = o, !.read = doc[o]]]
    /\ UNCHANGED <<doc, gateway, replied, lost, aborts>>

MarkPaymentFailedSave(r) ==
    /\ req[r].at = "fail_save"
    /\ Save(req[r].order, req[r].read, [req[r].read EXCEPT !.status = "failed"])
    /\ Finish(r)
    /\ UNCHANGED <<gateway, replied, lost, aborts>>

-----------------------------------------------------------------------------
(* refundPayment *)

\* The checks on the document read: a payment reference, and an amount within
\* the balance (all of the balance when the client names no amount).
RefundPaymentRead(r, o, amt) ==
    /\ req[r].at = "idle"
    /\ Stored(o)
    /\ doc[o].payId # None
    /\ amt > 0
    /\ amt <= Amount - doc[o].refunded
    /\ req' = [req EXCEPT ![r] = [Idle EXCEPT !.at = "refund_gateway",
                 !.order = o, !.pay = doc[o].payId, !.amt = amt, !.read = doc[o]]]
    /\ UNCHANGED <<doc, gateway, replied, lost, aborts>>

\* Regression: a refund the gateway refuses is recorded all the same.
RefundPaymentGatewaySwallowed(r) ==
    /\ req[r].at = "refund_gateway"
    /\ LET o == attempt[req[r].pay].order
       IN  IF attempt[req[r].pay].state = "captured" /\ paidBack[o] + req[r].amt <= Amount
           THEN paidBack' = [paidBack EXCEPT ![o] = @ + req[r].amt]
           ELSE UNCHANGED paidBack
    /\ req' = [req EXCEPT ![r].at = "refund_save"]
    /\ UNCHANGED <<doc, gwOrders, attempt, pending, replied, lost, aborts>>

\* gateway.payments.refund.  The gateway refunds captured payments only, never
\* more than was paid.  The call throws when it refuses, and it may throw after
\* the refund was made (the answer is lost): the handler then saves nothing.
RefundPaymentGateway(r) ==
    /\ req[r].at = "refund_gateway"
    /\ LET o == attempt[req[r].pay].order
       IN  \/ /\ attempt[req[r].pay].state = "captured"
              /\ paidBack[o] + req[r].amt <= Amount
              /\ paidBack' = [paidBack EXCEPT ![o] = @ + req[r].amt]
              /\ \/ /\ req' = [req EXCEPT ![r].at = "refund_save"]
                    /\ UNCHANGED lost
                 \/ /\ Finish(r)
                    /\ lost' = [lost EXCEPT ![o] = @ + req[r].amt]
           \/ /\ Finish(r)
              /\ UNCHANGED <<paidBack, lost>>
    /\ UNCHANGED <<doc, gwOrders, attempt, pending, replied, aborts>>

\* Regression: the total counts down, and every refund closes the payment.
RefundPaymentSaveNegative(r) ==
    /\ req[r].at = "refund_save"
    /\ LET read == req[r].read
       IN  Save(req[r].order, read, [read EXCEPT !.refunds  = @ + req[r].amt,
                                                 !.refunded = @ - req[r].amt,
                                                 !.status   = "partially_refunded"])
    /\ Finish(r)
    /\ UNCHANGED <<gateway, replied, lost, aborts>>

RefundPaymentSaveClosing(r) ==
    /\ req[r].at = "refund_save"
    /\ LET read == req[r].read
       IN  Save(req[r].order, read, [read EXCEPT !.refunds  = @ + req[r].amt,
                                                 !.refunded = @ + req[r].amt,
                                                 !.status   = "refunded"])
    /\ Finish(r)
    /\ UNCHANGED <<gateway, replied, lost, aborts>>

\* The new total is computed from the document as it was read.
RefundPaymentSave(r) ==
    /\ req[r].at = "refund_save"
    /\ LET read  == req[r].read
           total == read.refunded + req[r].amt
       IN  Save(req[r].order, read,
                [read EXCEPT !.refunds  = @ + req[r].amt,
                             !.refunded = total,
                             !.status   = IF total >= Amount THEN "refunded"
                                                             ELSE "partially_refunded"])
    /\ Finish(r)
    /\ UNCHANGED <<gateway, replied, lost, aborts>>

-----------------------------------------------------------------------------
(* handleWebhook *)

\* Regression: the event is acknowledged before the document is saved.
HandleWebhookReadEarlyAck(r, e) ==
    /\ req[r].at = "idle"
    /\ e \in pending
    /\ pending' = pending \ {e}
    /\ \E o \in Orders :
         /\ o = attempt[e[2]].order
         /\ Stored(o) /\ e[1] \notin doc[o].events
         /\ req' = [req EXCEPT ![r] = [Idle EXCEPT !.at = "webhook_save",
                      !.order = o, !.pay = e[2], !.event = e[1], !.read = doc[o]]]
    /\ UNCHANGED <<doc, gwOrders, attempt, paidBack, replied, lost, aborts>>

\* The document is looked up by payment id or order id.  An event TYPE already
\* recorded on it is acknowledged as a duplicate, whichever payment it is about.
HandleWebhookRead(r, e) ==
    /\ req[r].at = "idle"
    /\ e \in pending
    /\ \E o \in Orders :
         /\ o = attempt[e[2]].order
         /\ \/ /\ ~Stored(o) \/ e[1] \in doc[o].events
               /\ pending' = pending \ {e}
               /\ UNCHANGED req
            \/ /\ Stored(o) /\ e[1] \notin doc[o].events
               /\ req' = [req EXCEPT ![r] = [Idle EXCEPT !.at = "webhook_save",
                            !.order = o, !.pay = e[2], !.event = e[1], !.read = doc[o]]]
               /\ UNCHANGED pending
    /\ UNCHANGED <<doc, gwOrders, attempt, paidBack, replied, lost, aborts>>

\* captured and failed set the status whatever it is now.  The acknowledgement
\* may be lost: the gateway then delivers the event again.
HandleWebhookSave(r) ==
    /\ req[r].at = "webhook_save"
    /\ LET read == req[r].read
       IN  Save(req[r].order, read,
                [read EXCEPT !.events = @ \cup {req[r].event},
                             !.payId  = req[r].pay,
                             !.status = IF req[r].event \in {"captured", "failed"}
                                        THEN req[r].event ELSE @])
    /\ pending' \in {pending, pending \ {<<req[r].event, req[r].pay>>}}
    /\ Finish(r)
    /\ UNCHANGED <<gwOrders, attempt, paidBack, replied, lost, aborts>>

-----------------------------------------------------------------------------
(* The client's checkout and the gateway *)

Payable(o) == /\ \E k \in Keys : o \in replied[k]
              /\ \A p \in Pays : attempt[p].order = o => attempt[p].state = "failed"

\* The client tries to pay an order it was given: the attempt goes through or fails.
ClientPays(p, o) ==
    /\ attempt[p].state = "none"
    /\ Payable(o)
    /\ \E result \in {"authorized", "failed"} :
         /\ attempt' = [attempt EXCEPT ![p] = [order |-> o, state |-> result]]
         /\ pending' = pending \cup {<<result, p>>}
    /\ UNCHANGED <<doc, req, gwOrders, paidBack, replied, lost, aborts>>

GatewayCaptures(p) ==
    /\ attempt[p].state = "authorized"
    /\ attempt' = [attempt EXCEPT ![p].state = "captured"]
    /\ pending' = pending \cup {<<"captured", p>>}
    /\ UNCHANGED <<doc, req, gwOrders, paidBack, replied, lost, aborts>>

\* A request ends at an await: the process dies or the database call rejects.
RequestAborts(r) ==
    /\ req[r].at # "idle"
    /\ aborts < MaxAborts
    /\ aborts' = aborts + 1
    /\ lost' = [o \in Orders |->
                  IF req[r].at = "refund_save" /\ req[r].order = o
                  THEN lost[o] + req[r].amt ELSE lost[o]]
    /\ Finish(r)
    /\ UNCHANGED <<doc, gateway, replied>>

-----------------------------------------------------------------------------
HandlerStep(r) ==
    \/ CreateOrderGateway(r)
    \/ CreateOrderInsert(r)
    \/ VerifyPaymentFetch(r)
    \/ VerifyPaymentSave(r)
    \/ MarkPaymentFailedSave(r)
    \/ RefundPaymentGateway(r)
    \/ RefundPaymentSave(r)
    \/ HandleWebhookSave(r)

Next ==
    \/ \E r \in Reqs : HandlerStep(r)
    \/ \E r \in Reqs, k \in Keys : CreateOrderLookup(r, k)
    \/ \E r \in Reqs, o \in Orders, p \in Pays : VerifyPaymentRead(r, o, p)
    \/ \E r \in Reqs, o \in Orders : MarkPaymentFailedRead(r, o)
    \/ \E r \in Reqs, o \in Orders, amt \in 1..Amount : RefundPaymentRead(r, o, amt)
    \/ \E r \in Reqs, e \in WebhookEvent \X Pays : HandleWebhookRead(r, e)
    \/ \E p \in Pays, o \in Orders : ClientPays(p, o)
    \/ \E p \in Pays : GatewayCaptures(p)
    \/ \E r \in Reqs : RequestAborts(r)

Spec == Init /\ [][Next]_vars

\* A request that is being served goes on; the gateway delivers an event until it
\* is acknowledged.  Delivery is strongly fair because the number of slots is a
\* bound of the model, not of the server: a slot is free again and again.
Fairness ==
    /\ \A r \in Reqs : WF_vars(HandlerStep(r))
    /\ \A e \in WebhookEvent \X Pays : SF_vars(\E r \in Reqs : HandleWebhookRead(r, e))

FairSpec == Spec /\ Fairness

-----------------------------------------------------------------------------
(* Properties *)

\* Every variable stays within its type.
TypeOK ==
    /\ doc \in [Orders -> Doc]
    /\ req \in [Reqs -> Request]
    /\ gwOrders \subseteq Orders
    /\ attempt \in [Pays -> Attempt]
    /\ paidBack \in [Orders -> Nat]
    /\ pending \subseteq WebhookEvent \X Pays
    /\ replied \in [Keys -> SUBSET Orders]
    /\ lost \in [Orders -> Nat]
    /\ aborts \in 0..MaxAborts

\* refundedAmountInPaise, which concurrent refunds overwrite with totals computed
\* from stale reads (refundPayment), never exceeds the refunds recorded, nor the
\* money the gateway gave back: a refund that is due is never refused for it.
RefundTotalSound ==
    \A o \in Orders : /\ doc[o].refunded <= doc[o].refunds
                      /\ doc[o].refunded <= paidBack[o]

SavingRefund(o) == {r \in Reqs : req[r].at = "refund_save" /\ req[r].order = o}
Amounts == [r \in Reqs |-> req[r].amt]

\* Every amount the gateway gave back is in the refunds array of the document,
\* about to be saved by a request in flight, or of a refund whose request ended
\* between the gateway's answer and save(); concurrent refunds lose no entry.
RefundsAccounted ==
    \A o \in Orders :
        paidBack[o] = doc[o].refunds + lost[o]
                      + SumFunctionOnSet(Amounts, SavingRefund(o))

\* A payment with status refunded was given back in full, and its total says so,
\* although the status is derived from a stale read of the total (refundPayment).
RefundedIsComplete ==
    \A o \in Orders :
        doc[o].status = "refunded" => /\ doc[o].refunded = Amount
                                      /\ paidBack[o] = Amount

\* Once the total says that all was refunded, no request that read the document
\* earlier takes the total back, whatever it saves later.
FullyRefundedStays ==
    [][\A o \in Orders : doc[o].refunded = Amount => doc'[o].refunded = Amount]_vars

\* Requests with one idempotency key are all answered the same order, however they
\* interleave around the lookup, the gateway and the insert (createOrder).
OneOrderPerKey ==
    \A k \in Keys \ NullKeys : \A o, q \in replied[k] : o = q

\* An order the client can pay has its document: no webhook or verification about
\* a real payment is dropped because its order is unknown (createOrder).
PayableOrderHasRecord ==
    \A p \in Pays : attempt[p].state # "none" => Stored(attempt[p].order)

\* Whatever requests for orders race, an idempotency key has one order and an order
\* the client can pay has its record (createOrder).
OrdersRecorded == OneOrderPerKey /\ PayableOrderHasRecord

\* A status that claims money was received or refunded is backed by a payment the
\* gateway captured for that very order, whatever verification, webhook and failure
\* reports raced for the document.
CapturedIsGenuine ==
    \A o \in Orders :
        doc[o].status \in {"captured", "partially_refunded", "refunded"} =>
            \E p \in Pays : attempt[p] = [order |-> o, state |-> "captured"]

\* A captured payment is eventually recorded by its webhook, also when requests
\* die between the read and the save (handleWebhook).
CaptureRecorded ==
    \A p \in Pays, o \in Orders :
        attempt[p] = [order |-> o, state |-> "captured"] ~> "captured" \in doc[o].events

\* Payments keeps the ledger of refunds: whatever refunds, verifications and webhooks race
\* and whichever requests die, money goes back within the price, a refund is entered once,
\* no entry is taken back, and a total that says all was refunded stays (refundPayment).
Ledger == INSTANCE RefundLedger WITH
    Accounts <- Orders,
    Price    <- Amount,
    given    <- paidBack,
    entered  <- [o \in Orders |-> doc[o].refunds],
    written  <- lost,
    total    <- [o \in Orders |-> doc[o].refunded]

KeepsLedger == Ledger!Spec
=============================================================================
