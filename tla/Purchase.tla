------------------------------ MODULE Purchase ------------------------------
(***************************************************************************)
(* Paying for one order: the charge (CreatePayment), the provider's        *)
(* webhook (HandleCallback, markPaid, MarkPaid) and, for a compute order,  *)
(* the compute credit that payment grants and a refund revokes.  Orders    *)
(* share no row, so one order says it all.                                 *)
(*                                                                         *)
(* Handlers are HTTP requests, one at a time each; every statement and     *)
(* every provider call is a step.  What happens to the money of a paid     *)
(* order is Settlement's subject: here a refund is one step.               *)
(***************************************************************************)
EXTENDS Naturals

CONSTANTS
  Handlers,    \* HTTP handlers
  Txns,        \* charges the provider may mint (a bound on CreatePayment calls)
  NoTxn        \* no charge

ASSUME TxnAssumption == NoTxn \notin Txns

VARIABLES
  product,     \* orders.product_type
  order,       \* orders.status
  payment,     \* the payments row: its charge and status
  minted,      \* charges the provider has created
  shown,       \* charges whose pay URL went to the buyer
  captured,    \* charges the buyer has paid
  acked,       \* charges whose webhook was answered with success
  credit,      \* compute_entitlements: status and jobs_used
  pc,          \* the statement each handler executes next
  txn          \* the charge each handler works with

money == <<minted, shown, captured, acked>>
procs == <<pc, txn>>
vars  == <<product, order, payment, money, credit, procs>>

OrderStatuses == {"created", "paid", "delivered", "confirmed", "settled", "disputed", "refunded"}
Statements == {"idle", "PaymentForOrder", "ProviderCreate", "InsertPayment", "ReadBack",
               "MarkPaidByChannelTxn", "MarkPaid", "GrantForOrder", "AutoDeliver",
               "Refund", "ToRefunded", "RevokeByOrder"}

Init == /\ product \in {"download", "compute"}
        /\ order = "created"
        /\ payment = [txn |-> NoTxn, st |-> "none"]
        /\ minted = {} /\ shown = {} /\ captured = {} /\ acked = {}
        /\ credit = [st |-> "none", used |-> 0]
        /\ pc = [h \in Handlers |-> "idle"]
        /\ txn = [h \in Handlers |-> NoTxn]

At(h, l)      == pc[h] = l
Goto(h, l)    == pc' = [pc EXCEPT ![h] = l] /\ UNCHANGED txn
Hold(h, l, x) == pc' = [pc EXCEPT ![h] = l] /\ txn' = [txn EXCEPT ![h] = x]

\* UPDATE orders SET status=to WHERE id=.. AND status=from
Transition(from, to) == order = from /\ order' = to

-----------------------------------------------------------------------------
(***************************************************************************)
(* CreatePayment.                                                          *)
(***************************************************************************)
CreatePayment(h) == /\ At(h, "idle")
                    /\ order = "created"
                    /\ Goto(h, "PaymentForOrder")
                    /\ UNCHANGED <<product, order, payment, money, credit>>

Show(h, x) == shown' = shown \cup {x} /\ Hold(h, "idle", NoTxn)

PaymentForOrder(h) ==
  /\ At(h, "PaymentForOrder")
  /\ \/ payment.st = "none"    /\ Goto(h, "ProviderCreate") /\ UNCHANGED shown
     \/ payment.st = "created" /\ Show(h, payment.txn)
     \/ payment.st \notin {"none", "created"} /\ Goto(h, "idle") /\ UNCHANGED shown
  /\ UNCHANGED <<product, order, payment, minted, captured, acked, credit>>

\* Stripe mints a new PaymentIntent on every call.
ProviderCreate(h) == /\ At(h, "ProviderCreate")
                     /\ \E x \in Txns \ minted : minted' = minted \cup {x} /\ Hold(h, "InsertPayment", x)
                     /\ UNCHANGED <<product, order, payment, shown, captured, acked, credit>>

\* INSERT .. ON CONFLICT (order_id) DO NOTHING
InsertPayment(h) == /\ At(h, "InsertPayment")
                    /\ payment' = IF payment.st = "none" THEN [txn |-> txn[h], st |-> "created"] ELSE payment
                    /\ Goto(h, "ReadBack")
                    /\ UNCHANGED <<product, order, money, credit>>

\* Mutant: the caller gets the charge it minted.
ReadBackOwn(h) == /\ At(h, "ReadBack")
                  /\ Show(h, txn[h])
                  /\ UNCHANGED <<product, order, payment, minted, captured, acked, credit>>

ReadBack(h) == /\ At(h, "ReadBack")
               /\ Show(h, payment.txn)
               /\ UNCHANGED <<product, order, payment, minted, captured, acked, credit>>

\* The buyer pays a charge whose URL they have.
Pay(x) == /\ x \in shown \ captured
          /\ captured' = captured \cup {x}
          /\ UNCHANGED <<product, order, payment, minted, shown, acked, credit, procs>>

-----------------------------------------------------------------------------
(***************************************************************************)
(* The webhook of a succeeded charge.  The provider sends it until it is   *)
(* answered with success, and may send it again after that.                *)
(***************************************************************************)
\* Mutant: the webhook is answered before it is processed.
HandleCallbackAckFirst(h, x) == /\ At(h, "idle")
                                /\ x \in captured
                                /\ acked' = acked \cup {x}
                                /\ Hold(h, "MarkPaidByChannelTxn", x)
                                /\ UNCHANGED <<product, order, payment, minted, shown, captured, credit>>

HandleCallback(h, x) == /\ At(h, "idle")
                        /\ x \in captured
                        /\ Hold(h, "MarkPaidByChannelTxn", x)
                        /\ UNCHANGED <<product, order, payment, money, credit>>

Ack(h) == acked' = acked \cup {txn[h]} /\ Hold(h, "idle", NoTxn)

MarkPaidByChannelTxn(h) ==
  /\ At(h, "MarkPaidByChannelTxn")
  /\ \/ /\ payment.txn = txn[h] /\ payment.st = "created"
        /\ payment' = [payment EXCEPT !.st = "paid"]
        /\ Goto(h, "MarkPaid") /\ UNCHANGED acked
     \/ /\ payment.txn = txn[h] /\ payment.st # "created"      \* already handled
        /\ Ack(h) /\ UNCHANGED payment
     \/ /\ payment.txn # txn[h]                            \* unknown channel_txn_id
        /\ Hold(h, "idle", NoTxn) /\ UNCHANGED <<payment, acked>>
  /\ UNCHANGED <<product, order, minted, shown, captured, credit>>

\* A download order is paid; a compute order goes on to its grant.
MarkPaid(h) ==
  /\ At(h, "MarkPaid")
  /\ \/ /\ Transition("created", "paid")
        /\ IF product = "compute" THEN Goto(h, "GrantForOrder") /\ UNCHANGED acked ELSE Ack(h)
     \/ order # "created" /\ Hold(h, "idle", NoTxn) /\ UNCHANGED <<order, acked>>
  /\ UNCHANGED <<product, payment, minted, shown, captured, credit>>

\* One credit per order: a second insert is refused by the unique index.
GrantForOrder(h) ==
  /\ At(h, "GrantForOrder")
  /\ credit' = IF credit.st = "none" THEN [st |-> "active", used |-> 0] ELSE credit
  /\ Goto(h, "AutoDeliver")
  /\ UNCHANGED <<product, order, payment, money>>

\* A failed transition is logged, the webhook succeeds.
AutoDeliver(h) == /\ At(h, "AutoDeliver")
                  /\ order' = IF order = "paid" THEN "delivered" ELSE order
                  /\ Ack(h)
                  /\ UNCHANGED <<product, payment, minted, shown, captured, credit>>

-----------------------------------------------------------------------------
(***************************************************************************)
(* The rest of the order's life, as far as the credit depends on it.       *)
(***************************************************************************)
Elsewhere == /\ \/ product = "download" /\ Transition("paid", "delivered")
                \/ Transition("delivered", "confirmed")
                \/ Transition("confirmed", "settled")
                \/ order \in {"paid", "delivered", "confirmed"} /\ order' = "disputed"
                \/ Transition("disputed", "confirmed")
             /\ UNCHANGED <<product, payment, money, credit, procs>>

ResolveRefund(h) == /\ At(h, "idle")
                    /\ order = "disputed"
                    /\ Goto(h, "Refund")
                    /\ UNCHANGED <<product, order, payment, money, credit>>

Refund(h) == /\ At(h, "Refund")
             /\ payment' = [payment EXCEPT !.st = "refunded"]
             /\ Goto(h, "ToRefunded")
             /\ UNCHANGED <<product, order, money, credit>>

ToRefunded(h) == /\ At(h, "ToRefunded")
                 /\ \/ Transition("disputed", "refunded") /\ Goto(h, "RevokeByOrder")
                    \/ order # "disputed" /\ Goto(h, "idle") /\ UNCHANGED order
                 /\ UNCHANGED <<product, payment, money, credit>>

RevokeByOrder(h) == /\ At(h, "RevokeByOrder")
                    /\ credit' = IF credit.st \in {"active", "exhausted"}
                                 THEN [credit EXCEPT !.st = "revoked"] ELSE credit
                    /\ Goto(h, "idle")
                    /\ UNCHANGED <<product, order, payment, money>>

\* A job takes the order's one credit, and gives it back when it fails.
SpendQuota == /\ credit.st = "active" /\ credit.used < 1
              /\ credit' = [st |-> "exhausted", used |-> 1]
              /\ UNCHANGED <<product, order, payment, money, procs>>

\* Mutant: the credit comes back whatever became of the entitlement.
RefundQuotaAlways == /\ credit.used = 1
                     /\ credit' = [st |-> "active", used |-> 0]
                     /\ UNCHANGED <<product, order, payment, money, procs>>

RefundQuota == /\ credit.used = 1
               /\ credit.st \in {"active", "exhausted"}
               /\ credit' = [st |-> "active", used |-> 0]
               /\ UNCHANGED <<product, order, payment, money, procs>>

-----------------------------------------------------------------------------
HandlerStep(h) == \/ PaymentForOrder(h) \/ ProviderCreate(h) \/ InsertPayment(h) \/ ReadBack(h)
                  \/ MarkPaidByChannelTxn(h) \/ MarkPaid(h) \/ GrantForOrder(h) \/ AutoDeliver(h)
                  \/ Refund(h) \/ ToRefunded(h) \/ RevokeByOrder(h)

\* The process dies, the request is cancelled or a call fails: the webhook is
\* not answered with success.
Crash(h) == /\ pc[h] # "idle"
            /\ Hold(h, "idle", NoTxn)
            /\ UNCHANGED <<product, order, payment, money, credit>>

\* A failed grant or delivery is logged and the webhook answered with success.
Hiccup(h) == /\ pc[h] \in {"GrantForOrder", "AutoDeliver"}
             /\ Ack(h)
             /\ UNCHANGED <<product, order, payment, minted, shown, captured, credit>>

Work == \/ \E h \in Handlers : CreatePayment(h) \/ ResolveRefund(h) \/ HandlerStep(h)
        \/ \E h \in Handlers, x \in Txns : HandleCallback(h, x)
        \/ \E x \in Txns : Pay(x)
        \/ Elsewhere \/ SpendQuota \/ RefundQuota

Fault == \E h \in Handlers : Crash(h) \/ Hiccup(h)
Next  == Work \/ Fault

Spec == Init /\ [][Next]_vars

(***************************************************************************)
(* Handlers that run keep running, the provider keeps sending a webhook    *)
(* that was not acknowledged, and faults cease at some point.              *)
(***************************************************************************)
Notify(h) == \E x \in Txns \ acked : HandleCallback(h, x)
FairSpec == /\ Spec
            /\ \A h \in Handlers : WF_vars(HandlerStep(h)) /\ SF_vars(Notify(h))
            /\ <>[][Work]_vars

-----------------------------------------------------------------------------
(***************************************************************************)
(* Properties.                                                             *)
(***************************************************************************)
\* Every variable has its type.
TypeOK ==
  /\ product \in {"download", "compute"}
  /\ order \in OrderStatuses
  /\ payment \in [txn : Txns \cup {NoTxn}, st : {"none", "created", "paid", "refunded"}]
  /\ minted \subseteq Txns /\ shown \subseteq Txns /\ captured \subseteq Txns
  /\ acked \subseteq Txns
  /\ credit \in [st : {"none", "active", "exhausted", "revoked"}, used : {0, 1}]
  /\ pc \in [Handlers -> Statements]
  /\ txn \in [Handlers -> Txns \cup {NoTxn}]

\* However many requests race to create the payment, the buyer only ever sees and
\* pays the one charge the payments row carries: every webhook finds its row and
\* nobody pays twice.
OneCharge == shown \cup captured \subseteq {payment.txn}

\* Nothing is handed out before the money came in: a payment is booked as paid
\* and an order leaves created only for a captured charge, and the credit is
\* granted only for a paid compute order.
CreditNeedsMoney ==
  /\ payment.st \in {"paid", "refunded"} => payment.txn \in captured
  /\ order # "created"               => payment.st \in {"paid", "refunded"}
  /\ credit.st # "none"              => order # "created" /\ product = "compute"
  /\ order = "refunded"              => payment.st = "refunded"

\* A revoked credit is never usable again, whichever job ends after the refund.
RevokedStays == [][credit.st = "revoked" => credit'.st = "revoked"]_vars

\* A charge the buyer paid is booked, however often its webhook is cut off.
ChargeBooked == captured # {} ~> payment.st \in {"paid", "refunded"}

-----------------------------------------------------------------------------
(***************************************************************************)
(* The inductive invariant behind them.                                    *)
(***************************************************************************)
\* The payments row exists before anything of it is shown, and only what was
\* shown is paid.
RowInv == /\ payment.st = "none" => payment.txn = NoTxn /\ shown = {}
          /\ payment.st # "none" => payment.txn \in Txns
          /\ captured \subseteq shown

\* What a handler has established by the time it is at a statement.
HandlerInv ==
  \A h \in Handlers :
    /\ pc[h] = "InsertPayment"        => txn[h] \in Txns
    /\ pc[h] = "ReadBack"             => payment.st # "none"
    /\ pc[h] = "MarkPaidByChannelTxn" => txn[h] \in captured
    /\ pc[h] = "MarkPaid"             => payment.st \in {"paid", "refunded"} /\ txn[h] \in Txns
    /\ pc[h] \in {"GrantForOrder", "AutoDeliver"} =>
         order # "created" /\ product = "compute" /\ txn[h] \in Txns
    /\ pc[h] = "Refund"               => order # "created"
    /\ pc[h] = "ToRefunded"           => payment.st = "refunded"

\* The inductive invariant.
IInv == TypeOK /\ OneCharge /\ CreditNeedsMoney /\ RowInv /\ HandlerInv
=============================================================================
