------------------------------- MODULE Escrow -------------------------------
(***************************************************************************)
(* What the marketplace promises about the money of a paid order: it sits  *)
(* in escrow at the provider until the order is confirmed, when the        *)
(* seller's share may leave, or disputed, when it may go back to the       *)
(* buyer.  The order's status moves along the state machine of the order   *)
(* module.  Settlement.tla shows which parts of the promise the code       *)
(* keeps: it implements this specification.                                *)
(*                                                                         *)
(* raced holds the orders whose promise was lost: the decision to dispute  *)
(* or to release the order was taken while a payout or a refund of it was  *)
(* still unfinished.  A raced order keeps its status machine and loses     *)
(* every guarantee about the money.                                        *)
(***************************************************************************)
CONSTANT Orders

VARIABLES
  status,   \* status[o]: the order's row in table orders
  holder,   \* holder[o]: who has the money of o
  raced     \* the orders whose promise about the money is void

vars == <<status, holder, raced>>

Statuses == {"paid", "delivered", "confirmed", "settled", "disputed", "refunded"}
Holders  == {"escrow", "seller", "buyer", "both"}

Init == /\ status = [o \in Orders |-> "paid"]
        /\ holder = [o \in Orders |-> "escrow"]
        /\ raced  = {}

(***************************************************************************)
(* The state machine.  A transition is atomic: UPDATE .. WHERE status=from.*)
(***************************************************************************)
Transition(o, from, to) ==
  /\ status[o] = from
  /\ status' = [status EXCEPT ![o] = to]

\* Disputing and releasing are the two decisions that may void the promise.
MayRace(o) == raced' \in {raced, raced \cup {o}}

Deliver(o) == Transition(o, "paid", "delivered")      /\ UNCHANGED <<holder, raced>>
Confirm(o) == Transition(o, "delivered", "confirmed") /\ UNCHANGED <<holder, raced>>

Settle(o)  == /\ Transition(o, "confirmed", "settled")
              /\ o \in raced \/ holder[o] = "seller"
              /\ UNCHANGED <<holder, raced>>

Dispute(o) == /\ \E from \in {"paid", "delivered", "confirmed"} : Transition(o, from, "disputed")
              /\ MayRace(o)
              /\ UNCHANGED holder

Release(o) == /\ Transition(o, "disputed", "confirmed")
              /\ MayRace(o)
              /\ o \in raced' \/ holder[o] \in {"escrow", "seller"}
              /\ UNCHANGED holder

Refund(o)  == /\ Transition(o, "disputed", "refunded")
              /\ o \in raced \/ holder[o] = "buyer"
              /\ UNCHANGED <<holder, raced>>

(***************************************************************************)
(* Money.                                                                  *)
(***************************************************************************)
Move(o, from, to) == /\ holder[o] = from
                     /\ holder' = [holder EXCEPT ![o] = to]
                     /\ UNCHANGED <<status, raced>>

PayOut(o)   == \/ Move(o, "escrow", "seller") /\ (o \in raced \/ status[o] = "confirmed")
               \/ Move(o, "buyer", "both")    /\ o \in raced

ClawBack(o) == \/ Move(o, "seller", "escrow") /\ (o \in raced \/ status[o] = "disputed")
               \/ Move(o, "both", "buyer")

Return(o)   == \/ Move(o, "escrow", "buyer")  /\ (o \in raced \/ status[o] = "disputed")
               \/ Move(o, "seller", "both")   /\ o \in raced

Next == \E o \in Orders : \/ Deliver(o) \/ Confirm(o) \/ Settle(o)
                          \/ Dispute(o) \/ Release(o) \/ Refund(o)
                          \/ PayOut(o) \/ ClawBack(o) \/ Return(o)

Spec == Init /\ [][Next]_vars
=============================================================================
