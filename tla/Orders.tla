-------------------------------- MODULE Orders --------------------------------
(***************************************************************************)
(* Placing orders and reading the books: a buyer's real-name standing      *)
(* (auth/kyc.go), the download and compute purchases of a dataset whose    *)
(* seller edits the listing and the compute offer meanwhile                *)
(* (order/service.go, compute/service.go), the rating of a settled order,  *)
(* and the reports the seller and the operators read (order/repo.go).      *)
(*                                                                         *)
(* Each statement of a purchase is a step: the standing, the listing or    *)
(* the offer are read before the row is inserted.  What happens to an      *)
(* order afterwards is Settlement and Purchase; here it is its status.     *)
(***************************************************************************)
EXTENDS Integers, Sequences, FiniteSetsExt

CONSTANTS
    Users, Lister,       \* buyers, and the user who sells the dataset
    Purchases,           \* requests under way
    Prices,              \* cents asked, over time
    LastVersion,         \* bound on the dataset's versions
    MaxOrders,           \* bound on orders
    MaxEdits,            \* bound on edits of the listing, the offer and the standing
    LastDay,             \* bound on days
    DefaultDays, MaxDays \* the reports' window: 30, and at most 90

ASSUME OrderConstants ==
    /\ Lister \in Users /\ Prices \subseteq Nat
    /\ \E top \in Prices : \A price \in Prices : price <= top
    /\ {LastVersion, MaxDays} \subseteq Nat \ {0} /\ {MaxOrders, MaxEdits, LastDay} \subseteq Nat
    /\ DefaultDays \in 1 .. MaxDays

VARIABLES
    standing,   \* users.kyc_status
    listing,    \* the datasets row: [published, version, price]
    computeOffer, \* the offer's row: [enabled, price]
    orders,     \* the orders table, by insertion
    rated,      \* orders with a review
    purchase,    \* how far each purchase has come
    today,
    edits,
    advertised, \* history: the versions and prices published so far
    offered,    \* history: the prices enabled offers had so far
    trusted     \* history: the users verified so far

orderVars == <<standing, listing, computeOffer, orders, rated, purchase, today, edits,
               advertised, offered, trusted>>
shop      == <<standing, listing, computeOffer, edits, advertised, offered, trusted>>

Standings     == {"none", "pending", "verified", "rejected"}
Listings      == [published : BOOLEAN, version : 1 .. LastVersion, price : Prices]
ComputeOffers == [enabled : BOOLEAN, price : Prices]
Products      == {"download", "compute"}
Active        == {"created", "paid", "delivered", "confirmed", "disputed"}
Closed         == {"settled", "refunded", "cancelled"}

\* Ten per cent in basis points, divided before it is multiplied.
Bps == 1000
platformFee(amount) == (amount \div 10000) * Bps + ((amount % 10000) * Bps) \div 10000

NoVersion == 0
OrderRow == [buyer : Users, product : Products, version : 0 .. LastVersion, amount : Prices,
             fee : Nat, seller : Nat, status : Active \cup Closed, day : 0 .. LastDay]

Idle == [at |-> "idle"]
Requests == {Idle}
    \cup [at : {"listing"}, by : Users]
    \cup [at : {"standing"}, by : Users, amount : Prices]
    \cup [at : {"insert"}, by : Users, product : Products, version : 0 .. LastVersion, amount : Prices]

OrdersInit ==
    /\ standing = [u \in Users |-> "verified"] /\ trusted = Users
    /\ listing = [published |-> TRUE, version |-> 1, price |-> Max(Prices)]
    /\ computeOffer = [enabled |-> TRUE, price |-> Max(Prices)]
    /\ advertised = {<<1, Max(Prices)>>} /\ offered = {Max(Prices)}
    /\ orders = <<>> /\ rated = {} /\ today = 0 /\ edits = 0
    /\ purchase = [k \in Purchases |-> Idle]

-----------------------------------------------------------------------------
(***************************************************************************)
(* The shop changes under the buyer.                                       *)
(***************************************************************************)
Edit == edits < MaxEdits /\ edits' = edits + 1 /\ UNCHANGED <<orders, rated, purchase, today>>

\* The seller, the operators and the quality jobs move the dataset: its status, its
\* price, its current version, which only grows.
EditListing(new) ==
    /\ Edit /\ new # listing /\ new.version >= listing.version
    /\ listing' = new
    /\ advertised' = IF new.published THEN advertised \cup {<<new.version, new.price>>} ELSE advertised
    /\ UNCHANGED <<standing, computeOffer, offered, trusted>>

UpsertOffer(new) ==
    /\ Edit /\ new # computeOffer
    /\ computeOffer' = new
    /\ offered' = IF new.enabled THEN offered \cup {new.price} ELSE offered
    /\ UNCHANGED <<standing, listing, advertised, trusted>>

\* A new submission, even of a verified user, is pending until its verifier answers.
Resubmit(u) ==
    /\ Edit
    /\ standing' = [standing EXCEPT ![u] = "pending"]
    /\ UNCHANGED <<listing, computeOffer, advertised, offered, trusted>>

\* The verifier or an operator decides, whatever the record's status was.
DecideStanding(u, approve) ==
    /\ standing[u] # "none" /\ Edit
    /\ standing' = [standing EXCEPT ![u] = IF approve THEN "verified" ELSE "rejected"]
    /\ trusted' = IF approve THEN trusted \cup {u} ELSE trusted
    /\ UNCHANGED <<listing, computeOffer, advertised, offered>>

-----------------------------------------------------------------------------
(***************************************************************************)
(* Purchases.                                                              *)
(***************************************************************************)
Stage(k, to) == purchase' = [purchase EXCEPT ![k] = to]
Proceed(k, to) == Stage(k, to) /\ UNCHANGED <<shop, orders, rated, today>>

\* Create reads the standing, then the listing's row at once.
CreateStart(k, u) ==
    /\ purchase[k] = Idle /\ standing[u] = "verified"
    /\ Proceed(k, [at |-> "listing", by |-> u])

\* Mutant: the row is taken whether it is published or not.
ForPurchaseAny(k) ==
    /\ purchase[k].at = "listing"
    /\ Proceed(k, IF purchase[k].by # Lister
                  THEN [at |-> "insert", by |-> purchase[k].by, product |-> "download",
                        version |-> listing.version, amount |-> listing.price]
                  ELSE Idle)

ForPurchase(k) ==
    /\ purchase[k].at = "listing"
    /\ Proceed(k, IF listing.published /\ purchase[k].by # Lister
                  THEN [at |-> "insert", by |-> purchase[k].by, product |-> "download",
                        version |-> listing.version, amount |-> listing.price]
                  ELSE Idle)

\* PurchaseViaOrder reads the offer; CreateCompute then reads the standing.
PurchaseViaOrder(k, u) ==
    /\ purchase[k] = Idle /\ computeOffer.enabled /\ u # Lister
    /\ Proceed(k, [at |-> "standing", by |-> u, amount |-> computeOffer.price])

CreateCompute(k) ==
    /\ purchase[k].at = "standing"
    /\ Proceed(k, IF standing[purchase[k].by] = "verified"
                  THEN [at |-> "insert", by |-> purchase[k].by, product |-> "compute",
                        version |-> NoVersion, amount |-> purchase[k].amount]
                  ELSE Idle)

\* The unique index over active orders of a buyer, a dataset and a product.
Duplicate(r) == \E i \in DOMAIN orders : /\ orders[i].status \in Active
                                         /\ orders[i].buyer = r.by /\ orders[i].product = r.product

InsertOrder(k) ==
    LET r == purchase[k]
        fee == platformFee(r.amount) IN
    /\ r.at = "insert" /\ Stage(k, Idle)
    /\ \/ /\ ~Duplicate(r) /\ Len(orders) < MaxOrders
          /\ orders' = Append(orders, [buyer |-> r.by, product |-> r.product, version |-> r.version,
                                       amount |-> r.amount, fee |-> fee, seller |-> r.amount - fee,
                                       status |-> "created", day |-> today])
       \/ UNCHANGED orders
    /\ UNCHANGED <<shop, rated, today>>

\* Transition, by whoever makes it: payment, delivery, the buyer, settlement, operators.
Moves == {<<"created", "paid">>, <<"created", "cancelled">>, <<"paid", "delivered">>,
          <<"delivered", "confirmed">>, <<"confirmed", "settled">>, <<"paid", "disputed">>,
          <<"delivered", "disputed">>, <<"confirmed", "disputed">>, <<"disputed", "refunded">>,
          <<"disputed", "confirmed">>}

Advances(i, to) ==
    /\ <<orders[i].status, to>> \in Moves
    /\ orders' = [orders EXCEPT ![i].status = to]
    /\ UNCHANGED <<shop, rated, purchase, today>>

\* The unique index over reviews.
Unrated(i) == i \notin rated

\* The order is read and the review inserted, once per order; between the two its
\* status cannot change any more.
CreateReview(i) ==
    /\ orders[i].status = "settled" /\ Unrated(i)
    /\ rated' = rated \cup {i}
    /\ UNCHANGED <<shop, orders, purchase, today>>

DayPasses == /\ today < LastDay /\ today' = today + 1
             /\ UNCHANGED <<shop, orders, rated, purchase>>

OrdersNext ==
    \/ \E new \in Listings : EditListing(new)
    \/ \E new \in ComputeOffers : UpsertOffer(new)
    \/ \E u \in Users \ {Lister} : Resubmit(u) \/ \E approve \in BOOLEAN : DecideStanding(u, approve)
    \/ \E k \in Purchases :
          \/ \E u \in Users : CreateStart(k, u) \/ PurchaseViaOrder(k, u)
          \/ ForPurchase(k) \/ CreateCompute(k) \/ InsertOrder(k)
    \/ \E i \in DOMAIN orders : CreateReview(i) \/ \E to \in Active \cup Closed : Advances(i, to)
    \/ DayPasses

OrdersSpec == OrdersInit /\ [][OrdersNext]_orderVars

-----------------------------------------------------------------------------
(***************************************************************************)
(* The reports: one statement each over the orders table.                  *)
(***************************************************************************)
Having(st) == {i \in DOMAIN orders : orders[i].status \in st}
Amounts(S) == SumFunction([i \in S |-> orders[i].amount])
Fees(S)    == SumFunction([i \in S |-> orders[i].fee])
Sellers(S) == SumFunction([i \in S |-> orders[i].seller])
Pending    == {"paid", "delivered", "confirmed"}

SellerEarnings ==
    [settled |-> Sellers(Having({"settled"})), pending |-> Sellers(Having(Pending)),
     settledOrders |-> Cardinality(Having({"settled"})), pendingOrders |-> Cardinality(Having(Pending))]

AdminReconciliation ==
    [gmv |-> Amounts(DOMAIN orders), settledGMV |-> Amounts(Having({"settled"})),
     fees |-> Fees(Having({"settled"})), refunded |-> Amounts(Having({"refunded"})),
     orders |-> Len(orders), settled |-> Cardinality(Having({"settled"})),
     pending |-> Cardinality(Having(Pending)), disputed |-> Cardinality(Having({"disputed"})),
     refunds |-> Cardinality(Having({"refunded"}))]

\* A number of days out of range is the default.
WindowOf(days) == IF days \in 1 .. MaxDays THEN days ELSE DefaultDays
\* The days of the report, the earliest left out when time is younger than the window.
DaysOf(n) == {d \in 0 .. today : d + n > today}
OfDay(d) == {i \in DOMAIN orders : orders[i].day = d}

AdminReconciliationTimeseries(n) ==
    [d \in DaysOf(n) |->
        [gmv |-> Amounts(OfDay(d)), settledGMV |-> Amounts(OfDay(d) \cap Having({"settled"})),
         fees |-> Fees(OfDay(d) \cap Having({"settled"})), orders |-> Cardinality(OfDay(d)),
         settled |-> Cardinality(OfDay(d) \cap Having({"settled"})),
         refunds |-> Cardinality(OfDay(d) \cap Having({"refunded"})),
         disputed |-> Cardinality(OfDay(d) \cap Having({"disputed"}))]]

SellerEarningsTimeseries(n) ==
    [d \in DaysOf(n) |->
        [gross |-> Amounts(OfDay(d)), settled |-> Sellers(OfDay(d) \cap Having({"settled"})),
         orders |-> Cardinality(OfDay(d)), refunded |-> Amounts(OfDay(d) \cap Having({"refunded"}))]]

-----------------------------------------------------------------------------
\* Every variable has its type.
OrdersTypeOK ==
    /\ standing \in [Users -> Standings] /\ listing \in Listings /\ computeOffer \in ComputeOffers
    /\ Len(orders) <= MaxOrders /\ \A i \in DOMAIN orders : orders[i] \in OrderRow
    /\ rated \subseteq DOMAIN orders /\ today \in 0 .. LastDay /\ edits \in 0 .. MaxEdits
    /\ \A k \in Purchases : purchase[k] \in Requests

\* order/service.go:149, compute/service.go:346: whatever was edited between the
\* reads and the insert, an order has a buyer who was verified and does not sell, and
\* a version and price, or a compute price, that were on offer together.
BoughtAsOffered ==
    \A i \in DOMAIN orders :
        /\ orders[i].buyer \in trusted \ {Lister}
        /\ orders[i].product = "download" => <<orders[i].version, orders[i].amount>> \in advertised
        /\ orders[i].product = "compute"  => orders[i].amount \in offered

\* model.go:135: the fee is a tenth rounded down, and the two shares are the amount.
SharesExact == \A i \in DOMAIN orders :
    /\ orders[i].fee = orders[i].amount \div 10
    /\ orders[i].fee + orders[i].seller = orders[i].amount

\* The unique index over active orders refuses the second of two requests, and no
\* transition brings an ended order back beside a new one.
OneActive == \A i, j \in DOMAIN orders :
    i # j /\ {orders[i].status, orders[j].status} \subseteq Active
    => orders[i].buyer # orders[j].buyer \/ orders[i].product # orders[j].product

\* order/service.go:358: a rating belongs to an order that is settled, still.
RatedSettled == \A i \in rated : orders[i].status = "settled"

OverDays(report, Of(_)) == SumFunction([d \in DOMAIN report |-> Of(report[d])])

\* order/repo.go:175-446: the seller's and the operators' reports agree: what settled is
\* the seller's share and the fee, every order is counted in one place, and the days of
\* a window that reaches back far enough add up to the whole.
BooksAgree ==
    orders # <<>> =>
    LET all == AdminReconciliation
        mine == SellerEarnings IN
    /\ all.settledGMV = all.fees + mine.settled
    /\ all.orders = all.settled + all.pending + all.disputed + all.refunds
                    + Cardinality(Having({"created", "cancelled"}))
    /\ \A n \in {WindowOf(days) : days \in 0 .. MaxDays + 1} :
          LET ops == AdminReconciliationTimeseries(n)
              own == SellerEarningsTimeseries(n) IN
          /\ OverDays(ops, LAMBDA r : r.settledGMV - r.fees) = OverDays(own, LAMBDA r : r.settled)
          /\ OverDays(ops, LAMBDA r : r.gmv) = OverDays(own, LAMBDA r : r.gross)
          /\ n > today => /\ OverDays(own, LAMBDA r : r.settled) = mine.settled
                          /\ OverDays(own, LAMBDA r : r.refunded) = all.refunded
                          /\ OverDays(ops, LAMBDA r : r.orders) = all.orders

\* Orders, ratings and reports together.
OrdersInv == OrdersTypeOK /\ BoughtAsOffered /\ SharesExact /\ OneActive /\ RatedSettled /\ BooksAgree
=============================================================================
