--------------------------- MODULE MoneyProofs ------------------------------
(***************************************************************************)
(* The records of money: orders and what is billed on them, prices,        *)
(* payments and settlements, for any number of each and of requests that   *)
(* overlap. The totals are sums over as many rows as there are; AddsUpTo   *)
(* of ModelLemmas says that a number is the sum.                           *)
(***************************************************************************)
EXTENDS PurchaseOrders, PriceList, Payments, Settlements, ModelLemmas

-----------------------------------------------------------------------------
(***************************************************************************)
(* PurchaseOrders: what is billed is in the house. The match is computed   *)
(* in one step and written in another; it still stands then because        *)
(* whatever could spoil it, another invoice, a receipt or a return, needs  *)
(* the lock the invoice holds (OneOrderHolder), and the vendor's answer to *)
(* a return, which takes no lock, can only make room (MatchStands).        *)
(***************************************************************************)

Quantities == [Orders -> [Lines -> Int]]

Request ==
  [op : {"none", "issue", "cancel", "acknowledge", "ship", "receive", "invoice",
         "return", "authorized", "rejected"},
   po : Orders \cup {"none"}, locks : BOOLEAN,
   qty : [Lines -> Nat], verdict : BOOLEAN, rma : Returns \cup {"none"}]

Rma ==
  [state : {"none", "requested", "authorized", "rejected"},
   po : Orders \cup {"none"}, line : Lines \cup {"none"}, qty : Nat]

TablesTyped ==
  /\ received \in Quantities /\ billed \in Quantities
  /\ returned \in Quantities /\ rma \in [Returns -> Rma]

RmaIsPlaced ==
  \A r \in Returns :
    rma[r].state = "requested" => rma[r].po \in Orders /\ rma[r].line \in Lines

(* What each kind of request brings to its write.                          *)
RequestsFit ==
  \A h \in Clerks :
    /\ counter[h].op \in {"receive", "invoice", "return"}
         => counter[h].locks /\ counter[h].po \in Orders
    /\ counter[h].op = "return" => \E l \in Lines : counter[h].qty[l] > 0
    /\ counter[h].op \in {"authorized", "rejected"} => counter[h].rma \in Returns

(* An order's lock is held once.                                           *)
OneOrderHolder ==
  \A h, k \in Clerks :
    counter[h].locks /\ counter[k].locks /\ counter[h].po = counter[k].po
      => h = k

Room(o, q) ==
  \A l \in Lines :
    q[l] > 0 => billed[o][l] + q[l] + returned[o][l] <= received[o][l]

(* A match that was found stays one until it is written.                   *)
MatchStands ==
  \A h \in Clerks :
    counter[h].op = "invoice" /\ counter[h].verdict
      => Room(counter[h].po, counter[h].qty)

OrderInv == /\ TablesTyped /\ counter \in [Clerks -> Request]
        /\ RmaIsPlaced /\ RequestsFit /\ OneOrderHolder /\ MatchStands

(* Nobody is asking for anything.                                          *)
LEMMA NotAskingTyped == NotAsking \in Request
BY DEF NotAsking, Request, Zero

(* Nothing is ordered yet.                                                 *)
LEMMA OrderInitInv == PoInit => OrderInv
<1> SUFFICES ASSUME PoInit PROVE OrderInv
  OBVIOUS
<1>1. TablesTyped /\ RmaIsPlaced
  BY DEF PoInit, TablesTyped, Quantities, Rma, RmaIsPlaced, Zero, NoRma
<1>2. counter \in [Clerks -> Request]
  BY NotAskingTyped DEF PoInit
<1>3. \A h \in Clerks : counter[h].op = "none" /\ ~counter[h].locks
  BY DEF PoInit, NotAsking
<1>4. RequestsFit
  BY <1>3 DEF RequestsFit
<1>5. OneOrderHolder /\ MatchStands
  BY <1>3 DEF OneOrderHolder, MatchStands
<1> QED
  BY <1>1, <1>2, <1>4, <1>5 DEF OrderInv

-----------------------------------------------------------------------------
(* A request that is read for changes no table; what it brings must fit.   *)
LEMMA AskInv ==
  ASSUME OrderInv, NEW h \in Clerks, NEW r \in Request, Ask(h, r),
         r.op \in {"receive", "invoice", "return"}
           => r.locks /\ r.po \in Orders,
         r.op = "return" => \E l \in Lines : r.qty[l] > 0,
         r.op \in {"authorized", "rejected"} => r.rma \in Returns,
         r.locks => Unlocked(r.po),
         r.op = "invoice" /\ r.verdict => Room(r.po, r.qty)
  PROVE  OrderInv'
<1>1. /\ UNCHANGED <<received, billed, returned, rma>>
      /\ counter' \in [Clerks -> Request] /\ counter'[h] = r
      /\ \A k \in Clerks \ {h} : counter'[k] = counter[k]
  BY DEF Ask, poTables, OrderInv
<1>2. TablesTyped' /\ RmaIsPlaced'
  BY <1>1 DEF OrderInv, TablesTyped, RmaIsPlaced
<1>3. RequestsFit'
  BY <1>1 DEF OrderInv, RequestsFit
<1>4. OneOrderHolder'
  BY <1>1 DEF OrderInv, OneOrderHolder, Unlocked
<1>5. MatchStands'
  BY <1>1 DEF OrderInv, MatchStands, Room
<1> QED
  BY <1>1, <1>2, <1>3, <1>4, <1>5 DEF OrderInv

(* A write ends its request, and in an order somebody else has locked it   *)
(* may only make room.                                                     *)
MakesRoom(h) ==
  \A k \in Clerks \ {h} : counter[k].locks /\ counter[k].po \in Orders =>
    \A l \in Lines :
      LET o == counter[k].po IN
      /\ billed'[o][l] = billed[o][l]
      /\ received'[o][l] >= received[o][l]
      /\ returned'[o][l] <= returned[o][l]

(* A request that is written and makes room keeps the invariant.           *)
LEMMA WriteInv ==
  ASSUME OrderInv, NEW h \in Clerks, Answered(h), TablesTyped', RmaIsPlaced',
         MakesRoom(h)
  PROVE  OrderInv'
<1>1. /\ counter' \in [Clerks -> Request]
      /\ \A k \in Clerks \ {h} : counter'[k] = counter[k]
      /\ counter'[h] = NotAsking
  BY NotAskingTyped DEF Answered, OrderInv
<1>2. RequestsFit'
  <2>1. counter'[h].op = "none"
    BY <1>1 DEF NotAsking
  <2> QED
    BY <1>1, <2>1 DEF OrderInv, RequestsFit
<1>4. OneOrderHolder'
  <2>1. ~counter'[h].locks
    BY <1>1 DEF NotAsking
  <2> QED
    BY <1>1, <2>1 DEF OrderInv, OneOrderHolder
<1>3. MatchStands'
  <2> SUFFICES ASSUME NEW k \in Clerks, counter'[k].op = "invoice",
                      counter'[k].verdict, NEW l \in Lines,
                      counter'[k].qty[l] > 0
               PROVE  (billed[counter[k].po][l] + counter[k].qty[l]
                        + returned[counter[k].po][l]
                        <= received[counter[k].po][l])'
    BY DEF MatchStands, Room
  <2>1. k # h /\ counter'[k] = counter[k]
    BY <1>1 DEF NotAsking
  <2> DEFINE o == counter[k].po
             q == counter[k].qty[l]
  <2>2. counter[k].locks /\ o \in Orders /\ q \in Nat
    BY <2>1 DEF OrderInv, RequestsFit, Request
  <2>3. billed[o][l] + q + returned[o][l] <= received[o][l]
    BY <2>1 DEF OrderInv, MatchStands, Room
  <2>4. /\ billed'[o][l] = billed[o][l] /\ received'[o][l] >= received[o][l]
        /\ returned'[o][l] <= returned[o][l]
    BY <2>1, <2>2 DEF MakesRoom
  <2>5. /\ billed[o][l] \in Int /\ returned[o][l] \in Int
        /\ received[o][l] \in Int /\ returned'[o][l] \in Int
        /\ received'[o][l] \in Int
    BY <2>2 DEF OrderInv, TablesTyped, Quantities
  <2>6. billed'[o][l] + q + returned'[o][l] <= received'[o][l]
    <3> HIDE DEF q, o
    <3> QED
      BY <2>2, <2>3, <2>4, <2>5
  <2> QED
    BY <2>1, <2>6
<1> QED
  BY <1>1, <1>2, <1>3, <1>4 DEF OrderInv

(* A quantity is added to one order's lines.                               *)
LEMMA PlusTyped ==
  ASSUME NEW total \in Quantities, NEW o \in Orders, NEW q \in [Lines -> Nat]
  PROVE  /\ Plus(total, o, q) \in Quantities
         /\ \A p \in Orders \ {o} : Plus(total, o, q)[p] = total[p]
         /\ \A l \in Lines : Plus(total, o, q)[o][l] = total[o][l] + q[l]
BY DEF Plus, Quantities

(* Whoever writes with the lock leaves the orders of the others alone.     *)
LEMMA OtherOrdersStand ==
  ASSUME OrderInv, NEW h \in Clerks, counter[h].locks,
         \A p \in Orders \ {counter[h].po} :
           /\ billed'[p] = billed[p] /\ received'[p] = received[p]
           /\ returned'[p] = returned[p]
  PROVE  MakesRoom(h)
<1> SUFFICES ASSUME NEW k \in Clerks \ {h}, counter[k].locks,
                    counter[k].po \in Orders, NEW l \in Lines
             PROVE  LET o == counter[k].po IN
                    /\ billed'[o][l] = billed[o][l]
                    /\ received'[o][l] >= received[o][l]
                    /\ returned'[o][l] <= returned[o][l]
  BY DEF MakesRoom
<1>1. counter[k].po # counter[h].po
  BY DEF OrderInv, OneOrderHolder
<1>2. received[counter[k].po][l] \in Int /\ returned[counter[k].po][l] \in Int
  BY DEF OrderInv, TablesTyped, Quantities
<1> QED
  BY <1>1, <1>2

-----------------------------------------------------------------------------
(* The reads.                                                              *)

(* What may be asked for is a count on every line.                         *)
LEMMA AmountsTyped == Amounts \subseteq [Lines -> Nat]
BY PoAssumption DEF Amounts

(* A request that takes the order's lock as it reads.                      *)
LEMMA LockInv ==
  ASSUME OrderInv, NEW h \in Clerks, NEW o \in Orders, NEW q \in [Lines -> Nat],
         NEW op \in {"ship", "receive", "invoice", "return"},
         NEW verdict \in BOOLEAN, lockPo(h, o, op, q, verdict),
         op = "return" => \E l \in Lines : q[l] > 0,
         op = "invoice" /\ verdict => Room(o, q)
  PROVE  OrderInv'
<1> DEFINE r == [NotAsking EXCEPT !.op = op, !.po = o, !.locks = TRUE,
                                  !.qty = q, !.verdict = verdict]
<1>1. /\ r \in Request /\ r.op = op /\ r.po = o /\ r.locks /\ r.qty = q
      /\ r.verdict = verdict
  BY DEF NotAsking, Request
<1>2. Ask(h, r) /\ Unlocked(o)
  BY DEF lockPo
<1> HIDE DEF r
<1> QED
  BY <1>1, <1>2, AskInv

(* A move of the order itself, which takes none.                           *)
LEMMA PlainInv ==
  ASSUME OrderInv, NEW h \in Clerks, NEW o \in Orders,
         NEW op \in {"issue", "cancel", "acknowledge"},
         Ask(h, [NotAsking EXCEPT !.op = op, !.po = o])
  PROVE  OrderInv'
<1> DEFINE r == [NotAsking EXCEPT !.op = op, !.po = o]
<1>1. r \in Request /\ r.op = op /\ ~r.locks
  BY DEF NotAsking, Request, Zero
<1>2. Ask(h, r)
  OBVIOUS
<1> HIDE DEF r
<1> QED
  BY <1>1, <1>2, AskInv

(* The vendor's answer to a return, which takes none either.               *)
LEMMA RespondAskedInv ==
  ASSUME OrderInv, NEW h \in Clerks, NEW r \in Returns,
         NEW d \in {"authorized", "rejected"}, respondToReturnAsked(h, r, d)
  PROVE  OrderInv'
<1> DEFINE a == [NotAsking EXCEPT !.op = d, !.rma = r]
<1>1. a \in Request /\ a.op = d /\ ~a.locks /\ a.rma = r
  BY DEF NotAsking, Request, Zero
<1>2. Ask(h, a)
  BY DEF respondToReturnAsked
<1> HIDE DEF a
<1> QED
  BY <1>1, <1>2, AskInv

-----------------------------------------------------------------------------
(* The writes.                                                             *)

(* What touches none of the quantities.                                    *)
LEMMA QuietInv ==
  ASSUME OrderInv, NEW h \in Clerks, Answered(h),
         UNCHANGED <<received, billed, returned, rma>>
  PROVE  OrderInv'
<1>1. MakesRoom(h)
  BY DEF MakesRoom, OrderInv, TablesTyped, Quantities
<1>2. TablesTyped' /\ RmaIsPlaced'
  BY DEF OrderInv, TablesTyped, RmaIsPlaced
<1> QED
  BY <1>1, <1>2, WriteInv

(* A receipt adds to what is in the house, of its own order.               *)
LEMMA ReceiptInv ==
  ASSUME OrderInv, NEW h \in Clerks, recordReceipt(h)
  PROVE  OrderInv'
<1> DEFINE o == counter[h].po
           q == counter[h].qty
<1>1. counter[h].locks /\ o \in Orders /\ q \in [Lines -> Nat]
  BY DEF recordReceipt, OrderInv, RequestsFit, Request
<1>2. /\ Answered(h) /\ UNCHANGED <<billed, returned, rma>>
      /\ received' \in {received, Plus(received, o, q)}
  BY DEF recordReceipt
<1>3. TablesTyped' /\ RmaIsPlaced'
  BY <1>1, <1>2, PlusTyped DEF OrderInv, TablesTyped, RmaIsPlaced
<1>4. MakesRoom(h)
  BY <1>1, <1>2, OtherOrdersStand, PlusTyped DEF OrderInv, TablesTyped
<1> QED
  BY <1>2, <1>3, <1>4, WriteInv

(* An invoice adds to what is billed, of its own order.                    *)
LEMMA InvoiceInv ==
  ASSUME OrderInv, NEW h \in Clerks, submitVendorInvoice(h)
  PROVE  OrderInv'
<1> DEFINE o == counter[h].po
           q == counter[h].qty
<1>1. counter[h].locks /\ o \in Orders /\ q \in [Lines -> Nat]
  BY DEF submitVendorInvoice, OrderInv, RequestsFit, Request
<1>2. /\ Answered(h) /\ UNCHANGED <<received, returned, rma>>
      /\ billed' \in {billed, Plus(billed, o, q)}
  BY DEF submitVendorInvoice
<1>3. TablesTyped' /\ RmaIsPlaced'
  BY <1>1, <1>2, PlusTyped DEF OrderInv, TablesTyped, RmaIsPlaced
<1>4. MakesRoom(h)
  BY <1>1, <1>2, OtherOrdersStand, PlusTyped DEF OrderInv, TablesTyped
<1> QED
  BY <1>2, <1>3, <1>4, WriteInv

(* A return adds to what is sent back, of its own order.                   *)
LEMMA ReturnKeptInv ==
  ASSUME OrderInv, NEW h \in Clerks, NEW r \in Returns, requestReturn(h, r)
  PROVE  OrderInv'
<1> DEFINE o == counter[h].po
           q == counter[h].qty
           l == CHOOSE k \in Lines : q[k] > 0
           asked == [state |-> "requested", po |-> o, line |-> l, qty |-> q[l]]
<1>1. /\ counter[h].locks /\ o \in Orders /\ q \in [Lines -> Nat]
      /\ \E k \in Lines : q[k] > 0
  BY DEF requestReturn, OrderInv, RequestsFit, Request
<1>2. l \in Lines
  BY <1>1
<1>3. /\ Answered(h) /\ UNCHANGED <<received, billed>>
      /\ returned' \in {returned, Plus(returned, o, q)}
      /\ rma' \in {rma, [rma EXCEPT ![r] = asked]}
  BY DEF requestReturn
<1> HIDE DEF l
<1>4. asked \in Rma /\ asked.po \in Orders /\ asked.line \in Lines
  BY <1>1, <1>2 DEF Rma
<1> HIDE DEF asked
<1>5. TablesTyped'
  BY <1>1, <1>3, <1>4, PlusTyped DEF OrderInv, TablesTyped
<1>6. RmaIsPlaced'
  BY <1>3, <1>4 DEF OrderInv, TablesTyped, RmaIsPlaced
<1>7. MakesRoom(h)
  BY <1>1, <1>3, OtherOrdersStand, PlusTyped DEF OrderInv, TablesTyped
<1> QED
  BY <1>3, <1>5, <1>6, <1>7, WriteInv

(* No lock is taken; what is rejected is no longer held back.              *)
LEMMA RespondInv ==
  ASSUME OrderInv, NEW h \in Clerks, respondToReturn(h)
  PROVE  OrderInv'
<1> DEFINE r == counter[h].rma
           o == rma[r].po
           l == rma[r].line
           n == rma[r].qty
           d == counter[h].op
           less == [returned EXCEPT ![o][l] = @ - n]
<1>1. /\ Answered(h) /\ UNCHANGED <<received, billed>>
      /\ r \in Returns /\ d \in {"authorized", "rejected"}
  BY DEF respondToReturn, OrderInv, RequestsFit
<1>2. CASE ~Answerable(r)
  BY <1>1, <1>2, QuietInv DEF respondToReturn
<1>3. CASE Answerable(r)
  <2>1. o \in Orders /\ l \in Lines /\ n \in Nat
    BY <1>1, <1>3 DEF Answerable, OrderInv, RmaIsPlaced, TablesTyped, Rma
  <2>2. /\ rma' = [rma EXCEPT ![r].state = d]
        /\ returned' \in {returned, less}
    BY <1>3 DEF respondToReturn
  <2>3. /\ less \in Quantities
        /\ \A p \in Orders, k \in Lines : less[p][k] <= returned[p][k]
    <3>1. returned \in Quantities
      BY DEF OrderInv, TablesTyped
    <3> HIDE DEF o, l, n
    <3> QED
      BY <2>1, <3>1 DEF Quantities
  <2> HIDE DEF o, l, n, less
  <2>4. rma' \in [Returns -> Rma]
    BY <1>1, <2>2 DEF OrderInv, TablesTyped, Rma
  <2>5. TablesTyped'
    BY <1>1, <2>2, <2>3, <2>4 DEF OrderInv, TablesTyped
  <2>6. RmaIsPlaced'
    BY <1>1, <2>2 DEF OrderInv, TablesTyped, RmaIsPlaced
  <2>7. MakesRoom(h)
    BY <1>1, <2>2, <2>3 DEF MakesRoom, OrderInv, TablesTyped, Quantities
  <2> QED
    BY <1>1, <2>5, <2>6, <2>7, WriteInv
<1> QED
  BY <1>2, <1>3

-----------------------------------------------------------------------------
(* Every step keeps the invariant.                                         *)
LEMMA OrderNextInv == OrderInv /\ [PoNext]_poVars => OrderInv'
<1> SUFFICES ASSUME OrderInv, [PoNext]_poVars PROVE OrderInv'
  OBVIOUS
<1>1. CASE \/ UNCHANGED poVars
           \/ \E o \in Orders : createPurchaseOrder(o)
  BY <1>1 DEF poVars, createPurchaseOrder, OrderInv, TablesTyped, RmaIsPlaced,
              RequestsFit, OneOrderHolder, MatchStands, Room
<1>2. CASE \E h \in Clerks, o \in Orders :
             issueAsked(h, o) \/ cancelAsked(h, o) \/ acknowledgeAsked(h, o)
  BY <1>2, PlainInv DEF issueAsked, cancelAsked, acknowledgeAsked
<1>3. ASSUME NEW h \in Clerks, NEW o \in Orders, NEW q \in Amounts,
             recordShipmentAsked(h, o, q)
      PROVE  OrderInv'
  BY <1>3, AmountsTyped, LockInv DEF recordShipmentAsked
<1>4. ASSUME NEW h \in Clerks, NEW o \in Orders, NEW q \in Amounts,
             recordReceiptAsked(h, o, q)
      PROVE  OrderInv'
  BY <1>4, AmountsTyped, LockInv DEF recordReceiptAsked, Complete
<1>5. ASSUME NEW h \in Clerks, NEW o \in Orders, NEW q \in Amounts,
             NEW priced \in BOOLEAN, submitInvoiceAsked(h, o, q, priced)
      PROVE  OrderInv'
  <2>1. threeWayMatch(o, q, priced) \in BOOLEAN
    BY DEF threeWayMatch
  <2>2. threeWayMatch(o, q, priced) => Room(o, q)
    BY DEF threeWayMatch, Room
  <2>3. lockPo(h, o, "invoice", q, threeWayMatch(o, q, priced))
    BY <1>5 DEF submitInvoiceAsked
  <2> QED
    BY <2>1, <2>2, <2>3, AmountsTyped, LockInv
<1>6. ASSUME NEW h \in Clerks, NEW o \in Orders, NEW l \in Lines,
             NEW n \in 1..Ordered[l], requestReturnAsked(h, o, l, n)
      PROVE  OrderInv'
  <2>1. OneLine(l, n) \in [Lines -> Nat] /\ OneLine(l, n)[l] > 0
    BY PoAssumption DEF OneLine
  <2> QED
    BY <1>6, <2>1, LockInv DEF requestReturnAsked
<1>7. CASE \E h \in Clerks, r \in Returns, d \in {"authorized", "rejected"} :
             respondToReturnAsked(h, r, d)
  BY <1>7, RespondAskedInv
<1>8. CASE \E h \in Clerks : transition(h) \/ recordShipment(h) \/ poLost(h)
  BY <1>8, QuietInv DEF transition, recordShipment, poLost, poTables
<1>9. CASE \E h \in Clerks :
             \/ recordReceipt(h) \/ submitVendorInvoice(h)
             \/ respondToReturn(h)
             \/ \E r \in Returns : requestReturn(h, r)
  BY <1>9, ReceiptInv, InvoiceInv, RespondInv, ReturnKeptInv
<1> QED
  BY <1>1, <1>2, <1>3, <1>4, <1>5, <1>6, <1>7, <1>8, <1>9 DEF PoNext

(* Only an invoice's write adds to what is billed.                         *)
LEMMA BilledByInvoice ==
  ASSUME OrderInv, [PoNext]_poVars, NEW o \in Orders, NEW l \in Lines,
         billed'[o][l] > billed[o][l]
  PROVE  \E h \in Clerks : submitVendorInvoice(h)
<1>1. billed[o][l] \in Int
  BY DEF OrderInv, TablesTyped, Quantities
<1>2. billed' # billed
  BY <1>1
<1> QED
  BY <1>2 DEF PoNext, poVars, poTables, createPurchaseOrder, issueAsked,
       cancelAsked, acknowledgeAsked, Ask, recordShipmentAsked,
       recordReceiptAsked, submitInvoiceAsked, requestReturnAsked, lockPo,
       transition, recordShipment, recordReceipt, respondToReturn, poLost,
       requestReturn, respondToReturnAsked

(* A vendor is paid for nothing that is on its way back, though the match  *)
(* was made before the invoice was written.                                *)
THEOREM BilledIsInTheHouse == PoSpec => BilledIsKept
<1>1. OrderInv /\ [PoNext]_poVars =>
        [\A o \in Orders : \A l \in Lines :
           billed'[o][l] > billed[o][l]
             => billed'[o][l] + returned'[o][l] <= received'[o][l]]_poVars
  <2> SUFFICES ASSUME OrderInv, [PoNext]_poVars, NEW o \in Orders, NEW l \in Lines,
                      billed'[o][l] > billed[o][l]
               PROVE  billed'[o][l] + returned'[o][l] <= received'[o][l]
    OBVIOUS
  <2>1. PICK h \in Clerks : submitVendorInvoice(h)
    BY BilledByInvoice
  <2> DEFINE q == counter[h].qty
  <2>2. billed \in Quantities /\ billed[o][l] \in Int /\ q \in [Lines -> Nat]
    BY DEF OrderInv, TablesTyped, Quantities, Request
  <2>3. /\ counter[h].op = "invoice" /\ counter[h].verdict
        /\ billed' = Plus(billed, counter[h].po, q)
        /\ received' = received /\ returned' = returned
        /\ counter[h].po \in Orders
    BY <2>1, <2>2 DEF submitVendorInvoice, OrderInv, RequestsFit
  <2>4. counter[h].po = o /\ billed'[o][l] = billed[o][l] + q[l] /\ q[l] > 0
    <3> HIDE DEF q
    <3> QED
      BY <2>2, <2>3, PlusTyped
  <2>5. billed[o][l] + q[l] + returned[o][l] <= received[o][l]
    BY <2>3, <2>4 DEF OrderInv, MatchStands, Room
  <2>6. returned[o][l] \in Int /\ received[o][l] \in Int
    BY DEF OrderInv, TablesTyped, Quantities
  <2> HIDE DEF q
  <2> QED
    BY <2>2, <2>3, <2>4, <2>5, <2>6
<1> QED
  BY <1>1, OrderInitInv, OrderNextInv, PTL DEF PoSpec, BilledIsKept

-----------------------------------------------------------------------------
(***************************************************************************)
(* PurchaseOrders: the quantities. What is on its way back from a line is  *)
(* the sum of its standing returns, which every step changes by one of     *)
(* them (ReturnedIsTheSum); a receipt that was found to finish its order   *)
(* still does when it is written (VerdictStands).                          *)
(***************************************************************************)

HeldBackBy(r, o, l) ==
  IF rma[r].state \in {"requested", "authorized"} /\ rma[r].po = o /\ rma[r].line = l
  THEN rma[r].qty ELSE 0

HeldBack(o, l) == [r \in Returns |-> HeldBackBy(r, o, l)]

OrdersTyped == shipped \in Quantities /\ DOMAIN po = Orders

WithinOrder ==
  \A o \in Orders : \A l \in Lines :
    /\ shipped[o][l] <= Ordered[l] /\ received[o][l] <= Ordered[l]
    /\ returned[o][l] <= received[o][l] /\ billed[o][l] <= received[o][l]

ReceivedIsComplete ==
  \A o \in Orders : po[o] = "received" =>
    \A l \in Lines : received[o][l] = Ordered[l]

(* A receipt that was found to finish its order still does.                *)
VerdictStands ==
  \A h \in Clerks : counter[h].op = "receive" /\ counter[h].verdict =>
    Complete(counter[h].po, counter[h].qty)

ReturnsOneLine ==
  \A h \in Clerks : counter[h].op = "return" =>
    \E l \in Lines : \E n \in Nat \ {0} : counter[h].qty = OneLine(l, n)

(* What is on its way back from a line is the sum of its standing returns. *)
ReturnedIsTheSum ==
  \A o \in Orders : \A l \in Lines : AddsUpTo(HeldBack(o, l), returned[o][l])

SumsInv ==
  /\ OrderInv /\ OrdersTyped /\ WithinOrder /\ ReceivedIsComplete
  /\ VerdictStands /\ ReturnsOneLine /\ ReturnedIsTheSum

(* Nothing is ordered.                                                     *)
LEMMA SumsInit == PoInit => SumsInv
<1> SUFFICES ASSUME PoInit PROVE SumsInv
  OBVIOUS
<1>1. OrdersTyped /\ ReceivedIsComplete /\ VerdictStands /\ ReturnsOneLine
  BY DEF PoInit, OrdersTyped, Quantities, Zero, ReceivedIsComplete, VerdictStands,
     ReturnsOneLine, NotAsking
<1>2. WithinOrder
  BY PoAssumption DEF PoInit, WithinOrder, Zero
<1>3. ReturnedIsTheSum
  <2>1. ASSUME NEW o \in Orders, NEW l \in Lines
        PROVE  AddsUpTo(HeldBack(o, l), returned[o][l])
    <3>1. /\ DOMAIN HeldBack(o, l) = Returns /\ returned[o][l] = 0
          /\ \A r \in Returns : HeldBack(o, l)[r] = 0
      BY DEF PoInit, HeldBack, HeldBackBy, NoRma, Zero
    <3> QED
      BY <3>1, TallyStart
  <2> QED
    BY <2>1 DEF ReturnedIsTheSum
<1> QED
  BY <1>1, <1>2, <1>3, OrderInitInv DEF SumsInv

(* A request that is read for brings a verdict that is right.              *)
LEMMA AskSums ==
  ASSUME SumsInv, OrderInv', NEW h \in Clerks, NEW r, Ask(h, r),
         r.op = "receive" /\ r.verdict => Complete(r.po, r.qty),
         r.op = "return" => \E l \in Lines : \E n \in Nat \ {0} : r.qty = OneLine(l, n)
  PROVE  SumsInv'
<1>1. /\ UNCHANGED <<po, shipped, received, billed, returned, rma>>
      /\ counter'[h] = r /\ \A k \in Clerks \ {h} : counter'[k] = counter[k]
  BY DEF Ask, poTables, SumsInv, OrderInv
<1>2. OrdersTyped' /\ WithinOrder' /\ ReceivedIsComplete' /\ ReturnedIsTheSum'
  BY <1>1 DEF SumsInv, OrdersTyped, WithinOrder, ReceivedIsComplete,
     ReturnedIsTheSum, HeldBack, HeldBackBy
<1>3. VerdictStands'
  BY <1>1 DEF SumsInv, VerdictStands, Complete
<1>4. ReturnsOneLine'
  BY <1>1 DEF SumsInv, ReturnsOneLine
<1> QED
  BY <1>2, <1>3, <1>4 DEF SumsInv

(* A write ends its request; what the others found still holds if it       *)
(* receives nothing of an order they have locked.                          *)
LEMMA WriteSums ==
  ASSUME SumsInv, OrderInv', NEW h \in Clerks, Answered(h),
         \/ received' = received
         \/ /\ counter[h].locks
            /\ \A o \in Orders \ {counter[h].po} : received'[o] = received[o]
  PROVE  VerdictStands' /\ ReturnsOneLine'
<1>1. /\ counter'[h].op = "none"
      /\ \A k \in Clerks \ {h} : counter'[k] = counter[k]
  BY DEF Answered, SumsInv, OrderInv, NotAsking
<1>2. ReturnsOneLine'
  BY <1>1 DEF SumsInv, ReturnsOneLine
<1>3. ASSUME NEW k \in Clerks \ {h}, counter[k].op = "receive", counter[k].verdict
      PROVE  received'[counter[k].po] = received[counter[k].po]
  BY <1>3 DEF SumsInv, OrderInv, RequestsFit, OneOrderHolder
<1>4. VerdictStands'
  BY <1>1, <1>3 DEF SumsInv, VerdictStands, Complete
<1> QED
  BY <1>2, <1>4

(* The moves of the order itself and lost requests change no quantity.     *)
LEMMA MoveSums ==
  ASSUME SumsInv, OrderInv', NEW h \in Clerks, transition(h) \/ poLost(h)
  PROVE  SumsInv'
<1>1. /\ UNCHANGED <<shipped, received, billed, returned, rma>> /\ Answered(h)
  BY DEF transition, poLost, poTables
<1>2. /\ DOMAIN po' = Orders
      /\ \A o \in Orders : po'[o] = "received" => po[o] = "received"
  BY DEF transition, poLost, poTables, MovedTo, SumsInv, OrdersTyped
<1>3. OrdersTyped' /\ WithinOrder' /\ ReceivedIsComplete' /\ ReturnedIsTheSum'
  BY <1>1, <1>2 DEF SumsInv, OrdersTyped, WithinOrder, ReceivedIsComplete,
     ReturnedIsTheSum, HeldBack, HeldBackBy
<1> QED
  BY <1>1, <1>3, WriteSums DEF SumsInv

(* A shipment fits its order or leaves nothing.                            *)
LEMMA ShipmentSums ==
  ASSUME SumsInv, OrderInv', NEW h \in Clerks, recordShipment(h)
  PROVE  SumsInv'
<1> DEFINE o == counter[h].po
           q == counter[h].qty
<1>1. /\ UNCHANGED <<po, received, billed, returned, rma>> /\ Answered(h)
      /\ \/ shipped' = shipped
         \/ /\ \A l \in Lines : shipped[o][l] + q[l] <= Ordered[l]
            /\ shipped' = Plus(shipped, o, q)
      /\ q \in [Lines -> Nat] /\ o \in Orders \cup {"none"}
  BY DEF recordShipment, SumsInv, OrderInv, Request
<1>2. shipped' \in Quantities /\ \A p \in Orders, l \in Lines : shipped'[p][l] <= Ordered[l]
  <2> HIDE DEF o, q
  <2>1. CASE shipped' = shipped
    BY <2>1 DEF SumsInv, OrdersTyped, WithinOrder
  <2>2. CASE shipped' = Plus(shipped, o, q) /\ o \in Orders
    BY <1>1, <2>2, PlusTyped DEF SumsInv, OrdersTyped, WithinOrder
  <2>3. CASE shipped' = Plus(shipped, o, q) /\ o \notin Orders
    BY <1>1, <2>3 DEF Plus, SumsInv, OrdersTyped, WithinOrder, Quantities
  <2> QED
    BY <1>1, <2>1, <2>2, <2>3
<1>3. OrdersTyped' /\ WithinOrder' /\ ReceivedIsComplete' /\ ReturnedIsTheSum'
  BY <1>1, <1>2 DEF SumsInv, OrdersTyped, WithinOrder, ReceivedIsComplete,
     ReturnedIsTheSum, HeldBack, HeldBackBy
<1> QED
  BY <1>1, <1>3, WriteSums DEF SumsInv

(* An order is called received by the receipt that fills its last line.    *)
LEMMA ReceiptSums ==
  ASSUME SumsInv, OrderInv', NEW h \in Clerks, recordReceipt(h)
  PROVE  SumsInv'
<1> DEFINE o == counter[h].po
           q == counter[h].qty
           fits == \A l \in Lines : received[o][l] + q[l] <= Ordered[l]
<1>1. /\ UNCHANGED <<shipped, billed, returned, rma>> /\ Answered(h)
      /\ received' = IF fits THEN Plus(received, o, q) ELSE received
      /\ po' = IF fits /\ counter[h].verdict THEN [po EXCEPT ![o] = "received"] ELSE po
      /\ q \in [Lines -> Nat] /\ o \in Orders /\ counter[h].locks
      /\ counter[h].verdict => Complete(o, q)
  BY DEF recordReceipt, SumsInv, OrderInv, Request, RequestsFit, VerdictStands
<1> HIDE DEF o, q
<1>2. CASE ~fits
  <2>1. UNCHANGED <<po, received>>
    BY <1>1, <1>2
  <2>2. OrdersTyped' /\ WithinOrder' /\ ReceivedIsComplete' /\ ReturnedIsTheSum'
    BY <1>1, <2>1 DEF SumsInv, OrdersTyped, WithinOrder, ReceivedIsComplete,
       ReturnedIsTheSum, HeldBack, HeldBackBy
  <2> QED
    BY <1>1, <2>1, <2>2, WriteSums DEF SumsInv
<1>3. CASE fits
  <2>1. /\ \A p \in Orders \ {o} : received'[p] = received[p]
        /\ \A l \in Lines : received'[o][l] = received[o][l] + q[l]
    BY <1>1, <1>3, PlusTyped DEF SumsInv, OrderInv, TablesTyped
  <2>2. \A p \in Orders, l \in Lines :
          /\ received[p][l] \in Int /\ received'[p][l] \in Int
          /\ returned[p][l] \in Int /\ billed[p][l] \in Int
          /\ Ordered[l] \in Nat /\ q[l] \in Nat
    BY <1>1, PoAssumption DEF SumsInv, OrderInv, TablesTyped, Quantities
  <2>3. \A p \in Orders, l \in Lines :
          received'[p][l] >= received[p][l] /\ received'[p][l] <= Ordered[l]
    BY <1>3, <2>1, <2>2 DEF SumsInv, WithinOrder
  <2>4. OrdersTyped' /\ WithinOrder'
    BY <1>1, <2>2, <2>3 DEF SumsInv, OrdersTyped, WithinOrder
  <2>5. ReceivedIsComplete'
    <3>1. ASSUME NEW p \in Orders, po'[p] = "received", NEW l \in Lines
          PROVE  received'[p][l] = Ordered[l]
      <4>1. CASE p = o /\ counter[h].verdict
        BY <1>1, <2>1, <2>2, <2>3, <4>1 DEF Complete
      <4>2. CASE ~(p = o /\ counter[h].verdict)
        <5>1. po[p] = "received"
          BY <1>1, <3>1, <4>2 DEF SumsInv, OrdersTyped
        <5> QED
          BY <2>2, <2>3, <5>1 DEF SumsInv, ReceivedIsComplete
      <4> QED
        BY <4>1, <4>2
    <3> QED
      BY <3>1 DEF ReceivedIsComplete
  <2>6. ReturnedIsTheSum'
    BY <1>1 DEF SumsInv, ReturnedIsTheSum, HeldBack, HeldBackBy
  <2>7. VerdictStands' /\ ReturnsOneLine'
    BY <1>1, <2>1, WriteSums DEF o
  <2> QED
    BY <2>4, <2>5, <2>6, <2>7 DEF SumsInv
<1> QED
  BY <1>2, <1>3

(* What is billed was received and kept when it is written.                *)
LEMMA InvoiceSums ==
  ASSUME SumsInv, OrderInv', NEW h \in Clerks, submitVendorInvoice(h)
  PROVE  SumsInv'
<1> DEFINE o == counter[h].po
           q == counter[h].qty
<1>1. /\ UNCHANGED <<po, shipped, received, returned, rma>> /\ Answered(h)
      /\ billed' = IF counter[h].verdict THEN Plus(billed, o, q) ELSE billed
      /\ q \in [Lines -> Nat] /\ o \in Orders
      /\ counter[h].verdict => Room(o, q)
  BY DEF submitVendorInvoice, SumsInv, OrderInv, Request, RequestsFit, MatchStands
<1> HIDE DEF o, q
<1>2. ASSUME NEW p \in Orders, NEW l \in Lines
      PROVE  billed'[p][l] <= received[p][l]
  <2>1. /\ billed[p][l] \in Int /\ received[p][l] \in Int /\ billed[p][l] <= received[p][l]
        /\ q[l] \in Nat
    BY <1>1 DEF SumsInv, OrderInv, TablesTyped, Quantities, WithinOrder
  <2>2. returned[p][l] \in Nat
    BY TallyIsNat DEF SumsInv, ReturnedIsTheSum
  <2>3. CASE counter[h].verdict /\ p = o
    <3>1. billed'[p][l] = billed[p][l] + q[l]
      BY <1>1, <2>3, PlusTyped DEF SumsInv, OrderInv, TablesTyped
    <3>2. q[l] > 0 => billed[p][l] + q[l] + returned[p][l] <= received[p][l]
      BY <1>1, <2>3 DEF Room
    <3> QED
      BY <2>1, <2>2, <3>1, <3>2
  <2>4. CASE ~(counter[h].verdict /\ p = o)
    <3>1. billed'[p] = billed[p]
      BY <1>1, <2>4, PlusTyped DEF SumsInv, OrderInv, TablesTyped
    <3> QED
      BY <2>1, <3>1
  <2> QED
    BY <2>3, <2>4
<1>3. OrdersTyped' /\ WithinOrder' /\ ReceivedIsComplete' /\ ReturnedIsTheSum'
  BY <1>1, <1>2 DEF SumsInv, OrdersTyped, WithinOrder, ReceivedIsComplete,
     ReturnedIsTheSum, HeldBack, HeldBackBy
<1> QED
  BY <1>1, <1>3, WriteSums DEF SumsInv

(* A return is one line's, and is held back from then on.                  *)
LEMMA ReturnSums ==
  ASSUME SumsInv, OrderInv', NEW h \in Clerks, NEW r \in Returns, requestReturn(h, r)
  PROVE  SumsInv'
<1> DEFINE o == counter[h].po
           q == counter[h].qty
           l == CHOOSE k \in Lines : q[k] > 0
           fits == returned[o][l] + q[l] <= received[o][l]
<1>1. /\ UNCHANGED <<po, shipped, received, billed>> /\ Answered(h)
      /\ rma[r].state = "none"
      /\ returned' = IF fits THEN Plus(returned, o, q) ELSE returned
      /\ rma' = IF fits THEN [rma EXCEPT ![r] =
                   [state |-> "requested", po |-> o, line |-> l, qty |-> q[l]]]
                ELSE rma
      /\ q \in [Lines -> Nat] /\ o \in Orders
  BY DEF requestReturn, SumsInv, OrderInv, Request, RequestsFit
<1>2. PICK m \in Lines, n \in Nat \ {0} : q = OneLine(m, n)
  BY DEF requestReturn, SumsInv, ReturnsOneLine
<1>3. l = m /\ q[m] = n /\ \A k \in Lines \ {m} : q[k] = 0
  BY <1>2 DEF OneLine
<1> HIDE DEF o, q, l
<1>4. VerdictStands' /\ ReturnsOneLine'
  BY <1>1, WriteSums
<1>5. CASE ~fits
  <2>1. UNCHANGED <<returned, rma>>
    BY <1>1, <1>5
  <2> QED
    BY <1>1, <1>4, <2>1 DEF SumsInv, OrdersTyped, WithinOrder, ReceivedIsComplete,
       ReturnedIsTheSum, HeldBack, HeldBackBy
<1>6. CASE fits
  <2>1. /\ \A p \in Orders \ {o} : returned'[p] = returned[p]
        /\ \A k \in Lines : returned'[o][k] = returned[o][k] + q[k]
    BY <1>1, <1>6, PlusTyped DEF SumsInv, OrderInv, TablesTyped
  <2>2. /\ rma'[r] = [state |-> "requested", po |-> o, line |-> m, qty |-> n]
        /\ \A x \in Returns \ {r} : rma'[x] = rma[x]
        /\ DOMAIN rma' = Returns
    BY <1>1, <1>3, <1>6 DEF SumsInv, OrderInv, TablesTyped
  <2>3. \A p \in Orders, k \in Lines :
          /\ returned[p][k] \in Int /\ received[p][k] \in Int
          /\ returned[p][k] <= received[p][k]
    BY DEF SumsInv, OrderInv, TablesTyped, Quantities, WithinOrder
  <2>4. ASSUME NEW p \in Orders, NEW k \in Lines
        PROVE  returned'[p][k] <= received[p][k]
    BY <1>3, <1>6, <2>1, <2>3
  <2>5. ASSUME NEW p \in Orders, NEW k \in Lines
        PROVE  AddsUpTo(HeldBack(p, k)', returned'[p][k])
    <3>1. HeldBack(p, k) \in [Returns -> Nat] /\ HeldBack(p, k)' \in [Returns -> Nat]
      BY DEF SumsInv, OrderInv, TablesTyped, Rma, HeldBack, HeldBackBy
    <3>2. \A x \in Returns \ {r} : HeldBack(p, k)'[x] = HeldBack(p, k)[x]
      BY <2>2 DEF HeldBack, HeldBackBy
    <3>3. AddsUpTo(HeldBack(p, k), returned[p][k])
      BY DEF SumsInv, ReturnedIsTheSum
    <3>4. HeldBack(p, k)[r] = 0
      BY <1>1 DEF HeldBack, HeldBackBy
    <3>5. CASE p = o /\ k = m
      <4>1. HeldBack(p, k)'[r] = HeldBack(p, k)[r] + n
        BY <2>2, <3>4, <3>5 DEF HeldBack, HeldBackBy
      <4>2. AddsUpTo(HeldBack(p, k)', returned[p][k] + n)
        BY <3>1, <3>2, <3>3, <4>1, TallyGrows
      <4> QED
        BY <1>3, <2>1, <3>5, <4>2
    <3>6. CASE ~(p = o /\ k = m)
      <4>1. HeldBack(p, k)'[r] = 0
        BY <2>2, <3>6 DEF HeldBack, HeldBackBy
      <4>2. HeldBack(p, k)' = HeldBack(p, k)
        BY <3>1, <3>2, <3>4, <4>1
      <4>3. returned'[p][k] = returned[p][k]
        BY <1>3, <2>1, <2>3, <3>6
      <4> QED
        BY <3>3, <4>2, <4>3
    <3> QED
      BY <3>5, <3>6
  <2>6. OrdersTyped' /\ WithinOrder' /\ ReceivedIsComplete'
    BY <1>1, <2>4 DEF SumsInv, OrdersTyped, WithinOrder, ReceivedIsComplete
  <2>7. ReturnedIsTheSum'
    BY <2>5 DEF ReturnedIsTheSum
  <2> QED
    BY <1>4, <2>6, <2>7 DEF SumsInv
<1> QED
  BY <1>5, <1>6

(* A return that is turned down is no longer held back.                    *)
LEMMA RespondSums ==
  ASSUME SumsInv, OrderInv', NEW h \in Clerks, respondToReturn(h)
  PROVE  SumsInv'
<1> DEFINE r == counter[h].rma
           o == rma[r].po
           l == rma[r].line
           n == rma[r].qty
           d == counter[h].op
<1>1. /\ UNCHANGED <<po, shipped, received, billed>> /\ Answered(h)
      /\ r \in Returns /\ d \in {"authorized", "rejected"}
  BY DEF respondToReturn, SumsInv, OrderInv, RequestsFit
<1>2. VerdictStands' /\ ReturnsOneLine'
  BY <1>1, WriteSums
<1>3. CASE UNCHANGED <<rma, returned>>
  BY <1>1, <1>2, <1>3 DEF SumsInv, OrdersTyped, WithinOrder, ReceivedIsComplete,
     ReturnedIsTheSum, HeldBack, HeldBackBy
<1>4. CASE Answerable(r)
  <2>1. o \in Orders /\ l \in Lines /\ n \in Nat /\ rma[r].state = "requested"
    BY <1>1, <1>4 DEF Answerable, SumsInv, OrderInv, RmaIsPlaced, TablesTyped, Rma
  <2>2. /\ rma' = [rma EXCEPT ![r].state = d]
        /\ returned' = IF d = "rejected" THEN [returned EXCEPT ![o][l] = @ - n]
                       ELSE returned
    BY <1>4, <2>1 DEF respondToReturn
  <2> HIDE DEF d, o, l, n
  <2>3. /\ rma'[r].state = d /\ rma'[r].po = o /\ rma'[r].line = l /\ rma'[r].qty = n
        /\ \A x \in Returns \ {r} : rma'[x] = rma[x]
        /\ DOMAIN rma' = Returns
    BY <1>1, <2>2 DEF SumsInv, OrderInv, TablesTyped, Rma, o, l, n
  <2>4. \A p \in Orders, k \in Lines :
          /\ returned[p][k] \in Int /\ received[p][k] \in Int
          /\ returned[p][k] <= received[p][k]
          /\ returned'[p][k] = IF d = "rejected" /\ p = o /\ k = l
                               THEN returned[p][k] - n ELSE returned[p][k]
    BY <2>1, <2>2 DEF SumsInv, OrderInv, TablesTyped, Quantities, WithinOrder
  <2>5. ASSUME NEW p \in Orders, NEW k \in Lines
        PROVE  AddsUpTo(HeldBack(p, k)', returned'[p][k])
    <3>1. HeldBack(p, k) \in [Returns -> Nat] /\ HeldBack(p, k)' \in [Returns -> Nat]
      BY DEF SumsInv, OrderInv, TablesTyped, Rma, HeldBack, HeldBackBy
    <3>2. \A x \in Returns \ {r} : HeldBack(p, k)'[x] = HeldBack(p, k)[x]
      BY <2>3 DEF HeldBack, HeldBackBy
    <3>3. AddsUpTo(HeldBack(p, k), returned[p][k])
      BY DEF SumsInv, ReturnedIsTheSum
    <3>4. CASE d = "rejected" /\ p = o /\ k = l
      <4>1. HeldBack(p, k)'[r] = 0
        BY <1>1, <2>3, <3>4 DEF HeldBack, HeldBackBy
      <4>2. HeldBack(p, k)[r] = n
        BY <1>1, <2>1, <3>4 DEF HeldBack, HeldBackBy, o, l, n
      <4>3. AddsUpTo(HeldBack(p, k)', returned[p][k] - n)
        <5> HIDE DEF r
        <5>1. HeldBack(p, k)[r] = HeldBack(p, k)'[r] + n
          BY <2>1, <4>1, <4>2
        <5> QED
          BY <1>1, <2>1, <3>1, <3>2, <3>3, <5>1, TallyShrinks
      <4> QED
        BY <2>4, <3>4, <4>3
    <3>5. CASE ~(d = "rejected" /\ p = o /\ k = l)
      <4>1. HeldBack(p, k)'[r] = HeldBack(p, k)[r]
        BY <1>1, <2>1, <2>3, <3>5 DEF HeldBack, HeldBackBy, o, l, n
      <4>2. HeldBack(p, k)' = HeldBack(p, k)
        BY <3>1, <3>2, <4>1
      <4> QED
        BY <2>4, <3>3, <3>5, <4>2
    <3> QED
      BY <3>4, <3>5
  <2>6. WithinOrder'
    BY <1>1, <2>1, <2>4 DEF SumsInv, WithinOrder
  <2>7. OrdersTyped' /\ ReceivedIsComplete'
    BY <1>1 DEF SumsInv, OrdersTyped, ReceivedIsComplete
  <2>8. ReturnedIsTheSum'
    BY <2>5 DEF ReturnedIsTheSum
  <2> QED
    BY <1>2, <2>6, <2>7, <2>8 DEF SumsInv
<1> QED
  BY <1>3, <1>4 DEF respondToReturn

(* Every step keeps the sums.                                              *)
LEMMA SumsNext == SumsInv /\ [PoNext]_poVars => SumsInv'
<1> SUFFICES ASSUME SumsInv, [PoNext]_poVars PROVE SumsInv'
  OBVIOUS
<1>0. OrderInv'
  BY OrderNextInv DEF SumsInv
<1>1. CASE UNCHANGED poVars
  BY <1>0, <1>1 DEF poVars, SumsInv, OrdersTyped, WithinOrder, ReceivedIsComplete,
     VerdictStands, Complete, ReturnsOneLine, ReturnedIsTheSum, HeldBack, HeldBackBy
<1>2. ASSUME NEW o \in Orders, createPurchaseOrder(o)
      PROVE  SumsInv'
  <2>1. /\ UNCHANGED <<shipped, received, billed, returned, rma, counter>>
        /\ DOMAIN po' = Orders
        /\ \A p \in Orders : po'[p] = "received" => po[p] = "received"
    BY <1>2 DEF createPurchaseOrder, SumsInv, OrdersTyped
  <2> QED
    BY <1>0, <2>1 DEF SumsInv, OrdersTyped, WithinOrder, ReceivedIsComplete,
     VerdictStands, Complete, ReturnsOneLine, ReturnedIsTheSum, HeldBack, HeldBackBy
<1>3. ASSUME NEW h \in Clerks, NEW o \in Orders,
             issueAsked(h, o) \/ cancelAsked(h, o) \/ acknowledgeAsked(h, o)
      PROVE  SumsInv'
  <2>1. PICK op \in {"issue", "cancel", "acknowledge"} :
          Ask(h, [NotAsking EXCEPT !.op = op, !.po = o])
    BY <1>3 DEF issueAsked, cancelAsked, acknowledgeAsked
  <2>2. [NotAsking EXCEPT !.op = op, !.po = o].op = op
    BY DEF NotAsking
  <2> QED
    BY <1>0, <2>1, <2>2, AskSums
<1>4. ASSUME NEW h \in Clerks, NEW o \in Orders, NEW q,
             NEW op \in {"ship", "receive", "invoice", "return"},
             NEW verdict, lockPo(h, o, op, q, verdict),
             op = "receive" /\ verdict => Complete(o, q),
             op = "return" => \E l \in Lines : \E n \in Nat \ {0} : q = OneLine(l, n)
      PROVE  SumsInv'
  <2> DEFINE r == [NotAsking EXCEPT !.op = op, !.po = o, !.locks = TRUE,
                                    !.qty = q, !.verdict = verdict]
  <2>1. Ask(h, r)
    BY <1>4 DEF lockPo
  <2>2. r.op = op /\ r.po = o /\ r.qty = q /\ r.verdict = verdict
    BY DEF NotAsking
  <2> HIDE DEF r
  <2> QED
    BY <1>0, <1>4, <2>1, <2>2, AskSums
<1>5. ASSUME NEW h \in Clerks, NEW o \in Orders, NEW q \in Amounts,
             \/ recordShipmentAsked(h, o, q) \/ recordReceiptAsked(h, o, q)
             \/ \E priced \in BOOLEAN : submitInvoiceAsked(h, o, q, priced)
      PROVE  SumsInv'
  BY <1>4, <1>5 DEF recordShipmentAsked, recordReceiptAsked, submitInvoiceAsked
<1>6. ASSUME NEW h \in Clerks, NEW o \in Orders, NEW l \in Lines,
             NEW n \in 1..Ordered[l], requestReturnAsked(h, o, l, n)
      PROVE  SumsInv'
  <2>1. n \in Nat \ {0}
    BY PoAssumption
  <2>2. lockPo(h, o, "return", OneLine(l, n), TRUE)
    BY <1>6 DEF requestReturnAsked
  <2> QED
    BY <1>4, <2>1, <2>2
<1>7. ASSUME NEW h \in Clerks, NEW r \in Returns, NEW d \in {"authorized", "rejected"},
             respondToReturnAsked(h, r, d)
      PROVE  SumsInv'
  <2> DEFINE a == [NotAsking EXCEPT !.op = d, !.rma = r]
  <2>1. Ask(h, a) /\ a.op = d
    BY <1>7 DEF respondToReturnAsked, NotAsking
  <2> HIDE DEF a
  <2> QED
    BY <1>0, <2>1, AskSums
<1> QED
  BY <1>0, <1>1, <1>2, <1>3, <1>5, <1>6, <1>7, MoveSums, ShipmentSums, ReceiptSums,
     InvoiceSums, RespondSums, ReturnSums DEF PoNext

(* For any number of orders, lines and requests, the quantities of an      *)
(* order add up.                                                           *)
THEOREM OrdersAddUp == PoSpec => []QuantitiesAddUp
<1>1. SumsInv => QuantitiesAddUp
  BY DEF SumsInv, WithinOrder, ReceivedIsComplete, QuantitiesAddUp
<1> QED
  BY <1>1, SumsInit, SumsNext, PTL DEF PoSpec

(* What is on its way back from a line is the sum of its returns that are  *)
(* asked for or authorized, over however many there are.                   *)
THEOREM ReturnedIsWhatStands == PoSpec => []ReturnedIsTheSum
<1>1. SumsInv => ReturnedIsTheSum
  BY DEF SumsInv
<1> QED
  BY <1>1, SumsInit, SumsNext, PTL DEF PoSpec

-----------------------------------------------------------------------------
(***************************************************************************)
(* PriceList. The decision is written to whatever the proposal has become, *)
(* so nothing of what the request read is needed but that the rows exist:  *)
(* what carries the property is that accepted periods never overlap.       *)
(***************************************************************************)

Periods == [state : {"none", "proposed", "accepted", "rejected", "withdrawn"},
            from : Nat, to : Nat]

PriceShape ==
  /\ date \in Nat
  /\ price \in [PriceIds -> Periods]
  /\ DOMAIN deciding = Deciders
  /\ \A h \in Deciders : deciding[h] # NoDecision =>
       /\ deciding[h].price \in PriceIds
       /\ deciding[h].closes \in PriceIds \cup {"none"}

PriceInv == PriceShape /\ NoOverlap(price)

(* No price is on file, and none is in force.                              *)
LEMMA PriceInitInv == PriceInit => PriceInv
<1> SUFFICES ASSUME PriceInit PROVE PriceInv
  OBVIOUS
<1>1. PriceShape
  BY PriceAssumption DEF PriceInit, PriceShape, Periods, NoPrice, Forever, NoDecision
<1>2. NoOverlap(price)
  BY DEF PriceInit, NoOverlap, NoPrice
<1> QED
  BY <1>1, <1>2 DEF PriceInv

(* A row that is not accepted takes part in no overlap.                    *)
LEMMA OtherRow ==
  ASSUME NoOverlap(price), price \in [PriceIds -> Periods],
         NEW p \in PriceIds, NEW row \in Periods, row.state # "accepted"
  PROVE  NoOverlap([price EXCEPT ![p] = row])
BY DEF NoOverlap, Apart

(* Reading for a decision writes nothing.                                  *)
LEMMA WeighsInv ==
  ASSUME PriceInv, NEW h \in Deciders, NEW p \in PriceIds, NEW to,
         NEW closes \in PriceIds \cup {"none"}, Weighs(h, p, to, closes)
  PROVE  PriceInv'
BY DEF PriceInv, PriceShape, Weighs, NoOverlap, NoDecision

(* A proposal is no accepted price.                                        *)
LEMMA ProposeInv ==
  ASSUME PriceInv, NEW p \in PriceIds, NEW from \in 0..LastPriceDay,
         proposePrice(p, from)
  PROVE  PriceInv'
<1> DEFINE row == [state |-> "proposed", from |-> from, to |-> Forever]
<1>1. row \in Periods /\ row.state # "accepted"
  BY PriceAssumption DEF Periods, Forever
<1>2. price' = [price EXCEPT ![p] = row]
  BY DEF proposePrice
<1> HIDE DEF row
<1>3. NoOverlap(price')
  BY <1>1, <1>2, OtherRow DEF PriceInv, PriceShape
<1>4. PriceShape'
  BY <1>1, <1>2 DEF PriceInv, PriceShape, proposePrice
<1> QED
  BY <1>3, <1>4 DEF PriceInv, NoOverlap

(* The constraint refuses the close and the decision that would overlap.   *)
LEMMA DecideInv ==
  ASSUME PriceInv, NEW h \in Deciders, decidePrice(h)
  PROVE  PriceInv'
<1> DEFINE p == deciding[h].price
           closed == Closed(deciding[h].closes, price[p].from)
           after == [closed EXCEPT ![p].state = deciding[h].to]
<1>1. p \in PriceIds /\ deciding[h].closes \in PriceIds \cup {"none"}
  BY DEF decidePrice, PriceInv, PriceShape, NoDecision
<1>2. closed \in [PriceIds -> Periods]
  BY <1>1 DEF PriceInv, PriceShape, Closed, Periods
<1>3. deciding[h].to \in {"accepted", "rejected"}
  BY DEF decidePrice
<1>4. price' = IF NoOverlap(after) THEN after ELSE price
  BY DEF decidePrice
<1> HIDE DEF p, closed
<1>5. after \in [PriceIds -> Periods]
  BY <1>1, <1>2, <1>3 DEF Periods
<1> HIDE DEF after
<1>6. NoOverlap(price')
  BY <1>4 DEF PriceInv
<1>7. PriceShape'
  BY <1>4, <1>5 DEF PriceInv, PriceShape, decidePrice
<1> QED
  BY <1>6, <1>7 DEF PriceInv, NoOverlap

(* A withdrawn proposal was not accepted, and is not.                      *)
LEMMA WithdrawInv ==
  ASSUME PriceInv, NEW h \in Deciders, withdrawPrice(h)
  PROVE  PriceInv'
<1> DEFINE p == deciding[h].price
           row == [price[p] EXCEPT !.state = "withdrawn"]
<1>1. p \in PriceIds
  BY DEF withdrawPrice, PriceInv, PriceShape, NoDecision
<1>2. row \in Periods /\ row.state # "accepted"
  BY <1>1 DEF PriceInv, PriceShape, Periods
<1>3. price' = price \/ price' = [price EXCEPT ![p] = row]
  BY <1>1 DEF withdrawPrice, PriceInv, PriceShape
<1>4. DOMAIN deciding' = Deciders /\ date' = date
      /\ \A k \in Deciders : deciding'[k] \in {deciding[k], NoDecision}
  BY DEF withdrawPrice, PriceInv, PriceShape
<1> HIDE DEF p, row
<1>5. NoOverlap(price')
  BY <1>1, <1>2, <1>3, OtherRow DEF PriceInv, PriceShape
<1>6. PriceShape'
  BY <1>1, <1>2, <1>3, <1>4 DEF PriceInv, PriceShape
<1> QED
  BY <1>5, <1>6 DEF PriceInv, NoOverlap

(* Every step of the vendor and of the office keeps the invariant.         *)
LEMMA PriceNextInv == PriceInv /\ [PriceNext]_priceVars => PriceInv'
<1> SUFFICES ASSUME PriceInv, [PriceNext]_priceVars PROVE PriceInv'
  OBVIOUS
<1>1. CASE DatePasses \/ UNCHANGED priceVars
  BY <1>1 DEF DatePasses, priceVars, PriceInv, PriceShape, NoOverlap
<1>2. ASSUME NEW h \in Deciders, NEW p \in PriceIds,
             withdrawAsked(h, p) \/ rejectAsked(h, p) \/ acceptAsked(h, p)
      PROVE  PriceInv'
  BY <1>2, WeighsInv DEF withdrawAsked, rejectAsked, acceptAsked
<1> QED
  BY <1>1, <1>2, ProposeInv, DecideInv, WithdrawInv DEF PriceNext

(* Whatever is proposed, withdrawn and decided at once, no day has two     *)
(* accepted prices.                                                        *)
THEOREM OnePriceOnAnyDay == PriceSpec => []OnePricePerDay
<1>1. PriceInv => OnePricePerDay
  <2> SUFFICES ASSUME PriceInv, NEW d \in 0..LastPriceDay,
                      NEW p \in PriceIds, NEW q \in PriceIds,
                      Covers(p, d), Covers(q, d), p # q
               PROVE  FALSE
    BY DEF OnePricePerDay
  <2>1. Apart(price[p], price[q])
    BY DEF PriceInv, NoOverlap, Covers
  <2>2. d \in Nat /\ price[p] \in Periods /\ price[q] \in Periods
    BY PriceAssumption DEF PriceInv, PriceShape
  <2> QED
    BY <2>1, <2>2 DEF Apart, Covers, Periods
<1> QED
  BY <1>1, PriceInitInv, PriceNextInv, PTL DEF PriceSpec

-----------------------------------------------------------------------------
(***************************************************************************)
(* Payments. The invoice is locked from what a request reads of it to what *)
(* it writes (HeldStands), and what is paid is the sum of the payments     *)
(* that stand (PaidIsTheSum).                                              *)
(***************************************************************************)

Worth(p, i) ==
  IF payment[p].inv = i /\ payment[p].state = "succeeded" THEN payment[p].amount ELSE 0

WorthTo(i) == [p \in PaymentIds |-> Worth(p, i)]

PayTyped ==
  /\ voided \subseteq Invoices
  /\ paid \in [Invoices -> Nat] /\ stated \in [Invoices -> Nat]
  /\ DOMAIN payment = PaymentIds
  /\ \A p \in PaymentIds :
       /\ payment[p].amount \in Nat
       /\ payment[p].state # "none" => payment[p].inv \in Invoices
       /\ DOMAIN payment[p] = {"state", "inv", "amount"}
  /\ DOMAIN till = Cashiers

(* What a request read of the invoice it holds is still so: what is paid,  *)
(* and the payment it is to return.                                        *)
HeldStands ==
  \A h \in Cashiers : till[h].op # "none" =>
    LET i == till[h].inv IN
    /\ i \in Invoices /\ till[h].locks /\ till[h].amount \in Nat
    /\ till[h].op \in {"record", "return", "void"}
    /\ till[h].op \in {"record", "return"} => till[h].before = paid[i]
    /\ till[h].op = "return" =>
         /\ till[h].pay \in PaymentIds
         /\ payment[till[h].pay].state = "succeeded"
         /\ payment[till[h].pay].inv = i
         /\ payment[till[h].pay].amount = till[h].amount

OneInvoiceHolder ==
  \A h, k \in Cashiers :
    till[h].op # "none" /\ till[k].op # "none" /\ till[h].inv = till[k].inv => h = k

(* What is paid is the sum of the payments that stand.                     *)
PaidIsTheSum == \A i \in Invoices : AddsUpTo(WorthTo(i), paid[i])

NothingOnVoid == \A i \in voided : ~HoldsMoney(i)

WithinTotal == \A i \in Invoices : paid[i] <= Total[i] /\ stated[i] = paid[i]

IdleIsFree == \A h \in Cashiers : till[h].op = "none" => ~till[h].locks

PayInv ==
  /\ PayTyped /\ HeldStands /\ OneInvoiceHolder /\ IdleIsFree
  /\ PaidIsTheSum /\ NothingOnVoid /\ WithinTotal

(* Nothing is paid.                                                        *)
LEMMA PayInitInv == PayInit => PayInv
<1> SUFFICES ASSUME PayInit PROVE PayInv
  OBVIOUS
<1>1. PayTyped /\ HeldStands /\ OneInvoiceHolder /\ IdleIsFree
  BY DEF PayInit, PayTyped, HeldStands, OneInvoiceHolder, IdleIsFree, NoTill, NoPayment
<1>2. NothingOnVoid /\ WithinTotal
  BY PayAssumption DEF PayInit, NothingOnVoid, WithinTotal
<1>3. PaidIsTheSum
  <2>1. ASSUME NEW i \in Invoices
        PROVE  /\ DOMAIN WorthTo(i) = PaymentIds /\ paid[i] = 0
               /\ \A p \in PaymentIds : WorthTo(i)[p] = 0
    BY DEF PayInit, WorthTo, Worth, NoPayment
  <2> QED
    BY <2>1, TallyStart DEF PaidIsTheSum
<1> QED
  BY <1>1, <1>2, <1>3 DEF PayInv

(* A request takes the lock nobody has, and reads under it.                *)
LEMMA AskedInv ==
  ASSUME PayInv, NEW h \in Cashiers,
         \/ \E i \in Invoices :
              \/ voidInvoiceAsked(h, i)
              \/ \E amount \in 1..Total[i] : recordPaymentAsked(h, i, amount)
         \/ \E p \in PaymentIds : returnPaymentAsked(h, p)
  PROVE  PayInv'
<1> DEFINE Good(r, i) ==
      /\ r.inv = i /\ r.locks /\ r.amount \in Nat
      /\ r.op \in {"record", "return", "void"}
      /\ r.op \in {"record", "return"} => r.before = paid[i]
      /\ r.op = "return" =>
           /\ r.pay \in PaymentIds /\ payment[r.pay].state = "succeeded"
           /\ payment[r.pay].inv = i /\ payment[r.pay].amount = r.amount
<1>1. \E i \in Invoices : \E r : Good(r, i) /\ lockedInvoice(h, i, r)
  <2>1. ASSUME NEW i \in Invoices, voidInvoiceAsked(h, i)
        PROVE  <1>1!:
    <3> DEFINE r == [NoTill EXCEPT !.op = "void", !.inv = i, !.locks = TRUE]
    <3>1. lockedInvoice(h, i, r)
      BY <2>1 DEF voidInvoiceAsked
    <3>2. Good(r, i)
      BY DEF NoTill
    <3> QED
      BY <3>1, <3>2
  <2>2. ASSUME NEW i \in Invoices, NEW amount \in 1..Total[i],
               recordPaymentAsked(h, i, amount)
        PROVE  <1>1!:
    <3> DEFINE r == [op |-> "record", inv |-> i, locks |-> TRUE,
                     pay |-> "none", amount |-> amount, before |-> paid[i]]
    <3>1. lockedInvoice(h, i, r)
      BY <2>2 DEF recordPaymentAsked
    <3>2. Good(r, i)
      BY PayAssumption
    <3> QED
      BY <3>1, <3>2
  <2>3. ASSUME NEW p \in PaymentIds, returnPaymentAsked(h, p)
        PROVE  <1>1!:
    <3> DEFINE i == payment[p].inv
               r == [op |-> "return", inv |-> i, locks |-> TRUE,
                     pay |-> p, amount |-> payment[p].amount, before |-> paid[i]]
    <3>1. lockedInvoice(h, i, r) /\ payment[p].state = "succeeded"
      BY <2>3 DEF returnPaymentAsked
    <3>2. Good(r, i) /\ i \in Invoices
      BY <3>1 DEF PayInv, PayTyped
    <3> QED
      BY <3>1, <3>2
  <2> QED
    BY <2>1, <2>2, <2>3
<1>2. PICK i \in Invoices : \E r : Good(r, i) /\ lockedInvoice(h, i, r)
  BY <1>1
<1>a. PICK r : Good(r, i) /\ lockedInvoice(h, i, r)
  BY <1>2
<1>3. /\ UNCHANGED payTables
      /\ till' = [till EXCEPT ![h] = r]
      /\ \A k \in Cashiers : till[k].op # "none" => till[k].inv # i
  BY <1>a DEF lockedInvoice, PayInv, HeldStands
<1> HIDE DEF Good
<1>4. PayTyped' /\ PaidIsTheSum' /\ NothingOnVoid' /\ WithinTotal'
  BY <1>3 DEF payTables, PayInv, PayTyped, PaidIsTheSum, NothingOnVoid, WithinTotal,
     WorthTo, Worth, HoldsMoney
<1>5. HeldStands'
  BY <1>a, <1>3 DEF Good, payTables, PayInv, PayTyped, HeldStands
<1>6. OneInvoiceHolder' /\ IdleIsFree'
  BY <1>a, <1>3 DEF Good, PayInv, PayTyped, OneInvoiceHolder, IdleIsFree
<1> QED
  BY <1>4, <1>5, <1>6 DEF PayInv

(* Who has the lock of no invoice that changes keeps what it read.         *)
LEMMA OtherInvoicesStand ==
  ASSUME PayInv, NEW h \in Cashiers, till[h].op # "none",
         till' = [till EXCEPT ![h] = NoTill],
         \A i \in Invoices \ {till[h].inv} : paid'[i] = paid[i],
         \A p \in PaymentIds :
           payment[p].state = "succeeded" /\ payment[p].inv # till[h].inv =>
             payment'[p] = payment[p]
  PROVE  HeldStands' /\ OneInvoiceHolder' /\ IdleIsFree' /\ DOMAIN till' = Cashiers
<1>1. /\ till'[h].op = "none" /\ ~till'[h].locks
      /\ \A k \in Cashiers \ {h} : till'[k] = till[k]
      /\ DOMAIN till' = Cashiers
  BY DEF PayInv, PayTyped, NoTill
<1>2. \A k \in Cashiers \ {h} : till[k].op # "none" => till[k].inv # till[h].inv
  BY DEF PayInv, OneInvoiceHolder
<1>3. ASSUME NEW k \in Cashiers \ {h}, till[k].op # "none"
      PROVE  /\ till[k].inv \in Invoices /\ paid'[till[k].inv] = paid[till[k].inv]
             /\ till[k].op = "return" => payment'[till[k].pay] = payment[till[k].pay]
  BY <1>2, <1>3 DEF PayInv, HeldStands
<1>4. HeldStands'
  BY <1>1, <1>3 DEF PayInv, HeldStands
<1> QED
  BY <1>1, <1>4 DEF PayInv, OneInvoiceHolder, IdleIsFree

(* A payment is recorded where there is room for it.                       *)
LEMMA RecordInv ==
  ASSUME PayInv, NEW h \in Cashiers, NEW p \in PaymentIds, recordPayment(h, p)
  PROVE  PayInv'
<1> DEFINE i == till[h].inv
           a == till[h].amount
<1>1. /\ till[h].op = "record" /\ payment[p].state = "none" /\ voided' = voided
      /\ till' = [till EXCEPT ![h] = NoTill]
      /\ i \in Invoices /\ a \in Nat /\ till[h].before = paid[i]
  BY DEF recordPayment, Finished, PayInv, HeldStands
<1>2. CASE i \notin voided /\ paid[i] + a <= Total[i]
  <2>1. /\ payment' = [payment EXCEPT ![p] =
                         [state |-> "succeeded", inv |-> i, amount |-> a]]
        /\ paid' = [paid EXCEPT ![i] = @ + a]
        /\ stated' = [stated EXCEPT ![i] = paid[i] + a]
    BY <1>1, <1>2 DEF recordPayment
  <2> HIDE DEF i, a
  <2>2. /\ payment'[p] = [state |-> "succeeded", inv |-> i, amount |-> a]
        /\ \A x \in PaymentIds \ {p} : payment'[x] = payment[x]
        /\ DOMAIN payment' = PaymentIds
        /\ paid'[i] = paid[i] + a /\ paid[i] \in Nat
        /\ \A j \in Invoices \ {i} : paid'[j] = paid[j]
    BY <1>1, <2>1 DEF PayInv, PayTyped
  <2>3. HeldStands' /\ OneInvoiceHolder' /\ IdleIsFree' /\ DOMAIN till' = Cashiers
    BY <1>1, <2>2, OtherInvoicesStand DEF i
  <2>4. PayTyped'
    BY <1>1, <2>1, <2>2, <2>3 DEF PayInv, PayTyped
  <2>5. WithinTotal'
    BY <1>1, <1>2, <2>1, <2>2 DEF PayInv, PayTyped, WithinTotal
  <2>6. NothingOnVoid'
    BY <1>1, <1>2, <2>2 DEF PayInv, NothingOnVoid, HoldsMoney
  <2>7. PaidIsTheSum'
    <3>1. ASSUME NEW j \in Invoices
          PROVE  AddsUpTo(WorthTo(j)', paid'[j])
      <4>1. /\ WorthTo(j) \in [PaymentIds -> Nat] /\ WorthTo(j)' \in [PaymentIds -> Nat]
        BY <2>4 DEF PayInv, PayTyped, WorthTo, Worth
      <4>2. \A x \in PaymentIds \ {p} : WorthTo(j)'[x] = WorthTo(j)[x]
        BY <2>2 DEF WorthTo, Worth
      <4>3. AddsUpTo(WorthTo(j), paid[j])
        BY DEF PayInv, PaidIsTheSum
      <4>4. CASE j = i
        <5>1. WorthTo(j)'[p] = WorthTo(j)[p] + a
          BY <1>1, <2>2, <4>4 DEF WorthTo, Worth
        <5>2. AddsUpTo(WorthTo(j)', paid[j] + a)
          BY <1>1, <4>1, <4>2, <4>3, <5>1, TallyGrows
        <5> QED
          BY <1>1, <2>2, <4>4, <5>2
      <4>5. CASE j # i
        <5>1. WorthTo(j)'[p] = WorthTo(j)[p]
          BY <1>1, <2>2, <4>5 DEF WorthTo, Worth
        <5>2. WorthTo(j)' = WorthTo(j)
          BY <4>1, <4>2, <5>1
        <5> QED
          BY <2>2, <4>3, <4>5, <5>2
      <4> QED
        BY <4>4, <4>5
    <3> QED
      BY <3>1 DEF PaidIsTheSum
  <2> QED
    BY <2>3, <2>4, <2>5, <2>6, <2>7 DEF PayInv
<1>3. CASE ~(i \notin voided /\ paid[i] + a <= Total[i])
  <2>1. UNCHANGED <<payment, paid, stated>>
    BY <1>3 DEF recordPayment
  <2>2. HeldStands' /\ OneInvoiceHolder' /\ IdleIsFree' /\ DOMAIN till' = Cashiers
    BY <1>1, <2>1, OtherInvoicesStand
  <2> QED
    BY <1>1, <2>1, <2>2
       DEF PayInv, PayTyped, PaidIsTheSum, NothingOnVoid, WithinTotal,
           WorthTo, Worth, HoldsMoney
<1> QED
  BY <1>2, <1>3

(* A payment comes back: it is the one that was read, and it still stands. *)
LEMMA PayReturnInv ==
  ASSUME PayInv, NEW h \in Cashiers, NEW as \in {"returned", "refunded"},
         returnPayment(h, as)
  PROVE  PayInv'
<1> DEFINE i == till[h].inv
           p == till[h].pay
           a == till[h].amount
<1>1. /\ till[h].op = "return" /\ voided' = voided
      /\ till' = [till EXCEPT ![h] = NoTill]
      /\ i \in Invoices /\ a \in Nat /\ till[h].before = paid[i]
      /\ p \in PaymentIds /\ payment[p].state = "succeeded"
      /\ payment[p].inv = i /\ payment[p].amount = a
  BY DEF returnPayment, Finished, PayInv, HeldStands
<1>2. /\ payment' = [payment EXCEPT ![p].state = as]
      /\ paid' = [paid EXCEPT ![i] = @ - a]
      /\ stated' = [stated EXCEPT ![i] = paid[i] - a]
  BY <1>1 DEF returnPayment
<1>3. HeldStands' /\ OneInvoiceHolder' /\ IdleIsFree' /\ DOMAIN till' = Cashiers
  <2>1. /\ \A j \in Invoices \ {i} : paid'[j] = paid[j]
        /\ \A x \in PaymentIds : payment[x].inv # i => payment'[x] = payment[x]
    BY <1>1, <1>2 DEF PayInv, PayTyped
  <2> QED
    BY <1>1, <2>1, OtherInvoicesStand
<1> HIDE DEF i, p, a
<1>4. /\ payment'[p].state = as /\ payment'[p].inv = i /\ payment'[p].amount = a
      /\ DOMAIN payment'[p] = {"state", "inv", "amount"}
      /\ \A x \in PaymentIds \ {p} : payment'[x] = payment[x]
      /\ DOMAIN payment' = PaymentIds
      /\ paid'[i] = paid[i] - a /\ stated'[i] = paid[i] - a
      /\ paid[i] \in Nat /\ DOMAIN paid' = Invoices
      /\ \A j \in Invoices \ {i} : paid'[j] = paid[j] /\ stated'[j] = stated[j]
  BY <1>1, <1>2 DEF PayInv, PayTyped
<1>5. ASSUME NEW j \in Invoices
      PROVE  paid'[j] \in Nat /\ AddsUpTo(WorthTo(j)', paid'[j])
  <2>1. WorthTo(j) \in [PaymentIds -> Nat] /\ WorthTo(j)' \in [PaymentIds -> Nat]
    <3>1. \A x \in PaymentIds : payment[x].amount \in Nat /\ payment'[x].amount \in Nat
      BY <1>1, <1>4 DEF PayInv, PayTyped
    <3> QED
      BY <3>1 DEF WorthTo, Worth
  <2>2. \A x \in PaymentIds \ {p} : WorthTo(j)'[x] = WorthTo(j)[x]
    BY <1>4 DEF WorthTo, Worth
  <2>3. AddsUpTo(WorthTo(j), paid[j])
    BY DEF PayInv, PaidIsTheSum
  <2>4. CASE j = i
    <3>1. WorthTo(j)[p] = WorthTo(j)'[p] + a
      <4>1. as # "succeeded"
        OBVIOUS
      <4>2. WorthTo(j)'[p] = 0
        BY <1>1, <1>4, <4>1 DEF WorthTo, Worth
      <4>3. WorthTo(j)[p] = a
        BY <1>1, <2>4 DEF WorthTo, Worth
      <4> QED
        BY <1>1, <4>2, <4>3
    <3>2. paid[j] - a \in Nat /\ AddsUpTo(WorthTo(j)', paid[j] - a)
      BY <1>1, <2>1, <2>2, <2>3, <3>1, TallyShrinks
    <3> QED
      BY <1>4, <2>4, <3>2
  <2>5. CASE j # i
    <3>1. WorthTo(j)'[p] = WorthTo(j)[p]
      BY <1>1, <1>4, <2>5 DEF WorthTo, Worth
    <3>2. WorthTo(j)' = WorthTo(j)
      BY <2>1, <2>2, <3>1
    <3> QED
      BY <1>4, <2>3, <2>5, <3>2 DEF PayInv, PayTyped
  <2> QED
    BY <2>4, <2>5
<1>6. PayTyped'
  <2>1. stated' \in [Invoices -> Nat]
    BY <1>1, <1>2, <1>4, <1>5 DEF PayInv, PayTyped
  <2>2. paid' \in [Invoices -> Nat]
    BY <1>2, <1>5 DEF PayInv, PayTyped
  <2> QED
    BY <1>1, <1>3, <1>4, <2>1, <2>2 DEF PayInv, PayTyped
<1>7. WithinTotal'
  <2>1. \A j \in Invoices : paid'[j] <= paid[j] /\ stated'[j] = paid'[j]
    BY <1>1, <1>4 DEF PayInv, PayTyped, WithinTotal
  <2> QED
    BY <1>5, <2>1, PayAssumption DEF PayInv, PayTyped, WithinTotal
<1>8. NothingOnVoid'
  BY <1>1, <1>4 DEF PayInv, NothingOnVoid, HoldsMoney
<1>9. PaidIsTheSum'
  BY <1>5 DEF PaidIsTheSum
<1> QED
  BY <1>3, <1>6, <1>7, <1>8, <1>9 DEF PayInv

(* An invoice is voided when no payment of it stands, and a request may be *)
(* lost.                                                                   *)
LEMMA VoidInv ==
  ASSUME PayInv, NEW h \in Cashiers, voidInvoice(h) \/ payLost(h)
  PROVE  PayInv'
<1>1. /\ UNCHANGED <<payment, paid, stated>>
      /\ till' = [till EXCEPT ![h] = NoTill]
      /\ \/ voided' = voided
         \/ /\ till[h].op = "void" /\ ~HoldsMoney(till[h].inv)
            /\ voided' = voided \cup {till[h].inv}
  <2>1. CASE voidInvoice(h)
    BY <2>1 DEF voidInvoice, Finished
  <2>2. CASE payLost(h)
    BY <2>2 DEF payLost, Finished, payTables
  <2> QED
    BY <2>1, <2>2
<1>2. CASE till[h].op # "none"
  <2>1. HeldStands' /\ OneInvoiceHolder' /\ IdleIsFree' /\ DOMAIN till' = Cashiers
    BY <1>1, <1>2, OtherInvoicesStand
  <2>2. till[h].inv \in Invoices
    BY <1>2 DEF PayInv, HeldStands
  <2> QED
    BY <1>1, <2>1, <2>2
       DEF PayInv, PayTyped, PaidIsTheSum, NothingOnVoid, WithinTotal,
           WorthTo, Worth, HoldsMoney
<1>3. CASE till[h].op = "none"
  <2>1. /\ till'[h].op = "none" /\ ~till'[h].locks /\ voided' = voided
        /\ \A k \in Cashiers \ {h} : till'[k] = till[k]
        /\ DOMAIN till' = Cashiers
    BY <1>1, <1>3 DEF PayInv, PayTyped, NoTill
  <2> QED
    BY <1>1, <1>3, <2>1
       DEF PayInv, PayTyped, HeldStands, OneInvoiceHolder, IdleIsFree, PaidIsTheSum,
           NothingOnVoid, WithinTotal, WorthTo, Worth, HoldsMoney
<1> QED
  BY <1>2, <1>3

(* Every step keeps the invariant.                                         *)
LEMMA PayNextInv == PayInv /\ [PayNext]_payVars => PayInv'
<1>1. ASSUME PayInv, UNCHANGED payVars
      PROVE  PayInv'
  BY <1>1 DEF payVars, PayInv, PayTyped, HeldStands, OneInvoiceHolder, IdleIsFree,
     PaidIsTheSum, NothingOnVoid, WithinTotal, WorthTo, Worth, HoldsMoney
<1> QED
  BY <1>1, AskedInv, RecordInv, PayReturnInv, VoidInv DEF PayNext

(* For any number of invoices, payments and requests, what is paid fits,   *)
(* is what is stated, and is nothing on a void invoice.                    *)
THEOREM PaymentsAddUp == PaySpec => []PaidAddsUp
<1>1. ASSUME PayInv, NEW i \in voided
      PROVE  paid[i] = 0
  <2>1. /\ i \in Invoices /\ DOMAIN WorthTo(i) = PaymentIds
        /\ \A p \in PaymentIds : WorthTo(i)[p] = 0
    BY <1>1 DEF PayInv, PayTyped, NothingOnVoid, HoldsMoney, WorthTo, Worth
  <2>2. AddsUpTo(WorthTo(i), paid[i])
    BY <1>1, <2>1 DEF PayInv, PaidIsTheSum
  <2> QED
    BY <2>1, <2>2, TallyIsNat
<1>2. PayInv => PaidAddsUp
  BY <1>1 DEF PayInv, WithinTotal, PaidAddsUp
<1> QED
  BY <1>2, PayInitInv, PayNextInv, PTL DEF PaySpec

(* What an invoice says is paid, which Payments keeps as a number, is the  *)
(* sum of the payments that stand against it, over however many there are, *)
(* as the code's SUM over the payments table has it.                       *)
THEOREM PaidIsWhatStands == PaySpec => []PaidIsTheSum
<1>1. PayInv => PaidIsTheSum
  BY DEF PayInv
<1> QED
  BY <1>1, PayInitInv, PayNextInv, PTL DEF PaySpec

-----------------------------------------------------------------------------
(***************************************************************************)
(* Settlements. A move is decided on a statement that is read without a    *)
(* lock; the trigger looks again at the state the firm moves it on from.   *)
(***************************************************************************)

(* A request between its read and its write names a statement and a state  *)
(* that is not yet that of a draft.                                        *)
SettleInv ==
  /\ DOMAIN statement = Statements
  /\ DOMAIN position = Partners
  /\ \A h \in Partners : position[h] # NoPosition =>
       /\ position[h].on \in Statements
       /\ position[h].to \in {"issued", "acknowledged", "disputed"}

(* Nothing is asked.                                                       *)
LEMMA SettleInitInv == SettleInit => SettleInv
BY DEF SettleInit, SettleInv

(* Reading for a position and writing it keep that.                        *)
LEMMA SettleNextInv == SettleInv /\ [SettleNext]_settleVars => SettleInv'
<1> SUFFICES ASSUME SettleInv, [SettleNext]_settleVars PROVE SettleInv'
  OBVIOUS
<1>1. ASSUME NEW h \in Partners, NEW s \in Statements,
             NEW to \in {"issued", "acknowledged", "disputed"},
             loadForPosition(h, s, to)
      PROVE  SettleInv'
  BY <1>1 DEF loadForPosition, SettleInv
<1>2. ASSUME NEW h \in Partners, settlementWrite(h)
      PROVE  SettleInv'
  BY <1>2 DEF settlementWrite, SettleInv
<1>3. CASE UNCHANGED settleVars
  BY <1>3 DEF settleVars, SettleInv
<1> QED
  BY <1>1, <1>2, <1>3
     DEF SettleNext, issueSettlementAsked, acknowledgeSettlementAsked,
         disputeSettlementAsked

(* However many requests of the firm and of the office overlap, what the   *)
(* firm acknowledges after it disputed is refused.                         *)
THEOREM DisputesStand == SettleSpec => DisputeIsNotAcknowledged
<1>1. ASSUME SettleInv, [SettleNext]_settleVars, NEW s \in Statements,
             statement[s] = "disputed"
      PROVE  statement'[s] # "acknowledged"
  <2>1. CASE UNCHANGED statement
    BY <1>1, <2>1
  <2>2. ASSUME NEW h \in Partners, settlementWrite(h)
        PROVE  statement'[s] # "acknowledged"
    <3>1. CASE position[h].on # s
      BY <1>1, <2>2, <3>1 DEF settlementWrite, SettleInv
    <3>2. CASE position[h].on = s
      <4>1. statement'[s] = Position("disputed", position[h].to)
        BY <1>1, <2>2, <3>2 DEF settlementWrite, SettleInv
      <4>2. position[h].to \in {"issued", "acknowledged", "disputed"}
        BY <2>2 , <1>1 DEF settlementWrite, SettleInv
      <4> QED
        BY <4>1, <4>2 DEF Position, FirmMayFrom
    <3> QED
      BY <3>1, <3>2
  <2> QED
    BY <1>1, <2>1, <2>2
       DEF SettleNext, issueSettlementAsked, acknowledgeSettlementAsked,
           disputeSettlementAsked, loadForPosition, settleVars
<1>2. SettleInv /\ [SettleNext]_settleVars
      => [\A s \in Statements :
            statement[s] = "disputed" => statement'[s] # "acknowledged"]_settleVars
  BY <1>1
<1> QED
  BY <1>2, SettleInitInv, SettleNextInv, PTL
     DEF SettleSpec, DisputeIsNotAcknowledged
=============================================================================
