--------------------------- MODULE PurchaseOrders ---------------------------
(***************************************************************************)
(* A purchase order from draft to received: the office raises, issues and  *)
(* cancels it, the vendor acknowledges, ships and bills it, the office     *)
(* receives the goods and asks to send some back, and the vendor answers.  *)
(*                                                                         *)
(* Every handler is two steps, what it reads and decides and what it then  *)
(* writes, with other requests between the two.  The handlers that add a   *)
(* quantity take the order's row lock before they read (lockPo); the       *)
(* others hold nothing, and the office's write whatever they decided.  The *)
(* triggers of migrations 0011 and 0029 look again at the write.           *)
(*                                                                         *)
(* The sums loadLines computes over shipment lines, receipts, matched      *)
(* invoices and returns are kept as running totals of each order line.     *)
(***************************************************************************)
EXTENDS Naturals

CONSTANTS
  Orders,   \* purchase orders
  Lines,    \* the lines of an order
  Ordered,  \* the quantity ordered on each line
  Returns,  \* ids of returns
  Clerks    \* requests at once, of the office and of the vendor

ASSUME PoAssumption == Ordered \in [Lines -> Nat \ {0}]

VARIABLES
  po,        \* purchase_orders.state
  shipped, received, billed, returned,  \* totals, by order and line
  rma,       \* rmas: state, order, line, quantity
  counter    \* the request each clerk has read for and not yet written

poTables == <<po, shipped, received, billed, returned, rma>>
poVars   == <<po, shipped, received, billed, returned, rma, counter>>

(* What the lines of a shipment, a receipt or an invoice may ask for:      *)
(* lines named once, each with a quantity above zero.                      *)
Amounts == {q \in [Lines -> UNION {0..Ordered[l] : l \in Lines}] :
              /\ \A l \in Lines : q[l] <= Ordered[l]
              /\ \E l \in Lines : q[l] > 0}

Zero  == [l \in Lines |-> 0]
NoRma == [state |-> "none", po |-> "none", line |-> "none", qty |-> 0]
NotAsking ==
  [op |-> "none", po |-> "none", locks |-> FALSE, qty |-> Zero,
   verdict |-> FALSE, rma |-> "none"]

PoInit ==
  /\ po = [o \in Orders |-> "none"]
  /\ shipped = [o \in Orders |-> Zero] /\ received = [o \in Orders |-> Zero]
  /\ billed = [o \in Orders |-> Zero] /\ returned = [o \in Orders |-> Zero]
  /\ rma = [r \in Returns |-> NoRma]
  /\ counter = [h \in Clerks |-> NotAsking]

Plus(total, o, q) ==
  [total EXCEPT ![o] = [l \in Lines |-> total[o][l] + q[l]]]

(* The order's row lock is free.                                           *)
Unlocked(o) == \A h \in Clerks : counter[h].locks => counter[h].po # o

Ask(h, r) ==
  /\ counter[h] = NotAsking
  /\ counter' = [counter EXCEPT ![h] = r]
  /\ UNCHANGED poTables

Answered(h) == counter' = [counter EXCEPT ![h] = NotAsking]

-----------------------------------------------------------------------------
createPurchaseOrder(o) ==
  /\ po[o] = "none"
  /\ po' = [po EXCEPT ![o] = "draft"]
  /\ UNCHANGED <<shipped, received, billed, returned, rma, counter>>

(* The three moves of the order itself: what is read ...                   *)
issueAsked(h, o) ==
  /\ po[o] = "draft"
  /\ Ask(h, [NotAsking EXCEPT !.op = "issue", !.po = o])

cancelAsked(h, o) ==
  /\ po[o] \in {"draft", "issued", "acknowledged"}
  /\ shipped[o] = Zero
  /\ Ask(h, [NotAsking EXCEPT !.op = "cancel", !.po = o])

acknowledgeAsked(h, o) ==
  /\ po[o] = "issued"
  /\ Ask(h, [NotAsking EXCEPT !.op = "acknowledge", !.po = o])

(* ... and the state it becomes.  The office's update is unconditional;    *)
(* the trigger lets the vendor's through from issued only.                 *)
MovedTo(op, state) ==
  CASE op = "issue" -> "issued"
    [] op = "cancel" -> "cancelled"
    [] op = "acknowledge" -> IF state = "issued" THEN "acknowledged" ELSE state

(* The update waits for whoever holds the order.                           *)
transition(h) ==
  /\ counter[h].op \in {"issue", "cancel", "acknowledge"}
  /\ Unlocked(counter[h].po)
  /\ po' = [po EXCEPT ![counter[h].po] = MovedTo(counter[h].op, @)]
  /\ Answered(h)
  /\ UNCHANGED <<shipped, received, billed, returned, rma>>

-----------------------------------------------------------------------------
(* Quantities.                                                             *)

lockPo(h, o, op, q, verdict) ==
  /\ Unlocked(o)
  /\ Ask(h, [NotAsking EXCEPT !.op = op, !.po = o, !.locks = TRUE, !.qty = q,
                              !.verdict = verdict])

recordShipmentAsked(h, o, q) ==
  /\ po[o] = "acknowledged"
  /\ lockPo(h, o, "ship", q, TRUE)

(* ac_shipment_needs_acknowledged_po and ac_quantity_within_order: a write *)
(* that does not fit is refused, and the request leaves nothing.           *)
recordShipment(h) ==
  /\ counter[h].op = "ship"
  /\ LET o == counter[h].po q == counter[h].qty IN
     shipped' = IF /\ po[o] = "acknowledged"
                   /\ \A l \in Lines : shipped[o][l] + q[l] <= Ordered[l]
                THEN Plus(shipped, o, q) ELSE shipped
  /\ Answered(h)
  /\ UNCHANGED <<po, received, billed, returned, rma>>

(* Mutant: one finished line finishes the order.                           *)
Complete_AnyLine(o, q) == \E l \in Lines : received[o][l] + q[l] >= Ordered[l]

Complete(o, q) == \A l \in Lines : received[o][l] + q[l] >= Ordered[l]

recordReceiptAsked(h, o, q) ==
  /\ po[o] = "acknowledged"
  /\ lockPo(h, o, "receive", q, Complete(o, q))

recordReceipt(h) ==
  /\ counter[h].op = "receive"
  /\ LET o == counter[h].po q == counter[h].qty
         fits == \A l \in Lines : received[o][l] + q[l] <= Ordered[l] IN
     /\ received' = IF fits THEN Plus(received, o, q) ELSE received
     /\ po' = IF fits /\ counter[h].verdict
              THEN [po EXCEPT ![o] = "received"] ELSE po
  /\ Answered(h)
  /\ UNCHANGED <<shipped, billed, returned, rma>>

(* Every line at the order's price, and with what was matched before no    *)
(* more than was received and kept.                                        *)
threeWayMatch(o, q, priced) ==
  /\ priced
  /\ \A l \in Lines :
       q[l] > 0 => billed[o][l] + q[l] + returned[o][l] <= received[o][l]

submitInvoiceAsked(h, o, q, priced) ==
  /\ po[o] \in {"acknowledged", "received"}
  /\ lockPo(h, o, "invoice", q, threeWayMatch(o, q, priced))

(* A held invoice is on record and claims nothing.                         *)
submitVendorInvoice(h) ==
  /\ counter[h].op = "invoice"
  /\ billed' = IF counter[h].verdict
               THEN Plus(billed, counter[h].po, counter[h].qty) ELSE billed
  /\ Answered(h)
  /\ UNCHANGED <<po, shipped, received, returned, rma>>

-----------------------------------------------------------------------------
(* Returns.                                                                *)

OneLine(l, n) == [k \in Lines |-> IF k = l THEN n ELSE 0]

(* Mutant: a return is asked for without the order's lock.                 *)
requestReturnAsked_NoLock(h, o, l, n) ==
  /\ po[o] # "none" /\ n > 0
  /\ Ask(h, [NotAsking EXCEPT !.op = "return", !.po = o, !.qty = OneLine(l, n)])

(* Any order that exists; whether so much was received is the trigger's.   *)
requestReturnAsked(h, o, l, n) ==
  /\ po[o] # "none" /\ n > 0
  /\ lockPo(h, o, "return", OneLine(l, n), TRUE)

requestReturn(h, r) ==
  /\ counter[h].op = "return" /\ rma[r].state = "none"
  /\ LET o == counter[h].po q == counter[h].qty
         l == CHOOSE k \in Lines : q[k] > 0
         fits == returned[o][l] + q[l] <= received[o][l] IN
     /\ returned' = IF fits THEN Plus(returned, o, q) ELSE returned
     /\ rma' = IF fits
               THEN [rma EXCEPT ![r] = [state |-> "requested", po |-> o,
                                        line |-> l, qty |-> q[l]]]
               ELSE rma
  /\ Answered(h)
  /\ UNCHANGED <<po, shipped, received, billed>>

respondToReturnAsked(h, r, decision) ==
  /\ rma[r].state = "requested"
  /\ Ask(h, [NotAsking EXCEPT !.op = decision, !.rma = r])

(* ac_vendor_changes_are_its_own.                                          *)
Answerable(r) == rma[r].state = "requested"

respondToReturn(h) ==
  /\ counter[h].op \in {"authorized", "rejected"}
  /\ LET r == counter[h].rma d == counter[h].op IN
     IF ~Answerable(r) THEN UNCHANGED <<rma, returned>>
     ELSE /\ rma' = [rma EXCEPT ![r].state = d]
          /\ returned' = IF d = "rejected" /\ rma[r].state # "rejected"
                         THEN [returned EXCEPT ![rma[r].po][rma[r].line] =
                                 @ - rma[r].qty]
                         ELSE returned
  /\ Answered(h)
  /\ UNCHANGED <<po, shipped, received, billed>>

(* The request dies before its write: its transaction is rolled back.      *)
poLost(h) ==
  /\ counter[h] # NotAsking
  /\ Answered(h)
  /\ UNCHANGED poTables

-----------------------------------------------------------------------------
PoNext ==
  \/ \E o \in Orders : createPurchaseOrder(o)
  \/ \E h \in Clerks, o \in Orders :
       \/ issueAsked(h, o) \/ cancelAsked(h, o) \/ acknowledgeAsked(h, o)
       \/ \E q \in Amounts :
            \/ recordShipmentAsked(h, o, q) \/ recordReceiptAsked(h, o, q)
            \/ \E priced \in BOOLEAN : submitInvoiceAsked(h, o, q, priced)
       \/ \E l \in Lines : \E n \in 1..Ordered[l] :
            requestReturnAsked(h, o, l, n)
  \/ \E h \in Clerks :
       \/ transition(h) \/ recordShipment(h) \/ recordReceipt(h)
       \/ submitVendorInvoice(h) \/ respondToReturn(h) \/ poLost(h)
       \/ \E r \in Returns :
            \/ requestReturn(h, r)
            \/ \E d \in {"authorized", "rejected"} :
                 respondToReturnAsked(h, r, d)

PoSpec == PoInit /\ [][PoNext]_poVars

-----------------------------------------------------------------------------
(* However many requests are at it, nothing is shipped or received beyond  *)
(* the order, returned or billed beyond what was received, and an order is *)
(* called received only when every line of it is in.                       *)
QuantitiesAddUp ==
  \A o \in Orders : \A l \in Lines :
    /\ shipped[o][l] <= Ordered[l] /\ received[o][l] <= Ordered[l]
    /\ returned[o][l] <= received[o][l] /\ billed[o][l] <= received[o][l]
    /\ po[o] = "received" => received[o][l] = Ordered[l]

(* An invoice is matched only for goods that are in the house when it is   *)
(* written: a return asked for while it is being matched is not paid for.  *)
BilledIsKept ==
  [][\A o \in Orders : \A l \in Lines :
       billed'[o][l] > billed[o][l]
         => billed'[o][l] + returned'[o][l] <= received'[o][l]]_poVars
=============================================================================
