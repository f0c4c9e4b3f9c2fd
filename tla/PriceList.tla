----------------------------- MODULE PriceList ------------------------------
(***************************************************************************)
(* The prices of one catalogue item.  The vendor proposes a price from a   *)
(* day on and may withdraw it; the office accepts or rejects it, and an    *)
(* accepted price ends the one in force on its first day.  No lock is      *)
(* taken between what a request reads and what it writes: the trigger      *)
(* looks again at a vendor's withdrawal, and the exclusion constraint      *)
(* keeps accepted periods apart, but the office's decision is written to   *)
(* whatever the proposal has become.                                       *)
(***************************************************************************)
EXTENDS Naturals

CONSTANTS
  PriceIds,  \* proposals
  Deciders,  \* requests at once
  LastPriceDay   \* bound: the last day

ASSUME PriceAssumption == LastPriceDay \in Nat

VARIABLES
  date,      \* today
  price,     \* vendor_catalog_prices: state and effective [from, to)
  deciding   \* what each request has read for and not yet written

priceVars == <<date, price, deciding>>

Forever == LastPriceDay + 1

NoPrice    == [state |-> "none", from |-> 0, to |-> Forever]
NoDecision == [to |-> "none", price |-> "none", closes |-> "none"]

PriceInit ==
  /\ date = 0
  /\ price = [p \in PriceIds |-> NoPrice]
  /\ deciding = [h \in Deciders |-> NoDecision]

DatePasses ==
  /\ date < LastPriceDay /\ date' = date + 1
  /\ UNCHANGED <<price, deciding>>

Covers(p, d) ==
  price[p].state = "accepted" /\ price[p].from <= d /\ d < price[p].to

proposePrice(p, from) ==
  /\ price[p].state = "none" /\ from >= date
  /\ price' = [price EXCEPT ![p] = [state |-> "proposed", from |-> from,
                                    to |-> Forever]]
  /\ UNCHANGED <<date, deciding>>

Weighs(h, p, to, closes) ==
  /\ deciding[h] = NoDecision /\ price[p].state = "proposed"
  /\ deciding' = [deciding EXCEPT ![h] = [to |-> to, price |-> p,
                                          closes |-> closes]]
  /\ UNCHANGED <<date, price>>

withdrawAsked(h, p) == Weighs(h, p, "withdrawn", "none")
rejectAsked(h, p)   == Weighs(h, p, "rejected", "none")

(* The price in force on the first day is to end there, unless it starts   *)
(* on that same day.                                                       *)
acceptAsked(h, p) ==
  \/ /\ \A c \in PriceIds : ~Covers(c, price[p].from)
     /\ Weighs(h, p, "accepted", "none")
  \/ \E c \in PriceIds :
       /\ Covers(c, price[p].from) /\ price[c].from # price[p].from
       /\ Weighs(h, p, "accepted", c)

Apart(a, b) == a.to <= b.from \/ b.to <= a.from

(* Mutant: there is no exclusion constraint.                               *)
NoOverlap_Unchecked(table) == TRUE

(* EXCLUDE: the accepted periods of an item do not overlap.                *)
NoOverlap(table) ==
  \A a, b \in PriceIds :
    (a # b /\ table[a].state = "accepted" /\ table[b].state = "accepted")
      => Apart(table[a], table[b])

Closed(c, from) ==
  IF c = "none" THEN price ELSE [price EXCEPT ![c].to = from]

(* The close and the decision are one transaction.                         *)
decidePrice(h) ==
  /\ deciding[h].to \in {"accepted", "rejected"}
  /\ LET p == deciding[h].price
         after == [Closed(deciding[h].closes, price[p].from)
                     EXCEPT ![p].state = deciding[h].to] IN
     price' = IF NoOverlap(after) THEN after ELSE price
  /\ deciding' = [deciding EXCEPT ![h] = NoDecision]
  /\ UNCHANGED date

withdrawPrice(h) ==
  /\ deciding[h].to = "withdrawn"
  /\ LET p == deciding[h].price IN
     price' = IF price[p].state = "proposed"
              THEN [price EXCEPT ![p].state = "withdrawn"] ELSE price
  /\ deciding' = [deciding EXCEPT ![h] = NoDecision]
  /\ UNCHANGED date

PriceNext ==
  \/ DatePasses
  \/ \E p \in PriceIds : \E from \in 0..LastPriceDay : proposePrice(p, from)
  \/ \E h \in Deciders :
       \/ \E p \in PriceIds :
            withdrawAsked(h, p) \/ rejectAsked(h, p) \/ acceptAsked(h, p)
       \/ decidePrice(h) \/ withdrawPrice(h)

PriceSpec == PriceInit /\ [][PriceNext]_priceVars

-----------------------------------------------------------------------------
(* createPurchaseOrder asks for the accepted price of the day and takes    *)
(* the one it finds: there is never a second one for it to miss.           *)
OnePricePerDay ==
  \A d \in 0..LastPriceDay : \A p, q \in PriceIds :
    Covers(p, d) /\ Covers(q, d) => p = q
=============================================================================
