------------------------------ MODULE Payments ------------------------------
(***************************************************************************)
(* Money received against issued invoices: a payment is recorded by the    *)
(* office or by the processor's webhook, comes back, or the invoice is     *)
(* voided.  Every handler takes the invoice's row lock first, reads what   *)
(* is paid, decides, and writes; the triggers of migration 0030 check the  *)
(* total and the payment's state again at the write.                       *)
(*                                                                         *)
(* An invoice's status is never stored: it follows from what is paid.      *)
(***************************************************************************)
EXTENDS Naturals

CONSTANTS
  Invoices,    \* issued invoices
  Total,       \* invoices.total_minor
  PaymentIds,  \* payments
  Cashiers     \* requests at once

ASSUME PayAssumption == Total \in [Invoices -> Nat \ {0}]

VARIABLES
  voided,   \* the invoices with voided_at set
  payment,  \* payments: state, invoice, amount
  paid,     \* the sum of each invoice's succeeded payments
  stated,   \* what the last audited payment says is paid in all
  till      \* what each request has read and not yet written

payTables == <<voided, payment, paid, stated>>
payVars   == <<voided, payment, paid, stated, till>>

NoPayment == [state |-> "none", inv |-> "none", amount |-> 0]
NoTill    == [op |-> "none", inv |-> "none", locks |-> FALSE, pay |-> "none",
              amount |-> 0, before |-> 0]

PayInit ==
  /\ voided = {}
  /\ payment = [p \in PaymentIds |-> NoPayment]
  /\ paid = [i \in Invoices |-> 0] /\ stated = [i \in Invoices |-> 0]
  /\ till = [h \in Cashiers |-> NoTill]

(* Mutant: the invoice is read without FOR UPDATE.                         *)
lockedInvoice_Read(h, i, r) ==
  /\ till[h] = NoTill
  /\ till' = [till EXCEPT ![h] = r]
  /\ UNCHANGED payTables

(* SELECT ... FOR UPDATE: waits for whoever holds the invoice.             *)
lockedInvoice(h, i, r) ==
  /\ till[h] = NoTill
  /\ \A k \in Cashiers : till[k].locks => till[k].inv # i
  /\ till' = [till EXCEPT ![h] = r]
  /\ UNCHANGED payTables

Finished(h) == till' = [till EXCEPT ![h] = NoTill]

(* The webhook calls the same function; a delivery that is repeated is one *)
(* more payment, if the invoice still has room for it.                     *)
recordPaymentAsked(h, i, amount) ==
  /\ i \notin voided
  /\ paid[i] + amount <= Total[i]
  /\ lockedInvoice(h, i, [op |-> "record", inv |-> i, locks |-> TRUE,
                          pay |-> "none", amount |-> amount,
                          before |-> paid[i]])

(* ac_payment_fits_its_invoice sums again.                                 *)
recordPayment(h, p) ==
  /\ till[h].op = "record" /\ payment[p].state = "none"
  /\ LET i == till[h].inv a == till[h].amount IN
     IF i \notin voided /\ paid[i] + a <= Total[i]
     THEN /\ payment' = [payment EXCEPT ![p] =
                           [state |-> "succeeded", inv |-> i, amount |-> a]]
          /\ paid' = [paid EXCEPT ![i] = @ + a]
          /\ stated' = [stated EXCEPT ![i] = till[h].before + a]
     ELSE UNCHANGED <<payment, paid, stated>>
  /\ Finished(h)
  /\ UNCHANGED voided

(* The payment names its invoice; invoice and payment are then locked, in  *)
(* that order, and the payment read.                                       *)
returnPaymentAsked(h, p) ==
  /\ payment[p].state = "succeeded"
  /\ LET i == payment[p].inv IN
     lockedInvoice(h, i, [op |-> "return", inv |-> i, locks |-> TRUE,
                          pay |-> p, amount |-> payment[p].amount,
                          before |-> paid[i]])

(* UPDATE ... WHERE state = 'succeeded'.                                   *)
returnPayment(h, as) ==
  /\ till[h].op = "return"
  /\ LET i == till[h].inv p == till[h].pay
         lands == payment[p].state = "succeeded" IN
     /\ payment' = IF lands THEN [payment EXCEPT ![p].state = as] ELSE payment
     /\ paid' = IF lands THEN [paid EXCEPT ![i] = @ - payment[p].amount]
                ELSE paid
     /\ stated' = [stated EXCEPT ![i] = till[h].before - till[h].amount]
  /\ Finished(h)
  /\ UNCHANGED voided

HoldsMoney(i) ==
  \E p \in PaymentIds : payment[p].inv = i /\ payment[p].state = "succeeded"

voidInvoiceAsked(h, i) ==
  /\ i \notin voided /\ ~HoldsMoney(i)
  /\ lockedInvoice(h, i, [NoTill EXCEPT !.op = "void", !.inv = i,
                                        !.locks = TRUE])

(* ac_invoice_money_is_held: no void under a payment that stands.          *)
voidInvoice(h) ==
  /\ till[h].op = "void"
  /\ voided' = IF HoldsMoney(till[h].inv) THEN voided
               ELSE voided \cup {till[h].inv}
  /\ Finished(h)
  /\ UNCHANGED <<payment, paid, stated>>

payLost(h) ==
  /\ till[h] # NoTill
  /\ Finished(h)
  /\ UNCHANGED payTables

PayNext ==
  \E h \in Cashiers :
    \/ \E i \in Invoices :
         \/ voidInvoiceAsked(h, i)
         \/ \E amount \in 1..Total[i] : recordPaymentAsked(h, i, amount)
    \/ \E p \in PaymentIds : recordPayment(h, p) \/ returnPaymentAsked(h, p)
    \/ voidInvoice(h) \/ payLost(h)
    \/ \E as \in {"returned", "refunded"} : returnPayment(h, as)

PaySpec == PayInit /\ [][PayNext]_payVars

-----------------------------------------------------------------------------
(* No invoice is paid beyond its total, none is void with money on it, and *)
(* the running total the audit trail states, from a read before the write, *)
(* is the total that is really paid.                                       *)
PaidAddsUp ==
  \A i \in Invoices :
    paid[i] <= Total[i] /\ stated[i] = paid[i] /\ (i \in voided => paid[i] = 0)
=============================================================================
