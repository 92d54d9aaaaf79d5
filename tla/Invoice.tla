------------------------------- MODULE Invoice -------------------------------
(***************************************************************************)
(* Invoices and their transfers as values (library/src/invoice.rs): what   *)
(* the scanner recomputes and what the API, the callbacks and the expiry   *)
(* rule read.  Addresses and descriptions are left out.                    *)
(***************************************************************************)
EXTENDS Integers, Sequences, SequencesExt

(* A transfer that is still in the txpool has no height.                   *)
NoHeight == -1

Transfer(amount, height) == [amount |-> amount, height |-> height]

(* cmp_by_height against a block height: the txpool is newer than any.     *)
OlderThan(t, h) == t.height # NoHeight /\ t.height < h
NewerThan(t, h) == t.height = NoHeight \/ t.height > h

NewInvoiceValue(requested, required, creation, expiresIn) ==
    [requested |-> requested, required |-> required, expiration |-> creation + expiresIn,
     paid |-> 0, paidHeight |-> NoHeight, current |-> 0, transfers |-> <<>>]

(* Vec::retain: the elements of s that are in S, in their order.           *)
Retain(s, S) ==
    LET kept[n \in 0..Len(s)] ==
            IF n = 0 THEN <<>>
            ELSE IF s[n] \in S THEN Append(kept[n - 1], s[n]) ELSE kept[n - 1]
    IN  kept[Len(s)]

(* How often each transfer occurs: what PartialEq compares of transfers.   *)
Tally(ts) ==
    [t \in ToSet(ts) |-> Cardinality({i \in DOMAIN ts : ts[i] = t})]

SameInvoice(a, b) ==
    /\ Tally(a.transfers) = Tally(b.transfers)
    /\ [a EXCEPT !.transfers = <<>>] = [b EXCEPT !.transfers = <<>>]

(* Add the transfers up in order; the invoice is paid at the height of the *)
(* transfer that reaches the requested amount.                             *)
AddTransfer(inv, t) ==
    LET paid == inv.paid + t.amount IN
    [inv EXCEPT !.paid = paid,
                !.paidHeight = IF paid >= inv.requested /\ @ = NoHeight THEN t.height ELSE @]

Recalculate(inv) ==
    LET n == Len(inv.transfers)
        sum[i \in 0..n] ==
            IF i = 0 THEN [inv EXCEPT !.paid = 0, !.paidHeight = NoHeight]
            ELSE AddTransfer(sum[i - 1], inv.transfers[i])
    IN  sum[n]

IsPaid(inv) == inv.paid >= inv.requested

(* None (-1) unless paid; 0 while the payment is in the txpool.            *)
Confirmations(inv) ==
    IF ~IsPaid(inv) THEN -1
    ELSE IF inv.paidHeight = NoHeight THEN 0
    ELSE IF inv.current > inv.paidHeight THEN inv.current - inv.paidHeight
    ELSE 0

IsConfirmed(inv) == Confirmations(inv) # -1 /\ Confirmations(inv) >= inv.required
=============================================================================
