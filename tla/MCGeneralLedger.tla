---------------------------- MODULE MCGeneralLedger ----------------------------
(* Two or three posters, one fiscal period, two payments documents, and      *)
(* journals of two or three lines in mils (1000 is one unit of currency).    *)
EXTENDS GeneralLedger, TLC

CONSTANTS jan, bank, ar, group, cust, noParty, cc1, cc2, payment, invoice

MCAccounts == {bank, ar, group}
MCPostable == {bank, ar}

Debit(a, amount, dim)  == [account |-> a, debit |-> amount, credit |-> 0,
                           party |-> noParty, dim |-> dim]
Credit(a, amount, dim) == [account |-> a, debit |-> 0, credit |-> amount,
                           party |-> IF a = ar THEN cust ELSE noParty, dim |-> dim]
Post(date, lines) == [op |-> "post", period |-> date, lines |-> lines]
Lock(row) == [op |-> "lock", row |-> row]

Receipt == <<Debit(bank, 1000, cc1), Credit(ar, 1000, cc1)>>
ReceiptAndFee == <<Credit(ar, 1010, cc1), Debit(bank, 1000, cc1), Debit(bank, 10, cc2)>>
(* Two lines that differ by their cost centres only. *)
Halves == <<Credit(ar, 1000, cc1), Debit(bank, 500, cc1), Debit(bank, 500, cc2)>>

(* submitPaymentEntry locks its payment, posts, and locks the invoices it   *)
(* pays; allocatePayment, of another payment, locks the invoices before it  *)
(* posts.  The third request posts twice in one transaction.               *)
Submit   == <<Lock(payment), Post(jan, Receipt), Lock(invoice)>>
Allocate == <<Lock(invoice), Post(jan, ReceiptAndFee)>>
Twice    == <<Post(NoPeriod, Receipt), Post(jan, Halves)>>
Unbalanced == <<Post(jan, <<Debit(bank, 1000, cc1), Credit(ar, 990, cc1)>>)>>
Invalid == {<<Post(jan, <<Debit(bank, 1000, cc1), Credit(group, 1000, cc1)>>)>>}

PostingRequests == {Submit, Allocate, Twice, Unbalanced} \cup Invalid

ClosingRequests == {<<Post(jan, Receipt)>>, Submit}

(* What LedgerBalances assumes holds of these requests. *)
ASSUME WellFormedPosts == WholeCents
===============================================================================
