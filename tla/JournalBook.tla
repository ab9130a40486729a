------------------------------ MODULE JournalBook ------------------------------
(***************************************************************************)
(* What the general ledger promises to an auditor, without its posters,    *)
(* locks and aborts: a book to which entries are only ever added at the    *)
(* end, each linked to the one before it.  What is written is never        *)
(* removed and never rewritten; reconciliation may touch the lines of an   *)
(* entry, and then leaves it with the same lines in another order.         *)
(***************************************************************************)
EXTENDS Integers, Sequences, FiniteSets

CONSTANT Genesis  \* the hash the first entry is linked to

VARIABLE entries

Linked(book, n) ==
  /\ book[n].seq = n
  /\ book[n].prev = IF n = 1 THEN Genesis ELSE book[n - 1].hash

Init == entries = <<>>

Extend ==
  /\ Len(entries') > Len(entries)
  /\ \A n \in DOMAIN entries : entries'[n] = entries[n]
  /\ \A n \in DOMAIN entries' \ DOMAIN entries : Linked(entries', n)

(* Two sequences with the same elements, each as often.                    *)
Count(s, x) == Cardinality({i \in DOMAIN s : s[i] = x})
SameLines(s, r) ==
  /\ Len(s) = Len(r)
  /\ \A i \in DOMAIN s : Count(s, s[i]) = Count(r, s[i])

Reorder(n) ==
  /\ SameLines(entries[n].lines, entries'[n].lines)
  /\ entries' = [entries EXCEPT ![n].lines = entries'[n].lines]

Next == Extend \/ \E n \in DOMAIN entries : Reorder(n)

Spec == Init /\ [][Next]_entries
===============================================================================
