----------------------------- MODULE RowCursor ------------------------------
(***************************************************************************)
(* What a cursor promises about the rows of a finished statement, without  *)
(* pages, batches, buffers or requests: every fetch takes the rows that    *)
(* come next, in order, as many as it asked for; it comes back with fewer  *)
(* only when none is left; a call may raise, and the rows it loses do not  *)
(* come back.  Two things weaken the promise, once each for all.           *)
(*                                                                         *)
(* ResultPaging is the program; ResultPagingRefinement maps it onto this.  *)
(***************************************************************************)
EXTENDS Naturals, Sequences

CONSTANTS MaxRows, \* bound: the longest result
          MaxMany  \* bound: the largest size given to fetchmany

VARIABLES left,  \* the rows still to come
          got,   \* every row a call returned, in order
          call,  \* "execute" | "none" | "fetch": the call that runs
          want,  \* the rows it asks for, or All
          trust  \* "sound" | "cut": a short answer may leave rows behind
                 \*         | "again": rows may come a second time

cursorVars == <<left, got, call, want, trust>>

All == 0
Rows == 1..MaxRows
Given(rows) == {rows[i] : i \in DOMAIN rows}
Ascending(rows) == \A i, j \in DOMAIN rows : i < j => rows[i] < rows[j]

CursorInit ==
  /\ left \in {1..n : n \in 0..MaxRows} /\ got = <<>>
  /\ call = "execute" /\ want = All /\ trust = "sound"

Executed == /\ call = "execute" /\ call' = "none"
            /\ UNCHANGED <<left, got, want, trust>>

Ask(n) == /\ call = "none" /\ call' = "fetch" /\ want' = n
          /\ UNCHANGED <<left, got, trust>>

\* No row that is left comes before one of the answer.  Unless rows come again,
\* those of the answer were still to come, and stand in order.
Follows(rows) ==
  /\ \A r \in Given(rows), q \in left \ Given(rows) : r < q
  /\ trust # "again" => Given(rows) \subseteq left /\ Ascending(rows)

\* As many rows as asked for, or all of them.
Enough(rows) ==
  \/ want # All /\ Len(rows) = want
  \/ /\ want = All \/ Len(rows) < want
     /\ left \subseteq Given(rows) \/ trust = "cut"

Answer ==
  LET rows == SubSeq(got', Len(got) + 1, Len(got'))
  IN /\ call = "fetch" /\ call' = "none"
     /\ got' = got \o rows /\ left' = left \ Given(rows)
     /\ Follows(rows) /\ Enough(rows)
     /\ UNCHANGED <<want, trust>>

\* The rows the call has taken are lost, and with them those a page or a batch
\* could not give.
Raise(kept) ==
  /\ call # "none" /\ call' = "none"
  /\ left' = left \cap kept
  /\ trust' \in IF trust = "sound" THEN {"sound", "cut", "again"} ELSE {trust}
  /\ UNCHANGED <<got, want>>

\* Reading starts over.
Restart == /\ call = "fetch" /\ trust = "sound" /\ trust' = "again"
           /\ UNCHANGED <<left, got, call, want>>

CursorNext ==
  \/ Executed \/ Answer \/ Restart
  \/ \E n \in 0..MaxMany : Ask(n)
  \/ \E kept \in SUBSET Rows : Raise(kept)

CursorSpec == CursorInit /\ [][CursorNext]_cursorVars
=============================================================================
