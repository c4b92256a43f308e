---------------------------- MODULE ResultPaging ----------------------------
(***************************************************************************)
(* The rows of one finished statement, from the server to the caller of a  *)
(* cursor (result.py, _arrow_result.py, the end of Cursor.execute): JSON   *)
(* pages followed by their cursor, one Arrow stream read batch by batch,   *)
(* or rows the client already has.  A request may fail, a stream may break *)
(* off, and a page or batch may hold a row that cannot be decoded; the     *)
(* caller may always fetch again.                                          *)
(*                                                                         *)
(* A row is its number in the result.  The values are left out: a row can  *)
(* be decoded or it cannot.                                                *)
(*                                                                         *)
(* An operator named Faulty... is its neighbour with one plausible bug; no  *)
(* action uses it.                                                         *)
(***************************************************************************)
EXTENDS Naturals, Sequences, FiniteSets

CONSTANTS MaxRows,        \* bound: the longest result
          FetchSize,      \* rows asked for with each page
          FirstPageLimit, \* rows asked for with the statement; 0 asks for none
          BatchSize,      \* rows in one Arrow record batch
          MaxMany,        \* bound: the largest size given to fetchmany
          MaxCalls,       \* bound: fetches by the caller
          MaxFaults       \* bound: failed requests and broken streams

ASSUME SizesAssumption ==
  /\ FetchSize \in Nat \ {0} /\ BatchSize \in Nat \ {0}
  /\ FirstPageLimit \in Nat /\ MaxRows \in Nat /\ MaxMany \in Nat \ {0}
ASSUME CallsAssumption == MaxCalls \in Nat /\ MaxFaults \in Nat

VARIABLES
  \* the statement and its server
  path,      \* "json" | "arrow" | "local": which kind of result set reads it
  size,      \* rows in the result
  bad,       \* the row that cannot be decoded, 0 for none
  inline,    \* the statement's response carries the first page, or the stream
  \* the result set
  started,   \* _started
  exhausted, \* _exhausted
  next,      \* _next_cursor: the rows before the next page, 0 for None
  reader,    \* _reader: "none" | "open" | "broken"
  pos,       \* rows read off the stream
  buffer,    \* _buffer
  \* the caller
  phase,        \* "executing" | "idle" | "fetching" | "table"
  want,      \* the rows the call asks for, or All
  out,       \* the rows it has taken so far
  calls,     \* bound counter
  faults,    \* bound counter
  \* history
  got,       \* every row a call returned, in order
  dropped,   \* rows taken by a call that then raised
  skipped,   \* rows of a page or batch behind its undecodable row, and that row
  ended,     \* a call came back with fewer rows than it asked for
  lastRead,  \* a page without a cursor was read
  again      \* ... and after that another page was asked for

statement == <<path, size, bad, inline>>
resultSet == <<started, exhausted, next, reader, pos, buffer>>
caller == <<phase, want, out, calls>>
pagingHistory == <<got, dropped, skipped, ended, lastRead, again>>
pagingVars == <<statement, resultSet, caller, faults, pagingHistory>>

All == 0
Rows == 1..MaxRows
From(first, n) == [i \in 1..n |-> first + i]
SetOf(s) == {s[i] : i \in DOMAIN s}
Least(a, b) == IF a < b THEN a ELSE b

PagingTypeOK ==
  /\ path \in {"json", "arrow", "local"} /\ size \in 0..MaxRows /\ bad \in 0..MaxRows
  /\ inline \in BOOLEAN /\ started \in BOOLEAN /\ exhausted \in BOOLEAN
  /\ next \in Nat /\ (next = 0 \/ next < size) /\ pos \in 0..size
  /\ reader \in {"none", "open", "broken"}
  /\ buffer \in Seq(Rows) /\ out \in Seq(Rows) /\ got \in Seq(Rows)
  /\ phase \in {"executing", "idle", "fetching", "table"}
  /\ want \in 0..MaxMany /\ calls \in 0..MaxCalls /\ faults \in 0..MaxFaults
  /\ dropped \in SUBSET Rows /\ skipped \in SUBSET Rows
  /\ ended \in BOOLEAN /\ lastRead \in BOOLEAN /\ again \in BOOLEAN

\* Rows the client has already are a finished result from the start: a listing
\* of the browse endpoints, or nothing at all for DDL and DML (from_rows).
PagingInit ==
  /\ path \in {"json", "arrow", "local"}
  /\ size \in 0..MaxRows
  /\ bad \in IF path = "local" THEN {0} ELSE 0..size
  /\ inline \in IF path = "json" /\ FirstPageLimit = 0 THEN {FALSE} ELSE BOOLEAN
  /\ started = (path = "local") /\ exhausted = (path = "local")
  /\ buffer = IF path = "local" THEN From(0, size) ELSE <<>>
  /\ next = 0 /\ reader = "none" /\ pos = 0
  /\ phase = "executing" /\ want = All /\ out = <<>> /\ calls = 0 /\ faults = 0
  /\ got = <<>> /\ dropped = {} /\ skipped = {}
  /\ ended = FALSE /\ lastRead = FALSE /\ again = FALSE

-----------------------------------------------------------------------------
\* How a call ends.  A fetch that raises loses the rows it has taken; execute
\* leaves its result set in place, so the caller may fetch from it all the same.
FetchRaises ==
  /\ phase' = "idle" /\ out' = <<>>
  /\ dropped' = dropped \cup SetOf(out)
  /\ UNCHANGED <<want, calls>>

FetchReturns(rows, short) ==
  /\ phase' = "idle" /\ out' = <<>>
  /\ got' = got \o rows
  /\ ended' = (ended \/ short)
  /\ UNCHANGED <<want, calls, dropped>>

\* execute is done once the first page is there; a fetch goes on.
GoOn ==
  /\ phase' = IF phase = "executing" THEN "idle" ELSE phase
  /\ UNCHANGED <<want, out, calls, dropped>>

Fault == faults < MaxFaults /\ faults' = faults + 1

\* The rows of a page or a batch are decoded one by one into the buffer.
\* Before(chunk): those in front of the row that cannot be decoded.  A chunk is a
\* run of rows, so they are counted from its first.
Decodes(chunk) == bad \notin SetOf(chunk)
Before(chunk) == IF Decodes(chunk) THEN chunk ELSE SubSeq(chunk, 1, bad - Head(chunk))

-----------------------------------------------------------------------------
(* JSON pages *)

\* A page shorter than _fetch_size is taken for the last, whatever its cursor.
FaultyConsume(first, n) ==
  LET last == Least(first + n, size)
      chunk == From(first, last - first)
      cursor == IF last < size THEN last ELSE 0
  IN /\ next' = cursor
     /\ buffer' = buffer \o Before(chunk)
     /\ lastRead' = (lastRead \/ cursor = 0)
     /\ again' = (again \/ lastRead)
     /\ exhausted' = (Len(chunk) < FetchSize)
     /\ started' = TRUE
     /\ GoOn
     /\ UNCHANGED <<statement, reader, pos, faults, got, ended, skipped>>

\* _consume_page of the page with n rows after the first `first`: the cursor is
\* stored before the rows are decoded, the rest of the state after.
Consume(first, n) ==
  LET last == Least(first + n, size)
      chunk == From(first, last - first)
      cursor == IF last < size THEN last ELSE 0
  IN /\ next' = cursor
     /\ buffer' = buffer \o Before(chunk)
     /\ lastRead' = (lastRead \/ cursor = 0)
     /\ again' = (again \/ lastRead)
     /\ IF Decodes(chunk)
        THEN /\ exhausted' = (exhausted \/ cursor = 0)
             /\ started' = TRUE
             /\ GoOn
             /\ UNCHANGED skipped
        ELSE /\ skipped' = skipped \cup (SetOf(chunk) \ SetOf(Before(chunk)))
             /\ FetchRaises
             /\ UNCHANGED <<exhausted, started>>
     /\ UNCHANGED <<statement, reader, pos, faults, got, ended>>

\* The call wants another row and the buffer has none; Needs: fetchone then
\* looks for a page or a batch.
Wants == phase = "fetching" /\ buffer = <<>> /\ (want = All \/ Len(out) < want)
Needs == Wants /\ ~exhausted

\* prime: the statement's response carries the first page.
Prime ==
  /\ path = "json" /\ phase = "executing" /\ inline
  /\ Consume(0, Least(FirstPageLimit, FetchSize))

\* _load_page, by ensure_started of execute or by fetchone.
LoadPage ==
  /\ path = "json" /\ ((phase = "executing" /\ ~inline) \/ Needs)
  /\ Consume(next, FetchSize)

\* The request fails for good or its body is not a page: nothing is stored.
LoadFails ==
  /\ path = "json" /\ (phase = "executing" \/ Needs) /\ Fault
  /\ FetchRaises
  /\ UNCHANGED <<statement, resultSet, got, skipped, ended, lastRead, again>>

-----------------------------------------------------------------------------
(* The Arrow stream *)

\* Someone calls ensure_started: execute when the statement names no columns,
\* or the first batch, or arrow_table.
Opens == path = "arrow" /\ ~started /\ (phase \in {"executing", "table"} \/ Needs)

\* The stream is open; without rows the server may answer 204 instead.
OpenStream ==
  /\ Opens
  /\ started' = TRUE
  /\ \/ reader' = "open" /\ UNCHANGED exhausted
     \/ size = 0 /\ ~inline /\ exhausted' = TRUE /\ UNCHANGED reader
  /\ GoOn
  /\ UNCHANGED <<statement, next, pos, buffer, faults, got, skipped, ended,
                 lastRead, again>>

\* The one request for the stream fails, after _started has been set.
OpenFails ==
  /\ Opens /\ ~inline /\ Fault
  /\ started' = TRUE
  /\ FetchRaises
  /\ UNCHANGED <<statement, exhausted, next, reader, pos, buffer, got, skipped,
                 ended, lastRead, again>>

\* _fill puts a batch at the front of the buffer, its last row first.
FaultyNextBatch ==
  /\ Needs /\ reader = "open" /\ pos < size
  /\ LET last == Least(pos + BatchSize, size)
         chunk == [i \in 1..(last - pos) |-> last + 1 - i]
     IN /\ pos' = last
        /\ buffer' = chunk \o buffer
        /\ GoOn
  /\ UNCHANGED <<statement, started, exhausted, next, reader, faults, got, ended,
                 skipped, lastRead, again>>

\* _next_batch and _fill.
NextBatch ==
  /\ Needs /\ reader = "open" /\ pos < size
  /\ LET last == Least(pos + BatchSize, size)
         chunk == From(pos, last - pos)
     IN /\ pos' = last
        /\ buffer' = buffer \o Before(chunk)
        /\ skipped' = skipped \cup (SetOf(chunk) \ SetOf(Before(chunk)))
        /\ IF Decodes(chunk) THEN GoOn ELSE FetchRaises
  /\ UNCHANGED <<statement, started, exhausted, next, reader, faults, got, ended,
                 lastRead, again>>

\* The stream is at its end: _close.  A broken one may look as if it were.
StreamEnds ==
  /\ Needs
  /\ \/ reader = "open" /\ pos = size
     \/ reader = "broken"
  /\ exhausted' = TRUE /\ reader' = "none"
  /\ UNCHANGED <<statement, started, next, pos, buffer, caller, faults, pagingHistory>>

\* The body breaks off, or is found broken once more.
StreamFails ==
  /\ Needs \/ (phase = "table" /\ started)
  /\ ~inline /\ reader # "none" /\ Fault
  /\ reader' = "broken"
  /\ FetchRaises
  /\ UNCHANGED <<statement, started, exhausted, next, pos, buffer, got, skipped,
                 ended, lastRead, again>>

\* read_all of arrow_table: the rest of the stream, undecoded.
ReadAll ==
  /\ phase = "table" /\ started
  /\ \/ /\ reader = "open"
        /\ pos' = size
        /\ FetchReturns(out \o From(pos, size - pos), TRUE)
     \/ /\ reader = "broken"
        /\ FetchReturns(out, TRUE)
        /\ UNCHANGED pos
  /\ reader' = "none" /\ exhausted' = TRUE
  /\ UNCHANGED <<statement, started, next, buffer, faults, skipped, lastRead, again>>

\* No reader is left, or there never was one: the rows pulled so far are all.
ReadNone ==
  /\ phase = "table" /\ started /\ reader = "none"
  /\ FetchReturns(out, TRUE)
  /\ UNCHANGED <<statement, resultSet, faults, skipped, lastRead, again>>

-----------------------------------------------------------------------------
(* The caller *)

\* execute is done without a request: the rows are here, or the columns of the
\* stream are known and it is opened by the first fetch.
ExecuteReturns ==
  /\ phase = "executing" /\ path # "json"
  /\ phase' = "idle"
  /\ UNCHANGED <<statement, resultSet, want, out, calls, faults, pagingHistory>>

\* fetchone and fetchmany(n), or fetchall.
Fetch(n) ==
  /\ phase = "idle" /\ calls < MaxCalls
  /\ phase' = "fetching" /\ want' = n /\ calls' = calls + 1
  /\ UNCHANGED <<statement, resultSet, out, faults, pagingHistory>>

\* fetch_arrow_table: of a stream, the pulled rows and then the rest; otherwise
\* a fetchall whose rows are put in a table.
FetchTable ==
  /\ phase = "idle" /\ calls < MaxCalls /\ path = "arrow"
  /\ phase' = "table" /\ want' = All /\ calls' = calls + 1
  /\ out' = buffer /\ buffer' = <<>>
  /\ UNCHANGED <<statement, started, exhausted, next, reader, pos, faults, pagingHistory>>

\* Rows leave the buffer, as many as the call still asks for.
Take ==
  /\ phase = "fetching" /\ buffer # <<>> /\ (want = All \/ Len(out) < want)
  /\ LET n == IF want = All THEN Len(buffer) ELSE Least(want - Len(out), Len(buffer))
     IN /\ out' = out \o SubSeq(buffer, 1, n)
        /\ buffer' = SubSeq(buffer, n + 1, Len(buffer))
  /\ UNCHANGED <<statement, started, exhausted, next, reader, pos, phase, want, calls,
                 faults, pagingHistory>>

Full ==
  /\ phase = "fetching" /\ want # All /\ Len(out) = want
  /\ FetchReturns(out, FALSE)
  /\ UNCHANGED <<statement, resultSet, faults, skipped, lastRead, again>>

\* fetchone finds no row: the result is exhausted, or _next_batch has no reader.
NoMore ==
  /\ Wants
  /\ exhausted \/ (path = "arrow" /\ started /\ reader = "none")
  /\ FetchReturns(out, TRUE)
  /\ UNCHANGED <<statement, resultSet, faults, skipped, lastRead, again>>

Progress ==
  \/ Prime \/ LoadPage \/ OpenStream \/ NextBatch \/ StreamEnds
  \/ ReadAll \/ ReadNone \/ ExecuteReturns \/ Take \/ Full \/ NoMore

PagingNext ==
  \/ Progress
  \/ LoadFails \/ OpenFails \/ StreamFails
  \/ \E n \in 0..MaxMany : Fetch(n)
  \/ FetchTable

PagingSpec == PagingInit /\ [][PagingNext]_pagingVars

-----------------------------------------------------------------------------
Increasing(s) == \A i, j \in DOMAIN s : i < j => s[i] < s[j]

\* Whatever mix of fetchone, fetchmany, fetchall and fetch_arrow_table the
\* caller uses, and whichever requests fail in between, rows come back in the
\* result's order and none comes back twice, until a page is requested after the
\* last one (StopsAtNull).
InOrderOnce == ~again => Increasing(got)

\* A row comes back only when every row before it came back, or was lost with a
\* call that raised, or stood behind an undecodable row: no page or batch is
\* jumped over, and rows already pulled are not forgotten by arrow_table.
NothingSkipped ==
  \A r \in SetOf(got) : 1..r \subseteq SetOf(got) \cup dropped \cup skipped

\* Each row once, in order, and none left out.
RowsInOrder == InOrderOnce /\ NothingSkipped

\* A short answer means that nothing is left, on every path whose requests were
\* answered, and on JSON pages even when some were not: a failed page is asked
\* for again.
EndMeansAll ==
  ended /\ (path = "arrow" => faults = 0)
    => 1..size \subseteq SetOf(got) \cup dropped \cup skipped

-----------------------------------------------------------------------------
\* What the repository says and the code does not do: TLC finds each of these
\* violated (README.md, Divergences).

\* "a caller cannot tell which path ran except by speed": after a failed request
\* the Arrow path, too, does not report the end of a result it has not read.
ArrowEndMeansAll == ended => 1..size \subseteq SetOf(got) \cup dropped \cup skipped

\* "following the string-offset cursor until it is null": no page is requested
\* after the one without a cursor.
StopsAtNull == ~again
=============================================================================
