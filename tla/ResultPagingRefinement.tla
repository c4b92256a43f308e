----------------------- MODULE ResultPagingRefinement -----------------------
(***************************************************************************)
(* ResultPaging implements RowCursor.  A row is left until a call returned *)
(* it, or took it and raised, or met it behind an undecodable one; rows in *)
(* the buffer, or taken by the call that runs, are still to come.  A fetch *)
(* of a stream whose request has failed may stop short of the last row; a  *)
(* page requested after the last starts the rows over.                     *)
(***************************************************************************)
EXTENDS ResultPaging

leftMap == 1..size \ (SetOf(got) \cup dropped \cup skipped)

callMap ==
  IF phase = "executing" THEN "execute" ELSE IF phase = "idle" THEN "none" ELSE "fetch"

trustMap ==
  IF again THEN "again" ELSE IF path = "arrow" /\ faults > 0 THEN "cut" ELSE "sound"

C == INSTANCE RowCursor WITH left <- leftMap, call <- callMap, trust <- trustMap

\* Whatever its kind of result set does with pages, batches and requests, a
\* cursor hands out the rows that come next, in order, and says that none is
\* left only when none is; a row lost to a call that raised stays lost
\* (result.py 79-140, _arrow_result.py 83-188 and cursor.py 195-209 together).
CursorSpec == C!CursorSpec
=============================================================================
