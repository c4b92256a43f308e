-------------------------- MODULE SqlCommandProofs --------------------------
(***************************************************************************)
(* What the commands that run SQL promise, for every budget, page size,     *)
(* limit and wait, any number of statements and interrupts: when a command   *)
(* gives up on a query, which rows it shows, when `dh session open` is over,  *)
(* and that the shell answers each statement and releases its session.      *)
(*                                                                         *)
(* A query, the opening of a session and the shell have an invariant each;   *)
(* Apart says which of them a mode leaves at rest.                          *)
(***************************************************************************)
EXTENDS SqlCommand, SequenceTheorems, TLAPS

-----------------------------------------------------------------------------
(* One query: QueryCommand *)

\* How far the command is, and what it knows of the query.
Following ==
  /\ pc \notin {"cancel", "ended"} => exit = "none" /\ ~inWait /\ presses = 0
  /\ pc = "cancel" => exit = "timeout" \/ (exit = "interrupted" /\ presses > 0)
  /\ pc \notin {"submit", "ended"} => query # "none"
  /\ pc \in {"report", "fetch"} => seen = query /\ query \in Terminal
  /\ pc = "fetch" \/ exit = "rows" => query = "done"
  /\ pc = "submit" => seen = "none"
  /\ pc \in {"poll", "sleep", "cancel"} => seen = "running"

\* The rows read: none before the first page, and while there are more to read
\* the total is known.
Reading ==
  /\ limit # NoLimit => got <= limit
  /\ pc \notin {"fetch", "ended"} => got = 0 /\ total = 0
  /\ pc = "fetch" /\ got > 0 => total = rows /\ got < rows

QueryInv == TypeOK /\ Following /\ Reading /\ GivesUpRightly /\ RowsAsAsked

LEMMA Constants ==
  /\ Budget \in Nat /\ Hold \in Nat /\ Latency \in Nat /\ Delays \subseteq Nat
  /\ PageSize \in Nat /\ PageSize > 0 /\ MaxRows \in Nat /\ MaxPresses \in Nat
  /\ Limits \subseteq Nat /\ NoLimit \notin Nat
  BY TimesAssumption, PagesAssumption, PressesAssumption

LEMMA QueryInit == Init => QueryInv
<1> SUFFICES ASSUME Init PROVE QueryInv
  OBVIOUS
<1> USE Constants DEF Init
<1>1. TypeOK
  <2>1. rows \in 0..MaxRows /\ got \in 0..rows /\ total \in {0, rows} /\ presses \in 0..MaxPresses
    OBVIOUS
  <2>2. now \in Nat /\ limit \in Limits \cup {NoLimit}
    OBVIOUS
  <2> QED
    BY <2>1, <2>2 DEF TypeOK, Terminal, Exits
<1>2. Following /\ GivesUpRightly
  BY DEF Following, Terminal, GivesUpRightly, InterruptInWaitCancels, TimeoutOnlyUnfinished, LeavesRunning
<1>3. Reading /\ RowsAsAsked
  BY DEF Reading, RowsAsAsked
<1> QED
  BY <1>1, <1>2, <1>3 DEF QueryInv

\* A step that leaves the rows alone and is over with none.
LEMMA RowsUntouched ==
  ASSUME QueryInv, UNCHANGED <<rows, limit, got, total, blank>>,
         pc' = "fetch" => pc \in {"report", "fetch"},
         pc' \notin {"fetch", "ended"} => pc \notin {"fetch", "ended"},
         exit' = "rows" => exit = "rows"
  PROVE  Reading' /\ RowsAsAsked'
<1>1. Reading'
  BY Constants DEF QueryInv, Reading
<1>2. RowsAsAsked'
  BY DEF QueryInv, RowsAsAsked, Truncated
<1> QED
  BY <1>1, <1>2

LEMMA SubmitKeeps ==
  ASSUME QueryInv, Submit \/ SubmitRaises \/ InterruptSubmit PROVE QueryInv'
<1> USE DEF QueryInv, Submit, SubmitRaises, InterruptSubmit, End
<1>1. TypeOK'
  BY Constants DEF TypeOK, Terminal, Exits
<1>2. Following'
  BY DEF TypeOK, Following, Terminal
<1>3. GivesUpRightly'
  BY DEF Following, GivesUpRightly, InterruptInWaitCancels, TimeoutOnlyUnfinished, LeavesRunning
<1>4. Reading' /\ RowsAsAsked'
  BY RowsUntouched DEF Following
<1> QED
  BY <1>1, <1>2, <1>3, <1>4

LEMMA PollKeeps ==
  ASSUME QueryInv, Poll \/ PollRaises \/ Sleep PROVE QueryInv'
<1> USE DEF QueryInv, End
<1>1. now' \in Nat
  <2>1. Left \in Nat
    BY Constants DEF Left, TypeOK
  <2>2. \A m, n \in Nat : Lower(m, n) \in Nat
    BY DEF Lower
  <2>3. Lower(Hold, Left) \in Nat /\ \A d \in Delays : Lower(d, Left) \in Nat
    BY <2>1, <2>2, Constants
  <2>4. \A t \in 0..Lower(Hold, Left) + Latency : now + t \in Nat
    BY <2>3, Constants DEF TypeOK
  <2>5. \A d \in Delays : now + Lower(d, Left) \in Nat
    BY <2>3 DEF TypeOK
  <2>6. CASE Poll
    BY <2>4, <2>6 DEF Poll
  <2>7. CASE PollRaises
    BY <2>7 DEF PollRaises, TypeOK
  <2>8. CASE Sleep
    BY <2>5, <2>8 DEF Sleep
  <2> QED
    BY <2>6, <2>7, <2>8
<1> USE DEF Poll, PollRaises, Sleep
<1>2. TypeOK'
  BY <1>1 DEF TypeOK, Exits
<1>3. Following'
  BY DEF TypeOK, Following, Terminal
<1>4. GivesUpRightly'
  <2>1. CASE Poll
    <3>1. exit' = "timeout" => query = "running" /\ now' >= Budget
      BY <2>1 DEF Following, TypeOK, Terminal
    <3> QED
      BY <2>1, <3>1
      DEF Following, GivesUpRightly, InterruptInWaitCancels, TimeoutOnlyUnfinished, LeavesRunning
  <2>2. CASE PollRaises \/ Sleep
    BY <2>2
    DEF Following, GivesUpRightly, InterruptInWaitCancels, TimeoutOnlyUnfinished, LeavesRunning
  <2> QED
    BY <2>1, <2>2
<1>5. Reading' /\ RowsAsAsked'
  BY RowsUntouched DEF Following
<1> QED
  BY <1>2, <1>3, <1>4, <1>5

LEMMA InterruptKeeps ==
  ASSUME QueryInv, InterruptWait \/ InterruptFetch PROVE QueryInv'
<1> USE DEF QueryInv, InterruptWait, InterruptFetch, End
<1>1. presses' = presses + 1 /\ presses' \in 0..MaxPresses /\ presses \in Nat
  BY Constants DEF TypeOK
<1>2. TypeOK'
  BY <1>1 DEF TypeOK, Exits
<1>3. Following'
  BY <1>1 DEF TypeOK, Following, Terminal
<1>4. GivesUpRightly'
  <2>1. CASE InterruptWait
    <3>1. pc = "cancel" /\ exit = "interrupted" => presses' > 1
      BY <1>1 DEF Following
    <3>2. exit' = "interrupted" /\ inWait' /\ (pc' = "ended" => presses' > 1)
      BY <2>1, <3>1 DEF Following
    <3> QED
      BY <1>1, <3>2 DEF GivesUpRightly, InterruptInWaitCancels, TimeoutOnlyUnfinished, LeavesRunning
  <2>2. CASE InterruptFetch
    <3>1. exit' = "interrupted" /\ ~inWait' /\ query' # "running"
      BY <2>2 DEF Following, Terminal
    <3> QED
      BY <3>1 DEF GivesUpRightly, InterruptInWaitCancels, TimeoutOnlyUnfinished, LeavesRunning
  <2> QED
    BY <2>1, <2>2
<1>5. Reading' /\ RowsAsAsked'
  BY RowsUntouched DEF Following
<1> QED
  BY <1>2, <1>3, <1>4, <1>5

LEMMA CancelKeeps ==
  ASSUME QueryInv, Cancel \/ Finish PROVE QueryInv'
<1> USE DEF QueryInv, Cancel, Finish
<1>1. TypeOK'
  BY DEF TypeOK, Terminal
<1>2. Following'
  BY DEF TypeOK, Following, Terminal
<1>3. GivesUpRightly'
  BY DEF GivesUpRightly, InterruptInWaitCancels, TimeoutOnlyUnfinished, LeavesRunning
<1>4. Reading' /\ RowsAsAsked'
  BY RowsUntouched DEF Following
<1> QED
  BY <1>1, <1>2, <1>3, <1>4

LEMMA ReportKeeps ==
  ASSUME QueryInv, Report \/ FetchRaises PROVE QueryInv'
<1> USE DEF QueryInv, Report, FetchRaises, End
<1>1. TypeOK'
  BY DEF TypeOK, Terminal, Exits, Following
<1>2. Following'
  BY DEF TypeOK, Following, Terminal
<1>3. GivesUpRightly'
  BY DEF Following, Terminal, GivesUpRightly, InterruptInWaitCancels, TimeoutOnlyUnfinished, LeavesRunning
<1>4. Reading' /\ RowsAsAsked'
  BY RowsUntouched DEF Following, Terminal
<1> QED
  BY <1>1, <1>2, <1>3, <1>4

\* A page is never larger than what --limit leaves.
LEMMA WantBounds ==
  ASSUME QueryInv
  PROVE  /\ Want \in Nat
         /\ limit # NoLimit => Want <= limit - got
         /\ Want = 0 => limit # NoLimit /\ got = limit
<1>1. got \in Nat /\ (limit # NoLimit => limit \in Nat /\ got <= limit)
  BY Constants DEF QueryInv, TypeOK, Reading
<1> QED
  BY <1>1, Constants DEF Want, Lower

LEMMA FetchKeeps ==
  ASSUME QueryInv, FetchPage \/ StopFetch PROVE QueryInv'
<1> USE DEF QueryInv, End
<1>1. rows \in Nat /\ got \in 0..rows /\ rows <= MaxRows /\ (limit # NoLimit => limit \in Nat)
  BY Constants DEF TypeOK
<1>2. CASE FetchPage
  <2>1. PICK n \in 0..Lower(Want, rows - got) :
          /\ Page(n)
          /\ IF got + n = rows \/ n = 0 THEN End("rows") ELSE UNCHANGED <<pc, exit>>
    BY <1>2 DEF FetchPage
  <2>2. n \in Nat /\ n <= Want /\ n <= rows - got
    BY <1>1, <2>1, WantBounds DEF Lower
  <2>3. /\ got' = got + n /\ got' \in 0..rows /\ total' = rows
        /\ limit # NoLimit => got' <= limit
        /\ blank' \in BOOLEAN /\ blank' = (n = 0 /\ got < rows)
    BY <1>1, <2>1, <2>2, WantBounds DEF Page
  <2>4. UNCHANGED <<query, rows, seen, now, limit, presses, inWait, tried>> /\ pc = "fetch"
    BY <1>2, <2>1 DEF FetchPage, Page
  <2>5. CASE got + n = rows \/ n = 0
    <3>1. pc' = "ended" /\ exit' = "rows"
      BY <2>1, <2>5
    <3>2. got' < rows => n = 0 /\ got < rows
      BY <1>1, <2>2, <2>3, <2>5
    <3>3. got' < rows => blank'
      BY <2>3, <3>2, Zenon
    <3>4. TypeOK'
      BY <2>3, <2>4, <3>1 DEF TypeOK, Exits
    <3>5. Following' /\ GivesUpRightly'
      BY <2>4, <3>1
      DEF Following, GivesUpRightly, InterruptInWaitCancels, TimeoutOnlyUnfinished, LeavesRunning
    <3>6. Reading' /\ RowsAsAsked'
      BY <2>3, <2>4, <3>1, <3>3 DEF Reading, RowsAsAsked
    <3> QED
      BY <3>4, <3>5, <3>6
  <2>6. CASE got + n # rows /\ n # 0
    <3>1. pc' = "fetch" /\ exit' = "none"
      BY <2>1, <2>4, <2>6 DEF Following
    <3>2. TypeOK'
      BY <2>3, <2>4, <3>1 DEF TypeOK, Exits
    <3>3. Following' /\ GivesUpRightly'
      BY <2>4, <3>1
      DEF Following, GivesUpRightly, InterruptInWaitCancels, TimeoutOnlyUnfinished, LeavesRunning
    <3>4. got' < rows
      BY <1>1, <2>2, <2>3, <2>6
    <3>5. Reading' /\ RowsAsAsked'
      BY <2>3, <2>4, <3>1, <3>4 DEF Reading, RowsAsAsked
    <3> QED
      BY <3>2, <3>3, <3>5
  <2> QED
    BY <2>5, <2>6
<1>3. CASE StopFetch
  <2>1. pc = "fetch" /\ pc' = "ended" /\ exit' = "rows"
        /\ UNCHANGED <<query, rows, seen, now, limit, got, total, presses, inWait, tried, blank>>
    BY <1>3 DEF StopFetch
  <2>2. limit # NoLimit /\ got = limit
    BY <1>3, WantBounds DEF StopFetch
  <2>3. TypeOK'
    BY <2>1 DEF TypeOK, Exits
  <2>4. Following' /\ GivesUpRightly'
    BY <2>1
    DEF Following, GivesUpRightly, InterruptInWaitCancels, TimeoutOnlyUnfinished, LeavesRunning
  <2>5. limit # 0 => total = rows /\ got < rows
    BY <1>1, <2>1, <2>2 DEF Reading
  <2>6. Reading' /\ RowsAsAsked'
    BY <2>1, <2>2, <2>5 DEF Reading, RowsAsAsked, Truncated
  <2> QED
    BY <2>3, <2>4, <2>6
<1> QED
  BY <1>2, <1>3

LEMMA QueryStep == ASSUME QueryInv, Next PROVE QueryInv'
  BY SubmitKeeps, PollKeeps, InterruptKeeps, CancelKeeps, ReportKeeps, FetchKeeps
  DEF Next, CommandStep

LEMMA QueryRests == ASSUME QueryInv, UNCHANGED vars PROVE QueryInv'
<1> USE DEF vars, QueryInv
<1>1. TypeOK' /\ Following' /\ Reading'
  BY DEF TypeOK, Following, Reading
<1>2. GivesUpRightly' /\ RowsAsAsked'
  BY DEF GivesUpRightly, InterruptInWaitCancels, TimeoutOnlyUnfinished, LeavesRunning,
         RowsAsAsked, Truncated
<1> QED
  BY <1>1, <1>2

-----------------------------------------------------------------------------
(* One opening: SessionCommand *)

OpenTypes ==
  /\ wait \in Waits \cup {NoWait}
  /\ began \in Nat /\ clock \in Nat /\ began <= clock

\* Each round of the wait begins in time, and takes a delay and a poll at most.
OnTime == wait # NoWait =>
  /\ step = "post" => clock = 0
  /\ step \in {"decide", "get"} => began <= OpenHold + OpenLatency
  /\ step = "get" => clock <= began + wait + LongestDelay
  /\ step = "decide" => clock <= began + wait + LongestDelay + OpenLatency

OpenInv == OpenTypes /\ OnTime /\ (outcome = "printed" => step = "ended") /\ OpenBounded

LEMMA OpenConstants ==
  /\ ServerHold \in Nat /\ OpenLatency \in Nat /\ LongestDelay \in Nat
  /\ \A d \in OpenDelays : d \in Nat /\ d <= LongestDelay
  /\ \A w \in Waits : w \in Nat
  BY WaitsAssumption

LEMMA HoldType == ASSUME OpenTypes PROVE OpenHold \in Nat
  BY OpenConstants DEF OpenTypes, OpenHold

LEMMA OpenStarts == OpenInit => OpenInv
  BY OpenConstants DEF OpenInit, OpenInv, OpenTypes, OnTime, OpenBounded

LEMMA OpenStep == ASSUME OpenInv, OpenNext PROVE OpenInv'
<1> USE DEF OpenInv, Conclude
<1>1. OpenHold \in Nat /\ clock \in Nat /\ began \in Nat /\ began <= clock
      /\ (wait # NoWait => wait \in Nat)
  BY HoldType, OpenConstants DEF OpenTypes
<1>2. wait' = wait /\ OpenHold' = OpenHold
  BY DEF OpenNext, PostOpen, PostOpenFails, Settled, GiveUp, Pause, PollOpen, PollOpenFails,
         RowMoves, OpenHold
<1>3. CASE PostOpen
  <2>1. PICK t \in 0..OpenHold + OpenLatency : clock' = clock + t
    BY <1>3 DEF PostOpen
  <2>2. clock' \in Nat /\ began' = clock'
        /\ (wait # NoWait => clock' <= OpenHold + OpenLatency)
    BY <1>1, <1>3, <2>1, OpenConstants DEF PostOpen, OnTime
  <2>3. wait = NoWait \/ (step' = "decide" /\ outcome' = outcome /\ step = "post")
    BY <1>3 DEF PostOpen
  <2> QED
    BY <1>1, <1>2, <1>3, <2>2, <2>3, OpenConstants DEF PostOpen, OpenTypes, OnTime, OpenBounded
<1>4. CASE PostOpenFails \/ PollOpenFails \/ RowMoves
  BY <1>1, <1>2, <1>4
  DEF PostOpenFails, PollOpenFails, RowMoves, OpenTypes, OnTime, OpenBounded
<1>5. CASE Settled \/ GiveUp
  <2>1. wait # NoWait => clock <= OpenHold + wait + LongestDelay + 2 * OpenLatency
    BY <1>1, <1>5, OpenConstants DEF Settled, GiveUp, OnTime
  <2> QED
    BY <1>1, <1>2, <1>5, <2>1 DEF Settled, GiveUp, OpenTypes, OnTime, OpenBounded
<1>6. CASE Pause
  <2>1. PICK d \in OpenDelays : clock' = clock + d
    BY <1>6 DEF Pause
  <2>2. clock' \in Nat /\ clock <= clock'
        /\ (wait # NoWait => clock' <= began + wait + LongestDelay)
    BY <1>1, <1>6, <2>1, OpenConstants DEF Pause
  <2> QED
    BY <1>1, <1>2, <1>6, <2>2 DEF Pause, OpenTypes, OnTime, OpenBounded
<1>7. CASE PollOpen
  <2>1. PICK t \in 0..OpenLatency : clock' = clock + t
    BY <1>7 DEF PollOpen
  <2>2. clock' \in Nat /\ clock <= clock'
        /\ (wait # NoWait => clock' <= began + wait + LongestDelay + OpenLatency)
    BY <1>1, <1>7, <2>1, OpenConstants DEF PollOpen, OnTime
  <2> QED
    BY <1>1, <1>2, <1>7, <2>2 DEF PollOpen, OpenTypes, OnTime, OpenBounded
<1> QED
  BY <1>3, <1>4, <1>5, <1>6, <1>7 DEF OpenNext

LEMMA OpenRests == ASSUME OpenInv, UNCHANGED openVars PROVE OpenInv'
  BY DEF openVars, OpenInv, OpenTypes, OnTime, OpenBounded, OpenHold

-----------------------------------------------------------------------------
(* The shell: SqlShell *)

ShellTypes ==
  /\ line \in Seq(Statements)
  /\ result \in [Statements -> S!Results] /\ told \in [Statements -> S!Told]
  /\ current \in Statements \cup {None}

\* What the session has to run is waiting, and no statement is there twice.
LineFits ==
  /\ \A i \in 1..Len(line) : result[line[i]] = "waiting"
  /\ \A i, j \in 1..Len(line) : line[i] = line[j] => i = j

\* Which statement is being run, and that it had no answer yet.
CurrentFits ==
  /\ prompt \in {"cursor", "submit", "wait", "fetch"} => current # None /\ told[current] = "nothing"
  /\ prompt = "fetch" => result[current] = "done"
  /\ prompt \notin {"cursor", "submit", "wait", "fetch"} /\ ~crashed => current = None
  /\ crashed => prompt \in {"closing", "ended"}

\* What was not sent yet did not run.
UnsentFits ==
  \A s \in Statements :
    told[s] = "nothing" /\ (s # current \/ prompt \in {"cursor", "submit"}) => result[s] = "none"

Shown == \A s \in Statements : told[s] = "rows" => result[s] = "done"

ShellInv ==
  /\ ShellTypes /\ LineFits /\ CurrentFits /\ UnsentFits /\ Shown
  /\ prompt # "prompt" => ~partial

\* The steps of the prompt, which are the same with a session and without.
AtPrompt ==
  S!TypeLine \/ (\E s \in Statements : S!TypeStatement(s)) \/ S!Quit \/ S!EndInput

LEMMA ShellInit == S!Init => ShellInv
  BY EmptySeq
  DEF S!Init, ShellInv, ShellTypes, LineFits, CurrentFits, UnsentFits, Shown, S!Results, S!Told

LEMMA PromptKeeps == ASSUME ShellInv, AtPrompt PROVE ShellInv'
<1> USE NoneAssumption DEF ShellInv
<1>1. UNCHANGED <<line, session, result, told, crashed, dead, deleted>>
  BY DEF AtPrompt, S!TypeLine, S!TypeStatement, S!Quit, S!EndInput, S!server
<1>2. prompt = "prompt" /\ current = None /\ ~crashed
  BY DEF AtPrompt, S!TypeLine, S!TypeStatement, S!Quit, S!EndInput, CurrentFits
<1>3. \/ prompt' = "prompt" /\ current' = None
      \/ prompt' = "closing" /\ current' = None /\ ~partial'
      \/ /\ prompt' = "cursor" /\ ~partial'
         /\ current' \in Statements /\ told[current'] = "nothing"
  BY <1>2 DEF AtPrompt, S!TypeLine, S!TypeStatement, S!Quit, S!EndInput, S!Typed, ShellTypes
<1>4. ShellTypes' /\ LineFits' /\ Shown'
  BY <1>1, <1>2, <1>3 DEF ShellTypes, LineFits, Shown
<1>5. CurrentFits' /\ UnsentFits'
  BY <1>1, <1>2, <1>3 DEF CurrentFits, UnsentFits
<1> QED
  BY <1>3, <1>4, <1>5

\* The answer to the statement that is being run: of the server's results at most
\* its own has changed.
LEMMA TellKeeps ==
  ASSUME ShellInv, NEW what \in S!Told \ {"nothing"}, S!Tell(what), UNCHANGED <<crashed, partial>>,
         prompt \in {"cursor", "submit", "wait", "fetch"},
         line' \in Seq(Statements), result' \in [Statements -> S!Results], LineFits',
         \A s \in Statements \ {current} : result'[s] = result[s],
         what = "rows" => result'[current] = "done"
  PROVE  ShellInv'
<1> USE NoneAssumption DEF ShellInv, S!Tell
<1>1. current \in Statements /\ current' = None /\ prompt' \in {"prompt", "closing"} /\ ~crashed
  BY DEF ShellTypes, CurrentFits
<1>2. told' \in [Statements -> S!Told] /\ told'[current] = what
      /\ \A s \in Statements \ {current} : told'[s] = told[s]
  BY <1>1 DEF ShellTypes
<1>3. ShellTypes' /\ CurrentFits'
  BY <1>1, <1>2 DEF ShellTypes, CurrentFits
<1>4. UnsentFits' /\ Shown'
  BY <1>1, <1>2 DEF UnsentFits, Shown
<1>5. ~partial'
  OBVIOUS
<1> QED
  BY <1>3, <1>4, <1>5

\* The session takes the statement that is being submitted.
LEMMA AcceptFits ==
  ASSUME ShellInv, S!Accept, prompt = "submit"
  PROVE  /\ current \in Statements /\ told[current] = "nothing" /\ ~crashed /\ ~partial
         /\ line' \in Seq(Statements) /\ LineFits'
         /\ result' \in [Statements -> S!Results] /\ result'[current] = "waiting"
         /\ \A s \in Statements \ {current} : result'[s] = result[s]
<1> USE NoneAssumption DEF ShellInv, S!Accept
<1>1. /\ current \in Statements /\ result[current] = "none"
      /\ told[current] = "nothing" /\ ~crashed /\ ~partial
  BY DEF ShellTypes, CurrentFits, UnsentFits
<1>2. line \in Seq(Statements) /\ line' = Append(line, current)
  BY DEF ShellTypes
<1>3. /\ line' \in Seq(Statements) /\ Len(line') = Len(line) + 1
      /\ line'[Len(line) + 1] = current
      /\ \A i \in 1..Len(line) : line'[i] = line[i] /\ line[i] \in Statements
  BY <1>1, <1>2, AppendProperties, ElementOfSeq
<1>4. result' \in [Statements -> S!Results] /\ result'[current] = "waiting"
      /\ \A s \in Statements \ {current} : result'[s] = result[s]
  BY <1>1 DEF ShellTypes, S!Results
<1>5. \A i \in 1..Len(line) : line[i] # current
  BY <1>1 DEF LineFits
<1>6. Len(line) \in Nat /\ \A i \in 1..Len(line') : i \in 1..Len(line) \/ i = Len(line) + 1
  BY <1>2, <1>3, LenProperties
<1>7. ASSUME NEW i \in 1..Len(line') PROVE result'[line'[i]] = "waiting"
  BY <1>3, <1>4, <1>5, <1>6, <1>7 DEF LineFits
<1>8. ASSUME NEW i \in 1..Len(line'), NEW j \in 1..Len(line'), line'[i] = line'[j] PROVE i = j
  BY <1>3, <1>5, <1>6, <1>8 DEF LineFits
<1> QED
  BY <1>1, <1>3, <1>4, <1>7, <1>8 DEF LineFits

\* A step of the shell, and a Ctrl-C while a statement runs.
LEMMA RunKeeps ==
  ASSUME ShellInv, S!OpenCursor \/ S!Submit \/ S!SubmitRefused \/ S!Unfollowed \/ S!See
                   \/ S!Fetch \/ S!Interrupt
  PROVE  ShellInv'
<1> USE NoneAssumption DEF ShellInv
<1>0. {"rows", "error", "cancelled"} \subseteq S!Told \ {"nothing"}
  BY DEF S!Told
<1>1. CASE S!OpenCursor
  <2>1. prompt = "cursor" /\ UNCHANGED <<line, result, told, current, partial>>
        /\ \/ prompt' = "closing" /\ crashed'
           \/ prompt' = "submit" /\ crashed' = crashed
    BY <1>1 DEF S!OpenCursor, S!server
  <2>2. ShellTypes' /\ LineFits' /\ Shown' /\ ~partial'
    BY <2>1 DEF ShellTypes, LineFits, Shown
  <2>3. CurrentFits' /\ UnsentFits'
    BY <2>1 DEF CurrentFits, UnsentFits
  <2> QED
    BY <2>2, <2>3
<1>2. CASE S!Submit
  <2>1. /\ prompt = "submit" /\ prompt' = "wait" /\ S!Accept
        /\ UNCHANGED <<told, current, crashed, partial>>
    BY <1>2 DEF S!Submit
  <2>2. ShellTypes' /\ LineFits'
    BY <2>1, AcceptFits DEF ShellTypes
  <2>3. CurrentFits' /\ UnsentFits' /\ Shown'
    BY <2>1, AcceptFits DEF ShellTypes, CurrentFits, UnsentFits, Shown
  <2> QED
    BY <2>1, <2>2, <2>3
<1>3. ASSUME NEW what \in {"rows", "error", "cancelled"}, S!Tell(what),
             UNCHANGED <<line, result, crashed, partial>>,
             prompt \in {"cursor", "submit", "wait", "fetch"},
             what = "rows" => prompt = "fetch"
      PROVE ShellInv'
  <2>1. line' \in Seq(Statements) /\ result' \in [Statements -> S!Results] /\ LineFits'
    BY <1>3 DEF ShellTypes, LineFits
  <2> QED
    BY <1>0, <1>3, <2>1, TellKeeps DEF CurrentFits
<1>4. ASSUME NEW what \in {"error", "cancelled"}, S!Tell(what), S!Accept, prompt = "submit",
             UNCHANGED <<crashed, partial>>
      PROVE ShellInv'
  BY <1>0, <1>4, AcceptFits, TellKeeps
<1>5. CASE S!SubmitRefused \/ S!Fetch
  BY <1>3, <1>5 DEF S!SubmitRefused, S!Fetch, S!server
<1>6. CASE S!Unfollowed
  BY <1>3, <1>4, <1>6 DEF S!Unfollowed, S!server
<1>7. CASE S!Interrupt
  BY <1>3, <1>4, <1>7 DEF S!Interrupt, S!server
<1>8. CASE S!See
  <2>1. CASE result[current] = "done"
    <3>1. prompt = "wait" /\ prompt' = "fetch"
          /\ UNCHANGED <<line, result, told, current, crashed, partial>>
      BY <1>8, <2>1 DEF S!See, S!server
    <3>2. ShellTypes' /\ LineFits' /\ Shown' /\ ~partial'
      BY <3>1 DEF ShellTypes, LineFits, Shown
    <3>3. CurrentFits' /\ UnsentFits'
      BY <2>1, <3>1 DEF CurrentFits, UnsentFits
    <3> QED
      BY <3>2, <3>3
  <2>2. CASE result[current] # "done"
    BY <1>3, <1>8, <2>2 DEF S!See, S!server
  <2> QED
    BY <2>1, <2>2
<1> QED
  BY <1>1, <1>2, <1>5, <1>6, <1>7, <1>8

\* What the session had to run ends with it; what is done stays done.
LEMMA EndSessionFits ==
  ASSUME ShellInv, S!EndSession
  PROVE  /\ line' \in Seq(Statements) /\ LineFits'
         /\ result' \in [Statements -> S!Results]
         /\ \A s \in Statements : result[s] \in {"none", "done"} => result'[s] = result[s]
<1>1. line' = <<>> /\ Len(line') = 0
  BY DEF S!EndSession
<1>2. line' \in Seq(Statements) /\ LineFits'
  BY <1>1, EmptySeq DEF LineFits
<1> QED
  BY <1>2 DEF S!EndSession, ShellInv, ShellTypes, S!Results

LEMMA CloseKeeps == ASSUME ShellInv, S!Close \/ S!InterruptClose PROVE ShellInv'
<1> USE NoneAssumption DEF ShellInv
<1>1. prompt = "closing" /\ prompt' = "ended" /\ UNCHANGED <<told, current, crashed, partial>>
      /\ (S!EndSession \/ UNCHANGED <<line, result>>)
  BY DEF S!Close, S!InterruptClose, S!server
<1>2. /\ line' \in Seq(Statements) /\ LineFits'
      /\ result' \in [Statements -> S!Results]
      /\ \A s \in Statements : result[s] \in {"none", "done"} => result'[s] = result[s]
  BY <1>1, EndSessionFits DEF ShellTypes, LineFits
<1>3. ShellTypes' /\ CurrentFits' /\ UnsentFits' /\ Shown'
  BY <1>1, <1>2 DEF ShellTypes, CurrentFits, UnsentFits, Shown
<1> QED
  BY <1>1, <1>2, <1>3

LEMMA ServerKeeps == ASSUME ShellInv, S!RunStatement \/ S!Reap PROVE ShellInv'
<1> USE NoneAssumption DEF ShellInv
<1>1. UNCHANGED <<prompt, told, current, crashed, partial>>
  BY DEF S!RunStatement, S!Reap, S!shell
<1>2. CASE S!Reap
  <2>1. S!EndSession
    BY <1>2 DEF S!Reap
  <2> QED
    BY <1>1, <2>1, EndSessionFits DEF ShellTypes, CurrentFits, UnsentFits, Shown
<1>3. CASE S!RunStatement
  <2>1. line # <<>> /\ line' = Tail(line) /\ line \in Seq(Statements)
    BY <1>3 DEF S!RunStatement, ShellTypes
  <2>2. PICK r \in {"done", "failed"} : result' = [result EXCEPT ![Head(line)] = r]
    BY <1>3 DEF S!RunStatement
  <2>3. /\ Len(line) \in Nat /\ 1 \in 1..Len(line) /\ Head(line) = line[1]
        /\ line' \in Seq(Statements) /\ Len(line') = Len(line) - 1
        /\ \A i \in 1..Len(line') : line'[i] = line[i + 1] /\ i + 1 \in 1..Len(line)
    BY <2>1, HeadTailProperties, LenProperties, EmptySeq
  <2>4. Head(line) \in Statements /\ result[Head(line)] = "waiting"
    BY <2>1, <2>3, ElementOfSeq DEF LineFits
  <2>5. result' \in [Statements -> S!Results]
        /\ \A s \in Statements \ {Head(line)} : result'[s] = result[s]
    BY <2>2, <2>4 DEF ShellTypes, S!Results
  <2>6. \A i \in 1..Len(line') : line'[i] \in Statements /\ line'[i] # Head(line)
    BY <2>1, <2>3, ElementOfSeq DEF LineFits
  <2>7. LineFits'
    <3>1. ASSUME NEW i \in 1..Len(line') PROVE result'[line'[i]] = "waiting"
      BY <2>3, <2>5, <2>6, <3>1 DEF LineFits
    <3>2. ASSUME NEW i \in 1..Len(line'), NEW j \in 1..Len(line'), line'[i] = line'[j] PROVE i = j
      BY <2>3, <3>2 DEF LineFits
    <3> QED
      BY <3>1, <3>2 DEF LineFits
  <2>8. ShellTypes'
    BY <1>1, <2>3, <2>5 DEF ShellTypes
  <2>9. CurrentFits' /\ UnsentFits' /\ Shown'
    BY <1>1, <2>4, <2>5 DEF ShellTypes, CurrentFits, UnsentFits, Shown
  <2> QED
    BY <1>1, <2>7, <2>8, <2>9
<1> QED
  BY <1>2, <1>3

LEMMA ShellStepKeeps == ASSUME ShellInv, S!Next PROVE ShellInv'
  BY PromptKeeps, RunKeeps, CloseKeeps, ServerKeeps DEF S!Next, S!ShellStep, AtPrompt

LEMMA ShellRests ==
  ASSUME ShellInv, UNCHANGED <<line, result, prompt, partial, current, told, crashed>>
  PROVE  ShellInv'
  BY DEF ShellInv, ShellTypes, LineFits, CurrentFits, UnsentFits, Shown

-----------------------------------------------------------------------------
(* The commands *)

\* What a mode does not use is at rest, and a query of the shell is begun only while
\* its statement is submitted.
Apart ==
  /\ mode # "session" => line = <<>>
  /\ mode = "connect" => ~partial
  /\ mode \in {"sql", "exec"} \/ (mode = "plain" /\ prompt = "submit") \/ pc = "submit"
  /\ mode = "session" /\ prompt = "ended" => deleted \/ dead \/ torn

CommandInv == QueryInv /\ OpenInv /\ ShellInv /\ Apart

LEMMA CommandStarts == CommandInit => CommandInv
<1> SUFFICES ASSUME CommandInit PROVE CommandInv
  OBVIOUS
<1>1. Apart
  BY DEF CommandInit, Init, S!Init, Apart
<1> QED
  BY <1>1, QueryInit, OpenStarts, ShellInit DEF CommandInit, CommandInv

LEMMA QueryCommandKeeps == ASSUME CommandInv, RunQuery \/ OpenSession PROVE CommandInv'
<1> USE DEF CommandInv, RunQuery, OpenSession
<1>1. QueryInv' /\ OpenInv'
  BY QueryStep, QueryRests, OpenStep, OpenRests
<1>2. ShellInv' /\ Apart'
  BY ShellRests DEF shellVars, vars, Apart
<1> QED
  BY <1>1, <1>2

\* A new query of the shell is any query that was not begun.
LEMMA UnaskedFits ==
  ASSUME QueryInv, pc' = "submit" /\ exit' = "none" /\ got' = 0 /\ total' = 0,
         presses' = 0 /\ ~inWait', tried' \in BOOLEAN, blank' \in BOOLEAN, rows' \in 0..MaxRows,
         now' \in Nat, limit' \in Limits \cup {NoLimit},
         query' \in {"none", "running"} \cup Terminal,
         seen' = "none", inWait' \in BOOLEAN
  PROVE  QueryInv'
<1> USE Constants
<1>1. TypeOK'
  <2>1. got' \in 0..rows' /\ total' \in {0, rows'} /\ presses' \in 0..MaxPresses
    OBVIOUS
  <2> QED
    BY <2>1 DEF TypeOK, Exits
<1>2. Following' /\ Reading'
  BY DEF Following, Reading
<1>3. GivesUpRightly' /\ RowsAsAsked'
  BY DEF GivesUpRightly, InterruptInWaitCancels, TimeoutOnlyUnfinished, LeavesRunning, RowsAsAsked
<1> QED
  BY <1>1, <1>2, <1>3 DEF QueryInv

LEMMA ConnectKeeps ==
  ASSUME CommandInv, Connected \/ FallBack \/ InterruptConnect PROVE CommandInv'
<1> USE DEF CommandInv, Connected, FallBack, InterruptConnect
<1>1. QueryInv' /\ OpenInv'
  BY QueryRests, OpenRests
<1>2. ShellInv'
  <2>1. UNCHANGED <<line, result, told, current, crashed, partial>> /\ ~partial
        /\ prompt = "prompt" /\ prompt' \in {"prompt", "ended"}
    BY DEF shellVars, Apart
  <2> QED
    BY <2>1 DEF ShellInv, ShellTypes, LineFits, CurrentFits, UnsentFits, Shown
<1>3. Apart'
  BY DEF shellVars, vars, Apart
<1> QED
  BY <1>1, <1>2, <1>3

LEMMA OnSessionKeeps == ASSUME CommandInv, OnSession PROVE CommandInv'
<1> USE DEF CommandInv, OnSession
<1>1. QueryInv' /\ OpenInv' /\ ShellInv'
  BY QueryRests, OpenRests, ShellStepKeeps
<1>2. mode' = "session" /\ pc' = "submit"
  BY DEF vars, Apart
<1>3. prompt' = "ended" => deleted' \/ dead' \/ torn'
  BY DEF Apart, S!Next, S!ShellStep, S!OpenCursor, S!Submit, S!SubmitRefused, S!Unfollowed,
         S!See, S!Fetch, S!Close, S!InterruptClose, S!TypeLine, S!TypeStatement, S!Quit, S!EndInput,
         S!Interrupt, S!RunStatement, S!Reap, S!Tell, S!shell
<1> QED
  BY <1>1, <1>2, <1>3 DEF Apart

LEMMA PlainKeeps ==
  ASSUME CommandInv, PlainPrompt \/ PlainBegin \/ PlainRun \/ PlainEnd \/ PlainClose
  PROVE  CommandInv'
<1> USE NoneAssumption DEF CommandInv
<1>1. CASE PlainPrompt
  <2>1. AtPrompt /\ UNCHANGED <<mode, vars, openVars>> /\ mode = "plain"
    BY <1>1 DEF PlainPrompt, AtPrompt
  <2>2. UNCHANGED line /\ prompt = "prompt" /\ prompt' # "submit"
    BY <2>1 DEF AtPrompt, S!TypeLine, S!TypeStatement, S!Quit, S!EndInput, S!server
  <2>3. Apart'
    BY <2>1, <2>2 DEF Apart, vars
  <2> QED
    BY <2>1, <2>3, PromptKeeps, QueryRests, OpenRests
<1>2. CASE PlainBegin
  <2>1. /\ mode = "plain" /\ prompt = "cursor" /\ prompt' = "submit" /\ pc = "submit"
        /\ rows' \in 0..MaxRows
        /\ UNCHANGED <<mode, query, pc, exit, seen, now, limit, got, total, presses, inWait, tried,
                       blank, line, result, partial, current, dead, told, crashed, deleted, torn>>
    BY <1>2 DEF PlainBegin, Apart
  <2>2. QueryInv'
    BY <2>1, UnaskedFits DEF QueryInv, TypeOK, Following, Reading
  <2>3. OpenInv'
    BY <1>2, OpenRests DEF PlainBegin
  <2>4. ShellInv'
    BY <2>1 DEF ShellInv, ShellTypes, LineFits, CurrentFits, UnsentFits, Shown
  <2>5. Apart'
    BY <2>1 DEF Apart
  <2> QED
    BY <2>2, <2>3, <2>4, <2>5
<1>3. CASE PlainRun
  <2>1. QueryInv' /\ OpenInv'
    BY <1>3, QueryStep, OpenRests DEF PlainRun
  <2>2. ShellInv' /\ Apart'
    BY <1>3, ShellRests DEF PlainRun, shellVars, Apart
  <2> QED
    BY <2>1, <2>2
<1>4. CASE PlainEnd
  <2>1. /\ mode = "plain" /\ prompt = "submit" /\ S!Tell(Outcome) /\ Unasked(NoLimit)
        /\ result' = [result EXCEPT ![current] = IF query = "done" THEN "done" ELSE "failed"]
        /\ UNCHANGED <<mode, openVars, line, partial, dead, crashed, deleted>> /\ line = <<>>
    BY <1>4 DEF PlainEnd, Apart
  <2>2. current \in Statements
    BY <2>1 DEF ShellInv, ShellTypes, CurrentFits
  <2>3. Outcome \in S!Told \ {"nothing"} /\ (Outcome = "rows" => query = "done")
    BY DEF Outcome, S!Told, QueryInv, Following
  <2>4. result' \in [Statements -> S!Results]
        /\ (query = "done" => result'[current] = "done")
        /\ \A s \in Statements \ {current} : result'[s] = result[s]
    BY <2>1, <2>2 DEF ShellInv, ShellTypes, S!Results
  <2>5. line' \in Seq(Statements) /\ LineFits'
    BY <2>1, EmptySeq DEF LineFits
  <2>6. ShellInv'
    BY <2>1, <2>3, <2>4, <2>5, TellKeeps
  <2>7. QueryInv'
    <3>1. /\ pc' = "submit" /\ exit' = "none" /\ got' = 0 /\ total' = 0 /\ presses' = 0
          /\ inWait' = FALSE /\ tried' = FALSE /\ blank' = FALSE
          /\ query' = "none" /\ seen' = "none"
      BY <2>1 DEF Unasked
    <3>2. rows' \in 0..MaxRows /\ now' \in Nat /\ limit' \in Limits \cup {NoLimit}
      BY <2>1, Constants DEF Unasked
    <3> QED
      BY <3>1, <3>2, UnaskedFits
  <2>8. OpenInv'
    BY <2>1, OpenRests
  <2>9. Apart'
    BY <2>1 DEF Unasked, Apart
  <2> QED
    BY <2>6, <2>7, <2>8, <2>9
<1>5. CASE PlainClose
  <2>1. /\ mode = "plain" /\ prompt = "closing" /\ prompt' = "ended"
        /\ UNCHANGED <<mode, vars, openVars, line, result, partial, current, told, crashed>>
    BY <1>5 DEF PlainClose
  <2>2. ShellInv'
    BY <2>1 DEF ShellInv, ShellTypes, LineFits, CurrentFits, UnsentFits, Shown
  <2>3. Apart'
    BY <2>1 DEF Apart, vars
  <2> QED
    BY <2>1, <2>2, <2>3, QueryRests, OpenRests
<1> QED
  BY <1>1, <1>2, <1>3, <1>4, <1>5

LEMMA CommandKeeps == CommandInv /\ [CommandNext]_commandVars => CommandInv'
<1> SUFFICES ASSUME CommandInv, [CommandNext]_commandVars PROVE CommandInv'
  OBVIOUS
<1>1. CASE UNCHANGED commandVars
  <2>1. UNCHANGED <<mode, vars, openVars, shellVars, prompt, pc>>
    BY <1>1 DEF commandVars, shellVars, vars
  <2> QED
    BY <2>1, QueryRests, OpenRests, ShellRests DEF CommandInv, Apart, shellVars
<1> QED
  BY <1>1, QueryCommandKeeps, ConnectKeeps, OnSessionKeeps, PlainKeeps DEF CommandNext, ShellStep

LEMMA CommandInductive == CommandSpec => []CommandInv
  BY CommandStarts, CommandKeeps, PTL DEF CommandSpec

-----------------------------------------------------------------------------
(* The theorems *)

\* Every variable of a query keeps its type, whichever command runs it.
THEOREM QueryTypes == CommandSpec => []TypeOK
  BY CommandInductive, PTL DEF CommandInv, QueryInv

\* A single Ctrl-C during the wait and the end of the budget send a DELETE before the
\* command ends, and the budget ends only a query that the last answer called running;
\* a query is left running without a DELETE only with --no-wait, after a submit or a
\* poll that failed, after Ctrl-C before its id came, or after a second Ctrl-C in the
\* wait (execute.py 85-149).
THEOREM GivesUpAsPromised == CommandSpec => []GivesUpRightly
  BY CommandInductive, PTL DEF CommandInv, QueryInv

\* The rows shown are the whole result, or as many as --limit allows and said to be
\* truncated, whatever the page size and however short the pages, unless a page came
\* without rows and with a cursor; the total shown with them is the whole result's
\* even then (execute.py 163-191).
THEOREM ShowsRowsAsked == CommandSpec => []RowsAsAsked
  BY CommandInductive, PTL DEF CommandInv, QueryInv

\* dh session open is over once the held POST, the wait, one delay and one poll have
\* passed (session.py 85-126).
THEOREM OpensInTime == CommandSpec => []OpenBounded
  BY CommandInductive, PTL DEF CommandInv, OpenInv

\* Each statement typed into the shell is answered before the next is read, and rows
\* are shown only of one that was done (repl.py 38-59, 101-150).
THEOREM ShellAnswersAll == CommandSpec => []AllAnswered
<1>1. ShellInv => AllAnswered
  BY DEF ShellInv, Shown, CurrentFits, AllAnswered, S!AllAnswered
<1> QED
  BY <1>1, CommandInductive, PTL DEF CommandInv

\* However the shell on a session ends, it has asked the server to close the session,
\* unless the connection is dead or Ctrl-C cut the closing short (repl.py 67-76).
THEOREM ShellReleasesSession == CommandSpec => []SessionReleased
<1>1. Apart => SessionReleased
  BY DEF Apart, SessionReleased, S!SessionReleased
<1> QED
  BY <1>1, CommandInductive, PTL DEF CommandInv
=============================================================================
