--------------------------- MODULE ResourceCommand ---------------------------
(***************************************************************************)
(* Invocations of dh that send one request (context.py, rest.py and the    *)
(* functions of commands/): each confirms if it must, takes its settings   *)
(* from flags, environment and the profile file, looks up what it needs,   *)
(* sends the request and prints the answer; its exit status says what      *)
(* became of it (errors.py).  They run side by side, on one profile file   *)
(* whose default another terminal may switch, against one server that      *)
(* keeps a version of the worksheet they update.                           *)
(*                                                                         *)
(* The server is external: a 4xx means it did nothing; a 5xx, a time-out   *)
(* or a lost answer says nothing about it; a host that has moved to https  *)
(* answers 301, which httpx follows, a POST as a GET.                      *)
(*                                                                         *)
(* An operator named Faulty... is its neighbour with one plausible bug; no *)
(* action uses it.                                                         *)
(***************************************************************************)
EXTENDS CommandTable, Naturals, FiniteSets

CONSTANTS Calls,        \* invocations of dh
          Attended,     \* those started from a terminal
          Offered,      \* [Calls -> the commands it may be]
          Profiles,     \* profiles of the file
          Has,          \* [Profiles -> the settings it holds]
          Moved,        \* profiles whose host answers 301
          NoProfile,    \* the file has no default
          Pages,        \* pages of a collection
          MaxSwitches   \* bound: changes of the default profile

Settings == {"host", "workspace", "catalog"}
Sources == Profiles \cup {"given", "server", "unset"}

ASSUME TableAssumption ==
  /\ Offered \in [Calls -> SUBSET Commands] /\ Attended \subseteq Calls
  /\ Pages \in Nat \ {0} /\ MaxSwitches \in Nat
ASSUME ProfilesAssumption ==
  /\ Has \in [Profiles -> SUBSET Settings] /\ Moved \subseteq Profiles
  /\ NoProfile \notin Profiles /\ Profiles \cap {"given", "server", "unset"} = {}

VARIABLES
  default,   \* the default profile of the file
  switches,  \* times it was changed
  version,   \* the worksheet's version on the server
  run        \* [Calls -> what the invocation is and where it stands]

vars == <<default, switches, version, run>>

NoCommand == Do(<<>>, "none")

\* looked: the version the user last read when starting it; replaced: the one
\* its update replaced.  contacted, done (times the server carried its request
\* out) and downgraded (its POST went out as a GET) are what happened to it.
NewRun ==
  [phase |-> "new", cmd |-> NoCommand, at |-> 1, agreed |-> FALSE,
   profile |-> NoProfile, used |-> [s \in Settings |-> "unset"], all |-> FALSE,
   page |-> 0, looked |-> 0, replaced |-> 0, contacted |-> FALSE, done |-> 0,
   downgraded |-> FALSE, exit |-> "ok"]

Phases == {"new", "confirm", "asked", "prepare", "prompted", "output", "ended"}
Changes(cmd) == cmd.sends \in {"POST", "PUT", "PATCH", "DELETE"}
Versioned(cmd) == cmd = UpdateWorksheet

\* A command that changes something reads the profile file before anything but
\* its own arguments, and so once.
ReadsFirst(cmd) ==
  \A i, j \in 1..Len(cmd.steps) :
    cmd.steps[i] = "read" /\ j < i => cmd.steps[j] \in {"arguments", "password"}
ASSUME OfferedAssumption ==
  \A c \in Calls : \A cmd \in Offered[c] :
    cmd.steps \in Seq(STRING) /\ (Changes(cmd) => ReadsFirst(cmd))

Init ==
  /\ default \in Profiles \cup {NoProfile} /\ switches = 0
  /\ version = 0
  /\ run = [c \in Calls |-> NewRun]

-----------------------------------------------------------------------------
(* Exit codes *)

\* What the process held is gone with it.
Ended(r, code) ==
  [r EXCEPT !.phase = "ended", !.exit = code, !.at = 1, !.profile = NoProfile,
            !.used = [s \in Settings |-> "unset"]]
Passed(r) == [r EXCEPT !.at = @ + 1]
\* The exit codes by what they say.  Refused is 3 (no settings, 401, 403), 4 (404)
\* or 5 (any other 4xx, a local check); unknown is 1 (any other 5xx, a crash),
\* 7 (408, 504, the client's own time-out), 8 (429, 502, 503, no connection) or
\* 130 (Ctrl-C).
Codes == [ok |-> {0}, refused |-> {3, 4, 5}, unknown |-> {1, 7, 8, 130}, aborted |-> {9}]

Becomes(c, r) == run' = [run EXCEPT ![c] = r]
World == <<default, switches, version>>

-----------------------------------------------------------------------------
(* Agreement *)

Start(c) ==
  /\ run[c].phase = "new"
  /\ \E cmd \in Offered[c] :
       Becomes(c, [run[c] EXCEPT !.phase = IF cmd.asks THEN "confirm" ELSE "prepare",
                                 !.cmd = cmd,
                                 !.looked = IF Versioned(cmd) THEN version ELSE 0])
  /\ UNCHANGED World

\* No terminal is taken for consent.
FaultyConfirm(c) ==
  /\ run[c].phase = "confirm"
  /\ \/ Becomes(c, [run[c] EXCEPT !.phase = "prepare", !.agreed = TRUE])
     \/ c \in Attended /\ Becomes(c, [run[c] EXCEPT !.phase = "asked"])
     \/ c \notin Attended /\ Becomes(c, [run[c] EXCEPT !.phase = "prepare"])
  /\ UNCHANGED World

\* Prompts whether or not anyone is there.
HangingConfirm(c) ==
  /\ run[c].phase = "confirm"
  /\ \/ Becomes(c, [run[c] EXCEPT !.phase = "prepare", !.agreed = TRUE])
     \/ Becomes(c, [run[c] EXCEPT !.phase = "asked"])
  /\ UNCHANGED World

\* --yes goes ahead, a terminal asks, anything else refuses.
Confirm(c) ==
  /\ run[c].phase = "confirm"
  /\ \/ Becomes(c, [run[c] EXCEPT !.phase = "prepare", !.agreed = TRUE])
     \/ c \in Attended /\ Becomes(c, [run[c] EXCEPT !.phase = "asked"])
     \/ c \notin Attended /\ Becomes(c, Ended(run[c], "aborted"))
  /\ UNCHANGED World

\* The person answers; Ctrl-C and Ctrl-D are a no.
Answer(c) ==
  /\ run[c].phase = "asked"
  /\ \/ Becomes(c, [run[c] EXCEPT !.phase = "prepare", !.agreed = TRUE])
     \/ Becomes(c, Ended(run[c], "aborted"))
  /\ UNCHANGED World

-----------------------------------------------------------------------------
(* Preparation *)

At(c, steps) ==
  LET r == run[c] IN
  /\ r.phase = "prepare" /\ r.at <= Len(r.cmd.steps)
  /\ r.cmd.steps[r.at] \in steps

\* An option that is prompted for when it is not given.  Nothing asks whether there
\* is a terminal.
Password(c) ==
  /\ At(c, {"password"})
  /\ \/ Becomes(c, Passed(run[c]))
     \/ Becomes(c, [run[c] EXCEPT !.phase = "prompted"])
  /\ UNCHANGED World

\* The password comes; Ctrl-C or the end of the input is a crash (Abort).
EnterPassword(c) ==
  /\ run[c].phase = "prompted"
  /\ \/ Becomes(c, Passed([run[c] EXCEPT !.phase = "prepare"]))
     \/ Becomes(c, Ended(run[c], "unknown"))
  /\ UNCHANGED World

\* The file may be unreadable, or lack a profile that was named.
Read(c) ==
  /\ At(c, {"read"})
  /\ \/ Becomes(c, [Passed(run[c]) EXCEPT !.profile = default])
     \/ Becomes(c, Ended(run[c], "refused"))
  /\ UNCHANGED World

Arguments(c) ==
  /\ At(c, {"arguments", "version"})
  /\ \/ Becomes(c, Passed(run[c]))
     \/ Becomes(c, Ended(run[c], "refused"))
  /\ UNCHANGED World

\* A flag or the environment, then the profile.
Held(r, s) == r.profile \in Profiles /\ s \in Has[r.profile]
From(r, s) ==
  IF r.used[s] # "unset" THEN {r.used[s]}
  ELSE {"given"} \cup {p \in {r.profile} : Held(r, s)}
Missing(r, s) == r.used[s] = "unset" /\ ~Held(r, s)

\* The client resolves the settings again.
FaultyRequire(c) ==
  \E s \in {"host", "workspace"} :
    /\ At(c, {s})
    /\ LET r == [run[c] EXCEPT !.profile = IF s = "host" THEN default ELSE @] IN
       \/ \E source \in From(r, s) : Becomes(c, [Passed(r) EXCEPT !.used[s] = source])
       \/ Missing(r, s) /\ Becomes(c, Ended(r, "refused"))
    /\ UNCHANGED World

Require(c) ==
  \E s \in {"host", "workspace"} :
    /\ At(c, {s})
    /\ \/ \E source \in From(run[c], s) :
            Becomes(c, [Passed(run[c]) EXCEPT !.used[s] = source])
       \/ Missing(run[c], s) /\ Becomes(c, Ended(run[c], "refused"))
    /\ UNCHANGED World

\* An explicit catalog or the settings' own costs no request; else the
\* workspace is asked for its default, and may have none.
ResolveCatalog(c) ==
  /\ At(c, {"catalog"})
  /\ \/ \E source \in From(run[c], "catalog") :
          Becomes(c, [Passed(run[c]) EXCEPT !.used["catalog"] = source])
     \/ ~Held(run[c], "catalog")
        /\ \/ \E w \in From(run[c], "workspace") :
                LET r == [run[c] EXCEPT !.used["workspace"] = w, !.contacted = TRUE] IN
                \/ Becomes(c, [Passed(r) EXCEPT !.used["catalog"] = "server"])
                \/ \E code \in {"refused", "unknown"} : Becomes(c, Ended(r, code))
           \/ Missing(run[c], "workspace") /\ Becomes(c, Ended(run[c], "refused"))
  /\ UNCHANGED World

\* One GET; nobody or more than one of the name is a refusal.
ResolvePrincipal(c) ==
  /\ At(c, {"principal"})
  /\ LET r == [run[c] EXCEPT !.contacted = TRUE] IN
     \/ Becomes(c, Passed(r))
     \/ \E code \in {"refused", "unknown"} : Becomes(c, Ended(r, code))
  /\ UNCHANGED World

\* A failed probe is a row of the report.
Probe(c) ==
  /\ At(c, {"probe"})
  /\ Becomes(c, [Passed(run[c]) EXCEPT !.contacted = TRUE])
  /\ UNCHANGED World

-----------------------------------------------------------------------------
(* The request *)

Ready(c) == run[c].phase = "prepare" /\ run[c].at = Len(run[c].cmd.steps) + 1

\* What the server does with it: nothing, or all of it.  An update of the
\* worksheet must carry the version the worksheet has.
Current(r) == Versioned(r.cmd) => r.looked = version
CarriedOut(r) ==
  [r EXCEPT !.contacted = TRUE, !.done = @ + (IF Changes(r.cmd) THEN 1 ELSE 0),
            !.replaced = IF Versioned(r.cmd) THEN version ELSE 0]
Saves(c) == version' = version + (IF Versioned(run[c].cmd) THEN 1 ELSE 0)
\* A 301 to a POST: httpx sends a GET to the new place, without the body.
Downgraded(r) == r.used["host"] \in Moved /\ r.cmd.sends = "POST"

Succeed(c) ==
  /\ Current(run[c]) /\ ~Downgraded(run[c])
  /\ Becomes(c, [CarriedOut(run[c]) EXCEPT !.phase = "output"])
  /\ Saves(c)

Redirect(c) ==
  /\ Downgraded(run[c])
  /\ Becomes(c, [run[c] EXCEPT !.phase = "output", !.contacted = TRUE, !.downgraded = TRUE])
  /\ UNCHANGED version

Refuse(c) ==
  /\ Becomes(c, Ended([run[c] EXCEPT !.contacted = TRUE], "refused"))
  /\ UNCHANGED version

\* Tries again when no answer came.
FaultyGoUnanswered(c) ==
  /\ run[c].done = 0
  /\ Current(run[c]) /\ ~Downgraded(run[c])
  /\ Becomes(c, CarriedOut(run[c])) /\ Saves(c)

GoUnanswered(c) ==
  \/ /\ Current(run[c]) /\ ~Downgraded(run[c])
     /\ Becomes(c, Ended(CarriedOut(run[c]), "unknown")) /\ Saves(c)
  \/ /\ Becomes(c, Ended([run[c] EXCEPT !.contacted = TRUE], "unknown"))
     /\ UNCHANGED version

\* The latest version is fetched for the user.
FaultySend(c) ==
  /\ Ready(c) /\ run[c].cmd.sends \notin {"none", "PAGES"}
  /\ \/ /\ Becomes(c, [CarriedOut(run[c]) EXCEPT !.phase = "output"])
        /\ Saves(c)
     \/ Refuse(c)
  /\ UNCHANGED <<default, switches>>

Send(c) ==
  /\ Ready(c) /\ run[c].cmd.sends \notin {"none", "PAGES"}
  /\ Succeed(c) \/ Redirect(c) \/ Refuse(c) \/ GoUnanswered(c)
  /\ UNCHANGED <<default, switches>>

\* walk goes on while a page brings rows and a cursor; without --all the first
\* page is all there is.
LastPage(r, n) == n = Pages \/ ~r.all

FetchPage(c) ==
  /\ Ready(c) /\ run[c].cmd.sends = "PAGES"
  /\ \E all \in IF run[c].page = 0 THEN BOOLEAN ELSE {run[c].all} :
       LET r == [run[c] EXCEPT !.contacted = TRUE, !.all = all, !.page = @ + 1] IN
       \/ Becomes(c, IF LastPage(r, r.page) THEN [r EXCEPT !.phase = "output"] ELSE r)
       \/ \E code \in {"refused", "unknown"} : Becomes(c, Ended(r, code))
  /\ UNCHANGED World

\* emit; --output may not be writable.
Emit(c) ==
  /\ \/ run[c].phase = "output"
     \/ Ready(c) /\ run[c].cmd.sends = "none"
  /\ \/ Becomes(c, Ended(run[c], "ok"))
     \/ run[c].cmd.prints /\ Becomes(c, Ended(run[c], "unknown"))
  /\ UNCHANGED World

Interrupt(c) ==
  /\ run[c].phase \in {"confirm", "prepare", "output"}
  /\ Becomes(c, Ended(run[c], "unknown"))
  /\ UNCHANGED World

-----------------------------------------------------------------------------

\* dh profile use, in another terminal
SwitchDefault ==
  /\ switches < MaxSwitches
  /\ default' \in (Profiles \cup {NoProfile}) \ {default} /\ switches' = switches + 1
  /\ UNCHANGED <<version, run>>

Advance(c) ==
  \/ Confirm(c) \/ Password(c) \/ Read(c) \/ Arguments(c) \/ Require(c) \/ ResolveCatalog(c)
  \/ ResolvePrincipal(c) \/ Probe(c) \/ Send(c) \/ FetchPage(c) \/ Emit(c)
Next ==
  \/ \E c \in Calls :
       Start(c) \/ Answer(c) \/ EnterPassword(c) \/ Advance(c) \/ Interrupt(c)
  \/ SwitchDefault

\* A started program runs on: every request has a time-out.  Nobody need answer
\* a prompt, start a command or press Ctrl-C.
Spec == Init /\ [][Next]_vars /\ \A c \in Calls : WF_vars(Advance(c))

-----------------------------------------------------------------------------
(* Properties *)

Runs ==
  [phase : Phases, cmd : Commands \cup {NoCommand}, at : Nat \ {0}, agreed : BOOLEAN,
   profile : Profiles \cup {NoProfile}, used : [Settings -> Sources], all : BOOLEAN,
   page : Nat, looked : Nat, replaced : Nat, contacted : BOOLEAN, done : Nat,
   downgraded : BOOLEAN, exit : DOMAIN Codes]
TypeOK ==
  /\ default \in Profiles \cup {NoProfile}
  /\ switches \in Nat /\ version \in Nat
  /\ run \in [Calls -> Runs]

\* A command that asks sends nothing, not even a lookup, before someone has
\* agreed, by --yes or at the prompt (context.confirm).
NothingUnconfirmed ==
  \A c \in Calls : run[c].cmd.asks /\ run[c].contacted => run[c].agreed

\* What the exit status says is so: 3, 4, 5 and 9 mean that nothing was changed,
\* 0 that the change was made, once, unless a 301 made a GET of it (ReportedIsDone);
\* and no invocation makes it twice, whatever was lost (errors.ExitCode,
\* rest.request).
StatusTellsEffect ==
  \A c \in Calls :
    LET r == run[c] IN
    /\ r.done <= 1
    /\ r.phase = "ended" /\ r.exit \in {"refused", "aborted"} => r.done = 0
    /\ r.phase = "ended" /\ r.exit = "ok" /\ Changes(r.cmd) /\ ~r.downgraded => r.done = 1

\* What a change addresses, the host and under it the workspace and the catalog,
\* comes from one profile, whoever switches the default meanwhile: a mixture
\* would be a change in the wrong place (resolve._pick_profile).
OneProfile ==
  \A c \in Calls : \A s, t \in Settings :
    LET r == run[c] IN
    Changes(r.cmd) /\ r.used[s] \in Profiles /\ r.used[t] \in Profiles
      => r.used[s] = r.used[t]

\* A save of a worksheet replaces the very version the user had read, however
\* many saves of others lie in between (saved.update_worksheet).
NothingOverwrittenUnseen ==
  \A c \in Calls : Versioned(run[c].cmd) /\ run[c].done > 0 => run[c].replaced = run[c].looked

\* An invocation that nobody sits at comes to an end by itself, whatever it must
\* confirm (context.confirm); only dh admin user create without --password may
\* wait for someone, and once it has the password it ends too (admin.py 149).
UnattendedEnds ==
  \A c \in Calls \ Attended :
    run[c].phase # "new"
      ~> run[c].phase = "ended" \/ (run[c].phase = "prompted" /\ run[c].cmd = CreateUser)

-----------------------------------------------------------------------------
\* What the repository says and the code does not do: TLC finds each of these
\* violated (README.md, Divergences).

\* "Prompting hangs the job on a question no one will answer" (context.py 136-137):
\* no invocation that nobody sits at does.
ScriptsEnd ==
  \A c \in Calls \ Attended : run[c].phase # "new" ~> run[c].phase = "ended"

\* rest.py says that following a redirect makes the command reach the API.
ReportedIsDone ==
  \A c \in Calls :
    LET r == run[c] IN r.phase = "ended" /\ r.exit = "ok" /\ Changes(r.cmd) => r.done = 1
=============================================================================
