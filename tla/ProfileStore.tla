---------------------------- MODULE ProfileStore ----------------------------
(***************************************************************************)
(* The profile file of the CLI and the invocations of dh that edit it      *)
(* (config.py, resolve.py, commands/auth.py, commands/profile.py): login   *)
(* mints or takes a token, checks it and stores it; logout clears it; use  *)
(* and remove edit the file.  Each is a process of its own that reads the  *)
(* file, writes a copy beside it and renames the copy over it, with no     *)
(* lock; each may be interrupted or killed at any step.                    *)
(*                                                                         *)
(* Of a profile the host and the token are kept.  Workspace, catalog and   *)
(* agent, the text of the file and its mode are left out.                  *)
(*                                                                         *)
(* An operator named Faulty... is its neighbour with one plausible bug; no  *)
(* action uses it.                                                         *)
(***************************************************************************)
EXTENDS Naturals, FiniteSets

CONSTANTS Procs,        \* invocations of dh that edit the file
          Names,        \* profile names
          DefaultName,  \* the name "default"
          Hosts,        \* servers
          Tokens,       \* bound: tokens there can be
          None,
          Torn,         \* a file whose text is cut short
          InitialFiles  \* the files dh may find, as dh wrote them

StoredProfiles == [host : Hosts, token : Tokens \cup {None}]
Configs == [default : Names \cup {None},
            profiles : UNION {[S -> StoredProfiles] : S \in SUBSET Names}]

\* The default pointer names a profile of the file.
DefaultNamed(c) == c.default # None => c.default \in DOMAIN c.profiles

ASSUME NamesAssumption == DefaultName \in Names /\ None \notin Names
ASSUME NoneAssumption == None \notin Hosts \cup Tokens \cup Configs
ASSUME TornAssumption == Torn \notin Configs
ASSUME FilesAssumption ==
  /\ InitialFiles \subseteq Configs
  /\ \A c \in InitialFiles : DefaultNamed(c)

VARIABLES
  file,      \* the profile file: a config, or Torn
  tmp,       \* [Procs -> None, or the copy beside it: Torn or a config]
  issuer,    \* [Tokens -> the host that issued it, or None]
  session,   \* [Procs -> BOOLEAN]: the server holds a signed-in session of it
  \* an invocation
  pc,        \* "idle", then where it is, at last "done" | "failed" | "killed"
  cmd,       \* "login" | "logout" | "use" | "remove"
  name,      \* the name it was given, or None
  base,      \* login: the host
  secret,    \* login: the token, None until there is one
  first,     \* login: the file as it was when the settings were resolved
  new,       \* the config it is to write
  \* history
  target,    \* the profile it edits
  stale,     \* another invocation has replaced the file since it read it
  cut,       \* a request of its sign-in got no answer
  verified,  \* <<token, host>> pairs the host has accepted
  forgotten  \* <<name, token>> pairs a logout or a remove has done away with

server == <<issuer, session>>
given == <<cmd, name, base, first>>
history == <<target, stale, cut, verified, forgotten>>
storeVars == <<file, tmp, server, pc, given, secret, new, history>>

Over == {"done", "failed", "killed"}
Stages == {"idle", "signin", "issue", "signout", "verify", "load", "open",
           "write", "replace"} \cup Over

StoreTypeOK ==
  /\ file \in Configs \cup {Torn}
  /\ tmp \in [Procs -> Configs \cup {None, Torn}]
  /\ issuer \in [Tokens -> Hosts \cup {None}]
  /\ session \in [Procs -> BOOLEAN]
  /\ pc \in [Procs -> Stages]
  /\ cmd \in [Procs -> {"none", "login", "logout", "use", "remove"}]
  /\ name \in [Procs -> Names \cup {None}]
  /\ base \in [Procs -> Hosts \cup {None}]
  /\ secret \in [Procs -> Tokens \cup {None}]
  /\ first \in [Procs -> Configs \cup {None}]
  /\ new \in [Procs -> Configs \cup {None}]
  /\ target \in [Procs -> Names \cup {None}]
  /\ stale \in [Procs -> BOOLEAN] /\ cut \in [Procs -> BOOLEAN]
  /\ verified \in SUBSET (Tokens \X Hosts)
  /\ forgotten \in SUBSET (Names \X Tokens)
  /\ \A p \in Procs :
       /\ pc[p] = "verify" => secret[p] \in Tokens
       /\ pc[p] \in {"open", "write", "replace"} => new[p] \in Configs /\ target[p] \in Names

\* The tokens already in the file were issued by its hosts and checked.
Stored(c) == {n \in DOMAIN c.profiles : c.profiles[n].token # None}
Pair(c, n) == <<c.profiles[n].token, c.profiles[n].host>>

StoreInit ==
  /\ file \in InitialFiles
  /\ issuer \in [Tokens -> Hosts \cup {None}]
  /\ \A n \in Stored(file) : issuer[Pair(file, n)[1]] = Pair(file, n)[2]
  /\ verified = {Pair(file, n) : n \in Stored(file)}
  /\ tmp = [p \in Procs |-> None] /\ session = [p \in Procs |-> FALSE]
  /\ pc = [p \in Procs |-> "idle"] /\ cmd = [p \in Procs |-> "none"]
  /\ name = [p \in Procs |-> None] /\ base = [p \in Procs |-> None]
  /\ secret = [p \in Procs |-> None] /\ first = [p \in Procs |-> None]
  /\ new = [p \in Procs |-> None] /\ target = [p \in Procs |-> None]
  /\ stale = [p \in Procs |-> FALSE] /\ cut = [p \in Procs |-> FALSE]
  /\ forgotten = {}

-----------------------------------------------------------------------------
(* Configs *)

With(c, n, profile) ==
  [m \in DOMAIN c.profiles \cup {n} |-> IF m = n THEN profile ELSE c.profiles[m]]

\* upsert: the first profile becomes the default.
Upsert(c, n, profile) ==
  [default |-> IF c.default = None THEN n ELSE c.default,
   profiles |-> With(c, n, profile)]

\* remove drops the default pointer with the profile it named.
Removed(c, n) ==
  [default |-> IF c.default = n THEN None ELSE c.default,
   profiles |-> [m \in DOMAIN c.profiles \ {n} |-> c.profiles[m]]]

\* resolved_default: the names it may give; a set with one member, or none.
ResolvedDefault(c) ==
  IF c.default \in DOMAIN c.profiles THEN {c.default}
  ELSE IF DefaultName \in DOMAIN c.profiles THEN {DefaultName}
  ELSE {n \in DOMAIN c.profiles : DOMAIN c.profiles = {n}}

\* The host login uses: the flag or the variable, else the profile's, else the
\* one the user types in.
BaseHosts(c, flag, picked) ==
  IF flag # None THEN {flag}
  ELSE LET from == IF picked # None THEN {picked} ELSE ResolvedDefault(c)
       IN IF from = {} THEN Hosts ELSE {c.profiles[n].host : n \in from}

-----------------------------------------------------------------------------
(* Signing in *)

Goto(p, stage) == pc' = [pc EXCEPT ![p] = stage]

\* login resolves its settings from the file as it is now.  A profile asked for
\* with --profile must be in it.  The token is given, or to be minted.
BeginLogin(p, n, flag, picked) ==
  /\ pc[p] = "idle" /\ file \in Configs
  /\ cmd' = [cmd EXCEPT ![p] = "login"] /\ name' = [name EXCEPT ![p] = n]
  /\ first' = [first EXCEPT ![p] = file]
  /\ IF picked \in DOMAIN file.profiles \cup {None}
     THEN /\ \E h \in BaseHosts(file, flag, picked) : base' = [base EXCEPT ![p] = h]
          /\ \/ Goto(p, "signin") /\ UNCHANGED secret
             \/ \E t \in Tokens : secret' = [secret EXCEPT ![p] = t] /\ Goto(p, "verify")
     ELSE Goto(p, "failed") /\ UNCHANGED <<base, secret>>
  /\ UNCHANGED <<file, tmp, server, new, history>>

\* _mint_token: the password is accepted, or not, or the answer is lost.
SignIn(p) ==
  /\ pc[p] = "signin"
  /\ \/ session' = [session EXCEPT ![p] = TRUE] /\ Goto(p, "issue") /\ UNCHANGED cut
     \/ Goto(p, "failed") /\ UNCHANGED <<session, cut>>
     \/ /\ session' = [session EXCEPT ![p] = TRUE]
        /\ cut' = [cut EXCEPT ![p] = TRUE]
        /\ Goto(p, "failed")
  /\ UNCHANGED <<file, tmp, issuer, given, secret, new, target, stale, verified, forgotten>>

\* POST me/pats: a new token, whether or not its answer arrives ...
Issue(p) ==
  /\ pc[p] = "issue"
  /\ \E t \in Tokens :
       /\ issuer[t] = None
       /\ issuer' = [issuer EXCEPT ![t] = base[p]]
       /\ secret' \in {secret, [secret EXCEPT ![p] = t]}
  /\ Goto(p, "signout")
  /\ UNCHANGED <<file, tmp, session, given, new, history>>

\* ... or none: an error, or Ctrl-C.  The sign-out follows all the same.
IssueFails(p) ==
  /\ pc[p] = "issue"
  /\ Goto(p, "signout")
  /\ UNCHANGED <<file, tmp, server, given, secret, new, history>>

\* POST auth/logout, best effort.
SignOut(p) ==
  /\ pc[p] = "signout"
  /\ \/ session' = [session EXCEPT ![p] = FALSE] /\ UNCHANGED cut
     \/ cut' = [cut EXCEPT ![p] = TRUE] /\ UNCHANGED session
  /\ Goto(p, IF secret[p] = None THEN "failed" ELSE "verify")
  /\ UNCHANGED <<file, tmp, issuer, given, secret, new, target, stale, verified, forgotten>>

\* GET me with the token: only an accepted one goes on to be stored.
Verify(p) ==
  /\ pc[p] = "verify" /\ issuer[secret[p]] = base[p]
  /\ verified' = verified \cup {<<secret[p], base[p]>>}
  /\ Goto(p, "load")
  /\ UNCHANGED <<file, tmp, server, given, secret, new, target, stale, cut, forgotten>>

-----------------------------------------------------------------------------
(* Editing the file *)

\* logout, use and remove start by reading the file.
Begin(p, c, n) ==
  /\ pc[p] = "idle"
  /\ cmd' = [cmd EXCEPT ![p] = c] /\ name' = [name EXCEPT ![p] = n]
  /\ Goto(p, "load")
  /\ UNCHANGED <<file, tmp, server, base, secret, first, new, history>>

\* The profiles a command may edit in config c; none: it raises.
Targets(p, c) ==
  IF cmd[p] = "login" THEN {name[p]}
  ELSE (IF name[p] = None THEN ResolvedDefault(c) ELSE {name[p]}) \cap DOMAIN c.profiles

\* login keeps the host an existing profile already has.
FaultyEdited(p, c, n) ==
  CASE cmd[p] = "login" ->
         Upsert(c, n, [host |-> IF n \in DOMAIN c.profiles THEN c.profiles[n].host
                                ELSE base[p],
                       token |-> secret[p]])
    [] cmd[p] = "logout" -> Upsert(c, n, [c.profiles[n] EXCEPT !.token = None])
    [] cmd[p] = "use" -> [c EXCEPT !.default = n]
    [] OTHER -> Removed(c, n)

\* What the command makes of config c.
Edited(p, c, n) ==
  CASE cmd[p] = "login" -> Upsert(c, n, [host |-> base[p], token |-> secret[p]])
    [] cmd[p] = "logout" -> Upsert(c, n, [c.profiles[n] EXCEPT !.token = None])
    [] cmd[p] = "use" -> [c EXCEPT !.default = n]
    [] OTHER -> Removed(c, n)

\* login edits the config it resolved its settings from.
FaultyLoad(p) ==
  /\ pc[p] = "load" /\ file \in Configs
  /\ LET c == IF cmd[p] = "login" THEN first[p] ELSE file
     IN \E n \in Targets(p, c) :
          /\ target' = [target EXCEPT ![p] = n]
          /\ new' = [new EXCEPT ![p] = Edited(p, c, n)]
  /\ stale' = [stale EXCEPT ![p] = FALSE]
  /\ Goto(p, "open")
  /\ UNCHANGED <<file, tmp, server, given, secret, cut, verified, forgotten>>

\* The file is read and edited in memory.
Load(p) ==
  /\ pc[p] = "load" /\ file \in Configs
  /\ \E n \in Targets(p, file) :
       /\ target' = [target EXCEPT ![p] = n]
       /\ new' = [new EXCEPT ![p] = Edited(p, file, n)]
  /\ stale' = [stale EXCEPT ![p] = FALSE]
  /\ Goto(p, "open")
  /\ UNCHANGED <<file, tmp, server, given, secret, cut, verified, forgotten>>

\* save writes in place: the file is cut short until the text is out.
FaultyOpenTmp(p) ==
  /\ pc[p] = "open"
  /\ tmp' = [tmp EXCEPT ![p] = Torn] /\ file' = Torn
  /\ Goto(p, "write")
  /\ UNCHANGED <<server, given, secret, new, history>>

\* save: the copy is opened, empty or in part written ...
OpenTmp(p) ==
  /\ pc[p] = "open"
  /\ tmp' = [tmp EXCEPT ![p] = Torn]
  /\ Goto(p, "write")
  /\ UNCHANGED <<file, server, given, secret, new, history>>

\* ... then whole and on the disk ...
WriteTmp(p) ==
  /\ pc[p] = "write"
  /\ tmp' = [tmp EXCEPT ![p] = new[p]]
  /\ Goto(p, "replace")
  /\ UNCHANGED <<file, server, given, secret, new, history>>

Reading == {"open", "write", "replace"}

\* ... and put in the file's place.
Replace(p) ==
  /\ pc[p] = "replace"
  /\ file' = tmp[p] /\ tmp' = [tmp EXCEPT ![p] = None]
  /\ Goto(p, "done")
  /\ stale' = [q \in Procs |-> stale[q] \/ (q # p /\ pc[q] \in Reading)]
  /\ forgotten' = CASE cmd[p] = "login" -> forgotten \ {<<target[p], secret[p]>>}
                    [] cmd[p] = "use" -> forgotten
                    [] OTHER -> forgotten \cup ({target[p]} \X Tokens)
  /\ UNCHANGED <<server, given, secret, new, target, cut, verified>>

\* An exception is no reason to remove the copy.
FaultyRaises(p) ==
  /\ pc[p] \in {"signin", "verify", "load"} \cup Reading
  /\ Goto(p, "failed")
  /\ UNCHANGED <<file, tmp, server, given, secret, new, history>>

\* The command raises: a request fails, the token is refused, the file cannot
\* be read, the profile is not in it, the disk is full, Ctrl-C.  save removes
\* the copy it has begun.
Raises(p) ==
  /\ pc[p] \in {"signin", "verify", "load"} \cup Reading
  /\ tmp' = [tmp EXCEPT ![p] = None]
  /\ Goto(p, "failed")
  /\ UNCHANGED <<file, server, given, secret, new, history>>

\* The process is killed, or the machine goes down.
Kill(p) ==
  /\ pc[p] \notin {"idle"} \cup Over
  /\ Goto(p, "killed")
  /\ UNCHANGED <<file, tmp, server, given, secret, new, history>>

Step(p) ==
  \/ \E n \in Names, flag \in Hosts \cup {None}, picked \in Names \cup {None} :
       BeginLogin(p, n, flag, picked)
  \/ SignIn(p) \/ Issue(p) \/ IssueFails(p) \/ SignOut(p) \/ Verify(p)
  \/ \E n \in Names \cup {None} : Begin(p, "logout", n)
  \/ \E c \in {"use", "remove"}, n \in Names : Begin(p, c, n)
  \/ Load(p) \/ OpenTmp(p) \/ WriteTmp(p) \/ Replace(p)
  \/ Raises(p) \/ Kill(p)

StoreNext == \E p \in Procs : Step(p)

StoreSpec == StoreInit /\ [][StoreNext]_storeVars

-----------------------------------------------------------------------------
\* "the file is either the old one or the new one": at no moment, and after no
\* crash, does another invocation find a file it cannot read (config.save).
FileWhole == file \in Configs

\* Whatever overlaps, the file's default pointer names a profile that is there,
\* so that a plain dh never resolves to another profile by surprise
\* (upsert, set_default, remove).
DefaultExists == file \in Configs => DefaultNamed(file)

FileSound == FileWhole /\ DefaultExists

\* A stored token was accepted by the very host it is stored with, however the
\* host was resolved and whatever was in the profile before (login verifies
\* before it writes; the others never pair a token with another host).
StoredIsVerified ==
  file \in Configs => \A n \in Stored(file) : Pair(file, n) \in verified

\* Only a killed process leaves its copy, which holds tokens, behind (save).
NoCopyLeft == \A p \in Procs : pc[p] \in {"done", "failed"} => tmp[p] = None

\* When login is done or has failed, its password session is signed out, unless
\* a request of the sign-in or the sign-out got no answer (_mint_token).
SignedOut ==
  \A p \in Procs : pc[p] \in {"verify", "load", "done", "failed"} /\ ~cut[p] => ~session[p]

\* A command that is over has left nothing behind.
NothingLeftBehind == NoCopyLeft /\ SignedOut

\* The profile stored under a name, None when there is none.
ProfileOf(c, n) == IF n \in DOMAIN c.profiles THEN c.profiles[n] ELSE None

\* A command changes the profile it is about and no other: what login found
\* before its minutes of prompting is not written back over the edits others
\* made meanwhile.  Only a command that another overtook between its read and
\* its rename may undo that other's edit.
OthersUntouched ==
  [][\A n \in Names :
       file' # Torn /\ file # Torn /\ ProfileOf(file', n) # ProfileOf(file, n)
       => \E p \in Procs : /\ pc[p] = "replace" /\ pc'[p] = "done"
                           /\ stale[p] \/ target[p] = n]_storeVars

-----------------------------------------------------------------------------
\* What the repository says and the code does not do: TLC finds each of these
\* violated (README.md, Divergences).

\* "Forget the stored token": what a logout or a remove has cleared does not
\* come back but by a login that stores it.
ForgottenStaysForgotten ==
  file \in Configs => \A n \in Stored(file) : <<n, file.profiles[n].token>> \notin forgotten
=============================================================================
