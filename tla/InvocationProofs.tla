-------------------------- MODULE InvocationProofs --------------------------
(***************************************************************************)
(* What invocations of dh do side by side, for any number of them.          *)
(*                                                                         *)
(* The profile file they edit, for any profiles, hosts and tokens: it is     *)
(* always readable, its default names a profile it has, its tokens were      *)
(* accepted by the hosts they are stored with, only a killed process leaves  *)
(* a copy behind, and an edit changes nothing but its own profile.          *)
(*                                                                         *)
(* The resource commands, for any commands and any profiles: what is asked   *)
(* first, what the exit status tells, where a change goes and what it        *)
(* overwrites.  An invocation touches nothing of another but the             *)
(* worksheet's version, which only grows, so that invariant is one about a   *)
(* single record, Sound, and each action is shown to lead from one sound     *)
(* record to another.                                                      *)
(***************************************************************************)
EXTENDS ProfileStore, ResourceCommand, TLAPS

-----------------------------------------------------------------------------
(* The profile file *)

\* A config that may be in the file when the pairs in v have been accepted.
Safe(c, v) ==
  /\ c \in Configs
  /\ DefaultNamed(c)
  /\ \A n \in Stored(c) : Pair(c, n) \in v

\* Where the copy is, and what is in it.
CopyFits == \A p \in Procs :
  /\ pc[p] = "replace" => tmp[p] = new[p]
  /\ pc[p] \notin {"write", "replace", "killed"} => tmp[p] = None

\* What an invocation knows at each stage.
StageFits == \A p \in Procs :
  /\ pc[p] \in {"signin", "issue", "signout", "verify"} => cmd[p] = "login"
  /\ pc[p] \in {"signin", "issue", "signout", "verify", "load"} /\ cmd[p] = "login"
       => base[p] \in Hosts /\ name[p] \in Names
  /\ pc[p] = "load" /\ cmd[p] = "login"
       => secret[p] \in Tokens /\ <<secret[p], base[p]>> \in verified

\* The file, and every config on its way there, is safe.
AllSafe ==
  /\ Safe(file, verified)
  /\ \A p \in Procs : pc[p] \in Reading => Safe(new[p], verified)

StoreInv == StoreTypeOK /\ CopyFits /\ StageFits /\ AllSafe

-----------------------------------------------------------------------------
(* Configs *)

LEMMA ConfigParts ==
  ASSUME NEW c \in Configs
  PROVE /\ c = [default |-> c.default, profiles |-> c.profiles]
        /\ c.default \in Names \cup {None}
        /\ DOMAIN c.profiles \subseteq Names
        /\ c.profiles \in [DOMAIN c.profiles -> StoredProfiles]
        /\ \A n \in DOMAIN c.profiles : c.profiles[n] \in StoredProfiles
<1>1. PICK S \in SUBSET Names : c.profiles \in [S -> StoredProfiles]
  BY DEF Configs
<1>2. DOMAIN c.profiles = S
  BY <1>1
<1> QED
  BY <1>1, <1>2 DEF Configs

LEMMA MakeConfig ==
  ASSUME NEW d \in Names \cup {None}, NEW S \in SUBSET Names, NEW f \in [S -> StoredProfiles]
  PROVE [default |-> d, profiles |-> f] \in Configs
<1>1. f \in UNION {[T -> StoredProfiles] : T \in SUBSET Names}
  OBVIOUS
<1> QED
  BY <1>1 DEF Configs

LEMMA UpsertSafe ==
  ASSUME NEW v, NEW c, Safe(c, v), NEW n \in Names, NEW profile \in StoredProfiles,
         profile.token # None => <<profile.token, profile.host>> \in v
  PROVE Safe(Upsert(c, n, profile), v)
<1> DEFINE u == Upsert(c, n, profile)
           S == DOMAIN c.profiles \cup {n}
<1>1. c \in Configs /\ DefaultNamed(c)
  BY DEF Safe
<1>2. With(c, n, profile) \in [S -> StoredProfiles] /\ S \in SUBSET Names
  BY <1>1, ConfigParts DEF With
<1>3. u.default \in Names \cup {None} /\ u.profiles = With(c, n, profile)
  BY <1>1, ConfigParts DEF Upsert
<1>4. u \in Configs
  BY <1>2, <1>3, MakeConfig DEF Upsert
<1>5. DOMAIN u.profiles = S
  BY <1>2, <1>3
<1>6. DefaultNamed(u)
  BY <1>1, <1>5 DEF DefaultNamed, Upsert
<1>7. ASSUME NEW m \in Stored(u) PROVE Pair(u, m) \in v
  <2>1. m \in S /\ u.profiles[m] = IF m = n THEN profile ELSE c.profiles[m]
    BY <1>3, <1>5 DEF Stored, With
  <2>2. CASE m = n
    BY <2>1, <2>2 DEF Stored, Pair
  <2>3. CASE m # n
    <3>1. m \in Stored(c) /\ Pair(u, m) = Pair(c, m)
      BY <2>1, <2>3 DEF Stored, Pair
    <3> QED
      BY <3>1 DEF Safe
  <2> QED
    BY <2>2, <2>3
<1> QED
  BY <1>4, <1>6, <1>7 DEF Safe

LEMMA RemovedSafe ==
  ASSUME NEW v, NEW c, Safe(c, v), NEW n
  PROVE Safe(Removed(c, n), v)
<1> DEFINE u == Removed(c, n)
           S == DOMAIN c.profiles \ {n}
<1>1. c \in Configs /\ DefaultNamed(c)
  BY DEF Safe
<1>2. [m \in S |-> c.profiles[m]] \in [S -> StoredProfiles] /\ S \in SUBSET Names
  BY <1>1, ConfigParts
<1>3. u.profiles = [m \in S |-> c.profiles[m]] /\ DOMAIN u.profiles = S
  BY DEF Removed
<1>4. u \in Configs
  BY <1>1, <1>2, ConfigParts, MakeConfig DEF Removed
<1>5. DefaultNamed(u)
  BY <1>1, <1>3 DEF DefaultNamed, Removed
<1>6. \A m \in Stored(u) : m \in Stored(c) /\ Pair(u, m) = Pair(c, m)
  BY <1>3 DEF Stored, Pair
<1> QED
  BY <1>4, <1>5, <1>6 DEF Safe

LEMMA UsedSafe ==
  ASSUME NEW v, NEW c, Safe(c, v), NEW n \in DOMAIN c.profiles
  PROVE Safe([c EXCEPT !.default = n], v)
<1> DEFINE u == [c EXCEPT !.default = n]
<1>1. c \in Configs
  BY DEF Safe
<1>2. n \in Names /\ c = [default |-> c.default, profiles |-> c.profiles]
  BY <1>1, ConfigParts
<1>3. u = [default |-> n, profiles |-> c.profiles]
  BY <1>2
<1>4. u \in Configs
  BY <1>1, <1>2, <1>3, ConfigParts, MakeConfig
<1>5. DefaultNamed(u)
  BY <1>3 DEF DefaultNamed
<1>6. \A m \in Stored(u) : m \in Stored(c) /\ Pair(u, m) = Pair(c, m)
  BY <1>3 DEF Stored, Pair
<1> QED
  BY <1>4, <1>5, <1>6 DEF Safe

\* A config stays safe when more pairs are accepted.
LEMMA SafeGrows ==
  ASSUME NEW v, NEW w, v \subseteq w, NEW c, Safe(c, v)
  PROVE Safe(c, w)
  BY DEF Safe

\* Whatever the command, it makes a safe config of a safe one.
LEMMA EditedSafe ==
  ASSUME NEW p \in Procs, StoreTypeOK, StageFits, pc[p] = "load",
         NEW c, Safe(c, verified), NEW n \in Targets(p, c)
  PROVE Safe(Edited(p, c, n), verified) /\ n \in Names
<1>1. c \in Configs /\ DOMAIN c.profiles \subseteq Names
  BY ConfigParts DEF Safe
<1>2. CASE cmd[p] = "login"
  <2>1. n \in Names /\ base[p] \in Hosts /\ secret[p] \in Tokens
        /\ <<secret[p], base[p]>> \in verified
    BY <1>2 DEF StageFits, Targets
  <2>2. [host |-> base[p], token |-> secret[p]] \in StoredProfiles
    BY <2>1 DEF StoredProfiles
  <2>3. Safe(Upsert(c, n, [host |-> base[p], token |-> secret[p]]), verified)
    BY <2>1, <2>2, UpsertSafe
  <2> QED
    BY <1>2, <2>1, <2>3 DEF Edited
<1>3. CASE cmd[p] # "login"
  <2>1. n \in DOMAIN c.profiles /\ n \in Names
    BY <1>1, <1>3 DEF Targets
  <2>2. c.profiles[n] \in StoredProfiles
    BY <1>1, <2>1, ConfigParts
  <2>3. [c.profiles[n] EXCEPT !.token = None] \in StoredProfiles
        /\ [c.profiles[n] EXCEPT !.token = None].token = None
    BY <2>2 DEF StoredProfiles
  <2>4. Safe(Upsert(c, n, [c.profiles[n] EXCEPT !.token = None]), verified)
    BY <2>1, <2>3, UpsertSafe
  <2>5. Safe([c EXCEPT !.default = n], verified)
    BY <2>1, UsedSafe
  <2>6. Safe(Removed(c, n), verified)
    BY RemovedSafe
  <2> QED
    BY <1>3, <2>1, <2>4, <2>5, <2>6 DEF Edited
<1> QED
  BY <1>2, <1>3

-----------------------------------------------------------------------------
(* Every step keeps the invariant *)

LEMMA StoreStarts == StoreInit => StoreInv
<1> SUFFICES ASSUME StoreInit PROVE StoreInv
  OBVIOUS
<1>1. file \in Configs /\ DefaultNamed(file)
  BY FilesAssumption DEF StoreInit
<1>2. \A n \in Stored(file) : file.profiles[n] \in StoredProfiles /\ n \in Names
  BY <1>1, ConfigParts DEF Stored
<1>3. verified \in SUBSET (Tokens \X Hosts)
  BY <1>2 DEF StoreInit, Stored, Pair, StoredProfiles
<1>4. StoreTypeOK
  BY <1>1, <1>3 DEF StoreInit, StoreTypeOK, Stages, Over
<1>5. Safe(file, verified)
  BY <1>1 DEF StoreInit, Safe
<1> QED
  BY <1>4, <1>5 DEF StoreInit, StoreInv, CopyFits, StageFits, AllSafe, Reading

\* Of the hosts login may use, each is a host.
LEMMA BaseHostsType ==
  ASSUME NEW c \in Configs, NEW flag \in Hosts \cup {None},
         NEW picked \in DOMAIN c.profiles \cup {None}
  PROVE BaseHosts(c, flag, picked) \subseteq Hosts
<1>1. \A n \in DOMAIN c.profiles : c.profiles[n].host \in Hosts
  BY ConfigParts DEF StoredProfiles
<1>2. ResolvedDefault(c) \subseteq DOMAIN c.profiles
  BY DEF ResolvedDefault
<1> QED
  BY <1>1, <1>2 DEF BaseHosts

LEMMA BeginLoginKeeps ==
  ASSUME StoreInv, NEW p \in Procs, NEW n \in Names, NEW flag \in Hosts \cup {None},
         NEW picked \in Names \cup {None}, BeginLogin(p, n, flag, picked)
  PROVE StoreInv'
<1> USE DEF StoreInv, BeginLogin, Goto
<1>1. UNCHANGED <<file, tmp, server, new, history>>
  OBVIOUS
<1>2. CASE picked \in DOMAIN file.profiles \cup {None}
  <2>1. PICK h \in BaseHosts(file, flag, picked) : base' = [base EXCEPT ![p] = h]
    BY <1>2
  <2>2. h \in Hosts
    BY <1>2, BaseHostsType
  <2>3. \/ pc' = [pc EXCEPT ![p] = "signin"] /\ secret' = secret
        \/ /\ pc' = [pc EXCEPT ![p] = "verify"]
           /\ \E t \in Tokens : secret' = [secret EXCEPT ![p] = t]
    BY <1>2
  <2>4. StoreTypeOK'
    BY <2>1, <2>2, <2>3 DEF StoreTypeOK, Stages, Over, server, history
  <2>5. StageFits'
    BY <2>1, <2>2, <2>3 DEF StoreTypeOK, StageFits, history
  <2>6. CopyFits' /\ AllSafe'
    BY <2>3 DEF StoreTypeOK, CopyFits, AllSafe, Reading, history
  <2> QED
    BY <2>4, <2>5, <2>6
<1>3. CASE picked \notin DOMAIN file.profiles \cup {None}
  <2>1. pc' = [pc EXCEPT ![p] = "failed"] /\ UNCHANGED <<base, secret>>
    BY <1>3
  <2>2. StoreTypeOK'
    BY <2>1 DEF StoreTypeOK, Stages, Over, server, history
  <2>3. StageFits' /\ CopyFits' /\ AllSafe'
    BY <2>1 DEF StoreTypeOK, StageFits, CopyFits, AllSafe, Reading, history
  <2> QED
    BY <2>2, <2>3
<1> QED
  BY <1>2, <1>3

LEMMA SignInKeeps ==
  ASSUME StoreInv, NEW p \in Procs, SignIn(p) PROVE StoreInv'
<1> USE DEF StoreInv, SignIn, Goto, given
<1>1. StoreTypeOK'
  BY DEF StoreTypeOK, Stages, Over
<1>2. StageFits' /\ CopyFits' /\ AllSafe'
  BY DEF StoreTypeOK, StageFits, CopyFits, AllSafe, Reading
<1> QED
  BY <1>1, <1>2

LEMMA IssueKeeps ==
  ASSUME StoreInv, NEW p \in Procs, Issue(p) PROVE StoreInv'
<1> USE DEF StoreInv, Issue, Goto, given, history
<1>1. PICK t \in Tokens : /\ issuer' = [issuer EXCEPT ![t] = base[p]]
                          /\ secret' \in {secret, [secret EXCEPT ![p] = t]}
  OBVIOUS
<1>2. issuer' \in [Tokens -> Hosts \cup {None}]
  BY <1>1 DEF StoreTypeOK
<1>3. secret' = secret \/ secret' = [secret EXCEPT ![p] = t]
  BY <1>1
<1>4. StoreTypeOK'
  <2>1. secret' \in [Procs -> Tokens \cup {None}]
    BY <1>3 DEF StoreTypeOK
  <2> QED
    BY <1>2, <2>1 DEF StoreTypeOK, Stages, Over
<1>5. StageFits'
  BY <1>3 DEF StoreTypeOK, StageFits
<1>6. CopyFits' /\ AllSafe'
  BY DEF StoreTypeOK, CopyFits, AllSafe, Reading
<1> QED
  BY <1>4, <1>5, <1>6

LEMMA SignOutKeeps ==
  ASSUME StoreInv, NEW p \in Procs, SignOut(p) PROVE StoreInv'
<1> USE DEF StoreInv, SignOut, Goto, given
<1>1. StoreTypeOK'
  BY DEF StoreTypeOK, Stages, Over
<1>2. StageFits' /\ CopyFits' /\ AllSafe'
  BY DEF StoreTypeOK, StageFits, CopyFits, AllSafe, Reading
<1> QED
  BY <1>1, <1>2

LEMMA VerifyKeeps ==
  ASSUME StoreInv, NEW p \in Procs, Verify(p) PROVE StoreInv'
<1> USE DEF StoreInv, Verify, Goto, given, server
<1>1. secret[p] \in Tokens /\ base[p] \in Hosts
  BY DEF StoreTypeOK, StageFits
<1>2. verified' = verified \cup {<<secret[p], base[p]>>}
  OBVIOUS
<1>3. StoreTypeOK'
  BY <1>1, <1>2 DEF StoreTypeOK, Stages, Over
<1>4. StageFits' /\ CopyFits'
  BY <1>1, <1>2 DEF StoreTypeOK, StageFits, CopyFits
<1>5. \A c : Safe(c, verified) => Safe(c, verified')
  BY <1>2, SafeGrows
<1>6. AllSafe'
  BY <1>5 DEF StoreTypeOK, AllSafe, Reading
<1> QED
  BY <1>3, <1>4, <1>6

LEMMA BeginKeeps ==
  ASSUME StoreInv, NEW p \in Procs, NEW c \in {"logout", "use", "remove"},
         NEW n \in Names \cup {None}, Begin(p, c, n)
  PROVE StoreInv'
<1> USE DEF StoreInv, Begin, Goto, server, history
<1>1. StoreTypeOK'
  BY DEF StoreTypeOK, Stages, Over
<1>2. StageFits' /\ CopyFits' /\ AllSafe'
  BY DEF StoreTypeOK, StageFits, CopyFits, AllSafe, Reading
<1> QED
  BY <1>1, <1>2

LEMMA LoadKeeps ==
  ASSUME StoreInv, NEW p \in Procs, Load(p) PROVE StoreInv'
<1> USE DEF StoreInv, Load, Goto, server, given
<1>1. PICK n \in Targets(p, file) : /\ target' = [target EXCEPT ![p] = n]
                                    /\ new' = [new EXCEPT ![p] = Edited(p, file, n)]
  OBVIOUS
<1>2. Safe(Edited(p, file, n), verified) /\ n \in Names
  BY EditedSafe DEF AllSafe
<1>3. Edited(p, file, n) \in Configs
  BY <1>2 DEF Safe
<1>4. StoreTypeOK'
  BY <1>1, <1>2, <1>3 DEF StoreTypeOK, Stages, Over
<1>5. StageFits' /\ CopyFits'
  BY <1>1 DEF StoreTypeOK, StageFits, CopyFits
<1>6. AllSafe'
  BY <1>1, <1>2 DEF StoreTypeOK, AllSafe, Reading
<1> QED
  BY <1>4, <1>5, <1>6

LEMMA SaveKeeps ==
  ASSUME StoreInv, NEW p \in Procs, OpenTmp(p) \/ WriteTmp(p) PROVE StoreInv'
<1> USE DEF StoreInv, OpenTmp, WriteTmp, Goto, server, given, history
<1>1. StoreTypeOK'
  BY DEF StoreTypeOK, Stages, Over
<1>2. StageFits' /\ CopyFits'
  BY DEF StoreTypeOK, StageFits, CopyFits
<1>3. AllSafe'
  BY DEF StoreTypeOK, AllSafe, Reading
<1> QED
  BY <1>1, <1>2, <1>3

LEMMA ReplaceKeeps ==
  ASSUME StoreInv, NEW p \in Procs, Replace(p) PROVE StoreInv'
<1> USE DEF StoreInv, Replace, Goto, server, given
<1>1. file' = new[p] /\ Safe(new[p], verified)
  BY DEF CopyFits, AllSafe, Reading
<1>2. target[p] \in Names
  BY DEF StoreTypeOK
<1>3. forgotten' \in SUBSET (Names \X Tokens)
  BY <1>2 DEF StoreTypeOK
<1>4. stale' \in [Procs -> BOOLEAN]
  BY DEF StoreTypeOK
<1>5. StoreTypeOK'
  BY <1>1, <1>3, <1>4 DEF StoreTypeOK, Stages, Over, Safe
<1>6. StageFits' /\ CopyFits'
  BY DEF StoreTypeOK, StageFits, CopyFits
<1>7. AllSafe'
  BY <1>1 DEF StoreTypeOK, AllSafe, Reading
<1> QED
  BY <1>5, <1>6, <1>7

LEMMA StopKeeps ==
  ASSUME StoreInv, NEW p \in Procs, IssueFails(p) \/ Raises(p) \/ Kill(p) PROVE StoreInv'
<1> USE DEF StoreInv, IssueFails, Raises, Kill, Goto, server, given, history
<1>1. StoreTypeOK'
  BY DEF StoreTypeOK, Stages, Over
<1>2. StageFits' /\ CopyFits'
  BY DEF StoreTypeOK, StageFits, CopyFits, Reading, Over
<1>3. AllSafe'
  BY DEF StoreTypeOK, AllSafe, Reading
<1> QED
  BY <1>1, <1>2, <1>3

LEMMA StoreStutters == StoreInv /\ UNCHANGED storeVars => StoreInv'
<1> SUFFICES ASSUME StoreInv, UNCHANGED storeVars PROVE StoreInv'
  OBVIOUS
<1> USE DEF StoreInv, storeVars, server, given, history
<1>1. StoreTypeOK'
  BY DEF StoreTypeOK
<1>2. StageFits' /\ CopyFits' /\ AllSafe'
  BY DEF StageFits, CopyFits, AllSafe
<1> QED
  BY <1>1, <1>2

LEMMA StoreKeeps == StoreInv /\ [StoreNext]_storeVars => StoreInv'
<1> SUFFICES ASSUME StoreInv, StoreNext PROVE StoreInv'
  BY StoreStutters
<1>1. PICK p \in Procs : Step(p)
  BY DEF StoreNext
<1> QED
  BY <1>1, BeginLoginKeeps, SignInKeeps, IssueKeeps, SignOutKeeps, VerifyKeeps,
     BeginKeeps, LoadKeeps, SaveKeeps, ReplaceKeeps, StopKeeps
  DEF Step

-----------------------------------------------------------------------------
(* Sessions *)

\* A session of a sign-in is there only while login has yet to sign it out, when
\* a request of it got no answer, or when login was killed.
SessionFits == \A p \in Procs :
  session[p] => cut[p] \/ pc[p] \in {"issue", "signout", "killed"}

LEMMA SessionStep == StoreInv /\ SessionFits /\ [StoreNext]_storeVars => SessionFits'
<1> SUFFICES ASSUME StoreInv, SessionFits, [StoreNext]_storeVars PROVE SessionFits'
  OBVIOUS
<1> USE DEF StoreInv, StoreTypeOK, SessionFits, Goto, server, given, history
<1>1. CASE UNCHANGED storeVars
  BY <1>1 DEF storeVars
<1>2. ASSUME NEW p \in Procs, Step(p) PROVE SessionFits'
  <2>1. ASSUME NEW n \in Names, NEW flag \in Hosts \cup {None}, NEW picked \in Names \cup {None},
               BeginLogin(p, n, flag, picked)
        PROVE SessionFits'
    <3>1. UNCHANGED <<session, cut>> /\ pc[p] = "idle"
          /\ \A q \in Procs \ {p} : pc'[q] = pc[q]
      BY <2>1 DEF BeginLogin
    <3> QED
      BY <3>1
  <2>2. CASE SignIn(p)
    BY <2>2 DEF SignIn
  <2>3. CASE SignOut(p)
    BY <2>3 DEF SignOut
  <2>4. CASE Issue(p) \/ IssueFails(p) \/ Kill(p)
    BY <2>4 DEF Issue, IssueFails, Kill
  <2>5. ASSUME NEW c \in {"logout", "use", "remove"}, NEW n \in Names \cup {None}, Begin(p, c, n)
        PROVE SessionFits'
    BY <2>5 DEF Begin
  <2>6. CASE Verify(p) \/ Load(p)
    BY <2>6 DEF Verify, Load
  <2>7. CASE OpenTmp(p) \/ WriteTmp(p) \/ Replace(p) \/ Raises(p)
    BY <2>7 DEF OpenTmp, WriteTmp, Replace, Raises, Reading
  <2> HIDE DEF StoreInv, StoreTypeOK, SessionFits
  <2> QED
    BY <1>2, <2>1, <2>2, <2>3, <2>4, <2>5, <2>6, <2>7 DEF Step
<1> HIDE DEF StoreInv, StoreTypeOK, SessionFits
<1> QED
  BY <1>1, <1>2 DEF StoreNext

-----------------------------------------------------------------------------
(* Other profiles *)

\* What a command makes of a config is that config but for the profile it edits.
LEMMA EditedElsewhere ==
  ASSUME NEW p \in Procs, NEW c \in Configs, NEW t, NEW n, n # t
  PROVE ProfileOf(Edited(p, c, t), n) = ProfileOf(c, n)
<1>1. ASSUME NEW profile PROVE ProfileOf(Upsert(c, t, profile), n) = ProfileOf(c, n)
  BY DEF Upsert, With, ProfileOf
<1>2. ProfileOf(Removed(c, t), n) = ProfileOf(c, n)
  BY DEF Removed, ProfileOf
<1>3. [c EXCEPT !.default = t].profiles = c.profiles
  BY ConfigParts
<1>4. ProfileOf([c EXCEPT !.default = t], n) = ProfileOf(c, n)
  BY <1>3 DEF ProfileOf
<1> QED
  BY <1>1, <1>2, <1>4 DEF Edited

\* The config a command is about to write differs from the file in its own
\* profile only, unless another invocation has replaced the file meanwhile.
EditFits == \A p \in Procs :
  pc[p] \in Reading /\ ~stale[p]
    => \A n \in Names : n # target[p] => ProfileOf(new[p], n) = ProfileOf(file, n)

LEMMA EditStep == StoreInv /\ EditFits /\ [StoreNext]_storeVars => EditFits'
<1> SUFFICES ASSUME StoreInv, EditFits, [StoreNext]_storeVars PROVE EditFits'
  OBVIOUS
<1> USE DEF StoreInv, StoreTypeOK, EditFits, Goto, Reading, server, given, history
<1>1. CASE UNCHANGED storeVars
  BY <1>1 DEF storeVars
<1>2. ASSUME NEW p \in Procs, Step(p) PROVE EditFits'
  <2>1. ASSUME UNCHANGED <<file, new, target, stale>>,
               pc'[p] \in Reading => pc[p] \in Reading,
               \A q \in Procs \ {p} : pc'[q] = pc[q]
        PROVE EditFits'
    BY <2>1
  <2>2. ASSUME NEW n \in Names, NEW flag \in Hosts \cup {None}, NEW picked \in Names \cup {None},
               BeginLogin(p, n, flag, picked)
        PROVE EditFits'
    <3>1. pc' = [pc EXCEPT ![p] = "signin"] \/ pc' = [pc EXCEPT ![p] = "verify"]
          \/ pc' = [pc EXCEPT ![p] = "failed"]
      BY <2>2 DEF BeginLogin
    <3> QED
      BY <2>1, <2>2, <3>1 DEF BeginLogin
  <2>3. CASE SignIn(p) \/ SignOut(p) \/ Issue(p) \/ IssueFails(p) \/ Verify(p)
    BY <2>1, <2>3 DEF SignIn, SignOut, Issue, IssueFails, Verify
  <2>4. ASSUME NEW c \in {"logout", "use", "remove"}, NEW n \in Names \cup {None}, Begin(p, c, n)
        PROVE EditFits'
    BY <2>1, <2>4 DEF Begin
  <2>5. CASE OpenTmp(p) \/ WriteTmp(p) \/ Raises(p) \/ Kill(p)
    BY <2>1, <2>5 DEF OpenTmp, WriteTmp, Raises, Kill
  <2>6. CASE Load(p)
    <3>1. PICK t \in Targets(p, file) : /\ target' = [target EXCEPT ![p] = t]
                                        /\ new' = [new EXCEPT ![p] = Edited(p, file, t)]
      BY <2>6 DEF Load
    <3>2. file' = file /\ file \in Configs
      BY <2>6 DEF Load
    <3>3. \A n \in Names : n # target'[p] => ProfileOf(new'[p], n) = ProfileOf(file', n)
      BY <3>1, <3>2, EditedElsewhere
    <3>4. \A q \in Procs \ {p} : /\ pc'[q] = pc[q] /\ stale'[q] = stale[q]
                                 /\ new'[q] = new[q] /\ target'[q] = target[q]
      BY <2>6, <3>1 DEF Load
    <3> QED
      BY <3>2, <3>3, <3>4
  <2>7. CASE Replace(p)
    <3>1. pc'[p] = "done"
      BY <2>7 DEF Replace
    <3>2. \A q \in Procs \ {p} : pc'[q] \in Reading => stale'[q]
      BY <2>7 DEF Replace
    <3> QED
      BY <3>1, <3>2
  <2> QED
    BY <1>2, <2>2, <2>3, <2>4, <2>5, <2>6, <2>7 DEF Step
<1> QED
  BY <1>1, <1>2 DEF StoreNext

\* A step that changes the file is a rename, of the config its process made.
LEMMA FileStep ==
  ASSUME StoreInv, [StoreNext]_storeVars, file' # file
  PROVE \E p \in Procs : pc[p] = "replace" /\ pc'[p] = "done" /\ file' = new[p]
<1>1. StoreNext
  BY DEF storeVars
<1>2. PICK p \in Procs : Step(p)
  BY <1>1 DEF StoreNext
<1>3. Replace(p)
  BY <1>2 DEF Step, BeginLogin, SignIn, Issue, IssueFails, SignOut, Verify, Begin, Load,
              OpenTmp, WriteTmp, Raises, Kill
<1>4. pc[p] = "replace" /\ pc'[p] = "done" /\ file' = new[p]
  BY <1>3 DEF Replace, Goto, StoreInv, StoreTypeOK, CopyFits
<1> QED
  BY <1>4

-----------------------------------------------------------------------------
(* The theorems *)

\* The inductive invariant holds in every reachable state.
THEOREM StoreInvariance == StoreSpec => []StoreInv
  BY StoreStarts, StoreKeeps, PTL DEF StoreSpec

\* Every variable of the store keeps its type.
THEOREM ProfileTypes == StoreSpec => []StoreTypeOK
  BY StoreInvariance, PTL DEF StoreInv

\* The file is always a whole config (save), and its default pointer names a
\* profile in it (upsert, set_default, remove).
THEOREM FileAlwaysSound == StoreSpec => []FileSound
<1>1. StoreInv => FileSound
  BY DEF StoreInv, AllSafe, Safe, FileSound, FileWhole, DefaultExists
<1> QED
  BY <1>1, StoreInvariance, PTL

\* A stored token was accepted by the host it is stored with (login).
THEOREM OnlyAcceptedTokens == StoreSpec => []StoredIsVerified
<1>1. StoreInv => StoredIsVerified
  BY DEF StoreInv, AllSafe, Safe, StoredIsVerified
<1> QED
  BY <1>1, StoreInvariance, PTL

\* A command that returned or raised has left no copy behind (save).
THEOREM CopiesRemoved == StoreSpec => []NoCopyLeft
<1>1. StoreInv => NoCopyLeft
  BY DEF StoreInv, CopyFits, NoCopyLeft
<1> QED
  BY <1>1, StoreInvariance, PTL

\* A command that is over has removed its copy, and its sign-in session is signed
\* out unless a request of it got no answer (save, _mint_token).
THEOREM NothingStays == StoreSpec => []NothingLeftBehind
<1>1. StoreInit => SessionFits
  BY DEF StoreInit, SessionFits
<1>2. SessionFits => SignedOut
  BY DEF SessionFits, SignedOut
<1> QED
  BY <1>1, <1>2, SessionStep, StoreInvariance, CopiesRemoved, PTL DEF StoreSpec, NothingLeftBehind

\* A rename changes no profile but the one its command is about, unless another
\* invocation replaced the file between its read and its rename (login, logout,
\* use, remove).
THEOREM EditsStayApart == StoreSpec => OthersUntouched
<1> DEFINE Touched == \A n \in Names :
      file' # Torn /\ file # Torn /\ ProfileOf(file', n) # ProfileOf(file, n)
        => \E p \in Procs : /\ pc[p] = "replace" /\ pc'[p] = "done"
                            /\ stale[p] \/ target[p] = n
<1>1. StoreInit => EditFits
  BY DEF StoreInit, EditFits, Reading
<1>2. StoreInv /\ EditFits /\ [StoreNext]_storeVars => [Touched]_storeVars
  <2> SUFFICES ASSUME StoreInv, EditFits, [StoreNext]_storeVars PROVE Touched
    OBVIOUS
  <2>1. CASE file' = file
    BY <2>1
  <2>2. CASE file' # file
    BY <2>2, FileStep DEF EditFits, Reading
  <2> QED
    BY <2>1, <2>2
<1> QED
  BY <1>1, <1>2, EditStep, StoreInvariance, PTL DEF StoreSpec, OthersUntouched

-----------------------------------------------------------------------------
(* The resource commands *)

Sound(r) ==
  /\ r.phase \in {"new", "confirm", "asked"} =>
       ~r.contacted /\ ~r.downgraded /\ \A s \in Settings : r.used[s] = "unset"
  /\ r.phase \in {"new", "confirm", "asked", "prepare", "prompted"} => r.done = 0 /\ ~r.downgraded
  /\ r.phase = "prompted" => r.at <= Len(r.cmd.steps)
  /\ r.cmd.asks /\ (r.phase \in {"prepare", "prompted", "output"} \/ r.contacted) => r.agreed
  /\ r.done <= 1
  /\ r.phase = "output" /\ Changes(r.cmd) /\ ~r.downgraded => r.done = 1
  /\ r.phase = "ended" /\ r.exit \in {"refused", "aborted"} => r.done = 0
  /\ r.phase = "ended" /\ r.exit = "ok" /\ Changes(r.cmd) /\ ~r.downgraded => r.done = 1
  /\ Versioned(r.cmd) /\ r.done > 0 => r.replaced = r.looked
  /\ Changes(r.cmd) =>
       /\ r.cmd.steps \in Seq(STRING) /\ ReadsFirst(r.cmd)
       /\ \A s \in Settings : r.used[s] \in Profiles => r.used[s] = r.profile
       /\ r.phase \in {"prepare", "prompted"} /\ (\E s \in Settings : r.used[s] # "unset")
            => \A i \in r.at..Len(r.cmd.steps) : r.cmd.steps[i] # "read"

IInv == TypeOK /\ \A c \in Calls : Sound(run[c])

\* A new invocation is sound.
LEMMA NewSound == NewRun \in Runs /\ Sound(NewRun)
<1>1. NoCommand = [asks |-> FALSE, steps |-> <<>>, sends |-> "none", prints |-> TRUE]
  BY DEF NoCommand, Do
<1>2. ~Changes(NoCommand)
  BY <1>1 DEF Changes
<1>3. NoProfile \in Profiles \cup {NoProfile} /\ DOMAIN Codes = {"ok", "refused", "unknown", "aborted"}
  BY DEF Codes
<1>4. NewRun \in Runs
  BY <1>3 DEF NewRun, Runs, Phases, Sources
<1>5. NewRun.cmd = NoCommand /\ ~NewRun.cmd.asks
  BY <1>1 DEF NewRun
<1>6. Sound(NewRun)
  BY <1>2, <1>5 DEF NewRun, Sound
<1> QED BY <1>4, <1>6

\* An invocation that becomes another sound record leaves all of them sound.
LEMMA Frame ==
  ASSUME IInv, NEW c \in Calls, NEW r \in Runs, Sound(r), Becomes(c, r),
         default' = default, switches' = switches, version' \in Nat
  PROVE  IInv'
<1>1. run' \in [Calls -> Runs]
  BY DEF IInv, TypeOK, Becomes
<1>2. \A d \in Calls : run'[d] = IF d = c THEN r ELSE run[d]
  BY DEF IInv, TypeOK, Becomes
<1>3. \A d \in Calls : Sound(run'[d])
  BY <1>2 DEF IInv
<1> QED BY <1>1, <1>3 DEF IInv, TypeOK

\* Ending is sound when nothing was done, or when the code does not say so.
LEMMA EndSound ==
  ASSUME NEW r \in Runs, Sound(r), NEW code \in {"ok", "refused", "unknown", "aborted"},
         code \in {"refused", "aborted"} => r.done = 0,
         code = "ok" /\ Changes(r.cmd) /\ ~r.downgraded => r.done = 1
  PROVE  Ended(r, code) \in Runs /\ Sound(Ended(r, code))
<1>1. DOMAIN Codes = {"ok", "refused", "unknown", "aborted"}
  BY DEF Codes
<1>2. [s \in Settings |-> "unset"] \in [Settings -> Sources]
  BY DEF Sources
<1> DEFINE q == Ended(r, code)
<1> DEFINE Unused == [s \in Settings |-> "unset"]
<1>3. q \in Runs
  <2> HIDE DEF Unused
  <2>1. q = [r EXCEPT !.phase = "ended", !.exit = code, !.at = 1, !.profile = NoProfile,
                      !.used = Unused]
    BY DEF Ended, Unused
  <2>2. Unused \in [Settings -> Sources]
    BY <1>2 DEF Unused
  <2>3. q = [phase |-> "ended", cmd |-> r.cmd, at |-> 1, agreed |-> r.agreed,
             profile |-> NoProfile, used |-> Unused, all |-> r.all, page |-> r.page,
             looked |-> r.looked, replaced |-> r.replaced, contacted |-> r.contacted,
             done |-> r.done, downgraded |-> r.downgraded, exit |-> code]
    BY <2>1 DEF Runs
  <2> HIDE DEF q
  <2> QED BY <1>1, <2>2, <2>3 DEF Runs, Phases
<1>4. /\ q.phase = "ended" /\ q.exit = code /\ q.cmd = r.cmd /\ q.agreed = r.agreed
      /\ q.contacted = r.contacted /\ q.done = r.done /\ q.downgraded = r.downgraded
      /\ q.replaced = r.replaced /\ q.looked = r.looked
      /\ \A s \in Settings : q.used[s] = "unset"
  BY DEF Ended, Runs
<1>5. Sound(q)
  BY <1>4, ProfilesAssumption DEF Sound
<1> QED BY <1>3, <1>5

\* So is being passed on to the next step, with what the step found out.
LEMMA PassSound ==
  ASSUME NEW r \in Runs, Sound(r), r.phase = "prepare", r.at <= Len(r.cmd.steps),
         NEW q \in Runs, q.phase = "prepare", q.at = r.at + 1,
         q.cmd = r.cmd, q.agreed = r.agreed, q.done = r.done, q.downgraded = r.downgraded,
         r.cmd.asks /\ q.contacted => r.agreed,
         \/ q.used = r.used /\ q.profile = r.profile
         \/ q.used = r.used /\ r.cmd.steps[r.at] = "read"
         \/ /\ q.profile = r.profile /\ r.cmd.steps[r.at] \notin {"read", "arguments", "password"}
            /\ \A s \in Settings : q.used[s] \in Profiles =>
                 q.used[s] \in {r.used[s], r.profile}
  PROVE  Sound(q)
<1>1. r.at \in Nat \ {0} /\ q.at \in Nat \ {0}
  BY DEF Runs
<1>2. q.done = 0 /\ ~q.downgraded
  BY DEF Sound
<1>3. r.cmd.asks => q.agreed
  BY DEF Sound
<1>4. ASSUME Changes(r.cmd)
      PROVE  /\ q.cmd.steps \in Seq(STRING) /\ ReadsFirst(q.cmd)
             /\ \A s \in Settings : q.used[s] \in Profiles => q.used[s] = q.profile
             /\ (\E s \in Settings : q.used[s] # "unset")
                  => \A i \in q.at..Len(q.cmd.steps) : q.cmd.steps[i] # "read"
  <2>1. ReadsFirst(r.cmd) /\ r.cmd.steps \in Seq(STRING) /\ Len(r.cmd.steps) \in Nat
    BY <1>4 DEF Sound
  <2> DEFINE Free(n) == \A i \in n..Len(r.cmd.steps) : r.cmd.steps[i] # "read"
  <2>2. (\E s \in Settings : r.used[s] # "unset") => Free(r.at)
    BY <1>4 DEF Sound
  <2>3. Free(r.at) => Free(q.at) /\ r.cmd.steps[r.at] # "read"
    BY <1>1, <2>1
  <2>4. CASE q.used = r.used /\ q.profile = r.profile
    BY <1>4, <2>1, <2>2, <2>3, <2>4 DEF Sound
  <2>5. CASE q.used = r.used /\ r.cmd.steps[r.at] = "read"
    BY <2>1, <2>2, <2>3, <2>5, ProfilesAssumption DEF Runs
  <2>6. CASE /\ q.profile = r.profile /\ r.cmd.steps[r.at] \notin {"read", "arguments", "password"}
             /\ \A s \in Settings : q.used[s] \in Profiles => q.used[s] \in {r.used[s], r.profile}
    <3>1. \A s \in Settings : q.used[s] \in Profiles => q.used[s] = q.profile
      BY <1>4, <2>6 DEF Sound
    <3>2. Free(q.at)
      BY <1>1, <2>1, <2>6 DEF ReadsFirst
    <3> QED BY <2>1, <3>1, <3>2
  <2> QED BY <2>4, <2>5, <2>6
<1>5. Versioned(q.cmd) /\ q.done > 0 => q.replaced = q.looked
  BY <1>2
<1> QED BY <1>2, <1>3, <1>4, <1>5 DEF Sound
-----------------------------------------------------------------------------
(* The actions *)

LEMMA StartStep ==
  ASSUME IInv, NEW c \in Calls, Start(c) PROVE IInv'
<1>1. PICK chosen \in Offered[c] :
        Becomes(c, [run[c] EXCEPT !.phase = IF chosen.asks THEN "confirm" ELSE "prepare",
                                  !.cmd = chosen,
                                  !.looked = IF Versioned(chosen) THEN version ELSE 0])
  BY DEF Start
<1> DEFINE r == run[c]
           q == [r EXCEPT !.phase = IF chosen.asks THEN "confirm" ELSE "prepare",
                          !.cmd = chosen,
                          !.looked = IF Versioned(chosen) THEN version ELSE 0]
<1>2. r \in Runs /\ Sound(r) /\ r.phase = "new" /\ version \in Nat
  BY DEF IInv, TypeOK, Start
<1>3. chosen \in Commands
  BY TableAssumption
<1>4. chosen.steps \in Seq(STRING) /\ (Changes(chosen) => ReadsFirst(chosen))
  BY OfferedAssumption
<1>5. q \in Runs
  BY <1>2, <1>3 DEF Runs, Phases
<1>6. /\ q.cmd = chosen /\ q.phase = (IF chosen.asks THEN "confirm" ELSE "prepare")
      /\ q.contacted = r.contacted /\ q.done = r.done /\ q.downgraded = r.downgraded
      /\ q.used = r.used /\ q.profile = r.profile
  BY <1>2 DEF Runs
<1>7. /\ ~r.contacted /\ r.done = 0 /\ ~r.downgraded
      /\ \A s \in Settings : r.used[s] = "unset"
  BY <1>2 DEF Sound
<1>8. Sound(q)
  BY <1>4, <1>6, <1>7, ProfilesAssumption DEF Sound
<1> QED BY <1>1, <1>2, <1>5, <1>8, Frame DEF Start, World

\* Someone agreed: at the prompt or by --yes.
LEMMA AgreedSound ==
  ASSUME NEW r \in Runs, Sound(r), r.phase \in {"confirm", "asked"}
  PROVE  LET q == [r EXCEPT !.phase = "prepare", !.agreed = TRUE]
         IN  q \in Runs /\ Sound(q)
<1> DEFINE q == [r EXCEPT !.phase = "prepare", !.agreed = TRUE]
<1>1. q \in Runs
  BY DEF Runs, Phases
<1>2. /\ q.phase = "prepare" /\ q.agreed /\ q.cmd = r.cmd /\ q.done = r.done
      /\ q.downgraded = r.downgraded /\ q.used = r.used /\ q.profile = r.profile
  BY DEF Runs
<1>3. r.done = 0 /\ ~r.downgraded /\ \A s \in Settings : r.used[s] = "unset"
  BY DEF Sound
<1>4. Sound(q)
  BY <1>2, <1>3 DEF Sound
<1> QED BY <1>1, <1>4

LEMMA ConfirmStep ==
  ASSUME IInv, NEW c \in Calls, Confirm(c) PROVE IInv'
<1>1. run[c] \in Runs /\ Sound(run[c]) /\ run[c].phase = "confirm" /\ version \in Nat
  BY DEF IInv, TypeOK, Confirm
<1>2. run[c].done = 0
  BY <1>1 DEF Sound
<1>3. default' = default /\ switches' = switches /\ version' \in Nat
  BY <1>1 DEF Confirm, World
<1>4. CASE Becomes(c, [run[c] EXCEPT !.phase = "prepare", !.agreed = TRUE])
  BY <1>1, <1>3, <1>4, AgreedSound, Frame
<1>5. CASE Becomes(c, [run[c] EXCEPT !.phase = "asked"])
  <2> DEFINE q == [run[c] EXCEPT !.phase = "asked"]
  <2>1. q \in Runs
    BY <1>1 DEF Runs, Phases
  <2>2. Sound(q)
    BY <1>1 DEF Sound, Runs
  <2> QED BY <1>3, <1>5, <2>1, <2>2, Frame
<1>6. CASE Becomes(c, Ended(run[c], "aborted"))
  BY <1>1, <1>2, <1>3, <1>6, EndSound, Frame
<1> QED BY <1>4, <1>5, <1>6 DEF Confirm

LEMMA AnswerStep ==
  ASSUME IInv, NEW c \in Calls, Answer(c) PROVE IInv'
<1>1. run[c] \in Runs /\ Sound(run[c]) /\ run[c].phase = "asked" /\ version \in Nat
  BY DEF IInv, TypeOK, Answer
<1>2. run[c].done = 0
  BY <1>1 DEF Sound
<1>3. default' = default /\ switches' = switches /\ version' \in Nat
  BY <1>1 DEF Answer, World
<1>4. CASE Becomes(c, [run[c] EXCEPT !.phase = "prepare", !.agreed = TRUE])
  BY <1>1, <1>3, <1>4, AgreedSound, Frame
<1>5. CASE Becomes(c, Ended(run[c], "aborted"))
  BY <1>1, <1>2, <1>3, <1>5, EndSound, Frame
<1> QED BY <1>4, <1>5 DEF Answer

\* Common to the steps of the preparation.
LEMMA Preparing ==
  ASSUME IInv, NEW c \in Calls, NEW steps, At(c, steps), UNCHANGED World
  PROVE  /\ run[c] \in Runs /\ Sound(run[c]) /\ run[c].phase = "prepare"
         /\ run[c].at <= Len(run[c].cmd.steps) /\ run[c].cmd.steps[run[c].at] \in steps
         /\ run[c].done = 0 /\ run[c].at + 1 \in Nat \ {0}
         /\ default' = default /\ switches' = switches /\ version' \in Nat
         /\ run[c].cmd.asks => run[c].agreed
<1>1. run[c] \in Runs /\ Sound(run[c]) /\ version \in Nat
  BY DEF IInv, TypeOK
<1>2. run[c].phase = "prepare" /\ run[c].at <= Len(run[c].cmd.steps)
      /\ run[c].cmd.steps[run[c].at] \in steps
  BY DEF At
<1>3. run[c].done = 0 /\ (run[c].cmd.asks => run[c].agreed)
  BY <1>1, <1>2 DEF Sound
<1>4. run[c].at + 1 \in Nat \ {0}
  BY <1>1 DEF Runs
<1> QED BY <1>1, <1>2, <1>3, <1>4 DEF World

\* An invocation that gives up before its request.
LEMMA GiveUp ==
  ASSUME IInv, NEW c \in Calls, NEW r \in Runs, Sound(r), r.done = 0,
         NEW code \in {"refused", "unknown", "aborted"}, Becomes(c, Ended(r, code)),
         default' = default, switches' = switches, version' \in Nat
  PROVE  IInv'
BY EndSound, Frame

LEMMA PassedType ==
  ASSUME NEW r \in Runs
  PROVE  /\ Passed(r) \in Runs /\ Passed(r).at = r.at + 1 /\ Passed(r).phase = r.phase
         /\ Passed(r).cmd = r.cmd /\ Passed(r).agreed = r.agreed /\ Passed(r).done = r.done
         /\ Passed(r).downgraded = r.downgraded /\ Passed(r).used = r.used
         /\ Passed(r).profile = r.profile /\ Passed(r).contacted = r.contacted
<1>1. r.at + 1 \in Nat \ {0}
  BY DEF Runs
<1> QED BY <1>1 DEF Passed, Runs

LEMMA ReadStep ==
  ASSUME IInv, NEW c \in Calls, Read(c) PROVE IInv'
<1> DEFINE r == run[c]
           q == [Passed(r) EXCEPT !.profile = default]
<1>1. At(c, {"read"}) /\ UNCHANGED World
  BY DEF Read
<1>2. CASE Becomes(c, q)
  <2>0. r \in Runs /\ Sound(r) /\ default \in Profiles \cup {NoProfile}
    BY <1>1, Preparing DEF IInv, TypeOK
  <2>1. Passed(r) \in Runs
    BY <2>0, PassedType
  <2>2. /\ q \in Runs /\ q.phase = Passed(r).phase /\ q.at = Passed(r).at
        /\ q.cmd = Passed(r).cmd /\ q.agreed = Passed(r).agreed /\ q.done = Passed(r).done
        /\ q.downgraded = Passed(r).downgraded /\ q.used = Passed(r).used
        /\ q.contacted = Passed(r).contacted
    BY <2>0, <2>1 DEF Runs
  <2>3. /\ q.phase = "prepare" /\ q.at = r.at + 1 /\ q.cmd = r.cmd /\ q.agreed = r.agreed
        /\ q.done = r.done /\ q.downgraded = r.downgraded /\ q.used = r.used
        /\ r.phase = "prepare" /\ r.at <= Len(r.cmd.steps) /\ r.cmd.steps[r.at] = "read"
        /\ r.cmd.asks => r.agreed
    BY <1>1, <2>0, <2>2, PassedType, Preparing
  <2>4. Sound(q)
    BY <2>0, <2>2, <2>3, PassSound
  <2> QED BY <1>1, <1>2, <2>2, <2>4, Preparing, Frame
<1>3. CASE Becomes(c, Ended(r, "refused"))
  BY <1>1, <1>3, Preparing, GiveUp
<1> QED BY <1>2, <1>3 DEF Read

\* A step that takes nothing with it but the news that the server was asked.
LEMMA PlainPass ==
  ASSUME NEW r \in Runs, Sound(r), r.phase = "prepare", r.at <= Len(r.cmd.steps),
         NEW contacted \in BOOLEAN
  PROVE  LET q == [Passed(r) EXCEPT !.contacted = contacted]
         IN  q \in Runs /\ Sound(q)
<1> DEFINE q == [Passed(r) EXCEPT !.contacted = contacted]
<1>1. /\ q \in Runs /\ q.phase = Passed(r).phase /\ q.at = Passed(r).at
      /\ q.cmd = Passed(r).cmd /\ q.agreed = Passed(r).agreed /\ q.done = Passed(r).done
      /\ q.downgraded = Passed(r).downgraded /\ q.used = Passed(r).used
      /\ q.profile = Passed(r).profile
  <2>1. Passed(r) \in Runs
    BY PassedType
  <2> QED
    BY <2>1 DEF Runs
<1>2. /\ q.phase = r.phase /\ q.at = r.at + 1 /\ q.cmd = r.cmd /\ q.agreed = r.agreed
      /\ q.done = r.done /\ q.downgraded = r.downgraded /\ q.used = r.used
      /\ q.profile = r.profile
  BY <1>1, PassedType
<1>3. r.cmd.asks => r.agreed
  BY DEF Sound
<1>4. Sound(q)
  BY <1>1, <1>2, <1>3, PassSound
<1> QED BY <1>1, <1>4

\* The same record, with the server asked.
LEMMA ContactSound ==
  ASSUME NEW r \in Runs, Sound(r), r.phase = "prepare"
  PROVE  LET q == [r EXCEPT !.contacted = TRUE]
         IN  q \in Runs /\ Sound(q) /\ q.done = 0 /\ q.cmd = r.cmd
             /\ q.phase = "prepare" /\ q.at = r.at
<1> DEFINE q == [r EXCEPT !.contacted = TRUE]
<1>1. q \in Runs /\ q = [r EXCEPT !.contacted = TRUE]
  BY DEF Runs
<1>2. /\ q.phase = r.phase /\ q.at = r.at /\ q.cmd = r.cmd /\ q.agreed = r.agreed
      /\ q.done = r.done /\ q.downgraded = r.downgraded /\ q.used = r.used
      /\ q.profile = r.profile
  BY DEF Runs
<1>3. r.done = 0 /\ (r.cmd.asks => r.agreed)
  BY DEF Sound
<1>4. Sound(q)
  BY <1>2, <1>3 DEF Sound
<1> QED BY <1>1, <1>2, <1>3, <1>4

LEMMA PassedSound ==
  ASSUME NEW r \in Runs, Sound(r), r.phase = "prepare", r.at <= Len(r.cmd.steps)
  PROVE  Passed(r) \in Runs /\ Sound(Passed(r))
<1>1. Passed(r) = [Passed(r) EXCEPT !.contacted = r.contacted] /\ r.contacted \in BOOLEAN
  BY DEF Passed, Runs
<1> QED BY <1>1, PlainPass

LEMMA ArgumentsStep ==
  ASSUME IInv, NEW c \in Calls, Arguments(c) PROVE IInv'
<1>1. At(c, {"arguments", "version"}) /\ UNCHANGED World
  BY DEF Arguments
<1>2. CASE Becomes(c, Passed(run[c]))
  BY <1>1, <1>2, Preparing, PassedSound, Frame
<1>3. CASE Becomes(c, Ended(run[c], "refused"))
  BY <1>1, <1>3, Preparing, GiveUp
<1> QED BY <1>2, <1>3 DEF Arguments

LEMMA PasswordStep ==
  ASSUME IInv, NEW c \in Calls, Password(c) PROVE IInv'
<1> DEFINE r == run[c]
<1>1. At(c, {"password"}) /\ UNCHANGED World
  BY DEF Password
<1>2. /\ r \in Runs /\ Sound(r) /\ r.phase = "prepare" /\ r.at <= Len(r.cmd.steps)
      /\ default' = default /\ switches' = switches /\ version' \in Nat
  BY <1>1, Preparing
<1>3. CASE Becomes(c, Passed(r))
  BY <1>1, <1>2, <1>3, PassedSound, Frame
<1>4. CASE Becomes(c, [r EXCEPT !.phase = "prompted"])
  <2> DEFINE q == [r EXCEPT !.phase = "prompted"]
  <2>1. q \in Runs
    BY <1>2 DEF Runs, Phases
  <2>2. /\ q.phase = "prompted" /\ q.at = r.at /\ q.cmd = r.cmd /\ q.agreed = r.agreed
        /\ q.done = r.done /\ q.downgraded = r.downgraded /\ q.used = r.used
        /\ q.profile = r.profile /\ q.contacted = r.contacted
    BY <1>2 DEF Runs
  <2>3. Sound(q)
    BY <1>2, <2>2 DEF Sound
  <2> HIDE DEF q
  <2> QED BY <1>2, <1>4, <2>1, <2>3, Frame DEF q
<1> QED BY <1>3, <1>4 DEF Password

LEMMA EnterPasswordStep ==
  ASSUME IInv, NEW c \in Calls, EnterPassword(c) PROVE IInv'
<1> DEFINE r == run[c]
           q == [r EXCEPT !.phase = "prepare"]
<1>1. /\ r \in Runs /\ Sound(r) /\ r.phase = "prompted"
      /\ default' = default /\ switches' = switches /\ version' \in Nat
  BY DEF EnterPassword, IInv, TypeOK, World
<1>2. r.done = 0 /\ r.at <= Len(r.cmd.steps)
  BY <1>1 DEF Sound
<1>3. CASE Becomes(c, Passed(q))
  <2>1. q \in Runs
    BY <1>1 DEF Runs, Phases
  <2>2. /\ q.phase = "prepare" /\ q.at = r.at /\ q.cmd = r.cmd /\ q.agreed = r.agreed
        /\ q.done = r.done /\ q.downgraded = r.downgraded /\ q.used = r.used
        /\ q.profile = r.profile /\ q.contacted = r.contacted
    BY <1>1 DEF Runs
  <2>3. Sound(q)
    BY <1>1, <2>2 DEF Sound
  <2> HIDE DEF q
  <2> QED BY <1>1, <1>2, <1>3, <2>1, <2>2, <2>3, PassedSound, Frame
<1>4. CASE Becomes(c, Ended(r, "unknown"))
  BY <1>1, <1>2, <1>4, GiveUp
<1> QED BY <1>3, <1>4 DEF EnterPassword

\* Where a setting comes from, when it does.
LEMMA FromType ==
  ASSUME NEW r \in Runs, NEW s \in Settings, NEW source \in From(r, s)
  PROVE  source \in Sources /\ (source \in Profiles => source \in {r.used[s], r.profile})
BY ProfilesAssumption DEF From, Held, Runs, Sources
\* A step that settles where one setting comes from.
LEMMA SettledSound ==
  ASSUME NEW r \in Runs, Sound(r), r.phase = "prepare", r.at <= Len(r.cmd.steps),
         r.cmd.steps[r.at] \notin {"read", "arguments", "password"},
         NEW used \in [Settings -> Sources], NEW contacted \in BOOLEAN,
         \A s \in Settings : used[s] \in Profiles => used[s] \in {r.used[s], r.profile}
  PROVE  LET q == [Passed(r) EXCEPT !.used = used, !.contacted = contacted]
         IN  q \in Runs /\ Sound(q)
<1> DEFINE q == [Passed(r) EXCEPT !.used = used, !.contacted = contacted]
<1>1. /\ q \in Runs /\ q.phase = Passed(r).phase /\ q.at = Passed(r).at
      /\ q.cmd = Passed(r).cmd /\ q.agreed = Passed(r).agreed /\ q.done = Passed(r).done
      /\ q.downgraded = Passed(r).downgraded /\ q.used = used
      /\ q.profile = Passed(r).profile
  <2>1. Passed(r) \in Runs
    BY PassedType
  <2> QED
    BY <2>1 DEF Runs
<1>2. /\ q.phase = r.phase /\ q.at = r.at + 1 /\ q.cmd = r.cmd /\ q.agreed = r.agreed
      /\ q.done = r.done /\ q.downgraded = r.downgraded /\ q.profile = r.profile
  BY <1>1, PassedType
<1>3. r.cmd.asks => r.agreed
  BY DEF Sound
<1>4. Sound(q)
  BY <1>1, <1>2, <1>3, PassSound
<1> QED BY <1>1, <1>4

LEMMA RequireStep ==
  ASSUME IInv, NEW c \in Calls, Require(c) PROVE IInv'
<1>1. PICK s \in {"host", "workspace"} :
        /\ At(c, {s})
        /\ \/ \E source \in From(run[c], s) :
                Becomes(c, [Passed(run[c]) EXCEPT !.used[s] = source])
           \/ Missing(run[c], s) /\ Becomes(c, Ended(run[c], "refused"))
        /\ UNCHANGED World
  BY DEF Require
<1>2. CASE \E source \in From(run[c], s) :
             Becomes(c, [Passed(run[c]) EXCEPT !.used[s] = source])
  <2>1. PICK source \in From(run[c], s) :
          Becomes(c, [Passed(run[c]) EXCEPT !.used[s] = source])
    BY <1>2
  <2> DEFINE r == run[c]
             used == [r.used EXCEPT ![s] = source]
  <2>2. r \in Runs /\ Sound(r) /\ r.phase = "prepare" /\ r.at <= Len(r.cmd.steps)
        /\ r.cmd.steps[r.at] \notin {"read", "arguments", "password"}
    BY <1>1, Preparing
  <2>3. source \in Sources /\ (source \in Profiles => source \in {r.used[s], r.profile})
    BY <2>2, FromType DEF Settings
  <2>4. r.used \in [Settings -> Sources]
    BY <2>2 DEF Runs
  <2>5. /\ used \in [Settings -> Sources]
        /\ \A t \in Settings : used[t] \in Profiles => used[t] \in {r.used[t], r.profile}
    BY <2>3, <2>4 DEF Settings
  <2>6. r.contacted \in BOOLEAN
    BY <2>2 DEF Runs
  <2>7. [Passed(r) EXCEPT !.used[s] = source]
          = [Passed(r) EXCEPT !.used = used, !.contacted = r.contacted]
    BY <2>2, PassedType DEF Runs
  <2> HIDE DEF used
  <2>8. LET q == [Passed(r) EXCEPT !.used = used, !.contacted = r.contacted]
        IN  q \in Runs /\ Sound(q)
    BY <2>2, <2>5, <2>6, SettledSound
  <2> QED BY <1>1, <2>1, <2>7, <2>8, Preparing, Frame
<1>3. CASE Missing(run[c], s) /\ Becomes(c, Ended(run[c], "refused"))
  BY <1>1, <1>3, Preparing, GiveUp
<1> QED BY <1>1, <1>2, <1>3

LEMMA PrincipalStep ==
  ASSUME IInv, NEW c \in Calls, ResolvePrincipal(c) PROVE IInv'
<1> DEFINE r == [run[c] EXCEPT !.contacted = TRUE]
<1>1. At(c, {"principal"}) /\ UNCHANGED World
  BY DEF ResolvePrincipal
<1>2. /\ r \in Runs /\ Sound(r) /\ r.done = 0 /\ r.cmd = run[c].cmd
      /\ r.phase = "prepare" /\ r.at = run[c].at
  BY <1>1, Preparing, ContactSound
<1>3. CASE Becomes(c, Passed(r))
  <2>1. Passed(r) = [Passed(r) EXCEPT !.contacted = TRUE]
    BY <1>1, Preparing DEF Passed, Runs
  <2>2. LET q == [Passed(r) EXCEPT !.contacted = TRUE] IN q \in Runs /\ Sound(q)
    BY <1>1, <1>2, Preparing, PlainPass
  <2> QED BY <1>1, <1>3, <2>1, <2>2, Preparing, Frame
<1>4. CASE \E code \in {"refused", "unknown"} : Becomes(c, Ended(r, code))
  BY <1>1, <1>2, <1>4, Preparing, GiveUp
<1> QED BY <1>3, <1>4 DEF ResolvePrincipal

LEMMA ProbeStep ==
  ASSUME IInv, NEW c \in Calls, Probe(c) PROVE IInv'
<1>1. At(c, {"probe"}) /\ UNCHANGED World
  BY DEF Probe
<1>2. LET q == [Passed(run[c]) EXCEPT !.contacted = TRUE] IN q \in Runs /\ Sound(q)
  BY <1>1, Preparing, PlainPass
<1> QED BY <1>1, <1>2, Preparing, Frame DEF Probe
LEMMA CatalogStep ==
  ASSUME IInv, NEW c \in Calls, ResolveCatalog(c) PROVE IInv'
<1> DEFINE r == run[c]
<1>1. At(c, {"catalog"}) /\ UNCHANGED World
  BY DEF ResolveCatalog
<1>2. /\ r \in Runs /\ Sound(r) /\ r.phase = "prepare" /\ r.at <= Len(r.cmd.steps)
      /\ r.cmd.steps[r.at] \notin {"read", "arguments", "password"} /\ r.done = 0
      /\ r.cmd.steps[r.at] = "catalog" /\ r.cmd.asks => r.agreed
  BY <1>1, Preparing
<1>3. r.used \in [Settings -> Sources] /\ r.contacted \in BOOLEAN
  BY <1>2 DEF Runs
<1>4. ASSUME NEW source \in From(r, "catalog"),
             Becomes(c, [Passed(r) EXCEPT !.used["catalog"] = source])
      PROVE  IInv'
  <2> DEFINE used == [r.used EXCEPT !["catalog"] = source]
  <2>1. source \in Sources /\ (source \in Profiles => source \in {r.used["catalog"], r.profile})
    BY <1>2, FromType DEF Settings
  <2>2. /\ used \in [Settings -> Sources]
        /\ \A t \in Settings : used[t] \in Profiles => used[t] \in {r.used[t], r.profile}
    BY <1>3, <2>1 DEF Settings
  <2>3. [Passed(r) EXCEPT !.used["catalog"] = source]
          = [Passed(r) EXCEPT !.used = used, !.contacted = r.contacted]
    BY <1>2, PassedType DEF Runs
  <2> HIDE DEF used
  <2>4. LET q == [Passed(r) EXCEPT !.used = used, !.contacted = r.contacted]
        IN  q \in Runs /\ Sound(q)
    BY <1>2, <1>3, <2>2, SettledSound
  <2> QED BY <1>1, <1>4, <2>3, <2>4, Preparing, Frame
<1>5. ASSUME NEW w \in From(r, "workspace"),
             LET q == [r EXCEPT !.used["workspace"] = w, !.contacted = TRUE] IN
             \/ Becomes(c, [Passed(q) EXCEPT !.used["catalog"] = "server"])
             \/ \E code \in {"refused", "unknown"} : Becomes(c, Ended(q, code))
      PROVE  IInv'
  <2> DEFINE q == [r EXCEPT !.used["workspace"] = w, !.contacted = TRUE]
             used == [[r.used EXCEPT !["workspace"] = w] EXCEPT !["catalog"] = "server"]
  <2>1. w \in Sources /\ (w \in Profiles => w \in {r.used["workspace"], r.profile})
    BY <1>2, FromType DEF Settings
  <2>2. "server" \in Sources /\ "server" \notin Profiles
    BY ProfilesAssumption DEF Sources
  <2>3. /\ used \in [Settings -> Sources]
        /\ \A t \in Settings : used[t] \in Profiles => used[t] \in {r.used[t], r.profile}
    BY <1>3, <2>1, <2>2 DEF Settings
  <2>4. CASE Becomes(c, [Passed(q) EXCEPT !.used["catalog"] = "server"])
    <3>1. [Passed(q) EXCEPT !.used["catalog"] = "server"]
            = [Passed(r) EXCEPT !.used = used, !.contacted = TRUE]
      BY <1>2 DEF Passed, Runs
    <3> HIDE DEF used
    <3>2. LET z == [Passed(r) EXCEPT !.used = used, !.contacted = TRUE]
          IN  z \in Runs /\ Sound(z)
      BY <1>2, <2>3, SettledSound
    <3> QED BY <1>1, <2>4, <3>1, <3>2, Preparing, Frame
  <2>5. CASE \E code \in {"refused", "unknown"} : Becomes(c, Ended(q, code))
    <3> DEFINE z == [r EXCEPT !.contacted = TRUE]
    <3>1. z \in Runs /\ Sound(z) /\ z.done = 0
      BY <1>2, ContactSound
    <3>2. \A code : Ended(q, code) = Ended(z, code)
      BY <1>2 DEF Ended, Runs
    <3> HIDE DEF z, q
    <3> QED BY <1>1, <2>5, <3>1, <3>2, Preparing, GiveUp
  <2> QED BY <1>5, <2>4, <2>5
<1>6. CASE Becomes(c, Ended(r, "refused"))
  BY <1>1, <1>2, <1>6, Preparing, GiveUp
<1> QED BY <1>4, <1>5, <1>6 DEF ResolveCatalog

\* A request that was carried out.
LEMMA CarriedOutSound ==
  ASSUME NEW r \in Runs, Sound(r), r.phase = "prepare", version \in Nat, Current(r)
  PROVE  LET q == CarriedOut(r) IN
         /\ q \in Runs /\ Sound([q EXCEPT !.phase = "output"])
         /\ [q EXCEPT !.phase = "output"] \in Runs
         /\ Ended(q, "unknown") \in Runs /\ Sound(Ended(q, "unknown"))
<1> DEFINE q == CarriedOut(r)
           n == IF Changes(r.cmd) THEN 1 ELSE 0
           v == IF Versioned(r.cmd) THEN version ELSE 0
           out == [q EXCEPT !.phase = "output"]
<1>1. r.done = 0 /\ ~r.downgraded /\ (r.cmd.asks => r.agreed) /\ r.looked \in Nat
  BY DEF Sound, Runs
<1>2. n \in {0, 1} /\ v \in Nat /\ r.done + n = n /\ n \in Nat
  BY <1>1
<1>3. q = [r EXCEPT !.contacted = TRUE, !.done = n, !.replaced = v]
  BY <1>1, <1>2 DEF CarriedOut, Runs
<1> HIDE DEF n, v
<1>4. /\ q \in Runs /\ q.contacted /\ q.done = n /\ q.replaced = v /\ q.phase = "prepare"
      /\ q.cmd = r.cmd /\ q.agreed = r.agreed /\ q.downgraded = r.downgraded
      /\ q.looked = r.looked /\ q.used = r.used /\ q.profile = r.profile /\ q.at = r.at
  BY <1>2, <1>3 DEF Runs
<1> HIDE DEF q
<1>5. /\ out \in Runs /\ out.phase = "output" /\ out.contacted /\ out.done = n /\ out.replaced = v
      /\ out.cmd = r.cmd /\ out.agreed = r.agreed /\ out.downgraded = r.downgraded
      /\ out.looked = r.looked /\ out.used = r.used /\ out.profile = r.profile
  BY <1>4 DEF Runs, Phases
<1>6. /\ n <= 1 /\ (Changes(r.cmd) => n = 1)
      /\ Versioned(r.cmd) /\ n > 0 => v = r.looked
  BY <1>2 DEF n, v, Current
<1>7. Changes(r.cmd) =>
        /\ r.cmd.steps \in Seq(STRING) /\ ReadsFirst(r.cmd)
        /\ \A s \in Settings : r.used[s] \in Profiles => r.used[s] = r.profile
  BY DEF Sound
<1>8. Sound(out)
  BY <1>1, <1>5, <1>6, <1>7 DEF Sound
<1>9. Ended(q, "unknown") = Ended(out, "unknown")
  BY <1>4 DEF Ended, Runs
<1>10. Ended(out, "unknown") \in Runs /\ Sound(Ended(out, "unknown"))
  BY <1>5, <1>8, EndSound
<1> QED BY <1>4, <1>5, <1>8, <1>9, <1>10 DEF q

LEMMA SendStep ==
  ASSUME IInv, NEW c \in Calls, Send(c) PROVE IInv'
<1> DEFINE r == run[c]
<1>1. /\ r \in Runs /\ Sound(r) /\ version \in Nat /\ r.phase = "prepare"
      /\ default' = default /\ switches' = switches
  BY DEF Send, Ready, IInv, TypeOK
<1>2. Saves(c) => version' \in Nat
  BY <1>1 DEF Saves
<1>3. LET q == [r EXCEPT !.contacted = TRUE]
      IN  q \in Runs /\ Sound(q) /\ q.done = 0 /\ q.cmd = r.cmd
          /\ q.phase = "prepare" /\ q.at = r.at
  BY <1>1, ContactSound
<1>4. CASE Succeed(c)
  BY <1>1, <1>2, <1>4, CarriedOutSound, Frame DEF Succeed
<1>5. CASE Redirect(c)
  <2> DEFINE q == [r EXCEPT !.phase = "output", !.contacted = TRUE, !.downgraded = TRUE]
  <2>1. /\ q \in Runs /\ q.phase = "output" /\ q.downgraded /\ q.cmd = r.cmd
        /\ q.agreed = r.agreed /\ q.done = r.done /\ q.used = r.used
        /\ q.profile = r.profile
    BY <1>1 DEF Runs, Phases
  <2>2. r.done = 0 /\ (r.cmd.asks => r.agreed)
    BY <1>1 DEF Sound
  <2>3. Sound(q)
    BY <1>1, <2>1, <2>2 DEF Sound
  <2> QED BY <1>1, <1>5, <2>1, <2>3, Frame DEF Redirect
<1>6. CASE Refuse(c)
  BY <1>1, <1>3, <1>6, GiveUp DEF Refuse
<1>7. CASE GoUnanswered(c)
  <2>1. CASE /\ Current(r) /\ ~Downgraded(r)
             /\ Becomes(c, Ended(CarriedOut(r), "unknown")) /\ Saves(c)
    BY <1>1, <1>2, <2>1, CarriedOutSound, Frame
  <2>2. CASE /\ Becomes(c, Ended([r EXCEPT !.contacted = TRUE], "unknown"))
             /\ UNCHANGED version
    BY <1>1, <1>3, <2>2, GiveUp
  <2> QED BY <1>7, <2>1, <2>2 DEF GoUnanswered
<1> QED BY <1>4, <1>5, <1>6, <1>7 DEF Send

LEMMA FetchPageStep ==
  ASSUME IInv, NEW c \in Calls, FetchPage(c) PROVE IInv'
<1>1. /\ run[c] \in Runs /\ Sound(run[c]) /\ version \in Nat /\ run[c].phase = "prepare"
      /\ default' = default /\ switches' = switches /\ version' = version
      /\ run[c].cmd.sends = "PAGES"
  BY DEF FetchPage, Ready, IInv, TypeOK, World
<1>2. PICK all \in BOOLEAN :
        LET r == [run[c] EXCEPT !.contacted = TRUE, !.all = all, !.page = @ + 1] IN
        \/ Becomes(c, IF LastPage(r, r.page) THEN [r EXCEPT !.phase = "output"] ELSE r)
        \/ \E code \in {"refused", "unknown"} : Becomes(c, Ended(r, code))
  <2>1. run[c].all \in BOOLEAN
    BY <1>1 DEF Runs
  <2> QED BY <2>1 DEF FetchPage
<1> DEFINE r == [run[c] EXCEPT !.contacted = TRUE, !.all = all, !.page = @ + 1]
           out == [r EXCEPT !.phase = "output"]
<1>3. run[c].page + 1 \in Nat
  BY <1>1 DEF Runs
<1>4. /\ r \in Runs /\ r.phase = "prepare" /\ r.cmd = run[c].cmd /\ r.agreed = run[c].agreed
      /\ r.done = run[c].done /\ r.downgraded = run[c].downgraded
  BY <1>1, <1>3 DEF Runs
<1> HIDE DEF r
<1>5. /\ out \in Runs /\ out.phase = "output" /\ out.cmd = r.cmd /\ out.agreed = r.agreed
      /\ out.done = r.done /\ out.downgraded = r.downgraded
  BY <1>4 DEF Runs, Phases
<1>6. ~Changes(run[c].cmd) /\ run[c].done = 0 /\ (run[c].cmd.asks => run[c].agreed)
      /\ ~run[c].downgraded
  BY <1>1 DEF Changes, Sound
<1> HIDE DEF out
<1>7. Sound(r) /\ Sound(out)
  BY <1>4, <1>5, <1>6 DEF Sound
<1>8. CASE Becomes(c, r)
  BY <1>1, <1>4, <1>7, <1>8, Frame
<1>9. CASE Becomes(c, out)
  BY <1>1, <1>5, <1>7, <1>9, Frame
<1>10. CASE \E code \in {"refused", "unknown"} : Becomes(c, Ended(r, code))
  BY <1>1, <1>4, <1>6, <1>7, <1>10, GiveUp
<1> QED BY <1>2, <1>8, <1>9, <1>10 DEF r, out

LEMMA EmitStep ==
  ASSUME IInv, NEW c \in Calls, Emit(c) PROVE IInv'
<1>1. /\ run[c] \in Runs /\ Sound(run[c]) /\ version \in Nat
      /\ default' = default /\ switches' = switches /\ version' = version
  BY DEF Emit, IInv, TypeOK, World
<1>2. run[c].phase = "output" \/ run[c].cmd.sends = "none"
  BY DEF Emit
<1>3. Changes(run[c].cmd) /\ ~run[c].downgraded => run[c].done = 1
  BY <1>1, <1>2 DEF Sound, Changes
<1> QED BY <1>1, <1>3, EndSound, Frame DEF Emit

LEMMA InterruptStep ==
  ASSUME IInv, NEW c \in Calls, Interrupt(c) PROVE IInv'
<1>1. /\ run[c] \in Runs /\ Sound(run[c]) /\ version \in Nat
      /\ default' = default /\ switches' = switches /\ version' = version
  BY DEF Interrupt, IInv, TypeOK, World
<1> QED BY <1>1, EndSound, Frame DEF Interrupt

-----------------------------------------------------------------------------
(* The theorems *)

LEMMA Inductive == IInv /\ [Next]_vars => IInv'
<1> SUFFICES ASSUME IInv, [Next]_vars PROVE IInv'
  OBVIOUS
<1>1. ASSUME NEW c \in Calls, Advance(c) PROVE IInv'
  BY <1>1, ConfirmStep, PasswordStep, ReadStep, ArgumentsStep, RequireStep, CatalogStep,
     PrincipalStep, ProbeStep, SendStep, FetchPageStep, EmitStep
  DEF Advance
<1>2. CASE SwitchDefault
  BY <1>2 DEF SwitchDefault, IInv, TypeOK
<1>3. CASE UNCHANGED vars
  BY <1>3 DEF vars, IInv, TypeOK
<1> QED BY <1>1, <1>2, <1>3, StartStep, AnswerStep, EnterPasswordStep, InterruptStep DEF Next

LEMMA Invariance == Spec => []IInv
<1>1. Init => IInv
  BY NewSound DEF Init, IInv, TypeOK
<1> QED BY <1>1, Inductive, PTL DEF Spec

\* Every variable and every invocation keeps its type.
THEOREM CommandTypes == Spec => []TypeOK
<1>1. IInv => TypeOK
  BY DEF IInv
<1> QED BY <1>1, Invariance, PTL

\* A command that asks has sent nothing until someone agreed, whatever it looks
\* up first and whoever else runs (context.confirm comes before the settings).
THEOREM ConfirmedFirst == Spec => []NothingUnconfirmed
<1>1. IInv => NothingUnconfirmed
  BY DEF IInv, Sound, NothingUnconfirmed
<1> QED BY <1>1, Invariance, PTL

\* The exit status tells whether the change was made, and no command makes one
\* twice (errors.ExitCode).
THEOREM StatusHonest == Spec => []StatusTellsEffect
<1>1. IInv => StatusTellsEffect
  BY DEF IInv, Sound, StatusTellsEffect
<1> QED BY <1>1, Invariance, PTL

\* A change never mixes the settings of two profiles (resolve, context.client).
THEOREM UnmixedProfile == Spec => []OneProfile
<1>1. IInv => OneProfile
  BY DEF IInv, Sound, OneProfile
<1> QED BY <1>1, Invariance, PTL

\* No save of a worksheet replaces a version its user had not read.
THEOREM WorksheetSeen == Spec => []NothingOverwrittenUnseen
<1>1. IInv => NothingOverwrittenUnseen
  BY DEF IInv, Sound, NothingOverwrittenUnseen
<1> QED BY <1>1, Invariance, PTL
=============================================================================
