----------------------------- MODULE OptionHoist -----------------------------
(***************************************************************************)
(* How dh reads its command line (main.py): hoist_global_options walks over  *)
(* the tokens and moves dh's own options in front of the subcommand, and     *)
(* Click then reads what comes out, first as dh, then as the subcommand.     *)
(*                                                                         *)
(* A token is <<word>> or, for "option=value", <<option, value>>.  line is   *)
(* what the user meant by the tokens: pieces, each an option with its value  *)
(* or an argument, and the words that follow a "--".                         *)
(*                                                                         *)
(* An operator named Faulty... is its neighbour with one plausible bug; no  *)
(* action uses it.  It shows that a property would notice the bug.         *)
(***************************************************************************)
EXTENDS Naturals, Sequences

CONSTANTS Words,           \* bound: the words typed
          Lines,           \* bound: the command lines typed
          GLOBAL_OPTIONS,  \* dh's options: name -> does a value follow?
          OwnOptions,      \* the options of the subcommand, likewise
          Commands,        \* the names of the subcommands
          Argument,        \* the piece is an argument, no option
          NoValue          \* the piece is an option that no value follows

OptionNames == DOMAIN GLOBAL_OPTIONS \cup DOMAIN OwnOptions

\* A word that an option's value or an argument is made of is no "option=value", and
\* what looks like an option is no argument: it is typed behind the "--".
ASSUME OptionsAssumption ==
  /\ \A o \in DOMAIN GLOBAL_OPTIONS : GLOBAL_OPTIONS[o] \in BOOLEAN
  /\ \A o \in DOMAIN OwnOptions : OwnOptions[o] \in BOOLEAN
  /\ {Argument, "--"} \cap OptionNames = {}
  /\ Lines \subseteq
       [pieces : Seq([option : OptionNames \cup {Argument}, value : Words \cup {NoValue},
                      joined : BOOLEAN]),
        literal : Seq(Words)]
  /\ \A l \in Lines : \A n \in 1..Len(l.pieces) :
       l.pieces[n].option = Argument => l.pieces[n].value \notin OptionNames \cup {"--"}

VARIABLES
  line,       \* [pieces |-> ..., literal |-> the words after "--"]
  reading,    \* "hoist" | "dh" | "command" | "read" | "usage error"
  left,       \* the tokens not read yet
  head, rest, \* hoist_global_options
  settings,   \* dh's options as heard, <<option, value>> each
  options,    \* the subcommand's
  arguments,
  problem     \* the complaint, if any

hoistVars == <<line, reading, left, head, rest, settings, options, arguments, problem>>

-----------------------------------------------------------------------------
\* How a piece is typed.
Typed(piece) ==
  IF piece.option = Argument THEN << <<piece.value>> >>
  ELSE IF piece.value = NoValue THEN << <<piece.option>> >>
  ELSE IF piece.joined THEN << <<piece.option, piece.value>> >>
  ELSE << <<piece.option>>, <<piece.value>> >>

Argv(typed) ==
  LET tokens[n \in 0..Len(typed.pieces)] ==
        IF n = 0 THEN <<>> ELSE tokens[n - 1] \o Typed(typed.pieces[n])
  IN tokens[Len(typed.pieces)]
       \o IF typed.literal = <<>> THEN <<>>
          ELSE << <<"--">> >> \o [n \in 1..Len(typed.literal) |-> <<typed.literal[n]>>]

HoistInit ==
  /\ line \in Lines
  /\ reading = "hoist" /\ left = Argv(line) /\ head = <<>> /\ rest = <<>>
  /\ settings = <<>> /\ options = <<>> /\ arguments = <<>> /\ problem = <<>>

Name == Head(Head(left))
Joined == Len(Head(left)) = 2
IsGlobal == Name \in DOMAIN GLOBAL_OPTIONS

\* The end of the line, or "--".
AtEnd == IF left = <<>> THEN TRUE ELSE Head(left) = <<"--">>

StopHoisting ==
  /\ reading = "hoist" /\ AtEnd
  /\ reading' = "dh" /\ rest' = rest \o left
  /\ left' = head \o rest'
  /\ UNCHANGED <<line, head, settings, options, arguments, problem>>

\* An option of dh goes to the front without the value behind it.
FaultyHoistToken ==
  /\ reading = "hoist" /\ ~AtEnd
  /\ IF IsGlobal THEN head' = Append(head, Head(left)) /\ UNCHANGED rest
     ELSE rest' = Append(rest, Head(left)) /\ UNCHANGED head
  /\ left' = Tail(left)
  /\ UNCHANGED <<line, reading, settings, options, arguments, problem>>

\* A pass of the loop.
HoistToken ==
  /\ reading = "hoist" /\ ~AtEnd
  /\ LET taken == IF IsGlobal /\ ~Joined /\ GLOBAL_OPTIONS[Name] /\ Len(left) > 1 THEN 2 ELSE 1
         tokens == SubSeq(left, 1, taken)
     IN /\ IF IsGlobal THEN head' = head \o tokens /\ UNCHANGED rest
           ELSE rest' = rest \o tokens /\ UNCHANGED head
        /\ left' = SubSeq(left, taken + 1, Len(left))
  /\ UNCHANGED <<line, reading, settings, options, arguments, problem>>

-----------------------------------------------------------------------------
(* Click, as main.py uses it: a group reads its options up to the first word,  *)
(* which names the subcommand; a subcommand reads options and arguments mixed. *)

Dashed == ~AtEnd /\ Name \in OptionNames

Complain(what) ==
  /\ reading' = "usage error" /\ problem' = what
  /\ UNCHANGED <<line, left, head, rest, settings, options, arguments>>

\* One of the options known, with the value it takes.
ReadOption(known) ==
  /\ Dashed
  /\ LET valued == known[Name]
         taken == IF valued /\ ~Joined THEN 2 ELSE 1
         value == IF Joined THEN Head(left)[2]
                  ELSE IF valued THEN Head(left[2]) ELSE NoValue
         heard == <<Name, value>>
     IN IF Name \notin DOMAIN known THEN Complain(<<"no such option", Name>>)
        ELSE IF ~valued /\ Joined THEN Complain(<<"no value wanted", Name>>)
        ELSE IF taken > Len(left) THEN Complain(<<"value missing", Name>>)
        ELSE /\ IF reading = "dh" THEN settings' = Append(settings, heard) /\ UNCHANGED options
                ELSE options' = Append(options, heard) /\ UNCHANGED settings
             /\ left' = SubSeq(left, taken + 1, Len(left))
             /\ UNCHANGED <<line, reading, head, rest, arguments, problem>>

ReadGlobal == reading = "dh" /\ ReadOption(GLOBAL_OPTIONS)

\* The first word is the subcommand.
ReadCommand ==
  /\ reading = "dh" /\ ~Dashed
  /\ IF left = <<>> \/ Name \notin Commands
       THEN Complain(<<"no such command">>)
       ELSE /\ reading' = "command" /\ left' = Tail(left) /\ arguments' = <<Name>>
            /\ UNCHANGED <<line, head, rest, settings, options, problem>>

ReadOwn == reading = "command" /\ ReadOption(OwnOptions)

\* An argument; from "--" on, or at the end of the line, all that is left.
ReadArgument ==
  /\ reading = "command" /\ ~AtEnd /\ ~Dashed
  /\ arguments' = Append(arguments, Name) /\ left' = Tail(left)
  /\ UNCHANGED <<line, reading, head, rest, settings, options, problem>>

ReadLiteral ==
  /\ reading = "command" /\ AtEnd
  /\ reading' = "read"
  /\ arguments' = arguments \o [n \in 1..Len(left) - 1 |-> left[n + 1][1]]
  /\ left' = <<>>
  /\ UNCHANGED <<line, head, rest, settings, options, problem>>

HoistNext ==
  StopHoisting \/ HoistToken \/ ReadGlobal \/ ReadCommand \/ ReadOwn \/ ReadArgument \/ ReadLiteral

HoistSpec == HoistInit /\ [][HoistNext]_hoistVars

-----------------------------------------------------------------------------
\* What the user means by a line, told by the positions of its pieces: an option
\* typed behind the subcommand is the subcommand's if it has one of that name.
Arguments(typed) == {n \in 1..Len(typed.pieces) : typed.pieces[n].option = Argument}

CommandAt(typed) ==
  CHOOSE n \in Arguments(typed) : \A k \in Arguments(typed) : n <= k

Owned(typed) ==
  {n \in 1..Len(typed.pieces) : /\ n > CommandAt(typed)
                                /\ typed.pieces[n].option \in DOMAIN OwnOptions}

Settings(typed) == (1..Len(typed.pieces)) \ (Arguments(typed) \cup Owned(typed))

\* The pieces at these positions, each as <<option, value>>, in order.
Pick(typed, positions) ==
  LET picked[n \in 0..Len(typed.pieces)] ==
        IF n = 0 THEN <<>>
        ELSE picked[n - 1]
               \o IF n \in positions THEN << <<typed.pieces[n].option, typed.pieces[n].value>> >>
                  ELSE <<>>
  IN picked[Len(typed.pieces)]

Understood ==
  LET words == Pick(line, Arguments(line))
  IN /\ reading = "read"
     /\ options = Pick(line, Owned(line)) /\ settings = Pick(line, Settings(line))
     /\ arguments = [n \in 1..Len(words) |-> words[n][2]] \o line.literal

\* A subcommand is named, none of its options stands before it, and every option
\* has the value it takes.
Complete(typed) ==
  /\ Arguments(typed) # {}
  /\ typed.pieces[CommandAt(typed)].value \in Commands
  /\ \A n \in 1..CommandAt(typed) - 1 : typed.pieces[n].option \in DOMAIN GLOBAL_OPTIONS
  /\ \A n \in Owned(typed) :
       OwnOptions[typed.pieces[n].option] <=> typed.pieces[n].value # NoValue
  /\ \A n \in Settings(typed) :
       GLOBAL_OPTIONS[typed.pieces[n].option] <=> typed.pieces[n].value # NoValue

\* The subcommand has an option by the name of one of dh's.
SharesOption(typed) ==
  \E n \in Owned(typed) : typed.pieces[n].option \in DOMAIN GLOBAL_OPTIONS

\* The value of an option of the subcommand is a word by the name of one of dh's, or
\* a "--".
MasksOption(typed) ==
  \E n \in Owned(typed) :
    /\ ~typed.pieces[n].joined
    /\ typed.pieces[n].value \in DOMAIN GLOBAL_OPTIONS \cup {"--"}

\* A complete line is read as it is meant, wherever the options of dh stand in it and
\* whatever follows a "--": each option reaches dh or the subcommand with its own
\* value, and the arguments keep their order (main.py 162-204, and Click's reading of
\* the result).  Left out are lines on which the subcommand has an option of the same
\* name, or is given dh's option or a "--" for a value.
HoistedAsMeant ==
  /\ reading \in {"read", "usage error"}
  /\ Complete(line) /\ ~SharesOption(line) /\ ~MasksOption(line)
  => Understood

-----------------------------------------------------------------------------
(* What the repository says and the code does not do: TLC finds it violated.  *)

\* dh worksheet create --catalog: "Active catalog for unqualified names."
\* (saved.py 294).  An option of the subcommand's that is typed behind it reaches the
\* subcommand.
OptionHeard ==
  reading = "read" /\ Complete(line) /\ ~MasksOption(line) => options = Pick(line, Owned(line))

\* "No value follows; hand it to Click so it reports the real problem." (main.py
\* 200): an option of dh at the end of the line, its value missing, is the complaint.
LackReported ==
  LET last == line.pieces[Len(line.pieces)]
  IN /\ reading = "usage error" /\ line.literal = <<>>
     /\ last.option \in DOMAIN GLOBAL_OPTIONS \ DOMAIN OwnOptions
     /\ GLOBAL_OPTIONS[last.option] /\ last.value = NoValue
     => problem = <<"value missing", last.option>>
=============================================================================
