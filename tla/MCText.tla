------------------------------- MODULE MCText -------------------------------
(***************************************************************************)
(* The pieces of the packages that only read and write text, on small       *)
(* instances: the parameters of a statement, the patterns of a listing and   *)
(* the command line of dh.  They never meet; a behaviour is of one of them,  *)
(* and the variables of the others rest.                                    *)
(***************************************************************************)
EXTENDS ParameterBinding, MetadataListing, OptionHoist

\* Words over S of up to n characters.
Spell(S, n) == UNION {[1..k -> S] : k \in 0..n}

(* Each character the scanner knows next to each, and the few that make comments  *)
(* and strings in longer texts.                                                  *)
MCAlphabet == {"'", "\"", "-", "/", "*", "?", "\n", "a", "1"}
MCTexts == Spell(MCAlphabet \ {"1"}, 4)
             \cup Spell({"/", "*", "?"}, 7)
             \cup Spell({"'", "\"", "?"}, 6) \cup Spell({"-", "\n", "?"}, 6)

Negative == [kind |-> "plain", chars |-> <<"-", "1">>]
Quoting == [kind |-> "text", chars |-> <<"'", "?">>]
MCParameters == {<<>>, <<Negative>>, <<Quoting>>, <<Negative, Quoting>>}

MCLetters == {"a", "[", "]", "%", "_", "*"}
MCUniverse == {<<"c1", <<"a">> >>, <<"c2", <<"a", "_">> >>}
MCNames == {<<"a">>, <<"[", "a">>, <<"[", "a", "]">>, <<"a", "*">>}
MCPatterns == Spell({"a", "[", "]", "%", "_"}, 3) \cup {<<"a", "*">>, Any}
MCCalls ==
  [what : {"tables", "schemas"}, catalog : {Any, "c1"},
   schema : {Any, <<"a">>, <<"a", "_">>, <<"%", "_">>}, table : {Any}]
  \cup [what : {"tables"}, catalog : {Any}, schema : {Any, <<"%", "_">>}, table : MCPatterns]

MCWords == {"create", "x", "--debug", "--"}

(* Of dh's options one with a value, one without and one that the subcommand has *)
(* too; of the subcommand's likewise.                                           *)
MCGlobalOptions ==
  [o \in {"--host", "--debug", "--catalog"} |-> o # "--debug"]
MCOwnOptions == [o \in {"--title", "--closed", "--catalog"} |-> o # "--closed"]

Pieces ==
  [option : {Argument}, value : {"create", "x"}, joined : {FALSE}]
  \cup [option : {"--debug", "--closed"}, value : {NoValue}, joined : {FALSE}]
  \cup [option : {"--debug", "--closed"}, value : {"x"}, joined : {TRUE}]
  \cup [option : {"--host", "--catalog", "--title"}, value : {"x", "--debug", "--"}, joined : BOOLEAN]

(* A line has a word, the last option may lack its value, and a word that follows *)
(* "--" may look like an option.                                                *)
MCLines ==
  LET Typeable(p) == \E n \in 1..Len(p) : p[n].option = Argument
      whole == UNION {[1..k -> Pieces] : k \in 1..3}
      cut == {Append(p, [option |-> "--host", value |-> NoValue, joined |-> FALSE]) :
                p \in UNION {[1..k -> Pieces] : k \in 1..2}}
  IN [pieces : {p \in whole : Typeable(p)}, literal : {<<>>, <<"--debug", "x">>}]
     \cup [pieces : {p \in cut : Typeable(p)}, literal : {<<>>}]

-----------------------------------------------------------------------------
BindingRests ==
  /\ sql = <<>> /\ parameters = <<>> /\ at = 1 /\ out = <<>> /\ bound = 0
  /\ scan = "not called"
ListingRests ==
  /\ schemas = {} /\ tables = {} /\ changes = 0
  /\ of = [what |-> "schemas", catalog |-> Any, schema |-> Any, table |-> Any]
  /\ stage = "not called" /\ unasked = {} /\ foundSchemas = {} /\ foundTables = {}
  /\ throughout = {} /\ ever = {}
HoistRests ==
  /\ line = [pieces |-> <<>>, literal |-> <<>>] /\ reading = "not called"
  /\ left = <<>> /\ head = <<>> /\ rest = <<>>
  /\ settings = <<>> /\ options = <<>> /\ arguments = <<>> /\ problem = <<>>

MCInit ==
  \/ BindingInit /\ ListingRests /\ HoistRests
  \/ ListingInit /\ BindingRests /\ HoistRests
  \/ HoistInit /\ BindingRests /\ ListingRests

MCNext ==
  \/ BindingNext /\ UNCHANGED <<listingVars, hoistVars>>
  \/ stage # "not called" /\ ListingNext /\ UNCHANGED <<bindingVars, hoistVars>>
  \/ HoistNext /\ UNCHANGED <<bindingVars, listingVars>>

MCSpec == MCInit /\ [][MCNext]_<<bindingVars, listingVars, hoistVars>>
=============================================================================
