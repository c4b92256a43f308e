-------------------------- MODULE MetadataListing ---------------------------
(***************************************************************************)
(* Cursor.schemas and Cursor.tables of the SQL connector (_metadata.py): the *)
(* listing is put together from one request for the catalogs, one for the    *)
(* schemas of each and one for the tables of each schema, while others       *)
(* create and drop them, and the names are filtered here, by the glob a LIKE *)
(* pattern is turned into.                                                  *)
(*                                                                         *)
(* Names and patterns are sequences of characters.  The order of the        *)
(* requests, by name, is left open.                                         *)
(*                                                                         *)
(* An operator named Faulty... is its neighbour with one plausible bug; no  *)
(* action uses it.  It shows that a property would notice the bug.         *)
(***************************************************************************)
EXTENDS Naturals, Sequences

CONSTANTS Catalogs,    \* the workspace's catalogs
          Letters,     \* bound: the characters of names and patterns
          Universe,    \* bound: the schemas, <<catalog, name>>, that come and go
          Names,       \* bound: the names of tables
          Calls,       \* bound: the calls made, their patterns included
          Any,         \* no catalog, or no pattern, given
          MaxChanges   \* bound: schemas and tables created or dropped meanwhile

ASSUME UniverseAssumption ==
  /\ Universe \subseteq Catalogs \X Seq(Letters)
  /\ Names \subseteq Seq(Letters) /\ Any \notin Catalogs /\ MaxChanges \in Nat
  /\ Calls \subseteq [what : {"schemas", "tables"}, catalog : Catalogs \cup {Any},
                      schema : Seq(Letters) \cup {Any}, table : Seq(Letters) \cup {Any}]

VARIABLES
  schemas, tables,   \* what there is: <<catalog, schema>>, <<schema, name>>
  changes,           \* schemas and tables created or dropped so far
  of,                \* the call: "schemas" or "tables", the catalog, the patterns
  stage,             \* "catalogs" | "schemas" | "tables" | "returned" | "raised"
  unasked,              \* the catalogs, then the schemas, still to be asked for
  foundSchemas, foundTables,
  throughout, ever   \* history: the tables that were there all along, or at some time

listingVars == <<schemas, tables, changes, of, stage, unasked, foundSchemas, foundTables,
                 throughout, ever>>

ListingInit ==
  /\ schemas \in SUBSET Universe /\ tables = schemas \X Names
  /\ changes = 0
  /\ of \in Calls
  /\ stage = "catalogs" /\ unasked = {} /\ foundSchemas = {} /\ foundTables = {}
  /\ throughout = tables /\ ever = tables

-----------------------------------------------------------------------------
\* The bracket of a pattern is not escaped.
FaultyGlobOf(c) == CASE c = "%" -> <<"*">> [] c = "_" -> <<"?">> [] OTHER -> <<c>>

\* What a character of the pattern becomes in the glob.
GlobOf(c) == CASE c = "[" -> <<"[", "[", "]">> [] c = "%" -> <<"*">> [] c = "_" -> <<"?">>
               [] OTHER -> <<c>>

Glob(pattern) ==
  LET glob[n \in 0..Len(pattern)] ==
        IF n = 0 THEN <<>> ELSE glob[n - 1] \o GlobOf(pattern[n])
  IN glob[Len(pattern)]

\* fnmatch: the place of the bracket that closes the class begun at n, 0 if none
\* does.  The first character of a class may be the bracket itself.
Closing(glob, n) ==
  LET ends == {k \in n + 2..Len(glob) : glob[k] = "]"}
  IN IF ends = {} THEN 0 ELSE CHOOSE k \in ends : \A j \in ends : k <= j

\* fnmatch.translate and re.match: the places in the name from which on it fits the
\* glob from m on.
GlobPlaces(glob, name) ==
  LET places[m \in 1..Len(glob) + 1] ==
        IF m > Len(glob) THEN {Len(name) + 1}
        ELSE IF glob[m] = "*" THEN {n \in 1..Len(name) + 1 : \E k \in places[m + 1] : n <= k}
        ELSE IF glob[m] = "[" /\ Closing(glob, m) # 0
          THEN {n \in 1..Len(name) :
                  /\ \E k \in m + 1..Closing(glob, m) - 1 : glob[k] = name[n]
                  /\ n + 1 \in places[Closing(glob, m) + 1]}
        ELSE {n \in 1..Len(name) : glob[m] \in {"?", name[n]} /\ n + 1 \in places[m + 1]}
  IN places

FitsGlob(glob, name) == 1 \in GlobPlaces(glob, name)[1]

\* _like_match.
Matches(name, pattern) == pattern = Any \/ FitsGlob(Glob(pattern), name)

-----------------------------------------------------------------------------
\* _catalog_slugs: a catalog that is named is not looked up.
AskCatalogs ==
  /\ stage = "catalogs"
  /\ stage' = "schemas"
  /\ unasked' = IF of.catalog = Any THEN Catalogs ELSE {of.catalog}
  /\ UNCHANGED <<schemas, tables, changes, of, foundSchemas, foundTables, throughout, ever>>

\* fetch_schemas: one request a catalog.
AskSchemas(c) ==
  /\ stage = "schemas" /\ c \in unasked
  /\ foundSchemas' = foundSchemas \cup {s \in schemas : s[1] = c /\ Matches(s[2], of.schema)}
  /\ IF unasked # {c} THEN unasked' = unasked \ {c} /\ UNCHANGED stage
     ELSE /\ unasked' = IF of.what = "tables" THEN foundSchemas' ELSE {}
          /\ stage' = IF unasked' = {} THEN "returned" ELSE "tables"
  /\ UNCHANGED <<schemas, tables, changes, of, foundTables, throughout, ever>>

\* fetch_tables: one more a schema.  A schema that is gone by now is a 404, and
\* the whole listing raises.
AskTables(s) ==
  /\ stage = "tables" /\ s \in unasked
  /\ IF s \in schemas
       THEN /\ foundTables' = foundTables \cup {t \in tables : t[1] = s /\ Matches(t[2], of.table)}
            /\ unasked' = unasked \ {s}
            /\ stage' = IF unasked' = {} THEN "returned" ELSE "tables"
       ELSE stage' = "raised" /\ UNCHANGED <<foundTables, unasked>>
  /\ UNCHANGED <<schemas, tables, changes, of, foundSchemas, throughout, ever>>

\* A request fails, its retries included.
AskFails ==
  /\ stage \in {"catalogs", "schemas", "tables"}
  /\ stage' = "raised"
  /\ UNCHANGED <<schemas, tables, changes, of, unasked, foundSchemas, foundTables, throughout, ever>>

-----------------------------------------------------------------------------
\* Somebody else creates or drops a schema or a table.
Change ==
  /\ changes < MaxChanges /\ stage \notin {"returned", "raised"}
  /\ changes' = changes + 1
  /\ \/ \E s \in Universe \ schemas : schemas' = schemas \cup {s} /\ UNCHANGED tables
     \/ \E s \in schemas : /\ schemas' = schemas \ {s}
                           /\ tables' = {t \in tables : t[1] # s}
     \/ \E t \in (schemas \X Names) \ tables : tables' = tables \cup {t} /\ UNCHANGED schemas
     \/ \E t \in tables : tables' = tables \ {t} /\ UNCHANGED schemas
  /\ throughout' = throughout \cap tables' /\ ever' = ever \cup tables'
  /\ UNCHANGED <<of, stage, unasked, foundSchemas, foundTables>>

ListingNext ==
  \/ AskCatalogs
  \/ (\E c \in Catalogs : AskSchemas(c)) \/ (\E s \in Universe : AskTables(s)) \/ AskFails
  \/ Change

ListingSpec == ListingInit /\ [][ListingNext]_listingVars

-----------------------------------------------------------------------------
\* SQL's LIKE: the places in the name from which on it fits the pattern from m on.
LikePlaces(pattern, name) ==
  LET places[m \in 1..Len(pattern) + 1] ==
        IF m > Len(pattern) THEN {Len(name) + 1}
        ELSE IF pattern[m] = "%" THEN {n \in 1..Len(name) + 1 : \E k \in places[m + 1] : n <= k}
        ELSE {n \in 1..Len(name) : pattern[m] \in {"_", name[n]} /\ n + 1 \in places[m + 1]}
  IN places

Like(name, pattern) == pattern = Any \/ 1 \in LikePlaces(pattern, name)[1]

\* The tables the caller means.
Meant(ts) == {t \in ts : /\ of.catalog \in {Any, t[1][1]}
                         /\ Like(t[1][2], of.schema) /\ Like(t[2], of.table)}

\* The characters that mean something to a glob and nothing to LIKE.
GlobOnly == {"*", "?"}
HasGlobOnly ==
  \E p \in {of.schema, of.table} \ {Any} : \E n \in 1..Len(p) : p[n] \in GlobOnly

Exact == Meant(throughout) \subseteq foundTables /\ foundTables \subseteq Meant(ever)

\* A listing that returns has every table that was there all along and matches, and
\* none that was never there or does not match, whatever is created and dropped
\* between its requests (_metadata.py 39-104), unless a pattern holds a character of
\* the glob's own.
ListingExact ==
  stage = "returned" /\ of.what = "tables" /\ ~HasGlobOnly => Exact

-----------------------------------------------------------------------------
\* What the repository says and the code does not do: TLC finds it violated.

\* "`schema`/`table`/`column` are `LIKE` patterns, matching the DB-API convention"
\* (_metadata.py 18-19), whatever characters they hold.
ListingIsLike == stage = "returned" /\ of.what = "tables" => Exact
=============================================================================
