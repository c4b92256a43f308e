---------------------------- MODULE CommandTable ----------------------------
(***************************************************************************)
(* What each dh command does before its one request, and what it sends, in *)
(* the order of its source.  A command is the record of its function:      *)
(*                                                                         *)
(*   asks    it confirms first (context.confirm)                           *)
(*   steps   "password"   a password that is prompted for, at a terminal   *)
(*                        or not, when no option gives it                  *)
(*           "arguments"  a local check of its options (ConflictError)     *)
(*           "read"       cli.settings(), or cli.client() without settings *)
(*           "host"       the client: host and token are required          *)
(*           "workspace"  settings.require('workspace')                    *)
(*           "catalog"    resolve_catalog                                  *)
(*           "version"    the version that --base-version must carry       *)
(*           "principal"  a name is looked up in the grants                *)
(*           "probe"      a GET whose failure is only reported             *)
(*   sends   the method of the request, "PAGES" for a list that --all may  *)
(*           walk, "none"                                                  *)
(*   prints  the answer goes through cli.emit                              *)
(*                                                                         *)
(* Commands with the same record are one member of their set: a path, a    *)
(* body and an option that is only passed on are left out.                 *)
(***************************************************************************)
EXTENDS Sequences

Do(steps, method) ==
  [asks |-> FALSE, steps |-> steps, sends |-> method, prints |-> TRUE]
Quiet(cmd) == [cmd EXCEPT !.prints = FALSE]
Asked(cmd) == [cmd EXCEPT !.asks = TRUE]
Remove(steps) == Quiet(Do(steps, "DELETE"))

Deployment == <<"read", "host">>
InWorkspace == Deployment \o <<"workspace">>
\* The path is built before the client.
WorkspaceFirst == <<"read", "workspace", "host">>
\* cli.settings() for the path, then _paged opens a client that reads again.
ReadTwice == <<"read", "workspace", "read", "host">>
InCatalog == Deployment \o <<"catalog", "workspace">>
InTable == Deployment \o <<"arguments", "catalog", "workspace">>

-----------------------------------------------------------------------------
(* catalog.py *)

\* workspace list, get (its own or the configured one), create, update (an
\* argument or the configured one), delete; member list, add; agent list, runtimes
WorkspaceCommands ==
  { Do(Deployment, "GET"), Do(InWorkspace, "GET"), Do(Deployment, "POST"),
    Do(<<"read", "arguments", "host">>, "PATCH"),
    Do(<<"read", "arguments", "host", "workspace">>, "PATCH"),
    Asked(Remove(Deployment)), Do(InWorkspace, "POST") }

\* catalog list (--all leaves the workspace out), create, kinds, rotate-role
CatalogCommands ==
  { Do(Deployment, "GET"), Do(InWorkspace, "GET"), Do(InWorkspace, "POST"),
    Asked(Do(Deployment, "POST")) }

\* catalog export list, create, cancel
ExportCommands ==
  { Do(Deployment, "PAGES"), Do(InWorkspace, "POST"), Do(Deployment, "POST") }

\* catalog attach, detach, drop, refresh-stats
AttachmentCommands ==
  { Do(InWorkspace, "PUT"), Asked(Remove(InWorkspace)), Asked(Remove(Deployment)),
    Do(InCatalog, "POST") }

\* schema list, create, drop
SchemaCommands ==
  { Do(InCatalog, "GET"), Do(InCatalog, "POST"), Asked(Remove(InCatalog)) }

\* table list, get and its parts; create (columns and name are read first);
\* drop; recount.  split_ref refuses a bad reference when the path is built.
TableCommands ==
  { Do(InTable, "GET"), Do(<<"read", "arguments", "host", "catalog", "workspace">>, "POST"),
    Asked(Remove(InTable)), Do(InTable, "POST") }

-----------------------------------------------------------------------------
(* admin.py: nothing here needs a workspace, and only apply asks. *)

\* service-account list, create, update, delete; pat issue, list, revoke
AccountCommands ==
  { Do(Deployment, m) : m \in {"PAGES", "POST", "PATCH", "GET"} } \cup { Remove(Deployment) }

\* user create: typer asks for the password before the function runs.
CreateUser == Do(<<"password">> \o Deployment, "POST")

\* user list, create, update, revoke-sessions, workspaces, set-workspace-role,
\* remove-from-workspace
UserCommands ==
  { Do(Deployment, m) : m \in {"PAGES", "PATCH", "GET", "PUT"} }
    \cup { CreateUser, Quiet(Do(Deployment, "POST")), Remove(Deployment) }

\* agent list, get, bootstrap, elastic-create, compute-options, metrics,
\* monitoring (its range is checked first), queries, access
AgentCommands ==
  { Do(Deployment, m) : m \in {"GET", "POST", "PAGES"} }
    \cup { Do(<<"arguments">> \o Deployment, "GET") }

\* agent restart, terminate, disconnect; delete, revoke-credential
AgentLifecycle == { Do(Deployment, "POST"), Remove(Deployment) }

\* storage list, health; maintenance policy, scan, recommendations, apply;
\* catalog reconcile-roles
UpkeepCommands ==
  { Do(Deployment, m) : m \in {"GET", "POST", "PAGES"} } \cup { Asked(Do(Deployment, "POST")) }

-----------------------------------------------------------------------------
(* saved.py *)

\* saved-query list, create (the SQL exactly one way), update, delete
SavedQueryCommands ==
  { Do(ReadTwice, "PAGES"), Do(<<"read", "arguments", "host", "workspace">>, "POST"),
    Do(<<"read", "arguments", "workspace", "host">>, "PATCH"), Remove(WorkspaceFirst) }

\* schedule list, create, update, delete, runs
ScheduleCommands ==
  { Do(ReadTwice, "PAGES"), Do(InWorkspace, "POST"),
    Do(<<"read", "arguments", "workspace", "host">>, "PATCH"), Remove(InWorkspace) }

SearchCommand == { Do(InWorkspace, "GET") }

\* worksheet list, get, create, update (metadata needs no version; the title and
\* the SQL do), delete
UpdateWorksheet == Do(<<"read", "arguments", "version", "workspace", "host">>, "PATCH")
WorksheetCommands ==
  { Do(ReadTwice, "PAGES"), Do(InWorkspace, "GET"),
    Do(<<"read", "arguments", "host", "workspace">>, "POST"),
    Do(<<"read", "arguments", "workspace", "host">>, "PATCH"), UpdateWorksheet,
    Asked(Remove(InWorkspace)) }

-----------------------------------------------------------------------------
(* grant.py, dbt.py *)

\* grant list, set (table needs schema; the principal by id, email or name),
\* remove, access-mode
GrantCommands ==
  { Do(InCatalog, "GET"), Do(<<"arguments">> \o InCatalog \o <<"principal">>, "PUT"),
    Remove(InCatalog), Do(<<"arguments">> \o InCatalog, "PATCH") }

\* lineage import, import-edges (the artifact is JSON), purge
LineageCommands ==
  { Do(<<"read", "arguments", "workspace", "host">>, "POST"),
    Asked(Do(WorkspaceFirst, "DELETE")) }

\* semantic import, purge; model list, get; validate, publish, deprecate;
\* relationship add (its join pairs), remove
SemanticCommands ==
  { Do(WorkspaceFirst, "POST"), Asked(Remove(WorkspaceFirst)), Do(InWorkspace, "GET"),
    Do(<<"read", "arguments", "workspace", "host">>, "POST"), Remove(WorkspaceFirst) }

-----------------------------------------------------------------------------
(* api.py, health.py, query.py, session.py *)

\* Every verb; the body and the parameters are read once the client exists.
ApiCommands ==
  { Do(Deployment \o <<"arguments">>, m) : m \in {"GET", "POST", "PUT", "PATCH", "DELETE"} }

\* health: three probes, and one of the workspace if there is one.  version: one
\* probe, if there are a host and a token.
HealthCommands ==
  { Do(Deployment \o <<"probe", "probe", "probe", "probe">>, "none"),
    Do(<<"read", "probe">>, "none") }

\* query profile, cancel, list
QueryLogCommands ==
  { Do(Deployment, "GET"), Remove(Deployment), Do(WorkspaceFirst, "PAGES") }

\* session list, get, close
SessionListing ==
  { Do(WorkspaceFirst, "PAGES"), Do(Deployment, "GET"), Remove(Deployment) }
\* session statements
SessionStatements == { Do(Deployment, "PAGES") }

Commands ==
  UNION { WorkspaceCommands, CatalogCommands, ExportCommands, AttachmentCommands,
          SchemaCommands, TableCommands, AccountCommands, UserCommands, AgentCommands,
          AgentLifecycle, UpkeepCommands, SavedQueryCommands, ScheduleCommands,
          SearchCommand, WorksheetCommands, GrantCommands, LineageCommands,
          SemanticCommands, ApiCommands, HealthCommands, QueryLogCommands,
          SessionListing, SessionStatements }
=============================================================================
