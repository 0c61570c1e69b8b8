-------------------------------- MODULE Access --------------------------------
(***************************************************************************)
(* Who may use the API: cmd/admin creates organizations, workspaces and    *)
(* keys and revokes keys, while withAuth (internal/server/server.go) looks *)
(* up the key of each request and asks the rate limiter of its workspace.  *)
(*                                                                         *)
(* No command and no request uses a transaction: commands and requests     *)
(* interleave between their statements, and a statement can fail.          *)
(***************************************************************************)
EXTENDS RateLimiter

CONSTANTS
  Orgs,         \* identifiers of organizations (uuid.New)
  Keys,         \* identifiers of API keys, each with its token
  Admins,       \* the admin commands that can run together
  NoId          \* an identifier that is not given

ASSUME AccessAssumption == NoId \notin Orgs \cup Workspaces \cup Keys

VARIABLES
  orgs,         \* the rows of organizations
  home,         \* home[w]: the organization of the row of workspace w
  keys,         \* the rows of api_keys: keys[k], NoRow when there is none
  audits,       \* the rows of audit_logs, with the key each is about
  command,      \* command[a]: what admin command a has left to do
  request,      \* request[c]: how far withAuth is with request c
  printed       \* history: the keys whose token a command has printed

adminVars  == <<orgs, home, keys, audits, command, printed>>
accessVars == <<vars, adminVars, request>>

\* What a command does, and to which rows.
NoCommand == [does |-> "create", todo |-> <<>>, org |-> NoId, ws |-> NoId, key |-> NoId]
NoRow     == [ws |-> NoId, revoked |-> FALSE]
NoRequest == [st |-> "none", key |-> NoId, late |-> FALSE]

AccessInit ==
  /\ Init
  /\ orgs = {}
  /\ home = [w \in Workspaces |-> NoId]
  /\ keys = [k \in Keys |-> NoRow]
  /\ audits = {}
  /\ command = [a \in Admins |-> NoCommand]
  /\ request = [c \in Callers |-> NoRequest]
  /\ printed = {}

------------------------------------------------------------------------------
(***************************************************************************)
(* cmd/admin.  A command has a list of statements to execute, and its      *)
(* process can die between any two of them.                                *)
(***************************************************************************)

\* Mutant of CreateKey: the audit entry is written first.
AuditFirst == <<"audit", "key">>

CreateKey == <<"key", "audit">>
CreateAll == <<"org", "workspace", "key", "audit">>

\* uuid.New gives an identifier no row and no command has.
FreeOrg(o) == o \notin orgs /\ \A a \in Admins : command[a].org # o
FreeWs(w)  == home[w] = NoId /\ \A a \in Admins : command[a].ws # w
FreeKey(k) == keys[k] = NoRow /\ \A a \in Admins : command[a].key # k

Begin(a, does, todo, o, w, k) ==
  /\ command[a] = NoCommand
  /\ command' = [command EXCEPT ![a] =
       [does |-> does, todo |-> todo, org |-> o, ws |-> w, key |-> k]]
  /\ UNCHANGED <<vars, orgs, home, keys, audits, request, printed>>

\* create-org, create-workspace, create-api-key and create-all: what one of
\* them does not create is given, and need not exist.
BeginCreate(a) ==
  \/ \E o \in Orgs : FreeOrg(o) /\ Begin(a, "create", <<"org">>, o, NoId, NoId)
  \/ \E o \in Orgs, w \in Workspaces :
       FreeWs(w) /\ Begin(a, "create", <<"workspace">>, o, w, NoId)
  \/ \E w \in Workspaces, k \in Keys :
       FreeKey(k) /\ Begin(a, "create", CreateKey, NoId, w, k)
  \/ \E o \in Orgs, w \in Workspaces, k \in Keys :
       /\ FreeOrg(o) /\ FreeWs(w) /\ FreeKey(k)
       /\ Begin(a, "create", CreateAll, o, w, k)

\* revoke-api-key of a key there is, or of an identifier no key has (NoId),
\* with a workspace for the audit entry or without.
BeginRevoke(a) ==
  \E k \in Keys \cup {NoId} :
    /\ k # NoId => keys[k] # NoRow
    /\ \/ Begin(a, "revoke", <<"revoke">>, NoId, NoId, k)
       \/ \E w \in Workspaces : Begin(a, "revoke", <<"revoke", "audit">>, NoId, w, k)

AtStep(a, step) == command[a].todo # <<>> /\ Head(command[a].todo) = step

\* The command goes on; after its last statement it prints what it made.
Advance(a) ==
  IF Len(command[a].todo) > 1
  THEN /\ command' = [command EXCEPT ![a].todo = Tail(@)]
       /\ UNCHANGED printed
  ELSE /\ command' = [command EXCEPT ![a] = NoCommand]
       /\ printed' = IF command[a].does = "create" /\ command[a].key # NoId
                     THEN printed \cup {command[a].key} ELSE printed

InsertOrg(a) ==
  /\ AtStep(a, "org")
  /\ orgs' = orgs \cup {command[a].org}
  /\ Advance(a)
  /\ UNCHANGED <<vars, home, keys, audits, request>>

\* Mutant of InsertWorkspace: the workspace is its own organization.
InsertHomelessWorkspace(a) ==
  /\ AtStep(a, "workspace")
  /\ home' = [home EXCEPT ![command[a].ws] = command[a].ws]
  /\ Advance(a)
  /\ UNCHANGED <<vars, orgs, keys, audits, request>>

\* A workspace refers to an organization, and a key to a workspace.
InsertWorkspace(a) ==
  /\ AtStep(a, "workspace")
  /\ command[a].org \in orgs
  /\ home' = [home EXCEPT ![command[a].ws] = command[a].org]
  /\ Advance(a)
  /\ UNCHANGED <<vars, orgs, keys, audits, request>>

\* Mutant of InsertKey: its error is ignored, as that of the audit entry is.
InsertKeyOrNot(a) ==
  /\ AtStep(a, "key")
  /\ keys' = IF home[command[a].ws] = NoId THEN keys
             ELSE [keys EXCEPT ![command[a].key] = [ws |-> command[a].ws, revoked |-> FALSE]]
  /\ Advance(a)
  /\ UNCHANGED <<vars, orgs, home, audits, request>>

InsertKey(a) ==
  /\ AtStep(a, "key")
  /\ home[command[a].ws] # NoId
  /\ keys' = [keys EXCEPT ![command[a].key] = [ws |-> command[a].ws, revoked |-> FALSE]]
  /\ Advance(a)
  /\ UNCHANGED <<vars, orgs, home, audits, request>>

\* update api_keys set revoked_at = now() where id = ... and revoked_at is
\* null: without such a row nothing is changed, and the command goes on.
RevokeKey(a) ==
  /\ AtStep(a, "revoke")
  /\ keys' = [k \in Keys |->
               IF k = command[a].key THEN [keys[k] EXCEPT !.revoked = TRUE] ELSE keys[k]]
  /\ Advance(a)
  /\ UNCHANGED <<vars, orgs, home, audits, request>>

\* The entry names the workspace the command was given, which need not exist,
\* and not the key (that is history here).
AddAudit(a) ==
  /\ AtStep(a, "audit")
  /\ audits' = audits \cup
       {[ws |-> command[a].ws, does |-> command[a].does, key |-> command[a].key]}
  /\ Advance(a)
  /\ UNCHANGED <<vars, orgs, home, keys, request>>

\* The error of the audit entry is ignored.
AuditFails(a) ==
  /\ AtStep(a, "audit")
  /\ Advance(a)
  /\ UNCHANGED <<vars, orgs, home, keys, audits, request>>

\* Any other statement that fails ends the command, and so does a signal;
\* the rows it has made stay.
EndCommand(a) ==
  /\ command[a] # NoCommand
  /\ command' = [command EXCEPT ![a] = NoCommand]
  /\ UNCHANGED <<vars, orgs, home, keys, audits, request, printed>>

Admin(a) ==
  \/ BeginCreate(a) \/ BeginRevoke(a)
  \/ InsertOrg(a) \/ InsertWorkspace(a) \/ InsertKey(a) \/ RevokeKey(a)
  \/ AddAudit(a) \/ AuditFails(a) \/ EndCommand(a)

------------------------------------------------------------------------------
(***************************************************************************)
(* withAuth.                                                               *)
(***************************************************************************)

KeyOf(c) == request[c].key

Becomes(c, st) == request' = [request EXCEPT ![c].st = st]
Answer(c)      == request' = [request EXCEPT ![c] = NoRequest]

\* A request with the token of key k, which may not exist (yet).
Arrive(c, k) ==
  /\ request[c] = NoRequest
  /\ request' = [request EXCEPT ![c] =
                   [st |-> "sent", key |-> k, late |-> keys[k].revoked]]
  /\ UNCHANGED <<vars, adminVars>>

\* Mutant of Valid: revoked_at is not looked at.
ValidOnce(k) == keys[k] # NoRow

\* select workspace_id from api_keys where ... and revoked_at is null
Valid(k) == keys[k] # NoRow /\ ~keys[k].revoked

LookUp(c) ==
  /\ request[c].st = "sent"
  /\ Valid(KeyOf(c))
  /\ Becomes(c, "found")
  /\ UNCHANGED <<vars, adminVars>>

\* Status 403, or 500 when the query fails.
Reject(c) ==
  /\ request[c].st = "sent"
  /\ Answer(c)
  /\ UNCHANGED <<vars, adminVars>>

\* last_used_at is set (it is only listed, and not modelled); whether the key
\* is still good is not looked at again.  Then the limiter is asked.
AskLimiter(c) ==
  /\ request[c].st = "found"
  /\ ReadClock(c, keys[KeyOf(c)].ws)
  /\ Becomes(c, "asking")
  /\ UNCHANGED adminVars

\* The handler of the endpoint runs, or the status is 429.
Decide(c) ==
  /\ request[c].st = "asking"
  /\ Admit(c) \/ Deny(c)
  /\ Answer(c)
  /\ UNCHANGED adminVars

Serve(c) ==
  \/ \E k \in Keys : Arrive(c, k)
  \/ LookUp(c) \/ Reject(c) \/ AskLimiter(c) \/ Decide(c)

------------------------------------------------------------------------------
AccessNext ==
  \/ \E a \in Admins : Admin(a)
  \/ \E c \in Callers : Serve(c)
  \/ Tick /\ UNCHANGED <<adminVars, request>>

AccessSpec == AccessInit /\ [][AccessNext]_accessVars

------------------------------------------------------------------------------
(***************************************************************************)
(* Properties, besides those of RateLimiter.                               *)
(***************************************************************************)

\* Type invariant.
AccessTypeOK ==
  /\ orgs \subseteq Orgs
  /\ home \in [Workspaces -> Orgs \cup {NoId}]
  /\ keys \in [Keys -> [ws : Workspaces \cup {NoId}, revoked : BOOLEAN]]
  /\ audits \subseteq
       [ws : Workspaces, does : {"create", "revoke"}, key : Keys \cup {NoId}]
  /\ command \in [Admins ->
       [does : {"create", "revoke"},
        todo : Seq({"org", "workspace", "key", "revoke", "audit"}),
        org : Orgs \cup {NoId}, ws : Workspaces \cup {NoId}, key : Keys \cup {NoId}]]
  /\ request \in [Callers ->
       [st : {"none", "sent", "found", "asking"}, key : Keys \cup {NoId}, late : BOOLEAN]]
  /\ printed \subseteq Keys

\* No request that arrives after its key was revoked gets past withAuth, and
\* none that did spends a token of the workspace; a request let in before the
\* revocation runs to its end.
RevokedIsShutOut ==
  \A c \in Callers : request[c].late => request[c].st = "sent" /\ asking[c] = NotAsking

\* The token a command prints is good until a command revokes it: it has its
\* key, its workspace and its organization, whichever commands ran beside it
\* and wherever they ended.
PrintedIsGood ==
  \A k \in printed :
    /\ keys[k] # NoRow
    /\ home[keys[k].ws] \in orgs

\* The workspace that entry e names has the key e is about.
HasKey(e) ==
  /\ e.key \in Keys
  /\ keys[e.key] # NoRow
  /\ keys[e.key].ws = e.ws

\* "api_key_created" (cmd/admin/main.go:90, 116) is only said in a workspace
\* that has got that key, wherever a command fails or ends, and whatever other
\* commands create and revoke beside it.  (Of "api_key_revoked", :161, the same
\* does not hold: it is said of whatever revoke-api-key was given, an
\* identifier that is no key's and a workspace that is not the key's included.)
CreationsAreTrue == \A e \in audits : e.does = "create" => HasKey(e)

==============================================================================
