------------------------------ MODULE AuthTokens ------------------------------
(***************************************************************************)
(* API tokens and the web sessions opened with them: the administrator's   *)
(* create, update and delete, each followed by ReloadAuthTokens, which     *)
(* lists the database, replaces the map under the lock and then revokes    *)
(* the sessions of tokens that left it; RequireAPIAuth, which reads the    *)
(* map and evicts an expired token in a later step; login, logout, the     *)
(* check of a session, and the restart.                                    *)
(*                                                                         *)
(* A token row is active or not and has an expiry: never, or a time that   *)
(* passes once.  excused and ended are history variables.                  *)
(***************************************************************************)
EXTENDS Naturals, FiniteSets

CONSTANTS
    Tokens,      \* token identities: row id and hash
    Admins,      \* administrator requests in flight
    Clients,     \* API and console requests in flight
    Sessions,    \* web sessions, each opened once
    MaxWrites,   \* bound: token writes
    MaxErrors,   \* bound: store calls that fail
    MaxRestarts, \* bound: restarts
    None

VARIABLES
    row,       \* auth_tokens
    issued,    \* identities used
    passed,    \* the expiry time has passed
    map,       \* authTokens, authTokenIDs, authTokenHashes: token -> expiry, None = not there
    admin,     \* administrator handlers
    client,    \* request goroutines
    login,     \* progress of a session's login and the token it is bound to
    mem,       \* validTokens
    db,        \* web_sessions
    excused,   \* history: the map may differ from the rows
    ended,     \* history: sessions ended in memory and in the database
    writes, errors, restarts

tokenVars == <<row, issued, passed>>
sessionVars == <<login, mem, db, ended>>
bounds == <<writes, errors, restarts>>
authVars == <<tokenVars, map, admin, client, sessionVars, excused, bounds>>

Expiries == {"never", "soon"}
TokenRows == [active : BOOLEAN, exp : Expiries]
IdleAdmin == [at |-> "idle", token |-> None, read |-> None, list |-> {}, dirty |-> {}, revoke |-> {}]
IdleClient == [at |-> "idle", token |-> None, stale |-> FALSE]

\* "No row", "no token" and "not in the map" are told from every value.
ASSUME AuthAssumption == None \notin Tokens \cup Expiries \cup TokenRows

Expired(exp) == exp = "soon" /\ passed
Usable(t) == row[t] # None /\ row[t].active /\ ~ Expired(row[t].exp)
Accepted(t) == map[t] # None /\ ~ Expired(map[t])      \* IsTokenActive, isActiveAuthTokenID

AuthTypeOK ==
    /\ row \in [Tokens -> TokenRows \cup {None}] /\ issued \subseteq Tokens /\ passed \in BOOLEAN
    /\ map \in [Tokens -> Expiries \cup {None}]
    /\ admin \in [Admins -> [at : {"idle", "write", "list", "install", "forget", "purge"},
                             token : Tokens \cup {None}, read : TokenRows \cup {None},
                             list : SUBSET (Tokens \X Expiries), dirty : SUBSET Tokens,
                             revoke : SUBSET Tokens]]
    /\ client \in [Clients -> [at : {"idle", "evict", "forget", "purge"},
                               token : Tokens \cup {None}, stale : BOOLEAN]]
    /\ login \in [Sessions -> [at : {"none", "mem", "db", "done"}, token : Tokens \cup {None}]]
    /\ mem \subseteq Sessions /\ db \subseteq Sessions
    /\ excused \subseteq Tokens /\ ended \subseteq Sessions

AuthInit ==
    /\ row = [t \in Tokens |-> None] /\ issued = {} /\ passed = FALSE
    /\ map = [t \in Tokens |-> None]
    /\ admin = [a \in Admins |-> IdleAdmin] /\ client = [q \in Clients |-> IdleClient]
    /\ login = [s \in Sessions |-> [at |-> "none", token |-> None]]
    /\ mem = {} /\ db = {} /\ excused = {} /\ ended = {}
    /\ writes = 0 /\ errors = 0 /\ restarts = 0

TimePasses ==
    /\ ~ passed /\ passed' = TRUE
    /\ UNCHANGED <<row, issued, map, admin, client, sessionVars, excused, bounds>>

(***************************************************************************)
(* The administrator's handlers.                                           *)
(***************************************************************************)
\* A row is written while other handlers hold a list they read before.
Write(a, t, new) ==
    /\ writes < MaxWrites /\ writes' = writes + 1
    /\ row' = [row EXCEPT ![t] = new]
    /\ admin' = [b \in Admins |->
          IF b = a THEN [IdleAdmin EXCEPT !.at = "list", !.token = t]
          ELSE [admin[b] EXCEPT !.dirty = IF admin[b].at = "install" THEN @ \cup {t} ELSE @]]
    /\ UNCHANGED <<passed, map, client, sessionVars, excused, errors, restarts>>

HandleCreateAuthToken(a) ==
    \E t \in Tokens \ issued, r \in TokenRows :
        /\ admin[a].at = "idle"
        /\ issued' = issued \cup {t}
        /\ Write(a, t, r)

\* HandleUpdateAuthToken reads the whole row ...
HandleUpdateAuthToken(a) ==
    \E t \in Tokens :
        /\ admin[a].at = "idle" /\ row[t] # None /\ writes < MaxWrites
        /\ admin' = [admin EXCEPT ![a] = [@ EXCEPT !.at = "write", !.token = t, !.read = row[t]]]
        /\ UNCHANGED <<tokenVars, map, client, sessionVars, excused, bounds>>

\* ... and writes it back with one field changed, unless it is gone.
UpdateAuthToken(a) ==
    LET t == admin[a].token  old == admin[a].read IN
    /\ admin[a].at = "write"
    /\ IF row[t] = None
       THEN /\ admin' = [admin EXCEPT ![a] = IdleAdmin]
            /\ UNCHANGED <<tokenVars, map, client, sessionVars, excused, bounds>>
       ELSE /\ \E new \in {[old EXCEPT !.active = ~ @]} \cup {[old EXCEPT !.exp = e] : e \in Expiries} :
                 Write(a, t, new)
            /\ UNCHANGED issued

HandleDeleteAuthToken(a) ==
    \E t \in Tokens :
        /\ admin[a].at = "idle" /\ row[t] # None
        /\ Write(a, t, None)
        /\ UNCHANGED issued

\* ReloadAuthTokens: ListActiveAuthTokens.  Its error leaves the old map.
ListActiveAuthTokens(a) ==
    /\ admin[a].at = "list"
    /\ \/ /\ admin' = [admin EXCEPT ![a] = [@ EXCEPT !.at = "install", !.dirty = {},
                 !.list = {<<t, row[t].exp>> : t \in {u \in Tokens : Usable(u)}}]]
          /\ UNCHANGED <<excused, errors>>
       \/ /\ errors < MaxErrors /\ errors' = errors + 1
          /\ admin' = [admin EXCEPT ![a] = IdleAdmin]
          /\ excused' = Tokens
    /\ UNCHANGED <<tokenVars, map, client, sessionVars, writes, restarts>>

Listed(list) ==
    [t \in Tokens |-> IF \E e \in Expiries : <<t, e>> \in list
                      THEN CHOOSE e \in Expiries : <<t, e>> \in list ELSE None]

\* Mutant: tokens that left the list stay in the map.
Install_Merge(a) ==
    LET new == Listed(admin[a].list) IN
    /\ admin[a].at = "install"
    /\ map' = [t \in Tokens |-> IF new[t] = None THEN map[t] ELSE new[t]]
    /\ admin' = [admin EXCEPT ![a] = [@ EXCEPT !.at = "forget",
          !.revoke = {t \in Tokens : map[t] # None /\ (new[t] = None \/ Expired(map[t]))}]]
    /\ excused' = admin[a].dirty
    /\ client' = [q \in Clients |-> [client[q] EXCEPT !.stale = client[q].at = "evict"]]
    /\ UNCHANGED <<tokenVars, sessionVars, bounds>>

\* The maps are replaced under the lock, whatever happened since the list.
Install(a) ==
    LET new == Listed(admin[a].list) IN
    /\ admin[a].at = "install"
    /\ map' = new
    /\ admin' = [admin EXCEPT ![a] = [@ EXCEPT !.at = "forget",
          !.revoke = {t \in Tokens : map[t] # None /\ (new[t] = None \/ Expired(map[t]))}]]
    /\ excused' = admin[a].dirty
    /\ client' = [q \in Clients |-> [client[q] EXCEPT !.stale = client[q].at = "evict"]]
    /\ UNCHANGED <<tokenVars, sessionVars, bounds>>

(***************************************************************************)
(* revokeWebSessions: memory under the lock, then the database.            *)
(***************************************************************************)
SessionsOf(tokens) == {s \in Sessions : login[s].at # "none" /\ login[s].token \in tokens}
Complete(s) == login[s].at = "done"

ForgetSessions(tokens) ==
    /\ mem' = mem \ SessionsOf(tokens)
    /\ UNCHANGED <<login, db, ended>>

\* Mutant: revoked sessions stay in the database.
PurgeSessions_MemoryOnly(tokens) ==
    /\ ended' = ended \cup {s \in SessionsOf(tokens) : Complete(s) /\ s \notin mem}
    /\ UNCHANGED <<login, mem, db, errors>>

\* The first error ends the loop over the tokens: the rest keep their rows.
PurgeSessions(tokens) ==
    \E done \in SUBSET tokens :
        /\ done # tokens => errors < MaxErrors
        /\ errors' = IF done = tokens THEN errors ELSE errors + 1
        /\ db' = db \ SessionsOf(done)
        /\ ended' = ended \cup {s \in SessionsOf(done) : Complete(s) /\ s \notin mem}
        /\ UNCHANGED <<login, mem>>

RevokeAfterReload(a) ==
    /\ \/ /\ admin[a].at = "forget"
          /\ ForgetSessions(admin[a].revoke)
          /\ admin' = [admin EXCEPT ![a].at = "purge"]
          /\ UNCHANGED errors
       \/ /\ admin[a].at = "purge"
          /\ PurgeSessions(admin[a].revoke)
          /\ admin' = [admin EXCEPT ![a] = IdleAdmin]
    /\ UNCHANGED <<tokenVars, map, client, excused, writes, restarts>>

(***************************************************************************)
(* RequireAPIAuth, RequireWebAPITokenProxyAuth and the sessions.           *)
(***************************************************************************)
\* The map is read; only an expired token makes the request go on to write.
RequireAPIAuth(q) ==
    \E t \in Tokens :
        /\ client[q].at = "idle" /\ map[t] # None /\ Expired(map[t])
        /\ client' = [client EXCEPT ![q] = [at |-> "evict", token |-> t, stale |-> FALSE]]
        /\ UNCHANGED <<tokenVars, map, admin, sessionVars, excused, bounds>>

\* The lazy eviction, under the lock but without a second look.
EvictExpired(q) ==
    /\ client[q].at = "evict"
    /\ map' = [map EXCEPT ![client[q].token] = None]
    /\ excused' = IF client[q].stale THEN excused \cup {client[q].token} ELSE excused
    /\ client' = [client EXCEPT ![q].at = "forget"]
    /\ UNCHANGED <<tokenVars, admin, sessionVars, bounds>>

\* webSession: a session whose token is not accepted is revoked with it.
WebSession(q) ==
    \E s \in mem :
        /\ client[q].at = "idle" /\ ~ Accepted(login[s].token)
        /\ client' = [client EXCEPT ![q] = [IdleClient EXCEPT !.at = "forget",
                                                              !.token = login[s].token]]
        /\ UNCHANGED <<tokenVars, map, admin, sessionVars, excused, bounds>>

RevokeAfterRequest(q) ==
    /\ \/ /\ client[q].at = "forget"
          /\ ForgetSessions({client[q].token})
          /\ client' = [client EXCEPT ![q].at = "purge"]
          /\ UNCHANGED errors
       \/ /\ client[q].at = "purge"
          /\ PurgeSessions({client[q].token})
          /\ client' = [client EXCEPT ![q] = IdleClient]
    /\ UNCHANGED <<tokenVars, map, admin, excused, writes, restarts>>

\* HandleLogin with an API token: the check, then memory, then the database,
\* whose error only costs the session the next restart.
HandleLogin(s) ==
    /\ \/ /\ login[s].at = "none"
          /\ \E t \in Tokens : Accepted(t) /\ login' = [login EXCEPT ![s] = [at |-> "mem", token |-> t]]
          /\ UNCHANGED <<mem, db, errors>>
       \/ /\ login[s].at = "mem"
          /\ login' = [login EXCEPT ![s].at = "db"]
          /\ mem' = mem \cup {s}
          /\ UNCHANGED <<db, errors>>
       \/ /\ login[s].at = "db"
          /\ login' = [login EXCEPT ![s].at = "done"]
          /\ \/ db' = db \cup {s} /\ UNCHANGED errors
             \/ errors < MaxErrors /\ errors' = errors + 1 /\ UNCHANGED db
          /\ UNCHANGED mem
    /\ UNCHANGED <<tokenVars, map, admin, client, ended, excused, writes, restarts>>

\* HandleLogout: memory, then the database.
HandleLogout(s) ==
    /\ Complete(s) /\ s \notin ended
    /\ mem' = mem \ {s}
    /\ \/ /\ db' = db \ {s} /\ ended' = ended \cup {s}
          /\ UNCHANGED errors
       \/ /\ errors < MaxErrors /\ errors' = errors + 1
          /\ UNCHANGED <<db, ended>>
    /\ UNCHANGED <<tokenVars, map, admin, client, login, excused, writes, restarts>>

\* NewAuthService: the map, if it can be listed, and the stored sessions.
Restart ==
    /\ restarts < MaxRestarts /\ restarts' = restarts + 1
    /\ \/ /\ map' = [t \in Tokens |-> IF Usable(t) THEN row[t].exp ELSE None]
          /\ excused' = {} /\ UNCHANGED errors
       \/ /\ errors < MaxErrors /\ errors' = errors + 1
          /\ map' = [t \in Tokens |-> None] /\ excused' = Tokens
    /\ mem' = db
    /\ login' = [s \in Sessions |-> IF login[s].at \in {"mem", "db"}
                                     THEN [login[s] EXCEPT !.at = "done"] ELSE login[s]]
    /\ admin' = [a \in Admins |-> IdleAdmin] /\ client' = [q \in Clients |-> IdleClient]
    /\ UNCHANGED <<tokenVars, db, ended, writes>>

AuthNext ==
    \/ TimePasses \/ Restart
    \/ \E a \in Admins :
         \/ HandleCreateAuthToken(a) \/ HandleUpdateAuthToken(a) \/ UpdateAuthToken(a)
         \/ HandleDeleteAuthToken(a) \/ ListActiveAuthTokens(a) \/ Install(a)
         \/ RevokeAfterReload(a)
    \/ \E q \in Clients :
         RequireAPIAuth(q) \/ EvictExpired(q) \/ WebSession(q) \/ RevokeAfterRequest(q)
    \/ \E s \in Sessions : HandleLogin(s) \/ HandleLogout(s)

AuthSpec == AuthInit /\ [][AuthNext]_authVars
-------------------------------------------------------------------------------
Quiet == \A a \in Admins : admin[a].at \notin {"list", "install"}

(* While no reload is due the map accepts exactly the tokens the database   *)
(* holds as usable, evictions under way included.  The exceptions are those  *)
(* the code leaves: a reload that failed, a row written while another        *)
(* handler held its list, and an eviction decided before a reload renewed    *)
(* the token.                                                                *)
MapMatchesRows ==
    Quiet => \A t \in Tokens \ excused : Accepted(t) <=> Usable(t)

(* A session that was logged out or revoked, in memory and in the database,  *)
(* is never accepted again: no other login, re-enabled token, racing check   *)
(* or restart brings it back.                                                *)
EndedSessionsStayEnded == ended \cap (mem \cup db) = {}
===============================================================================
