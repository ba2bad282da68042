------------------------------ MODULE TokenProofs ------------------------------
(***************************************************************************)
(* The API tokens, for every value of the constants.                       *)
(*                                                                         *)
(* AuthTokens: any set of tokens, administrators, clients and web          *)
(* sessions, and any number of writes, failing store calls and restarts.   *)
(*                                                                         *)
(* Billing: any finite set of requests, any callers of Shutdown, cost      *)
(* limits, queue capacity and failures of the store.                       *)
(***************************************************************************)
EXTENDS AuthTokens, Billing, FiniteSetTheorems, SequenceTheorems, TLAPS

-------------------------------------------------------------------------------
(* AuthTokens: which tokens and sessions are accepted.                     *)

(* Types.  A counter of the bounds is of no account here. *)

AdminType ==
    [at : {"idle", "write", "list", "install", "forget", "purge"},
     token : Tokens \cup {None}, read : TokenRows \cup {None},
     list : SUBSET (Tokens \X Expiries), dirty : SUBSET Tokens, revoke : SUBSET Tokens]

ClientType == [at : {"idle", "evict", "forget", "purge"}, token : Tokens \cup {None}, stale : BOOLEAN]

LoginType == [at : {"none", "mem", "db", "done"}, token : Tokens \cup {None}]

\* An update knows its token and the row it read.
UpdatesRead ==
    \A a \in Admins : admin[a].at = "write" => admin[a].token \in Tokens /\ admin[a].read \in TokenRows

\* An eviction knows its token.
EvictionsKnow == \A q \in Clients : client[q].at = "evict" => client[q].token \in Tokens

AuthTyped == AuthTypeOK /\ UpdatesRead /\ EvictionsKnow

LEMMA IdleTyped == IdleAdmin \in AdminType /\ IdleClient \in ClientType
BY DEF IdleAdmin, IdleClient, AdminType, ClientType

\* What a row may become by an update.
LEMMA AuthRowTyped ==
    ASSUME NEW r \in TokenRows
    PROVE  /\ r.active \in BOOLEAN /\ r.exp \in Expiries
           /\ [r EXCEPT !.active = ~ @] \in TokenRows
           /\ \A e \in Expiries : [r EXCEPT !.exp = e] \in TokenRows
BY DEF TokenRows

LEMMA ListedTyped ==
    ASSUME NEW list
    PROVE  Listed(list) \in [Tokens -> Expiries \cup {None}]
<1>1. ASSUME NEW t \in Tokens
      PROVE  (IF \E e \in Expiries : <<t, e>> \in list
                THEN CHOOSE e \in Expiries : <<t, e>> \in list ELSE None) \in Expiries \cup {None}
  <2>1. CASE \E e \in Expiries : <<t, e>> \in list
    <3>1. (CHOOSE e \in Expiries : <<t, e>> \in list) \in Expiries
      BY <2>1
    <3> QED
      BY <3>1, <2>1
  <2> QED
    BY <2>1
<1> QED
  BY <1>1 DEF Listed

LEMMA WriteTyped ==
    ASSUME AuthTyped, NEW a \in Admins, NEW t \in Tokens, NEW new \in TokenRows \cup {None}, Write(a, t, new),
           issued' \subseteq Tokens
    PROVE  AuthTyped'
<1> USE DEF EvictionsKnow
<1>1. row' \in [Tokens -> TokenRows \cup {None}]
  BY DEF Write, AuthTyped, AuthTypeOK
<1>2. /\ [IdleAdmin EXCEPT !.at = "list", !.token = t] \in AdminType
      /\ [IdleAdmin EXCEPT !.at = "list", !.token = t].at = "list"
  BY DEF IdleAdmin, AdminType
<1>3. ASSUME NEW b \in Admins
      PROVE  LET new_b == [admin[b] EXCEPT !.dirty = IF admin[b].at = "install" THEN @ \cup {t} ELSE @]
             IN  /\ new_b \in AdminType /\ new_b.at = admin[b].at /\ new_b.token = admin[b].token
                 /\ new_b.read = admin[b].read
  <2>1. admin[b] \in AdminType
    BY DEF AuthTyped, AuthTypeOK, AdminType
  <2> QED
    BY <2>1 DEF AdminType
<1>4. admin' \in [Admins -> AdminType] /\ UpdatesRead'
  BY <1>2, <1>3 DEF Write, UpdatesRead, AuthTyped
<1>5. UNCHANGED <<passed, map, client, login, mem, db, ended, excused>>
  BY DEF Write, sessionVars
<1> QED
  BY <1>1, <1>4, <1>5 DEF AuthTyped, AuthTypeOK, AdminType

\* The handlers of an administrator.
LEMMA AdminTyped ==
    ASSUME AuthTyped, NEW a \in Admins,
           \/ HandleCreateAuthToken(a) \/ HandleUpdateAuthToken(a) \/ UpdateAuthToken(a)
           \/ HandleDeleteAuthToken(a) \/ ListActiveAuthTokens(a) \/ Install(a)
           \/ RevokeAfterReload(a)
    PROVE  AuthTyped'
<1> USE DEF EvictionsKnow
<1>0. /\ admin[a] \in AdminType /\ admin \in [Admins -> AdminType]
      /\ \A t \in Tokens : row[t] # None => row[t] \in TokenRows
  BY DEF AuthTyped, AuthTypeOK, AdminType
<1>s. ASSUME NEW n \in AdminType, admin' = [admin EXCEPT ![a] = n],
             n.at = "write" => n.token \in Tokens /\ n.read \in TokenRows
      PROVE  admin' \in [Admins -> AdminType] /\ UpdatesRead'
  BY <1>s, <1>0 DEF AuthTyped, UpdatesRead
<1>1. CASE HandleCreateAuthToken(a)
  <2>1. PICK t \in Tokens, r \in TokenRows : issued' = issued \cup {t} /\ Write(a, t, r)
    BY <1>1 DEF HandleCreateAuthToken
  <2> QED
    BY <2>1, WriteTyped DEF AuthTyped, AuthTypeOK
<1>2. CASE HandleUpdateAuthToken(a)
  <2>1. PICK t \in Tokens :
          /\ row[t] # None
          /\ admin' = [admin EXCEPT ![a] = [@ EXCEPT !.at = "write", !.token = t, !.read = row[t]]]
          /\ UNCHANGED <<tokenVars, map, client, sessionVars, excused, bounds>>
    BY <1>2 DEF HandleUpdateAuthToken
  <2>n. /\ [admin[a] EXCEPT !.at = "write", !.token = t, !.read = row[t]] \in AdminType
        /\ [admin[a] EXCEPT !.at = "write", !.token = t, !.read = row[t]].token = t
        /\ [admin[a] EXCEPT !.at = "write", !.token = t, !.read = row[t]].read = row[t]
    BY <2>1, <1>0 DEF AdminType
  <2>2. admin' \in [Admins -> AdminType] /\ UpdatesRead'
    BY <2>1, <2>n, <1>0, <1>s
  <2> QED
    BY <2>1, <2>2 DEF AuthTyped, AuthTypeOK, AdminType, tokenVars, sessionVars
<1>3. CASE UpdateAuthToken(a)
  <2>1. CASE row[admin[a].token] = None
    <3>1. /\ admin' = [admin EXCEPT ![a] = IdleAdmin]
          /\ UNCHANGED <<tokenVars, map, client, sessionVars, excused, bounds>>
      BY <1>3, <2>1 DEF UpdateAuthToken
    <3>2. admin' \in [Admins -> AdminType] /\ UpdatesRead'
      BY <3>1, <1>s, IdleTyped DEF IdleAdmin
    <3> QED
      BY <3>1, <3>2 DEF AuthTyped, AuthTypeOK, AdminType, tokenVars, sessionVars
  <2>2. CASE row[admin[a].token] # None
    <3>1. admin[a].token \in Tokens /\ admin[a].read \in TokenRows
      BY <1>3 DEF UpdateAuthToken, AuthTyped, UpdatesRead
    <3>2. PICK new \in {[admin[a].read EXCEPT !.active = ~ @]}
                         \cup {[admin[a].read EXCEPT !.exp = e] : e \in Expiries} :
            Write(a, admin[a].token, new)
      BY <1>3, <2>2 DEF UpdateAuthToken
    <3>3. new \in TokenRows
      BY <3>1, AuthRowTyped
    <3>4. issued' = issued
      BY <1>3, <2>2 DEF UpdateAuthToken
    <3> QED
      BY <3>1, <3>2, <3>3, <3>4, WriteTyped DEF AuthTyped, AuthTypeOK
  <2> QED
    BY <2>1, <2>2
<1>4. CASE HandleDeleteAuthToken(a)
  <2>1. PICK t \in Tokens : Write(a, t, None) /\ issued' = issued
    BY <1>4 DEF HandleDeleteAuthToken
  <2> QED
    BY <2>1, WriteTyped DEF AuthTyped, AuthTypeOK
<1>5. CASE ListActiveAuthTokens(a)
  <2> DEFINE listed == {<<t, row[t].exp>> : t \in {u \in Tokens : Usable(u)}}
  <2>1. listed \in SUBSET (Tokens \X Expiries)
    <3> SUFFICES ASSUME NEW t \in Tokens, Usable(t) PROVE <<t, row[t].exp>> \in Tokens \X Expiries
      OBVIOUS
    <3> QED
      BY AuthRowTyped, <1>0 DEF Usable
  <2>2. /\ UNCHANGED <<tokenVars, map, client, sessionVars>> /\ admin[a].at = "list"
        /\ \/ /\ admin' = [admin EXCEPT ![a] = [@ EXCEPT !.at = "install", !.dirty = {}, !.list = listed]]
              /\ excused' = excused
           \/ admin' = [admin EXCEPT ![a] = IdleAdmin] /\ excused' = Tokens
    BY <1>5 DEF ListActiveAuthTokens
  <2>3. /\ [admin[a] EXCEPT !.at = "install", !.dirty = {}, !.list = listed] \in AdminType
        /\ [admin[a] EXCEPT !.at = "install", !.dirty = {}, !.list = listed].at # "write"
    <3> HIDE DEF listed
    <3> QED
      BY <2>1, <1>0 DEF AdminType
  <2>4. admin' \in [Admins -> AdminType] /\ UpdatesRead'
    <3> HIDE DEF listed
    <3> QED
      BY <2>2, <2>3, <1>s, IdleTyped DEF IdleAdmin
  <2>5. excused' \subseteq Tokens
    BY <2>2 DEF AuthTyped, AuthTypeOK
  <2> QED
    BY <2>2, <2>4, <2>5 DEF AuthTyped, AuthTypeOK, AdminType, tokenVars, sessionVars
<1>6. CASE Install(a)
  <2> DEFINE gone == {t \in Tokens : map[t] # None /\ (Listed(admin[a].list)[t] = None \/ Expired(map[t]))}
  <2>0. admin' = [admin EXCEPT ![a] = [@ EXCEPT !.at = "forget", !.revoke = gone]]
    BY <1>6 DEF Install
  <2>n. /\ [admin[a] EXCEPT !.at = "forget", !.revoke = gone] \in AdminType
        /\ [admin[a] EXCEPT !.at = "forget", !.revoke = gone].at # "write"
    <3>1. gone \subseteq Tokens
      OBVIOUS
    <3> HIDE DEF gone
    <3> QED
      BY <3>1, <1>0 DEF AdminType
  <2>1. admin' \in [Admins -> AdminType] /\ UpdatesRead'
    <3> HIDE DEF gone
    <3> QED
      BY <2>0, <2>n, <1>s
  <2>2. map' \in [Tokens -> Expiries \cup {None}]
    BY <1>6, ListedTyped DEF Install
  <2>3. client' \in [Clients -> ClientType] /\ EvictionsKnow'
    <3>1. client' = [q \in Clients |-> [client[q] EXCEPT !.stale = client[q].at = "evict"]]
      BY <1>6 DEF Install
    <3>2. ASSUME NEW q \in Clients
          PROVE  /\ [client[q] EXCEPT !.stale = client[q].at = "evict"] \in ClientType
                 /\ [client[q] EXCEPT !.stale = client[q].at = "evict"].at = client[q].at
                 /\ [client[q] EXCEPT !.stale = client[q].at = "evict"].token = client[q].token
      <4>1. client[q] \in ClientType
        BY DEF AuthTyped, AuthTypeOK, ClientType
      <4>2. CASE client[q].at = "evict"
        BY <4>1, <4>2 DEF ClientType
      <4>3. CASE client[q].at # "evict"
        BY <4>1, <4>3 DEF ClientType
      <4> QED
        BY <4>2, <4>3
    <3> QED
      BY <3>1, <3>2 DEF AuthTyped
  <2>4. excused' \subseteq Tokens
    BY <1>6, <1>0 DEF Install, AdminType
  <2>5. UNCHANGED <<row, issued, passed, login, mem, db, ended>>
    BY <1>6 DEF Install, tokenVars, sessionVars
  <2> QED
    BY <2>1, <2>2, <2>3, <2>4, <2>5 DEF AuthTyped, AuthTypeOK, AdminType, ClientType
<1>7. CASE RevokeAfterReload(a)
  <2>1. admin' \in [Admins -> AdminType] /\ UpdatesRead'
    <3>1. CASE admin' = [admin EXCEPT ![a].at = "purge"]
      <4>1. [admin[a] EXCEPT !.at = "purge"] \in AdminType /\ [admin[a] EXCEPT !.at = "purge"].at # "write"
        BY <1>0 DEF AdminType
      <4> QED
        BY <3>1, <4>1, <1>s
    <3>2. CASE admin' = [admin EXCEPT ![a] = IdleAdmin]
      BY <3>2, <1>s, IdleTyped DEF IdleAdmin
    <3> QED
      BY <1>7, <3>1, <3>2 DEF RevokeAfterReload
  <2>2. mem' \subseteq Sessions /\ db' \subseteq Sessions /\ ended' \subseteq Sessions /\ login' = login
    BY <1>7 DEF RevokeAfterReload, ForgetSessions, PurgeSessions, SessionsOf, AuthTyped, AuthTypeOK
  <2> QED
    BY <1>7, <2>1, <2>2 DEF RevokeAfterReload, AuthTyped, AuthTypeOK, AdminType, tokenVars
<1> QED
  BY <1>1, <1>2, <1>3, <1>4, <1>5, <1>6, <1>7

\* The requests, the logins and the logouts.
LEMMA ClientTyped ==
    ASSUME AuthTyped, NEW q \in Clients,
           RequireAPIAuth(q) \/ EvictExpired(q) \/ WebSession(q) \/ RevokeAfterRequest(q)
    PROVE  AuthTyped'
<1> USE DEF AuthTyped, EvictionsKnow
<1>0. client[q] \in ClientType /\ \A s \in Sessions : login[s] \in LoginType
  BY DEF AuthTypeOK, ClientType, LoginType
<1>1. CASE RequireAPIAuth(q)
  BY <1>1 DEF RequireAPIAuth, AuthTypeOK, UpdatesRead, tokenVars, sessionVars
<1>2. CASE EvictExpired(q)
  <2>1. client' \in [Clients -> ClientType] /\ EvictionsKnow'
    BY <1>2, <1>0 DEF EvictExpired, AuthTypeOK, ClientType
  <2>2. excused' \subseteq Tokens /\ map' \in [Tokens -> Expiries \cup {None}]
    BY <1>2, <1>0 DEF EvictExpired, AuthTypeOK, ClientType
  <2> QED
    BY <1>2, <2>1, <2>2 DEF EvictExpired, AuthTypeOK, ClientType, UpdatesRead, tokenVars, sessionVars
<1>3. CASE WebSession(q)
  <2>1. PICK s \in Sessions : client' = [client EXCEPT ![q] = [IdleClient EXCEPT !.at = "forget",
                                                                       !.token = login[s].token]]
    BY <1>3 DEF WebSession, AuthTypeOK
  <2>n. /\ [IdleClient EXCEPT !.at = "forget", !.token = login[s].token] \in ClientType
        /\ [IdleClient EXCEPT !.at = "forget", !.token = login[s].token].at # "evict"
    BY <1>0 DEF ClientType, LoginType, IdleClient
  <2>2. client' \in [Clients -> ClientType] /\ EvictionsKnow'
    BY <2>1, <2>n DEF AuthTypeOK, ClientType
  <2> QED
    BY <1>3, <2>2 DEF WebSession, AuthTypeOK, ClientType, UpdatesRead, tokenVars, sessionVars
<1>4. CASE RevokeAfterRequest(q)
  <2>1. client' \in [Clients -> ClientType] /\ EvictionsKnow'
    <3>1. CASE client' = [client EXCEPT ![q].at = "purge"]
      BY <3>1, <1>0 DEF AuthTypeOK, ClientType
    <3>2. CASE client' = [client EXCEPT ![q] = IdleClient]
      BY <3>2, <1>0, IdleTyped DEF AuthTypeOK, ClientType, IdleClient
    <3> QED
      BY <1>4, <3>1, <3>2 DEF RevokeAfterRequest
  <2>2. mem' \subseteq Sessions /\ db' \subseteq Sessions /\ ended' \subseteq Sessions /\ login' = login
    BY <1>4 DEF RevokeAfterRequest, ForgetSessions, PurgeSessions, SessionsOf, AuthTypeOK
  <2> QED
    BY <1>4, <2>1, <2>2 DEF RevokeAfterRequest, AuthTypeOK, ClientType, UpdatesRead, tokenVars
<1> QED
  BY <1>1, <1>2, <1>3, <1>4

LEMMA TypedInit == AuthInit => AuthTyped
<1> SUFFICES ASSUME AuthInit PROVE AuthTyped
  OBVIOUS
<1>1. admin \in [Admins -> AdminType] /\ client \in [Clients -> ClientType] /\ UpdatesRead
  BY IdleTyped DEF AuthInit, UpdatesRead, IdleAdmin
<1>2. passed \in BOOLEAN
  BY Zenon DEF AuthInit
<1>3. EvictionsKnow
  BY DEF AuthInit, EvictionsKnow, IdleClient
<1> QED
  BY <1>1, <1>2, <1>3 DEF AuthInit, AuthTyped, AuthTypeOK, AdminType, ClientType

LEMMA TypedNext == AuthTyped /\ [AuthNext]_authVars => AuthTyped'
<1> SUFFICES ASSUME AuthTyped, [AuthNext]_authVars PROVE AuthTyped'
  OBVIOUS
<1> USE DEF AuthTyped, EvictionsKnow
<1>1. ASSUME NEW a \in Admins,
             \/ HandleCreateAuthToken(a) \/ HandleUpdateAuthToken(a) \/ UpdateAuthToken(a)
             \/ HandleDeleteAuthToken(a) \/ ListActiveAuthTokens(a) \/ Install(a)
             \/ RevokeAfterReload(a)
      PROVE  AuthTyped'
  BY <1>1, AdminTyped
<1>2. ASSUME NEW q \in Clients,
             RequireAPIAuth(q) \/ EvictExpired(q) \/ WebSession(q) \/ RevokeAfterRequest(q)
      PROVE  AuthTyped'
  BY <1>2, ClientTyped
<1>3. ASSUME NEW s \in Sessions, HandleLogin(s) PROVE AuthTyped'
  <2>1. login' \in [Sessions -> LoginType] /\ mem' \subseteq Sessions /\ db' \subseteq Sessions
    <3>1. login \in [Sessions -> LoginType] /\ mem \subseteq Sessions /\ db \subseteq Sessions
      BY DEF AuthTypeOK, LoginType
    <3> QED
      BY <1>3, <3>1 DEF HandleLogin, LoginType
  <2>2. UNCHANGED <<tokenVars, map, admin, client, ended, excused>>
    BY <1>3 DEF HandleLogin
  <2> QED
    BY <2>1, <2>2 DEF AuthTypeOK, UpdatesRead, LoginType, tokenVars
<1>4. ASSUME NEW s \in Sessions, HandleLogout(s) PROVE AuthTyped'
  BY <1>4 DEF HandleLogout, AuthTypeOK, UpdatesRead, tokenVars
<1>5. CASE Restart
  <2>1. admin' \in [Admins -> AdminType] /\ client' \in [Clients -> ClientType] /\ UpdatesRead' /\ EvictionsKnow'
    BY <1>5, IdleTyped DEF Restart, UpdatesRead, IdleAdmin, IdleClient
  <2>2. map' \in [Tokens -> Expiries \cup {None}]
    BY <1>5, AuthRowTyped DEF Restart, AuthTypeOK, Usable
  <2>3. login' \in [Sessions -> LoginType]
    BY <1>5 DEF Restart, AuthTypeOK, LoginType
  <2>4. excused' \subseteq Tokens /\ mem' \subseteq Sessions
    BY <1>5 DEF Restart, AuthTypeOK
  <2> QED
    BY <1>5, <2>1, <2>2, <2>3, <2>4 DEF Restart, AuthTypeOK, AdminType, ClientType, LoginType, tokenVars
<1>6. CASE TimePasses
  <2>1. passed' \in BOOLEAN
    BY <1>6, Zenon DEF TimePasses
  <2> QED
    BY <1>6, <2>1 DEF TimePasses, AuthTypeOK, UpdatesRead, sessionVars
<1>7. CASE UNCHANGED authVars
  BY <1>7 DEF authVars, tokenVars, sessionVars, AuthTypeOK, UpdatesRead
<1> QED
  BY <1>1, <1>2, <1>3, <1>4, <1>5, <1>6, <1>7 DEF AuthNext

LEMMA TypedAlways == AuthSpec => []AuthTyped
BY TypedInit, TypedNext, PTL DEF AuthSpec

\* Every variable keeps its type, for every value of the constants.
THEOREM AuthTypeInvariant == AuthSpec => []AuthTypeOK
<1>1. AuthTyped => AuthTypeOK
  BY DEF AuthTyped
<1> QED
  BY <1>1, TypedAlways, PTL

-------------------------------------------------------------------------------
(* Sessions.  Only a login that is over can have ended: one that is still  *)
(* under way has yet to enter memory or the database, and would come back. *)

EndInv == EndedSessionsStayEnded /\ \A s \in ended : Complete(s)

\* Memory and database lose, or keep, what they have.
LEMMA PurgeEnds ==
    ASSUME EndInv, NEW tokens, PurgeSessions(tokens)
    PROVE  EndInv'
<1>1. PICK done \in SUBSET tokens :
        /\ db' = db \ SessionsOf(done)
        /\ ended' = ended \cup {s \in SessionsOf(done) : Complete(s) /\ s \notin mem}
        /\ UNCHANGED <<login, mem>>
  BY DEF PurgeSessions
<1> QED
  BY <1>1 DEF EndInv, EndedSessionsStayEnded, Complete

LEMMA ForgetEnds ==
    ASSUME EndInv, NEW tokens, ForgetSessions(tokens)
    PROVE  EndInv'
BY DEF EndInv, EndedSessionsStayEnded, Complete, ForgetSessions

LEMMA EndNext == AuthTypeOK /\ EndInv /\ [AuthNext]_authVars => EndInv'
<1> SUFFICES ASSUME AuthTypeOK, EndInv, [AuthNext]_authVars PROVE EndInv'
  OBVIOUS
<1>1. ASSUME NEW a \in Admins, RevokeAfterReload(a) PROVE EndInv'
  BY <1>1, PurgeEnds, ForgetEnds DEF RevokeAfterReload
<1>2. ASSUME NEW q \in Clients, RevokeAfterRequest(q) PROVE EndInv'
  BY <1>2, PurgeEnds, ForgetEnds DEF RevokeAfterRequest
<1>3. ASSUME NEW s \in Sessions, HandleLogin(s) PROVE EndInv'
  <2>1. s \notin ended
    BY <1>3 DEF HandleLogin, EndInv, Complete
  <2>2. /\ ended' = ended /\ mem' \subseteq mem \cup {s} /\ db' \subseteq db \cup {s}
        /\ \A u \in Sessions \ {s} : login'[u] = login[u]
    BY <1>3 DEF HandleLogin, AuthTypeOK
  <2> QED
    BY <2>1, <2>2 DEF EndInv, EndedSessionsStayEnded, Complete, AuthTypeOK
<1>4. ASSUME NEW s \in Sessions, HandleLogout(s) PROVE EndInv'
  BY <1>4 DEF HandleLogout, EndInv, EndedSessionsStayEnded, Complete
<1>5. CASE Restart
  <2>1. /\ mem' = db /\ db' = db /\ ended' = ended
        /\ \A s \in Sessions : login[s].at = "done" => login'[s].at = "done"
    BY <1>5 DEF Restart
  <2> QED
    BY <2>1 DEF EndInv, EndedSessionsStayEnded, Complete, AuthTypeOK
<1>6. ASSUME UNCHANGED sessionVars PROVE EndInv'
  BY <1>6 DEF sessionVars, EndInv, EndedSessionsStayEnded, Complete
<1> QED
  BY <1>1, <1>2, <1>3, <1>4, <1>5, <1>6
     DEF AuthNext, TimePasses, HandleCreateAuthToken, HandleUpdateAuthToken, UpdateAuthToken,
         HandleDeleteAuthToken, ListActiveAuthTokens, Install, Write, RequireAPIAuth, EvictExpired,
         WebSession, authVars

\* A session that was logged out or revoked, in memory and in the database, is
\* never accepted again, whatever logins, re-enabled tokens and restarts follow.
THEOREM AuthSessionsStayEnded == AuthSpec => []EndedSessionsStayEnded
<1>1. AuthInit => EndInv
  BY DEF AuthInit, EndInv, EndedSessionsStayEnded
<1>2. EndInv => EndedSessionsStayEnded
  BY DEF EndInv
<1> QED
  BY <1>1, <1>2, EndNext, AuthTypeInvariant, PTL DEF AuthSpec

-------------------------------------------------------------------------------
(* The map.  While a handler has a list, the list is right but for the     *)
(* tokens written since; when no handler is about to list or install, the  *)
(* map is what the last one installed.                                     *)

Reloading(a) == admin[a].at \in {"list", "install"}

\* What the list says of t is what the row says.
ListedRight(list, t) ==
    /\ \A e \in Expiries : <<t, e>> \in list => row[t] # None /\ row[t].active /\ row[t].exp = e
    /\ Usable(t) => <<t, row[t].exp>> \in list

ListsFresh ==
    \A a \in Admins : admin[a].at = "install" =>
        \A t \in Tokens \ admin[a].dirty : ListedRight(admin[a].list, t)

\* An eviction that no reload overtook takes out nothing that was accepted.
EvictionsHarmless ==
    \A q \in Clients : client[q].at = "evict" /\ ~ client[q].stale => ~ Accepted(client[q].token)

\* What the map says of t is what the row says.
MappedRight(t) ==
    /\ Accepted(t) => row[t] # None /\ row[t].active /\ row[t].exp = map[t]
    /\ Usable(t) => Accepted(t)

MapFresh == (\A a \in Admins : ~ Reloading(a)) => \A t \in Tokens \ excused : MappedRight(t)

MapInv == ListsFresh /\ EvictionsHarmless /\ MapFresh

\* Steps that leave rows, map and time alone, and no handler's reload further.
LEMMA MapKept ==
    ASSUME MapInv, UNCHANGED <<row, passed, map, client, excused>>,
           \A a \in Admins : Reloading(a) => Reloading(a)',
           \A a \in Admins : admin'[a].at = "install" => admin'[a] = admin[a]
    PROVE  MapInv'
<1>1. ListsFresh'
  BY DEF MapInv, ListsFresh, ListedRight, Usable, Expired
<1>2. EvictionsHarmless'
  BY DEF MapInv, EvictionsHarmless, Accepted, Expired
<1>3. MapFresh'
  BY DEF MapInv, MapFresh, MappedRight, Accepted, Usable, Expired
<1> QED
  BY <1>1, <1>2, <1>3 DEF MapInv

LEMMA MapWrite ==
    ASSUME AuthTyped, MapInv, NEW a \in Admins, NEW t \in Tokens, NEW new, Write(a, t, new)
    PROVE  MapInv'
<1>0. /\ row' = [row EXCEPT ![t] = new] /\ UNCHANGED <<passed, map, client, excused>>
      /\ admin' = [b \in Admins |->
          IF b = a THEN [IdleAdmin EXCEPT !.at = "list", !.token = t]
          ELSE [admin[b] EXCEPT !.dirty = IF admin[b].at = "install" THEN @ \cup {t} ELSE @]]
  BY DEF Write
<1>1. admin'[a].at = "list"
  BY <1>0 DEF IdleAdmin
<1>2. ListsFresh'
  <2> SUFFICES ASSUME NEW b \in Admins, admin'[b].at = "install", NEW u \in Tokens \ admin'[b].dirty
               PROVE  ListedRight(admin[b].list, u)'
    BY DEF ListsFresh
  <2>1. b # a /\ admin[b] \in AdminType
    BY <1>1 DEF AuthTyped, AuthTypeOK, AdminType
  <2>2. admin[b].at = "install" /\ admin'[b].list = admin[b].list /\ admin'[b].dirty = admin[b].dirty \cup {t}
    BY <2>1, <1>0 DEF AdminType
  <2>3. ListedRight(admin[b].list, u) /\ u # t
    BY <2>2 DEF MapInv, ListsFresh
  <2>4. row'[u] = row[u]
    BY <2>3, <1>0 DEF AuthTyped, AuthTypeOK
  <2> QED
    BY <2>2, <2>3, <2>4, <1>0 DEF ListedRight, Usable, Expired
<1>3. EvictionsHarmless'
  BY <1>0 DEF MapInv, EvictionsHarmless, Accepted, Expired
<1>4. MapFresh'
  BY <1>1 DEF MapFresh, Reloading
<1> QED
  BY <1>2, <1>3, <1>4 DEF MapInv

LEMMA MapList ==
    ASSUME AuthTyped, MapInv, NEW a \in Admins, ListActiveAuthTokens(a)
    PROVE  MapInv'
<1> DEFINE listed == {<<t, row[t].exp>> : t \in {u \in Tokens : Usable(u)}}
<1>0. /\ UNCHANGED <<row, passed, map, client>> /\ admin[a].at = "list"
      /\ \/ /\ admin' = [admin EXCEPT ![a] = [@ EXCEPT !.at = "install", !.dirty = {}, !.list = listed]]
            /\ excused' = excused
         \/ admin' = [admin EXCEPT ![a] = IdleAdmin] /\ excused' = Tokens
  BY DEF ListActiveAuthTokens, tokenVars
<1>1. \A t \in Tokens : ListedRight(listed, t)
  BY DEF ListedRight, Usable
<1>2. admin[a] \in AdminType /\ admin \in [Admins -> AdminType]
  BY DEF AuthTyped, AuthTypeOK, AdminType
<1> HIDE DEF listed
<1>3. ListsFresh'
  <2> SUFFICES ASSUME NEW b \in Admins, admin'[b].at = "install", NEW t \in Tokens \ admin'[b].dirty
               PROVE  ListedRight(admin[b].list, t)'
    BY DEF ListsFresh
  <2>1. CASE b = a
    <3>1. admin'[b].list = listed
      <4>1. admin' # [admin EXCEPT ![a] = IdleAdmin]
        BY <2>1, <1>2 DEF IdleAdmin
      <4>2. admin' = [admin EXCEPT ![a] = [admin[a] EXCEPT !.at = "install", !.dirty = {}, !.list = listed]]
        BY <4>1, <1>0
      <4>3. [admin[a] EXCEPT !.at = "install", !.dirty = {}, !.list = listed].list = listed
        BY <1>2 DEF AdminType
      <4> QED
        BY <2>1, <4>2, <4>3, <1>2
    <3> QED
      BY <3>1, <1>1, <1>0 DEF ListedRight, Usable, Expired
  <2>2. CASE b # a
    <3>1. admin'[b] = admin[b]
      BY <2>2, <1>0, <1>2
    <3> QED
      BY <3>1, <1>0 DEF MapInv, ListsFresh, ListedRight, Usable, Expired
  <2> QED
    BY <2>1, <2>2
<1>4. EvictionsHarmless'
  BY <1>0 DEF MapInv, EvictionsHarmless, Accepted, Expired
<1>5. MapFresh'
  <2>1. CASE excused' = Tokens
    BY <2>1 DEF MapFresh
  <2>2. CASE admin' = [admin EXCEPT ![a] = [@ EXCEPT !.at = "install", !.dirty = {}, !.list = listed]]
    <3>1. admin'[a].at = "install"
      BY <2>2, <1>2 DEF AdminType
    <3> QED
      BY <3>1 DEF MapFresh, Reloading
  <2> QED
    BY <1>0, <2>1, <2>2
<1> QED
  BY <1>3, <1>4, <1>5 DEF MapInv

LEMMA MapInstall ==
    ASSUME AuthTyped, MapInv, NEW a \in Admins, Install(a)
    PROVE  MapInv'
<1> DEFINE gone == {t \in Tokens : map[t] # None /\ (Listed(admin[a].list)[t] = None \/ Expired(map[t]))}
<1>0. /\ admin[a].at = "install" /\ map' = Listed(admin[a].list) /\ excused' = admin[a].dirty
      /\ admin' = [admin EXCEPT ![a] = [@ EXCEPT !.at = "forget", !.revoke = gone]]
      /\ client' = [q \in Clients |-> [client[q] EXCEPT !.stale = client[q].at = "evict"]]
      /\ UNCHANGED <<row, passed>>
  BY DEF Install, tokenVars
<1> HIDE DEF gone
<1>2. admin[a] \in AdminType /\ admin \in [Admins -> AdminType] /\ client \in [Clients -> ClientType]
  BY DEF AuthTyped, AuthTypeOK, AdminType, ClientType
<1>3. ListsFresh'
  <2> SUFFICES ASSUME NEW b \in Admins, admin'[b].at = "install", NEW t \in Tokens \ admin'[b].dirty
               PROVE  ListedRight(admin[b].list, t)'
    BY DEF ListsFresh
  <2>1. admin'[b] = admin[b]
    BY <1>0, <1>2 DEF AdminType
  <2> QED
    BY <2>1, <1>0 DEF MapInv, ListsFresh, ListedRight, Usable, Expired
<1>4. EvictionsHarmless'
  <2> SUFFICES ASSUME NEW q \in Clients, client'[q].at = "evict", ~ client'[q].stale PROVE FALSE
    BY DEF EvictionsHarmless
  <2>1. client[q] \in ClientType
    BY <1>2
  <2>2. client'[q].at = client[q].at /\ client'[q].stale = (client[q].at = "evict")
    BY <2>1, <1>0 DEF ClientType
  <2> QED
    BY <2>2
<1>5. MapFresh'
  <2> SUFFICES ASSUME NEW t \in Tokens \ admin[a].dirty PROVE MappedRight(t)'
    BY <1>0 DEF MapFresh
  <2>0. ListedRight(admin[a].list, t)
    BY <1>0 DEF MapInv, ListsFresh
  <2>1. map'[t] = IF \E e \in Expiries : <<t, e>> \in admin[a].list
                    THEN CHOOSE e \in Expiries : <<t, e>> \in admin[a].list ELSE None
    BY <1>0 DEF Listed
  <2>2. CASE \E e \in Expiries : <<t, e>> \in admin[a].list
    <3>1. map'[t] \in Expiries /\ <<t, map'[t]>> \in admin[a].list
      BY <2>1, <2>2
    <3>2. row[t] # None /\ row[t].active /\ row[t].exp = map'[t]
      BY <3>1, <2>0 DEF ListedRight
    <3>3. map'[t] # None
      BY <3>1, AuthAssumption
    <3> QED
      BY <3>2, <3>3, <1>0 DEF MappedRight, Usable, Accepted, Expired
  <2>3. CASE ~ \E e \in Expiries : <<t, e>> \in admin[a].list
    <3>1. map'[t] = None
      BY <2>1, <2>3
    <3>2. row[t] # None => row[t].exp \in Expiries
      BY AuthRowTyped DEF AuthTyped, AuthTypeOK
    <3>3. ~ Usable(t)
      BY <3>2, <2>0, <2>3 DEF ListedRight, Usable
    <3> QED
      BY <3>1, <3>3, <1>0 DEF MappedRight, Usable, Accepted, Expired
  <2> QED
    BY <2>2, <2>3
<1> QED
  BY <1>3, <1>4, <1>5 DEF MapInv

\* Requests and evictions.
LEMMA MapClients ==
    ASSUME AuthTyped, MapInv, NEW q \in Clients,
           RequireAPIAuth(q) \/ EvictExpired(q) \/ WebSession(q) \/ RevokeAfterRequest(q)
    PROVE  MapInv'
<1>0. client \in [Clients -> ClientType] /\ client[q] \in ClientType
  BY DEF AuthTyped, AuthTypeOK, ClientType
<1>1. UNCHANGED <<row, passed, admin>>
  BY DEF RequireAPIAuth, EvictExpired, WebSession, RevokeAfterRequest, tokenVars
<1>2. ListsFresh'
  BY <1>1 DEF MapInv, ListsFresh, ListedRight, Usable, Expired
<1>3. CASE RequireAPIAuth(q)
  <2>1. UNCHANGED <<map, excused>>
    BY <1>3 DEF RequireAPIAuth
  <2>2. PICK t \in Tokens :
          /\ map[t] # None /\ Expired(map[t])
          /\ client' = [client EXCEPT ![q] = [at |-> "evict", token |-> t, stale |-> FALSE]]
    BY <1>3 DEF RequireAPIAuth
  <2>3. EvictionsHarmless'
    BY <2>1, <2>2, <1>0, <1>1 DEF MapInv, EvictionsHarmless, Accepted, Expired
  <2>4. MapFresh'
    BY <2>1, <1>1 DEF MapInv, MapFresh, MappedRight, Accepted, Usable, Expired, Reloading
  <2> QED
    BY <1>2, <2>3, <2>4 DEF MapInv
<1>4. CASE EvictExpired(q)
  <2>0. /\ client[q].at = "evict" /\ client' = [client EXCEPT ![q].at = "forget"]
        /\ map' = [map EXCEPT ![client[q].token] = None]
        /\ excused' = IF client[q].stale THEN excused \cup {client[q].token} ELSE excused
    BY <1>4 DEF EvictExpired
  <2>1. client[q].token \in Tokens /\ map \in [Tokens -> Expiries \cup {None}]
    BY <2>0 DEF AuthTyped, EvictionsKnow, AuthTypeOK
  <2>2. \A t \in Tokens : Accepted(t)' => Accepted(t) /\ t # client[q].token
    BY <2>0, <2>1, <1>1 DEF Accepted, Expired
  <2>2b. \A t \in Tokens : t # client[q].token => map'[t] = map[t]
    BY <2>0, <2>1
  <2>3. EvictionsHarmless'
    <3> SUFFICES ASSUME NEW r \in Clients, client'[r].at = "evict", ~ client'[r].stale
                 PROVE  ~ Accepted(client[r].token)'
      BY DEF EvictionsHarmless, Accepted, Expired
    <3>1. r # q
      BY <2>0, <1>0 DEF ClientType
    <3>2. client'[r] = client[r]
      BY <3>1, <2>0, <1>0
    <3>3. ~ Accepted(client[r].token) /\ client[r].token \in Tokens
      BY <3>2 DEF MapInv, EvictionsHarmless, AuthTyped, EvictionsKnow
    <3> QED
      BY <3>2, <3>3, <2>2 DEF Accepted, Expired
  <2>4. MapFresh'
    <3> SUFFICES ASSUME \A a \in Admins : ~ Reloading(a)', NEW t \in Tokens \ excused'
                 PROVE  MappedRight(t)'
      BY DEF MapFresh
    <3>1. MappedRight(t)
      BY <1>1, <2>0 DEF MapInv, MapFresh, Reloading
    <3>2. CASE t = client[q].token
      <4>1. ~ Accepted(t)
        BY <3>2, <2>0 DEF MapInv, EvictionsHarmless
      <4> QED
        BY <4>1, <3>1, <2>2, <1>1 DEF MappedRight, Usable, Expired
    <3>3. CASE t # client[q].token
      BY <3>3, <3>1, <2>2b, <1>1 DEF MappedRight, Usable, Accepted, Expired
    <3> QED
      BY <3>2, <3>3
  <2> QED
    BY <1>2, <2>3, <2>4 DEF MapInv
<1>5. CASE WebSession(q) \/ RevokeAfterRequest(q)
  <2>1. UNCHANGED <<map, excused>>
    BY <1>5 DEF WebSession, RevokeAfterRequest
  <2>2. \E n \in ClientType : n.at # "evict" /\ client' = [client EXCEPT ![q] = n]
    <3>1. CASE WebSession(q)
      <4>1. PICK s \in Sessions : client' = [client EXCEPT ![q] = [IdleClient EXCEPT !.at = "forget",
                                                                         !.token = login[s].token]]
        BY <3>1 DEF WebSession, AuthTyped, AuthTypeOK
      <4>2. login[s].token \in Tokens \cup {None}
        BY DEF AuthTyped, AuthTypeOK
      <4> QED
        BY <4>1, <4>2 DEF ClientType, IdleClient
    <3>2. CASE RevokeAfterRequest(q)
      <4>1. /\ [client[q] EXCEPT !.at = "purge"] \in ClientType
            /\ [client[q] EXCEPT !.at = "purge"].at # "evict"
        BY <1>0 DEF ClientType
      <4>2. \/ client' = [client EXCEPT ![q] = [client[q] EXCEPT !.at = "purge"]]
            \/ client' = [client EXCEPT ![q] = IdleClient]
        BY <3>2 DEF RevokeAfterRequest
      <4> QED
        BY <4>1, <4>2, IdleTyped DEF IdleClient
    <3> QED
      BY <1>5, <3>1, <3>2
  <2>3. EvictionsHarmless'
    BY <2>1, <2>2, <1>0, <1>1 DEF MapInv, EvictionsHarmless, Accepted, Expired
  <2>4. MapFresh'
    BY <2>1, <1>1 DEF MapInv, MapFresh, MappedRight, Accepted, Usable, Expired, Reloading
  <2> QED
    BY <1>2, <2>3, <2>4 DEF MapInv
<1> QED
  BY <1>3, <1>4, <1>5

LEMMA MapAdmins ==
    ASSUME AuthTyped, MapInv, NEW a \in Admins,
           \/ HandleCreateAuthToken(a) \/ HandleUpdateAuthToken(a) \/ UpdateAuthToken(a)
           \/ HandleDeleteAuthToken(a) \/ ListActiveAuthTokens(a) \/ Install(a)
           \/ RevokeAfterReload(a)
    PROVE  MapInv'
<1>0. admin[a] \in AdminType /\ admin \in [Admins -> AdminType]
  BY DEF AuthTyped, AuthTypeOK, AdminType
<1>s. ASSUME UNCHANGED <<row, passed, map, client, excused>>, NEW n, ~ Reloading(a), n.at # "install",
             admin' = [admin EXCEPT ![a] = n]
      PROVE  MapInv'
  BY <1>s, <1>0, MapKept DEF Reloading
<1>1. CASE HandleCreateAuthToken(a) \/ HandleDeleteAuthToken(a)
  BY <1>1, MapWrite DEF HandleCreateAuthToken, HandleDeleteAuthToken
<1>2. CASE HandleUpdateAuthToken(a)
  <2>1. PICK t \in Tokens :
          /\ admin' = [admin EXCEPT ![a] = [admin[a] EXCEPT !.at = "write", !.token = t, !.read = row[t]]]
          /\ UNCHANGED <<tokenVars, map, client, excused>> /\ admin[a].at = "idle"
    BY <1>2 DEF HandleUpdateAuthToken
  <2>2. [admin[a] EXCEPT !.at = "write", !.token = t, !.read = row[t]].at # "install"
    BY <1>0 DEF AdminType
  <2> QED
    BY <2>1, <2>2, <1>s DEF tokenVars, Reloading
<1>3. CASE UpdateAuthToken(a)
  <2>1. CASE row[admin[a].token] = None
    BY <1>3, <2>1, <1>s DEF UpdateAuthToken, tokenVars, Reloading, IdleAdmin
  <2>2. CASE row[admin[a].token] # None
    <3>1. admin[a].token \in Tokens
      BY <1>3 DEF UpdateAuthToken, AuthTyped, UpdatesRead
    <3>2. \E new : Write(a, admin[a].token, new)
      BY <1>3, <2>2 DEF UpdateAuthToken
    <3> QED
      BY <3>1, <3>2, MapWrite
  <2> QED
    BY <2>1, <2>2
<1>4. CASE ListActiveAuthTokens(a)
  BY <1>4, MapList
<1>5. CASE Install(a)
  BY <1>5, MapInstall
<1>6. CASE RevokeAfterReload(a)
  <2>1. UNCHANGED <<row, passed, map, client, excused>> /\ ~ Reloading(a)
    BY <1>6 DEF RevokeAfterReload, tokenVars, Reloading
  <2>2. [admin[a] EXCEPT !.at = "purge"].at # "install" /\ IdleAdmin.at # "install"
    BY <1>0 DEF AdminType, IdleAdmin
  <2>3. \/ admin' = [admin EXCEPT ![a] = [admin[a] EXCEPT !.at = "purge"]]
        \/ admin' = [admin EXCEPT ![a] = IdleAdmin]
    BY <1>6 DEF RevokeAfterReload
  <2> QED
    BY <2>1, <2>2, <2>3, <1>s
<1> QED
  BY <1>1, <1>2, <1>3, <1>4, <1>5, <1>6

LEMMA MapNext == AuthTyped /\ MapInv /\ [AuthNext]_authVars => MapInv'
<1> SUFFICES ASSUME AuthTyped, MapInv, [AuthNext]_authVars PROVE MapInv'
  OBVIOUS
<1>1. ASSUME NEW a \in Admins,
             \/ HandleCreateAuthToken(a) \/ HandleUpdateAuthToken(a) \/ UpdateAuthToken(a)
             \/ HandleDeleteAuthToken(a) \/ ListActiveAuthTokens(a) \/ Install(a)
             \/ RevokeAfterReload(a)
      PROVE  MapInv'
  BY <1>1, MapAdmins
<1>2. ASSUME NEW q \in Clients,
             RequireAPIAuth(q) \/ EvictExpired(q) \/ WebSession(q) \/ RevokeAfterRequest(q)
      PROVE  MapInv'
  BY <1>2, MapClients
<1>3. ASSUME NEW s \in Sessions, HandleLogin(s) \/ HandleLogout(s) PROVE MapInv'
  BY <1>3, MapKept DEF HandleLogin, HandleLogout, tokenVars, Reloading
<1>4. CASE TimePasses
  <2>0. passed' = TRUE /\ UNCHANGED <<row, map, admin, client, excused>>
    BY <1>4 DEF TimePasses
  <2>1. \A t \in Tokens : (Usable(t)' => Usable(t)) /\ (Accepted(t)' => Accepted(t))
    BY <2>0 DEF Usable, Accepted, Expired
  <2>2. ListsFresh'
    BY <2>0, <2>1 DEF MapInv, ListsFresh, ListedRight
  <2>3. EvictionsHarmless'
    BY <2>0, <2>1 DEF MapInv, EvictionsHarmless, AuthTyped, EvictionsKnow
  <2>4. MapFresh'
    <3> SUFFICES ASSUME \A a \in Admins : ~ Reloading(a), NEW t \in Tokens \ excused
                 PROVE  MappedRight(t)'
      BY <2>0 DEF MapFresh, Reloading
    <3>1. MappedRight(t)
      BY DEF MapInv, MapFresh
    <3> QED
      BY <3>1, <2>0, <2>1 DEF MappedRight, Usable, Accepted, Expired
  <2> QED
    BY <2>2, <2>3, <2>4 DEF MapInv
<1>5. CASE Restart
  <2>0. /\ admin' = [a \in Admins |-> IdleAdmin] /\ client' = [q \in Clients |-> IdleClient]
        /\ UNCHANGED <<row, passed>>
        /\ \/ map' = [t \in Tokens |-> IF Usable(t) THEN row[t].exp ELSE None]
           \/ excused' = Tokens
    BY <1>5 DEF Restart, tokenVars
  <2>1. ListsFresh' /\ EvictionsHarmless'
    BY <2>0 DEF ListsFresh, EvictionsHarmless, IdleAdmin, IdleClient
  <2>2. MapFresh'
    <3>1. CASE excused' = Tokens
      BY <3>1 DEF MapFresh
    <3>2. CASE map' = [t \in Tokens |-> IF Usable(t) THEN row[t].exp ELSE None]
      <4> SUFFICES ASSUME NEW t \in Tokens PROVE MappedRight(t)'
        BY DEF MapFresh
      <4>1. row[t] # None => row[t].exp \in Expiries
        BY AuthRowTyped DEF AuthTyped, AuthTypeOK
      <4> QED
        BY <4>1, <3>2, <2>0, AuthAssumption DEF MappedRight, Usable, Accepted, Expired
    <3> QED
      BY <2>0, <3>1, <3>2
  <2> QED
    BY <2>1, <2>2 DEF MapInv
<1>6. CASE UNCHANGED authVars
  BY <1>6, MapKept DEF authVars, tokenVars, Reloading
<1> QED
  BY <1>1, <1>2, <1>3, <1>4, <1>5, <1>6 DEF AuthNext

\* While no reload is due the map accepts exactly the tokens the
\* database holds as usable, but for the exceptions excused records.
THEOREM AuthMapMatchesRows == AuthSpec => []MapMatchesRows
<1>1. AuthInit => MapInv
  BY DEF AuthInit, MapInv, ListsFresh, EvictionsHarmless, MapFresh, MappedRight, IdleAdmin, IdleClient,
         Accepted, Usable
<1>2. MapInv => MapMatchesRows
  BY DEF MapInv, MapFresh, MappedRight, MapMatchesRows, Quiet, Reloading, Accepted, Usable
<1> QED
  BY <1>1, <1>2, MapNext, TypedAlways, PTL DEF AuthSpec

-------------------------------------------------------------------------------
(* Billing: what the requests of a token cost.                             *)

PairMaximum(a, b) == IF a >= b THEN a ELSE b

LEMMA MaxPair ==
    ASSUME NEW a \in Int, NEW b \in Int
    PROVE  Max({a, b}) = PairMaximum(a, b)
BY DEF Max, PairMaximum

(* Types; that the costs stay within their range needs more, see below.      *)

QueueTypes ==
    /\ statsQ \in Seq(Requests) /\ Len(statsQ) <= StatsCap
    /\ stats \in [at : {"run", "count", "write", "exited"}, item : Requests \cup {Nil},
                  draining : BOOLEAN]

UsageTypes ==
    /\ pc \in [Requests -> {"new", "admit", "run", "stats", "send",
                            "count", "write", "release", "rejected", "done"}]
    /\ ok \in [Requests -> BOOLEAN]
    /\ charged \in [Requests -> 0..2]
    /\ dropped \subseteq Requests /\ early \subseteq Requests

BookTypes ==
    /\ limit \in Limits /\ dbLimit \in Limits /\ used \in Nat /\ dbUsed \in Nat
    /\ reload \in {Nil} \cup [limit : Limits, used : Nat]
    /\ edits \in 0..MaxEdits

DownTypes ==
    /\ flag \in BOOLEAN /\ sig \in BOOLEAN /\ open \in BOOLEAN /\ clean \in BOOLEAN
    /\ down \in [Callers -> {"idle", "signal", "wait", "close", "waitDone", "nil", "error"}]
    /\ raced \subseteq Requests

Typed == QueueTypes /\ UsageTypes /\ BookTypes /\ DownTypes

-------------------------------------------------------------------------------
(* Where the usage of a request is.  Once its handler is past the statistics *)
(* it is waiting (queued or in the worker's hands), booked or given up;      *)
(* before that it is nowhere.                                                *)

Past(r) == pc[r] \in {"release", "done"}
Waiting == Queued(statsQ) \cup {stats.item}

UsageSomewhere ==
    \A r \in Requests :
        /\ Past(r) => r \in Waiting \/ r \in dropped \/ charged[r] = 1
        /\ ~ Past(r) => r \notin Waiting \cup dropped \cup early /\ charged[r] = 0
        /\ r \in Waiting => r \notin dropped /\ charged[r] = 0
        /\ charged[r] \in {0, 1}

Distinct(q) == \A i, j \in DOMAIN q : q[i] = q[j] => i = j

\* No update is queued twice, or queued while the worker has it.
WaitingOnce ==
    /\ Distinct(statsQ) /\ stats.item \notin Queued(statsQ)
    /\ stats.item = Nil <=> stats.at \in {"run", "exited"}

\* The worker drains, and leaves, only after the signal.
DrainAfterSignal ==
    /\ stats.draining => sig
    /\ stats.at = "exited" => stats.draining /\ early \cap Queued(statsQ) = {}

UsageInv == Typed /\ UsageSomewhere /\ WaitingOnce /\ DrainAfterSignal

-------------------------------------------------------------------------------
(* The queue.                                                                *)

LEMMA Queueing ==
    ASSUME NEW q \in Seq(Requests), NEW r \in Requests
    PROVE  /\ Append(q, r) \in Seq(Requests) /\ Len(Append(q, r)) = Len(q) + 1
           /\ Queued(Append(q, r)) = Queued(q) \cup {r}
           /\ Distinct(q) /\ r \notin Queued(q) => Distinct(Append(q, r))
<1>1. /\ Append(q, r) \in Seq(Requests) /\ Len(Append(q, r)) = Len(q) + 1 /\ Len(q) \in Nat
      /\ \A i \in 1..Len(q) : Append(q, r)[i] = q[i]
      /\ Append(q, r)[Len(q) + 1] = r
  OBVIOUS
<1>2. DOMAIN q = 1..Len(q) /\ DOMAIN Append(q, r) = 1..(Len(q) + 1)
  BY <1>1
<1>3. Queued(Append(q, r)) = Queued(q) \cup {r}
  BY <1>1, <1>2 DEF Queued
<1>4. ASSUME Distinct(q), r \notin Queued(q) PROVE Distinct(Append(q, r))
  BY <1>1, <1>2, <1>4 DEF Queued, Distinct
<1> QED
  BY <1>1, <1>3, <1>4

LEMMA Taking ==
    ASSUME NEW q \in Seq(Requests), q # <<>>
    PROVE  /\ Head(q) \in Requests /\ Tail(q) \in Seq(Requests) /\ Len(Tail(q)) = Len(q) - 1
           /\ Queued(q) = {Head(q)} \cup Queued(Tail(q))
           /\ Distinct(q) => Distinct(Tail(q)) /\ Head(q) \notin Queued(Tail(q))
<1>1. /\ Tail(q) \in Seq(Requests) /\ Len(Tail(q)) = Len(q) - 1 /\ Len(q) \in Nat \ {0}
      /\ Head(q) = q[1] /\ Head(q) \in Requests
      /\ \A i \in 1..(Len(q) - 1) : Tail(q)[i] = q[i + 1]
  OBVIOUS
<1>2. DOMAIN q = 1..Len(q) /\ DOMAIN Tail(q) = 1..(Len(q) - 1)
  BY <1>1
<1>3. Queued(q) \subseteq {Head(q)} \cup Queued(Tail(q))
  <2> SUFFICES ASSUME NEW i \in 1..Len(q), i # 1 PROVE q[i] \in Queued(Tail(q))
    BY <1>1, <1>2 DEF Queued
  <2>1. i - 1 \in 1..(Len(q) - 1) /\ Tail(q)[i - 1] = q[i]
    BY <1>1
  <2> QED
    BY <2>1, <1>2 DEF Queued
<1>4. {Head(q)} \cup Queued(Tail(q)) \subseteq Queued(q)
  <2>1. 1 \in 1..Len(q) /\ \A i \in 1..(Len(q) - 1) : i + 1 \in 1..Len(q)
    BY <1>1
  <2> QED
    BY <1>1, <1>2, <2>1 DEF Queued
<1>5. ASSUME Distinct(q) PROVE Distinct(Tail(q)) /\ Head(q) \notin Queued(Tail(q))
  <2>1. \A i, j \in 1..Len(q) : q[i] = q[j] => i = j
    BY <1>5, <1>2 DEF Distinct
  <2>2. \A i \in 1..(Len(q) - 1) : i + 1 \in 1..Len(q) /\ i + 1 # 1 /\ 1 \in 1..Len(q)
    BY <1>1
  <2>3. Head(q) \notin Queued(Tail(q))
    BY <1>1, <1>2, <2>1, <2>2 DEF Queued
  <2>4. ASSUME NEW i \in 1..(Len(q) - 1), NEW j \in 1..(Len(q) - 1), Tail(q)[i] = Tail(q)[j] PROVE i = j
    <3>1. q[i + 1] = q[j + 1] /\ i + 1 \in 1..Len(q) /\ j + 1 \in 1..Len(q)
      BY <1>1, <2>4
    <3> QED
      BY <3>1, <2>1
  <2> QED
    BY <2>3, <2>4, <1>2 DEF Distinct
<1> QED
  BY <1>1, <1>3, <1>4, <1>5

-------------------------------------------------------------------------------
(* Steps that neither move an update nor end a request's statistics.         *)

Where == <<statsQ, stats, charged, dropped, early>>

LEMMA QuietStep ==
    ASSUME UsageInv, UNCHANGED Where, sig => sig',
           \A r \in Requests : Past(r)' <=> Past(r)
    PROVE  UsageSomewhere' /\ WaitingOnce' /\ DrainAfterSignal'
<1>1. UsageSomewhere'
  BY DEF UsageInv, UsageSomewhere, Where, Waiting
<1>2. WaitingOnce'
  BY DEF UsageInv, WaitingOnce, Where
<1>3. DrainAfterSignal'
  BY DEF UsageInv, DrainAfterSignal, Where
<1> QED
  BY <1>1, <1>2, <1>3

\* A handler moves on before its statistics, or after them.
LEMMA HandlerMoves ==
    ASSUME UsageInv, NEW r \in Requests, NEW from, NEW to, Goto(r, from, to),
           from \in {"release", "done"} <=> to \in {"release", "done"}
    PROVE  \A q \in Requests : Past(q)' <=> Past(q)
BY DEF UsageInv, Typed, UsageTypes, Goto, Past

LEMMA GotoTyped ==
    ASSUME UsageTypes, NEW r \in Requests, NEW from, NEW to, Goto(r, from, to),
           to \in {"new", "admit", "run", "stats", "send", "count", "write", "release", "rejected", "done"}
    PROVE  /\ pc' \in [Requests -> {"new", "admit", "run", "stats", "send",
                                     "count", "write", "release", "rejected", "done"}]
           /\ pc[r] = from /\ pc'[r] = to /\ \A q \in Requests \ {r} : pc'[q] = pc[q]
BY DEF UsageTypes, Goto

LEMMA CacheTyped ==
    ASSUME BookTypes, NEW r, AddCostToCache(r)
    PROVE  used' \in Nat
BY DEF BookTypes, AddCostToCache

LEMMA RowTyped ==
    ASSUME Typed, NEW r \in Requests, UpdateTokenStats(r), charged[r] = 0
    PROVE  /\ charged' \in [Requests -> 0..2] /\ dropped' \subseteq Requests /\ dbUsed' \in Nat
           /\ \A q \in Requests \ {r} : charged'[q] = charged[q] /\ (q \in dropped' <=> q \in dropped)
           /\ charged'[r] \in {0, 1} /\ (r \in dropped' \/ charged'[r] = 1)
BY DEF Typed, UsageTypes, BookTypes, UpdateTokenStats

LEMMA HandlerUsage ==
    ASSUME UsageInv, NEW r \in Requests, Handler(r)
    PROVE  UsageInv'
<1>t. /\ QueueTypes /\ UsageTypes /\ BookTypes /\ DownTypes /\ Typed
      /\ UsageSomewhere /\ WaitingOnce /\ DrainAfterSignal
  BY DEF UsageInv, Typed
<1>n. Nil \notin Requests
  BY BillingAssumption
<1> USE DEF bookVars, downVars, outcome
<1>q. ASSUME NEW from, NEW to, Goto(r, from, to),
             from \in {"release", "done"} <=> to \in {"release", "done"},
             to \in {"admit", "run", "stats", "send", "count", "write", "rejected", "done"},
             UNCHANGED <<statsQ, stats, downVars, outcome>>, BookTypes', ok' \in [Requests -> BOOLEAN]
      PROVE  UsageInv'
  <2>1. \A q \in Requests : Past(q)' <=> Past(q)
    BY <1>q, HandlerMoves
  <2>2. UNCHANGED Where /\ sig' = sig
    BY <1>q DEF Where
  <2>3. UsageSomewhere' /\ WaitingOnce' /\ DrainAfterSignal'
    BY <2>1, <2>2, QuietStep
  <2>4. UsageTypes'
    BY <1>q, <1>t, GotoTyped DEF UsageTypes
  <2>5. QueueTypes' /\ DownTypes'
    BY <1>q, <1>t DEF QueueTypes, DownTypes
  <2> QED
    BY <1>q, <2>3, <2>4, <2>5 DEF UsageInv, Typed
<1>o. ok \in [Requests -> BOOLEAN]
  BY <1>t DEF UsageTypes
<1>b. UNCHANGED bookVars => BookTypes'
  BY <1>t DEF BookTypes
<1>1. CASE Arrive(r)
  BY <1>1, <1>q, <1>o, <1>b DEF Arrive
<1>2. CASE enforceTokenLimits(r)
  BY <1>2, <1>q, <1>o, <1>b DEF enforceTokenLimits
<1>3. ASSUME NEW b \in BOOLEAN, Finish(r, b) PROVE UsageInv'
  <2>1. ok' \in [Requests -> BOOLEAN]
    BY <1>3, <1>o DEF Finish
  <2> QED
    BY <1>3, <1>q, <1>b, <2>1 DEF Finish
<1>4. CASE updateTokenStatsAsync(r)
  BY <1>4, <1>q, <1>o, <1>b DEF updateTokenStatsAsync
<1>5. CASE ReleaseSlot(r)
  BY <1>5, <1>q, <1>o, <1>b DEF ReleaseSlot
<1>6. CASE CountSync(r)
  <2>1. BookTypes'
    BY <1>6, <1>t, CacheTyped DEF CountSync, BookTypes
  <2> QED
    BY <1>6, <1>q, <1>o, <2>1 DEF CountSync
<1>7. CASE WriteSync(r)
  <2>1. /\ pc' \in [Requests -> {"new", "admit", "run", "stats", "send",
                                     "count", "write", "release", "rejected", "done"}]
        /\ pc[r] = "write" /\ pc'[r] = "release" /\ \A q \in Requests \ {r} : pc'[q] = pc[q]
    BY <1>7, <1>t, GotoTyped DEF WriteSync
  <2>2. r \notin Waiting /\ charged[r] = 0 /\ r \notin early
    BY <1>t, <2>1 DEF UsageSomewhere, Past
  <2>3. /\ charged' \in [Requests -> 0..2] /\ dropped' \subseteq Requests /\ dbUsed' \in Nat
        /\ \A q \in Requests \ {r} : charged'[q] = charged[q] /\ (q \in dropped' <=> q \in dropped)
        /\ charged'[r] \in {0, 1} /\ (r \in dropped' \/ charged'[r] = 1)
    BY <1>7, <1>t, <2>2, RowTyped DEF WriteSync
  <2>4. UNCHANGED <<ok, statsQ, stats, limit, used, dbLimit, reload, edits, downVars, early>>
    BY <1>7 DEF WriteSync
  <2>5. Typed'
    BY <1>t, <2>1, <2>3, <2>4 DEF Typed, QueueTypes, UsageTypes, BookTypes, DownTypes
  <2>6. UsageSomewhere'
    <3>1. Waiting' = Waiting
      BY <2>4 DEF Waiting
    <3> QED
      BY <1>t, <2>1, <2>2, <2>3, <2>4, <3>1 DEF UsageSomewhere, Past
  <2>7. WaitingOnce' /\ DrainAfterSignal'
    BY <1>t, <2>4 DEF WaitingOnce, DrainAfterSignal
  <2> QED
    BY <2>5, <2>6, <2>7 DEF UsageInv
<1>8. CASE SendStats(r)
  <2>1. /\ pc' \in [Requests -> {"new", "admit", "run", "stats", "send",
                                     "count", "write", "release", "rejected", "done"}]
        /\ pc[r] = "send" /\ pc'[r] = "release" /\ \A q \in Requests \ {r} : pc'[q] = pc[q]
    BY <1>8, <1>t, GotoTyped DEF SendStats
  <2>2. r \notin Waiting /\ charged[r] = 0 /\ r \notin dropped /\ r \notin early
    BY <1>t, <2>1 DEF UsageSomewhere, Past
  <2>3. UNCHANGED <<ok, stats, bookVars, downVars, charged>>
    BY <1>8 DEF SendStats
  <2>4. BookTypes' /\ DownTypes'
    BY <1>t, <2>3 DEF BookTypes, DownTypes
  <2>5. CASE Len(statsQ) < StatsCap /\ statsQ' = Append(statsQ, r)
             /\ early' = (IF sig THEN early ELSE early \cup {r}) /\ UNCHANGED dropped
    <3>1. statsQ \in Seq(Requests)
      BY <1>t DEF QueueTypes
    <3>2. /\ statsQ' \in Seq(Requests) /\ Len(statsQ') = Len(statsQ) + 1
          /\ Queued(statsQ') = Queued(statsQ) \cup {r}
          /\ Distinct(statsQ) /\ r \notin Queued(statsQ) => Distinct(statsQ')
      BY <2>5, <3>1, Queueing
    <3>3. QueueTypes'
      BY <2>5, <3>1, <3>2, <2>3, <1>t, BillingAssumption DEF QueueTypes
    <3>4. Waiting' = Waiting \cup {r}
      BY <3>2, <2>3 DEF Waiting
    <3>5. UsageTypes'
      BY <2>1, <2>3, <2>5, <1>t DEF UsageTypes
    <3>6. UsageSomewhere'
      BY <1>t, <2>1, <2>2, <2>3, <2>5, <3>4 DEF UsageSomewhere, Past
    <3>7. WaitingOnce'
      BY <1>t, <2>2, <2>3, <3>2 DEF WaitingOnce, Waiting
    <3>8. DrainAfterSignal'
      <4>1. CASE stats.at = "exited"
        <5>1. sig /\ early' = early
          BY <1>t, <2>5, <4>1 DEF DrainAfterSignal
        <5> QED
          BY <1>t, <2>2, <2>3, <3>2, <4>1, <5>1 DEF DrainAfterSignal
      <4>2. CASE stats.at # "exited"
        BY <1>t, <2>3, <4>2 DEF DrainAfterSignal
      <4> QED
        BY <4>1, <4>2
    <3> QED
      BY <2>4, <3>3, <3>5, <3>6, <3>7, <3>8 DEF UsageInv, Typed
  <2>6. CASE dropped' = dropped \cup {r} /\ UNCHANGED <<statsQ, early>>
    <3>1. QueueTypes' /\ UsageTypes'
      BY <2>1, <2>3, <2>6, <1>t DEF QueueTypes, UsageTypes
    <3>2. Waiting' = Waiting
      BY <2>3, <2>6 DEF Waiting
    <3>3. UsageSomewhere'
      BY <1>t, <2>1, <2>2, <2>3, <2>6, <3>2 DEF UsageSomewhere, Past
    <3>4. WaitingOnce' /\ DrainAfterSignal'
      BY <1>t, <2>3, <2>6 DEF WaitingOnce, DrainAfterSignal
    <3> QED
      BY <2>4, <3>1, <3>3, <3>4 DEF UsageInv, Typed
  <2> QED
    BY <1>8, <2>5, <2>6 DEF SendStats
<1> QED
  BY <1>1, <1>2, <1>3, <1>4, <1>5, <1>6, <1>7, <1>8 DEF Handler

LEMMA WorkerUsage ==
    ASSUME UsageInv, StatsWorker
    PROVE  UsageInv'
<1>t. /\ QueueTypes /\ UsageTypes /\ BookTypes /\ DownTypes /\ Typed
      /\ UsageSomewhere /\ WaitingOnce /\ DrainAfterSignal
  BY DEF UsageInv, Typed
<1>n. Nil \notin Requests
  BY BillingAssumption
<1> USE DEF bookVars, downVars, outcome, handlerVars
<1>1. CASE TakeStats
  <2>1. /\ stats.at = "run" /\ statsQ # <<>> /\ statsQ \in Seq(Requests)
        /\ stats' = [stats EXCEPT !.at = "count", !.item = Head(statsQ)] /\ statsQ' = Tail(statsQ)
        /\ UNCHANGED <<handlerVars, bookVars, downVars, outcome>>
    BY <1>1, <1>t DEF TakeStats, QueueTypes
  <2>2. /\ Head(statsQ) \in Requests /\ statsQ' \in Seq(Requests) /\ Len(statsQ') = Len(statsQ) - 1
        /\ Queued(statsQ) = {Head(statsQ)} \cup Queued(statsQ')
        /\ Distinct(statsQ') /\ Head(statsQ) \notin Queued(statsQ')
    BY <2>1, <1>t, Taking DEF WaitingOnce
  <2>3. stats'.at = "count" /\ stats'.item = Head(statsQ) /\ stats'.draining = stats.draining
    BY <2>1, <1>t DEF QueueTypes
  <2>4. stats.item = Nil
    BY <2>1, <1>t DEF WaitingOnce
  <2>5. QueueTypes'
    <3>1. stats' \in [at : {"run", "count", "write", "exited"}, item : Requests \cup {Nil},
                      draining : BOOLEAN]
      BY <2>1, <2>2, <1>t DEF QueueTypes
    <3>2. Len(statsQ') <= StatsCap
      BY <2>1, <2>2, <1>t, BillingAssumption DEF QueueTypes
    <3> QED
      BY <2>2, <3>1, <3>2 DEF QueueTypes
  <2>6. UsageTypes' /\ BookTypes' /\ DownTypes'
    BY <2>1, <1>t DEF UsageTypes, BookTypes, DownTypes
  <2>7. \A r \in Requests : r \in Waiting' <=> r \in Waiting
    BY <2>2, <2>3, <2>4, <1>n DEF Waiting
  <2>8. UsageSomewhere'
    BY <1>t, <2>1, <2>7 DEF UsageSomewhere, Past
  <2>9. WaitingOnce'
    BY <2>2, <2>3, <1>n DEF WaitingOnce
  <2>10. DrainAfterSignal'
    BY <1>t, <2>1, <2>3 DEF DrainAfterSignal
  <2> QED
    BY <2>5, <2>6, <2>8, <2>9, <2>10 DEF UsageInv, Typed
<1>2. CASE CountStats
  <2>1. /\ stats.at = "count" /\ stats' = [stats EXCEPT !.at = "write"]
        /\ UNCHANGED <<handlerVars, statsQ, limit, dbLimit, dbUsed, reload, edits, downVars, outcome>>
        /\ used' \in Nat
    BY <1>2, <1>t, CacheTyped DEF CountStats
  <2>2. stats'.at = "write" /\ stats'.item = stats.item /\ stats'.draining = stats.draining
    BY <2>1, <1>t DEF QueueTypes
  <2>3. Typed'
    BY <2>1, <1>t DEF Typed, QueueTypes, UsageTypes, BookTypes, DownTypes
  <2>4. Waiting' = Waiting
    BY <2>1, <2>2 DEF Waiting
  <2>5. UsageSomewhere'
    BY <1>t, <2>1, <2>4 DEF UsageSomewhere, Past
  <2>6. WaitingOnce' /\ DrainAfterSignal'
    BY <1>t, <2>1, <2>2 DEF WaitingOnce, DrainAfterSignal
  <2> QED
    BY <2>3, <2>5, <2>6 DEF UsageInv
<1>3. CASE WriteStats
  <2>0. PICK r \in Requests : r = stats.item
    BY <1>3, <1>t DEF WriteStats, WaitingOnce, QueueTypes
  <2>1. /\ stats.at = "write" /\ stats' = [stats EXCEPT !.at = "run", !.item = Nil]
        /\ UNCHANGED <<handlerVars, statsQ, limit, used, dbLimit, reload, edits, downVars, early>>
        /\ UpdateTokenStats(r)
    BY <1>3, <2>0 DEF WriteStats
  <2>2. r \in Waiting
    BY <2>0 DEF Waiting
  <2>3. charged[r] = 0 /\ Past(r)
    BY <1>t, <2>2 DEF UsageSomewhere
  <2>4. /\ charged' \in [Requests -> 0..2] /\ dropped' \subseteq Requests /\ dbUsed' \in Nat
        /\ \A q \in Requests \ {r} : charged'[q] = charged[q] /\ (q \in dropped' <=> q \in dropped)
        /\ charged'[r] \in {0, 1} /\ (r \in dropped' \/ charged'[r] = 1)
    BY <2>1, <2>2, <2>3, <1>t, RowTyped
  <2>5. stats'.at = "run" /\ stats'.item = Nil /\ stats'.draining = stats.draining
    BY <2>1, <1>t DEF QueueTypes
  <2>6. Typed'
    BY <2>1, <2>4, <1>t DEF Typed, QueueTypes, UsageTypes, BookTypes, DownTypes
  <2>7. r \notin Waiting' /\ \A q \in Requests \ {r} : q \in Waiting' <=> q \in Waiting
    BY <2>0, <2>1, <2>5, <1>t, <1>n DEF Waiting, WaitingOnce
  <2>8. UsageSomewhere'
    <3>1. \A q \in Requests : Past(q)' <=> Past(q)
      BY <2>1 DEF Past
    <3>2. early' = early
      BY <2>1
    <3>3. \A q \in Requests \ {r} : /\ Past(q)' => q \in Waiting' \/ q \in dropped' \/ charged'[q] = 1
                                    /\ ~ Past(q)' => q \notin Waiting' \cup dropped' \cup early' /\ charged'[q] = 0
                                    /\ q \in Waiting' => q \notin dropped' /\ charged'[q] = 0
                                    /\ charged'[q] \in {0, 1}
      BY <1>t, <2>4, <2>7, <3>1, <3>2 DEF UsageSomewhere
    <3>4. /\ Past(r)' => r \in dropped' \/ charged'[r] = 1
          /\ Past(r)' /\ r \notin Waiting' /\ charged'[r] \in {0, 1}
      BY <2>2, <2>3, <2>4, <2>7, <3>1
    <3> QED
      BY <3>3, <3>4 DEF UsageSomewhere
  <2>9. WaitingOnce'
    <3>1. Nil \notin Queued(statsQ)
      <4>1. statsQ \in Seq(Requests)
        BY <1>t DEF QueueTypes
      <4>2. \A i \in DOMAIN statsQ : statsQ[i] \in Requests
        BY <4>1
      <4> QED
        BY <4>2, <1>n DEF Queued
    <3> QED
      BY <2>1, <2>5, <3>1, <1>t DEF WaitingOnce
  <2>10. DrainAfterSignal'
    BY <1>t, <2>1, <2>5 DEF DrainAfterSignal
  <2> QED
    BY <2>6, <2>8, <2>9, <2>10 DEF UsageInv
<1>4. CASE SeeSignal
  <2>1. /\ stats.at = "run" /\ sig /\ stats' = [stats EXCEPT !.draining = TRUE]
        /\ UNCHANGED <<handlerVars, statsQ, bookVars, downVars, outcome>>
    BY <1>4 DEF SeeSignal
  <2>2. stats'.at = "run" /\ stats'.item = stats.item
    BY <2>1, <1>t DEF QueueTypes
  <2>3. Typed'
    BY <2>1, <1>t DEF Typed, QueueTypes, UsageTypes, BookTypes, DownTypes
  <2>4. Waiting' = Waiting
    BY <2>1, <2>2 DEF Waiting
  <2>5. UsageSomewhere'
    BY <1>t, <2>1, <2>4 DEF UsageSomewhere, Past
  <2>6. WaitingOnce' /\ DrainAfterSignal'
    BY <1>t, <2>1, <2>2 DEF WaitingOnce, DrainAfterSignal
  <2> QED
    BY <2>3, <2>5, <2>6 DEF UsageInv
<1>5. CASE StatsExit
  <2>1. /\ stats.at = "run" /\ stats.draining /\ statsQ = <<>> /\ stats' = [stats EXCEPT !.at = "exited"]
        /\ UNCHANGED <<handlerVars, statsQ, bookVars, downVars, outcome>>
    BY <1>5 DEF StatsExit
  <2>2. stats'.at = "exited" /\ stats'.item = stats.item /\ stats'.draining = stats.draining
    BY <2>1, <1>t DEF QueueTypes
  <2>3. Typed'
    BY <2>1, <1>t DEF Typed, QueueTypes, UsageTypes, BookTypes, DownTypes
  <2>4. Waiting' = Waiting
    BY <2>1, <2>2 DEF Waiting
  <2>5. UsageSomewhere'
    BY <1>t, <2>1, <2>4 DEF UsageSomewhere, Past
  <2>6. WaitingOnce'
    BY <1>t, <2>1, <2>2 DEF WaitingOnce
  <2>7. Queued(statsQ') = {}
    BY <2>1 DEF Queued
  <2>8. DrainAfterSignal'
    BY <1>t, <2>1, <2>2, <2>7 DEF DrainAfterSignal
  <2> QED
    BY <2>3, <2>5, <2>6, <2>8 DEF UsageInv
<1> QED
  BY <1>1, <1>2, <1>3, <1>4, <1>5 DEF StatsWorker

\* The administrator and Shutdown leave the updates where they are.
LEMMA AdminUsage ==
    ASSUME UsageInv, (\E l \in Limits : EditToken(l)) \/ ReloadAuthTokens
    PROVE  UsageInv'
<1>t. QueueTypes /\ UsageTypes /\ BookTypes /\ DownTypes
  BY DEF UsageInv, Typed
<1>1. UNCHANGED <<requestVars, downVars, outcome>>
  BY DEF EditToken, ReloadAuthTokens
<1>2. UNCHANGED <<pc, ok, statsQ, stats, flag, sig, open, down, clean, raced, charged, dropped, early>>
  BY <1>1 DEF requestVars, downVars, outcome
<1>3. QueueTypes' /\ UsageTypes' /\ DownTypes'
  BY <1>2, <1>t DEF QueueTypes, UsageTypes, DownTypes
<1>4. UsageSomewhere' /\ WaitingOnce' /\ DrainAfterSignal'
  BY <1>2, QuietStep DEF Where, Past
<1>5. BookTypes'
  <2>1. ASSUME NEW l \in Limits, EditToken(l) PROVE BookTypes'
    BY <2>1, <1>t, BillingAssumption DEF EditToken, BookTypes
  <2>2. CASE ReloadAuthTokens
    <3>1. reload \in [limit : Limits, used : Nat]
      BY <2>2, <1>t DEF ReloadAuthTokens, BookTypes
    <3>2. reload.used \in Nat /\ reload.limit \in Limits /\ reload.limit \in Nat /\ limit \in Nat /\ used \in Nat
      BY <3>1, <1>t, BillingAssumption DEF BookTypes
    <3>3. Max({used, reload.used}) \in Nat
      BY <3>2, MaxPair DEF PairMaximum
    <3>4. used' \in Nat
      BY <2>2, <3>2, <3>3 DEF ReloadAuthTokens
    <3> QED
      BY <2>2, <3>2, <3>4, <1>t DEF ReloadAuthTokens, BookTypes
  <2> QED
    BY <2>1, <2>2
<1> QED
  BY <1>3, <1>4, <1>5 DEF UsageInv, Typed

LEMMA ShutdownUsage ==
    ASSUME UsageInv, NEW c \in Callers, Shutdown(c)
    PROVE  UsageInv'
<1>t. QueueTypes /\ UsageTypes /\ BookTypes /\ DownTypes
  BY DEF UsageInv, Typed
<1>1. UNCHANGED <<requestVars, bookVars, outcome>>
  BY DEF Shutdown, Call, Signal, Wait, CloseStore, AwaitDone
<1>2. UNCHANGED <<pc, ok, statsQ, stats, limit, used, dbLimit, dbUsed, reload, edits, charged, dropped, early>>
  BY <1>1 DEF requestVars, bookVars, outcome
<1>3. QueueTypes' /\ UsageTypes' /\ BookTypes'
  BY <1>2, <1>t DEF QueueTypes, UsageTypes, BookTypes
<1>4. DownTypes' /\ (sig => sig')
  BY <1>t DEF DownTypes, Shutdown, Call, Signal, Wait, CloseStore, AwaitDone
<1>5. UsageSomewhere' /\ WaitingOnce' /\ DrainAfterSignal'
  BY <1>2, <1>4, QuietStep DEF Where, Past
<1> QED
  BY <1>3, <1>4, <1>5 DEF UsageInv, Typed

LEMMA UsageNext ==
    ASSUME UsageInv, [Next]_vars
    PROVE  UsageInv'
<1>1. CASE UNCHANGED vars
  BY <1>1 DEF vars, bookVars, downVars, outcome, UsageInv, Typed, QueueTypes, UsageTypes, BookTypes, DownTypes,
              UsageSomewhere, Past, Waiting, WaitingOnce, DrainAfterSignal
<1> QED
  BY <1>1, HandlerUsage, WorkerUsage, AdminUsage, ShutdownUsage DEF Next

LEMMA UsageInit == Init => UsageInv
<1> SUFFICES ASSUME Init PROVE UsageInv
  OBVIOUS
<1>1. statsQ \in Seq(Requests) /\ Len(statsQ) = 0 /\ Queued(statsQ) = {} /\ Distinct(statsQ)
  BY DEF Init, Queued, Distinct
<1>2. Typed
  <2>1. QueueTypes
    BY <1>1, BillingAssumption DEF Init, QueueTypes
  <2>2. UsageTypes /\ DownTypes
    <3>1. charged \in [Requests -> 0..2] /\ pc \in [Requests -> {"new"}] /\ ok \in [Requests -> BOOLEAN]
      BY DEF Init
    <3>2. pc \in [Requests -> {"new", "admit", "run", "stats", "send",
                               "count", "write", "release", "rejected", "done"}]
      BY <3>1
    <3>3. DownTypes
      BY DEF Init, DownTypes
    <3> QED
      BY <3>1, <3>2, <3>3 DEF Init, UsageTypes
  <2>3. BookTypes
    BY BillingAssumption DEF Init, BookTypes
  <2> QED
    BY <2>1, <2>2, <2>3 DEF Typed
<1>3. \A r \in Requests : r \notin Waiting
  BY <1>1, BillingAssumption DEF Init, Waiting
<1> QED
  BY <1>1, <1>2, <1>3 DEF Init, UsageInv, UsageSomewhere, Past, WaitingOnce, DrainAfterSignal

\* A reload never takes back charges of a token whose limit stays in force.
THEOREM BillingReloadKeepsCharges == Spec => ReloadKeepsCharges
<1>1. UsageInv /\ [Next]_vars => [limit > 0 /\ limit' > 0 => used' >= used]_vars
  <2> SUFFICES ASSUME UsageInv, Next, limit > 0, limit' > 0 PROVE used' >= used
    BY DEF vars
  <2>t. used \in Nat /\ limit \in Nat
    BY BillingAssumption DEF UsageInv, Typed, BookTypes
  <2>1. ASSUME NEW r \in Requests, Handler(r) PROVE used' >= used
    BY <2>1, <2>t DEF Handler, Arrive, enforceTokenLimits, Finish, updateTokenStatsAsync, SendStats, CountSync,
                      WriteSync, ReleaseSlot, AddCostToCache, bookVars
  <2>2. CASE StatsWorker
    BY <2>2, <2>t DEF StatsWorker, TakeStats, CountStats, WriteStats, SeeSignal, StatsExit, AddCostToCache, bookVars
  <2>3. ASSUME NEW l \in Limits, EditToken(l) PROVE used' >= used
    BY <2>3, <2>t DEF EditToken
  <2>4. CASE ReloadAuthTokens
    <3>1. reload.used \in Nat /\ reload.limit \in Nat
      BY <2>4, BillingAssumption DEF ReloadAuthTokens, UsageInv, Typed, BookTypes
    <3>2. used' = Max({used, reload.used})
      BY <2>4, <3>1, <2>t DEF ReloadAuthTokens
    <3> QED
      BY <3>1, <3>2, <2>t, MaxPair DEF PairMaximum
  <2>5. ASSUME NEW c \in Callers, Shutdown(c) PROVE used' >= used
    BY <2>5, <2>t DEF Shutdown, Call, Signal, Wait, CloseStore, AwaitDone, bookVars
  <2> QED
    BY <2>1, <2>2, <2>3, <2>4, <2>5 DEF Next
<1> QED
  BY <1>1, UsageInit, UsageNext, PTL DEF Spec, ReloadKeepsCharges

-------------------------------------------------------------------------------
(* The costs.  A reload brings what the row had, which is no more than was    *)
(* booked, and everything booked has been counted in the cache.              *)

CostInv ==
    /\ CostsEarned
    /\ reload # Nil => reload.used <= dbUsed

LEMMA Sizes ==
    ASSUME NEW S \in SUBSET Requests
    PROVE  /\ Cardinality(S) \in Nat /\ Cardinality(S) <= Cardinality(Requests)
           /\ \A r \in Requests \ S : Cardinality(S \cup {r}) = Cardinality(S) + 1
           /\ \A T \in SUBSET S : Cardinality(T) <= Cardinality(S)
<1>1. IsFiniteSet(Requests) /\ IsFiniteSet(S)
  BY BillingAssumption, FS_Subset
<1>2. \A T \in SUBSET S : Cardinality(T) <= Cardinality(S)
  BY <1>1, FS_Subset
<1>3. Cardinality(S) \in Nat /\ Cardinality(S) <= Cardinality(Requests)
  BY <1>1, FS_CardinalityType, FS_Subset
<1>4. \A r \in Requests \ S : Cardinality(S \cup {r}) = Cardinality(S) + 1
  BY <1>1, FS_AddElement
<1> QED
  BY <1>2, <1>3, <1>4

\* A step that charges nothing and forgets nothing.
LEMMA CostKept ==
    ASSUME UsageInv, CostInv, UNCHANGED <<used, dbUsed, reload>>,
           Booked \subseteq Booked', Counted \subseteq Counted'
    PROVE  CostInv'
<1>1. Booked' \in SUBSET Requests /\ Counted' \in SUBSET Requests
  BY DEF Booked, Counted
<1>2. /\ Cardinality(Booked) <= Cardinality(Booked)' /\ Cardinality(Counted) <= Cardinality(Counted)'
      /\ Cardinality(Booked)' \in Nat /\ Cardinality(Counted)' \in Nat
      /\ Cardinality(Booked) \in Nat /\ Cardinality(Counted) \in Nat
  <2>1. Booked \in SUBSET Requests /\ Counted \in SUBSET Requests
    BY DEF Booked, Counted
  <2> QED
    BY <1>1, <2>1, Sizes
<1>3. used \in Nat /\ dbUsed \in Nat
  BY DEF UsageInv, Typed, BookTypes
<1> QED
  BY <1>2, <1>3 DEF CostInv, CostsEarned

\* The cache counts a request that it has not counted.
LEMMA CacheCost ==
    ASSUME UsageInv, CostInv, NEW r \in Requests, AddCostToCache(r),
           UNCHANGED <<dbUsed, reload, charged, dropped>>,
           r \notin Counted, Counted \cup {r} \subseteq Counted'
    PROVE  CostInv'
<1>1. Counted \in SUBSET Requests /\ Counted' \in SUBSET Requests /\ Counted \cup {r} \in SUBSET Requests
  BY DEF Counted
<1>2. /\ Cardinality(Counted \cup {r}) = Cardinality(Counted) + 1
      /\ Cardinality(Counted \cup {r}) <= Cardinality(Counted)'
      /\ Cardinality(Counted) \in Nat /\ Cardinality(Counted)' \in Nat
  BY <1>1, Sizes
<1>3. Booked' = Booked
  BY DEF Booked
<1>4. used \in Nat /\ used' <= used + 1 /\ used' \in Nat
  BY DEF UsageInv, Typed, BookTypes, AddCostToCache
<1> QED
  BY <1>2, <1>3, <1>4 DEF CostInv, CostsEarned

\* The row is charged for a request that it was not charged for.
LEMMA RowCost ==
    ASSUME UsageInv, CostInv, NEW r \in Requests, UpdateTokenStats(r), charged[r] = 0, InWriting(r),
           UNCHANGED <<used, reload>>,
           \A q \in Requests \ {r} : InWriting(q) => InWriting(q)'
    PROVE  CostInv'
<1>t. charged \in [Requests -> 0..2] /\ used \in Nat /\ dbUsed \in Nat /\ reload \in {Nil} \cup [limit : Limits, used : Nat]
  BY DEF UsageInv, Typed, UsageTypes, BookTypes
<1>1. CASE charged' = [charged EXCEPT ![r] = @ + 1] /\ dbUsed' = (IF ok[r] THEN dbUsed + 1 ELSE dbUsed) /\ dropped' = dropped
  <2>1. Booked' = Booked \cup {r} /\ r \notin Booked /\ Booked \in SUBSET Requests
    BY <1>1, <1>t DEF Booked
  <2>2. Cardinality(Booked)' = Cardinality(Booked) + 1 /\ Cardinality(Booked) \in Nat
    BY <2>1, Sizes
  <2>3. Counted \subseteq Counted' /\ Counted \in SUBSET Requests /\ Counted' \in SUBSET Requests
    BY <1>1, <1>t DEF Counted
  <2>4. Cardinality(Counted) <= Cardinality(Counted)' /\ Cardinality(Counted)' \in Nat /\ Cardinality(Counted) \in Nat
    BY <2>3, Sizes
  <2>5. dbUsed' \in Nat /\ dbUsed <= dbUsed' /\ dbUsed' <= dbUsed + 1
    BY <1>1, <1>t
  <2> QED
    BY <1>t, <2>2, <2>4, <2>5 DEF CostInv, CostsEarned
<1>2. CASE dropped' = dropped \cup {r} /\ UNCHANGED <<charged, dbUsed>>
  <2>1. Booked' = Booked /\ Counted \subseteq Counted'
    BY <1>2, <1>t DEF Booked, Counted
  <2> QED
    BY <1>2, <2>1, CostKept
<1> QED
  BY <1>1, <1>2 DEF UpdateTokenStats

LEMMA CostNext ==
    ASSUME UsageInv, CostInv, [Next]_vars
    PROVE  CostInv'
<1>t. UsageTypes /\ QueueTypes /\ BookTypes /\ UsageSomewhere /\ WaitingOnce
  BY DEF UsageInv, Typed
<1>pc. pc \in [Requests -> {"new", "admit", "run", "stats", "send",
                             "count", "write", "release", "rejected", "done"}]
  BY <1>t DEF UsageTypes
<1> USE DEF bookVars, downVars, outcome, handlerVars, requestVars
<1>q. ASSUME UNCHANGED <<used, dbUsed, reload, charged, stats>>, dropped \subseteq dropped',
             \A r \in Requests : pc[r] = "write" => pc'[r] = "write"
      PROVE  CostInv'
  <2>1. Booked' = Booked /\ Counted \subseteq Counted'
    BY <1>q DEF Booked, Counted, InWriting
  <2> QED
    BY <1>q, <2>1, CostKept
<1>1. ASSUME NEW r \in Requests, Handler(r) PROVE CostInv'
  <2>1. CASE Arrive(r) \/ enforceTokenLimits(r) \/ (\E b \in BOOLEAN : Finish(r, b))
             \/ updateTokenStatsAsync(r) \/ ReleaseSlot(r)
    <3>1. UNCHANGED <<used, dbUsed, reload, charged, stats, dropped>>
      BY <2>1 DEF Arrive, enforceTokenLimits, Finish, updateTokenStatsAsync, ReleaseSlot
    <3>2. \A q \in Requests : pc[q] = "write" => pc'[q] = "write"
      BY <2>1, <1>pc DEF Goto, Arrive, enforceTokenLimits, Finish, updateTokenStatsAsync, ReleaseSlot
    <3> QED
      BY <3>1, <3>2, <1>q
  <2>2. CASE SendStats(r)
    <3>1. UNCHANGED <<used, dbUsed, reload, charged, stats>> /\ dropped \subseteq dropped'
      BY <2>2 DEF SendStats
    <3>2. \A q \in Requests : pc[q] = "write" => pc'[q] = "write"
      BY <2>2, <1>pc DEF Goto, SendStats
    <3> QED
      BY <3>1, <3>2, <1>q
  <2>3. CASE CountSync(r)
    <3>1. /\ pc[r] = "count" /\ pc'[r] = "write" /\ \A q \in Requests \ {r} : pc'[q] = pc[q]
          /\ AddCostToCache(r) /\ UNCHANGED <<dbUsed, reload, charged, dropped, stats>>
      BY <2>3, <1>pc DEF CountSync, Goto
    <3>2. r \notin Waiting /\ r \notin dropped /\ charged[r] = 0
      BY <1>t, <3>1 DEF UsageSomewhere, Past
    <3>3. r \notin Counted /\ Counted \cup {r} \subseteq Counted'
      BY <3>1, <3>2 DEF Counted, InWriting, Waiting
    <3> QED
      BY <3>1, <3>3, CacheCost
  <2>4. CASE WriteSync(r)
    <3>1. /\ pc[r] = "write" /\ \A q \in Requests \ {r} : pc'[q] = pc[q]
          /\ UpdateTokenStats(r) /\ UNCHANGED <<used, reload, stats>>
      BY <2>4, <1>pc DEF WriteSync, Goto
    <3>2. charged[r] = 0 /\ InWriting(r)
      BY <1>t, <3>1 DEF UsageSomewhere, Past, InWriting
    <3>3. \A q \in Requests \ {r} : InWriting(q) => InWriting(q)'
      BY <3>1 DEF InWriting
    <3> QED
      BY <3>1, <3>2, <3>3, RowCost
  <2> QED
    BY <1>1, <2>1, <2>2, <2>3, <2>4 DEF Handler
<1>2. CASE StatsWorker
  <2>1. CASE TakeStats \/ SeeSignal \/ StatsExit
    <3>1. UNCHANGED <<used, dbUsed, reload, charged, dropped, pc>> /\ stats.at = "run"
      BY <2>1 DEF TakeStats, SeeSignal, StatsExit
    <3>2. Booked' = Booked /\ Counted \subseteq Counted'
      BY <3>1 DEF Booked, Counted, InWriting
    <3> QED
      BY <3>1, <3>2, CostKept
  <2>2. CASE CountStats
    <3>0. PICK r \in Requests : r = stats.item
      BY <2>2, <1>t DEF CountStats, WaitingOnce, QueueTypes
    <3>1. /\ stats.at = "count" /\ stats' = [stats EXCEPT !.at = "write"]
          /\ AddCostToCache(r) /\ UNCHANGED <<dbUsed, reload, charged, dropped, pc>>
      BY <2>2, <3>0 DEF CountStats
    <3>2. r \in Waiting /\ r \notin dropped /\ charged[r] = 0 /\ Past(r)
      BY <1>t, <3>0 DEF UsageSomewhere, Waiting
    <3>3. stats'.at = "write" /\ stats'.item = r
      BY <3>0, <3>1, <1>t DEF QueueTypes
    <3>4. r \notin Counted /\ Counted \cup {r} \subseteq Counted'
      BY <3>1, <3>2, <3>3 DEF Counted, InWriting, Past
    <3> QED
      BY <3>1, <3>4, CacheCost
  <2>3. CASE WriteStats
    <3>0. PICK r \in Requests : r = stats.item
      BY <2>3, <1>t DEF WriteStats, WaitingOnce, QueueTypes
    <3>1. /\ stats.at = "write" /\ UpdateTokenStats(r) /\ UNCHANGED <<used, reload, pc>>
      BY <2>3, <3>0 DEF WriteStats
    <3>2. charged[r] = 0 /\ InWriting(r)
      BY <1>t, <3>0, <3>1 DEF UsageSomewhere, Waiting, InWriting
    <3>3. \A q \in Requests \ {r} : InWriting(q) => InWriting(q)'
      BY <3>0, <3>1 DEF InWriting
    <3> QED
      BY <3>1, <3>2, <3>3, RowCost
  <2> QED
    BY <1>2, <2>1, <2>2, <2>3 DEF StatsWorker
<1>3. ASSUME NEW l \in Limits, EditToken(l) PROVE CostInv'
  <2>1. UNCHANGED <<used, dbUsed, charged, dropped, stats, pc>> /\ reload' = [limit |-> l, used |-> dbUsed]
    BY <1>3 DEF EditToken
  <2>2. Booked' = Booked /\ Counted' = Counted
    BY <2>1 DEF Booked, Counted, InWriting
  <2>3. dbUsed \in Nat /\ reload'.used = dbUsed
    BY <2>1, <1>t DEF BookTypes
  <2> QED
    BY <2>1, <2>2, <2>3 DEF CostInv, CostsEarned
<1>4. CASE ReloadAuthTokens
  <2>1. UNCHANGED <<dbUsed, charged, dropped, stats, pc>> /\ reload' = Nil
    BY <1>4 DEF ReloadAuthTokens
  <2>2. Booked' = Booked /\ Counted' = Counted
    BY <2>1 DEF Booked, Counted, InWriting
  <2>3. /\ reload.used \in Nat /\ reload.limit \in Nat /\ limit \in Nat /\ used \in Nat /\ dbUsed \in Nat
        /\ reload.used <= dbUsed
    BY <1>4, <1>t, BillingAssumption DEF ReloadAuthTokens, BookTypes, CostInv
  <2>4. Cardinality(Booked) <= Cardinality(Counted) /\ Cardinality(Booked) \in Nat /\ Cardinality(Counted) \in Nat
    <3>1. Counted \in SUBSET Requests /\ Booked \in SUBSET Requests /\ Booked \in SUBSET Counted
      BY DEF Booked, Counted
    <3> QED
      BY <3>1, Sizes
  <2>5. Max({used, reload.used}) \in Nat /\ Max({used, reload.used}) <= Cardinality(Counted)
    <3>1. used <= Cardinality(Counted) /\ reload.used <= Cardinality(Counted)
      BY <2>3, <2>4 DEF CostInv, CostsEarned
    <3> QED
      BY <2>3, <3>1, MaxPair DEF PairMaximum
  <2>6. used' <= Cardinality(Counted)
    BY <1>4, <2>3, <2>4, <2>5 DEF ReloadAuthTokens, CostInv, CostsEarned
  <2> QED
    BY <2>1, <2>2, <2>6 DEF CostInv, CostsEarned
<1>5. ASSUME NEW c \in Callers, Shutdown(c) PROVE CostInv'
  <2>1. UNCHANGED <<used, dbUsed, reload, charged, stats, dropped, pc>>
    BY <1>5 DEF Shutdown, Call, Signal, Wait, CloseStore, AwaitDone
  <2> QED
    BY <2>1, <1>q
<1>6. CASE UNCHANGED vars
  <2>1. UNCHANGED <<used, dbUsed, reload, charged, stats, dropped, pc>>
    BY <1>6 DEF vars
  <2> QED
    BY <2>1, <1>q
<1> QED
  BY <1>1, <1>2, <1>3, <1>4, <1>5, <1>6 DEF Next

LEMMA CostInit == Init => CostInv
<1> SUFFICES ASSUME Init PROVE CostInv
  OBVIOUS
<1>1. Booked \in SUBSET Requests /\ Counted \in SUBSET Requests
  BY DEF Booked, Counted
<1>2. Cardinality(Booked) \in Nat /\ Cardinality(Counted) \in Nat
  BY <1>1, Sizes
<1> QED
  BY <1>2 DEF Init, CostInv, CostsEarned

-------------------------------------------------------------------------------
(* The race at the end.  Once Shutdown has been called no handler gets to the *)
(* queue but those that were on their way to it, so what is queued behind the *)
(* worker's back comes from them.                                             *)

RaceInv ==
    /\ sig => flag
    /\ \A c \in Callers : down[c] = "signal" => flag
    /\ flag => \A r \in Requests : pc[r] = "send" => r \in raced
    /\ Stranded \subseteq raced

\* A step that queues nothing and sends no handler to the queue.
LEMMA RaceQuiet ==
    ASSUME RaceInv, UNCHANGED <<downVars, statsQ>>, stats'.at = "exited" => stats.at = "exited",
           flag => \A r \in Requests : pc'[r] = "send" => pc[r] = "send"
    PROVE  RaceInv'
BY DEF RaceInv, downVars, Stranded

LEMMA RaceHandler ==
    ASSUME UsageInv, RaceInv, NEW r \in Requests, Handler(r)
    PROVE  RaceInv'
<1>pc. pc \in [Requests -> {"new", "admit", "run", "stats", "send",
                             "count", "write", "release", "rejected", "done"}]
  BY DEF UsageInv, Typed, UsageTypes
<1>1. CASE SendStats(r)
  <2>1. /\ pc[r] = "send" /\ pc'[r] = "release" /\ \A q \in Requests \ {r} : pc'[q] = pc[q]
        /\ UNCHANGED <<downVars, stats>>
    BY <1>1, <1>pc DEF SendStats, Goto
  <2>2. \A q \in Requests : pc'[q] = "send" => pc[q] = "send"
    BY <2>1
  <2>3. CASE statsQ' = statsQ
    BY <2>1, <2>2, <2>3, RaceQuiet
  <2>4. CASE statsQ' = Append(statsQ, r)
    <3>1. Queued(statsQ') = Queued(statsQ) \cup {r}
      BY <2>4, Queueing DEF UsageInv, Typed, QueueTypes
    <3>2. stats.at = "exited" => flag
      BY DEF UsageInv, DrainAfterSignal, RaceInv
    <3>3. stats.at = "exited" => r \in raced /\ Queued(statsQ) \subseteq raced
      BY <2>1, <3>2 DEF RaceInv, Stranded
    <3>4. Stranded' \subseteq raced'
      BY <2>1, <3>1, <3>3 DEF Stranded, downVars
    <3> QED
      BY <2>1, <2>2, <3>4 DEF RaceInv, downVars
  <2> QED
    BY <1>1, <2>3, <2>4 DEF SendStats
<1>2. CASE Arrive(r) \/ enforceTokenLimits(r) \/ (\E b \in BOOLEAN : Finish(r, b))
             \/ updateTokenStatsAsync(r) \/ CountSync(r) \/ WriteSync(r) \/ ReleaseSlot(r)
  <2>1. UNCHANGED <<downVars, statsQ, stats>>
    BY <1>2 DEF Arrive, enforceTokenLimits, Finish, updateTokenStatsAsync, CountSync, WriteSync, ReleaseSlot
  <2>2. flag => \A q \in Requests : pc'[q] = "send" => pc[q] = "send"
    BY <1>2, <1>pc DEF Goto, Arrive, enforceTokenLimits, Finish, updateTokenStatsAsync, CountSync, WriteSync,
                       ReleaseSlot
  <2> QED
    BY <2>1, <2>2, RaceQuiet
<1> QED
  BY <1>1, <1>2 DEF Handler

LEMMA RaceWorker ==
    ASSUME UsageInv, RaceInv, StatsWorker
    PROVE  RaceInv'
<1>t. statsQ \in Seq(Requests)
      /\ stats \in [at : {"run", "count", "write", "exited"}, item : Requests \cup {Nil}, draining : BOOLEAN]
  BY DEF UsageInv, Typed, QueueTypes
<1>1. UNCHANGED <<pc, downVars>>
  BY DEF StatsWorker, TakeStats, CountStats, WriteStats, SeeSignal, StatsExit, handlerVars
<1>2. CASE StatsExit
  <2>1. Queued(statsQ') = {}
    BY <1>2 DEF StatsExit, Queued
  <2> QED
    BY <1>1, <2>1 DEF RaceInv, Stranded, downVars
<1>3. CASE TakeStats \/ CountStats \/ WriteStats \/ SeeSignal
  <2>1. stats'.at # "exited"
    BY <1>3, <1>t DEF TakeStats, CountStats, WriteStats, SeeSignal
  <2> QED
    BY <1>1, <2>1 DEF RaceInv, Stranded, downVars
<1> QED
  BY <1>2, <1>3 DEF StatsWorker

LEMMA RaceShutdown ==
    ASSUME UsageInv, RaceInv, NEW c \in Callers, Shutdown(c)
    PROVE  RaceInv'
<1>t. /\ down \in [Callers -> {"idle", "signal", "wait", "close", "waitDone", "nil", "error"}]
      /\ flag \in BOOLEAN /\ sig \in BOOLEAN
  BY DEF UsageInv, Typed, DownTypes
<1>1. UNCHANGED <<pc, statsQ, stats>>
  BY DEF Shutdown, Call, Signal, Wait, CloseStore, AwaitDone, requestVars
<1>2. CASE Call(c)
  <2>1. /\ flag' = TRUE /\ sig' = sig
        /\ raced' = IF flag THEN raced ELSE {r \in Requests : pc[r] = "send"}
    BY <1>2 DEF Call
  <2>2. \A r \in Requests : pc'[r] = "send" => r \in raced'
    BY <1>1, <2>1 DEF RaceInv
  <2>3. Stranded' \subseteq raced'
    <3>1. stats.at = "exited" => flag
      BY DEF UsageInv, DrainAfterSignal, RaceInv
    <3> QED
      BY <1>1, <2>1, <3>1 DEF RaceInv, Stranded
  <2> QED
    BY <2>1, <2>2, <2>3 DEF RaceInv
<1>3. CASE Signal(c) \/ Wait(c) \/ CloseStore(c) \/ AwaitDone(c)
  <2>1. UNCHANGED <<flag, raced>> /\ (sig' => sig \/ flag)
    BY <1>3 DEF Signal, Wait, CloseStore, AwaitDone, RaceInv
  <2>2. \A d \in Callers : down'[d] = "signal" => down[d] = "signal"
    BY <1>3, <1>t DEF Signal, Wait, CloseStore, AwaitDone
  <2> QED
    BY <1>1, <2>1, <2>2 DEF RaceInv, Stranded
<1> QED
  BY <1>2, <1>3 DEF Shutdown

LEMMA RaceNext ==
    ASSUME UsageInv, RaceInv, [Next]_vars
    PROVE  RaceInv'
<1>1. CASE (\E l \in Limits : EditToken(l)) \/ ReloadAuthTokens
  <2>1. UNCHANGED <<requestVars, downVars>>
    BY <1>1 DEF EditToken, ReloadAuthTokens
  <2> QED
    BY <2>1, RaceQuiet DEF requestVars
<1>2. CASE UNCHANGED vars
  BY <1>2, RaceQuiet DEF vars
<1> QED
  BY <1>1, <1>2, RaceHandler, RaceWorker, RaceShutdown DEF Next

LEMMA RaceInit == Init => RaceInv
BY DEF Init, RaceInv, Stranded

\* Every finished request's usage is booked once or given up in the open, on the
\* queue, on the synchronous path past it and through the final drain, except for
\* handlers that Shutdown overtook between isShuttingDown and the queue; and
\* neither the token's row nor its cached cost counts it twice.
THEOREM BillingUsageBookedOnce == Spec => []UsageBookedOnce
<1>1. UsageInv /\ CostInv /\ RaceInv => UsageBookedOnce
  <2> SUFFICES ASSUME UsageInv, CostInv, RaceInv PROVE UsageBookedOnce
    OBVIOUS
  <2>1. UsageSomewhere /\ DrainAfterSignal
    BY DEF UsageInv
  <2>2. Stranded \subseteq Overtaken
    BY <2>1 DEF RaceInv, DrainAfterSignal, Stranded, Overtaken
  <2>3. UpdatesConserved
    BY <2>1, <2>2 DEF UsageSomewhere, Past, Waiting, UpdatesConserved
  <2>4. ChargedOnce
    BY <2>1 DEF UsageSomewhere, Waiting, ChargedOnce, Holds
  <2>5. CostsEarned
    BY DEF CostInv
  <2> QED
    BY <2>3, <2>4, <2>5 DEF UsageBookedOnce
<1> QED
  BY <1>1, UsageInit, UsageNext, CostInit, CostNext, RaceInit, RaceNext, PTL DEF Spec

\* Every variable keeps to its type.
THEOREM BillingTypeInvariant == Spec => []TypeOK
<1>1. UsageInv /\ CostInv => TypeOK
  <2> SUFFICES ASSUME UsageInv, CostInv PROVE TypeOK
    OBVIOUS
  <2>1. Booked \in SUBSET Requests /\ Counted \in SUBSET Requests
    BY DEF Booked, Counted
  <2>2. /\ Cardinality(Booked) <= Cardinality(Requests) /\ Cardinality(Counted) <= Cardinality(Requests)
        /\ Cardinality(Booked) \in Nat /\ Cardinality(Counted) \in Nat /\ Cardinality(Requests) \in Nat
    BY <2>1, Sizes, BillingAssumption, FS_CardinalityType
  <2>3. BookTypes /\ QueueTypes /\ UsageTypes /\ DownTypes
    BY DEF UsageInv, Typed
  <2>4. used \in Costs /\ dbUsed \in Costs
    BY <2>2, <2>3 DEF CostInv, CostsEarned, Costs, BookTypes
  <2>5. reload \in {Nil} \cup [limit : Limits, used : Costs]
    <3>1. CASE reload = Nil
      BY <3>1
    <3>2. CASE reload # Nil
      <4>1. reload \in [limit : Limits, used : Nat] /\ reload.used <= dbUsed
        BY <3>2, <2>3 DEF BookTypes, CostInv
      <4>2. reload.used \in Costs
        <5>1. reload.used \in Nat /\ dbUsed \in 0..2 * Cardinality(Requests)
          BY <4>1, <2>4 DEF Costs
        <5> QED
          BY <4>1, <5>1, <2>2 DEF Costs
      <4> QED
        BY <4>1, <4>2
    <3> QED
      BY <3>1, <3>2
  <2> QED
    BY <2>3, <2>4, <2>5 DEF TypeOK, QueueTypes, UsageTypes, BookTypes, DownTypes
<1> QED
  BY <1>1, UsageInit, UsageNext, CostInit, CostNext, PTL DEF Spec
===============================================================================
