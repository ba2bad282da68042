------------------------------ MODULE OAuthProofs ------------------------------
(***************************************************************************)
(* OAuthLogin, with the credential managers and the channel cache below    *)
(* it, for every set of readers and writers, every TTL and load time, and  *)
(* any number of writes, logins and refreshes.                             *)
(***************************************************************************)
EXTENDS OAuthLogin, TLAPS

\* Requests use the OAuth caches and the readers of the list the others; one
\* login beside requests, several without.
Separate ==
    /\ cache \notin {"oauth", "login"} =>
         \A l \in Logins : session[l] = NoSession
    /\ cache \in {"oauth", "login"} =>
         \A r \in Readers : pc[r] = "idle" /\ result[r] = -1
    /\ cache # "oauth" =>
         /\ \A r \in Readers : job[r] = NoJob
         /\ entry = NoCredential /\ spent = {} /\ flying = NoReader
    /\ cache # "login" => \A l \in Logins : l # 1 => session[l] = NoSession
    /\ cache # "login" => ~closed /\ active \in {0, 1} /\ \A l \in Logins : ~session[l].ended

-------------------------------------------------------------------------------
(* The channel cache.                                                      *)

\* What is under way is not older than it takes.
LoadsRecent ==
    Timed => /\ \A r \in Readers : pc[r] = "store" => Outdated(got[r]) <= took[r]
             /\ Fresh => Outdated(cached.ver) <= cached.age + MaxLoad

\* Without a TTL: what is under way, or in the cache, was read after the last
\* invalidation, unless the entry was overtaken.
LoadsValid ==
    /\ invalidated <= db /\ \A r \in Readers : safe[r] <= invalidated
    /\ cache = "apiKeys" =>
         /\ Fresh /\ ~overtaken => cached.ver >= invalidated
         /\ \A r \in Readers : pc[r] = "store" => got[r] >= safe[r]

OnlyReturned == \A r \in Readers : result[r] >= 0 => pc[r] = "returned"

VersionsPast == cached.ver <= db /\ \A r \in Readers : got[r] <= db

\* refreshMutex, of the channel list alone.
OneRefresh ==
    /\ \A r \in Readers : pc[r] \in {"refresh", "recheck"} => cache = "channels"
    /\ cache = "channels" =>
         \A r \in Readers : pc[r] \in {"recheck", "load", "store"} => refresh = r
    /\ cache = "channels" =>
         \A r \in Readers : pc[r] = "store" => got[r] >= cached.ver

CacheInv ==
    /\ LoadsRecent /\ LoadsValid /\ OnlyReturned /\ VersionsPast /\ OneRefresh
    /\ StalenessBounded

-------------------------------------------------------------------------------
(* Logins.                                                                 *)

\* What an ended login has not done, and where a live one is.
LoginSteps ==
    \A l \in Logins :
        LET s == session[l]
        IN  /\ s.status \in {"none", "pending"} => latest # l /\ ~s.ended
            /\ s.status = "none" => s = NoSession
            /\ s.status # "none" => s.at # "none"
            /\ s.status = "pending" => s.at \in {"select", "exchange", "close", "finish"}
            /\ s.ended /\ ~closed => s.at \notin {"commit", "models", "drop", "unlist"}
            /\ s.at \in {"select", "exchange", "commit", "models"} => ~s.err
            /\ s.status = "cancelled" => s.ended

LoginsInv == LoginsClean /\ LoginSteps

-------------------------------------------------------------------------------
(* Credentials.                                                            *)

Flights == {"fly", "present", "save", "models", "unlist", "enter"}
Taken == {"present", "save", "models", "unlist", "enter"}

\* Singleflight, and which steps a flight has.
OneFlight ==
    \A r \in Readers :
        /\ job[r].at \in Flights => flying = r
        /\ job[r].at = "present" => job[r].token
        /\ job[r].at = "models" => provider = "codex"

\* A request that may look for a credential has a configuration with one.
HasConfig ==
    \A r \in Readers :
        LET j == job[r]
        IN  /\ j.at \in {"peek", "join", "wait", "fly"} \/ (j.at # "none" /\ ~j.forced) =>
                 j.cfg \in Credentials
            /\ j.at \in Taken => j.cred \in Credentials

\* The versions to come repeat the newest credential.
RowLasts == \A v \in Versions : v >= db => content[v] = Row

Before(c) == [c EXCEPT !.turn = @ - 1]
After(c) == [c EXCEPT !.turn = @ + 1]

\* Credentials come from the logins so far, and by one refresh after the other.
KnownIn(c, n, s) == c.login <= n /\ (c.turn > 0 => Before(c) \in s)
Known(c) == KnownIn(c, latest, spent)

AllKnown ==
    cache = "oauth" =>
      /\ \A v \in Versions : Known(content[v])
      /\ Known(entry)
      /\ \A r \in Readers : Known(job[r].cfg) /\ Known(job[r].cred) /\ job[r].base <= dropped
      /\ \A c \in spent : Known(c)

\* Login l wrote the row and has yet to make it known.
Wrote(l) ==
    LET s == session[l]
    IN  s.at \in {"models", "drop"} \/ (s.at \in {"close", "finish"} /\ ~s.err)

LoginSoFar ==
    cache = "oauth" =>
      /\ latest \in {0, 1} /\ dropped <= latest
      /\ \A l \in Logins : l = 1 =>
           /\ session[l].at \in {"none", "select", "exchange", "commit"} => latest = 0
           /\ Wrote(l) => latest = 1
           /\ session[l].at \notin {"unlist", "over"} => dropped = 0

Excused == excused \cap {"revived", "overlap"} # {}

\* Once a login has made itself known only its credentials are used.
OldGone ==
    ~Excused =>
      /\ Row.login = latest
      /\ dropped = latest => entry = NoCredential \/ entry.login = latest
      /\ \A r \in Readers : job[r].at \in Taken /\ job[r].base = latest => job[r].cred.login = latest

\* A flight that has written its credential and not entered it.
Entering(r) == job[r].at \in {"models", "enter"} \/ (job[r].at = "unlist" /\ provider = "codex")

Settled == (\A r \in Readers : ~Entering(r)) /\ (\A l \in Logins : ~Wrote(l)) /\ excused = {} /\ ~closed

EntryIsRow == Settled => entry \in {NoCredential, Row}

\* While a flight makes its credential known it is the row, until the next login.
FlightIsRow ==
    \A r \in Readers : job[r].at \in {"models", "unlist", "enter"} =>
        job[r].cred = Row \/ job[r].cred.login < latest

\* A login that failed after its first write has all the same become the only one, if
\* nothing is excused any more.
FailedKept ==
    cache = "oauth" /\ latest = 1 /\ dropped = 0 /\ excused = {} /\ (\A l \in Logins : ~Wrote(l)) =>
      /\ entry = NoCredential \/ entry.login = 1
      /\ \A r \in Readers : job[r].at \in Taken => job[r].cred.login = 1

KeptInv == LoginSoFar /\ OldGone /\ EntryIsRow /\ FlightIsRow /\ FailedKept

\* A rotated credential that is not accounted for.
Stale(c) == c \in spent /\ c \notin orphans /\ ~(c.login < dropped)

Pending == {"save", "models", "unlist", "enter"}
Follows(r, c) == job[r].token /\ job[r].cred = After(c)

\* Without an entry nothing was refreshed, before a login drops one.
NothingYet ==
    entry = NoCredential /\ dropped = 0 => spent = {} /\ \A r \in Readers : job[r].at \in {"none", "peek"}

\* A rotated credential is the entry, or the row, only while the flight that rotated
\* it has its successor in hand.
OneSuccessor ==
    "revived" \notin excused \/ dropped = 0 =>
      /\ entry # NoCredential /\ Stale(entry) =>
           \E r \in Readers : job[r].at \in Pending /\ Follows(r, entry)
                /\ (job[r].at = "unlist" => provider = "codex")
      /\ Stale(Row) => \E r \in Readers : job[r].at = "save" /\ Follows(r, Row)
      /\ \A r \in Readers : job[r].at \in Taken /\ (job[r].token => job[r].at = "present") => ~Stale(job[r].cred)

FreshNext ==
    \A r \in Readers : job[r].at \in Pending /\ job[r].token => job[r].cred \notin spent /\ job[r].cred.turn > 0

OnceInv == NothingYet /\ OneSuccessor /\ FreshNext

-------------------------------------------------------------------------------
(* Types.                                                                  *)

JobType ==
    [at : Steps, cfg : Credentials \cup {NoCredential}, cred : Credentials \cup {NoCredential},
     forced : BOOLEAN, direct : BOOLEAN, token : BOOLEAN, base : 0..MaxLogins]

SessionType ==
    [status : Statuses,
     at : {"none", "select", "exchange", "commit", "models", "close", "finish", "drop", "unlist", "over"},
     box : {"empty", "code", "error", "taken"},
     err : BOOLEAN, listens : BOOLEAN, shut : BOOLEAN, ended : BOOLEAN]

TypeInv == OAuthTypeOK /\ HasConfig

LEMMA Capped ==
    ASSUME NEW a \in Int, NEW b \in Int
    PROVE  Min({a + 1, b}) = IF a + 1 <= b THEN a + 1 ELSE b
BY DEF Min

LEMMA Numbers ==
    /\ TTL \in Nat /\ MaxLoad \in Nat /\ MaxWrites \in Nat /\ MaxLogins \in Nat /\ MaxTurns \in Nat
    /\ Horizon \in Nat
BY CacheAssumption, CredentialAssumption DEF Horizon

LEMMA Constants ==
    /\ Invalid \in [ver : Versions, age : 0..TTL + 1]
    /\ NoJob \in JobType /\ NoJob.at = "none"
    /\ [login |-> 0, turn |-> 0] \in Credentials /\ NoCredential \notin Credentials
BY Numbers DEF Versions, Invalid, NoJob, JobType, Steps, NoCredential, Credentials

Phases == {"idle", "refresh", "recheck", "load", "store", "returned", "invalidate"}

LEMMA TypeInit == OAuthInit => TypeInv
<1> SUFFICES ASSUME OAuthInit PROVE TypeInv
  OBVIOUS
<1>1. TypeOK
  <2>1. /\ wrote \in [Versions -> 0..Horizon] /\ took \in [Readers -> 0..MaxLoad]
        /\ db \in Versions /\ invalidated \in Versions
        /\ got \in [Readers -> Versions] /\ safe \in [Readers -> Versions]
    BY Numbers DEF OAuthInit, Init, Versions
  <2>2. /\ pc \in [Readers \cup Writers -> Phases] /\ result \in [Readers -> Versions \cup {-1}]
    BY DEF OAuthInit, Init, Phases
  <2> QED
    BY <2>1, <2>2, Constants DEF OAuthInit, Init, TypeOK, Phases
<1>2. CredentialsOK
  <2>1. job \in [Readers -> JobType]
    BY Constants DEF OAuthInit, CredentialsInit
  <2>2. content \in [Versions -> Credentials]
    BY Constants DEF OAuthInit, CredentialsInit
  <2>3. latest \in 0..MaxLogins /\ dropped \in 0..MaxLogins
    BY Numbers DEF OAuthInit, CredentialsInit
  <2> QED
    BY <2>1, <2>2, <2>3 DEF OAuthInit, CredentialsInit, CredentialsOK, JobType
<1>3. session \in [Logins -> SessionType]
  BY DEF OAuthInit, NoSession, SessionType, Statuses
<1>4. OAuthTypeOK
  BY <1>1, <1>2, <1>3 DEF OAuthInit, OAuthTypeOK, SessionType
<1>5. HasConfig
  BY Constants DEF OAuthInit, CredentialsInit, HasConfig, Taken
<1> QED
  BY <1>4, <1>5 DEF TypeInv

LEMMA TypeMoves ==
    ASSUME TypeOK, NEW p \in Readers \cup Writers, NEW to \in Phases, Goto(p, to)
    PROVE  pc' \in [Readers \cup Writers -> Phases]
BY DEF TypeOK, Goto, Phases

LEMMA TypeReturns ==
    ASSUME TypeOK, NEW r \in Readers, NEW v \in Versions, Return(r, v)
    PROVE  /\ result' \in [Readers -> Versions \cup {-1}]
           /\ got' \in [Readers -> Versions] /\ took' \in [Readers -> 0..MaxLoad]
<1>1. result \in [Readers -> Versions \cup {-1}] /\ got \in [Readers -> Versions]
  BY DEF TypeOK
<1>2. took \in [Readers -> 0..MaxLoad]
  BY DEF TypeOK
<1>3. 0 \in Versions /\ 0 \in 0..MaxLoad
  BY Numbers DEF Versions
<1> QED
  BY <1>1, <1>2, <1>3 DEF Return

LEMMA TypeWrites ==
    ASSUME TypeOK, WriteTable
    PROVE  db' \in Versions /\ wrote' \in [Versions -> 0..Horizon]
<1>1. db' \in Versions
  BY Numbers DEF TypeOK, WriteTable, Versions
<1>2. wrote \in [Versions -> 0..Horizon] /\ 0 \in 0..Horizon
  BY Numbers DEF TypeOK
<1> QED
  BY <1>1, <1>2 DEF WriteTable

LEMMA TypeCache ==
    ASSUME TypeOK, Next
    PROVE  TypeOK'
<1>1. ASSUME NEW r \in Readers, Lookup(r) PROVE TypeOK'
  <2>1. pc' \in [Readers \cup Writers -> Phases]
    BY <1>1, TypeMoves DEF Lookup, AfterMiss, Phases
  <2>2. safe' \in [Readers -> Versions]
    <3>1. safe \in [Readers -> Versions] /\ invalidated \in Versions /\ 0 \in Versions
      BY Numbers DEF TypeOK, Versions
    <3> QED
      BY <1>1, <3>1 DEF Lookup
  <2>3. /\ result' \in [Readers -> Versions \cup {-1}]
        /\ got' \in [Readers -> Versions] /\ took' \in [Readers -> 0..MaxLoad]
    <3>1. CASE Fresh
      <4>1. cached.ver \in Versions
        BY DEF TypeOK
      <4> QED
        BY <1>1, <3>1, <4>1, TypeReturns DEF Lookup
    <3>2. CASE ~Fresh
      BY <1>1, <3>2 DEF Lookup, TypeOK
    <3> QED
      BY <3>1, <3>2
  <2> QED
    BY <1>1, <2>1, <2>2, <2>3 DEF TypeOK, Lookup, Phases
<1>2. ASSUME NEW r \in Readers, TakeRefresh(r) PROVE TypeOK'
  <2>1. pc' \in [Readers \cup Writers -> Phases]
    BY <1>2, TypeMoves DEF TakeRefresh, Phases
  <2> QED
    BY <1>2, <2>1 DEF TypeOK, TakeRefresh, Phases
<1>3. ASSUME NEW r \in Readers, Recheck(r) PROVE TypeOK'
  <2>1. pc' \in [Readers \cup Writers -> Phases]
    BY <1>3, TypeMoves DEF Recheck, Phases
  <2>2. refresh' \in Readers \cup {NoReader}
    BY <1>3 DEF Recheck, TypeOK
  <2>3. /\ result' \in [Readers -> Versions \cup {-1}]
        /\ got' \in [Readers -> Versions] /\ took' \in [Readers -> 0..MaxLoad]
    <3>1. CASE Fresh
      <4>1. cached.ver \in Versions
        BY DEF TypeOK
      <4> QED
        BY <1>3, <3>1, <4>1, TypeReturns DEF Recheck
    <3>2. CASE ~Fresh
      BY <1>3, <3>2 DEF Recheck, TypeOK
    <3> QED
      BY <3>1, <3>2
  <2> QED
    BY <1>3, <2>1, <2>2, <2>3 DEF TypeOK, Recheck, Phases
<1>4. ASSUME NEW r \in Readers, Load(r) PROVE TypeOK'
  <2>1. pc' \in [Readers \cup Writers -> Phases]
    BY <1>4, TypeMoves DEF Load, Phases
  <2>2. got' \in [Readers -> Versions]
    BY <1>4 DEF TypeOK, Load
  <2>3. took' \in [Readers -> 0..MaxLoad]
    <3>1. took \in [Readers -> 0..MaxLoad] /\ 0 \in 0..MaxLoad
      BY Numbers DEF TypeOK
    <3> QED
      BY <1>4, <3>1 DEF Load
  <2> QED
    BY <1>4, <2>1, <2>2, <2>3 DEF TypeOK, Load, Phases
<1>5. ASSUME NEW r \in Readers, LoadFails(r) PROVE TypeOK'
  <2>1. pc' \in [Readers \cup Writers -> Phases]
    BY <1>5, TypeMoves DEF LoadFails, Phases
  <2>2. refresh' \in Readers \cup {NoReader}
    BY <1>5 DEF LoadFails, Unhold, TypeOK
  <2>3. /\ result' \in [Readers -> Versions \cup {-1}]
        /\ got' \in [Readers -> Versions] /\ took' \in [Readers -> 0..MaxLoad]
    <3>1. CASE cache = "channels"
      <4>1. db \in Versions
        BY DEF TypeOK
      <4> QED
        BY <1>5, <3>1, <4>1, TypeReturns DEF LoadFails
    <3>2. CASE cache # "channels"
      BY <1>5, <3>2 DEF LoadFails, TypeOK
    <3> QED
      BY <3>1, <3>2
  <2>4. safe' \in [Readers -> Versions]
    <3>1. safe \in [Readers -> Versions] /\ 0 \in Versions
      BY Numbers DEF TypeOK, Versions
    <3> QED
      BY <1>5, <3>1 DEF LoadFails
  <2> QED
    BY <1>5, <2>1, <2>2, <2>3, <2>4 DEF TypeOK, LoadFails, Phases
<1>6. ASSUME NEW r \in Readers, Store(r) PROVE TypeOK'
  <2>1. pc' \in [Readers \cup Writers -> Phases]
    BY <1>6, TypeMoves DEF Store, Phases
  <2>2. refresh' \in Readers \cup {NoReader}
    BY <1>6 DEF Store, Unhold, TypeOK
  <2>3. got[r] \in Versions /\ 0 \in 0..TTL + 1
    BY Numbers DEF TypeOK
  <2>4. /\ result' \in [Readers -> Versions \cup {-1}]
        /\ got' \in [Readers -> Versions] /\ took' \in [Readers -> 0..MaxLoad]
    BY <1>6, <2>3, TypeReturns DEF Store
  <2>5. cached' \in [ver : Versions, age : 0..TTL + 1] /\ overtaken' \in BOOLEAN
    BY <1>6, <2>3 DEF Store
  <2> QED
    BY <1>6, <2>1, <2>2, <2>4, <2>5 DEF TypeOK, Store, Phases
<1>7. ASSUME NEW r \in Readers, NextCall(r) PROVE TypeOK'
  <2>1. pc' \in [Readers \cup Writers -> Phases]
    BY <1>7, TypeMoves DEF NextCall, Phases
  <2>2. result' \in [Readers -> Versions \cup {-1}]
    BY <1>7 DEF NextCall, TypeOK
  <2>3. safe' \in [Readers -> Versions]
    <3>1. safe \in [Readers -> Versions] /\ 0 \in Versions
      BY Numbers DEF TypeOK, Versions
    <3> QED
      BY <1>7, <3>1 DEF NextCall
  <2> QED
    BY <1>7, <2>1, <2>2, <2>3 DEF TypeOK, NextCall, Phases
<1>8. ASSUME NEW w \in Writers, Commit(w) PROVE TypeOK'
  <2>1. pc' \in [Readers \cup Writers -> Phases]
    BY <1>8, TypeMoves DEF Commit, Phases
  <2>2. db' \in Versions /\ wrote' \in [Versions -> 0..Horizon]
    BY <1>8, TypeWrites DEF Commit
  <2> QED
    BY <1>8, <2>1, <2>2 DEF TypeOK, Commit, Phases
<1>9. ASSUME NEW w \in Writers, Invalidate(w) PROVE TypeOK'
  <2>1. pc' \in [Readers \cup Writers -> Phases]
    BY <1>9, TypeMoves DEF Invalidate, Phases
  <2>2. cached' \in [ver : Versions, age : 0..TTL + 1]
    <3>1. cached \in [ver : Versions, age : 0..TTL + 1] /\ TTL + 1 \in 0..TTL + 1
      BY Numbers DEF TypeOK
    <3> QED
      BY <1>9, <3>1 DEF Invalidate, DropCache
  <2> QED
    BY <1>9, <2>1, <2>2 DEF TypeOK, Invalidate, DropCache, Phases
<1>10. ASSUME Tick PROVE TypeOK'
  <2>1. cached' \in [ver : Versions, age : 0..TTL + 1]
    <3>1. cached.age \in Int /\ cached.age >= 0
      BY Numbers DEF TypeOK
    <3>2. Min({cached.age + 1, TTL + 1}) \in 0..TTL + 1
      BY <3>1, Capped, Numbers
    <3> QED
      BY <1>10, <3>2 DEF TypeOK, Tick, Aged
  <2>2. wrote' \in [Versions -> 0..Horizon]
    <3>1. ASSUME NEW v \in Versions PROVE Min({wrote[v] + 1, Horizon}) \in 0..Horizon
      <4>1. wrote[v] \in Int /\ wrote[v] >= 0
        BY Numbers DEF TypeOK
      <4> QED
        BY <4>1, Capped, Numbers
    <3>2. 0 \in 0..Horizon
      BY Numbers
    <3> QED
      BY <1>10, <3>1, <3>2 DEF Tick
  <2>3. took' \in [Readers -> 0..MaxLoad]
    <3>1. took \in [Readers -> 0..MaxLoad]
      BY DEF TypeOK
    <3>2. \A r \in Readers : pc[r] = "store" => took[r] < MaxLoad
      BY <1>10 DEF Tick
    <3>3. took' = [r \in Readers |-> IF pc[r] = "store" THEN took[r] + 1 ELSE took[r]]
      BY <1>10 DEF Tick
    <3> QED
      BY <3>1, <3>2, <3>3, Numbers
  <2> QED
    BY <1>10, <2>1, <2>2, <2>3 DEF TypeOK, Tick
<1> QED
  BY <1>1, <1>2, <1>3, <1>4, <1>5, <1>6, <1>7, <1>8, <1>9, <1>10 DEF Next

LEMMA TypeQuiet ==
    ASSUME TypeOK, UNCHANGED vars
    PROVE  TypeOK'
BY DEF TypeOK, vars

LEMMA TypeDrops ==
    ASSUME TypeOK, DropList, DropsOnly
    PROVE  TypeOK'
BY Constants DEF TypeOK, DropList, DropsOnly, Readings

LEMMA TypeRow ==
    ASSUME TypeOK, CredentialsOK, NEW c \in Credentials, WriteRow(c), WritesOnly
    PROVE  TypeOK' /\ content' \in [Versions -> Credentials]
<1>1. db' \in Versions /\ wrote' \in [Versions -> 0..Horizon]
  BY TypeWrites DEF WriteRow
<1>2. content \in [Versions -> Credentials]
  BY DEF CredentialsOK
<1> QED
  BY <1>1, <1>2 DEF WriteRow, WritesOnly, Readings, TypeOK

LEMMA RowTyped == TypeOK /\ CredentialsOK => Row \in Credentials
BY DEF TypeOK, CredentialsOK, Row

LEMMA JobsTyped == CredentialsOK <=> CredentialsOK /\ job \in [Readers -> JobType]
BY DEF CredentialsOK, JobType

\* What a flight's end leaves of the jobs.
LEMMA Lands ==
    ASSUME CredentialsOK, HasConfig, NEW r \in Readers, NEW c \in Credentials \cup {NoCredential}, Land(r, c),
           job[r].at \in Flights
    PROVE  /\ flying' \in Readers \cup {NoReader} /\ job' \in [Readers -> JobType] /\ HasConfig'
           /\ \A q \in Readers :
                \/ q # r /\ job[q].at # "wait" /\ job'[q] = job[q]
                \/ job'[q] = NoJob
                \/ /\ job'[q] = [job[q] EXCEPT !.at = "use", !.cred = NoCredential, !.token = FALSE, !.base = 0]
                   /\ c # NoCredential /\ (q = r \/ job[q].at = "wait")
<1>1. job \in [Readers -> JobType]
  BY JobsTyped
<1>2. \A q \in Readers :
        \/ q # r /\ job[q].at # "wait" /\ job'[q] = job[q]
        \/ job'[q] = NoJob
        \/ /\ job'[q] = [job[q] EXCEPT !.at = "use", !.cred = NoCredential, !.token = FALSE, !.base = 0]
           /\ c # NoCredential /\ (q = r \/ job[q].at = "wait")
  BY DEF Land
<1>3. ASSUME NEW q \in Readers PROVE job'[q] \in JobType
  <2>1. CASE job'[q] = [job[q] EXCEPT !.at = "use", !.cred = NoCredential, !.token = FALSE, !.base = 0]
    <3>1. job[q] \in JobType /\ 0 \in 0..MaxLogins /\ "use" \in Steps
      BY <1>1, Numbers DEF Steps
    <3>2. [job[q] EXCEPT !.at = "use", !.cred = NoCredential, !.token = FALSE, !.base = 0] \in JobType
      BY <3>1 DEF JobType
    <3> QED
      BY <2>1, <3>2
  <2> QED
    BY <1>1, <1>2, <2>1, Constants
<1>4. job' \in [Readers -> JobType]
  BY <1>3 DEF Land
<1>5. HasConfig'
  <2> SUFFICES ASSUME NEW q \in Readers
               PROVE  /\ job'[q].at \in {"peek", "join", "wait", "fly"} \/ (job'[q].at # "none" /\ ~job'[q].forced) =>
                           job'[q].cfg \in Credentials
                      /\ job'[q].at \in Taken => job'[q].cred \in Credentials
    BY DEF HasConfig
  <2>1. CASE job'[q] = job[q]
    BY <2>1 DEF HasConfig
  <2>2. CASE job'[q] = NoJob
    BY <2>2 DEF NoJob, Taken
  <2>3. CASE /\ job'[q] = [job[q] EXCEPT !.at = "use", !.cred = NoCredential, !.token = FALSE, !.base = 0]
             /\ (q = r \/ job[q].at = "wait")
    <3>1. job[q] \in JobType
      BY <1>1
    <3>2. job'[q].at = "use" /\ job'[q].forced = job[q].forced /\ job'[q].cfg = job[q].cfg
      BY <2>3, <3>1 DEF JobType
    <3>3. job[q].at # "none"
      BY <2>3 DEF Flights
    <3> QED
      BY <3>2, <3>3 DEF HasConfig, Taken
  <2> QED
    BY <1>2, <2>1, <2>2, <2>3
<1> QED
  BY <1>2, <1>4, <1>5 DEF Land

\* One request's step on its own job.
LEMMA OwnJob ==
    ASSUME job \in [Readers -> JobType], HasConfig, NEW r \in Readers, NEW j \in JobType,
           job' = [job EXCEPT ![r] = j],
           j.at \in {"peek", "join", "wait", "fly"} \/ (j.at # "none" /\ ~j.forced) => j.cfg \in Credentials,
           j.at \in Taken => j.cred \in Credentials
    PROVE  job' \in [Readers -> JobType] /\ HasConfig'
<1>1. job' \in [Readers -> JobType]
  OBVIOUS
<1>2. \A q \in Readers : job'[q] = IF q = r THEN j ELSE job[q]
  OBVIOUS
<1> QED
  BY <1>1, <1>2 DEF HasConfig

LEMMA TypeRequest ==
    ASSUME TypeInv, NEW r \in Readers, Request(r)
    PROVE  TypeOK' /\ CredentialsOK' /\ HasConfig'
<1>1. TypeOK /\ CredentialsOK /\ HasConfig
  BY DEF TypeInv, OAuthTypeOK
<1>2. job \in [Readers -> JobType] /\ job[r] \in JobType
  BY <1>1, JobsTyped
<1>3. Row \in Credentials
  BY <1>1, RowTyped
<1>4. ASSUME job[r].at \in {"peek", "fly"}
      PROVE  Found(r) \in Credentials
  BY <1>1, <1>4 DEF HasConfig, CredentialsOK, Found
<1>5. ASSUME cachedOrParse(r), job[r].at \in {"peek", "fly"}
      PROVE  /\ entry' \in Credentials \cup {NoCredential}
             /\ excused' \subseteq {"revived", "overlap", "lost"}
  BY <1>1, <1>4, <1>5 DEF cachedOrParse, CredentialsOK
<1>6. CASE TakeConfig(r)
  <2>1. PICK v \in IF Fresh THEN {cached.ver} ELSE {db, db - 1} \cap Versions :
          /\ cached' = [ver |-> v, age |-> 0]
          /\ job' = [job EXCEPT ![r] = [NoJob EXCEPT !.at = "peek", !.cfg = content[v]]]
    BY <1>6 DEF TakeConfig
  <2>2. v \in Versions
    BY <1>1 DEF TypeOK
  <2>3. content[v] \in Credentials
    BY <1>1, <2>2 DEF CredentialsOK
  <2>4. cached' \in [ver : Versions, age : 0..TTL + 1]
    BY <2>1, <2>2, Numbers
  <2>5. TypeOK'
    BY <1>1, <1>6, <2>4 DEF TypeOK, TakeConfig, DropsOnly, Readings
  <2> DEFINE j == [NoJob EXCEPT !.at = "peek", !.cfg = content[v]]
  <2>6. j \in JobType /\ j.cfg \in Credentials /\ j.at = "peek"
    BY <2>3, Constants DEF JobType, Steps
  <2>7. job' \in [Readers -> JobType] /\ HasConfig'
    <3>1. job' = [job EXCEPT ![r] = j]
      BY <2>1
    <3> HIDE DEF j
    <3> QED
      BY <1>1, <1>2, <3>1, <2>6, OwnJob DEF Taken
  <2> QED
    BY <1>1, <1>6, <2>5, <2>7 DEF TakeConfig, CredentialsOK, JobType
<1>7. CASE Direct(r)
  <2> DEFINE j == [NoJob EXCEPT !.at = "peek", !.cfg = Row, !.forced = TRUE, !.direct = TRUE]
  <2>1. j \in JobType /\ j.cfg \in Credentials /\ j.at = "peek"
    BY <1>3, Constants DEF JobType, Steps
  <2>2. job' = [job EXCEPT ![r] = j]
    BY <1>7 DEF Direct
  <2>3. job' \in [Readers -> JobType] /\ HasConfig'
    <3> HIDE DEF j
    <3> QED
      BY <1>1, <1>2, <2>1, <2>2, OwnJob DEF Taken
  <2> QED
    BY <1>1, <1>7, <2>3, TypeQuiet DEF Direct, CredentialsOK, JobType
<1>8. CASE Peek(r)
  <2>1. PICK a \in {"join", "use"} : job' = [job EXCEPT ![r].at = a]
    BY <1>8 DEF Peek
  <2> DEFINE j == [job[r] EXCEPT !.at = a]
  <2>2. j \in JobType /\ j.at = a /\ j.cfg = job[r].cfg
    BY <1>2, <2>1 DEF JobType, Steps
  <2>3. job' = [job EXCEPT ![r] = j] /\ job[r].cfg \in Credentials
    BY <1>1, <1>8, <2>1 DEF Peek, HasConfig
  <2>4. job' \in [Readers -> JobType] /\ HasConfig'
    <3> HIDE DEF j
    <3> QED
      BY <1>1, <1>2, <2>2, <2>3, OwnJob DEF Taken
  <2> QED
    BY <1>1, <1>5, <1>8, <2>4, TypeQuiet DEF Peek, CredentialsOK, JobType
<1>9. CASE Join(r)
  <2>1. PICK a \in {"fly", "wait"} : job' = [job EXCEPT ![r].at = a]
    BY <1>9 DEF Join
  <2> DEFINE j == [job[r] EXCEPT !.at = a]
  <2>2. j \in JobType /\ j.at = a /\ j.cfg = job[r].cfg
    BY <1>2, <2>1 DEF JobType, Steps
  <2>3. job' = [job EXCEPT ![r] = j] /\ job[r].cfg \in Credentials
    BY <1>1, <1>9, <2>1 DEF Join, HasConfig
  <2>4. job' \in [Readers -> JobType] /\ HasConfig'
    <3> HIDE DEF j
    <3> QED
      BY <1>1, <1>2, <2>2, <2>3, OwnJob DEF Taken
  <2> QED
    BY <1>1, <1>9, <2>4, TypeQuiet DEF Join, CredentialsOK, JobType
<1>10. CASE Fly(r)
  <2>1. CASE Land(r, Found(r))
    <3>1. flying' \in Readers \cup {NoReader} /\ job' \in [Readers -> JobType] /\ HasConfig'
      BY <1>1, <1>4, <1>10, <2>1, Lands DEF Fly, Flights
    <3> QED
      BY <1>1, <1>5, <1>10, <3>1, TypeQuiet DEF Fly, CredentialsOK, JobType
  <2>2. CASE ~Land(r, Found(r))
    <3>1. PICK tok \in BOOLEAN :
            /\ job' = [job EXCEPT ![r].at = IF tok THEN "present" ELSE "save",
                                  ![r].cred = FoundInFlight(r), ![r].token = tok, ![r].base = dropped,
                                  ![r].cfg = IF job[r].forced THEN NoCredential ELSE @]
            /\ UNCHANGED flying
      BY <1>10, <2>2 DEF Fly
    <3> DEFINE j == [job[r] EXCEPT !.at = IF tok THEN "present" ELSE "save", !.cred = Found(r),
                                   !.token = tok, !.base = dropped,
                                   !.cfg = IF job[r].forced THEN NoCredential ELSE @]
    <3>2. j \in JobType /\ j.cred = Found(r) /\ j.at \in {"present", "save"}
          /\ j.forced = job[r].forced /\ (~j.forced => j.cfg = job[r].cfg)
      <4>1. Found(r) \in Credentials /\ dropped \in 0..MaxLogins
        BY <1>1, <1>4, <1>10 DEF Fly, CredentialsOK
      <4> QED
        BY <1>2, <4>1 DEF JobType, Steps
    <3>3. job' = [job EXCEPT ![r] = j]
      BY <3>1 DEF FoundInFlight
    <3>4. job[r].cfg \in Credentials
      BY <1>1, <1>10 DEF Fly, HasConfig
    <3>5. job' \in [Readers -> JobType] /\ HasConfig'
      <4> HIDE DEF j
      <4> QED
        BY <1>1, <1>2, <1>4, <1>10, <3>2, <3>3, <3>4, OwnJob DEF Taken, Fly
    <3> QED
      BY <1>1, <1>5, <1>10, <3>1, <3>5, TypeQuiet DEF Fly, CredentialsOK, JobType
  <2> QED
    BY <2>1, <2>2
<1>11. CASE Refreshed(r)
  <2> DEFINE j == [job[r] EXCEPT !.at = "save", !.cred.turn = @ + 1]
  <2>1. job' = [job EXCEPT ![r] = j]
    BY <1>11 DEF Refreshed
  <2>2. job[r].cred \in Credentials /\ job[r].cred.turn < MaxTurns
    BY <1>1, <1>11 DEF Refreshed, HasConfig, Taken
  <2>3. [job[r].cred EXCEPT !.turn = @ + 1] \in Credentials
    BY <2>2, Numbers DEF Credentials
  <2>4. /\ j \in JobType /\ j.cred \in Credentials /\ j.at = "save"
        /\ j.forced = job[r].forced /\ j.cfg = job[r].cfg
    BY <1>2, <2>3 DEF JobType, Steps
  <2>5. job' \in [Readers -> JobType] /\ HasConfig'
    <3>1. ~job[r].forced => job[r].cfg \in Credentials
      BY <1>1, <1>11 DEF Refreshed, HasConfig
    <3> HIDE DEF j
    <3> QED
      BY <1>1, <1>2, <2>1, <2>4, <3>1, OwnJob
  <2> QED
    BY <1>1, <1>11, <2>2, <2>5, TypeQuiet DEF Refreshed, CredentialsOK, JobType
<1>12. CASE RefreshFails(r)
  <2>1. flying' \in Readers \cup {NoReader} /\ job' \in [Readers -> JobType] /\ HasConfig'
    BY <1>1, <1>12, Lands DEF RefreshFails, Flights
  <2>2. job[r].cred \in Credentials
    BY <1>1, <1>12 DEF RefreshFails, HasConfig, Taken
  <2> QED
    BY <1>1, <1>12, <2>1, <2>2, TypeQuiet DEF RefreshFails, CredentialsOK, JobType
<1>13. CASE SaveCredential(r)
  <2>1. PICK a \in {"models", "enter"} : job' = [job EXCEPT ![r].at = a]
    BY <1>13 DEF SaveCredential
  <2> DEFINE j == [job[r] EXCEPT !.at = a]
  <2>2. job[r].cred \in Credentials
    BY <1>1, <1>13 DEF SaveCredential, HasConfig, Taken
  <2>3. /\ j \in JobType /\ j.cred = job[r].cred /\ j.at = a
        /\ j.forced = job[r].forced /\ j.cfg = job[r].cfg
    BY <1>2, <2>1 DEF JobType, Steps
  <2>4. job' = [job EXCEPT ![r] = j]
    BY <2>1
  <2>5. job' \in [Readers -> JobType] /\ HasConfig'
    <3>1. ~job[r].forced => job[r].cfg \in Credentials
      BY <1>1, <1>13 DEF SaveCredential, HasConfig
    <3> HIDE DEF j
    <3> QED
      BY <1>1, <1>2, <2>2, <2>3, <2>4, <3>1, OwnJob
  <2>6. TypeOK' /\ content' \in [Versions -> Credentials]
    BY <1>1, <1>13, <2>2, TypeRow DEF SaveCredential
  <2> QED
    BY <1>1, <1>13, <2>5, <2>6 DEF SaveCredential, CredentialsOK, JobType
<1>14. ASSUME SaveFails(r) \/ SaveModelsFails(r) PROVE TypeOK' /\ CredentialsOK' /\ HasConfig'
  <2>1. job[r].at \in {"save", "models"} /\ Orphan(r) /\ Land(r, NoCredential)
    BY <1>14 DEF SaveFails, SaveModelsFails
  <2>2. flying' \in Readers \cup {NoReader} /\ job' \in [Readers -> JobType] /\ HasConfig'
    BY <1>1, <2>1, Lands DEF Flights
  <2>3. orphans' \subseteq Credentials
    BY <1>1, <2>1 DEF Orphan, CredentialsOK
  <2>4. UNCHANGED <<vars, provider, content, entry, spent, latest, dropped>>
    BY <1>14 DEF SaveFails, SaveModelsFails
  <2>5. excused' \subseteq {"revived", "overlap", "lost"}
    BY <1>1, <1>14 DEF SaveFails, SaveModelsFails, CredentialsOK
  <2> QED
    BY <1>1, <2>2, <2>3, <2>4, <2>5, TypeQuiet DEF CredentialsOK, JobType
<1>15. ASSUME NEW a \in {"unlist", "enter"}, job' = [job EXCEPT ![r].at = a],
              job[r].at \in {"models", "unlist", "enter"}
       PROVE  job' \in [Readers -> JobType] /\ HasConfig'
  <2> DEFINE j == [job[r] EXCEPT !.at = a]
  <2>1. /\ j \in JobType /\ j.cred = job[r].cred /\ j.at = a
        /\ j.forced = job[r].forced /\ j.cfg = job[r].cfg
    BY <1>2 DEF JobType, Steps
  <2>2. job' = [job EXCEPT ![r] = j]
    BY <1>15
  <2>3. job[r].cred \in Credentials /\ (~job[r].forced => job[r].cfg \in Credentials)
    BY <1>1, <1>15 DEF HasConfig, Taken
  <2> HIDE DEF j
  <2> QED
    BY <1>1, <1>2, <2>1, <2>2, <2>3, OwnJob
<1>16. CASE SaveModels(r)
  <2>1. job' \in [Readers -> JobType] /\ HasConfig'
    BY <1>15, <1>16 DEF SaveModels
  <2> QED
    BY <1>1, <1>16, <2>1, TypeQuiet DEF SaveModels, CredentialsOK, JobType
<1>17. CASE Unlist(r)
  <2>1. job[r].at = "unlist" /\ job[r].cred \in Credentials \cup {NoCredential}
    BY <1>2, <1>17 DEF Unlist, JobType
  <2>2. flying' \in Readers \cup {NoReader} /\ job' \in [Readers -> JobType] /\ HasConfig'
    <3>1. CASE provider = "codex"
      BY <1>1, <1>15, <1>17, <2>1, <3>1 DEF Unlist, CredentialsOK
    <3>2. CASE provider # "codex"
      BY <1>1, <1>17, <2>1, <3>2, Lands DEF Unlist, Flights
    <3> QED
      BY <3>1, <3>2
  <2> QED
    BY <1>1, <1>17, <2>2, TypeDrops DEF Unlist, CredentialsOK, JobType
<1>18. CASE Enter(r)
  <2>1. job[r].at = "enter" /\ job[r].cred \in Credentials
    BY <1>1, <1>18 DEF Enter, HasConfig, Taken
  <2>2. flying' \in Readers \cup {NoReader} /\ job' \in [Readers -> JobType] /\ HasConfig'
    <3>1. CASE provider = "codex"
      BY <1>1, <1>18, <2>1, <3>1, Lands DEF Enter, Flights
    <3>2. CASE provider # "codex"
      BY <1>1, <1>15, <1>18, <2>1, <3>2 DEF Enter, CredentialsOK
    <3> QED
      BY <3>1, <3>2
  <2> QED
    BY <1>1, <1>18, <2>1, <2>2, TypeQuiet DEF Enter, CredentialsOK, JobType
<1>19. CASE Use(r)
  <2>1. TypeOK'
    BY <1>1, <1>19, TypeQuiet, TypeDrops DEF Use
  <2>2. CASE job' = [job EXCEPT ![r] = NoJob]
    BY <1>1, <1>2, <1>19, <2>1, <2>2, OwnJob, Constants DEF Use, CredentialsOK, JobType, Taken
  <2>3. CASE ~job[r].forced /\ job' = [job EXCEPT ![r].at = "peek", ![r].forced = TRUE]
    <3> DEFINE j == [job[r] EXCEPT !.at = "peek", !.forced = TRUE]
    <3>1. j \in JobType /\ j.at = "peek" /\ j.cfg = job[r].cfg
      BY <1>2 DEF JobType, Steps
    <3>2. job' = [job EXCEPT ![r] = j] /\ job[r].cfg \in Credentials
      BY <1>1, <1>19, <2>3 DEF HasConfig, Use
    <3>3. job' \in [Readers -> JobType] /\ HasConfig'
      <4> HIDE DEF j
      <4> QED
        BY <1>1, <1>2, <3>1, <3>2, OwnJob DEF Taken
    <3> QED
      BY <1>1, <1>19, <2>1, <3>3 DEF Use, CredentialsOK, JobType
  <2> QED
    BY <1>19, <2>2, <2>3 DEF Use
<1> QED
  BY <1>6, <1>7, <1>8, <1>9, <1>10, <1>11, <1>12, <1>13, <1>14, <1>16, <1>17, <1>18, <1>19 DEF Request

LoginStep ==
    \/ Close \/ StartReplaces \/ Start \/ StartFails
    \/ \E l \in Logins : Cancel(l) \/ Shut(l) \/ Callback(l) \/ Complete(l)

LEMMA CredentialsQuiet ==
    ASSUME CredentialsOK, UNCHANGED manager
    PROVE  CredentialsOK'
BY DEF CredentialsOK, manager

\* The steps of a login that only concern logins.
LEMMA TypeOthers ==
    ASSUME TypeInv, Others
    PROVE  TypeOK' /\ CredentialsOK'
BY TypeQuiet, CredentialsQuiet DEF TypeInv, OAuthTypeOK, Others

LEMMA OwnSession ==
    ASSUME session \in [Logins -> SessionType], NEW l \in Logins, NEW s \in SessionType,
           session' = [session EXCEPT ![l] = s]
    PROVE  session' \in [Logins -> SessionType]
OBVIOUS

LEMMA TypeCancelled ==
    ASSUME OAuthTypeOK, NEW l \in Logins, Cancelled(l)
    PROVE  session' \in [Logins -> SessionType] /\ active' \in Logins \cup {0}
<1>1. session \in [Logins -> SessionType]
  BY DEF OAuthTypeOK, SessionType
<1>2. "cancelled" \in Statuses
  BY DEF Statuses
<1>3. session' = [session EXCEPT ![l] = [session[l] EXCEPT !.status = "cancelled", !.shut = TRUE, !.ended = TRUE]]
  BY DEF Cancelled
<1>4. [session[l] EXCEPT !.status = "cancelled", !.shut = TRUE, !.ended = TRUE] \in SessionType
  BY <1>1, <1>2 DEF SessionType
<1> QED
  BY <1>1, <1>3, <1>4 DEF Cancelled, OAuthTypeOK

LEMMA TypeComplete ==
    ASSUME TypeInv, NEW l \in Logins, Complete(l)
    PROVE  OAuthTypeOK'
<1>1. TypeOK /\ CredentialsOK /\ session \in [Logins -> SessionType] /\ session[l] \in SessionType
  BY DEF TypeInv, OAuthTypeOK, SessionType
<1>2. active \in Logins \cup {0} /\ starting \in {"no", "replacing", "listening"} /\ closed \in BOOLEAN
  BY DEF TypeInv, OAuthTypeOK
<1>3. Erred(l) \in SessionType
  BY <1>1 DEF Erred, SessionType
<1>4. ASSUME NEW s \in SessionType, Go(l, s)
      PROVE  session' \in [Logins -> SessionType]
  BY <1>1, <1>4, OwnSession DEF Go
<1>5. ASSUME session' \in [Logins -> SessionType], UNCHANGED <<active, starting, closed>>, TypeOK', CredentialsOK'
      PROVE  OAuthTypeOK'
  BY <1>2, <1>5 DEF OAuthTypeOK, SessionType
<1>6. CASE Select(l)
  <2>1. [session[l] EXCEPT !.at = "exchange", !.box = "taken"] \in SessionType
    BY <1>1 DEF SessionType
  <2>2. session' \in [Logins -> SessionType]
    BY <1>3, <1>4, <1>6, <2>1 DEF Select
  <2> QED
    BY <1>5, <1>6, <2>2, TypeOthers DEF Select
<1>7. CASE Exchange(l)
  <2>1. [session[l] EXCEPT !.at = "commit", !.status = "committing"] \in SessionType
    BY <1>1 DEF SessionType, Statuses
  <2>2. session' \in [Logins -> SessionType]
    BY <1>3, <1>4, <1>7, <2>1 DEF Exchange
  <2> QED
    BY <1>5, <1>7, <2>2, TypeOthers DEF Exchange
<1>8. CASE Commit1(l)
  <2>1. CASE Go(l, Erred(l)) /\ Others
    BY <1>3, <1>4, <1>5, <1>8, <2>1, TypeOthers DEF Commit1
  <2>2. CASE ~(Go(l, Erred(l)) /\ Others)
    <3> DEFINE c == [login |-> l, turn |-> 0]
    <3>1. /\ WriteRow(c) /\ WritesOnly /\ latest' = l
          /\ UNCHANGED <<provider, entry, flying, job, spent, orphans, dropped, excused>>
      BY <1>8, <2>2 DEF Commit1
    <3>2. c \in Credentials /\ l \in 0..MaxLogins
      BY Numbers DEF Credentials, Logins
    <3>3. PICK next \in {"models", "close"} : Go(l, [session[l] EXCEPT !.at = next])
      BY <1>8, <2>2 DEF Commit1
    <3>4. [session[l] EXCEPT !.at = next] \in SessionType
      BY <1>1 DEF SessionType
    <3>5. TypeOK' /\ content' \in [Versions -> Credentials]
      <4> HIDE DEF c
      <4> QED
        BY <1>1, <3>1, <3>2, TypeRow
    <3>6. CredentialsOK'
      BY <1>1, <3>1, <3>2, <3>5 DEF CredentialsOK
    <3> QED
      BY <1>4, <1>5, <1>8, <3>3, <3>4, <3>5, <3>6 DEF Commit1
  <2> QED
    BY <2>1, <2>2
<1>9. CASE Commit2(l)
  <2>1. [session[l] EXCEPT !.at = "close"] \in SessionType
    BY <1>1 DEF SessionType
  <2>2. session' \in [Logins -> SessionType]
    BY <1>3, <1>4, <1>9, <2>1 DEF Commit2
  <2>3. TypeOK' /\ CredentialsOK'
    BY <1>1, <1>9, TypeQuiet DEF Commit2, CredentialsOK
  <2> QED
    BY <1>5, <1>9, <2>2, <2>3 DEF Commit2
<1>10. CASE CloseListener(l)
  <2>1. [session[l] EXCEPT !.at = "finish", !.listens = FALSE] \in SessionType
    BY <1>1 DEF SessionType
  <2> QED
    BY <1>4, <1>5, <1>10, <2>1, TypeOthers DEF CloseListener
<1>11. CASE Finish(l)
  <2>1. PICK st \in {"cancelled", "error", "complete"} :
          Go(l, [session[l] EXCEPT !.status = st, !.err = FALSE,
                                   !.at = IF st = "complete" THEN "drop" ELSE "over"])
    BY <1>11 DEF Finish
  <2>2. [session[l] EXCEPT !.status = st, !.err = FALSE,
                           !.at = IF st = "complete" THEN "drop" ELSE "over"] \in SessionType
    BY <1>1 DEF SessionType, Statuses
  <2>3. session' \in [Logins -> SessionType]
    BY <1>4, <2>1, <2>2
  <2>4. active' \in Logins \cup {0} /\ UNCHANGED <<starting, closed>> /\ Others
    BY <1>2, <1>11 DEF Finish
  <2> QED
    BY <1>2, <2>3, <2>4, TypeOthers DEF OAuthTypeOK, SessionType
<1>12. CASE DropEntry(l)
  <2>1. [session[l] EXCEPT !.at = "unlist"] \in SessionType /\ l \in 0..MaxLogins
    BY <1>1, Numbers DEF SessionType, Logins
  <2>2. TypeOK' /\ CredentialsOK'
    BY <1>1, <1>12, <2>1, TypeQuiet DEF DropEntry, CredentialsOK
  <2> QED
    BY <1>4, <1>5, <1>12, <2>1, <2>2 DEF DropEntry
<1>13. CASE DropListed(l)
  <2>1. [session[l] EXCEPT !.at = "over"] \in SessionType
    BY <1>1 DEF SessionType
  <2>2. TypeOK' /\ CredentialsOK'
    BY <1>1, <1>13, TypeDrops, CredentialsQuiet DEF DropListed
  <2> QED
    BY <1>4, <1>5, <1>13, <2>1, <2>2 DEF DropListed
<1> QED
  BY <1>6, <1>7, <1>8, <1>9, <1>10, <1>11, <1>12, <1>13 DEF Complete

LEMMA TypeLogin ==
    ASSUME TypeInv, LoginStep
    PROVE  OAuthTypeOK'
<1>1. TypeOK /\ CredentialsOK /\ session \in [Logins -> SessionType] /\ OAuthTypeOK
  BY DEF TypeInv, OAuthTypeOK, SessionType
<1>2. active \in Logins \cup {0} /\ starting \in {"no", "replacing", "listening"} /\ closed \in BOOLEAN
  BY DEF TypeInv, OAuthTypeOK
<1>3. ASSUME Others, session' \in [Logins -> SessionType], active' \in Logins \cup {0},
             starting' \in {"no", "replacing", "listening"}, closed' \in BOOLEAN
      PROVE  OAuthTypeOK'
  BY <1>3, TypeOthers DEF OAuthTypeOK, SessionType
<1>4. CASE Close
  <2>1. /\ Others /\ closed' \in BOOLEAN /\ UNCHANGED starting
        /\ UNCHANGED <<session, active>> \/ (active # 0 /\ Cancelled(active))
    BY <1>4 DEF Close
  <2>2. session' \in [Logins -> SessionType] /\ active' \in Logins \cup {0}
    BY <1>1, <1>2, <2>1, TypeCancelled
  <2> QED
    BY <1>2, <1>3, <2>1, <2>2
<1>5. CASE StartReplaces
  BY <1>1, <1>2, <1>3, <1>5, TypeCancelled DEF StartReplaces
<1>6. CASE Start
  <2>1. PICK l \in Logins :
          /\ session' = [session EXCEPT ![l] = [NoSession EXCEPT !.status = "pending", !.at = "select",
                                                                 !.listens = TRUE]]
          /\ active' = l
    BY <1>6 DEF Start
  <2>2. [NoSession EXCEPT !.status = "pending", !.at = "select", !.listens = TRUE] \in SessionType
    BY DEF NoSession, SessionType, Statuses
  <2> QED
    BY <1>1, <1>2, <1>3, <1>6, <2>1, <2>2, OwnSession DEF Start
<1>7. CASE StartFails
  BY <1>1, <1>2, <1>3, <1>7 DEF StartFails
<1>8. ASSUME NEW l \in Logins, Cancel(l) PROVE OAuthTypeOK'
  BY <1>1, <1>2, <1>3, <1>8, TypeCancelled DEF Cancel
<1>9. ASSUME NEW l \in Logins, Shut(l) PROVE OAuthTypeOK'
  <2> DEFINE s == [session[l] EXCEPT !.shut = FALSE, !.listens = FALSE]
  <2>1. s \in SessionType
    BY <1>1 DEF SessionType
  <2>2. session' = [session EXCEPT ![l] = s]
    BY <1>9 DEF Shut
  <2>3. session' \in [Logins -> SessionType]
    <3> HIDE DEF s
    <3> QED
      BY <1>1, <2>1, <2>2, OwnSession
  <2> QED
    BY <1>2, <1>3, <1>9, <2>3 DEF Shut
<1>10. ASSUME NEW l \in Logins, Callback(l) PROVE OAuthTypeOK'
  <2>1. PICK b \in {"code", "error"} : session' = [session EXCEPT ![l].box = b]
    BY <1>10 DEF Callback
  <2> DEFINE s == [session[l] EXCEPT !.box = b]
  <2>2. s \in SessionType
    BY <1>1 DEF SessionType
  <2>3. session' = [session EXCEPT ![l] = s]
    BY <2>1
  <2>4. session' \in [Logins -> SessionType]
    <3> HIDE DEF s
    <3> QED
      BY <1>1, <2>2, <2>3, OwnSession
  <2> QED
    BY <1>2, <1>3, <1>10, <2>4 DEF Callback
<1> QED
  BY <1>4, <1>5, <1>6, <1>7, <1>8, <1>9, <1>10, TypeComplete DEF LoginStep

\* HasConfig is about the requests alone.
LEMMA ConfigQuiet ==
    ASSUME HasConfig, UNCHANGED job
    PROVE  HasConfig'
BY DEF HasConfig

LEMMA LoginsLeaveJobs ==
    ASSUME LoginStep
    PROVE  UNCHANGED <<job, cache, provider, flying>>
<1>1. ASSUME Others PROVE UNCHANGED <<job, cache, provider, flying>>
  BY <1>1 DEF Others, vars, manager
<1>2. ASSUME NEW l \in Logins, Complete(l) PROVE UNCHANGED <<job, cache, provider, flying>>
  <2>1. CASE Commit1(l)
    BY <1>1, <2>1 DEF Commit1, WritesOnly, Readings
  <2>2. CASE Commit2(l)
    BY <2>2 DEF Commit2, vars
  <2>3. CASE DropEntry(l)
    BY <2>3 DEF DropEntry, vars
  <2>4. CASE DropListed(l)
    BY <2>4 DEF DropListed, DropsOnly, Readings, manager
  <2> QED
    BY <1>1, <1>2, <2>1, <2>2, <2>3, <2>4 DEF Complete, Select, Exchange, CloseListener, Finish
<1> QED
  BY <1>1, <1>2 DEF LoginStep, Close, StartReplaces, Start, StartFails, Cancel, Shut, Callback

LEMMA TypeNext == TypeInv /\ [OAuthNext]_allVars => TypeInv'
<1> SUFFICES ASSUME TypeInv, [OAuthNext]_allVars PROVE TypeInv'
  OBVIOUS
<1>1. TypeOK /\ CredentialsOK /\ OAuthTypeOK /\ HasConfig
  BY DEF TypeInv, OAuthTypeOK
<1>2. CASE Next /\ UNCHANGED <<manager, login>>
  <2>1. TypeOK' /\ CredentialsOK'
    BY <1>1, <1>2, TypeCache, CredentialsQuiet
  <2> QED
    BY <1>1, <1>2, <2>1, ConfigQuiet DEF TypeInv, OAuthTypeOK, manager, login
<1>3. ASSUME NEW r \in Readers, Request(r), UNCHANGED login PROVE TypeInv'
  BY <1>1, <1>3, TypeRequest DEF TypeInv, OAuthTypeOK, login
<1>4. CASE LoginStep
  BY <1>1, <1>4, TypeLogin, LoginsLeaveJobs, ConfigQuiet DEF TypeInv
<1>5. CASE UNCHANGED allVars
  BY <1>1, <1>5, TypeQuiet, CredentialsQuiet, ConfigQuiet DEF TypeInv, OAuthTypeOK, allVars, manager, login
<1> QED
  BY <1>2, <1>3, <1>4, <1>5 DEF OAuthNext, LoginStep

\* Every variable of the caches, the managers and the logins keeps its type, and
\* a request that is on its way to a refresh has a credential to begin with.
THEOREM OAuthTypeInvariant == OAuthSpec => []TypeInv
BY TypeInit, TypeNext, PTL DEF OAuthSpec

-------------------------------------------------------------------------------
(* Who uses which cache.                                                   *)

LEMMA RequestsLeave ==
    ASSUME NEW r \in Readers, Request(r)
    PROVE  UNCHANGED <<Readings, provider, latest, dropped>>
<1>1. ASSUME UNCHANGED vars PROVE UNCHANGED Readings
  BY <1>1 DEF vars, Readings
<1>2. CASE TakeConfig(r)
  BY <1>2 DEF TakeConfig, DropsOnly, Readings
<1>3. CASE SaveCredential(r)
  BY <1>3 DEF SaveCredential, WritesOnly
<1>4. CASE Unlist(r)
  BY <1>4 DEF Unlist, DropsOnly, Readings
<1>5. CASE Use(r)
  BY <1>1, <1>5 DEF Use, DropsOnly, Readings
<1> QED
  BY <1>1, <1>2, <1>3, <1>4, <1>5
     DEF Request, Direct, Peek, Join, Fly, Refreshed, RefreshFails, SaveFails, SaveModels, SaveModelsFails, Enter

LEMMA LoginsLeave ==
    ASSUME LoginStep
    PROVE  UNCHANGED <<Readings, provider, flying, job, spent, orphans>>
<1>1. ASSUME Others PROVE UNCHANGED <<Readings, provider, flying, job, spent, orphans>>
  BY <1>1 DEF Others, vars, manager, Readings
<1>2. ASSUME NEW l \in Logins, Complete(l) PROVE UNCHANGED <<Readings, provider, flying, job, spent, orphans>>
  <2>1. CASE Commit1(l)
    BY <1>1, <2>1 DEF Commit1, WritesOnly
  <2>2. CASE Commit2(l)
    BY <2>2 DEF Commit2, vars, Readings
  <2>3. CASE DropEntry(l)
    BY <2>3 DEF DropEntry, vars, Readings
  <2>4. CASE DropListed(l)
    BY <2>4 DEF DropListed, DropsOnly, Readings, manager
  <2> QED
    BY <1>1, <1>2, <2>1, <2>2, <2>3, <2>4 DEF Complete, Select, Exchange, CloseListener, Finish
<1> QED
  BY <1>1, <1>2 DEF LoginStep, Close, StartReplaces, Start, StartFails, Cancel, Shut, Callback

\* A request that does anything uses the cache "oauth".
LEMMA RequestsApart ==
    ASSUME Separate, NEW r \in Readers, Request(r)
    PROVE  cache = "oauth"
<1> SUFFICES ASSUME cache # "oauth" PROVE FALSE
  OBVIOUS
<1>1. job[r].at = "none"
  BY Constants DEF Separate
<1> QED
  BY <1>1 DEF Request, TakeConfig, Direct, Peek, Join, Fly, Refreshed, RefreshFails, SaveCredential, SaveFails,
              SaveModels, SaveModelsFails, Unlist, Enter, Use

\* So does a login, or "login", and there is none without.
LEMMA LoginsApart ==
    ASSUME Separate, TypeInv, LoginStep
    PROVE  \/ cache \in {"oauth", "login"}
           \/ StartFails
<1> SUFFICES ASSUME cache \notin {"oauth", "login"} PROVE StartFails
  OBVIOUS
<1>1. \A l \in Logins : /\ session[l].status = "none" /\ session[l].at = "none" /\ ~session[l].shut
  BY DEF Separate, NoSession
<1> QED
  BY <1>1 DEF LoginStep, Close, StartReplaces, Start, Cancel, Shut, Callback, Complete,
              Select, Exchange, Commit1, Commit2, CloseListener, Finish, DropEntry, DropListed

LEMMA SeparateInit == OAuthInit => Separate
BY DEF OAuthInit, Init, CredentialsInit, Separate, NoSession

\* What a step of its goroutine makes of login l.
Becomes(l, s) == session' = [session EXCEPT ![l] = s] /\ s \in SessionType

Continues(l, a, st, e) ==
    /\ session'[l].at = a /\ session'[l].status = st /\ session'[l].err = e
    /\ session'[l].ended = session[l].ended
    /\ UNCHANGED <<starting, closed>>

\* Its steps, one by one.
TakesCode(l) ==
    /\ session[l].at = "select" /\ Continues(l, "exchange", session[l].status, session[l].err)
    /\ Others /\ UNCHANGED active

EndsInError(l) ==
    /\ session[l].at \in {"select", "exchange", "commit"}
    /\ Continues(l, "close", session[l].status, TRUE) /\ Others /\ UNCHANGED active

MayWrite(l) ==
    /\ session[l].at = "exchange" /\ session[l].status # "cancelled"
    /\ Continues(l, "commit", "committing", session[l].err) /\ Others /\ UNCHANGED active

WritesRow(l) ==
    /\ session[l].at = "commit" /\ UNCHANGED active /\ latest' = l
    /\ WriteRow([login |-> l, turn |-> 0]) /\ WritesOnly
    /\ \E a \in {"models", "close"} : Continues(l, a, session[l].status, session[l].err)
    /\ UNCHANGED <<provider, entry, flying, job, spent, orphans, dropped, excused>>

WritesModels(l) ==
    /\ session[l].at = "models" /\ Commit2(l) /\ UNCHANGED active
    /\ \/ Continues(l, "close", session[l].status, TRUE) /\ "lost" \in excused'
       \/ Continues(l, "close", session[l].status, session[l].err) /\ excused' = excused

Closes(l) ==
    /\ session[l].at = "close" /\ Continues(l, "finish", session[l].status, session[l].err)
    /\ Others /\ UNCHANGED active

Finishes(l) ==
    /\ session[l].at = "finish" /\ Others /\ active' = (IF active = l THEN 0 ELSE active)
    /\ \/ session[l].status = "cancelled" /\ Continues(l, "over", "cancelled", FALSE)
       \/ session[l].status # "cancelled" /\ session[l].err /\ Continues(l, "over", "error", FALSE)
       \/ session[l].status # "cancelled" /\ ~session[l].err /\ Continues(l, "drop", "complete", FALSE)

DropsEntry(l) ==
    /\ session[l].at = "drop" /\ DropEntry(l) /\ UNCHANGED active
    /\ Continues(l, "unlist", session[l].status, session[l].err)

DropsList(l) ==
    /\ session[l].at = "unlist" /\ DropListed(l) /\ UNCHANGED active
    /\ Continues(l, "over", session[l].status, session[l].err)

LEMMA Completes ==
    ASSUME TypeInv, NEW l \in Logins, Complete(l)
    PROVE  /\ \E s \in SessionType : Becomes(l, s)
           /\ \/ TakesCode(l) \/ EndsInError(l) \/ MayWrite(l) \/ WritesRow(l) \/ WritesModels(l)
              \/ Closes(l) \/ Finishes(l) \/ DropsEntry(l) \/ DropsList(l)
<1>1. session \in [Logins -> SessionType] /\ session[l] \in SessionType
  BY DEF TypeInv, OAuthTypeOK, SessionType
<1>2. ASSUME NEW s \in SessionType, Go(l, s)
      PROVE  Becomes(l, s) /\ session'[l] = s
  BY <1>1, <1>2 DEF Go, Becomes
<1>3. /\ Erred(l) \in SessionType /\ Erred(l).at = "close" /\ Erred(l).err /\ Erred(l).status = session[l].status
      /\ Erred(l).ended = session[l].ended
  BY <1>1 DEF Erred, SessionType
<1>4. ASSUME NEW a \in {"close", "models", "unlist", "over"}
      PROVE  LET t == [session[l] EXCEPT !.at = a]
             IN  /\ t \in SessionType /\ t.at = a /\ t.status = session[l].status
                 /\ t.err = session[l].err /\ t.ended = session[l].ended
  BY <1>1 DEF SessionType
<1>5. CASE Select(l)
  <2>1. CASE Go(l, Erred(l))
    BY <1>2, <1>3, <1>5, <2>1 DEF Select, Continues, EndsInError
  <2>2. CASE Go(l, [session[l] EXCEPT !.at = "exchange", !.box = "taken"])
    <3> DEFINE t == [session[l] EXCEPT !.at = "exchange", !.box = "taken"]
    <3>1. /\ t \in SessionType /\ t.at = "exchange" /\ t.status = session[l].status
          /\ t.err = session[l].err /\ t.ended = session[l].ended
      BY <1>1 DEF SessionType
    <3>2. Go(l, t)
      BY <2>2
    <3> HIDE DEF t
    <3> QED
      BY <1>2, <1>5, <3>1, <3>2 DEF Select, Continues, TakesCode
  <2> QED
    BY <1>5, <2>1, <2>2 DEF Select
<1>6. CASE Exchange(l)
  <2>1. CASE Go(l, Erred(l))
    BY <1>2, <1>3, <1>6, <2>1 DEF Exchange, Continues, EndsInError
  <2>2. CASE session[l].status # "cancelled" /\ Go(l, [session[l] EXCEPT !.at = "commit", !.status = "committing"])
    <3> DEFINE t == [session[l] EXCEPT !.at = "commit", !.status = "committing"]
    <3>1. /\ t \in SessionType /\ t.at = "commit" /\ t.status = "committing"
          /\ t.err = session[l].err /\ t.ended = session[l].ended
      BY <1>1 DEF SessionType, Statuses
    <3>2. Go(l, t)
      BY <2>2
    <3> HIDE DEF t
    <3> QED
      BY <1>2, <1>6, <2>2, <3>1, <3>2 DEF Exchange, Continues, MayWrite
  <2> QED
    BY <1>6, <2>1, <2>2 DEF Exchange
<1>7. CASE Commit1(l)
  <2>1. CASE Go(l, Erred(l)) /\ Others
    BY <1>2, <1>3, <1>7, <2>1 DEF Commit1, Continues, EndsInError
  <2>2. CASE ~(Go(l, Erred(l)) /\ Others)
    <3>1. PICK a \in {"models", "close"} : Go(l, [session[l] EXCEPT !.at = a])
      BY <1>7, <2>2 DEF Commit1
    <3>2. (\E s \in SessionType : Becomes(l, s)) /\ Continues(l, a, session[l].status, session[l].err)
      BY <1>2, <1>4, <1>7, <3>1 DEF Commit1, Continues
    <3> QED
      BY <1>7, <2>2, <3>2 DEF Commit1, WritesRow
  <2> QED
    BY <2>1, <2>2
<1>8. CASE Commit2(l)
  <2>1. CASE Go(l, Erred(l)) /\ excused' = excused \cup {"lost"}
    BY <1>2, <1>3, <1>8, <2>1 DEF Commit2, Continues, WritesModels
  <2>2. CASE Go(l, [session[l] EXCEPT !.at = "close"]) /\ UNCHANGED excused
    BY <1>2, <1>4, <1>8, <2>2 DEF Commit2, Continues, WritesModels
  <2> QED
    BY <1>8, <2>1, <2>2 DEF Commit2
<1>9. CASE CloseListener(l)
  <2> DEFINE t == [session[l] EXCEPT !.at = "finish", !.listens = FALSE]
  <2>1. /\ t \in SessionType /\ t.at = "finish" /\ t.status = session[l].status
        /\ t.err = session[l].err /\ t.ended = session[l].ended
    BY <1>1 DEF SessionType
  <2>2. Go(l, t)
    BY <1>9 DEF CloseListener
  <2> HIDE DEF t
  <2> QED
    BY <1>2, <1>9, <2>1, <2>2 DEF CloseListener, Continues, Closes
<1>10. CASE Finish(l)
  <2>1. PICK st \in {"cancelled", "error", "complete"} :
          /\ Go(l, [session[l] EXCEPT !.status = st, !.err = FALSE,
                                      !.at = IF st = "complete" THEN "drop" ELSE "over"])
          /\ \/ session[l].status = "cancelled" /\ st = "cancelled"
             \/ session[l].status # "cancelled" /\ session[l].err /\ st = "error"
             \/ session[l].status # "cancelled" /\ ~session[l].err /\ st = "complete"
    BY <1>10 DEF Finish
  <2> DEFINE t == [session[l] EXCEPT !.status = st, !.err = FALSE,
                                     !.at = IF st = "complete" THEN "drop" ELSE "over"]
  <2>2. /\ t \in SessionType /\ t.at = (IF st = "complete" THEN "drop" ELSE "over") /\ t.status = st
        /\ t.err = FALSE /\ t.ended = session[l].ended
    BY <1>1 DEF SessionType, Statuses
  <2>3. Go(l, t)
    BY <2>1
  <2> HIDE DEF t
  <2>4. (\E s \in SessionType : Becomes(l, s)) /\ session'[l] = t
    BY <1>2, <2>2, <2>3
  <2>5. /\ session[l].at = "finish" /\ active' = (IF active = l THEN 0 ELSE active)
        /\ UNCHANGED <<starting, closed>> /\ Others
    BY <1>10 DEF Finish
  <2> QED
    BY <2>1, <2>2, <2>4, <2>5 DEF Continues, Finishes
<1>11. CASE DropEntry(l)
  BY <1>2, <1>4, <1>11 DEF DropEntry, Continues, DropsEntry
<1>12. CASE DropListed(l)
  BY <1>2, <1>4, <1>12 DEF DropListed, Continues, DropsList
<1> QED
  BY <1>5, <1>6, <1>7, <1>8, <1>9, <1>10, <1>11, <1>12 DEF Complete

\* Nothing of a login changes but the one whose goroutine runs.
LEMMA OthersStay ==
    ASSUME TypeInv, NEW l \in Logins, Complete(l)
    PROVE  /\ \A k \in Logins : k # l => session'[k] = session[k]
           /\ session[l].at # "none" /\ session'[l].ended = session[l].ended
           /\ UNCHANGED <<starting, closed>> /\ active' \in {active, 0}
<1>1. session \in [Logins -> SessionType]
  BY DEF TypeInv, OAuthTypeOK, SessionType
<1>2. \A k \in Logins : k # l => session'[k] = session[k]
  BY <1>1, Completes DEF Becomes
<1> QED
  BY <1>2, Completes DEF Continues, TakesCode, EndsInError, MayWrite, WritesRow, WritesModels, Closes, Finishes,
                         DropsEntry, DropsList

\* The entry is changed by a login only to be dropped.
LEMMA LoginsDrop ==
    ASSUME LoginStep
    PROVE  entry' \in {entry, NoCredential}
<1>1. ASSUME Others PROVE entry' = entry
  BY <1>1 DEF Others, manager
<1>2. ASSUME NEW l \in Logins, Complete(l) PROVE entry' \in {entry, NoCredential}
  BY <1>1, <1>2
     DEF Complete, Select, Exchange, CloseListener, Finish, Commit1, Commit2, DropEntry, DropListed, manager
<1> QED
  BY <1>1, <1>2 DEF LoginStep, Close, StartReplaces, Start, StartFails, Cancel, Shut, Callback

LEMMA SeparateLogins ==
    ASSUME TypeInv, Separate, LoginStep, cache # "login"
    PROVE  /\ ~closed' /\ active' \in {0, 1}
           /\ \A l \in Logins : ~session'[l].ended /\ (l # 1 => session'[l] = NoSession)
<1>1. session \in [Logins -> SessionType]
  BY DEF TypeInv, OAuthTypeOK, SessionType
<1>2. /\ ~closed /\ active \in {0, 1} /\ \A l \in Logins : ~session[l].ended /\ (l # 1 => session[l] = NoSession)
  BY DEF Separate
<1>3. \A l \in Logins : l # 1 => session[l].status = "none" /\ session[l].at = "none" /\ ~session[l].shut
  BY <1>2 DEF NoSession
<1>4. CASE Start
  <2>1. PICK l \in Logins :
          /\ l = 1 \/ cache = "login"
          /\ session' = [session EXCEPT ![l] = [NoSession EXCEPT !.status = "pending", !.at = "select",
                                                                 !.listens = TRUE]]
          /\ active' = l
    BY <1>4 DEF Start
  <2>2. ~[NoSession EXCEPT !.status = "pending", !.at = "select", !.listens = TRUE].ended
    BY DEF NoSession
  <2> QED
    BY <1>1, <1>2, <1>4, <2>1, <2>2 DEF Start
<1>5. CASE StartFails
  BY <1>2, <1>5 DEF StartFails
<1>6. ASSUME NEW l \in Logins, Shut(l)
      PROVE  /\ ~closed' /\ active' \in {0, 1}
             /\ \A k \in Logins : ~session'[k].ended /\ (k # 1 => session'[k] = NoSession)
  <2>1. l = 1
    BY <1>3, <1>6 DEF Shut
  <2>2. \A k \in Logins : k # l => session'[k] = session[k]
    BY <1>1, <1>6 DEF Shut
  <2>3. session'[l].ended = session[l].ended
    BY <1>1, <1>6 DEF Shut, SessionType
  <2> QED
    BY <1>2, <1>6, <2>1, <2>2, <2>3 DEF Shut
<1>7. ASSUME NEW l \in Logins, Callback(l)
      PROVE  /\ ~closed' /\ active' \in {0, 1}
             /\ \A k \in Logins : ~session'[k].ended /\ (k # 1 => session'[k] = NoSession)
  <2>1. l = 1
    BY <1>3, <1>7 DEF Callback
  <2>2. \A k \in Logins : k # l => session'[k] = session[k]
    BY <1>1, <1>7 DEF Callback
  <2>3. session'[l].ended = session[l].ended
    BY <1>1, <1>7 DEF Callback, SessionType
  <2> QED
    BY <1>2, <1>7, <2>1, <2>2, <2>3 DEF Callback
<1>8. ASSUME NEW l \in Logins, Complete(l)
      PROVE  /\ ~closed' /\ active' \in {0, 1}
             /\ \A k \in Logins : ~session'[k].ended /\ (k # 1 => session'[k] = NoSession)
  BY <1>2, <1>3, <1>8, OthersStay
<1> QED
  BY <1>4, <1>5, <1>6, <1>7, <1>8 DEF LoginStep, Close, StartReplaces, Cancel

LEMMA SeparateNext == TypeInv /\ Separate /\ [OAuthNext]_allVars => Separate'
<1> SUFFICES ASSUME TypeInv, Separate, [OAuthNext]_allVars PROVE Separate'
  OBVIOUS
<1>1. CASE UNCHANGED allVars
  BY <1>1 DEF Separate, allVars, vars, manager, login
<1>2. CASE cache \notin {"oauth", "login"} /\ Next /\ UNCHANGED <<manager, login>>
  <2>1. cache' = cache
    BY <1>2 DEF Next, Lookup, TakeRefresh, Recheck, Load, LoadFails, Store, NextCall, Commit, Invalidate, Tick
  <2> QED
    BY <1>2, <2>1 DEF Separate, manager, login
<1>3. ASSUME NEW r \in Readers, Request(r), UNCHANGED login PROVE Separate'
  <2>1. cache = "oauth" /\ cache' = cache /\ UNCHANGED <<pc, result>>
    BY <1>3, RequestsApart, RequestsLeave DEF Readings
  <2> QED
    BY <1>3, <2>1 DEF Separate, login
<1>4. CASE LoginStep
  <2>1. UNCHANGED <<cache, pc, result, job, spent, flying>> /\ entry' \in {entry, NoCredential}
    BY <1>4, LoginsLeave, LoginsDrop DEF Readings
  <2>2. cache \notin {"oauth", "login"} => \A l \in Logins : session'[l] = NoSession
    BY <1>4, LoginsApart DEF Separate, StartFails
  <2>3. cache # "login" =>
           /\ ~closed' /\ active' \in {0, 1}
           /\ \A l \in Logins : ~session'[l].ended /\ (l # 1 => session'[l] = NoSession)
    BY <1>4, SeparateLogins
  <2> QED
    BY <2>1, <2>2, <2>3 DEF Separate
<1> QED
  BY <1>1, <1>2, <1>3, <1>4 DEF OAuthNext, LoginStep

-------------------------------------------------------------------------------
(* The channel cache.                                                      *)

CacheFacts ==
    /\ cached.ver \in Nat /\ cached.ver <= MaxWrites /\ cached.age \in Nat /\ db \in Nat /\ db <= MaxWrites
    /\ invalidated \in Nat
    /\ \A v \in 0..MaxWrites : wrote[v] \in Nat /\ wrote[v] <= Horizon
    /\ \A r \in Readers : /\ got[r] \in Nat /\ got[r] <= MaxWrites /\ safe[r] \in Nat
                          /\ took[r] \in Nat /\ took[r] <= MaxLoad
                          /\ result[r] \in Nat \cup {-1} /\ result[r] <= MaxWrites

LEMMA Facts == TypeOK => CacheFacts
<1> SUFFICES ASSUME TypeOK PROVE CacheFacts
  OBVIOUS
<1>1. cached.ver \in 0..MaxWrites /\ cached.age \in 0..TTL + 1 /\ db \in 0..MaxWrites /\ invalidated \in 0..MaxWrites
  BY DEF TypeOK, Versions
<1>2. \A v \in 0..MaxWrites : wrote[v] \in 0..Horizon
  BY DEF TypeOK, Versions
<1>3. \A r \in Readers : got[r] \in 0..MaxWrites /\ safe[r] \in 0..MaxWrites /\ took[r] \in 0..MaxLoad
  BY DEF TypeOK, Versions
<1>4. \A r \in Readers : result[r] \in 0..MaxWrites \cup {-1}
  BY DEF TypeOK, Versions
<1> QED
  BY <1>1, <1>2, <1>3, <1>4, Numbers DEF CacheFacts

LEMMA CacheInit == OAuthInit => CacheInv
<1> SUFFICES ASSUME OAuthInit PROVE CacheInv
  OBVIOUS
<1>1. \A r \in Readers : pc[r] = "idle" /\ got[r] = 0 /\ safe[r] = 0 /\ result[r] = -1
  BY DEF OAuthInit, Init
<1>2. ~Fresh /\ cached.ver = 0 /\ db = 0 /\ invalidated = 0
  BY Numbers DEF OAuthInit, Init, Fresh, Invalid
<1> QED
  BY <1>1, <1>2 DEF CacheInv, LoadsRecent, LoadsValid, OnlyReturned, VersionsPast, OneRefresh, StalenessBounded

\* Beside requests and logins nobody reads through the cache.
LEMMA CacheOAuth ==
    ASSUME CacheInv, TypeOK, TypeOK', Separate, cache \in {"oauth", "login"}, UNCHANGED Readings,
           db' \in {db, db + 1}, cached'.ver <= db'
    PROVE  CacheInv'
<1>1. CacheFacts /\ CacheFacts'
  BY Facts, PTL
<1>2. cache' = cache /\ UNCHANGED <<refresh, pc, got, safe, invalidated, overtaken, result>>
  BY DEF Readings
<1>3. \A r \in Readers : pc[r] = "idle" /\ result[r] = -1
  BY DEF Separate
<1>4. db' >= db
  BY <1>1 DEF CacheFacts
<1>5. \A r \in Readers : got'[r] <= db'
  BY <1>1, <1>2, <1>4 DEF CacheInv, VersionsPast, CacheFacts
<1>6. LoadsValid'
  BY <1>1, <1>2, <1>4 DEF CacheInv, LoadsValid, CacheFacts
<1>7. ~Timed'
  BY <1>2 DEF Timed
<1> QED
  BY <1>2, <1>3, <1>5, <1>6, <1>7 DEF CacheInv, LoadsRecent, OnlyReturned, VersionsPast, OneRefresh, StalenessBounded

\* What requests and logins do to the row and the list.
LEMMA ListKept ==
    ASSUME TypeInv, CacheInv, (\E r \in Readers : Request(r)) \/ LoginStep
    PROVE  db' \in {db, db + 1} /\ cached'.ver <= db'
<1>1. TypeOK /\ CacheFacts /\ cached.ver <= db
  BY Facts DEF TypeInv, OAuthTypeOK, CacheInv, VersionsPast
<1>2. ASSUME UNCHANGED vars PROVE db' \in {db, db + 1} /\ cached'.ver <= db'
  BY <1>1, <1>2 DEF vars
<1>3. ASSUME DropList, DropsOnly PROVE db' \in {db, db + 1} /\ cached'.ver <= db'
  BY <1>1, <1>3 DEF DropList, DropsOnly, Invalid, CacheFacts
<1>4. ASSUME NEW c, WriteRow(c), WritesOnly PROVE db' \in {db, db + 1} /\ cached'.ver <= db'
  BY <1>1, <1>4 DEF WriteRow, WriteTable, WritesOnly, CacheFacts
<1>5. ASSUME NEW r \in Readers, Request(r) PROVE db' \in {db, db + 1} /\ cached'.ver <= db'
  <2>1. CASE TakeConfig(r)
    <3>1. PICK v \in IF Fresh THEN {cached.ver} ELSE {db, db - 1} \cap Versions : cached' = [ver |-> v, age |-> 0]
      BY <2>1 DEF TakeConfig
    <3>2. v <= db
      BY <1>1, <3>1 DEF CacheFacts
    <3> QED
      BY <2>1, <3>1, <3>2 DEF TakeConfig, DropsOnly
  <2>2. CASE SaveCredential(r)
    BY <1>4, <2>2 DEF SaveCredential
  <2>3. CASE Unlist(r)
    BY <1>3, <2>3 DEF Unlist
  <2>4. CASE Use(r)
    BY <1>2, <1>3, <2>4 DEF Use
  <2> QED
    BY <1>2, <1>5, <2>1, <2>2, <2>3, <2>4
       DEF Request, Direct, Peek, Join, Fly, Refreshed, RefreshFails, SaveFails, SaveModels, SaveModelsFails, Enter
<1>6. ASSUME Others PROVE db' \in {db, db + 1} /\ cached'.ver <= db'
  BY <1>2, <1>6 DEF Others
<1>7. ASSUME NEW l \in Logins, Complete(l) PROVE db' \in {db, db + 1} /\ cached'.ver <= db'
  <2>1. CASE Commit1(l)
    BY <1>4, <1>6, <2>1 DEF Commit1
  <2>2. CASE Commit2(l)
    BY <1>2, <2>2 DEF Commit2
  <2>3. CASE DropEntry(l)
    BY <1>2, <2>3 DEF DropEntry
  <2>4. CASE DropListed(l)
    BY <1>3, <2>4 DEF DropListed
  <2> QED
    BY <1>6, <1>7, <2>1, <2>2, <2>3, <2>4 DEF Complete, Select, Exchange, CloseListener, Finish
<1> QED
  BY <1>5, <1>6, <1>7 DEF LoginStep, Close, StartReplaces, Start, StartFails, Cancel, Shut, Callback

LEMMA CacheStep ==
    ASSUME TypeOK, TypeOK', CacheInv, Next, cache \notin {"oauth", "login"}
    PROVE  CacheInv'
<1>0. Timed \/ cache = "apiKeys"
  BY CacheAssumption DEF TypeOK, Timed
<1>13. cached \in [ver : Versions, age : 0..TTL + 1]
  BY DEF TypeOK
<1>1. CacheFacts /\ CacheFacts'
  BY Facts, PTL
<1>2. /\ pc \in [Readers \cup Writers -> Phases] /\ got \in [Readers -> Versions] /\ safe \in [Readers -> Versions]
      /\ took \in [Readers -> 0..MaxLoad] /\ result \in [Readers -> Versions \cup {-1}]
      /\ wrote \in [Versions -> 0..Horizon] /\ Versions = 0..MaxWrites
  BY DEF TypeOK, Phases, Versions
<1>3. ASSUME NEW r \in Readers, Lookup(r) PROVE CacheInv'
  <2>1. pc[r] = "idle" /\ UNCHANGED <<cache, db, wrote, cached, refresh, invalidated, overtaken>>
    BY <1>2, <1>3, Numbers DEF Lookup, Goto, Return, AfterMiss
  <2>2. \A q \in Readers : q # r => pc'[q] = pc[q] /\ safe'[q] = safe[q] /\ result'[q] = result[q]
                                 /\ got'[q] = got[q] /\ took'[q] = took[q]
    BY <1>2, <1>3, Numbers DEF Lookup, Goto, Return, AfterMiss
  <2>3. safe'[r] = IF overtaken THEN 0 ELSE invalidated
    BY <1>2, <1>3, Numbers DEF Lookup, Goto, Return, AfterMiss
  <2>4. Fresh => pc'[r] = "returned" /\ result'[r] = cached.ver /\ got'[r] = 0
    BY <1>2, <1>3, Numbers DEF Lookup, Goto, Return, AfterMiss
  <2>5. ~Fresh => /\ pc'[r] = (IF cache = "channels" THEN "refresh" ELSE "load")
                  /\ result'[r] = result[r] /\ got'[r] = got[r] /\ took'[r] = took[r]
    BY <1>2, <1>3, Numbers DEF Lookup, Goto, Return, AfterMiss
  <2>6. LoadsRecent'
    BY <1>1, <2>1, <2>2, <2>3, <2>4, <2>5, Numbers, CacheAssumption
       DEF CacheInv, CacheFacts, LoadsRecent, Outdated, Fresh, Timed
  <2>7. LoadsValid'
    BY <1>1, <2>1, <2>2, <2>3, <2>4, <2>5, Numbers, CacheAssumption DEF CacheInv, CacheFacts, LoadsValid, Fresh
  <2>8. OnlyReturned'
    BY <1>1, <2>1, <2>2, <2>3, <2>4, <2>5, Numbers, CacheAssumption DEF CacheInv, CacheFacts, OnlyReturned
  <2>9. VersionsPast'
    BY <1>1, <2>1, <2>2, <2>3, <2>4, <2>5, Numbers, CacheAssumption DEF CacheInv, CacheFacts, VersionsPast
  <2>10. OneRefresh'
    BY <1>1, <2>1, <2>2, <2>3, <2>4, <2>5, Numbers, CacheAssumption DEF CacheInv, CacheFacts, OneRefresh, VersionsPast
  <2>11. StalenessBounded'
    BY <1>1, <1>0, <2>1, <2>2, <2>3, <2>4, <2>5, Numbers, CacheAssumption
       DEF CacheInv, CacheFacts, StalenessBounded, Outdated, Timed, LoadsRecent, LoadsValid, OnlyReturned,
           OneRefresh, Fresh
  <2> QED
    BY <2>6, <2>7, <2>8, <2>9, <2>10, <2>11 DEF CacheInv
<1>4. ASSUME NEW r \in Readers, TakeRefresh(r) PROVE CacheInv'
  <2>1. pc[r] = "refresh" /\ refresh = NoReader /\ refresh' = r /\ pc'[r] = "recheck"
    BY <1>2, <1>4, Numbers DEF TakeRefresh, Goto
  <2>2. UNCHANGED <<cache, db, wrote, cached, got, took, safe, invalidated, overtaken, result>>
    BY <1>2, <1>4, Numbers DEF TakeRefresh, Goto
  <2>3. \A q \in Readers : q # r => pc'[q] = pc[q]
    BY <1>2, <1>4, Numbers DEF TakeRefresh, Goto
  <2>4. LoadsRecent'
    BY <1>1, <2>1, <2>2, <2>3, Numbers, CacheAssumption DEF CacheInv, CacheFacts, LoadsRecent, Outdated, Fresh, Timed
  <2>5. LoadsValid'
    BY <1>1, <2>1, <2>2, <2>3, Numbers, CacheAssumption DEF CacheInv, CacheFacts, LoadsValid, Fresh
  <2>6. OnlyReturned'
    BY <1>1, <2>1, <2>2, <2>3, Numbers, CacheAssumption DEF CacheInv, CacheFacts, OnlyReturned
  <2>7. VersionsPast'
    BY <1>1, <2>1, <2>2, <2>3, Numbers, CacheAssumption DEF CacheInv, CacheFacts, VersionsPast
  <2>8. OneRefresh'
    BY <1>1, <2>1, <2>2, <2>3, Numbers, CacheAssumption DEF CacheInv, CacheFacts, OneRefresh, VersionsPast
  <2>9. StalenessBounded'
    BY <1>1, <1>0, <2>1, <2>2, <2>3, Numbers, CacheAssumption
       DEF CacheInv, CacheFacts, StalenessBounded, Outdated, Timed, LoadsRecent, LoadsValid, OnlyReturned,
           OneRefresh, Fresh
  <2> QED
    BY <2>4, <2>5, <2>6, <2>7, <2>8, <2>9 DEF CacheInv
<1>5. ASSUME NEW r \in Readers, Recheck(r) PROVE CacheInv'
  <2>1. pc[r] = "recheck" /\ UNCHANGED <<cache, db, wrote, cached, safe, invalidated, overtaken>>
    BY <1>2, <1>5, Numbers DEF Recheck, Goto, Return
  <2>2. \A q \in Readers : q # r => pc'[q] = pc[q] /\ result'[q] = result[q] /\ got'[q] = got[q] /\ took'[q] = took[q]
    BY <1>2, <1>5, Numbers DEF Recheck, Goto, Return
  <2>3. Fresh => refresh' = NoReader /\ pc'[r] = "returned" /\ result'[r] = cached.ver /\ got'[r] = 0
    BY <1>2, <1>5, Numbers DEF Recheck, Goto, Return
  <2>4. ~Fresh => /\ pc'[r] = "load" /\ refresh' = refresh
                  /\ result'[r] = result[r] /\ got'[r] = got[r] /\ took'[r] = took[r]
    BY <1>2, <1>5, Numbers DEF Recheck, Goto, Return
  <2>5. LoadsRecent'
    BY <1>1, <2>1, <2>2, <2>3, <2>4, Numbers, CacheAssumption
       DEF CacheInv, CacheFacts, LoadsRecent, Outdated, Fresh, Timed
  <2>6. LoadsValid'
    BY <1>1, <2>1, <2>2, <2>3, <2>4, Numbers, CacheAssumption DEF CacheInv, CacheFacts, LoadsValid, Fresh
  <2>7. OnlyReturned'
    BY <1>1, <2>1, <2>2, <2>3, <2>4, Numbers, CacheAssumption DEF CacheInv, CacheFacts, OnlyReturned
  <2>8. VersionsPast'
    BY <1>1, <2>1, <2>2, <2>3, <2>4, Numbers, CacheAssumption DEF CacheInv, CacheFacts, VersionsPast
  <2>9. OneRefresh'
    BY <1>1, <2>1, <2>2, <2>3, <2>4, Numbers, CacheAssumption DEF CacheInv, CacheFacts, OneRefresh, VersionsPast
  <2>10. StalenessBounded'
    BY <1>1, <1>0, <2>1, <2>2, <2>3, <2>4, Numbers, CacheAssumption
       DEF CacheInv, CacheFacts, StalenessBounded, Outdated, Timed, LoadsRecent, LoadsValid, OnlyReturned,
           OneRefresh, Fresh
  <2> QED
    BY <2>5, <2>6, <2>7, <2>8, <2>9, <2>10 DEF CacheInv
<1>6. ASSUME NEW r \in Readers, Load(r) PROVE CacheInv'
  <2>1. pc[r] = "load" /\ pc'[r] = "store" /\ got'[r] = db /\ took'[r] = 0
    BY <1>2, <1>6, Numbers DEF Load, Goto
  <2>2. UNCHANGED <<cache, db, wrote, cached, refresh, safe, invalidated, overtaken, result>>
    BY <1>2, <1>6, Numbers DEF Load, Goto
  <2>3. \A q \in Readers : q # r => pc'[q] = pc[q] /\ got'[q] = got[q] /\ took'[q] = took[q]
    BY <1>2, <1>6, Numbers DEF Load, Goto
  <2>4. LoadsRecent'
    BY <1>1, <2>1, <2>2, <2>3, Numbers, CacheAssumption DEF CacheInv, CacheFacts, LoadsRecent, Outdated, Fresh, Timed
  <2>5. LoadsValid'
    BY <1>1, <2>1, <2>2, <2>3, Numbers, CacheAssumption DEF CacheInv, CacheFacts, LoadsValid, Fresh
  <2>6. OnlyReturned'
    BY <1>1, <2>1, <2>2, <2>3, Numbers, CacheAssumption DEF CacheInv, CacheFacts, OnlyReturned
  <2>7. VersionsPast'
    BY <1>1, <2>1, <2>2, <2>3, Numbers, CacheAssumption DEF CacheInv, CacheFacts, VersionsPast
  <2>8. OneRefresh'
    BY <1>1, <2>1, <2>2, <2>3, Numbers, CacheAssumption DEF CacheInv, CacheFacts, OneRefresh, VersionsPast
  <2>9. StalenessBounded'
    BY <1>1, <1>0, <2>1, <2>2, <2>3, Numbers, CacheAssumption
       DEF CacheInv, CacheFacts, StalenessBounded, Outdated, Timed, LoadsRecent, LoadsValid, OnlyReturned,
           OneRefresh, Fresh
  <2> QED
    BY <2>4, <2>5, <2>6, <2>7, <2>8, <2>9 DEF CacheInv
<1>7. ASSUME NEW r \in Readers, LoadFails(r) PROVE CacheInv'
  <2>1. pc[r] = "load" /\ UNCHANGED <<cache, db, wrote, cached, invalidated, overtaken>>
    BY <1>2, <1>7, Numbers DEF LoadFails, Goto, Return, Unhold
  <2>2. refresh' = IF refresh = r THEN NoReader ELSE refresh
    BY <1>2, <1>7, Numbers DEF LoadFails, Goto, Return, Unhold
  <2>3. \A q \in Readers : q # r => pc'[q] = pc[q] /\ safe'[q] = safe[q] /\ result'[q] = result[q]
                                 /\ got'[q] = got[q] /\ took'[q] = took[q]
    BY <1>2, <1>7, Numbers DEF LoadFails, Goto, Return, Unhold
  <2>4. cache = "channels" => pc'[r] = "returned" /\ result'[r] = db /\ got'[r] = 0 /\ safe'[r] = safe[r]
    BY <1>2, <1>7, Numbers DEF LoadFails, Goto, Return, Unhold
  <2>5. cache # "channels" => pc'[r] = "idle" /\ result'[r] = result[r] /\ got'[r] = got[r]
                           /\ took'[r] = took[r] /\ safe'[r] = 0
    BY <1>2, <1>7, Numbers DEF LoadFails, Goto, Return, Unhold
  <2>6. LoadsRecent'
    BY <1>1, <2>1, <2>2, <2>3, <2>4, <2>5, Numbers, CacheAssumption
       DEF CacheInv, CacheFacts, LoadsRecent, Outdated, Fresh, Timed
  <2>7. LoadsValid'
    BY <1>1, <2>1, <2>2, <2>3, <2>4, <2>5, Numbers, CacheAssumption DEF CacheInv, CacheFacts, LoadsValid, Fresh
  <2>8. OnlyReturned'
    BY <1>1, <2>1, <2>2, <2>3, <2>4, <2>5, Numbers, CacheAssumption DEF CacheInv, CacheFacts, OnlyReturned
  <2>9. VersionsPast'
    BY <1>1, <2>1, <2>2, <2>3, <2>4, <2>5, Numbers, CacheAssumption DEF CacheInv, CacheFacts, VersionsPast
  <2>10. OneRefresh'
    BY <1>1, <2>1, <2>2, <2>3, <2>4, <2>5, Numbers, CacheAssumption DEF CacheInv, CacheFacts, OneRefresh, VersionsPast
  <2>11. StalenessBounded'
    BY <1>1, <1>0, <2>1, <2>2, <2>3, <2>4, <2>5, Numbers, CacheAssumption
       DEF CacheInv, CacheFacts, StalenessBounded, Outdated, Timed, LoadsRecent, LoadsValid, OnlyReturned,
           OneRefresh, Fresh
  <2> QED
    BY <2>6, <2>7, <2>8, <2>9, <2>10, <2>11 DEF CacheInv
<1>8. ASSUME NEW r \in Readers, Store(r) PROVE CacheInv'
  <2>1. pc[r] = "store" /\ UNCHANGED <<cache, db, wrote, safe, invalidated>>
    BY <1>2, <1>8, Numbers DEF Store, Goto, Return, Unhold
  <2>2. cached'.ver = got[r] /\ cached'.age = 0 /\ (~overtaken' => ~(got[r] < invalidated))
    BY <1>2, <1>8, Numbers DEF Store, Goto, Return, Unhold
  <2>3. refresh' = IF refresh = r THEN NoReader ELSE refresh
    BY <1>2, <1>8, Numbers DEF Store, Goto, Return, Unhold
  <2>4. \A q \in Readers : q # r => pc'[q] = pc[q] /\ result'[q] = result[q] /\ got'[q] = got[q] /\ took'[q] = took[q]
    BY <1>2, <1>8, Numbers DEF Store, Goto, Return, Unhold
  <2>5. pc'[r] = "returned" /\ result'[r] = got[r] /\ got'[r] = 0
    BY <1>2, <1>8, Numbers DEF Store, Goto, Return, Unhold
  <2>6. LoadsRecent'
    BY <1>1, <2>1, <2>2, <2>3, <2>4, <2>5, Numbers, CacheAssumption
       DEF CacheInv, CacheFacts, LoadsRecent, Outdated, Fresh, Timed
  <2>7. LoadsValid'
    BY <1>1, <2>1, <2>2, <2>3, <2>4, <2>5, Numbers, CacheAssumption DEF CacheInv, CacheFacts, LoadsValid, Fresh
  <2>8. OnlyReturned'
    BY <1>1, <2>1, <2>2, <2>3, <2>4, <2>5, Numbers, CacheAssumption DEF CacheInv, CacheFacts, OnlyReturned
  <2>9. VersionsPast'
    BY <1>1, <2>1, <2>2, <2>3, <2>4, <2>5, Numbers, CacheAssumption DEF CacheInv, CacheFacts, VersionsPast
  <2>10. OneRefresh'
    BY <1>1, <2>1, <2>2, <2>3, <2>4, <2>5, Numbers, CacheAssumption DEF CacheInv, CacheFacts, OneRefresh, VersionsPast
  <2>11. StalenessBounded'
    BY <1>1, <1>0, <2>1, <2>2, <2>3, <2>4, <2>5, Numbers, CacheAssumption
       DEF CacheInv, CacheFacts, StalenessBounded, Outdated, Timed, LoadsRecent, LoadsValid, OnlyReturned,
           OneRefresh, Fresh
  <2> QED
    BY <2>6, <2>7, <2>8, <2>9, <2>10, <2>11 DEF CacheInv
<1>9. ASSUME NEW r \in Readers, NextCall(r) PROVE CacheInv'
  <2>1. pc[r] = "returned" /\ UNCHANGED <<cache, db, wrote, cached, refresh, got, took, invalidated, overtaken>>
    BY <1>2, <1>9, Numbers DEF NextCall, Goto
  <2>2. \A q \in Readers : q # r => pc'[q] = pc[q] /\ result'[q] = result[q] /\ safe'[q] = safe[q]
    BY <1>2, <1>9, Numbers DEF NextCall, Goto
  <2>3. pc'[r] = "idle" /\ result'[r] = -1 /\ safe'[r] = 0
    BY <1>2, <1>9, Numbers DEF NextCall, Goto
  <2>4. LoadsRecent'
    BY <1>1, <2>1, <2>2, <2>3, Numbers, CacheAssumption DEF CacheInv, CacheFacts, LoadsRecent, Outdated, Fresh, Timed
  <2>5. LoadsValid'
    BY <1>1, <2>1, <2>2, <2>3, Numbers, CacheAssumption DEF CacheInv, CacheFacts, LoadsValid, Fresh
  <2>6. OnlyReturned'
    BY <1>1, <2>1, <2>2, <2>3, Numbers, CacheAssumption DEF CacheInv, CacheFacts, OnlyReturned
  <2>7. VersionsPast'
    BY <1>1, <2>1, <2>2, <2>3, Numbers, CacheAssumption DEF CacheInv, CacheFacts, VersionsPast
  <2>8. OneRefresh'
    BY <1>1, <2>1, <2>2, <2>3, Numbers, CacheAssumption DEF CacheInv, CacheFacts, OneRefresh, VersionsPast
  <2>9. StalenessBounded'
    BY <1>1, <1>0, <2>1, <2>2, <2>3, Numbers, CacheAssumption
       DEF CacheInv, CacheFacts, StalenessBounded, Outdated, Timed, LoadsRecent, LoadsValid, OnlyReturned,
           OneRefresh, Fresh
  <2> QED
    BY <2>4, <2>5, <2>6, <2>7, <2>8, <2>9 DEF CacheInv
<1>10. ASSUME NEW w \in Writers, Commit(w) PROVE CacheInv'
  <2>1. pc[w] = "idle" /\ db' = db + 1 /\ db < MaxWrites
    BY <1>2, <1>10, Numbers DEF Commit, Goto, WriteTable
  <2>2. wrote'[db + 1] = 0
    <3>1. db + 1 \in Versions
      BY <1>1, <1>2, <1>10 DEF Commit, WriteTable, CacheFacts
    <3> QED
      BY <1>2, <1>10, <3>1 DEF Commit, WriteTable
  <2>3. \A v \in 0..MaxWrites : v # db + 1 => wrote'[v] = wrote[v]
    BY <1>2, <1>10, Numbers DEF Commit, Goto, WriteTable
  <2>4. UNCHANGED <<cache, cached, refresh, got, took, safe, invalidated, overtaken, result>>
    BY <1>2, <1>10, Numbers DEF Commit, Goto, WriteTable
  <2>5. \A q \in Readers : pc'[q] = pc[q] \/ (pc[q] = "idle" /\ pc'[q] = "invalidate")
    BY <1>2, <1>10, Numbers DEF Commit, Goto, WriteTable
  <2>6. LoadsRecent'
    BY <1>1, <2>1, <2>2, <2>3, <2>4, <2>5, Numbers, CacheAssumption
       DEF CacheInv, CacheFacts, LoadsRecent, Outdated, Fresh, Timed
  <2>7. LoadsValid'
    BY <1>1, <2>1, <2>2, <2>3, <2>4, <2>5, Numbers, CacheAssumption DEF CacheInv, CacheFacts, LoadsValid, Fresh
  <2>8. OnlyReturned'
    BY <1>1, <2>1, <2>2, <2>3, <2>4, <2>5, Numbers, CacheAssumption DEF CacheInv, CacheFacts, OnlyReturned
  <2>9. VersionsPast'
    BY <1>1, <2>1, <2>2, <2>3, <2>4, <2>5, Numbers, CacheAssumption DEF CacheInv, CacheFacts, VersionsPast
  <2>10. OneRefresh'
    BY <1>1, <2>1, <2>2, <2>3, <2>4, <2>5, Numbers, CacheAssumption DEF CacheInv, CacheFacts, OneRefresh, VersionsPast
  <2>11. StalenessBounded'
    BY <1>1, <1>0, <2>1, <2>2, <2>3, <2>4, <2>5, Numbers, CacheAssumption
       DEF CacheInv, CacheFacts, StalenessBounded, Outdated, Timed, LoadsRecent, LoadsValid, OnlyReturned,
           OneRefresh, Fresh
  <2> QED
    BY <2>6, <2>7, <2>8, <2>9, <2>10, <2>11 DEF CacheInv
<1>11. ASSUME NEW w \in Writers, Invalidate(w) PROVE CacheInv'
  <2>1. cached'.ver = cached.ver /\ cached'.age = TTL + 1 /\ invalidated' = db /\ ~overtaken'
    BY <1>2, <1>11, Numbers DEF Invalidate, Goto, DropCache
  <2>2. UNCHANGED <<cache, db, wrote, refresh, got, took, safe, result>>
    BY <1>2, <1>11, Numbers DEF Invalidate, Goto, DropCache
  <2>3. \A q \in Readers : pc'[q] = pc[q] \/ (pc[q] = "invalidate" /\ pc'[q] = "idle")
    BY <1>2, <1>11, Numbers DEF Invalidate, Goto, DropCache
  <2>4. LoadsRecent'
    BY <1>1, <2>1, <2>2, <2>3, Numbers, CacheAssumption DEF CacheInv, CacheFacts, LoadsRecent, Outdated, Fresh, Timed
  <2>5. LoadsValid'
    BY <1>1, <2>1, <2>2, <2>3, Numbers, CacheAssumption DEF CacheInv, CacheFacts, LoadsValid, Fresh
  <2>6. OnlyReturned'
    BY <1>1, <2>1, <2>2, <2>3, Numbers, CacheAssumption DEF CacheInv, CacheFacts, OnlyReturned
  <2>7. VersionsPast'
    BY <1>1, <2>1, <2>2, <2>3, Numbers, CacheAssumption DEF CacheInv, CacheFacts, VersionsPast
  <2>8. OneRefresh'
    BY <1>1, <2>1, <2>2, <2>3, Numbers, CacheAssumption DEF CacheInv, CacheFacts, OneRefresh, VersionsPast
  <2>9. StalenessBounded'
    BY <1>1, <1>0, <2>1, <2>2, <2>3, Numbers, CacheAssumption
       DEF CacheInv, CacheFacts, StalenessBounded, Outdated, Timed, LoadsRecent, LoadsValid, OnlyReturned,
           OneRefresh, Fresh
  <2> QED
    BY <2>4, <2>5, <2>6, <2>7, <2>8, <2>9 DEF CacheInv
<1>12. ASSUME Tick PROVE CacheInv'
  <2>1. cached'.ver = cached.ver
     /\ (Timed => cached'.age = IF cached.age + 1 <= TTL + 1 THEN cached.age + 1 ELSE TTL + 1)
    <3>1. Min({cached.age + 1, TTL + 1}) = IF cached.age + 1 <= TTL + 1 THEN cached.age + 1 ELSE TTL + 1
      <4>1. cached.age \in Int /\ TTL + 1 \in Int
        BY <1>1, Numbers DEF CacheFacts
      <4> QED
        BY <4>1, Capped
    <3> QED
      BY <1>12, <3>1, <1>13 DEF Tick, Aged
  <2>2. ~Timed => cached' = cached
    BY <1>12 DEF Tick, Aged
  <2>3. Timed => \A v \in 1..db : wrote'[v] <= wrote[v] + 1
    <3> SUFFICES ASSUME Timed, NEW v \in 1..db PROVE wrote'[v] <= wrote[v] + 1
      OBVIOUS
    <3>1. v \in Versions /\ wrote[v] \in Int
      <4>1. v \in 0..MaxWrites
        BY <1>1, Numbers DEF CacheFacts
      <4> QED
        BY <1>1, <1>2, <4>1 DEF CacheFacts
    <3>2. Min({wrote[v] + 1, Horizon}) <= wrote[v] + 1
      BY <3>1, Capped, Numbers
    <3> QED
      BY <1>12, <3>1, <3>2 DEF Tick
  <2>4. /\ \A r \in Readers : pc[r] # "returned"
        /\ \A r \in Readers : pc[r] = "store" => took'[r] = took[r] + 1
        /\ UNCHANGED <<cache, db, refresh, pc, got, safe, invalidated, overtaken, result>>
    BY <1>2, <1>12 DEF Tick
  <2>5. LoadsRecent'
    BY <1>1, <2>1, <2>3, <2>4, Numbers DEF CacheInv, CacheFacts, LoadsRecent, Outdated, Fresh, Timed
  <2>6. LoadsValid'
    BY <1>1, <2>2, <2>4, Numbers DEF CacheInv, CacheFacts, LoadsValid, Fresh, Timed
  <2>7. OnlyReturned'
    BY <2>4 DEF CacheInv, OnlyReturned
  <2>8. VersionsPast'
    BY <2>1, <2>4 DEF CacheInv, VersionsPast
  <2>9. OneRefresh'
    BY <2>1, <2>4 DEF CacheInv, OneRefresh
  <2>10. StalenessBounded'
    BY <2>4 DEF CacheInv, OnlyReturned, StalenessBounded
  <2> QED
    BY <2>5, <2>6, <2>7, <2>8, <2>9, <2>10 DEF CacheInv
<1> QED
  BY <1>3, <1>4, <1>5, <1>6, <1>7, <1>8, <1>9, <1>10, <1>11, <1>12 DEF Next

LEMMA CacheNext == TypeInv /\ TypeInv' /\ Separate /\ CacheInv /\ [OAuthNext]_allVars => CacheInv'
<1> SUFFICES ASSUME TypeInv, TypeInv', Separate, CacheInv, [OAuthNext]_allVars PROVE CacheInv'
  OBVIOUS
<1>1. TypeOK /\ TypeOK'
  BY DEF TypeInv, OAuthTypeOK
<1>2. CASE UNCHANGED allVars
  BY <1>2 DEF allVars, vars, CacheInv, LoadsRecent, LoadsValid, OnlyReturned, VersionsPast, OneRefresh,
              StalenessBounded, Outdated, Timed, Fresh
<1>3. CASE cache \notin {"oauth", "login"} /\ Next
  BY <1>1, <1>3, CacheStep
<1>4. ASSUME NEW r \in Readers, Request(r) PROVE CacheInv'
  BY <1>1, <1>4, CacheOAuth, ListKept, RequestsApart, RequestsLeave
<1>5. CASE LoginStep
  <2>1. CASE StartFails
    BY <2>1 DEF StartFails, Others, vars, CacheInv, LoadsRecent, LoadsValid, OnlyReturned, VersionsPast, OneRefresh,
                StalenessBounded, Outdated, Timed, Fresh
  <2>2. CASE ~StartFails
    BY <1>1, <1>5, <2>2, CacheOAuth, ListKept, LoginsApart, LoginsLeave
  <2> QED
    BY <2>1, <2>2
<1> QED
  BY <1>2, <1>3, <1>4, <1>5 DEF OAuthNext, LoginStep

LEMMA CacheInductive == OAuthSpec => [](TypeInv /\ Separate /\ CacheInv)
<1>1. OAuthInit => TypeInv /\ Separate /\ CacheInv
  BY TypeInit, SeparateInit, CacheInit
<1>2. TypeInv /\ Separate /\ CacheInv /\ [OAuthNext]_allVars => (TypeInv /\ Separate /\ CacheInv)'
  BY TypeNext, SeparateNext, CacheNext
<1> QED
  BY <1>1, <1>2, PTL DEF OAuthSpec

\* A cache with a TTL never returns what was superseded longer ago than the TTL and
\* the time of one load; the API keys are as new as the last invalidation, unless a
\* load that it overtook was stored after it.
THEOREM CacheStaleness == OAuthSpec => []StalenessBounded
BY CacheInductive, PTL DEF CacheInv

\* The channel list is only stored by the holder of refreshMutex, who has loaded it
\* since the list was last stored.
LEMMA MonotoneStep ==
    ASSUME TypeInv, Separate, CacheInv, [OAuthNext]_allVars
    PROVE  cache = "channels" /\ cached'.age = 0 => cached'.ver >= cached.ver
<1> SUFFICES ASSUME cache = "channels", cached'.age = 0 PROVE cached'.ver >= cached.ver
  OBVIOUS
<1>1. CacheFacts /\ cached \in [ver : Versions, age : 0..TTL + 1]
  BY Facts DEF TypeInv, OAuthTypeOK, TypeOK
<1>2. ASSUME UNCHANGED cached PROVE cached'.ver >= cached.ver
  BY <1>1, <1>2 DEF CacheFacts
<1>3. CASE UNCHANGED allVars
  BY <1>2, <1>3 DEF allVars, vars
<1>4. CASE Next
  <2>1. ASSUME NEW r \in Readers, Store(r) PROVE cached'.ver >= cached.ver
    <3>1. cached'.ver = got[r] /\ got[r] >= cached.ver
      BY <2>1 DEF Store, CacheInv, OneRefresh
    <3> QED
      BY <3>1
  <2>2. CASE Tick
    <3>1. cached'.ver = cached.ver
      BY <1>1, <2>2 DEF Tick, Aged
    <3> QED
      BY <1>1, <3>1 DEF CacheFacts
  <2>3. ASSUME NEW w \in Writers, Invalidate(w) PROVE cached'.ver >= cached.ver
    <3>1. cached'.ver = cached.ver
      BY <1>1, <2>3 DEF Invalidate, DropCache
    <3> QED
      BY <1>1, <3>1 DEF CacheFacts
  <2> QED
    BY <1>2, <1>4, <2>1, <2>2, <2>3 DEF Next, Lookup, TakeRefresh, Recheck, Load, LoadFails, NextCall, Commit
<1>5. CASE \E r \in Readers : Request(r)
  BY <1>5, RequestsApart
<1>6. CASE LoginStep
  BY <1>2, <1>6, LoginsApart DEF StartFails, Others, vars
<1> QED
  BY <1>3, <1>4, <1>5, <1>6 DEF OAuthNext, LoginStep

\* refreshMutex: the cached channel list never goes back to an older version, for any
\* number of readers and writers.
THEOREM ListMonotone == OAuthSpec => ChannelListMonotone
<1>1. TypeInv /\ Separate /\ CacheInv /\ [OAuthNext]_allVars
        => [cache = "channels" /\ cached'.age = 0 => cached'.ver >= cached.ver]_vars
  BY MonotoneStep
<1> QED
  BY <1>1, CacheInductive, PTL DEF OAuthSpec, ChannelListMonotone

-------------------------------------------------------------------------------
(* Logins.                                                                 *)

\* One login's part of LoginsInv.
LoginOK(l) ==
    LET s == session[l]
    IN  /\ s.status \in {"none", "pending"} => latest # l /\ ~s.ended
        /\ s.status = "none" => s = NoSession
        /\ s.status # "none" => s.at # "none"
        /\ s.status = "pending" => s.at \in {"select", "exchange", "close", "finish"}
        /\ s.ended /\ ~closed => s.at \notin {"commit", "models", "drop", "unlist"}
        /\ s.at \in {"select", "exchange", "commit", "models"} => ~s.err
        /\ s.status = "cancelled" => s.ended
        /\ s.ended => s.status = "cancelled" /\ (closed \/ latest # l)

ActiveOK == active # 0 => session[active].at \notin {"none", "drop", "unlist", "over"}

LEMMA LoginsAre == LoginsInv <=> ActiveOK /\ \A l \in Logins : LoginOK(l)
BY DEF LoginsInv, LoginsClean, LoginSteps, ActiveOK, LoginOK

LEMMA LoginsWill ==
    ASSUME ActiveOK', \A l \in Logins : LoginOK(l)'
    PROVE  LoginsInv'
BY DEF LoginsInv, LoginsClean, LoginSteps, ActiveOK, LoginOK

LEMMA LoginsInit == OAuthInit => LoginsInv
BY DEF OAuthInit, CredentialsInit, LoginsInv, LoginsClean, LoginSteps, NoSession, Logins

LEMMA LoginsComplete ==
    ASSUME TypeInv, LoginsInv, NEW l \in Logins, Complete(l)
    PROVE  LoginsInv'
<1>1. session \in [Logins -> SessionType] /\ active \in Logins \cup {0}
  BY DEF TypeInv, OAuthTypeOK, SessionType
<1>2. ActiveOK /\ \A k \in Logins : LoginOK(k)
  BY LoginsAre
<1>3. \A k \in Logins : k # l => session'[k] = session[k]
  BY OthersStay
<1>4. closed' = closed /\ active' \in {active, 0} /\ session[l].at # "none" /\ session'[l].ended = session[l].ended
  BY OthersStay
<1>5. session[l].status # "none"
  BY <1>2, <1>4 DEF LoginOK, NoSession
<1>6. Others => latest' = latest
  BY DEF Others, manager
<1>7. \A k \in Logins : k # l => LoginOK(k)'
  <2>1. latest' \in {latest, l}
    BY <1>6, Completes DEF TakesCode, EndsInError, MayWrite, WritesRow, WritesModels, Closes, Finishes,
                           DropsEntry, DropsList, Commit2, DropEntry, DropListed, manager
  <2> QED
    BY <1>2, <1>3, <1>4, <2>1 DEF LoginOK
<1>8. LoginOK(l)' /\ (active = l => active' = 0 \/ session'[l].at \notin {"none", "drop", "unlist", "over"})
  <2>1. CASE TakesCode(l)
    BY <1>2, <1>5, <1>6, <2>1 DEF LoginOK, Continues, TakesCode
  <2>2. CASE EndsInError(l)
    BY <1>2, <1>5, <1>6, <2>2 DEF LoginOK, Continues, EndsInError
  <2>3. CASE MayWrite(l)
    BY <1>2, <1>5, <1>6, <2>3 DEF LoginOK, Continues, MayWrite
  <2>4. CASE WritesRow(l)
    BY <1>2, <1>5, <1>6, <2>4 DEF LoginOK, Continues, WritesRow
  <2>5. CASE WritesModels(l)
    BY <1>2, <1>5, <1>6, <2>5 DEF LoginOK, Continues, WritesModels, Commit2
  <2>6. CASE Closes(l)
    BY <1>2, <1>5, <1>6, <2>6 DEF LoginOK, Continues, Closes
  <2>7. CASE Finishes(l)
    BY <1>2, <1>5, <1>6, <2>7 DEF LoginOK, Continues, Finishes
  <2>8. CASE DropsEntry(l)
    BY <1>2, <1>5, <1>6, <2>8 DEF LoginOK, Continues, DropsEntry, ActiveOK, DropEntry
  <2>9. CASE DropsList(l)
    BY <1>2, <1>5, <1>6, <2>9 DEF LoginOK, Continues, DropsList, ActiveOK, DropListed, manager
  <2> QED
    BY <2>1, <2>2, <2>3, <2>4, <2>5, <2>6, <2>7, <2>8, <2>9, Completes
<1>9. ActiveOK'
  BY <1>1, <1>2, <1>3, <1>4, <1>8 DEF ActiveOK
<1> QED
  <2>1. \A k \in Logins : LoginOK(k)'
    BY <1>7, <1>8
  <2> QED
    BY <1>9, <2>1, LoginsWill

LEMMA LoginsCancel ==
    ASSUME TypeInv, LoginsInv, NEW l \in Logins, Cancelled(l), Others,
           \/ Cancellable(l) /\ closed' = closed
           \/ closed' /\ l = active
    PROVE  LoginsInv'
<1>1. session \in [Logins -> SessionType] /\ active \in Logins \cup {0}
  BY DEF TypeInv, OAuthTypeOK, SessionType
<1>2. ActiveOK /\ \A k \in Logins : LoginOK(k)
  BY LoginsAre
<1>3. /\ \A k \in Logins : k # l => session'[k] = session[k]
      /\ session'[l].status = "cancelled" /\ session'[l].ended /\ session'[l].at = session[l].at
      /\ session'[l].err = session[l].err
      /\ active' = IF active = l THEN 0 ELSE active
  BY <1>1 DEF Cancelled, SessionType
<1>4. latest' = latest
  BY DEF Others, manager
<1>5. \A k \in Logins : k # l => LoginOK(k)'
  BY <1>2, <1>3, <1>4 DEF LoginOK
<1>6. LoginOK(l)'
  <2>1. 0 \notin Logins
    BY Numbers DEF Logins
  <2>2. session[l].at # "none"
    BY <1>2, <2>1 DEF LoginOK, ActiveOK, Cancellable
  <2> QED
    BY <1>2, <1>3, <1>4, <2>2 DEF LoginOK, Cancellable
<1>7. ActiveOK'
  BY <1>1, <1>2, <1>3 DEF ActiveOK
<1> QED
  <2>1. \A k \in Logins : LoginOK(k)'
    BY <1>5, <1>6
  <2> QED
    BY <1>7, <2>1, LoginsWill

LEMMA LoginsNext == TypeInv /\ LoginsInv /\ [OAuthNext]_allVars => LoginsInv'
<1> SUFFICES ASSUME TypeInv, LoginsInv, [OAuthNext]_allVars PROVE LoginsInv'
  OBVIOUS
<1>1. session \in [Logins -> SessionType] /\ active \in Logins \cup {0}
  BY DEF TypeInv, OAuthTypeOK, SessionType
<1>2. ActiveOK /\ \A k \in Logins : LoginOK(k)
  BY LoginsAre
<1>3. ActiveOK' /\ (\A k \in Logins : LoginOK(k)') => LoginsInv'
  BY LoginsWill
<1>4. ASSUME UNCHANGED <<login, latest>> PROVE LoginsInv'
  BY <1>4 DEF login, LoginsInv, LoginsClean, LoginSteps
<1>5. ASSUME Others PROVE latest' = latest
  BY <1>5 DEF Others, manager
<1>6. CASE UNCHANGED allVars \/ (Next /\ UNCHANGED <<manager, login>>)
  BY <1>4, <1>6 DEF allVars, manager
<1>7. ASSUME NEW r \in Readers, Request(r), UNCHANGED login PROVE LoginsInv'
  BY <1>4, <1>7, RequestsLeave
<1>8. CASE Close
  <2>1. CASE UNCHANGED <<session, active>>
    <3>1. ActiveOK'
      BY <1>2, <2>1 DEF ActiveOK
    <3>2. closed' /\ latest' = latest
      BY <1>5, <1>8 DEF Close
    <3>3. \A k \in Logins : LoginOK(k)'
      BY <1>2, <2>1, <3>2 DEF LoginOK
    <3> QED
      BY <1>3, <3>1, <3>3
  <2>2. CASE active # 0 /\ Cancelled(active)
    BY <1>1, <1>8, <2>2, LoginsCancel DEF Close
  <2> QED
    BY <1>8, <2>1, <2>2 DEF Close
<1>9. CASE StartReplaces
  BY <1>1, <1>9, LoginsCancel DEF StartReplaces
<1>10. ASSUME NEW l \in Logins, Cancel(l) PROVE LoginsInv'
  BY <1>10, LoginsCancel DEF Cancel
<1>11. CASE Start
  <2>1. PICK l \in Logins :
          /\ session[l].status = "none"
          /\ session' = [session EXCEPT ![l] = [NoSession EXCEPT !.status = "pending", !.at = "select",
                                                                 !.listens = TRUE]]
          /\ active' = l
    BY <1>11 DEF Start
  <2>2. closed' = closed /\ latest' = latest
    BY <1>5, <1>11 DEF Start
  <2>3. /\ session'[l].status = "pending" /\ session'[l].at = "select" /\ ~session'[l].ended /\ ~session'[l].err
        /\ \A k \in Logins : k # l => session'[k] = session[k]
    BY <1>1, <2>1 DEF NoSession
  <2>4. \A k \in Logins : LoginOK(k)'
    BY <1>2, <2>1, <2>2, <2>3 DEF LoginOK
  <2> QED
    BY <1>3, <2>1, <2>3, <2>4 DEF ActiveOK
<1>12. CASE StartFails
  BY <1>5, <1>2, <1>3, <1>12 DEF StartFails, LoginOK, ActiveOK
<1>13. ASSUME NEW l \in Logins, Shut(l) \/ Callback(l) PROVE LoginsInv'
  <2>1. closed' = closed /\ active' = active /\ latest' = latest
    BY <1>5, <1>13 DEF Shut, Callback
  <2>2. \A k \in Logins : k # l => session'[k] = session[k]
    BY <1>1, <1>13 DEF Shut, Callback
  <2>3. session[l].status # "none"
    BY <1>2, <1>13 DEF Shut, Callback, LoginOK, NoSession
  <2>4. /\ session'[l].status = session[l].status /\ session'[l].at = session[l].at
        /\ session'[l].ended = session[l].ended /\ session'[l].err = session[l].err
    <3>1. session[l] \in SessionType
      BY <1>1
    <3> QED
      BY <1>1, <3>1, <1>13 DEF Shut, Callback, SessionType
  <2>5. \A k \in Logins : LoginOK(k)'
    BY <1>2, <2>1, <2>2, <2>3, <2>4 DEF LoginOK
  <2>6. ActiveOK'
    BY <1>1, <1>2, <2>1, <2>2, <2>4 DEF ActiveOK
  <2> QED
    BY <1>3, <2>5, <2>6
<1>14. ASSUME NEW l \in Logins, Complete(l) PROVE LoginsInv'
  BY <1>14, LoginsComplete
<1> QED
  BY <1>6, <1>7, <1>8, <1>9, <1>10, <1>11, <1>12, <1>13, <1>14 DEF OAuthNext

\* For any number of logins: one that was cancelled writes nothing, unless it was
\* writing when the server was closed, and the active login is never one that is over.
THEOREM OAuthLoginsClean == OAuthSpec => []LoginsClean
<1>1. OAuthInit => TypeInv /\ LoginsInv
  BY TypeInit, LoginsInit
<1>2. TypeInv /\ LoginsInv /\ [OAuthNext]_allVars => (TypeInv /\ LoginsInv)'
  BY TypeNext, LoginsNext
<1>3. TypeInv /\ LoginsInv => LoginsClean
  BY DEF LoginsInv
<1> QED
  BY <1>1, <1>2, <1>3, PTL DEF OAuthSpec

-------------------------------------------------------------------------------
(* The steps of a request, one by one.                                     *)

OthersSame(r) == \A q \in Readers : q # r => job'[q] = job[q]

Keeps(r) ==
    /\ job'[r].cfg = job[r].cfg /\ job'[r].cred = job[r].cred
    /\ job'[r].token = job[r].token /\ job'[r].base = job[r].base

\* The flight of r is over, for everyone who waited.
Landed(r) ==
    /\ flying' = NoReader
    /\ \A q \in Readers :
         \/ q # r /\ job[q].at # "wait" /\ job'[q] = job[q]
         \/ /\ q = r \/ job[q].at = "wait"
            /\ job'[q].at \in {"none", "use"} /\ job'[q].cfg \in {job[q].cfg, NoCredential}
            /\ job'[q].cred = NoCredential /\ ~job'[q].token /\ job'[q].base = 0

RowSame == UNCHANGED <<db, content>>

Begins(r) ==
    /\ job[r].at = "none" /\ job'[r].at = "peek" /\ OthersSame(r)
    /\ \E v \in Versions : job'[r].cfg = content[v]
    /\ job'[r].cred = NoCredential /\ ~job'[r].token /\ job'[r].base = 0
    /\ RowSame /\ UNCHANGED <<entry, flying, spent, orphans, excused>>

Peeks(r) ==
    /\ job[r].at = "peek" /\ job'[r].at \in {"join", "use"} /\ Keeps(r) /\ OthersSame(r)
    /\ cachedOrParse(r)
    /\ RowSame /\ UNCHANGED <<flying, spent, orphans>>

Joins(r) ==
    /\ job[r].at = "join" /\ Keeps(r) /\ OthersSame(r)
    /\ \/ flying = NoReader /\ flying' = r /\ job'[r].at = "fly"
       \/ flying' = flying /\ job'[r].at = "wait"
    /\ RowSame /\ UNCHANGED <<entry, spent, orphans, excused>>

Flies(r) ==
    /\ job[r].at = "fly" /\ OthersSame(r)
    /\ job'[r].at \in {"present", "save"} /\ (job'[r].token <=> job'[r].at = "present")
    /\ job'[r].cred = Found(r) /\ job'[r].base = dropped /\ job'[r].cfg \in {job[r].cfg, NoCredential}
    /\ cachedOrParse(r)
    /\ RowSame /\ UNCHANGED <<flying, spent, orphans>>

FliesOut(r) ==
    /\ job[r].at = "fly" /\ Landed(r)
    /\ cachedOrParse(r)
    /\ RowSame /\ UNCHANGED <<spent, orphans>>

Rotates(r) ==
    /\ job[r].at = "present" /\ job'[r].at = "save" /\ OthersSame(r)
    /\ job'[r].cred = [job[r].cred EXCEPT !.turn = @ + 1] /\ job[r].cred \notin spent
    /\ job'[r].cfg = job[r].cfg /\ job'[r].token = job[r].token /\ job'[r].base = job[r].base
    /\ spent' = spent \cup {job[r].cred}
    /\ RowSame /\ UNCHANGED <<entry, flying, orphans, excused>>

RotatesNot(r) ==
    /\ job[r].at = "present" /\ Landed(r)
    /\ \/ spent' = spent \cup {job[r].cred} /\ orphans' = orphans \cup {job[r].cred}
       \/ UNCHANGED <<spent, orphans>>
    /\ RowSame /\ UNCHANGED <<entry, excused>>

Saves(r) ==
    /\ job[r].at = "save" /\ (job'[r].at = "enter" \/ (job'[r].at = "models" /\ provider = "codex")) /\ Keeps(r) /\ OthersSame(r)
    /\ WriteRow(job[r].cred)
    /\ excused' = IF job[r].cred.login < latest /\ job[r].base < latest
                  THEN excused \cup {"overlap"} ELSE excused
    /\ UNCHANGED <<entry, flying, spent, orphans>>

SavesNot(r) ==
    /\ job[r].at \in {"save", "models"} /\ Orphan(r) /\ Landed(r)
    /\ excused' = IF job[r].at = "models" THEN excused \cup {"lost"} ELSE excused
    /\ RowSame /\ UNCHANGED <<entry, spent>>

Unlists(r) ==
    /\ \/ job[r].at = "models" /\ job'[r].at = "unlist"
       \/ job[r].at = "unlist" /\ job'[r].at = "enter" /\ provider = "codex"
    /\ Keeps(r) /\ OthersSame(r)
    /\ RowSame /\ UNCHANGED <<entry, flying, spent, orphans, excused>>

UnlistsLast(r) ==
    /\ job[r].at = "unlist" /\ provider # "codex" /\ Landed(r)
    /\ RowSame /\ UNCHANGED <<entry, spent, orphans, excused>>

Enters(r) ==
    /\ job[r].at = "enter" /\ entry' = job[r].cred
    /\ excused' = IF job[r].cred.login < dropped THEN excused \cup {"overlap"}
                  ELSE IF job[r].token /\ job[r].cred = Row THEN excused \ {"lost"} ELSE excused
    /\ \/ provider = "codex" /\ Landed(r)
       \/ provider # "codex" /\ job'[r].at = "unlist" /\ Keeps(r) /\ OthersSame(r) /\ flying' = flying
    /\ RowSame /\ UNCHANGED <<spent, orphans>>

Uses(r) ==
    /\ job[r].at = "use" /\ OthersSame(r)
    /\ \/ job'[r] = NoJob
       \/ job'[r].at = "peek" /\ Keeps(r)
    /\ RowSame /\ UNCHANGED <<entry, flying, spent, orphans, excused>>

LEMMA LandsSo ==
    ASSUME CredentialsOK, HasConfig, NEW r \in Readers, NEW c \in Credentials \cup {NoCredential}, Land(r, c),
           job[r].at \in Flights
    PROVE  Landed(r)
<1>1. job \in [Readers -> JobType]
  BY JobsTyped
<1> SUFFICES ASSUME NEW q \in Readers
             PROVE  \/ q # r /\ job[q].at # "wait" /\ job'[q] = job[q]
                    \/ /\ q = r \/ job[q].at = "wait"
                       /\ job'[q].at \in {"none", "use"} /\ job'[q].cfg \in {job[q].cfg, NoCredential}
                       /\ job'[q].cred = NoCredential /\ ~job'[q].token /\ job'[q].base = 0
  BY DEF Landed, Land
<1>2. job[q] \in JobType
  BY <1>1
<1>3. CASE q # r /\ job[q].at # "wait"
  BY <1>3 DEF Land
<1>4. CASE (q = r \/ job[q].at = "wait") /\ c = NoCredential
  BY <1>4 DEF Land, NoJob
<1>5. CASE (q = r \/ job[q].at = "wait") /\ c # NoCredential
  <2>1. job'[q] = [job[q] EXCEPT !.at = "use", !.cred = NoCredential, !.token = FALSE, !.base = 0]
    BY <1>5 DEF Land
  <2> QED
    BY <1>2, <1>5, <2>1 DEF JobType
<1> QED
  BY <1>3, <1>4, <1>5

RequestSteps(r) ==
    \/ Begins(r) \/ Peeks(r) \/ Joins(r) \/ Flies(r) \/ FliesOut(r) \/ Rotates(r) \/ RotatesNot(r)
    \/ Saves(r) \/ SavesNot(r) \/ Unlists(r) \/ UnlistsLast(r) \/ Enters(r) \/ Uses(r)

LEMMA Requests ==
    ASSUME TypeInv, NEW r \in Readers, Request(r)
    PROVE  RequestSteps(r)
<1>1. TypeOK /\ CredentialsOK /\ HasConfig
  BY DEF TypeInv, OAuthTypeOK
<1>2. job \in [Readers -> JobType] /\ job[r] \in JobType
  BY <1>1, JobsTyped
<1>3. UNCHANGED vars => db' = db
  BY DEF vars
<1>4. ASSUME NEW a \in Steps, job' = [job EXCEPT ![r].at = a]
      PROVE  job'[r].at = a /\ Keeps(r) /\ OthersSame(r)
  BY <1>2, <1>4 DEF Keeps, OthersSame, JobType
<1>5. ASSUME job[r].at \in {"peek", "fly"}
      PROVE  Found(r) \in Credentials
  BY <1>1, <1>5 DEF HasConfig, CredentialsOK, Found
<1>6. ASSUME NEW c \in Credentials \cup {NoCredential}, Land(r, c), job[r].at \in Flights PROVE Landed(r)
  BY <1>1, <1>6, LandsSo
<1>7. CASE TakeConfig(r)
  <2>1. PICK v \in IF Fresh THEN {cached.ver} ELSE {db, db - 1} \cap Versions :
          job' = [job EXCEPT ![r] = [NoJob EXCEPT !.at = "peek", !.cfg = content[v]]]
    BY <1>7 DEF TakeConfig
  <2>2. v \in Versions
    BY <1>1 DEF TypeOK
  <2>3. /\ job'[r].at = "peek" /\ job'[r].cfg = content[v] /\ OthersSame(r)
        /\ job'[r].cred = NoCredential /\ ~job'[r].token /\ job'[r].base = 0
    BY <1>2, <2>1 DEF NoJob, OthersSame
  <2> QED
    BY <1>7, <2>2, <2>3 DEF TakeConfig, Begins, RequestSteps, DropsOnly, RowSame
<1>8. CASE Direct(r)
  <2>1. /\ job'[r].at = "peek" /\ job'[r].cfg = content[db] /\ OthersSame(r)
        /\ job'[r].cred = NoCredential /\ ~job'[r].token /\ job'[r].base = 0
    BY <1>2, <1>8 DEF Direct, NoJob, OthersSame, Row
  <2>2. db \in Versions
    BY <1>1 DEF TypeOK
  <2> QED
    BY <1>3, <1>8, <2>1, <2>2 DEF Direct, Begins, RequestSteps, RowSame
<1>9. CASE Peek(r)
  <2>1. PICK a \in {"join", "use"} : job' = [job EXCEPT ![r].at = a]
    BY <1>9 DEF Peek
  <2>2. a \in Steps
    BY DEF Steps
  <2> QED
    BY <1>3, <1>4, <1>9, <2>1, <2>2 DEF Peek, Peeks, RequestSteps, RowSame
<1>10. CASE Join(r)
  <2>1. "fly" \in Steps /\ "wait" \in Steps
    BY DEF Steps
  <2>2. CASE flying = NoReader
    BY <1>3, <1>4, <1>10, <2>1, <2>2 DEF Join, Joins, RequestSteps, RowSame
  <2>3. CASE flying # NoReader
    BY <1>3, <1>4, <1>10, <2>1, <2>3 DEF Join, Joins, RequestSteps, RowSame
  <2> QED
    BY <2>2, <2>3
<1>11. CASE Fly(r)
  <2>1. CASE Land(r, Found(r))
    BY <1>3, <1>5, <1>6, <1>11, <2>1 DEF Fly, FliesOut, RequestSteps, Flights, RowSame
  <2>2. CASE ~Land(r, Found(r))
    <3>1. PICK tok \in BOOLEAN :
            /\ job' = [job EXCEPT ![r].at = IF tok THEN "present" ELSE "save",
                                  ![r].cred = FoundInFlight(r), ![r].token = tok, ![r].base = dropped,
                                  ![r].cfg = IF job[r].forced THEN NoCredential ELSE @]
            /\ UNCHANGED flying
      BY <1>11, <2>2 DEF Fly
    <3> DEFINE j == [job[r] EXCEPT !.at = IF tok THEN "present" ELSE "save", !.cred = Found(r),
                                   !.token = tok, !.base = dropped,
                                   !.cfg = IF job[r].forced THEN NoCredential ELSE @]
    <3>2. /\ j.at = (IF tok THEN "present" ELSE "save") /\ j.cred = Found(r) /\ j.token = tok /\ j.base = dropped
          /\ j.cfg \in {job[r].cfg, NoCredential}
      BY <1>2 DEF JobType
    <3>3. job' = [job EXCEPT ![r] = j]
      BY <3>1 DEF FoundInFlight
    <3>4. job'[r] = j /\ OthersSame(r)
      <4> HIDE DEF j
      <4> QED
        BY <1>2, <3>3 DEF OthersSame
    <3> HIDE DEF j
    <3> QED
      BY <1>3, <1>11, <3>1, <3>2, <3>4 DEF Fly, Flies, RequestSteps, RowSame
  <2> QED
    BY <2>1, <2>2
<1>12. CASE Refreshed(r)
  <2> DEFINE j == [job[r] EXCEPT !.at = "save", !.cred.turn = @ + 1]
  <2>1. job' = [job EXCEPT ![r] = j]
    BY <1>12 DEF Refreshed
  <2>2. /\ j.at = "save" /\ j.cred = [job[r].cred EXCEPT !.turn = @ + 1] /\ j.cfg = job[r].cfg
        /\ j.token = job[r].token /\ j.base = job[r].base
    BY <1>2 DEF JobType
  <2>3. job'[r] = j /\ OthersSame(r)
    <3> HIDE DEF j
    <3> QED
      BY <1>2, <2>1 DEF OthersSame
  <2> HIDE DEF j
  <2> QED
    BY <1>3, <1>12, <2>2, <2>3 DEF Refreshed, Rotates, RequestSteps, RowSame
<1>13. CASE RefreshFails(r)
  BY <1>3, <1>6, <1>13 DEF RefreshFails, RotatesNot, RequestSteps, Flights, RowSame
<1>14. CASE SaveCredential(r)
  <2>1. PICK a \in {"models", "enter"} : job' = [job EXCEPT ![r].at = a] /\ (a = "models" => provider = "codex")
    BY <1>14 DEF SaveCredential
  <2>2. a \in Steps
    BY DEF Steps
  <2> QED
    BY <1>4, <1>14, <2>1, <2>2 DEF SaveCredential, Saves, RequestSteps
<1>15. CASE SaveFails(r)
  BY <1>3, <1>6, <1>15 DEF SaveFails, SavesNot, RequestSteps, Flights, RowSame
<1>16. CASE SaveModelsFails(r)
  BY <1>3, <1>6, <1>16 DEF SaveModelsFails, SavesNot, RequestSteps, Flights, RowSame
<1>17. CASE SaveModels(r)
  <2>1. "unlist" \in Steps
    BY DEF Steps
  <2> QED
    BY <1>3, <1>4, <1>17, <2>1 DEF SaveModels, Unlists, RequestSteps, RowSame
<1>18. CASE Unlist(r)
  <2>1. "enter" \in Steps /\ job[r].cred \in Credentials \cup {NoCredential}
    BY <1>2 DEF Steps, JobType
  <2>2. CASE provider = "codex"
    BY <1>4, <1>18, <2>1, <2>2 DEF Unlist, Unlists, RequestSteps, DropsOnly, RowSame
  <2>3. CASE provider # "codex"
    BY <1>6, <1>18, <2>1, <2>3 DEF Unlist, UnlistsLast, RequestSteps, DropsOnly, RowSame, Flights
  <2> QED
    BY <2>2, <2>3
<1>19. CASE Enter(r)
  <2>1. "unlist" \in Steps /\ job[r].cred \in Credentials \cup {NoCredential}
    BY <1>2 DEF Steps, JobType
  <2>2. CASE provider = "codex"
    BY <1>3, <1>6, <1>19, <2>1, <2>2 DEF Enter, Enters, RequestSteps, RowSame, Flights
  <2>3. CASE provider # "codex"
    BY <1>3, <1>4, <1>19, <2>1, <2>3 DEF Enter, Enters, RequestSteps, RowSame
  <2> QED
    BY <2>2, <2>3
<1>20. CASE Use(r)
  <2>1. db' = db
    BY <1>3, <1>20 DEF Use, DropsOnly
  <2>2. CASE job' = [job EXCEPT ![r] = NoJob]
    BY <1>2, <1>20, <2>1, <2>2 DEF Use, Uses, RequestSteps, RowSame, OthersSame
  <2>3. CASE job' = [job EXCEPT ![r].at = "peek", ![r].forced = TRUE]
    <3>1. job'[r].at = "peek" /\ Keeps(r) /\ OthersSame(r)
      BY <1>2, <2>3 DEF Keeps, OthersSame, JobType
    <3> QED
      BY <1>20, <2>1, <3>1 DEF Use, Uses, RequestSteps, RowSame
  <2> QED
    BY <1>20, <2>2, <2>3 DEF Use
<1> QED
  BY <1>7, <1>8, <1>9, <1>10, <1>11, <1>12, <1>13, <1>14, <1>15, <1>16, <1>17, <1>18, <1>19, <1>20 DEF Request

-------------------------------------------------------------------------------
(* Flights.                                                                *)

LEMMA FlightRequest ==
    ASSUME TypeInv, OneFlight, NEW r \in Readers, Request(r)
    PROVE  OneFlight'
<1>1. provider' = provider /\ RequestSteps(r)
  BY RequestsLeave, Requests
<1>2. NoReader \notin Readers
  BY CacheAssumption
<1>3. ASSUME OthersSame(r), flying' = flying, job'[r].at \in Flights => job[r].at \in Flights,
             job'[r].at = "present" => job'[r].token, job'[r].at = "models" => provider = "codex"
      PROVE  OneFlight'
  BY <1>1, <1>3 DEF OneFlight, OthersSame
<1>4. ASSUME Landed(r), job[r].at \in Flights
      PROVE  OneFlight'
  <2> SUFFICES ASSUME NEW q \in Readers
               PROVE  job'[q].at \notin Flights
    BY DEF OneFlight, Flights
  <2>1. CASE q # r /\ job[q].at # "wait" /\ job'[q] = job[q]
    BY <1>4, <2>1 DEF OneFlight
  <2>2. CASE job'[q].at \in {"none", "use"}
    BY <2>2 DEF Flights
  <2> QED
    BY <1>4, <2>1, <2>2 DEF Landed
<1>5. CASE Begins(r)
  BY <1>3, <1>5 DEF Begins, Flights
<1>6. CASE Peeks(r)
  BY <1>3, <1>6 DEF Peeks, Flights
<1>7. CASE Joins(r)
  <2>1. CASE flying = NoReader /\ flying' = r /\ job'[r].at = "fly"
    <3>1. \A q \in Readers : q # r => job'[q].at \notin Flights
      BY <1>2, <1>7, <2>1 DEF Joins, OneFlight, OthersSame
    <3> QED
      BY <1>1, <2>1, <3>1 DEF OneFlight, Flights
  <2>2. CASE flying' = flying /\ job'[r].at = "wait"
    BY <1>3, <1>7, <2>2 DEF Joins, Flights
  <2> QED
    BY <1>7, <2>1, <2>2 DEF Joins
<1>8. CASE Flies(r)
  BY <1>3, <1>8 DEF Flies, Flights
<1>9. CASE FliesOut(r)
  BY <1>4, <1>9 DEF FliesOut, Flights
<1>10. CASE Rotates(r)
  BY <1>3, <1>10 DEF Rotates, Flights
<1>11. CASE RotatesNot(r)
  BY <1>4, <1>11 DEF RotatesNot, Flights
<1>12. CASE Saves(r)
  BY <1>3, <1>12 DEF Saves, Flights
<1>13. CASE SavesNot(r)
  BY <1>4, <1>13 DEF SavesNot, Flights
<1>14. CASE Unlists(r)
  BY <1>3, <1>14 DEF Unlists, Flights
<1>15. CASE UnlistsLast(r)
  BY <1>4, <1>15 DEF UnlistsLast, Flights
<1>16. CASE Enters(r)
  BY <1>3, <1>4, <1>16 DEF Enters, Flights
<1>17. CASE Uses(r)
  BY <1>3, <1>17, Constants DEF Uses, Flights
<1> QED
  BY <1>1, <1>5, <1>6, <1>7, <1>8, <1>9, <1>10, <1>11, <1>12, <1>13, <1>14, <1>15, <1>16, <1>17 DEF RequestSteps

LEMMA FlightNext == TypeInv /\ OneFlight /\ [OAuthNext]_allVars => OneFlight'
<1> SUFFICES ASSUME TypeInv, OneFlight, [OAuthNext]_allVars PROVE OneFlight'
  OBVIOUS
<1>1. ASSUME UNCHANGED <<job, flying, provider>> PROVE OneFlight'
  BY <1>1 DEF OneFlight
<1>2. CASE UNCHANGED allVars \/ (Next /\ UNCHANGED <<manager, login>>)
  BY <1>1, <1>2 DEF allVars, manager
<1>3. CASE LoginStep
  BY <1>1, <1>3, LoginsLeave
<1> QED
  BY <1>2, <1>3, FlightRequest DEF OAuthNext, LoginStep

-------------------------------------------------------------------------------
(* Credentials, one by one.                                                *)

LEMMA BeforeAfter ==
    ASSUME NEW c \in Credentials
    PROVE  /\ Before(After(c)) = c /\ After(c).login = c.login /\ After(c).turn = c.turn + 1 /\ After(c) # c
           /\ c.login \in Nat /\ c.login <= MaxLogins /\ c.turn \in Nat
<1>1. c = [login |-> c.login, turn |-> c.turn] /\ c.login \in 0..MaxLogins /\ c.turn \in 0..MaxTurns
  BY DEF Credentials
<1>2. After(c) = [login |-> c.login, turn |-> c.turn + 1]
  BY <1>1 DEF After
<1>3. After(c).login = c.login /\ After(c).turn = c.turn + 1
  BY <1>2
<1>4. ASSUME NEW a, NEW n \in Nat, NEW m \in Nat, m - 1 = n
      PROVE  Before([login |-> a, turn |-> m]) = [login |-> a, turn |-> n]
  BY <1>4 DEF Before
<1>5. c.turn \in Nat /\ c.turn + 1 \in Nat /\ c.turn + 1 - 1 = c.turn /\ c.turn + 1 # c.turn
  BY <1>1, Numbers
<1>6. Before(After(c)) = c
  BY <1>1, <1>2, <1>4, <1>5
<1> QED
  BY <1>1, <1>3, <1>5, <1>6, Numbers

LEMMA KnownStays ==
    ASSUME NEW c \in Credentials \cup {NoCredential}, NEW n \in Int, NEW m \in Int, n <= m,
           NEW s, NEW t, s \subseteq t, KnownIn(c, n, s)
    PROVE  KnownIn(c, m, t)
<1>1. c.login \in Int
  BY DEF Credentials, NoCredential
<1> QED
  BY <1>1 DEF KnownIn

\* What an entry becomes when it is looked up.
LEMMA FoundIs ==
    ASSUME TypeInv, NEW r \in Readers, job[r].at \in {"peek", "fly"}, cachedOrParse(r)
    PROVE  /\ entry' = Found(r) /\ entry' \in Credentials /\ entry' # NoCredential
           /\ excused \subseteq excused'
           /\ \/ entry # NoCredential /\ entry' = entry /\ excused' = excused
              \/ entry = NoCredential /\ entry' = job[r].cfg /\ "revived" \in excused'
                 /\ excused' = excused \cup {"revived"}
              \/ entry = NoCredential /\ entry' = job[r].cfg /\ job[r].cfg = Row /\ excused' = excused
<1>1. job[r].cfg \in Credentials /\ entry \in Credentials \cup {NoCredential}
  BY DEF TypeInv, OAuthTypeOK, HasConfig, CredentialsOK
<1> QED
  BY <1>1, Constants DEF cachedOrParse, Found

-------------------------------------------------------------------------------
(* The one login beside requests.                                          *)

\* Nothing but where the login waits.
Quietly ==
    /\ Others
    /\ \A l \in Logins : \/ session'[l].at = session[l].at /\ session'[l].err = session[l].err
                         \/ session[l].at = "none" /\ session'[l].at = "select"

LEMMA OneLogin ==
    ASSUME TypeInv, Separate, LoginsInv, LoginStep, cache = "oauth"
    PROVE  /\ ~closed /\ ~closed' /\ \A l \in Logins : l # 1 => session[l] = NoSession /\ session'[l] = NoSession
           /\ Quietly \/ (1 \in Logins /\ Complete(1))
<1>1. session \in [Logins -> SessionType]
  BY DEF TypeInv, OAuthTypeOK, SessionType
<1>2. \A l \in Logins : l # 1 => session[l].at = "none" /\ session[l].status = "none" /\ ~session[l].shut
  BY DEF Separate, NoSession
<1>3. ~closed /\ ~closed' /\ \A l \in Logins : l # 1 => session[l] = NoSession /\ session'[l] = NoSession
  BY SeparateLogins DEF Separate
<1>4. CASE Start
  <2>1. PICK l \in Logins :
          /\ session[l].status = "none"
          /\ session' = [session EXCEPT ![l] = [NoSession EXCEPT !.status = "pending", !.at = "select",
                                                                 !.listens = TRUE]]
    BY <1>4 DEF Start
  <2>2. session[l].at = "none"
    BY <2>1 DEF LoginsInv, LoginSteps, NoSession
  <2>3. session'[l].at = "select" /\ \A k \in Logins : k # l => session'[k] = session[k]
    BY <1>1, <2>1 DEF NoSession
  <2> QED
    BY <1>3, <1>4, <2>2, <2>3 DEF Start, Quietly
<1>5. CASE StartFails
  BY <1>3, <1>5 DEF StartFails, Quietly
<1>6. ASSUME NEW l \in Logins, Shut(l) \/ Callback(l) PROVE Quietly
  <2>1. \A k \in Logins : k # l => session'[k] = session[k]
    BY <1>1, <1>6 DEF Shut, Callback
  <2>2. session[l] \in SessionType
    BY <1>1
  <2>3. session'[l].at = session[l].at /\ session'[l].err = session[l].err
    BY <1>1, <2>2, <1>6 DEF Shut, Callback, SessionType
  <2> QED
    BY <1>6, <2>1, <2>3 DEF Shut, Callback, Quietly
<1>7. ASSUME NEW l \in Logins, Complete(l) PROVE l = 1
  BY <1>2, <1>7, OthersStay
<1> QED
  BY <1>3, <1>4, <1>5, <1>6, <1>7 DEF LoginStep, Close, StartReplaces, Cancel

CompleteSteps(l) ==
    \/ TakesCode(l) \/ EndsInError(l) \/ MayWrite(l) \/ WritesRow(l) \/ WritesModels(l)
    \/ Closes(l) \/ Finishes(l) \/ DropsEntry(l) \/ DropsList(l)

\* What matters of a login to the credentials.
LoginNow ==
    /\ latest \in {0, 1} /\ dropped <= latest
    /\ session[1].at \in {"none", "select", "exchange", "commit"} => latest = 0
    /\ Wrote(1) => latest = 1
    /\ session[1].at \notin {"unlist", "over"} => dropped = 0

LEMMA LoginSoFarNext ==
    TypeInv /\ Separate /\ LoginsInv /\ LoginSoFar /\ [OAuthNext]_allVars => LoginSoFar'
<1> SUFFICES ASSUME TypeInv, Separate, LoginsInv, LoginSoFar, [OAuthNext]_allVars PROVE LoginSoFar'
  OBVIOUS
<1>1. ASSUME UNCHANGED <<cache, latest, dropped, session>> PROVE LoginSoFar'
  BY <1>1 DEF LoginSoFar, Wrote
<1>2. CASE UNCHANGED allVars
  BY <1>1, <1>2 DEF allVars, vars, manager, login
<1>3. CASE cache \notin {"oauth", "login"} /\ Next /\ UNCHANGED <<manager, login>>
  <2>1. cache' = cache
    BY <1>3 DEF Next, Lookup, TakeRefresh, Recheck, Load, LoadFails, Store, NextCall, Commit, Invalidate, Tick
  <2> QED
    BY <1>3, <2>1 DEF LoginSoFar
<1>4. ASSUME NEW r \in Readers, Request(r), UNCHANGED login PROVE LoginSoFar'
  BY <1>1, <1>4, RequestsLeave DEF login, Readings
<1>5. CASE LoginStep
  <2>1. cache' = cache
    BY <1>5, LoginsLeave DEF Readings
  <2>2. SUFFICES ASSUME cache = "oauth" PROVE LoginSoFar'
    BY <2>1 DEF LoginSoFar
  <2>3. latest \in {0, 1} /\ dropped \in Nat /\ dropped <= latest /\ MaxLogins \in Nat
    BY <2>2, Numbers DEF LoginSoFar, TypeInv, OAuthTypeOK, CredentialsOK
  <2>4. CASE Quietly
    <3>1. UNCHANGED <<latest, dropped>>
      BY <2>4 DEF Quietly, Others, manager
    <3>2. ASSUME NEW l \in Logins, l = 1
          PROVE  /\ session'[l].at \in {"none", "select", "exchange", "commit"} => latest = 0
                 /\ Wrote(l)' => latest = 1
                 /\ session'[l].at \notin {"unlist", "over"} => dropped = 0
      BY <2>2, <2>4, <3>2 DEF Quietly, LoginSoFar, Wrote
    <3> QED
      BY <2>3, <3>1, <3>2 DEF LoginSoFar
  <2>5. CASE 1 \in Logins /\ Complete(1)
    <3>1. CompleteSteps(1)
      BY <2>5, Completes DEF CompleteSteps
    <3>2. LoginNow
      BY <2>2, <2>5 DEF LoginSoFar, LoginNow
    <3>3. LoginNow' => LoginSoFar'
      BY DEF LoginSoFar, LoginNow
    <3>4. Others => UNCHANGED <<latest, dropped>>
      BY DEF Others, manager
    <3>5. TakesCode(1) => LoginNow'
      BY <3>2, <3>4 DEF LoginNow, Wrote, TakesCode, Continues
    <3>6. EndsInError(1) => LoginNow'
      BY <3>2, <3>4 DEF LoginNow, Wrote, EndsInError, Continues
    <3>7. MayWrite(1) => LoginNow'
      BY <3>2, <3>4 DEF LoginNow, Wrote, MayWrite, Continues
    <3>8. WritesRow(1) => LoginNow'
      BY <2>3, <3>2 DEF LoginNow, Wrote, WritesRow, Continues
    <3>9. WritesModels(1) => LoginNow'
      BY <3>2 DEF LoginNow, Wrote, WritesModels, Continues, Commit2
    <3>10. Closes(1) => LoginNow'
      BY <3>2, <3>4 DEF LoginNow, Wrote, Closes, Continues
    <3>11. Finishes(1) => LoginNow'
      BY <3>2, <3>4 DEF LoginNow, Wrote, Finishes, Continues
    <3>12. DropsEntry(1) => LoginNow'
      BY <3>2 DEF LoginNow, Wrote, DropsEntry, Continues, DropEntry
    <3>13. DropsList(1) => LoginNow'
      BY <3>2 DEF LoginNow, Wrote, DropsList, Continues, DropListed, manager
    <3> QED
      BY <3>1, <3>3, <3>5, <3>6, <3>7, <3>8, <3>9, <3>10, <3>11, <3>12, <3>13 DEF CompleteSteps
  <2> QED
    BY <1>5, <2>2, <2>4, <2>5, OneLogin
<1> QED
  BY <1>2, <1>3, <1>4, <1>5 DEF OAuthNext, LoginStep

-------------------------------------------------------------------------------
(* Credentials come from somewhere.                                        *)

LEMMA KnownWill ==
    ASSUME \A v \in Versions : KnownIn(content'[v], latest', spent'),
           KnownIn(entry', latest', spent'),
           \A q \in Readers : /\ KnownIn(job'[q].cfg, latest', spent') /\ KnownIn(job'[q].cred, latest', spent')
                              /\ job'[q].base <= dropped',
           \A c \in spent' : KnownIn(c, latest', spent')
    PROVE  AllKnown'
BY DEF AllKnown, Known

LEMMA KnownWas ==
    ASSUME TypeInv, AllKnown, cache = "oauth", latest <= latest', latest' \in Int, spent \subseteq spent'
    PROVE  /\ \A v \in Versions : KnownIn(content[v], latest', spent')
           /\ KnownIn(entry, latest', spent')
           /\ \A q \in Readers : /\ KnownIn(job[q].cfg, latest', spent') /\ KnownIn(job[q].cred, latest', spent')
                                 /\ job[q].base <= dropped
           /\ \A c \in spent : KnownIn(c, latest', spent')
           /\ KnownIn(NoCredential, latest', spent')
<1>1. CredentialsOK /\ job \in [Readers -> JobType] /\ latest \in Nat
  BY JobsTyped, Numbers DEF TypeInv, OAuthTypeOK, CredentialsOK
<1>2. \A q \in Readers : job[q].cfg \in Credentials \cup {NoCredential} /\ job[q].cred \in Credentials \cup {NoCredential}
  BY <1>1 DEF JobType
<1>3. /\ \A v \in Versions : Known(content[v])
      /\ Known(entry)
      /\ \A q \in Readers : Known(job[q].cfg) /\ Known(job[q].cred) /\ job[q].base <= dropped
      /\ \A c \in spent : Known(c)
  BY DEF AllKnown
<1>4. \A c \in Credentials \cup {NoCredential} : Known(c) => KnownIn(c, latest', spent')
  BY <1>1, KnownStays DEF Known
<1>5. Known(NoCredential)
  BY <1>1 DEF Known, KnownIn, NoCredential
<1>6. /\ \A v \in Versions : content[v] \in Credentials
      /\ entry \in Credentials \cup {NoCredential} /\ spent \subseteq Credentials
  BY <1>1 DEF CredentialsOK
<1>7. \A v \in Versions : KnownIn(content[v], latest', spent')
  BY <1>3, <1>4, <1>6
<1>8. KnownIn(entry, latest', spent') /\ KnownIn(NoCredential, latest', spent')
  BY <1>3, <1>4, <1>5, <1>6
<1>9. \A q \in Readers : /\ KnownIn(job[q].cfg, latest', spent') /\ KnownIn(job[q].cred, latest', spent')
                         /\ job[q].base <= dropped
  BY <1>2, <1>3, <1>4
<1>10. \A c \in spent : KnownIn(c, latest', spent')
  BY <1>3, <1>4, <1>6
<1> QED
  BY <1>7, <1>8, <1>9, <1>10

LEMMA KnownRequest ==
    ASSUME TypeInv, OneFlight, AllKnown, NEW r \in Readers, Request(r), cache = "oauth"
    PROVE  AllKnown'
<1>1. latest' = latest /\ dropped' = dropped /\ RequestSteps(r)
  BY RequestsLeave, Requests
<1>2. latest \in Nat /\ dropped \in Nat /\ db \in Versions
  BY Numbers DEF TypeInv, OAuthTypeOK, CredentialsOK, TypeOK
<1>3. spent \subseteq spent'
  BY <1>1 DEF RequestSteps, Begins, Peeks, Joins, Flies, FliesOut, Rotates, RotatesNot, Saves, SavesNot, Unlists,
              UnlistsLast, Enters, Uses
<1> DEFINE K(c) == KnownIn(c, latest', spent')
           JobsKnown == \A q \in Readers : K(job'[q].cfg) /\ K(job'[q].cred) /\ job'[q].base <= dropped
<1>4. /\ \A v \in Versions : K(content[v])
      /\ K(entry)
      /\ \A q \in Readers : K(job[q].cfg) /\ K(job[q].cred) /\ job[q].base <= dropped
      /\ \A c \in spent : K(c)
      /\ K(NoCredential)
  BY <1>1, <1>2, <1>3, KnownWas
<1>5. ASSUME \A v \in Versions : K(content'[v]), K(entry'), JobsKnown, \A c \in spent' : K(c)
      PROVE  AllKnown'
  BY <1>1, <1>5, KnownWill
<1> HIDE DEF K
<1>6. Landed(r) => JobsKnown
  BY <1>2, <1>4 DEF Landed
<1>7. OthersSame(r) /\ K(job'[r].cfg) /\ K(job'[r].cred) /\ job'[r].base <= dropped => JobsKnown
  BY <1>4 DEF OthersSame
<1>8. OthersSame(r) /\ Keeps(r) => JobsKnown
  BY <1>4, <1>7 DEF Keeps
<1>9. cachedOrParse(r) /\ job[r].at \in {"peek", "fly"} => K(entry') /\ K(Found(r))
  BY <1>4, FoundIs
<1>10. RowSame => \A v \in Versions : K(content'[v])
  BY <1>4 DEF RowSame
<1> HIDE DEF JobsKnown
<1>11. CASE Begins(r)
  <2>1. JobsKnown
    BY <1>2, <1>4, <1>7, <1>11 DEF Begins
  <2> QED
    BY <1>4, <1>5, <1>10, <1>11, <2>1 DEF Begins
<1>12. CASE Peeks(r)
  BY <1>4, <1>5, <1>8, <1>9, <1>10, <1>12 DEF Peeks
<1>13. CASE Joins(r)
  BY <1>4, <1>5, <1>8, <1>10, <1>13 DEF Joins
<1>14. CASE Flies(r)
  <2>1. JobsKnown
    BY <1>2, <1>4, <1>7, <1>9, <1>14 DEF Flies
  <2> QED
    BY <1>4, <1>5, <1>9, <1>10, <1>14, <2>1 DEF Flies
<1>15. CASE FliesOut(r)
  BY <1>4, <1>5, <1>6, <1>9, <1>10, <1>15 DEF FliesOut
<1>16. CASE Rotates(r)
  <2> DEFINE c == job[r].cred
  <2>1. c \in Credentials /\ c \in spent'
    BY <1>16 DEF TypeInv, HasConfig, Taken, Rotates
  <2>2. job'[r].cred = After(c) /\ job'[r].cfg = job[r].cfg /\ job'[r].base = job[r].base
    BY <1>16 DEF Rotates, After
  <2>3. Before(After(c)) = c /\ After(c).login = c.login
    BY <2>1, BeforeAfter
  <2>4. K(c)
    BY <1>4
  <2>5. K(job'[r].cred)
    BY <2>1, <2>2, <2>3, <2>4 DEF K, KnownIn
  <2>6. \A d \in spent' : K(d)
    BY <1>4, <1>16, <2>4 DEF Rotates
  <2>7. JobsKnown
    BY <1>4, <1>7, <1>16, <2>2, <2>5 DEF Rotates
  <2> QED
    BY <1>4, <1>5, <1>10, <1>16, <2>6, <2>7 DEF Rotates
<1>17. CASE RotatesNot(r)
  <2>1. \A d \in spent' : K(d)
    BY <1>4, <1>17 DEF RotatesNot
  <2> QED
    BY <1>4, <1>5, <1>6, <1>10, <1>17, <2>1 DEF RotatesNot
<1>18. CASE Saves(r)
  <2>1. \A v \in Versions : K(content'[v])
    BY <1>4, <1>18 DEF Saves, WriteRow
  <2> QED
    BY <1>4, <1>5, <1>8, <1>18, <2>1 DEF Saves
<1>19. CASE SavesNot(r)
  BY <1>4, <1>5, <1>6, <1>10, <1>19 DEF SavesNot
<1>20. CASE Unlists(r)
  BY <1>4, <1>5, <1>8, <1>10, <1>20 DEF Unlists
<1>21. CASE UnlistsLast(r)
  BY <1>4, <1>5, <1>6, <1>10, <1>21 DEF UnlistsLast
<1>22. CASE Enters(r)
  BY <1>4, <1>5, <1>6, <1>8, <1>10, <1>22 DEF Enters
<1>23. CASE Uses(r)
  <2>1. NoJob.cfg = NoCredential /\ NoJob.cred = NoCredential /\ NoJob.base <= dropped
    BY <1>2 DEF NoJob
  <2>2. JobsKnown
    BY <1>4, <1>7, <1>8, <1>23, <2>1 DEF Uses
  <2> QED
    BY <1>4, <1>5, <1>10, <1>23, <2>2 DEF Uses
<1> QED
  BY <1>1, <1>11, <1>12, <1>13, <1>14, <1>15, <1>16, <1>17, <1>18, <1>19, <1>20, <1>21, <1>22, <1>23 DEF RequestSteps

LEMMA KnownLogin ==
    ASSUME TypeInv, TypeInv', Separate, LoginsInv, LoginSoFar, AllKnown, LoginStep, cache = "oauth"
    PROVE  AllKnown'
<1>1. UNCHANGED <<job, spent>> /\ entry' \in {entry, NoCredential}
  BY LoginsLeave, LoginsDrop
<1>2. latest \in Nat /\ latest' \in Nat /\ dropped \in Nat /\ dropped' \in Nat
  BY Numbers DEF TypeInv, OAuthTypeOK, CredentialsOK
<1>3. Others => UNCHANGED <<latest, dropped, content>>
  BY DEF Others, manager
<1>4. /\ latest <= latest' /\ dropped <= dropped'
      /\ \/ content' = content
         \/ WriteRow([login |-> latest', turn |-> 0])
  <2>1. CASE Quietly
    BY <1>2, <1>3, <2>1 DEF Quietly
  <2>2. CASE 1 \in Logins /\ Complete(1)
    <3>1. CompleteSteps(1)
      BY <2>2, Completes DEF CompleteSteps
    <3>2. latest \in {0, 1} /\ dropped <= latest
      BY DEF LoginSoFar
    <3>3. CASE WritesRow(1)
      BY <1>2, <3>2, <3>3 DEF WritesRow
    <3>4. CASE WritesModels(1)
      BY <1>2, <3>4 DEF WritesModels, Commit2
    <3>5. CASE DropsEntry(1)
      BY <1>2, <3>2, <3>5 DEF DropsEntry, DropEntry
    <3>6. CASE DropsList(1)
      BY <1>2, <3>6 DEF DropsList, DropListed, manager
    <3>7. CASE Others
      BY <1>2, <1>3, <3>7
    <3> QED
      BY <3>1, <3>3, <3>4, <3>5, <3>6, <3>7 DEF CompleteSteps, TakesCode, EndsInError, MayWrite, Closes, Finishes
  <2> QED
    BY <2>1, <2>2, OneLogin
<1> DEFINE K(c) == KnownIn(c, latest', spent')
<1>5. /\ \A v \in Versions : K(content[v])
      /\ K(entry)
      /\ \A q \in Readers : K(job[q].cfg) /\ K(job[q].cred) /\ job[q].base <= dropped
      /\ \A c \in spent : K(c)
      /\ K(NoCredential)
  BY <1>1, <1>2, <1>4, KnownWas
<1>6. K([login |-> latest', turn |-> 0])
  BY <1>2 DEF KnownIn
<1> HIDE DEF K
<1>7. \A v \in Versions : K(content'[v])
  BY <1>4, <1>5, <1>6 DEF WriteRow
<1>8. \A q \in Readers : job[q].base \in Nat
  <2>1. job \in [Readers -> JobType]
    BY JobsTyped DEF TypeInv, OAuthTypeOK
  <2> QED
    BY <2>1, Numbers DEF JobType
<1>9. \A q \in Readers : job[q].base <= dropped'
  BY <1>2, <1>4, <1>5, <1>8
<1> QED
  BY <1>1, <1>5, <1>7, <1>9, KnownWill DEF K

LEMMA KnownNext ==
    ASSUME TypeInv, TypeInv', Separate, LoginsInv, LoginSoFar, OneFlight, AllKnown, [OAuthNext]_allVars
    PROVE  AllKnown'
<1>1. ASSUME UNCHANGED <<cache, manager>> PROVE AllKnown'
  BY <1>1 DEF manager, AllKnown, Known
<1>2. CASE UNCHANGED allVars
  BY <1>1, <1>2 DEF allVars, vars
<1>3. CASE Next /\ UNCHANGED <<manager, login>>
  <2>1. cache' = cache
    BY <1>3 DEF Next, Lookup, TakeRefresh, Recheck, Load, LoadFails, Store, NextCall, Commit, Invalidate, Tick
  <2> QED
    BY <1>1, <1>3, <2>1
<1>4. ASSUME NEW r \in Readers, Request(r) PROVE AllKnown'
  BY <1>4, RequestsApart, KnownRequest
<1>5. CASE LoginStep
  <2>1. cache' = cache
    BY <1>5, LoginsLeave DEF Readings
  <2> QED
    BY <1>5, <2>1, KnownLogin DEF AllKnown
<1> QED
  BY <1>2, <1>3, <1>4, <1>5 DEF OAuthNext, LoginStep

-------------------------------------------------------------------------------
(* The row.                                                                *)

LEMMA RowWritten ==
    ASSUME TypeInv, NEW c, WriteRow(c)
    PROVE  RowLasts' /\ Row' = c
<1>1. db \in Nat /\ MaxWrites \in Nat /\ db' = db + 1 /\ db' \in Versions
  BY Numbers DEF TypeInv, OAuthTypeOK, TypeOK, WriteRow, WriteTable, Versions
<1>2. \A v \in Versions : content'[v] = IF v > db THEN c ELSE content[v]
  BY DEF WriteRow
<1>3. \A v \in Versions : v >= db' => v > db
  BY <1>1 DEF Versions
<1>4. Row' = c
  BY <1>1, <1>2 DEF Row
<1> QED
  BY <1>2, <1>3, <1>4 DEF RowLasts

LEMMA RowSteps ==
    ASSUME TypeInv, [OAuthNext]_allVars
    PROVE  \/ RowSame
           \/ cache \notin {"oauth", "login"} /\ Next /\ UNCHANGED <<manager, login>>
           \/ \E c \in Credentials : WriteRow(c)
<1>1. UNCHANGED vars => db' = db
  BY DEF vars
<1>2. Others => RowSame
  BY <1>1 DEF Others, manager, RowSame
<1>3. CASE UNCHANGED allVars
  BY <1>1, <1>3 DEF allVars, manager, RowSame
<1>4. ASSUME NEW r \in Readers, Request(r)
      PROVE  RowSame \/ \E c \in Credentials : WriteRow(c)
  <2>1. RequestSteps(r)
    BY <1>4, Requests
  <2>2. CASE Saves(r)
    <3>1. job[r].cred \in Credentials
      BY <2>2 DEF Saves, TypeInv, HasConfig, Taken
    <3> QED
      BY <2>2, <3>1 DEF Saves
  <2> QED
    BY <2>1, <2>2 DEF RequestSteps, Begins, Peeks, Joins, Flies, FliesOut, Rotates, RotatesNot, SavesNot, Unlists,
                      UnlistsLast, Enters, Uses
<1>5. ASSUME NEW l \in Logins, Complete(l)
      PROVE  RowSame \/ \E c \in Credentials : WriteRow(c)
  <2>1. CompleteSteps(l)
    BY <1>5, Completes DEF CompleteSteps
  <2>2. CASE WritesRow(l)
    <3>1. [login |-> l, turn |-> 0] \in Credentials
      BY Numbers DEF Credentials, Logins
    <3> QED
      BY <2>2, <3>1 DEF WritesRow
  <2>3. CASE WritesModels(l)
    BY <1>1, <2>3 DEF WritesModels, Commit2, RowSame
  <2>4. CASE DropsEntry(l)
    BY <1>1, <2>4 DEF DropsEntry, DropEntry, RowSame
  <2>5. CASE DropsList(l)
    BY <2>5 DEF DropsList, DropListed, DropsOnly, manager, RowSame
  <2> QED
    BY <1>2, <2>1, <2>2, <2>3, <2>4, <2>5 DEF CompleteSteps, TakesCode, EndsInError, MayWrite, Closes, Finishes
<1> QED
  BY <1>2, <1>3, <1>4, <1>5 DEF OAuthNext, Close, StartReplaces, Start, StartFails, Cancel, Shut, Callback

LEMMA RowLastsNext ==
    TypeInv /\ TypeInv' /\ RowLasts /\ [OAuthNext]_allVars =>
      RowLasts' /\ (~(\E c \in Credentials : WriteRow(c)) => Row' = Row)
<1> SUFFICES ASSUME TypeInv, TypeInv', RowLasts, [OAuthNext]_allVars
             PROVE  RowLasts' /\ (~(\E c \in Credentials : WriteRow(c)) => Row' = Row)
  OBVIOUS
<1>1. CASE RowSame
  BY <1>1 DEF RowSame, RowLasts, Row
<1>2. CASE \E c \in Credentials : WriteRow(c)
  BY <1>2, RowWritten
<1>3. CASE cache \notin {"oauth", "login"} /\ Next /\ UNCHANGED <<manager, login>>
  <2>1. db' = db \/ db' = db + 1
    BY <1>3 DEF Next, Lookup, TakeRefresh, Recheck, Load, LoadFails, Store, NextCall, Commit, WriteTable,
                Invalidate, Tick
  <2>2. content' = content /\ db \in Nat /\ db' \in Versions
    BY <1>3, Numbers DEF manager, TypeInv, OAuthTypeOK, TypeOK, Versions
  <2>3. content[db'] = Row
    BY <2>1, <2>2 DEF RowLasts, Row
  <2>4. \A v \in Versions : v >= db' => v >= db
    BY <2>1, <2>2 DEF Versions
  <2> QED
    BY <2>2, <2>3, <2>4 DEF RowLasts, Row
<1> QED
  BY <1>1, <1>2, <1>3, RowSteps

-------------------------------------------------------------------------------
(* Where there are no requests.                                            *)

LEMMA ApartWill ==
    ASSUME Separate', cache' # "oauth", ~Excused' => Row'.login = latest'
    PROVE  KeptInv' /\ OnceInv'
<1>1. (\A r \in Readers : job'[r] = NoJob) /\ entry' = NoCredential /\ spent' = {}
  BY DEF Separate
<1>2. NoJob.at = "none"
  BY Constants
<1>3. LoginSoFar' /\ EntryIsRow' /\ FailedKept'
  BY <1>1 DEF LoginSoFar, EntryIsRow, FailedKept
<1>4. OldGone'
  BY <1>1, <1>2 DEF OldGone, Taken
<1>5. FlightIsRow' /\ FreshNext'
  BY <1>1, <1>2 DEF FlightIsRow, FreshNext, Pending
<1>6. NothingYet'
  BY <1>1, <1>2 DEF NothingYet
<1>7. OneSuccessor'
  BY <1>1, <1>2 DEF OneSuccessor, Stale, Taken
<1> QED
  BY <1>3, <1>4, <1>5, <1>6, <1>7 DEF KeptInv, OnceInv

LEMMA ApartNext ==
    ASSUME TypeInv, TypeInv', Separate, Separate', RowLasts, OldGone, [OAuthNext]_allVars, cache # "oauth"
    PROVE  KeptInv' /\ OnceInv'
<1>1. cache' = cache
  <2>1. CASE Next
    BY <2>1 DEF Next, Lookup, TakeRefresh, Recheck, Load, LoadFails, Store, NextCall, Commit, Invalidate, Tick
  <2>2. CASE LoginStep
    BY <2>2, LoginsLeave DEF Readings
  <2> QED
    BY <2>1, <2>2, RequestsApart DEF OAuthNext, LoginStep, allVars, vars
<1>2. SUFFICES ASSUME ~Excused' PROVE Row'.login = latest'
  BY <1>1, ApartWill
<1>3. ~Excused => Row.login = latest
  BY DEF OldGone
<1>4. ASSUME UNCHANGED <<latest, excused>>, Row' = Row PROVE Row'.login = latest'
  BY <1>2, <1>3, <1>4 DEF Excused
<1>5. CASE UNCHANGED manager
  <2>1. UNCHANGED <<latest, excused, content>>
    BY <1>5 DEF manager
  <2>2. ASSUME NEW c \in Credentials, WriteRow(c) PROVE Row' = Row
    <3>1. db' = db + 1 /\ db \in Nat /\ db' \in Versions
      BY <2>2, Numbers DEF WriteRow, WriteTable, TypeInv, OAuthTypeOK, TypeOK, Versions
    <3> QED
      BY <2>1, <3>1 DEF RowLasts, Row
  <2>3. Row' = Row
    BY <2>1, <2>2, RowLastsNext
  <2> QED
    BY <1>4, <2>1, <2>3
<1>6. ASSUME NEW l \in Logins, Complete(l) PROVE Row'.login = latest'
  <2>1. CompleteSteps(l)
    BY <1>6, Completes DEF CompleteSteps
  <2>2. CASE WritesRow(l)
    <3>1. Row' = [login |-> l, turn |-> 0] /\ latest' = l
      BY <2>2, RowWritten DEF WritesRow
    <3> QED
      BY <3>1
  <2>3. CASE WritesModels(l)
    <3>1. UNCHANGED <<latest, content, db>> /\ (~Excused' => ~Excused)
      BY <2>3 DEF WritesModels, Commit2, vars, Excused
    <3> QED
      BY <1>2, <1>3, <3>1 DEF Row
  <2>4. CASE DropsEntry(l)
    <3>1. UNCHANGED <<latest, content, db>> /\ excused' = IF Row.login = latest THEN {} ELSE {"overlap"}
      BY <2>4 DEF DropsEntry, DropEntry, vars
    <3> QED
      BY <1>2, <3>1 DEF Row, Excused
  <2>5. CASE DropsList(l)
    BY <1>5, <2>5 DEF DropsList, DropListed
  <2>6. CASE Others
    BY <1>5, <2>6 DEF Others
  <2> QED
    BY <2>1, <2>2, <2>3, <2>4, <2>5, <2>6 DEF CompleteSteps, TakesCode, EndsInError, MayWrite, Closes, Finishes
<1> QED
  BY <1>5, <1>6, RequestsApart
     DEF OAuthNext, Close, StartReplaces, Start, StartFails, Cancel, Shut, Callback, Others, allVars

-------------------------------------------------------------------------------
(* The steps of a request keep a completed login.                          *)

\* There is one flight, and none when it has landed.
LEMMA Alone ==
    ASSUME OneFlight, NEW r \in Readers, job[r].at \in Flights
    PROVE  /\ \A q \in Readers : q # r => job[q].at \notin Flights
           /\ Landed(r) => \A q \in Readers : job'[q].at \notin Flights
<1>1. \A q \in Readers : q # r => job[q].at \notin Flights
  BY DEF OneFlight
<1> QED
  BY <1>1 DEF Landed, Flights

LEMMA Nat3 ==
    ASSUME TypeInv, AllKnown, LoginSoFar, cache = "oauth"
    PROVE  /\ latest \in {0, 1} /\ dropped \in Nat /\ dropped <= latest
           /\ \A r \in Readers : job[r].base \in Nat /\ job[r].base <= dropped
           /\ \A r \in Readers : job[r].at \in Taken =>
                 /\ job[r].cred \in Credentials /\ job[r].cred # NoCredential
                 /\ job[r].cred.login \in Nat /\ job[r].cred.login <= latest
<1>1. job \in [Readers -> JobType] /\ dropped \in Nat
  BY JobsTyped, Numbers DEF TypeInv, OAuthTypeOK, CredentialsOK
<1>2. \A r \in Readers : job[r].base \in Nat
  BY <1>1, Numbers DEF JobType
<1>3. \A r \in Readers : job[r].at \in Taken => job[r].cred \in Credentials
  BY DEF TypeInv, HasConfig
<1>4. \A r \in Readers : job[r].base <= dropped /\ job[r].cred.login <= latest
  BY DEF AllKnown, Known, KnownIn
<1> QED
  BY <1>1, <1>2, <1>3, <1>4, BeforeAfter, Constants DEF LoginSoFar

\* excused only loses what its lookup never brought in.
LEMMA ExcusedGrows ==
    ASSUME TypeInv, NEW r \in Readers, RequestSteps(r)
    PROVE  /\ Excused => Excused'
           /\ "revived" \in excused => "revived" \in excused'
           /\ excused' = {} => excused = {} \/ Enters(r)
<1>1. ASSUME cachedOrParse(r) PROVE excused \subseteq excused'
  BY <1>1 DEF cachedOrParse
<1>2. ASSUME excused \subseteq excused'
      PROVE  /\ Excused => Excused'
             /\ "revived" \in excused => "revived" \in excused'
             /\ excused' = {} => excused = {} \/ Enters(r)
  BY <1>2 DEF Excused
<1>3. CASE Enters(r)
  <2>1. excused \ {"lost"} \subseteq excused'
    BY <1>3 DEF Enters
  <2> QED
    BY <1>3, <2>1 DEF Excused
<1>4. CASE Saves(r)
  BY <1>2, <1>4 DEF Saves
<1>5. CASE SavesNot(r)
  BY <1>2, <1>5 DEF SavesNot
<1>6. CASE Peeks(r) \/ Flies(r) \/ FliesOut(r)
  BY <1>1, <1>2, <1>6 DEF Peeks, Flies, FliesOut
<1> QED
  BY <1>2, <1>3, <1>4, <1>5, <1>6
     DEF RequestSteps, Begins, Joins, Rotates, RotatesNot, Unlists, UnlistsLast, Uses

LEMMA OldGoneRequest ==
    ASSUME TypeInv, OneFlight, AllKnown, LoginSoFar, OldGone, NEW r \in Readers, Request(r), cache = "oauth"
    PROVE  OldGone'
<1>1. latest' = latest /\ dropped' = dropped /\ RequestSteps(r)
  BY RequestsLeave, Requests
<1>2. SUFFICES ASSUME ~Excused'
               PROVE  /\ Row'.login = latest
                      /\ dropped = latest => entry' = NoCredential \/ entry'.login = latest
                      /\ \A q \in Readers : job'[q].at \in Taken /\ job'[q].base = latest => job'[q].cred.login = latest
  BY <1>1 DEF OldGone
<1>3. ~Excused
  BY <1>1, <1>2, ExcusedGrows
<1>4. /\ Row.login = latest
      /\ dropped = latest => entry = NoCredential \/ entry.login = latest
      /\ \A q \in Readers : job[q].at \in Taken /\ job[q].base = latest => job[q].cred.login = latest
  BY <1>3 DEF OldGone
<1>5. /\ latest \in {0, 1} /\ dropped \in Nat /\ dropped <= latest
      /\ \A q \in Readers : job[q].base \in Nat /\ job[q].base <= dropped
      /\ \A q \in Readers : job[q].at \in Taken =>
            /\ job[q].cred \in Credentials /\ job[q].cred.login \in Nat /\ job[q].cred.login <= latest
  BY Nat3
<1> DEFINE JobsGone == \A q \in Readers : job'[q].at \in Taken /\ job'[q].base = latest => job'[q].cred.login = latest
           EntryGone == dropped = latest => entry' = NoCredential \/ entry'.login = latest
<1>6. RowSame => Row'.login = latest
  BY <1>4 DEF RowSame, Row
<1>7. entry' = entry => EntryGone
  BY <1>4
<1>8. cachedOrParse(r) /\ job[r].at \in {"peek", "fly"} => EntryGone /\ entry' # NoCredential /\ entry' = Found(r)
  <2> SUFFICES ASSUME cachedOrParse(r), job[r].at \in {"peek", "fly"}
               PROVE  EntryGone /\ entry' # NoCredential /\ entry' = Found(r)
    OBVIOUS
  <2>1. "revived" \notin excused'
    BY <1>2 DEF Excused
  <2> QED
    BY <1>4, <2>1, FoundIs
<1>9. Landed(r) /\ job[r].at \in Flights => JobsGone
  BY Alone DEF Flights, Taken
<1>10. OthersSame(r) /\ (job'[r].at \in Taken /\ job'[r].base = latest => job'[r].cred.login = latest) => JobsGone
  BY <1>4 DEF OthersSame
<1>11. OthersSame(r) /\ job'[r].at \notin Taken => JobsGone
  BY <1>10
<1>12. OthersSame(r) /\ Keeps(r) /\ job[r].at \in Taken => JobsGone
  BY <1>4, <1>10 DEF Keeps
<1>13. CASE Begins(r)
  BY <1>6, <1>7, <1>11, <1>13 DEF Begins, Taken
<1>14. CASE Peeks(r)
  BY <1>6, <1>8, <1>11, <1>14 DEF Peeks, Taken
<1>15. CASE Joins(r)
  BY <1>6, <1>7, <1>11, <1>15 DEF Joins, Taken
<1>16. CASE Flies(r)
  <2>1. job'[r].base = latest => job'[r].cred.login = latest
    BY <1>8, <1>16 DEF Flies
  <2> QED
    BY <1>6, <1>8, <1>10, <1>16, <2>1 DEF Flies
<1>17. CASE FliesOut(r)
  BY <1>6, <1>8, <1>9, <1>17 DEF FliesOut, Flights
<1>18. CASE Rotates(r)
  <2>1. job[r].cred \in Credentials /\ job'[r].cred = After(job[r].cred)
    BY <1>5, <1>18 DEF Rotates, After, Taken
  <2>2. job'[r].cred.login = job[r].cred.login
    BY <2>1, BeforeAfter
  <2>3. job'[r].base = latest => job'[r].cred.login = latest
    BY <1>4, <1>18, <2>2 DEF Rotates, Taken
  <2> QED
    BY <1>6, <1>7, <1>10, <1>18, <2>3 DEF Rotates
<1>19. CASE RotatesNot(r)
  BY <1>6, <1>7, <1>9, <1>19 DEF RotatesNot, Flights
<1>20. CASE Saves(r)
  <2>1. Row' = job[r].cred
    BY <1>20, RowWritten DEF Saves
  <2>2. ~(job[r].cred.login < latest /\ job[r].base < latest)
    BY <1>2, <1>20 DEF Saves, Excused
  <2>3. job[r].at \in Taken
    BY <1>20 DEF Saves, Taken
  <2>4. job[r].cred.login = latest
    BY <1>4, <1>5, <2>2, <2>3
  <2> QED
    BY <1>7, <1>12, <1>20, <2>1, <2>3, <2>4 DEF Saves
<1>21. CASE SavesNot(r)
  BY <1>6, <1>7, <1>9, <1>21 DEF SavesNot, Flights
<1>22. CASE Unlists(r)
  BY <1>6, <1>7, <1>12, <1>22 DEF Unlists, Taken
<1>23. CASE UnlistsLast(r)
  BY <1>6, <1>7, <1>9, <1>23 DEF UnlistsLast, Flights
<1>24. CASE Enters(r)
  <2>1. job[r].at \in Taken /\ job[r].at \in Flights
    BY <1>24 DEF Enters, Taken, Flights
  <2>2. ~(job[r].cred.login < dropped)
    BY <1>2, <1>24 DEF Enters, Excused
  <2>3. EntryGone
    BY <1>5, <1>24, <2>1, <2>2 DEF Enters
  <2>4. JobsGone
    BY <1>9, <1>12, <1>24, <2>1 DEF Enters
  <2> QED
    BY <1>6, <1>24, <2>3, <2>4 DEF Enters
<1>25. CASE Uses(r)
  <2>1. job'[r].at \notin Taken
    BY <1>25, Constants DEF Uses, Taken
  <2> QED
    BY <1>6, <1>7, <1>11, <1>25, <2>1 DEF Uses
<1> QED
  BY <1>1, <1>13, <1>14, <1>15, <1>16, <1>17, <1>18, <1>19, <1>20, <1>21, <1>22, <1>23, <1>24, <1>25 DEF RequestSteps

LEMMA FlightIsRowRequest ==
    ASSUME TypeInv, OneFlight, FlightIsRow, NEW r \in Readers, Request(r)
    PROVE  FlightIsRow'
<1> DEFINE Telling == {"models", "unlist", "enter"}
           RowJob(q) == job'[q].at \in Telling => job'[q].cred = Row' \/ job'[q].cred.login < latest
<1>1. latest' = latest /\ RequestSteps(r)
  BY RequestsLeave, Requests
<1>2. SUFFICES \A q \in Readers : RowJob(q)
  BY <1>1 DEF FlightIsRow
<1>3. \A q \in Readers : job[q].at \in Telling => job[q].cred = Row \/ job[q].cred.login < latest
  BY DEF FlightIsRow
<1>4. RowSame => Row' = Row
  BY DEF RowSame, Row
<1>5. RowSame /\ OthersSame(r) /\ RowJob(r) => \A q \in Readers : RowJob(q)
  BY <1>3, <1>4 DEF OthersSame
<1>6. RowSame /\ OthersSame(r) /\ job'[r].at \notin Telling => \A q \in Readers : RowJob(q)
  BY <1>5
<1>7. Landed(r) /\ job[r].at \in Flights => \A q \in Readers : RowJob(q)
  BY Alone DEF Flights
<1>8. CASE Begins(r) \/ Peeks(r) \/ Joins(r) \/ Flies(r) \/ Rotates(r)
  BY <1>6, <1>8 DEF Begins, Peeks, Joins, Flies, Rotates
<1>9. CASE FliesOut(r) \/ RotatesNot(r) \/ SavesNot(r) \/ UnlistsLast(r)
  BY <1>7, <1>9 DEF FliesOut, RotatesNot, SavesNot, UnlistsLast, Flights
<1>10. CASE Saves(r)
  <2>1. Row' = job'[r].cred
    BY <1>10, RowWritten DEF Saves, Keeps
  <2>2. job[r].at \in Flights
    BY <1>10 DEF Saves, Flights
  <2>3. \A q \in Readers : q # r => job'[q].at \notin Telling
    BY <1>10, <2>2, Alone DEF Saves, OthersSame, Flights
  <2> QED
    BY <2>1, <2>3
<1>11. CASE Unlists(r)
  BY <1>3, <1>4, <1>5, <1>11 DEF Unlists, Keeps
<1>12. CASE Enters(r)
  <2>1. CASE Landed(r)
    BY <1>7, <1>12, <2>1 DEF Enters, Flights
  <2>2. CASE Keeps(r) /\ OthersSame(r)
    BY <1>3, <1>4, <1>5, <1>12, <2>2 DEF Enters, Keeps
  <2> QED
    BY <1>12, <2>1, <2>2 DEF Enters
<1>13. CASE Uses(r)
  BY <1>6, <1>13, Constants DEF Uses
<1> QED
  BY <1>1, <1>8, <1>9, <1>10, <1>11, <1>12, <1>13 DEF RequestSteps

\* What a flight enters, when nothing is excused, is of the newest login.
LEMMA EnteredIsNew ==
    ASSUME TypeInv, OneFlight, AllKnown, LoginSoFar, OldGone, FlightIsRow, FailedKept,
           NEW r \in Readers, Enters(r), excused' = {}, cache = "oauth", \A l \in Logins : ~Wrote(l)
    PROVE  /\ entry' = Row
           /\ latest = 1 /\ dropped = 0 => entry'.login = 1
<1> DEFINE c == job[r].cred
<1>1. /\ latest \in {0, 1} /\ dropped \in Nat /\ dropped <= latest
      /\ c \in Credentials /\ c.login \in Nat /\ c.login <= latest
  BY Nat3 DEF Enters, Taken
<1>2. /\ ~(c.login < dropped) /\ entry' = c
      /\ (job[r].token /\ c = Row) \/ excused = {}
      /\ excused \subseteq {"lost"}
  BY DEF Enters
<1>3. Row.login = latest
  BY <1>2 DEF OldGone, Excused
<1>4. c = Row \/ c.login < latest
  BY DEF FlightIsRow, Enters
<1>5. latest = 1 /\ dropped = 0 /\ excused = {} => c.login = 1
  BY DEF FailedKept, Enters, Taken
<1>6. c = Row
  BY <1>1, <1>2, <1>4, <1>5
<1> QED
  BY <1>2, <1>3, <1>6

LEMMA EntryIsRowRequest ==
    ASSUME TypeInv, OneFlight, AllKnown, LoginSoFar, OldGone, EntryIsRow, FlightIsRow, FailedKept,
           NEW r \in Readers, Request(r), UNCHANGED login, cache = "oauth"
    PROVE  EntryIsRow'
<1>1. latest' = latest /\ dropped' = dropped /\ provider' = provider /\ RequestSteps(r)
  BY RequestsLeave, Requests
<1>2. SUFFICES ASSUME \A q \in Readers : ~Entering(q)', \A l \in Logins : ~Wrote(l), excused' = {}, ~closed
               PROVE  entry' \in {NoCredential, Row'}
  BY DEF EntryIsRow, Settled, Wrote, login
<1>3. (\A q \in Readers : ~Entering(q)) /\ excused = {} => entry \in {NoCredential, Row}
  BY <1>2 DEF EntryIsRow, Settled
<1>4. RowSame => Row' = Row
  BY DEF RowSame, Row
<1>5. ASSUME OthersSame(r), ~Entering(r) PROVE \A q \in Readers : ~Entering(q)
  BY <1>1, <1>2, <1>5 DEF OthersSame, Entering
<1>6. ASSUME job[r].at \in Flights, ~Entering(r) PROVE \A q \in Readers : ~Entering(q)
  <2>1. \A q \in Readers : q # r => job[q].at \notin Flights
    BY <1>6, Alone
  <2> QED
    BY <1>6, <2>1 DEF Entering, Flights
<1>7. ~Enters(r) => excused = {}
  BY <1>1, <1>2, ExcusedGrows
<1>8. CASE /\ RowSame /\ UNCHANGED entry /\ ~Entering(r) /\ (OthersSame(r) \/ job[r].at \in Flights) /\ ~Enters(r)
  BY <1>3, <1>4, <1>5, <1>6, <1>7, <1>8
<1>9. CASE Begins(r) \/ Joins(r) \/ Uses(r) \/ Rotates(r)
  BY <1>8, <1>9 DEF Begins, Joins, Uses, Rotates, Entering, Enters
<1>10. CASE RotatesNot(r)
  BY <1>8, <1>10 DEF RotatesNot, Entering, Enters, Flights
<1>11. CASE SavesNot(r)
  BY <1>2, <1>8, <1>11 DEF SavesNot, Entering, Enters, Flights
<1>12. CASE UnlistsLast(r)
  BY <1>8, <1>12 DEF UnlistsLast, Entering, Enters, Flights
<1>13. CASE Peeks(r) \/ Flies(r) \/ FliesOut(r)
  <2>1. job[r].at \in {"peek", "fly"} /\ cachedOrParse(r) /\ RowSame /\ (OthersSame(r) \/ job[r].at \in Flights)
    BY <1>13 DEF Peeks, Flies, FliesOut, Flights
  <2>2. ~Entering(r) /\ ~Enters(r)
    BY <2>1 DEF Entering, Enters
  <2>3. CASE entry' = entry
    BY <1>8, <2>1, <2>2, <2>3
  <2>4. CASE entry' = Row
    BY <1>4, <2>1, <2>4
  <2> QED
    BY <1>2, <2>1, <2>3, <2>4, FoundIs
<1>14. CASE Saves(r)
  <2>1. Entering(r)'
    BY <1>14 DEF Saves, Entering
  <2> QED
    BY <1>2, <2>1
<1>15. CASE Unlists(r)
  <2>1. CASE job[r].at = "models" /\ job'[r].at = "unlist"
    BY <1>1, <1>2, <2>1 DEF Entering, OneFlight
  <2>2. CASE job'[r].at = "enter"
    BY <1>2, <2>2 DEF Entering
  <2> QED
    BY <1>15, <2>1, <2>2 DEF Unlists
<1>16. CASE Enters(r)
  BY <1>2, <1>4, <1>16, EnteredIsNew DEF Enters
<1> QED
  BY <1>1, <1>9, <1>10, <1>11, <1>12, <1>13, <1>14, <1>15, <1>16 DEF RequestSteps

LEMMA FailedKeptRequest ==
    ASSUME TypeInv, OneFlight, AllKnown, LoginSoFar, OldGone, FlightIsRow, FailedKept,
           NEW r \in Readers, Request(r), UNCHANGED login, cache = "oauth"
    PROVE  FailedKept'
<1>1. latest' = latest /\ dropped' = dropped /\ RequestSteps(r)
  BY RequestsLeave, Requests
<1>2. SUFFICES ASSUME latest = 1, dropped = 0, excused' = {}, \A l \in Logins : ~Wrote(l)
               PROVE  /\ entry' = NoCredential \/ entry'.login = 1
                      /\ \A q \in Readers : job'[q].at \in Taken => job'[q].cred.login = 1
  BY <1>1 DEF FailedKept, Wrote, login
<1> DEFINE JobsNew == \A q \in Readers : job'[q].at \in Taken => job'[q].cred.login = 1
           EntryNew == entry' = NoCredential \/ entry'.login = 1
<1>3. Landed(r) /\ job[r].at \in Flights => JobsNew
  BY Alone DEF Flights, Taken
<1>4. CASE Enters(r)
  <2>1. entry'.login = 1 /\ entry' = job[r].cred
    BY <1>2, <1>4, EnteredIsNew DEF Enters
  <2>2. CASE Landed(r)
    BY <1>3, <1>4, <2>1, <2>2 DEF Enters, Flights
  <2>3. CASE Keeps(r) /\ OthersSame(r)
    <3>1. \A q \in Readers : q # r => job[q].at \notin Flights
      BY <1>4, Alone DEF Enters, Flights
    <3> QED
      BY <2>1, <2>3, <3>1 DEF Keeps, OthersSame, Flights, Taken
  <2> QED
    BY <1>4, <2>2, <2>3 DEF Enters
<1>5. CASE ~Enters(r)
  <2>1. excused = {}
    BY <1>1, <1>2, <1>5, ExcusedGrows
  <2>2. /\ entry = NoCredential \/ entry.login = 1
        /\ \A q \in Readers : job[q].at \in Taken => job[q].cred.login = 1
    BY <1>2, <2>1 DEF FailedKept
  <2>3. Row.login = 1
    BY <1>2, <2>1 DEF OldGone, Excused
  <2>4. OthersSame(r) /\ (job'[r].at \in Taken => job'[r].cred.login = 1) => JobsNew
    BY <2>2 DEF OthersSame
  <2>5. OthersSame(r) /\ Keeps(r) /\ job[r].at \in Taken => JobsNew
    BY <2>2, <2>4 DEF Keeps
  <2>6. cachedOrParse(r) /\ job[r].at \in {"peek", "fly"} => entry'.login = 1 /\ entry' = Found(r)
    BY <1>2, <2>2, <2>3, FoundIs
  <2>7. CASE Begins(r)
    BY <2>2, <2>4, <2>7 DEF Begins, Taken
  <2>8. CASE Peeks(r)
    BY <2>4, <2>6, <2>8 DEF Peeks, Taken
  <2>9. CASE Joins(r)
    BY <2>2, <2>4, <2>9 DEF Joins, Taken
  <2>10. CASE Flies(r)
    BY <2>4, <2>6, <2>10 DEF Flies
  <2>11. CASE FliesOut(r)
    BY <1>3, <2>6, <2>11 DEF FliesOut, Flights
  <2>12. CASE Rotates(r)
    <3>1. job[r].at \in Taken /\ job[r].cred \in Credentials /\ job'[r].cred = After(job[r].cred)
      BY <2>12 DEF Rotates, After, Taken, TypeInv, HasConfig
    <3>2. job'[r].cred.login = 1
      BY <2>2, <3>1, BeforeAfter
    <3> QED
      BY <2>2, <2>4, <2>12, <3>2 DEF Rotates
  <2>13. CASE RotatesNot(r)
    BY <1>3, <2>2, <2>13 DEF RotatesNot, Flights
  <2>14. CASE Saves(r)
    BY <2>2, <2>5, <2>14 DEF Saves, Taken
  <2>15. CASE SavesNot(r)
    BY <1>3, <2>2, <2>15 DEF SavesNot, Flights
  <2>16. CASE Unlists(r)
    BY <2>2, <2>5, <2>16 DEF Unlists, Taken
  <2>17. CASE UnlistsLast(r)
    BY <1>3, <2>2, <2>17 DEF UnlistsLast, Flights
  <2>18. CASE Uses(r)
    BY <2>2, <2>4, <2>18, Constants DEF Uses, Taken
  <2> QED
    BY <1>1, <1>5, <2>7, <2>8, <2>9, <2>10, <2>11, <2>12, <2>13, <2>14, <2>15, <2>16, <2>17, <2>18 DEF RequestSteps
<1> QED
  BY <1>4, <1>5

LEMMA KeptRequest ==
    ASSUME TypeInv, OneFlight, AllKnown, KeptInv, NEW r \in Readers, Request(r), UNCHANGED login, cache = "oauth"
    PROVE  OldGone' /\ EntryIsRow' /\ FlightIsRow' /\ FailedKept'
BY OldGoneRequest, EntryIsRowRequest, FlightIsRowRequest, FailedKeptRequest DEF KeptInv

-------------------------------------------------------------------------------
(* The steps of the login.                                                 *)

\* A step that leaves the credentials alone, and whether the login is under way.
LEMMA KeptSame ==
    ASSUME UNCHANGED <<cache, db, content, provider, entry, job, latest, dropped, excused, closed>>,
           \A l \in Logins : Wrote(l)' <=> Wrote(l),
           OldGone, EntryIsRow, FlightIsRow, FailedKept
    PROVE  OldGone' /\ EntryIsRow' /\ FlightIsRow' /\ FailedKept'
<1>1. Row' = Row
  BY DEF Row
<1>2. OldGone'
  BY <1>1 DEF OldGone, Excused
<1>3. EntryIsRow'
  BY <1>1 DEF EntryIsRow, Settled, Entering
<1>4. FlightIsRow'
  BY <1>1 DEF FlightIsRow
<1>5. FailedKept'
  BY <1>1 DEF FailedKept
<1> QED
  BY <1>2, <1>3, <1>4, <1>5

LEMMA KeptLogin ==
    ASSUME TypeInv, TypeInv', Separate, LoginsInv, AllKnown, KeptInv, LoginStep, cache = "oauth"
    PROVE  OldGone' /\ EntryIsRow' /\ FlightIsRow' /\ FailedKept'
<1>1. UNCHANGED <<job, spent, provider, cache>>
  BY LoginsLeave DEF Readings
<1>2. /\ ~closed /\ ~closed' /\ \A l \in Logins : l # 1 => session[l] = NoSession /\ session'[l] = NoSession
      /\ Quietly \/ (1 \in Logins /\ Complete(1))
  BY OneLogin
<1>3. Others => UNCHANGED <<db, content, entry, latest, dropped, excused>>
  BY DEF Others, vars, manager
<1>4. OldGone /\ EntryIsRow /\ FlightIsRow /\ FailedKept /\ LoginSoFar
  BY DEF KeptInv
<1>5. closed' = closed
  BY <1>2 DEF TypeInv, OAuthTypeOK
<1>6. CASE Quietly
  <2>1. \A l \in Logins : Wrote(l)' <=> Wrote(l)
    BY <1>6 DEF Quietly, Wrote
  <2> QED
    BY <1>1, <1>3, <1>4, <1>5, <1>6, <2>1, KeptSame DEF Quietly
<1>7. CASE 1 \in Logins /\ Complete(1)
  <2>1. CompleteSteps(1)
    BY <1>7, Completes DEF CompleteSteps
  <2>2. \A l \in Logins : l # 1 => ~Wrote(l) /\ ~Wrote(l)'
    BY <1>2 DEF Wrote, NoSession
  <2>3. ASSUME Wrote(1)' <=> Wrote(1), UNCHANGED <<db, content, entry, latest, dropped, excused>>
        PROVE  OldGone' /\ EntryIsRow' /\ FlightIsRow' /\ FailedKept'
    <3>1. \A l \in Logins : Wrote(l)' <=> Wrote(l)
      BY <2>2, <2>3
    <3> QED
      BY <1>1, <1>4, <1>5, <2>3, <3>1, KeptSame
  <2>4. LoginNow /\ (dropped \in Nat) /\ session[1].status # "cancelled"
    <3>1. session[1].status # "cancelled"
      BY <1>7 DEF Separate, LoginsInv, LoginSteps
    <3> QED
      BY <1>4, <1>7, <3>1, Numbers DEF LoginSoFar, LoginNow, TypeInv, OAuthTypeOK, CredentialsOK
  <2>5. \A q \in Readers : job[q].base \in Nat /\ job[q].base <= dropped
    BY <1>4, Nat3
  <2>6. CASE TakesCode(1) \/ EndsInError(1) \/ MayWrite(1) \/ Closes(1)
    <3>1. Wrote(1)' <=> Wrote(1)
      BY <2>6 DEF TakesCode, EndsInError, MayWrite, Closes, Continues, Wrote
    <3> QED
      BY <1>3, <2>3, <2>6, <3>1 DEF TakesCode, EndsInError, MayWrite, Closes
  <2>7. CASE Finishes(1)
    <3>1. Wrote(1)' <=> Wrote(1)
      BY <2>4, <2>7 DEF Finishes, Continues, Wrote
    <3> QED
      BY <1>3, <2>3, <2>7, <3>1 DEF Finishes
  <2>8. CASE DropsList(1)
    <3>1. Wrote(1)' <=> Wrote(1)
      BY <2>8 DEF DropsList, Continues, Wrote
    <3> QED
      BY <2>3, <2>8, <3>1 DEF DropsList, DropListed, DropsOnly, manager
  <2>9. CASE WritesRow(1)
    <3>1. Row' = [login |-> 1, turn |-> 0] /\ latest' = 1 /\ latest = 0 /\ dropped = 0
      BY <2>4, <2>9, RowWritten DEF WritesRow, LoginNow
    <3>2. UNCHANGED <<entry, dropped, excused>>
      BY <2>9 DEF WritesRow
    <3>3. Wrote(1)'
      BY <1>7, <2>9 DEF WritesRow, Continues, Wrote, LoginsInv, LoginSteps
    <3>4. OldGone'
      BY <1>1, <2>5, <3>1, <3>2 DEF OldGone
    <3>5. EntryIsRow' /\ FailedKept'
      BY <1>7, <3>3 DEF EntryIsRow, Settled, FailedKept
    <3>6. \A q \in Readers : job[q].at \in Taken => job[q].cred.login < 1
      BY <1>4, <3>1, Nat3
    <3>7. FlightIsRow'
      BY <1>1, <3>1, <3>6 DEF FlightIsRow, Taken
    <3> QED
      BY <3>4, <3>5, <3>7
  <2>10. CASE WritesModels(1)
    <3>1. UNCHANGED <<db, content, entry, latest, dropped>>
      BY <2>10 DEF WritesModels, Commit2, vars
    <3>2. CASE excused' = excused /\ Continues(1, "close", session[1].status, session[1].err)
      <4>1. ~session[1].err
        BY <1>7, <2>10 DEF WritesModels, LoginsInv, LoginSteps
      <4>2. Wrote(1)' <=> Wrote(1)
        BY <2>10, <3>2, <4>1 DEF WritesModels, Continues, Wrote
      <4> QED
        BY <2>3, <3>1, <3>2, <4>2
    <3>3. CASE "lost" \in excused'
      <4>1. Excused => Excused'
        BY <2>10 DEF WritesModels, Commit2, Excused
      <4>2. OldGone'
        BY <1>1, <1>4, <3>1, <4>1 DEF OldGone, Row
      <4>3. FlightIsRow'
        BY <1>1, <1>4, <3>1 DEF FlightIsRow, Row
      <4>4. EntryIsRow' /\ FailedKept'
        BY <3>3 DEF EntryIsRow, Settled, FailedKept
      <4> QED
        BY <4>2, <4>3, <4>4
    <3> QED
      BY <2>10, <3>2, <3>3 DEF WritesModels
  <2>11. CASE DropsEntry(1)
    <3>1. /\ UNCHANGED <<db, content, latest>> /\ entry' = NoCredential /\ dropped' = 1
          /\ excused' = IF Row.login = latest THEN {} ELSE {"overlap"}
      BY <2>11 DEF DropsEntry, DropEntry, vars
    <3>2. latest = 1 /\ dropped = 0
      BY <2>4, <2>11 DEF DropsEntry, LoginNow, Wrote
    <3>3. OldGone'
      BY <1>1, <2>5, <3>1, <3>2 DEF OldGone, Row, Excused
    <3>4. FlightIsRow'
      BY <1>1, <1>4, <3>1 DEF FlightIsRow, Row
    <3>5. EntryIsRow' /\ FailedKept'
      BY <3>1 DEF EntryIsRow, FailedKept
    <3> QED
      BY <3>3, <3>4, <3>5
  <2> QED
    BY <2>1, <2>6, <2>7, <2>8, <2>9, <2>10, <2>11 DEF CompleteSteps
<1> QED
  BY <1>2, <1>6, <1>7

-------------------------------------------------------------------------------
\* What every property of the credentials rests on.
Base == TypeInv /\ Separate /\ LoginsInv /\ OneFlight /\ RowLasts /\ AllKnown

LEMMA InitKept == OAuthInit => Base /\ KeptInv
<1> SUFFICES ASSUME OAuthInit PROVE Base /\ KeptInv
  OBVIOUS
<1>1. TypeInv /\ Separate /\ LoginsInv
  BY TypeInit, SeparateInit, LoginsInit
<1>2. /\ content = [v \in Versions |-> [login |-> 0, turn |-> 0]] /\ entry = NoCredential /\ flying = NoReader
      /\ job = [r \in Readers |-> NoJob] /\ spent = {} /\ orphans = {} /\ latest = 0 /\ dropped = 0 /\ excused = {}
      /\ session = [l \in Logins |-> NoSession] /\ db \in Versions
  BY <1>1 DEF OAuthInit, CredentialsInit, TypeInv, OAuthTypeOK, TypeOK
<1>3. Row = [login |-> 0, turn |-> 0]
  BY <1>2 DEF Row
<1>4. \A r \in Readers : /\ job[r].at = "none" /\ job[r].cfg = NoCredential /\ job[r].cred = NoCredential
                         /\ ~job[r].token /\ job[r].base = 0
  BY <1>2 DEF NoJob
<1>5. OneFlight
  BY <1>4 DEF OneFlight, Flights
<1>6. RowLasts
  BY <1>2, <1>3 DEF RowLasts
<1>7. AllKnown
  BY <1>2, <1>4 DEF AllKnown, Known, KnownIn, NoCredential
<1>8. LoginSoFar
  BY <1>2 DEF LoginSoFar, Wrote, NoSession
<1>9. OldGone
  BY <1>2, <1>3, <1>4 DEF OldGone, Taken
<1>10. EntryIsRow /\ FlightIsRow /\ FailedKept
  BY <1>2, <1>4 DEF EntryIsRow, FlightIsRow, FailedKept
<1> QED
  BY <1>1, <1>5, <1>6, <1>7, <1>8, <1>9, <1>10 DEF Base, KeptInv

LEMMA BaseNext == Base /\ KeptInv /\ [OAuthNext]_allVars => Base'
<1> SUFFICES ASSUME Base, KeptInv, [OAuthNext]_allVars PROVE Base'
  OBVIOUS
<1>1. TypeInv /\ Separate /\ LoginsInv /\ OneFlight /\ RowLasts /\ AllKnown /\ LoginSoFar
  BY DEF Base, KeptInv
<1>2. TypeInv' /\ Separate' /\ LoginsInv' /\ OneFlight'
  BY <1>1, TypeNext, SeparateNext, LoginsNext, FlightNext
<1>3. RowLasts' /\ AllKnown'
  BY <1>1, <1>2, RowLastsNext, KnownNext
<1> QED
  BY <1>2, <1>3 DEF Base

LEMMA KeptNext == Base /\ Base' /\ KeptInv /\ [OAuthNext]_allVars => KeptInv'
<1> SUFFICES ASSUME Base, Base', KeptInv, [OAuthNext]_allVars PROVE KeptInv'
  OBVIOUS
<1>1. TypeInv /\ Separate /\ LoginsInv /\ OneFlight /\ RowLasts /\ AllKnown /\ LoginSoFar /\ OldGone
  BY DEF Base, KeptInv
<1>2. TypeInv' /\ Separate'
  BY DEF Base
<1>3. CASE cache # "oauth"
  BY <1>1, <1>2, <1>3, ApartNext
<1>4. CASE cache = "oauth"
  <2>1. LoginSoFar'
    BY <1>1, LoginSoFarNext
  <2>2. CASE UNCHANGED allVars
    <3>1. UNCHANGED <<cache, db, content, provider, entry, job, latest, dropped, excused, closed, session>>
      BY <2>2 DEF allVars, vars, manager, login
    <3>2. \A l \in Logins : Wrote(l)' <=> Wrote(l)
      BY <3>1 DEF Wrote
    <3> QED
      BY <2>1, <3>1, <3>2, KeptSame DEF KeptInv
  <2>3. ASSUME NEW r \in Readers, Request(r), UNCHANGED login PROVE KeptInv'
    BY <1>1, <1>4, <2>1, <2>3, KeptRequest DEF KeptInv
  <2>4. CASE LoginStep
    BY <1>1, <1>2, <1>4, <2>1, <2>4, KeptLogin DEF KeptInv
  <2> QED
    BY <1>4, <2>2, <2>3, <2>4 DEF OAuthNext, LoginStep
<1> QED
  BY <1>3, <1>4

LEMMA KeptInductive == OAuthSpec => [](Base /\ KeptInv)
<1>1. Base /\ KeptInv /\ [OAuthNext]_allVars => (Base /\ KeptInv)'
  BY BaseNext, KeptNext
<1> QED
  BY <1>1, InitKept, PTL DEF OAuthSpec

\* A completed login is never undone: without the code's three exceptions, the row
\* holds a credential of the newest login, and the manager's entry is the row's.
THEOREM LoginStaysKept == OAuthSpec => []LoginKept
<1>1. Base /\ KeptInv => LoginKept
  <2> SUFFICES ASSUME Base, KeptInv PROVE LoginKept
    OBVIOUS
  <2>1. Row.login = latest \/ excused \cap {"revived", "overlap"} # {}
    BY DEF KeptInv, OldGone, Excused
  <2>2. ASSUME Quiet, excused = {}, ~closed PROVE entry \in {NoCredential, Row}
    <3>1. Settled
      BY <2>2 DEF Quiet, Settled, Entering, Wrote
    <3> QED
      BY <3>1 DEF KeptInv, EntryIsRow
  <2> QED
    BY <2>1, <2>2 DEF LoginKept
<1> QED
  BY <1>1, KeptInductive, PTL

-------------------------------------------------------------------------------
(* Every refresh token is presented once.                                  *)

\* The three conclusions of OneSuccessor.
Handed ==
    /\ entry # NoCredential /\ Stale(entry) =>
         \E r \in Readers : job[r].at \in Pending /\ Follows(r, entry)
              /\ (job[r].at = "unlist" => provider = "codex")
    /\ Stale(Row) => \E r \in Readers : job[r].at = "save" /\ Follows(r, Row)
    /\ \A r \in Readers : job[r].at \in Taken /\ (job[r].token => job[r].at = "present") => ~Stale(job[r].cred)

LEMMA HandedIs == OneSuccessor <=> ("revived" \notin excused \/ dropped = 0 => Handed)
BY DEF OneSuccessor, Handed

LEMMA HandedWill ==
    ASSUME "revived" \notin excused' \/ dropped' = 0 => Handed'
    PROVE  OneSuccessor'
BY DEF OneSuccessor, Handed

LEMMA OnceSame ==
    ASSUME UNCHANGED <<db, content, provider, entry, job, spent, orphans, dropped>>,
           "revived" \in excused => "revived" \in excused', OnceInv
    PROVE  OnceInv'
<1>1. Row' = Row
  BY DEF Row
<1>2. Handed => Handed'
  BY <1>1 DEF Handed, Stale, Follows
<1>3. OneSuccessor'
  BY <1>2, HandedIs, HandedWill DEF OnceInv
<1>4. NothingYet' /\ FreshNext'
  BY DEF OnceInv, NothingYet, FreshNext
<1> QED
  BY <1>3, <1>4 DEF OnceInv

LEMMA OnceLogin ==
    ASSUME Base, Base', KeptInv, OnceInv, LoginStep, cache = "oauth"
    PROVE  OnceInv'
<1>1. UNCHANGED <<job, spent, orphans, provider, cache>>
  BY LoginsLeave DEF Readings
<1>2. TypeInv /\ Separate /\ LoginsInv /\ AllKnown /\ LoginSoFar
  BY DEF Base, KeptInv
<1>3. Others => UNCHANGED <<db, content, entry, dropped, excused>>
  BY DEF Others, vars, manager
<1>4. CASE Others
  BY <1>1, <1>3, <1>4, OnceSame
<1>5. CASE 1 \in Logins /\ Complete(1)
  <2>1. CompleteSteps(1)
    BY <1>2, <1>5, Completes DEF CompleteSteps
  <2>2. CASE WritesRow(1)
    <3>1. UNCHANGED <<entry, dropped, excused>> /\ Row' = [login |-> 1, turn |-> 0]
      BY <1>2, <2>2, RowWritten DEF WritesRow
    <3>2. \A c \in spent : c.login <= latest
      BY <1>2 DEF AllKnown, Known, KnownIn
    <3>3. latest = 0
      BY <1>2, <1>5, <2>2 DEF LoginSoFar, WritesRow
    <3>4. Row' \notin spent
      BY <3>1, <3>2, <3>3
    <3>5. Handed => Handed'
      BY <1>1, <3>1, <3>4 DEF Handed, Stale, Follows
    <3>6. OneSuccessor'
      BY <3>1, <3>5, HandedIs, HandedWill DEF OnceInv
    <3>7. NothingYet' /\ FreshNext'
      BY <1>1, <3>1 DEF OnceInv, NothingYet, FreshNext
    <3> QED
      BY <3>6, <3>7 DEF OnceInv
  <2>3. CASE WritesModels(1)
    <3>1. UNCHANGED <<db, content, entry, dropped>> /\ excused \subseteq excused'
      BY <2>3 DEF WritesModels, Commit2, vars
    <3> QED
      BY <1>1, <3>1, OnceSame
  <2>4. CASE DropsEntry(1)
    <3>1. UNCHANGED <<db, content>> /\ entry' = NoCredential /\ dropped' = 1
      BY <2>4 DEF DropsEntry, DropEntry, vars
    <3>2. dropped = 0
      BY <1>2, <1>5, <2>4 DEF DropsEntry, LoginSoFar
    <3>3. Row' = Row
      BY <3>1 DEF Row
    <3>4. \A c : Stale(c)' => Stale(c)
      <4>1. \A c \in spent : c.login \in Nat
        BY <1>2, BeforeAfter DEF TypeInv, OAuthTypeOK, CredentialsOK
      <4> QED
        BY <1>1, <3>1, <3>2, <4>1 DEF Stale
    <3>5. Handed
      BY <3>2, HandedIs DEF OnceInv
    <3>6. Handed'
      BY <1>1, <3>1, <3>3, <3>4, <3>5 DEF Handed, Follows
    <3>7. NothingYet' /\ FreshNext'
      BY <1>1, <3>1 DEF OnceInv, NothingYet, FreshNext
    <3> QED
      BY <3>6, <3>7, HandedWill DEF OnceInv
  <2>5. CASE DropsList(1)
    BY <1>1, <2>5, OnceSame DEF DropsList, DropListed, DropsOnly, manager
  <2> QED
    BY <1>4, <2>1, <2>2, <2>3, <2>4, <2>5 DEF CompleteSteps, TakesCode, EndsInError, MayWrite, Closes, Finishes
<1> QED
  BY <1>2, <1>4, <1>5, OneLogin DEF Quietly

LEMMA NothingYetRequest ==
    ASSUME TypeInv, NothingYet, NEW r \in Readers, Request(r)
    PROVE  NothingYet'
<1>1. dropped' = dropped /\ RequestSteps(r)
  BY RequestsLeave, Requests
<1>2. SUFFICES ASSUME entry' = NoCredential, dropped = 0
               PROVE  spent' = {} /\ \A q \in Readers : job'[q].at \in {"none", "peek"}
  BY <1>1 DEF NothingYet
<1>3. ~(cachedOrParse(r) /\ job[r].at \in {"peek", "fly"})
  BY <1>2, FoundIs
<1>4. ~Enters(r)
  <2>1. Enters(r) => entry' \in Credentials
    BY DEF Enters, TypeInv, HasConfig, Taken
  <2> QED
    BY <1>2, <2>1, Constants
<1>5. entry = NoCredential
  BY <1>1, <1>2, <1>3, <1>4 DEF RequestSteps, Begins, Peeks, Joins, Flies, FliesOut, Rotates, RotatesNot, Saves,
                                SavesNot, Unlists, UnlistsLast, Uses
<1>6. spent = {} /\ \A q \in Readers : job[q].at \in {"none", "peek"}
  BY <1>2, <1>5 DEF NothingYet
<1>7. Begins(r)
  BY <1>1, <1>3, <1>4, <1>6 DEF RequestSteps, Peeks, Joins, Flies, FliesOut, Rotates, RotatesNot, Saves,
                                SavesNot, Unlists, UnlistsLast, Uses
<1> QED
  BY <1>6, <1>7 DEF Begins, OthersSame

LEMMA FreshRequest ==
    ASSUME Base, FreshNext, NEW r \in Readers, Request(r), cache = "oauth"
    PROVE  FreshNext'
<1>1. TypeInv /\ OneFlight /\ AllKnown /\ RequestSteps(r)
  BY Requests DEF Base
<1> DEFINE Fresh2 == \A q \in Readers : job'[q].at \in Pending /\ job'[q].token =>
                        job'[q].cred \notin spent' /\ job'[q].cred.turn > 0
<1>2. Fresh2 => FreshNext'
  BY DEF FreshNext
<1>3. \A q \in Readers : job[q].at \in Pending /\ job[q].token => job[q].cred \notin spent /\ job[q].cred.turn > 0
  BY DEF FreshNext
<1>4. Landed(r) /\ job[r].at \in Flights => Fresh2
  BY <1>1, Alone DEF Flights, Pending
<1>5. OthersSame(r) /\ spent' = spent /\ (job'[r].at \in Pending => ~job'[r].token) => Fresh2
  BY <1>3 DEF OthersSame
<1>6. OthersSame(r) /\ spent' = spent /\ Keeps(r) /\ job[r].at \in Pending => Fresh2
  BY <1>3 DEF OthersSame, Keeps
<1>7. CASE Begins(r) \/ Peeks(r) \/ Joins(r) \/ Flies(r)
  BY <1>2, <1>5, <1>7 DEF Begins, Peeks, Joins, Flies, Pending
<1>8. CASE FliesOut(r) \/ RotatesNot(r) \/ SavesNot(r) \/ UnlistsLast(r)
  BY <1>2, <1>4, <1>8 DEF FliesOut, RotatesNot, SavesNot, UnlistsLast, Flights
<1>9. CASE Rotates(r)
  <2> DEFINE c == job[r].cred
  <2>1. c \in Credentials /\ c \notin spent /\ spent' = spent \cup {c} /\ job'[r].cred = After(c)
     /\ job[r].at \in Flights
    BY <1>1, <1>9 DEF Rotates, After, TypeInv, HasConfig, Taken, Flights
  <2>2. Before(After(c)) = c /\ After(c) # c /\ After(c).turn > 0
    BY <2>1, BeforeAfter
  <2>3. After(c) \notin spent
    <3>1. After(c) \in spent => Before(After(c)) \in spent
      BY <1>1, <2>2 DEF AllKnown, Known, KnownIn
    <3> QED
      BY <2>1, <2>2, <3>1
  <2>4. \A q \in Readers : q # r => job'[q].at \notin Pending
    BY <1>1, <1>9, <2>1, Alone DEF Rotates, OthersSame, Flights, Pending
  <2> QED
    BY <1>2, <2>1, <2>2, <2>3, <2>4
<1>10. CASE Saves(r) \/ Unlists(r)
  BY <1>2, <1>6, <1>10 DEF Saves, Unlists, Pending
<1>11. CASE Enters(r)
  <2>1. CASE Landed(r)
    BY <1>2, <1>4, <1>11, <2>1 DEF Enters, Flights
  <2>2. CASE Keeps(r) /\ OthersSame(r)
    BY <1>2, <1>6, <1>11, <2>2 DEF Enters, Pending
  <2> QED
    BY <1>11, <2>1, <2>2 DEF Enters
<1>12. CASE Uses(r)
  BY <1>2, <1>5, <1>12, Constants DEF Uses, Pending
<1> QED
  BY <1>1, <1>7, <1>8, <1>9, <1>10, <1>11, <1>12 DEF RequestSteps

LEMMA HandedRequest ==
    ASSUME Base, Handed, NothingYet, FreshNext, NEW r \in Readers, Request(r), cache = "oauth",
           "revived" \notin excused' \/ dropped = 0
    PROVE  Handed'
<1>1. dropped' = dropped /\ provider' = provider /\ RequestSteps(r) /\ TypeInv /\ OneFlight /\ AllKnown
  BY RequestsLeave, Requests DEF Base
<1> DEFINE Old(c) == c \in spent' /\ c \notin orphans' /\ ~(c.login < dropped)
           Held(q, c) == job[q].token /\ job[q].cred = After(c)
           Holds(q, c) == job'[q].token /\ job'[q].cred = After(c)
           Entry2 == entry' # NoCredential /\ Old(entry') =>
                       \E q \in Readers : job'[q].at \in Pending /\ Holds(q, entry')
                            /\ (job'[q].at = "unlist" => provider = "codex")
           Row2 == Old(Row') => \E q \in Readers : job'[q].at = "save" /\ Holds(q, Row')
           Jobs2 == \A q \in Readers : job'[q].at \in Taken /\ (job'[q].token => job'[q].at = "present") =>
                                           ~Old(job'[q].cred)
<1>2. SUFFICES Entry2 /\ Row2 /\ Jobs2
  BY <1>1 DEF Handed, Stale, Follows
<1>3. entry # NoCredential /\ Stale(entry) =>
         \E q \in Readers : job[q].at \in Pending /\ Held(q, entry) /\ (job[q].at = "unlist" => provider = "codex")
  BY DEF Handed, Follows
<1>4. Stale(Row) => \E q \in Readers : job[q].at = "save" /\ Held(q, Row)
  BY DEF Handed, Follows
<1>5. \A q \in Readers : job[q].at \in Taken /\ (job[q].token => job[q].at = "present") => ~Stale(job[q].cred)
  BY DEF Handed
<1>6. UNCHANGED <<spent, orphans>> => \A c : Old(c) <=> Stale(c)
  BY DEF Stale
<1>7. RowSame => Row' = Row
  BY DEF RowSame, Row
<1> HIDE DEF Old, Held, Holds
\* Nothing but the jobs of others that are not in flight.
<1>8. ASSUME OthersSame(r), job[r].at \notin Pending
      PROVE  \A q \in Readers : job[q].at \in Pending =>
                job'[q].at = job[q].at /\ \A c : Held(q, c) => Holds(q, c)
  BY <1>8 DEF OthersSame, Held, Holds
<1>9. ASSUME OthersSame(r), job[r].at \notin Pending, RowSame, UNCHANGED <<spent, orphans>>
      PROVE  Row2
  BY <1>4, <1>6, <1>7, <1>8, <1>9 DEF Pending
<1>10. ASSUME OthersSame(r), job[r].at \notin Pending, UNCHANGED <<entry, spent, orphans>>
       PROVE  Entry2
  BY <1>3, <1>6, <1>8, <1>10
<1>11. ASSUME OthersSame(r), UNCHANGED <<spent, orphans>>,
              job'[r].at \in Taken /\ (job'[r].token => job'[r].at = "present") => ~Stale(job'[r].cred)
       PROVE  Jobs2
  BY <1>5, <1>6, <1>11 DEF OthersSame
<1>12. ASSUME OthersSame(r), job'[r].at \notin Taken, UNCHANGED <<spent, orphans>> PROVE Jobs2
  BY <1>11, <1>12
<1>13. ASSUME Landed(r), job[r].at \in Flights PROVE Jobs2
  <2>1. \A q \in Readers : job'[q].at \notin Flights
    BY <1>1, <1>13, Alone
  <2> QED
    BY <2>1 DEF Flights, Taken
\* While there is a flight, no other holds a successor.
<1>14. ASSUME job[r].at \in Flights
       PROVE  /\ entry # NoCredential /\ Stale(entry) =>
                   job[r].at \in Pending /\ Held(r, entry) /\ (job[r].at = "unlist" => provider = "codex")
              /\ Stale(Row) => job[r].at = "save" /\ Held(r, Row)
  <2>1. \A q \in Readers : q # r => job[q].at \notin Pending
    BY <1>1, <1>14, Alone DEF Flights, Pending
  <2> QED
    BY <1>3, <1>4, <2>1 DEF Pending
\* What is looked up is the entry, or it is the row.
<1>15. ASSUME job[r].at \in {"peek", "fly"}, cachedOrParse(r), Stale(entry')
       PROVE  \E q \in Readers : job[q].at \in Pending /\ Held(q, entry') /\ (job[q].at = "unlist" => provider = "codex")
  <2>1. CASE entry # NoCredential /\ entry' = entry
    BY <1>3, <1>15, <2>1
  <2>2. CASE entry = NoCredential /\ "revived" \in excused'
    <3>1. dropped = 0 /\ spent = {}
      BY <2>2 DEF NothingYet
    <3> QED
      BY <1>15, <3>1 DEF Stale
  <2>3. CASE entry' = Row
    BY <1>4, <1>15, <2>3 DEF Pending
  <2> QED
    BY <1>1, <1>15, <2>1, <2>2, <2>3, FoundIs
<1>16. ASSUME job[r].at = "fly", cachedOrParse(r)
       PROVE  ~Stale(entry') /\ ~Stale(Row)
  <2>1. \A q \in Readers : job[q].at \notin Pending
    BY <1>1, <1>16, Alone DEF Flights, Pending
  <2> QED
    BY <1>4, <1>15, <1>16, <2>1 DEF Pending
<1>17. CASE Begins(r)
  BY <1>9, <1>10, <1>12, <1>17 DEF Begins, Pending, Taken
<1>18. CASE Peeks(r)
  <2>1. Entry2
    BY <1>6, <1>8, <1>15, <1>18 DEF Peeks, Pending
  <2> QED
    BY <1>9, <1>12, <1>18, <2>1 DEF Peeks, Pending, Taken
<1>19. CASE Joins(r)
  BY <1>9, <1>10, <1>12, <1>19 DEF Joins, Pending, Taken
<1>20. CASE Flies(r)
  <2>1. ~Stale(entry') /\ ~Stale(Row) /\ entry' = Found(r)
    BY <1>16, <1>20 DEF Flies, cachedOrParse
  <2>2. Entry2 /\ Row2
    BY <1>6, <1>7, <1>20, <2>1 DEF Flies
  <2> QED
    BY <1>11, <1>20, <2>1, <2>2 DEF Flies
<1>21. CASE FliesOut(r)
  <2>1. ~Stale(entry') /\ ~Stale(Row)
    BY <1>16, <1>21 DEF FliesOut
  <2> QED
    BY <1>6, <1>7, <1>13, <1>21, <2>1 DEF FliesOut, Flights
<1>22. CASE Rotates(r)
  <2>1. /\ job[r].at \in Flights /\ job[r].at \notin Pending /\ job[r].token
        /\ job'[r].at = "save" /\ job'[r].token /\ job'[r].cred = After(job[r].cred)
    BY <1>1, <1>22 DEF Rotates, Flights, Pending, OneFlight, After
  <2>2. \A c : Old(c) => c = job[r].cred \/ Stale(c)
    BY <1>22 DEF Old, Rotates, Stale
  <2>3. ~(entry # NoCredential /\ Stale(entry)) /\ ~Stale(Row)
    BY <1>14, <2>1 DEF Pending
  <2>4. Entry2 /\ Row2
    <3>1. \A c : c = job[r].cred => Holds(r, c)
      BY <2>1 DEF Holds
    <3>2. UNCHANGED entry /\ Row' = Row
      BY <1>7, <1>22 DEF Rotates
    <3> QED
      BY <2>1, <2>2, <2>3, <3>1, <3>2 DEF Pending
  <2>5. \A q \in Readers : q # r => job'[q].at \notin Taken
    BY <1>1, <1>22, <2>1, Alone DEF Rotates, OthersSame, Flights, Taken
  <2> QED
    BY <2>1, <2>4, <2>5
<1>23. CASE RotatesNot(r)
  <2>1. \A c : Old(c) => Stale(c)
    BY <1>23 DEF Old, RotatesNot, Stale
  <2>2. ~(entry # NoCredential /\ Stale(entry)) /\ ~Stale(Row)
    BY <1>14, <1>23 DEF RotatesNot, Flights, Pending
  <2> QED
    BY <1>7, <1>13, <1>23, <2>1, <2>2 DEF RotatesNot, Flights
<1>24. ASSUME job[r].at \in Pending, Keeps(r), OthersSame(r), UNCHANGED <<entry, spent, orphans>>,
              job'[r].at \in Pending, job[r].at # "save" => RowSame, job'[r].at = "unlist" => provider = "codex"
       PROVE  Entry2 /\ Jobs2 /\ (job[r].at # "save" => Row2)
  <2>1. \A c : Held(r, c) => Holds(r, c)
    BY <1>24 DEF Keeps, Held, Holds
  <2>2. Entry2
    BY <1>6, <1>14, <1>24, <2>1 DEF Pending, Flights
  <2>3. Jobs2
    BY <1>5, <1>11, <1>24 DEF Keeps, Pending, Taken
  <2>4. job[r].at # "save" => Row2
    BY <1>6, <1>7, <1>14, <1>24 DEF Pending, Flights
  <2> QED
    BY <2>2, <2>3, <2>4
<1>25. ASSUME job[r].at \in Pending PROVE ~Stale(job[r].cred)
  BY <1>5, <1>25 DEF FreshNext, Stale, Pending, Taken
<1>26. CASE Saves(r)
  <2>1. Entry2 /\ Jobs2
    BY <1>24, <1>26 DEF Saves, Pending
  <2>2. Row' = job[r].cred
    BY <1>1, <1>26, RowWritten DEF Saves
  <2>3. Row2
    BY <1>6, <1>25, <1>26, <2>2 DEF Saves, Pending
  <2> QED
    BY <2>1, <2>3
<1>27. CASE SavesNot(r)
  <2>1. job[r].at \in Flights /\ job[r].at \in Pending /\ spent' = spent
    BY <1>27 DEF SavesNot, Flights, Pending
  <2>2. ASSUME NEW c \in Credentials, Held(r, c) PROVE ~Old(c)
    <3>1. job[r].token /\ [job[r].cred EXCEPT !.turn = @ - 1] = c
      BY <2>2, BeforeAfter DEF Held, Before
    <3>2. c \in spent => c \in orphans'
      BY <1>27, <3>1 DEF SavesNot, Orphan
    <3> QED
      BY <2>1, <3>2 DEF Old
  <2>3. \A c : Old(c) => Stale(c)
    BY <1>27, <2>1 DEF Old, SavesNot, Orphan, Stale
  <2>4. Row \in Credentials /\ (entry # NoCredential => entry \in Credentials)
    BY <1>1, RowTyped DEF TypeInv, OAuthTypeOK, CredentialsOK
  <2>5. ~(entry # NoCredential /\ Old(entry)) /\ ~Old(Row)
    BY <1>14, <2>1, <2>2, <2>3, <2>4
  <2> QED
    BY <1>7, <1>13, <1>27, <2>1, <2>5 DEF SavesNot
<1>28. CASE Unlists(r)
  <2>1. job'[r].at = "unlist" => provider = "codex"
    BY <1>1, <1>28 DEF Unlists, OneFlight
  <2> QED
    BY <1>24, <1>28, <2>1 DEF Unlists, Pending
<1>29. CASE UnlistsLast(r)
  <2>1. ~(entry # NoCredential /\ Stale(entry)) /\ ~Stale(Row)
    BY <1>14, <1>29 DEF UnlistsLast, Flights
  <2> QED
    BY <1>6, <1>7, <1>13, <1>29, <2>1 DEF UnlistsLast, Flights
<1>30. CASE Enters(r)
  <2>1. job[r].at \in Flights /\ job[r].at \in Pending /\ job[r].at = "enter" /\ UNCHANGED <<spent, orphans>>
    BY <1>30 DEF Enters, Flights, Pending
  <2>2. entry' = job[r].cred /\ ~Stale(entry') /\ ~Stale(Row)
    BY <1>14, <1>25, <1>30, <2>1 DEF Enters
  <2>3. Entry2 /\ Row2
    BY <1>6, <1>7, <1>30, <2>1, <2>2 DEF Enters
  <2>4. Jobs2
    <3>1. CASE Landed(r)
      BY <1>13, <2>1, <3>1
    <3>2. CASE Keeps(r) /\ OthersSame(r)
      BY <1>11, <2>1, <2>2, <3>2 DEF Keeps
    <3> QED
      BY <1>30, <3>1, <3>2 DEF Enters
  <2> QED
    BY <2>3, <2>4
<1>31. CASE Uses(r)
  BY <1>9, <1>10, <1>12, <1>31, Constants DEF Uses, Pending, Taken
<1> QED
  BY <1>1, <1>17, <1>18, <1>19, <1>20, <1>21, <1>22, <1>23, <1>26, <1>27, <1>28, <1>29, <1>30, <1>31 DEF RequestSteps

LEMMA OnceNext == Base /\ Base' /\ KeptInv /\ OnceInv /\ [OAuthNext]_allVars => OnceInv'
<1> SUFFICES ASSUME Base, Base', KeptInv, OnceInv, [OAuthNext]_allVars PROVE OnceInv'
  OBVIOUS
<1>1. TypeInv /\ Separate /\ RowLasts /\ OldGone /\ TypeInv' /\ Separate'
  BY DEF Base, KeptInv
<1>2. CASE cache # "oauth"
  BY <1>1, <1>2, ApartNext
<1>3. CASE cache = "oauth"
  <2>1. CASE UNCHANGED allVars
    BY <2>1, OnceSame DEF allVars, vars, manager
  <2>2. ASSUME NEW r \in Readers, Request(r) PROVE OnceInv'
    <3>1. RequestSteps(r) /\ dropped' = dropped
      BY <1>1, <2>2, RequestsLeave, Requests
    <3>2. "revived" \in excused => "revived" \in excused'
      BY <1>1, <3>1, ExcusedGrows
    <3>3. OneSuccessor'
      BY <1>3, <2>2, <3>1, <3>2, HandedIs, HandedWill, HandedRequest DEF OnceInv
    <3> QED
      BY <1>1, <1>3, <2>2, <3>3, NothingYetRequest, FreshRequest DEF OnceInv
  <2>3. CASE LoginStep
    BY <1>3, <2>3, OnceLogin
  <2> QED
    BY <1>3, <2>1, <2>2, <2>3 DEF OAuthNext, LoginStep
<1> QED
  BY <1>2, <1>3

LEMMA InitOnce == OAuthInit => OnceInv
<1> SUFFICES ASSUME OAuthInit PROVE OnceInv
  OBVIOUS
<1>1. entry = NoCredential /\ job = [r \in Readers |-> NoJob] /\ spent = {}
  BY DEF OAuthInit, CredentialsInit
<1>2. \A r \in Readers : job[r].at = "none"
  BY <1>1, Constants
<1> QED
  BY <1>1, <1>2 DEF OnceInv, NothingYet, OneSuccessor, FreshNext, Stale, Taken, Pending

\* Single flight: a refresh token that was rotated away is not presented again, for
\* any number of requests and logins, but for what was lost or brought back.
THEOREM TokenOnce == OAuthSpec => []RefreshTokenOnce
<1>1. Base /\ KeptInv /\ OnceInv /\ [OAuthNext]_allVars => (Base /\ KeptInv /\ OnceInv)'
  BY BaseNext, KeptNext, OnceNext
<1>2. OnceInv => RefreshTokenOnce
  <2> SUFFICES ASSUME OnceInv, NEW r \in Readers, job[r].at = "present", job[r].cred \in spent,
                      "revived" \notin excused
               PROVE  job[r].cred \in orphans \/ job[r].cred.login < dropped
    BY DEF RefreshTokenOnce
  <2>1. ~Stale(job[r].cred)
    BY HandedIs DEF OnceInv, Handed, Taken
  <2> QED
    BY <2>1 DEF Stale
<1> QED
  BY <1>1, <1>2, InitKept, InitOnce, PTL DEF OAuthSpec

===============================================================================
