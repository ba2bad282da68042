---------------------------- MODULE OAuthCredentials ----------------------------
(***************************************************************************)
(* The credential managers of Codex and Antigravity channels, for one      *)
(* channel: the map entry that shadows the credential stored in the row,   *)
(* single-flight refreshes, and the requests that bring the configuration  *)
(* they read from the channel list, possibly before a new login replaced   *)
(* the credential.  The two managers differ in when a flight ends early and *)
(* in when the channel list is invalidated.                                *)
(*                                                                         *)
(* Row, list and invalidation are those of ChannelCache; a read of the list *)
(* is one step, as what overlapping reads may do to it is shown there.     *)
(* A credential is the login it came from and how often it was refreshed.  *)
(***************************************************************************)
EXTENDS ChannelCache

CONSTANTS
    MaxLogins,   \* bound: logins
    MaxTurns     \* bound: refreshes of one login

ASSUME CredentialAssumption == MaxLogins \in Nat /\ MaxTurns \in Nat

Credentials == [login : 0..MaxLogins, turn : 0..MaxTurns]
NoCredential == [login |-> -1, turn |-> 0]

VARIABLES
    provider,    \* which of the two managers
    content,     \* the credential in each version of the channel's row
    entry,       \* m.entries[id]
    flying,      \* the caller whose function runs in m.refreshes
    job,         \* a request's use of the manager
    spent,       \* credentials whose refresh token the provider has rotated away
    orphans,     \* history: those of them whose successor was never entered
    latest,      \* history: login last written to the row
    dropped,     \* history: login whose completion last dropped the entry
    excused      \* history: why the row or the entry may be an old one

manager == <<provider, content, entry, flying, job, spent, orphans, latest, dropped, excused>>

NoJob == [at |-> "none", cfg |-> NoCredential, cred |-> NoCredential,
          forced |-> FALSE, direct |-> FALSE, token |-> FALSE, base |-> 0]

Steps == {"none", "peek", "join", "wait", "fly", "present", "save", "models", "unlist", "enter", "use"}

CredentialsOK ==
    /\ provider \in {"codex", "antigravity"}
    /\ content \in [Versions -> Credentials]
    /\ entry \in Credentials \cup {NoCredential}
    /\ flying \in Readers \cup {NoReader}
    /\ job \in [Readers -> [at : Steps, cfg : Credentials \cup {NoCredential},
                            cred : Credentials \cup {NoCredential}, forced : BOOLEAN,
                            direct : BOOLEAN, token : BOOLEAN, base : 0..MaxLogins]]
    /\ spent \subseteq Credentials /\ orphans \subseteq Credentials
    /\ latest \in 0..MaxLogins /\ dropped \in 0..MaxLogins
    /\ excused \subseteq {"revived", "overlap", "lost"}

CredentialsInit ==
    /\ provider \in {"codex", "antigravity"}
    /\ content = [v \in Versions |-> [login |-> 0, turn |-> 0]]
    /\ entry = NoCredential
    /\ flying = NoReader
    /\ job = [r \in Readers |-> NoJob]
    /\ spent = {} /\ orphans = {}
    /\ latest = 0 /\ dropped = 0 /\ excused = {}

Row == content[db]

\* A write of the row; later versions repeat the newest credential.
WriteRow(c) ==
    /\ WriteTable
    /\ content' = [v \in Versions |-> IF v > db THEN c ELSE content[v]]

\* InvalidateChannelListCache, and what it or a write leaves alone of the cache.
DropList == cached' = Invalid
Readings == <<cache, refresh, pc, got, took, safe, invalidated, overtaken, result>>
WritesOnly == UNCHANGED <<Readings, cached>>
DropsOnly == UNCHANGED <<Readings, db, wrote>>

-------------------------------------------------------------------------------
(* The requests.                                                           *)

\* tryCodexOAuthChannel, tryAntigravityOAuthChannel: the configuration is the
\* one the selection read from the list, which a load that the last write
\* overtook may have filled.
TakeConfig(r) ==
    /\ cache = "oauth" /\ job[r].at = "none"
    /\ \E v \in IF Fresh THEN {cached.ver} ELSE {db, db - 1} \cap Versions :
         /\ cached' = [ver |-> v, age |-> 0]
         /\ job' = [job EXCEPT ![r] = [NoJob EXCEPT !.at = "peek", !.cfg = content[v]]]
    /\ DropsOnly
    /\ UNCHANGED <<provider, content, entry, flying, spent, orphans, latest, dropped, excused>>

\* HandleRefreshCodexCredential, HandleRefreshAntigravityCredential: the
\* configuration is read from the store, and the refresh is forced.
Direct(r) ==
    /\ cache = "oauth" /\ job[r].at = "none"
    /\ job' = [job EXCEPT ![r] = [NoJob EXCEPT !.at = "peek", !.cfg = Row,
                                               !.forced = TRUE, !.direct = TRUE]]
    /\ UNCHANGED <<vars, provider, content, entry, flying, spent, orphans, latest, dropped, excused>>

\* cachedOrParse: the entry, or else the credential of the caller's
\* configuration, which becomes the entry.
Found(r) == IF entry = NoCredential THEN job[r].cfg ELSE entry

cachedOrParse(r) ==
    /\ entry' = Found(r)
    /\ excused' = IF entry = NoCredential /\ job[r].cfg # Row
                  THEN excused \cup {"revived"} ELSE excused

\* credential, resolveCredential up to the flight.  Whether a credential is
\* about to expire, or lacks metadata, is left open.
Peek(r) ==
    /\ job[r].at = "peek"
    /\ cachedOrParse(r)
    /\ \E needed \in BOOLEAN :
         job' = [job EXCEPT ![r].at = IF needed \/ job[r].forced THEN "join" ELSE "use"]
    /\ UNCHANGED <<vars, provider, content, flying, spent, orphans, latest, dropped>>

\* Mutant of Join: every caller refreshes by itself.
JoinAlone(r) ==
    /\ job[r].at = "join"
    /\ flying' = r
    /\ job' = [job EXCEPT ![r].at = "fly"]
    /\ UNCHANGED <<vars, provider, content, entry, spent, orphans, latest, dropped, excused>>

\* m.refreshes.Do: one caller's function runs, the others wait for its result.
Join(r) ==
    /\ job[r].at = "join"
    /\ flying' = IF flying = NoReader THEN r ELSE flying
    /\ job' = [job EXCEPT ![r].at = IF flying = NoReader THEN "fly" ELSE "wait"]
    /\ UNCHANGED <<vars, provider, content, entry, spent, orphans, latest, dropped, excused>>

\* Do returns c, or an error, to everyone.  Which credential a request goes on
\* with does not matter here.
Land(r, c) ==
    /\ flying' = NoReader
    /\ job' = [q \in Readers |->
                 IF q # r /\ job[q].at # "wait" THEN job[q]
                 ELSE IF c = NoCredential THEN NoJob
                 ELSE [job[q] EXCEPT !.at = "use", !.cred = NoCredential, !.token = FALSE, !.base = 0]]

\* Mutant of FoundInFlight: the flight goes by its caller's configuration.
FoundByCaller(r) == job[r].cfg

\* The entry is looked up again inside the flight.
FoundInFlight(r) == Found(r)

\* The flight begins.  A Codex flight ends here if it is not needed any more;
\* an Antigravity flight goes on, without a token refresh.
Fly(r) ==
    LET go(tok) == job' = [job EXCEPT ![r].at = IF tok THEN "present" ELSE "save",
                                      ![r].cred = FoundInFlight(r), ![r].token = tok, ![r].base = dropped,
                                      ![r].cfg = IF job[r].forced THEN NoCredential ELSE @]
    IN  /\ job[r].at = "fly"
        /\ cachedOrParse(r)
        /\ \/ go(TRUE) /\ UNCHANGED flying
           \/ ~job[r].forced /\ provider = "codex" /\ Land(r, Found(r))
           \/ ~job[r].forced /\ provider = "antigravity" /\ go(FALSE) /\ UNCHANGED flying
        /\ UNCHANGED <<vars, provider, content, spent, orphans, latest, dropped>>

\* service.Refresh answers.  The provider rotates the refresh token (it may also
\* leave it as it is, and then none is ever spent).
Refreshed(r) ==
    LET c == job[r].cred
    IN  /\ job[r].at = "present" /\ c \notin spent /\ c.turn < MaxTurns
        /\ spent' = spent \cup {c}
        /\ job' = [job EXCEPT ![r].at = "save", ![r].cred.turn = @ + 1]
        /\ UNCHANGED <<vars, provider, content, entry, flying, orphans, latest, dropped, excused>>

\* It fails, perhaps after the provider has rotated the token.
RefreshFails(r) ==
    LET c == job[r].cred
    IN  /\ job[r].at = "present"
        /\ \E rotated \in BOOLEAN :
             /\ spent' = IF rotated THEN spent \cup {c} ELSE spent
             /\ orphans' = IF rotated THEN orphans \cup {c} ELSE orphans
        /\ Land(r, NoCredential)
        /\ UNCHANGED <<vars, provider, content, entry, latest, dropped, excused>>

\* The credential a refresh came from is spent, and its successor is lost.
Orphan(r) ==
    LET c == [job[r].cred EXCEPT !.turn = @ - 1]
    IN  orphans' = IF job[r].token /\ c \in spent THEN orphans \cup {c} ELSE orphans

\* UpdateOAuthCredential.
SaveCredential(r) ==
    /\ job[r].at = "save"
    /\ WriteRow(job[r].cred) /\ WritesOnly
    /\ excused' = IF job[r].cred.login < latest /\ job[r].base < latest
                  THEN excused \cup {"overlap"} ELSE excused
    /\ \E next \in IF provider = "codex" THEN {"models", "enter"} ELSE {"enter"} :
         job' = [job EXCEPT ![r].at = next]
    /\ UNCHANGED <<provider, entry, flying, spent, orphans, latest, dropped>>

\* It fails, or CompleteCredential did before it: the new token is lost.
SaveFails(r) ==
    /\ job[r].at = "save"
    /\ Orphan(r)
    /\ Land(r, NoCredential)
    /\ UNCHANGED <<vars, provider, content, entry, spent, latest, dropped, excused>>

\* The plan has changed: UpdateConfig with the models of the new one, which
\* leaves the credential alone.
SaveModels(r) ==
    /\ job[r].at = "models"
    /\ job' = [job EXCEPT ![r].at = "unlist"]
    /\ UNCHANGED <<vars, provider, content, entry, flying, spent, orphans, latest, dropped, excused>>

SaveModelsFails(r) ==
    /\ job[r].at = "models"
    /\ Orphan(r)
    /\ excused' = excused \cup {"lost"}
    /\ Land(r, NoCredential)
    /\ UNCHANGED <<vars, provider, content, entry, spent, latest, dropped>>

\* invalidateConfig: before the entry is set (Codex), or after.
Unlist(r) ==
    /\ job[r].at = "unlist"
    /\ DropList /\ DropsOnly
    /\ IF provider = "codex" THEN job' = [job EXCEPT ![r].at = "enter"] /\ UNCHANGED flying
       ELSE Land(r, job[r].cred)
    /\ UNCHANGED <<provider, content, entry, spent, orphans, latest, dropped, excused>>

\* m.entries[cfg.ID] = merged.
Enter(r) ==
    LET c == job[r].cred
    IN  /\ job[r].at = "enter"
        /\ entry' = c
        /\ excused' = IF c.login < dropped THEN excused \cup {"overlap"}
                      ELSE IF job[r].token /\ c = Row THEN excused \ {"lost"} ELSE excused
        /\ IF provider = "codex" THEN Land(r, c)
           ELSE job' = [job EXCEPT ![r].at = "unlist"] /\ UNCHANGED flying
        /\ UNCHANGED <<vars, provider, content, spent, orphans, latest, dropped>>

\* The request is sent.  A 401 to the first attempt forces a refresh; the
\* administrator's handler invalidates the channel list.
Use(r) ==
    /\ job[r].at = "use"
    /\ \/ /\ ~job[r].direct
          /\ job' = [job EXCEPT ![r] = NoJob]
          /\ UNCHANGED vars
       \/ /\ ~job[r].forced
          /\ job' = [job EXCEPT ![r].at = "peek", ![r].forced = TRUE]
          /\ UNCHANGED vars
       \/ /\ job[r].direct
          /\ job' = [job EXCEPT ![r] = NoJob]
          /\ DropList /\ DropsOnly
    /\ UNCHANGED <<provider, content, entry, flying, spent, orphans, latest, dropped, excused>>

Request(r) ==
    \/ TakeConfig(r) \/ Direct(r) \/ Peek(r) \/ Join(r) \/ Fly(r)
    \/ Refreshed(r) \/ RefreshFails(r) \/ SaveCredential(r) \/ SaveFails(r)
    \/ SaveModels(r) \/ SaveModelsFails(r) \/ Unlist(r) \/ Enter(r) \/ Use(r)
===============================================================================
