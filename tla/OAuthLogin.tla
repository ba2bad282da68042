------------------------------- MODULE OAuthLogin -------------------------------
(***************************************************************************)
(* codexOAuthManager, which both providers use: an administrator logs in   *)
(* to the account of the channel.  A login has a listener on a fixed port, *)
(* a callback that arrives there or is submitted by hand, and a goroutine  *)
(* (complete) that exchanges the code, writes the row and drops what the   *)
(* credential manager and the channel list hold.  It may be cancelled,     *)
(* replaced by another, time out, or be closed with the server.            *)
(***************************************************************************)
EXTENDS OAuthCredentials

VARIABLES
    session,     \* m.sessions, by the number of the login
    active,      \* m.active, 0 for nil
    starting,    \* the start() under way
    closed       \* close() was called

login == <<session, active, starting, closed>>
allVars == <<vars, manager, login>>

Logins == 1..MaxLogins

\* at: the goroutine; box: session.result and callbackReceived; err: result.errorMsg;
\* shut: a cancelSession still has to cancel the context and the listener;
\* ended, history: it was cancelled.
NoSession == [status |-> "none", at |-> "none", box |-> "empty", err |-> FALSE,
              listens |-> FALSE, shut |-> FALSE, ended |-> FALSE]

Statuses == {"none", "pending", "committing", "complete", "error", "cancelled"}

OAuthTypeOK ==
    /\ TypeOK /\ CredentialsOK
    /\ session \in [Logins ->
         [status : Statuses,
          at : {"none", "select", "exchange", "commit", "models", "close", "finish",
                "drop", "unlist", "over"},
          box : {"empty", "code", "error", "taken"},
          err : BOOLEAN, listens : BOOLEAN, shut : BOOLEAN, ended : BOOLEAN]]
    /\ active \in Logins \cup {0}
    /\ starting \in {"no", "replacing", "listening"}
    /\ closed \in BOOLEAN

OAuthInit ==
    /\ Init /\ CredentialsInit
    /\ session = [l \in Logins |-> NoSession]
    /\ active = 0 /\ starting = "no" /\ closed = FALSE

Others == UNCHANGED <<vars, manager>>

-------------------------------------------------------------------------------
(* cancelSession and its callers.                                          *)

\* Mutant of Cancellable: a login may be cancelled while it writes.
CancellableAlways(l) == session[l].status \in {"pending", "committing"}

\* Without force only a pending login can be cancelled.
Cancellable(l) == session[l].status = "pending"

\* The critical section: the login is over, whatever its goroutine does.
Cancelled(l) ==
    /\ session' = [session EXCEPT ![l].status = "cancelled", ![l].shut = TRUE, ![l].ended = TRUE]
    /\ active' = IF active = l THEN 0 ELSE active

\* HandleCancelCodexOAuth.
Cancel(l) ==
    /\ cache = "login"
    /\ Cancellable(l)
    /\ Cancelled(l)
    /\ UNCHANGED <<starting, closed>> /\ Others

\* close() of the server, which waits for a start() under way.
Close ==
    /\ cache = "login" /\ starting = "no" /\ ~closed
    /\ closed' = TRUE
    /\ \/ active = 0 /\ UNCHANGED <<session, active>>
       \/ /\ active # 0 /\ session[active].status # "cancelled"
          /\ Cancelled(active)
    /\ UNCHANGED starting /\ Others

\* After the critical section: the context is cancelled, the listener closed.
\* The start() that waits for it, with the newest login, may fail here.
Shut(l) ==
    LET awaited == starting = "replacing" /\ \A k \in Logins : k > l => session[k].status = "none"
    IN  /\ session[l].shut
        /\ session' = [session EXCEPT ![l].shut = FALSE, ![l].listens = FALSE]
        /\ starting' \in IF awaited THEN {"listening", "no"} ELSE {starting}
        /\ UNCHANGED <<active, closed>> /\ Others

-------------------------------------------------------------------------------
(* start, which holds startMu.                                             *)

\* Another login is replaced.  One that is writing cannot be: start fails.
StartReplaces ==
    /\ cache = "login" /\ starting = "no" /\ ~closed /\ active # 0
    /\ \E l \in Logins : session[l].status = "none"
    /\ Cancellable(active)
    /\ Cancelled(active)
    /\ starting' = "replacing"
    /\ UNCHANGED closed /\ Others

\* The port is free, and no other login became active.  Beside requests there is
\* one login, in "login" there are several without requests.
Start ==
    /\ cache \in {"oauth", "login"} /\ ~closed /\ active = 0
    /\ starting \in {"no", "listening"}
    /\ \A l \in Logins : ~session[l].listens
    /\ \E l \in Logins :
         /\ l = 1 \/ cache = "login"
         /\ session[l].status = "none" /\ \A k \in 1..l - 1 : session[k].status # "none"
         /\ session' = [session EXCEPT ![l] = [NoSession EXCEPT !.status = "pending", !.at = "select",
                                                                !.listens = TRUE]]
         /\ active' = l
    /\ starting' = "no"
    /\ UNCHANGED closed /\ Others

\* The port is taken, by a login on its way out or by someone else.
StartFails ==
    /\ starting = "listening"
    /\ starting' = "no"
    /\ UNCHANGED <<session, active, closed>> /\ Others

\* handleCallback, submitCallbackURL, deliverCallback; the listener may fail.
Callback(l) ==
    /\ session[l].status = "pending" /\ session[l].box = "empty"
    /\ \E b \in {"code", "error"} : session' = [session EXCEPT ![l].box = b]
    /\ UNCHANGED <<active, starting, closed>> /\ Others

-------------------------------------------------------------------------------
(* complete.                                                               *)

Go(l, s) == session' = [session EXCEPT ![l] = s]
Erred(l) == [session[l] EXCEPT !.at = "close", !.err = TRUE, !.box = "taken"]

\* The result, the end of the context, or the timer.
Select(l) ==
    /\ session[l].at = "select"
    /\ \/ session[l].box = "code" /\ Go(l, [session[l] EXCEPT !.at = "exchange", !.box = "taken"])
       \/ Go(l, Erred(l))
    /\ UNCHANGED <<active, starting, closed>> /\ Others

\* Mutant of Exchange: the cancellation is not looked at after the exchange.
ExchangeUnchecked(l) ==
    /\ session[l].at = "exchange"
    /\ \/ Go(l, Erred(l))
       \/ Go(l, [session[l] EXCEPT !.at = "commit", !.status = "committing"])
    /\ UNCHANGED <<active, starting, closed>> /\ Others

\* The exchange fails, or the login may have been cancelled meanwhile; if not, it
\* cannot be any more, except by close().
Exchange(l) ==
    /\ session[l].at = "exchange"
    /\ \/ Go(l, Erred(l))
       \/ /\ session[l].status # "cancelled"
          /\ Go(l, [session[l] EXCEPT !.at = "commit", !.status = "committing"])
    /\ UNCHANGED <<active, starting, closed>> /\ Others

\* createOrUpdateCodexChannel, createAntigravityChannel for a known account:
\* the credential, and then the models, of Codex only if the plan has changed.
Commit1(l) ==
    /\ session[l].at = "commit"
    /\ \/ /\ Go(l, Erred(l))
          /\ Others
       \/ /\ WriteRow([login |-> l, turn |-> 0]) /\ WritesOnly
          /\ latest' = l
          /\ \E next \in {"models"} \cup (IF provider = "codex" THEN {"close"} ELSE {}) :
               Go(l, [session[l] EXCEPT !.at = next])
          /\ UNCHANGED <<provider, entry, flying, job, spent, orphans, dropped, excused>>
    /\ UNCHANGED <<active, starting, closed>>

\* A login that fails here has replaced the row, and nobody learns of it.
Commit2(l) ==
    /\ session[l].at = "models"
    /\ \/ /\ Go(l, Erred(l))
          /\ excused' = excused \cup {"lost"}
       \/ /\ Go(l, [session[l] EXCEPT !.at = "close"])
          /\ UNCHANGED excused
    /\ UNCHANGED <<vars, content, provider, entry, flying, job, spent, orphans, latest, dropped>>
    /\ UNCHANGED <<active, starting, closed>>

CloseListener(l) ==
    /\ session[l].at = "close"
    /\ Go(l, [session[l] EXCEPT !.at = "finish", !.listens = FALSE])
    /\ UNCHANGED <<active, starting, closed>> /\ Others

\* A cancelled login stays cancelled, and what it wrote is not made known.
Finish(l) ==
    LET s == session[l]
        status == CASE s.status = "cancelled" -> "cancelled"
                    [] s.status # "cancelled" /\ s.err -> "error"
                    [] OTHER -> "complete"
    IN  /\ s.at = "finish"
        /\ Go(l, [s EXCEPT !.status = status, !.err = FALSE,
                           !.at = IF status = "complete" THEN "drop" ELSE "over"])
        /\ active' = IF active = l THEN 0 ELSE active
        /\ UNCHANGED <<starting, closed>> /\ Others

\* Mutant of DropEntry: only the channel list is invalidated.
DropNothing(l) ==
    /\ session[l].at = "drop"
    /\ Go(l, [session[l] EXCEPT !.at = "unlist"])
    /\ dropped' = l
    /\ UNCHANGED <<vars, provider, content, entry, flying, job, spent, orphans, latest, excused, active, starting, closed>>

\* m.invalidate: the entry, then the channel list.
DropEntry(l) ==
    /\ session[l].at = "drop"
    /\ Go(l, [session[l] EXCEPT !.at = "unlist"])
    /\ entry' = NoCredential
    /\ dropped' = l
    /\ excused' = IF Row.login = latest THEN {} ELSE {"overlap"}
    /\ UNCHANGED <<vars, provider, content, flying, job, spent, orphans, latest, active, starting, closed>>

DropListed(l) ==
    /\ session[l].at = "unlist"
    /\ DropList /\ DropsOnly
    /\ Go(l, [session[l] EXCEPT !.at = "over"])
    /\ UNCHANGED <<manager, active, starting, closed>>

Complete(l) ==
    \/ Select(l) \/ Exchange(l) \/ Commit1(l) \/ Commit2(l)
    \/ CloseListener(l) \/ Finish(l) \/ DropEntry(l) \/ DropListed(l)

-------------------------------------------------------------------------------
OAuthNext ==
    \/ /\ cache \notin {"oauth", "login"}
       /\ Next
       /\ UNCHANGED <<manager, login>>
    \/ /\ \E r \in Readers : Request(r)
       /\ UNCHANGED login
    \/ Close \/ StartReplaces \/ Start \/ StartFails
    \/ \E l \in Logins : Cancel(l) \/ Shut(l) \/ Callback(l) \/ Complete(l)

OAuthSpec == OAuthInit /\ [][OAuthNext]_allVars

-------------------------------------------------------------------------------
\* Nobody is between writing the row and making it known.
Quiet ==
    /\ \A r \in Readers : job[r].at \notin {"models", "unlist", "enter"}
    /\ \A l \in Logins : session[l].at \notin {"models", "close", "finish", "drop"}

\* A completed login is never undone: the row holds a credential of the last
\* login written to it, and the manager's entry is the credential of the row.
\* (The code's exceptions: a refresh that began before the login dropped the
\* entry; a request that brings a configuration read before the login and finds
\* no entry; a refresh or a login of which only the first write succeeded.)
LoginKept ==
    /\ Row.login = latest \/ excused \cap {"revived", "overlap"} # {}
    /\ Quiet /\ excused = {} /\ ~closed => entry \in {NoCredential, Row}

\* Single flight: no refresh token of the current login is presented after it was
\* rotated away, but when what the refresh that rotated it returned was lost, on
\* the way or by a write that failed, or an outdated configuration brought it back.
RefreshTokenOnce ==
    \A r \in Readers :
        LET c == job[r].cred
        IN  job[r].at = "present" /\ c \in spent =>
                c \in orphans \/ c.login < dropped \/ "revived" \in excused

\* A login that was cancelled stays so and writes nothing, unless it was writing
\* when the server was closed; and the manager never holds on to a login that is
\* over, which would keep every other from starting.
LoginsClean ==
    /\ \A l \in Logins : session[l].ended =>
         /\ session[l].status = "cancelled"
         /\ closed \/ latest # l
    /\ active # 0 => session[active].at \notin {"none", "drop", "unlist", "over"}
===============================================================================
