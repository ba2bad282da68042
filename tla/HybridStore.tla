----------------------------- MODULE HybridStore ------------------------------
(***************************************************************************)
(* HybridStore: a primary database and a local SQLite mirror.  A write     *)
(* goes to the primary first and then, as a separate step, to the mirror;  *)
(* the mirror's error is only counted.  Cooldowns, API tokens, settings,   *)
(* fingerprints and disabled URLs are read from the mirror; the channels   *)
(* of a site are projected in the primary alone, as are the tables that    *)
(* bind them to it.  SyncManager rebuilds the mirror table by table when   *)
(* the process starts.                                                     *)
(*                                                                         *)
(* suspect is a history variable: the rows whose mirror copy an event the  *)
(* code accepts may have made different.                                   *)
(***************************************************************************)
EXTENDS StoreOps

CONSTANTS
    Writers,     \* goroutines calling the store
    MaxOps,      \* bound: writes accepted by the primary
    MaxCrashes,  \* bound: crashes of the process
    Nil

ASSUME HybridAssumption == Nil \notin AnyOp

VARIABLES
    primary, issued,   \* MySQL or PostgreSQL, and its auto-increment ids
    mirror,     \* SQLite
    pending,    \* the write a writer has committed to the primary only
    phase,      \* "up", "down", or the table being restored
    suspect,
    fresh,      \* history: nothing was written since the restart
    nOps, nCrashes

vars == <<primary, issued, mirror, pending, phase, suspect, fresh, nOps, nCrashes>>

S == INSTANCE Store WITH rows <- primary, issued <- issued

TypeOK ==
    /\ primary \in [Rows -> Contents] /\ mirror \in [Rows -> Contents]
    /\ issued \subseteq Rows
    /\ pending \in [Writers -> AnyOp \cup {Nil}]
    /\ phase \in {"up", "down", "channels", "tokens"}
    /\ suspect \subseteq Rows
    /\ fresh \in BOOLEAN /\ nOps \in Nat /\ nCrashes \in Nat

Init ==
    /\ S!Init
    /\ mirror = [r \in Rows |-> Absent]
    /\ pending = [w \in Writers |-> Nil]
    /\ phase = "up" /\ suspect = {} /\ fresh = TRUE
    /\ nOps = 0 /\ nCrashes = 0

Busy(r) == \E w \in Writers : pending[w] # Nil /\ r \in Touched(pending[w])

\* The shape of every mirrored write: the primary commits it, or returns its
\* error and nothing else happens.
PrimaryWrite(w, o) ==
    /\ phase = "up" /\ pending[w] = Nil /\ nOps < MaxOps
    /\ S!Do(o)
    /\ pending' = [pending EXCEPT ![w] = o]
    /\ suspect' = suspect \cup {r \in Touched(o) : Busy(r)}
    /\ fresh' = FALSE /\ nOps' = nOps + 1
    /\ UNCHANGED <<mirror, phase, nCrashes>>

ChannelWrite(w) == \E o \in ChannelOps : PrimaryWrite(w, o)
TokenWrite(w) == \E o \in TokenOps : PrimaryWrite(w, o)
UrlWrite(w) == \E o \in UrlOps : PrimaryWrite(w, o)

\* EnsureAuthToken finds the token in the primary and upserts that row into
\* the mirror; with no such token it is CreateAuthToken.
EnsureAuthToken(w) ==
    /\ phase = "up" /\ pending[w] = Nil
    /\ \E t \in Tokens :
         /\ primary[t] # Absent
         /\ pending' = [pending EXCEPT ![w] = Op("upsert", t, primary[t])]
         /\ suspect' = IF Busy(t) THEN suspect \cup {t} ELSE suspect
    /\ UNCHANGED <<primary, issued, mirror, phase, fresh, nOps, nCrashes>>

\* CascadeSiteSuspend selects a site's channels through site_channel_bindings and
\* site_accounts, which are neither mirrored nor restored: in SQLite it finds none.
MirrorFinds(o) == o.kind # "cascade"

\* Mutant: the mirror forgets back-offs.
SyncToSQLite_NoBump(w) ==
    LET o == pending[w] IN
    /\ phase = "up" /\ o # Nil
    /\ \/ /\ MirrorFinds(o) /\ ~ Fails(o, mirror[o.row])
          /\ mirror' = IF o.kind = "bump" THEN mirror ELSE Apply(o, mirror)
          /\ UNCHANGED suspect
       \/ /\ suspect' = suspect \cup Touched(o)
          /\ UNCHANGED mirror
    /\ pending' = [pending EXCEPT ![w] = Nil]
    /\ UNCHANGED <<primary, issued, phase, fresh, nOps, nCrashes>>

\* Mutant: a failed mirror write puts the old row back into the primary.
SyncToSQLite_Undo(w) ==
    LET o == pending[w] IN
    /\ phase = "up" /\ o # Nil
    /\ \/ /\ MirrorFinds(o) /\ ~ Fails(o, mirror[o.row])
          /\ mirror' = Apply(o, mirror)
          /\ UNCHANGED <<primary, suspect>>
       \/ /\ suspect' = suspect \cup Touched(o)
          /\ primary' = [primary EXCEPT ![o.row] = mirror[o.row]]
          /\ UNCHANGED mirror
    /\ pending' = [pending EXCEPT ![w] = Nil]
    /\ UNCHANGED <<issued, phase, fresh, nOps, nCrashes>>

\* syncToSQLite: the mirror applies the same write to what it holds.  It may be
\* without effect: refused, because the mirror's own row differs or for a reason of
\* its own, or, for a cascade, successful on no rows.
SyncToSQLite(w) ==
    LET o == pending[w] IN
    /\ phase = "up" /\ o # Nil
    /\ \/ /\ MirrorFinds(o) /\ ~ Fails(o, mirror[o.row])
          /\ mirror' = Apply(o, mirror)
          /\ UNCHANGED suspect
       \/ /\ suspect' = suspect \cup Touched(o)
          /\ UNCHANGED mirror
    /\ pending' = [pending EXCEPT ![w] = Nil]
    /\ UNCHANGED <<primary, issued, phase, fresh, nOps, nCrashes>>

\* UpsertSiteProjection and PruneSiteProjectionsExcept: the primary alone.
SiteProjection ==
    /\ phase = "up" /\ nOps < MaxOps
    /\ \E o \in ChannelOps :
         /\ o.kind \in {"create", "delete"}
         /\ S!Do(o)
         /\ suspect' = suspect \cup Touched(o)
    /\ fresh' = FALSE /\ nOps' = nOps + 1
    /\ UNCHANGED <<mirror, pending, phase, nCrashes>>

\* DeleteSite and DeleteSiteAccount: the primary deletes the projected
\* channels, then their mirror copies go the way of every mirrored write.
DeleteSite(w) == \E c \in Channels :
    primary[c] # Absent /\ PrimaryWrite(w, Op("delete", c, 0))

\* The process dies between any two steps.
Crash ==
    /\ phase # "down" /\ nCrashes < MaxCrashes
    /\ phase' = "down"
    /\ suspect' = suspect \cup {r \in Rows : Busy(r)}
    /\ pending' = [w \in Writers |-> Nil]
    /\ nCrashes' = nCrashes + 1
    /\ UNCHANGED <<primary, issued, mirror, fresh, nOps>>

\* The SQLite file is found again, or a container starts without one.
OpenSQLite ==
    /\ phase = "down"
    /\ \/ UNCHANGED <<mirror, suspect>>
       \/ /\ mirror' = [r \in Rows |-> Absent]
          /\ suspect' = suspect \cup {r \in Rows : mirror[r] # Absent \/ primary[r] # Absent}
    /\ phase' = "channels"
    /\ UNCHANGED <<primary, issued, pending, fresh, nOps, nCrashes>>

\* restoreTable: one transaction per table; an empty primary table is
\* skipped, and what the mirror holds of it stays.
RestoreTable(table) ==
    IF \A r \in table : primary[r] = Absent
    THEN UNCHANGED <<mirror, suspect>>
    ELSE /\ mirror' = [r \in Rows |-> IF r \in table THEN primary[r] ELSE mirror[r]]
         /\ suspect' = suspect \ table

\* Mutant: the start goes on after the channel tables.
RestoreOnStartup_ChannelsOnly ==
    /\ phase = "channels" /\ RestoreTable(Channels) /\ phase' = "up" /\ fresh' = TRUE
    /\ UNCHANGED <<primary, issued, pending, nOps, nCrashes>>

\* RestoreOnStartup: channel_url_states is not among its tables.
RestoreOnStartup ==
    /\ \/ phase = "channels" /\ RestoreTable(Channels) /\ phase' = "tokens" /\ UNCHANGED fresh
       \/ phase = "tokens" /\ RestoreTable(Tokens) /\ phase' = "up" /\ fresh' = TRUE
    /\ UNCHANGED <<primary, issued, pending, nOps, nCrashes>>

\* An error of any table fails the start.
RestoreFails ==
    /\ phase \in {"channels", "tokens"} /\ nCrashes < MaxCrashes
    /\ phase' = "down" /\ nCrashes' = nCrashes + 1
    /\ UNCHANGED <<primary, issued, mirror, pending, suspect, fresh, nOps>>

Next ==
    \/ \E w \in Writers :
         \/ ChannelWrite(w) \/ TokenWrite(w) \/ UrlWrite(w)
         \/ EnsureAuthToken(w) \/ DeleteSite(w) \/ SyncToSQLite(w)
    \/ SiteProjection
    \/ Crash \/ OpenSQLite \/ RestoreOnStartup \/ RestoreFails

Spec == Init /\ [][Next]_vars
-------------------------------------------------------------------------------

(* A row whose mirror copy differs from the primary, with no write of it     *)
(* under way, has a cause the code accepts: a mirror write that failed, the  *)
(* cascade of a site's switch (its mirror half reports success and changes   *)
(* nothing), two writes of the row overlapping, a projection, a crash        *)
(* between the two databases or a lost SQLite file.  The other two-step      *)
(* writes never leave a different row behind, whatever their order over      *)
(* different rows.                                                           *)
DriftExplained ==
    \A r \in Rows : primary[r] # mirror[r] => r \in suspect \/ Busy(r)

Healed(table) ==
    (\A r \in table : primary[r] = Absent) \/ \A r \in table : primary[r] = mirror[r]

(* A start that ends well leaves no difference in the tables it restored,    *)
(* whatever the crash interrupted: only the URL states, and tables of which  *)
(* the primary has no row, may still differ.                                 *)
RestartHeals ==
    fresh /\ phase = "up" => Healed(Channels) /\ Healed(Tokens)

(* The hybrid store implements the atomic store: mirror failures, crashes    *)
(* and restores never change the source of truth.                            *)
RefinesStore == S!Spec

===============================================================================
