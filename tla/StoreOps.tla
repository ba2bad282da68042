------------------------------- MODULE StoreOps -------------------------------
(***************************************************************************)
(* The writes of storage.Store as functions on one database.  A row        *)
(* stands for what one write reads and changes: a channel with its         *)
(* cooldown columns, an API token (auth_tokens, system_access_tokens and   *)
(* the like) or the state of one URL of a channel.  Its contents are a     *)
(* number that Set writes and Bump increments.                             *)
(***************************************************************************)
EXTENDS Naturals, FiniteSets

CONSTANTS
    Channels,  \* rows of channels
    Tokens,    \* rows of auth_tokens
    Urls,      \* rows of channel_url_states
    Owner,     \* the channel of a URL row
    Values,    \* values a write may set
    Absent     \* no such row

Rows == Channels \cup Tokens \cup Urls

ASSUME StoreAssumption ==
    /\ Channels \cap Tokens = {} /\ Channels \cap Urls = {} /\ Tokens \cap Urls = {}
    /\ Owner \in [Urls -> Channels]
    /\ Values \subseteq Nat /\ Absent \notin Nat

Contents == Nat \cup {Absent}
Kinds == {"create", "set", "upsert", "bump", "delete", "cascade"}
AnyOp == [kind : Kinds, row : Rows, val : Nat]
Op(kind, row, val) == [kind |-> kind, row |-> row, val |-> val]

\* CreateConfig, the Set/Reset/Bump cooldown calls, DeleteConfig, and
\* CascadeSiteSuspend, which switches a site's channels off or on again.
ChannelOps ==
    {Op("create", c, 0) : c \in Channels} \cup {Op("set", c, v) : c \in Channels, v \in Values}
    \cup {Op("bump", c, 0) : c \in Channels} \cup {Op("delete", c, 0) : c \in Channels}
    \cup {Op("cascade", c, v) : c \in Channels, v \in Values}

\* CreateAuthToken, UpdateAuthToken, UpdateTokenStats, DeleteAuthToken.
TokenOps ==
    {Op("create", t, 0) : t \in Tokens} \cup {Op("set", t, v) : t \in Tokens, v \in Values}
    \cup {Op("bump", t, 0) : t \in Tokens} \cup {Op("delete", t, 0) : t \in Tokens}

\* SetURLDisabled and CleanupOrphanedURLStates.
UrlOps == {Op("upsert", u, v) : u \in Urls, v \in Values} \cup {Op("delete", u, 0) : u \in Urls}

Ops == ChannelOps \cup TokenOps \cup UrlOps

\* deleteConfigTx takes the channel's URL states with it.
Touched(o) ==
    {o.row} \cup (IF o.kind = "delete" THEN {u \in Urls : Owner[u] = o.row} ELSE {})

\* An UPDATE of an absent row is an error for a token and no rows for a
\* channel; a cooldown bump reads the row first and fails without it.
Fails(o, x) ==
    CASE o.kind = "create" -> x # Absent
      [] o.kind = "bump" -> x = Absent
      [] o.kind \in {"set", "delete"} -> x = Absent /\ o.row \in Tokens
      [] OTHER -> FALSE

NewVal(o, x) ==
    CASE o.kind \in {"create", "upsert"} -> o.val
      [] o.kind \in {"set", "cascade"} -> IF x = Absent THEN Absent ELSE o.val
      [] o.kind = "bump" -> IF x = Absent THEN Absent ELSE x + 1
      [] OTHER -> Absent

Apply(o, db) == [r \in Rows |-> IF r \in Touched(o) THEN NewVal(o, db[r]) ELSE db[r]]
===============================================================================
