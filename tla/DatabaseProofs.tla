---------------------------- MODULE DatabaseProofs ----------------------------
(***************************************************************************)
(* HybridStore for every set of rows and writers and any number of writes  *)
(* and crashes, and SiteTasks for every set of instances, administrators   *)
(* and task kinds, every retry limit and any number of tasks and faults.   *)
(*                                                                         *)
(* DriftExplained is not inductive alone: that a mirror write makes its    *)
(* row equal needs to know what a pending write is worth.  HybridInv adds  *)
(* that rows touched by two pending writes are suspect, and that a pending *)
(* write of an unsuspected row, applied to the mirror, gives the primary's *)
(* row.                                                                    *)
(***************************************************************************)
EXTENDS HybridStore, SiteTasks, FiniteSetTheorems, TLAPS

-------------------------------------------------------------------------------
(* HybridStore.                                                            *)

\* Only a running process has writes under way.
NothingPendingDown == phase # "up" => \A w \in Writers : pending[w] = Nil

OverlapSuspect ==
    \A v, w \in Writers : v # w /\ pending[v] # Nil /\ pending[w] # Nil =>
        Touched(pending[v]) \cap Touched(pending[w]) \subseteq suspect

PendingApplies ==
    \A w \in Writers : pending[w] # Nil =>
        \A r \in Touched(pending[w]) \ suspect : primary[r] = NewVal(pending[w], mirror[r])

HybridInv ==
    TypeOK /\ NothingPendingDown /\ OverlapSuspect /\ PendingApplies /\ DriftExplained

\* Every write the store accepts is an operation, and touches rows only.
LEMMA OpsTyped ==
    ASSUME NEW o \in Ops
    PROVE  o \in AnyOp /\ o # Nil /\ o.row \in Rows /\ Touched(o) \subseteq Rows
<1>1. o \in AnyOp
  <2> USE StoreAssumption DEF AnyOp, Op, Kinds, Rows
  <2>1. CASE o \in ChannelOps
    BY <2>1 DEF ChannelOps
  <2>2. CASE o \in TokenOps
    BY <2>2 DEF TokenOps
  <2>3. CASE o \in UrlOps
    BY <2>3 DEF UrlOps
  <2> QED
    BY <2>1, <2>2, <2>3 DEF Ops
<1> QED
  BY <1>1, HybridAssumption DEF AnyOp, Touched, Rows

\* A write maps databases to databases.
LEMMA ApplyTyped ==
    ASSUME NEW o \in AnyOp, NEW db \in [Rows -> Contents]
    PROVE  Apply(o, db) \in [Rows -> Contents]
<1>1. \A x \in Contents : NewVal(o, x) \in Contents
  BY DEF NewVal, Contents, AnyOp
<1> QED
  BY <1>1 DEF Apply

\* The abstract store's operations are the detailed one's.
LEMMA SameOps ==
    ASSUME NEW o, NEW db
    PROVE  /\ S!Rows = Rows /\ S!Ops = Ops
           /\ S!Apply(o, db) = Apply(o, db)
<1> USE DEF S!Rows, Rows
<1>1. S!Ops = Ops
  BY DEF S!Ops, Ops, S!ChannelOps, ChannelOps, S!TokenOps, TokenOps, S!UrlOps, UrlOps, S!Op, Op
<1>2. S!Touched(o) = Touched(o)
  BY DEF S!Touched, Touched
<1>3. \A x : S!NewVal(o, x) = NewVal(o, x)
  BY DEF S!NewVal, NewVal
<1> QED
  BY <1>1, <1>2, <1>3 DEF S!Apply, Apply

\* A write of the primary, whichever calls made it.
LEMMA PrimaryKeeps ==
    ASSUME HybridInv, NEW w \in Writers, NEW o \in Ops, PrimaryWrite(w, o)
    PROVE  HybridInv'
<1> USE DEF HybridInv
<1>0. /\ o \in AnyOp /\ o # Nil /\ Touched(o) \subseteq Rows
      /\ pending[w] = Nil /\ pending' = [pending EXCEPT ![w] = o]
      /\ primary' = Apply(o, primary) /\ mirror' = mirror /\ phase' = phase /\ phase = "up"
      /\ suspect' = suspect \cup {r \in Touched(o) : Busy(r)}
  BY OpsTyped, SameOps DEF PrimaryWrite, S!Do
<1>1. TypeOK'
  <2>1. primary' \in [Rows -> Contents]
    BY <1>0, ApplyTyped DEF TypeOK
  <2>2. issued' \subseteq Rows
    BY OpsTyped DEF PrimaryWrite, S!Do, TypeOK
  <2>3. pending' \in [Writers -> AnyOp \cup {Nil}] /\ suspect' \subseteq Rows
    BY <1>0 DEF TypeOK
  <2>4. fresh' \in BOOLEAN /\ nCrashes' \in Nat
    BY Zenon DEF PrimaryWrite, TypeOK
  <2>5. nOps' \in Nat
    <3>1. nOps \in Nat /\ nOps' = nOps + 1
      BY Zenon DEF PrimaryWrite, TypeOK
    <3> QED
      BY <3>1
  <2> QED
    BY <2>1, <2>2, <2>3, <2>4, <2>5, <1>0 DEF TypeOK
<1>2. NothingPendingDown'
  BY <1>0 DEF NothingPendingDown
<1>3. OverlapSuspect'
  <2> SUFFICES ASSUME NEW u \in Writers, NEW v \in Writers, u # v,
                      pending'[u] # Nil, pending'[v] # Nil,
                      NEW r \in Touched(pending'[u]) \cap Touched(pending'[v])
               PROVE  r \in suspect'
    BY DEF OverlapSuspect
  <2>1. CASE u = w
    BY <2>1, <1>0 DEF Busy, TypeOK
  <2>2. CASE v = w
    BY <2>2, <1>0 DEF Busy, TypeOK
  <2>3. CASE u # w /\ v # w
    BY <2>3, <1>0 DEF OverlapSuspect, TypeOK
  <2> QED
    BY <2>1, <2>2, <2>3
<1>4. PendingApplies'
  <2> SUFFICES ASSUME NEW v \in Writers, pending'[v] # Nil,
                      NEW r \in Touched(pending'[v]) \ suspect'
               PROVE  primary'[r] = NewVal(pending'[v], mirror'[r])
    BY DEF PendingApplies
  <2>1. CASE v = w
    <3>1. r \in Touched(o) /\ r \in Rows /\ ~ Busy(r) /\ r \notin suspect
      BY <2>1, <1>0 DEF TypeOK
    <3>2. primary[r] = mirror[r]
      BY <3>1 DEF DriftExplained
    <3> QED
      BY <3>1, <3>2, <2>1, <1>0 DEF Apply, TypeOK
  <2>2. CASE v # w
    <3>1. pending'[v] = pending[v] /\ r \notin suspect
      BY <2>2, <1>0 DEF TypeOK
    <3>2. r \notin Touched(o)
      BY <3>1, <1>0 DEF Busy
    <3>3. primary'[r] = primary[r]
      <4>1. pending[v] \in AnyOp
        BY <3>1 DEF TypeOK
      <4>2. r \in Rows
        BY <3>1, <4>1 DEF Touched, AnyOp, Rows
      <4> QED
        BY <3>2, <4>2, <1>0 DEF Apply
    <3> QED
      BY <3>1, <3>3, <1>0 DEF PendingApplies
  <2> QED
    BY <2>1, <2>2
<1>5. DriftExplained'
  <2> SUFFICES ASSUME NEW r \in Rows, primary'[r] # mirror'[r]
               PROVE  r \in suspect' \/ Busy(r)'
    BY DEF DriftExplained
  <2>1. CASE r \in Touched(o)
    BY <2>1, <1>0 DEF Busy, TypeOK
  <2>2. CASE r \notin Touched(o)
    <3>1. primary'[r] = primary[r]
      BY <2>2, <1>0 DEF Apply
    <3>2. Busy(r) => Busy(r)'
      BY <1>0 DEF Busy, TypeOK
    <3> QED
      BY <3>1, <3>2, <1>0 DEF DriftExplained
  <2> QED
    BY <2>1, <2>2
<1> QED
  BY <1>1, <1>2, <1>3, <1>4, <1>5

\* EnsureAuthToken leaves the primary and the mirror alone, and what it has to
\* copy is the row itself.
LEMMA EnsureKeeps ==
    ASSUME HybridInv, NEW w \in Writers, EnsureAuthToken(w)
    PROVE  HybridInv'
<1> USE DEF HybridInv
<1> PICK t \in Tokens :
      /\ primary[t] # Absent
      /\ pending' = [pending EXCEPT ![w] = Op("upsert", t, primary[t])]
      /\ suspect' = IF Busy(t) THEN suspect \cup {t} ELSE suspect
  BY DEF EnsureAuthToken
<1> DEFINE o == Op("upsert", t, primary[t])
<1>0. /\ o \in AnyOp /\ o # Nil /\ Touched(o) = {t} /\ t \in Rows
      /\ \A x : NewVal(o, x) = primary[t]
  <2>1. t \in Rows /\ primary[t] \in Nat
    BY DEF TypeOK, Rows, Contents
  <2> QED
    BY <2>1, HybridAssumption DEF Op, AnyOp, Kinds, Touched, NewVal
<1>1. /\ pending[w] = Nil /\ pending' = [pending EXCEPT ![w] = o] /\ phase = "up"
      /\ UNCHANGED <<primary, issued, mirror, phase, fresh, nOps, nCrashes>>
  BY DEF EnsureAuthToken
<1> HIDE DEF o
<1>2. TypeOK'
  BY <1>0, <1>1 DEF TypeOK
<1>3. NothingPendingDown'
  BY <1>1 DEF NothingPendingDown
<1>4. OverlapSuspect'
  <2> SUFFICES ASSUME NEW u \in Writers, NEW v \in Writers, u # v,
                      pending'[u] # Nil, pending'[v] # Nil,
                      NEW r \in Touched(pending'[u]) \cap Touched(pending'[v])
               PROVE  r \in suspect'
    BY DEF OverlapSuspect
  <2>1. CASE u = w
    BY <2>1, <1>0, <1>1 DEF Busy, TypeOK
  <2>2. CASE v = w
    BY <2>2, <1>0, <1>1 DEF Busy, TypeOK
  <2>3. CASE u # w /\ v # w
    BY <2>3, <1>1 DEF OverlapSuspect, TypeOK
  <2> QED
    BY <2>1, <2>2, <2>3
<1>5. PendingApplies'
  <2> SUFFICES ASSUME NEW v \in Writers, pending'[v] # Nil,
                      NEW r \in Touched(pending'[v]) \ suspect'
               PROVE  primary'[r] = NewVal(pending'[v], mirror'[r])
    BY DEF PendingApplies
  <2>1. CASE v = w
    BY <2>1, <1>0, <1>1 DEF TypeOK
  <2>2. CASE v # w
    BY <2>2, <1>1 DEF PendingApplies, TypeOK
  <2> QED
    BY <2>1, <2>2
<1>6. DriftExplained'
  <2>1. \A r : Busy(r) => Busy(r)'
    BY <1>1 DEF Busy, TypeOK
  <2> QED
    BY <2>1, <1>1 DEF DriftExplained
<1> QED
  BY <1>2, <1>3, <1>4, <1>5, <1>6

\* The mirror write, done or refused.
LEMMA SyncKeeps ==
    ASSUME HybridInv, NEW w \in Writers, SyncToSQLite(w)
    PROVE  HybridInv'
<1> USE DEF HybridInv
<1> DEFINE o == pending[w]
<1>0. /\ o \in AnyOp /\ o # Nil /\ Touched(o) \subseteq Rows /\ phase = "up"
      /\ pending' = [pending EXCEPT ![w] = Nil]
      /\ UNCHANGED <<primary, issued, phase, fresh, nOps, nCrashes>>
  <2>1. o \in AnyOp /\ o # Nil
    BY DEF SyncToSQLite, TypeOK
  <2> QED
    BY <2>1 DEF SyncToSQLite, Touched, AnyOp, Rows
<1>1. \/ mirror' = Apply(o, mirror) /\ suspect' = suspect
      \/ mirror' = mirror /\ suspect' = suspect \cup Touched(o)
  BY DEF SyncToSQLite
<1>2. TypeOK'
  <2>1. mirror' \in [Rows -> Contents]
    BY <1>0, <1>1, ApplyTyped DEF TypeOK
  <2> QED
    BY <2>1, <1>0, <1>1 DEF TypeOK
<1>3. NothingPendingDown'
  BY <1>0 DEF NothingPendingDown
<1>4. OverlapSuspect'
  <2>1. suspect \subseteq suspect'
    BY <1>1
  <2>2. \A v \in Writers : pending'[v] # Nil => v # w /\ pending'[v] = pending[v]
    BY <1>0 DEF TypeOK
  <2> QED
    BY <2>1, <2>2 DEF OverlapSuspect
<1>5. PendingApplies'
  <2> SUFFICES ASSUME NEW v \in Writers, pending'[v] # Nil,
                      NEW r \in Touched(pending'[v]) \ suspect'
               PROVE  primary'[r] = NewVal(pending'[v], mirror'[r])
    BY DEF PendingApplies
  <2>1. v # w /\ pending'[v] = pending[v] /\ r \notin suspect /\ pending[v] \in AnyOp
    BY <1>0, <1>1 DEF TypeOK
  <2>2. r \in Rows
    BY <2>1 DEF Touched, AnyOp, Rows
  <2>3. r \notin Touched(o)
    BY <2>1, <1>0 DEF OverlapSuspect
  <2>4. mirror'[r] = mirror[r]
    BY <2>2, <2>3, <1>1 DEF Apply
  <2> QED
    BY <2>1, <2>4, <1>0 DEF PendingApplies
<1>6. DriftExplained'
  <2> SUFFICES ASSUME NEW r \in Rows, primary'[r] # mirror'[r], r \notin suspect'
               PROVE  Busy(r)'
    BY DEF DriftExplained
  <2>1. CASE r \in Touched(o)
    <3>1. mirror'[r] = NewVal(o, mirror[r]) /\ r \notin suspect
      BY <2>1, <1>1 DEF Apply
    <3> QED
      BY <3>1, <2>1, <1>0 DEF PendingApplies
  <2>2. CASE r \notin Touched(o)
    <3>1. mirror'[r] = mirror[r] /\ r \notin suspect
      BY <2>2, <1>1 DEF Apply
    <3>2. Busy(r)
      BY <3>1, <1>0 DEF DriftExplained
    <3> QED
      BY <3>2, <2>2, <1>0 DEF Busy, TypeOK
  <2> QED
    BY <2>1, <2>2
<1> QED
  BY <1>2, <1>3, <1>4, <1>5, <1>6

\* The steps of no writer: a projection, a crash and the restart.
LEMMA ProcessKeeps ==
    ASSUME HybridInv, SiteProjection \/ Crash \/ OpenSQLite \/ RestoreOnStartup \/ RestoreFails
    PROVE  HybridInv'
<1> USE DEF HybridInv
<1>1. CASE SiteProjection
  <2> PICK o \in ChannelOps : S!Do(o) /\ suspect' = suspect \cup Touched(o)
    BY <1>1 DEF SiteProjection
  <2>0. /\ o \in Ops /\ o \in AnyOp /\ o.row \in Rows /\ Touched(o) \subseteq Rows
        /\ primary' = Apply(o, primary)
        /\ UNCHANGED <<mirror, pending, phase, nCrashes>>
    BY <1>1, OpsTyped, SameOps DEF SiteProjection, S!Do, Ops
  <2>1. TypeOK'
    <3>1. primary' \in [Rows -> Contents] /\ issued' \subseteq Rows
      BY <2>0, ApplyTyped DEF TypeOK, S!Do
    <3>2. fresh' \in BOOLEAN
      BY <1>1, Zenon DEF SiteProjection
    <3>3. nOps' \in Nat
      BY <1>1 DEF SiteProjection, TypeOK
    <3> QED
      BY <3>1, <3>2, <3>3, <2>0 DEF TypeOK
  <2>2. NothingPendingDown' /\ OverlapSuspect'
    BY <2>0 DEF NothingPendingDown, OverlapSuspect
  <2>3. \A r \in Rows \ suspect' : primary'[r] = primary[r] /\ r \notin suspect
    BY <2>0 DEF Apply
  <2>4. PendingApplies'
    <3>1. \A w \in Writers : pending[w] # Nil => Touched(pending[w]) \subseteq Rows
      BY DEF TypeOK, Touched, AnyOp, Rows
    <3> QED
      BY <3>1, <2>0, <2>3 DEF PendingApplies
  <2>5. DriftExplained'
    BY <2>0, <2>3 DEF DriftExplained, Busy
  <2> QED
    BY <2>1, <2>2, <2>4, <2>5
<1>2. CASE Crash
  <2>0. /\ pending' = [w \in Writers |-> Nil] /\ phase' = "down"
        /\ suspect' = suspect \cup {r \in Rows : Busy(r)}
        /\ UNCHANGED <<primary, issued, mirror, fresh, nOps>>
    BY <1>2 DEF Crash
  <2>1. TypeOK'
    <3>1. nCrashes' \in Nat
      BY <1>2 DEF Crash, TypeOK
    <3> QED
      BY <3>1, <2>0 DEF TypeOK
  <2> QED
    BY <2>0, <2>1 DEF NothingPendingDown, OverlapSuspect, PendingApplies, DriftExplained
<1>3. CASE OpenSQLite
  <2>0. /\ \A w \in Writers : pending[w] = Nil
        /\ phase' = "channels" /\ UNCHANGED <<primary, issued, pending, fresh, nOps, nCrashes>>
        /\ \/ UNCHANGED <<mirror, suspect>>
           \/ /\ mirror' = [r \in Rows |-> Absent]
              /\ suspect' = suspect \cup {r \in Rows : mirror[r] # Absent \/ primary[r] # Absent}
    BY <1>3 DEF OpenSQLite, NothingPendingDown
  <2>1. TypeOK'
    BY <2>0 DEF TypeOK, Contents
  <2>2. DriftExplained'
    BY <2>0 DEF DriftExplained, Busy
  <2> QED
    BY <2>0, <2>1, <2>2 DEF NothingPendingDown, OverlapSuspect, PendingApplies
<1>4. CASE RestoreOnStartup
  <2> PICK table \in {Channels, Tokens} : RestoreTable(table)
    BY <1>4 DEF RestoreOnStartup
  <2>0. /\ \A w \in Writers : pending[w] = Nil
        /\ phase' \in {"tokens", "up"} /\ UNCHANGED <<primary, issued, pending, nOps, nCrashes>>
        /\ \/ UNCHANGED <<mirror, suspect>>
           \/ /\ mirror' = [r \in Rows |-> IF r \in table THEN primary[r] ELSE mirror[r]]
              /\ suspect' = suspect \ table
    BY <1>4 DEF RestoreOnStartup, RestoreTable, NothingPendingDown
  <2>1. TypeOK'
    <3>1. fresh' \in BOOLEAN
      BY <1>4, Zenon DEF RestoreOnStartup, TypeOK
    <3> QED
      BY <2>0, <3>1 DEF TypeOK
  <2>2. DriftExplained'
    BY <2>0 DEF DriftExplained, Busy
  <2> QED
    BY <2>0, <2>1, <2>2 DEF NothingPendingDown, OverlapSuspect, PendingApplies
<1>5. CASE RestoreFails
  <2>1. TypeOK'
    BY <1>5 DEF RestoreFails, TypeOK
  <2> QED
    BY <1>5, <2>1 DEF RestoreFails, NothingPendingDown, OverlapSuspect, PendingApplies,
                      DriftExplained, Busy
<1> QED
  BY <1>1, <1>2, <1>3, <1>4, <1>5

\* The invariant holds at the first start and every step keeps it.
LEMMA HybridInductive == Spec => []HybridInv
<1>1. Init => HybridInv
  BY SameOps DEF Init, S!Init, HybridInv, TypeOK, Contents, NothingPendingDown, OverlapSuspect,
     PendingApplies, DriftExplained
<1>2. HybridInv /\ [Next]_vars => HybridInv'
  <2> SUFFICES ASSUME HybridInv, [Next]_vars PROVE HybridInv'
    OBVIOUS
  <2>1. ASSUME NEW w \in Writers, NEW o \in Ops, PrimaryWrite(w, o) PROVE HybridInv'
    BY <2>1, PrimaryKeeps
  <2>2. ASSUME NEW w \in Writers, EnsureAuthToken(w) PROVE HybridInv'
    BY <2>2, EnsureKeeps
  <2>3. ASSUME NEW w \in Writers, SyncToSQLite(w) PROVE HybridInv'
    BY <2>3, SyncKeeps
  <2>4. ASSUME NEW w \in Writers, ChannelWrite(w) \/ TokenWrite(w) \/ UrlWrite(w) PROVE HybridInv'
    BY <2>4, <2>1 DEF ChannelWrite, TokenWrite, UrlWrite, Ops
  <2>5. ASSUME NEW w \in Writers, DeleteSite(w) PROVE HybridInv'
    <3>1. \A c \in Channels : Op("delete", c, 0) \in Ops
      BY DEF Ops, ChannelOps
    <3> QED
      BY <2>5, <3>1, <2>1 DEF DeleteSite
  <2>6. CASE UNCHANGED vars
    BY <2>6 DEF vars, HybridInv, TypeOK, NothingPendingDown, OverlapSuspect, PendingApplies,
                DriftExplained, Busy
  <2> QED
    BY <2>2, <2>3, <2>4, <2>5, <2>6, ProcessKeeps DEF Next
<1> QED
  BY <1>1, <1>2, PTL DEF Spec

\* DriftExplained for every instance: with no write under way, the mirror's row
\* differs from the primary's only after a failed mirror write, overlapping
\* writes of that row, a projection, a crash or a lost file.
THEOREM DriftIsExplained == Spec => []DriftExplained
<1>1. HybridInv => DriftExplained
  BY DEF HybridInv
<1> QED
  BY <1>1, HybridInductive, PTL
-------------------------------------------------------------------------------
\* What RestartHeals needs beside HybridInv: a restored table stays equal while
\* the next one is restored, and all that may happen before the first write are
\* copies EnsureAuthToken makes of rows as they are.
HealInv ==
    /\ phase = "tokens" => Healed(Channels)
    /\ RestartHeals
    /\ fresh /\ phase = "up" => \A w \in Writers : pending[w] # Nil =>
         \E t \in Tokens : primary[t] # Absent /\ pending[w] = Op("upsert", t, primary[t])

\* RestoreTable makes a table equal or finds it empty, and keeps another one.
LEMMA RestoreHeals ==
    ASSUME TypeOK, NEW table \in {Channels, Tokens}, RestoreTable(table), UNCHANGED primary
    PROVE  /\ Healed(table)'
           /\ \A other \in {Channels, Tokens} : other # table /\ Healed(other) => Healed(other)'
BY StoreAssumption DEF RestoreTable, Healed, Rows

\* RestartHeals for every instance: after a start that ends well, and until the
\* first write, no restored table differs unless the primary has no row of it.
THEOREM RestartsHeal == Spec => []RestartHeals
<1>1. Init => HealInv
  BY SameOps DEF Init, S!Init, HealInv, RestartHeals, Healed, Rows
<1>2. HybridInv /\ HealInv /\ [Next]_vars => HealInv'
  <2> SUFFICES ASSUME HybridInv, HealInv, [Next]_vars PROVE HealInv'
    OBVIOUS
  <2> USE DEF HealInv, RestartHeals
  <2>1. ASSUME NEW w \in Writers,
               ChannelWrite(w) \/ TokenWrite(w) \/ UrlWrite(w) \/ DeleteSite(w)
        PROVE  HealInv'
    <3>1. fresh' = FALSE /\ phase' = "up"
      BY <2>1, Zenon DEF ChannelWrite, TokenWrite, UrlWrite, DeleteSite, PrimaryWrite
    <3> QED
      BY <3>1
  <2>2. ASSUME NEW w \in Writers, EnsureAuthToken(w) PROVE HealInv'
    BY <2>2 DEF EnsureAuthToken, Healed, HybridInv, TypeOK
  <2>3. ASSUME NEW w \in Writers, SyncToSQLite(w) PROVE HealInv'
    <3>1. /\ phase = "up" /\ phase' = "up" /\ fresh' = fresh /\ primary' = primary
          /\ \A v \in Writers : pending'[v] # Nil => pending'[v] = pending[v]
          /\ mirror' = mirror \/ mirror' = Apply(pending[w], mirror)
      BY <2>3 DEF SyncToSQLite, HybridInv, TypeOK
    <3>2. CASE ~fresh
      BY <3>1, <3>2
    <3>3. CASE fresh
      <4>1. PICK t \in Tokens : primary[t] # Absent /\ pending[w] = Op("upsert", t, primary[t])
        BY <2>3, <3>1, <3>3 DEF SyncToSQLite
      <4>2. \A r \in Rows : mirror'[r] = mirror[r] \/ (r = t /\ mirror'[r] = primary[r])
        BY <3>1, <4>1 DEF Apply, Touched, NewVal, Op
      <4>3. Healed(Channels)' /\ Healed(Tokens)'
        BY <4>1, <4>2, <3>1, <3>3, StoreAssumption DEF Healed, Rows
      <4> QED
        BY <4>3, <3>1
    <3> QED
      BY <3>2, <3>3
  <2>4. CASE SiteProjection
    <3>1. fresh' = FALSE /\ phase' = "up"
      BY <2>4, Zenon DEF SiteProjection
    <3> QED
      BY <3>1
  <2>5. CASE Crash \/ OpenSQLite \/ RestoreFails
    <3>1. phase' \in {"down", "channels"}
      BY <2>5 DEF Crash, OpenSQLite, RestoreFails
    <3> QED
      BY <3>1
  <2>6. CASE RestoreOnStartup
    <3>0. TypeOK /\ primary' = primary /\ pending' = pending /\ \A w \in Writers : pending[w] = Nil
      BY <2>6 DEF RestoreOnStartup, HybridInv, NothingPendingDown
    <3>1. CASE phase = "channels"
      <4>1. phase' = "tokens" /\ RestoreTable(Channels)
        BY <2>6, <3>1 DEF RestoreOnStartup
      <4> QED
        BY <4>1, <3>0, RestoreHeals
    <3>2. CASE phase = "tokens"
      <4>1. phase' = "up" /\ RestoreTable(Tokens)
        BY <2>6, <3>2 DEF RestoreOnStartup
      <4>2. Healed(Tokens)' /\ Healed(Channels)'
        BY <4>1, <3>0, <3>2, RestoreHeals
      <4> QED
        BY <4>1, <4>2, <3>0
    <3> QED
      BY <2>6, <3>1, <3>2 DEF RestoreOnStartup
  <2>7. CASE UNCHANGED vars
    BY <2>7 DEF vars, Healed
  <2> QED
    BY <2>1, <2>2, <2>3, <2>4, <2>5, <2>6, <2>7 DEF Next
<1>3. HealInv => RestartHeals
  BY DEF HealInv
<1> QED
  BY <1>1, <1>2, <1>3, HybridInductive, PTL DEF Spec

\* The refinement for every instance: whatever the mirror, the crashes and the
\* restores do, the primary behaves as the atomic store.
THEOREM ImplementsStore == Spec => RefinesStore
<1>1. Init => S!Init
  BY DEF Init
<1>2. [Next]_vars => [S!Next]_(S!vars)
  <2> SUFFICES ASSUME [Next]_vars PROVE (\E o \in Ops : S!Do(o)) \/ UNCHANGED <<primary, issued>>
    BY SameOps DEF S!Next, S!vars
  <2>1. ASSUME NEW w \in Writers, ChannelWrite(w) \/ TokenWrite(w) \/ UrlWrite(w) \/ DeleteSite(w)
        PROVE  \E o \in Ops : S!Do(o)
    BY <2>1 DEF ChannelWrite, TokenWrite, UrlWrite, DeleteSite, PrimaryWrite, Ops, ChannelOps
  <2>2. CASE SiteProjection
    BY <2>2 DEF SiteProjection, Ops
  <2>3. ASSUME NEW w \in Writers, EnsureAuthToken(w) \/ SyncToSQLite(w)
        PROVE  UNCHANGED <<primary, issued>>
    BY <2>3 DEF EnsureAuthToken, SyncToSQLite
  <2>4. CASE Crash \/ OpenSQLite \/ RestoreOnStartup \/ RestoreFails \/ UNCHANGED vars
    BY <2>4 DEF Crash, OpenSQLite, RestoreOnStartup, RestoreFails, vars
  <2> QED
    BY <2>1, <2>2, <2>3, <2>4 DEF Next
<1> QED
  BY <1>1, <1>2, PTL DEF Spec, RefinesStore, S!Spec

-------------------------------------------------------------------------------
(* SiteTasks.                                                              *)

(* The two workers of an instance. *)
Sched(i) == <<i, "sched">>

LEMMA WorkerIs ==
    ASSUME NEW w \in Workers
    PROVE  /\ w[1] \in Instances /\ w # None /\ w # Gone
           /\ Scheduled(w) => w = Sched(w[1])
BY SiteAssumption DEF Workers, Scheduled, Sched

LEMMA SchedIs ==
    ASSUME NEW i \in Instances
    PROVE  Sched(i) \in Workers /\ Scheduled(Sched(i)) /\ Sched(i)[1] = i
BY DEF Workers, Scheduled, Sched

LEMMA ManualIs ==
    ASSUME NEW i \in Manual
    PROVE  /\ <<i, "manual">> \in Workers /\ ~Scheduled(<<i, "manual">>)
BY DEF Workers, Scheduled

LEMMA IdleIsKind == Idle \in TaskKinds
BY SiteAssumption DEF Idle

-------------------------------------------------------------------------------
(* Types. *)

LEMMA TypeInit == SiteInit => SiteTypeOK
<1> SUFFICES ASSUME SiteInit PROVE SiteTypeOK
  OBVIOUS
<1>1. /\ up \in [Instances -> {"up", "stopping"}]
      /\ gate \in [Instances -> Workers \cup {None}]
      /\ lease \in [TaskKinds -> [owner : Workers \cup {None, Gone}, term : {"free", "short", "long"}]]
  BY DEF SiteInit, Free
<1>2. /\ pc \in [Workers -> {"idle", "gate", "lease"} \cup Running]
      /\ kind \in [Workers -> TaskKinds]
      /\ live \in [Workers -> BOOLEAN]
      /\ row \in [Workers -> {"open", "closed"}]
      /\ unwritten \in [Workers -> BOOLEAN]
      /\ seen \in [Workers -> Nat]
      /\ verdict \in [Workers -> {"none", "success", "already", "browser", "failed"}]
  BY IdleIsKind DEF SiteInit
<1>3. daily \in [status : {"none", "running", "success", "already", "browser", "failed"}, no : Nat, age : 0..2]
  BY DEF SiteInit
<1>4. /\ checked \in BOOLEAN /\ shortened \in BOOLEAN
  BY Zenon DEF SiteInit
<1>5. rounds \in Nat /\ announced \in 0..2 /\ tasks \in 0..MaxTasks /\ faults \in 0..MaxFaults
  BY SiteAssumption DEF SiteInit
<1> QED
  BY <1>1, <1>2, <1>3, <1>4, <1>5 DEF SiteTypeOK

LEMMA TypeReturn ==
    ASSUME SiteTypeOK, NEW w \in Workers, Return(w)
    PROVE  /\ pc' \in [Workers -> {"idle", "gate", "lease"} \cup Running]
           /\ kind' \in [Workers -> TaskKinds]
           /\ live' \in [Workers -> BOOLEAN]
           /\ seen' \in [Workers -> Nat]
           /\ UNCHANGED <<up, verdict, daily, upstream>>
BY IdleIsKind DEF SiteTypeOK, Return

LEMMA TypeRow ==
    ASSUME SiteTypeOK, NEW w \in Workers, NEW lost \in BOOLEAN, closeTask(w, lost)
    PROVE  /\ row' \in [Workers -> {"open", "closed"}]
           /\ unwritten' \in [Workers -> BOOLEAN]
BY DEF SiteTypeOK, closeTask

LEMMA TypeGate ==
    ASSUME SiteTypeOK, NEW w \in Workers, FreeGate(w)
    PROVE  gate' \in [Instances -> Workers \cup {None}]
BY DEF SiteTypeOK, FreeGate

LEMMA TypeLeases ==
    ASSUME SiteTypeOK, NEW w \in Workers
    PROVE  /\ Released(w) \in [TaskKinds -> [owner : Workers \cup {None, Gone}, term : {"free", "short", "long"}]]
           /\ Left(w) \in [TaskKinds -> [owner : Workers \cup {None, Gone}, term : {"free", "short", "long"}]]
BY DEF SiteTypeOK, Released, Left, Free

LEMMA FaultCounted ==
    ASSUME SiteTypeOK, Fault
    PROVE  faults' \in 0..MaxFaults
BY SiteAssumption DEF SiteTypeOK, Fault

LEMMA FaultsCounted ==
    ASSUME SiteTypeOK, NEW a \in BOOLEAN, NEW b \in BOOLEAN, Faults(a, b)
    PROVE  faults' \in 0..MaxFaults
BY SiteAssumption DEF SiteTypeOK, Faults

\* The step of one worker's task.
LEMMA TypeStep ==
    ASSUME SiteTypeOK, NEW w \in Workers, Step(w)
    PROVE  SiteTypeOK'
<1>1. CASE GiveUp(w)
  BY <1>1, TypeReturn, TypeRow, FaultsCounted DEF GiveUp, SiteTypeOK, upstream
<1>2. CASE acquireSiteGate(w)
  BY <1>2, WorkerIs DEF acquireSiteGate, SiteTypeOK, bounds, upstream, Running
<1>3. CASE AcquireSiteTaskLease(w)
  BY <1>3 DEF AcquireSiteTaskLease, SiteTypeOK, bounds, upstream, Running
<1>4. CASE persistTaskFails(w)
  BY <1>4, TypeReturn, TypeGate, FaultCounted DEF persistTaskFails, SiteTypeOK, upstream
<1>5. CASE LeaseRefused(w)
  BY <1>5, TypeReturn, TypeGate, TypeRow, FaultsCounted DEF LeaseRefused, SiteTypeOK, upstream
<1>6. CASE Begin(w)
  BY <1>6 DEF Begin, To, SiteTypeOK, bounds, upstream, Running
<1>7. CASE PrepareRead(w)
  BY <1>7 DEF PrepareRead, To, SiteTypeOK, bounds, upstream, Running
<1>8. CASE PrepareWrite(w)
  BY <1>8 DEF PrepareWrite, To, SiteTypeOK, bounds, upstream, Running
<1>9. CASE Checkin(w)
  <2>1. verdict' \in [Workers -> {"none", "success", "already", "browser", "failed"}]
    BY <1>9 DEF Checkin, SiteTypeOK
  <2>2. checked' \in BOOLEAN
    BY <1>9, Zenon DEF Checkin, SiteTypeOK
  <2>3. rounds' \in Nat
    BY <1>9 DEF Checkin, SiteTypeOK
  <2>4. pc' \in [Workers -> {"idle", "gate", "lease"} \cup Running]
    BY <1>9 DEF Checkin, To, SiteTypeOK, Running
  <2>5. UNCHANGED <<up, gate, lease, kind, live, row, unwritten, seen, daily, announced, shortened, bounds>>
    BY <1>9 DEF Checkin, To
  <2> QED
    BY <2>1, <2>2, <2>3, <2>4, <2>5 DEF SiteTypeOK, bounds
<1>10. CASE Refresh(w)
  BY <1>10 DEF Refresh, To, SiteTypeOK, bounds, Running
<1>11. CASE Record(w)
  BY <1>11, FaultCounted DEF Record, SiteTypeOK, upstream, Running
<1>12. CASE Finish(w)
  <2>1. Return(w) /\ FreeGate(w) /\ tasks' = tasks
    BY <1>12 DEF Finish
  <2>2. lease' \in [TaskKinds -> [owner : Workers \cup {None, Gone}, term : {"free", "short", "long"}]]
    BY <1>12, TypeLeases, Zenon DEF Finish, LeaseAfter
  <2>3. /\ faults' \in 0..MaxFaults
        /\ row' \in [Workers -> {"open", "closed"}] /\ unwritten' \in [Workers -> BOOLEAN]
    BY <1>12, FaultsCounted, TypeRow, Zenon DEF Finish
  <2> QED
    BY <2>1, <2>2, <2>3, TypeReturn, TypeGate DEF SiteTypeOK, upstream
<1> QED
  BY <1>1, <1>2, <1>3, <1>4, <1>5, <1>6, <1>7, <1>8, <1>9, <1>10, <1>11, <1>12 DEF Step

LEMMA TypeNext == SiteTypeOK /\ [SiteNext]_siteVars => SiteTypeOK'
<1> SUFFICES ASSUME SiteTypeOK, [SiteNext]_siteVars PROVE SiteTypeOK'
  OBVIOUS
<1>1. ASSUME NEW i \in Instances, RunSchedule(i) PROVE SiteTypeOK'
  BY <1>1, SchedIs, SiteAssumption DEF RunSchedule, Start, SiteTypeOK, upstream, Sched
<1>2. ASSUME NEW i \in Manual, Enqueue(i) PROVE SiteTypeOK'
  BY <1>2, ManualIs, SiteAssumption DEF Enqueue, Start, SiteTypeOK, upstream
<1>3. ASSUME NEW i \in Instances, Shutdown(i) PROVE SiteTypeOK'
  BY <1>3, FaultCounted DEF Shutdown, SiteTypeOK, upstream
<1>4. ASSUME NEW i \in Instances, Restart(i) PROVE SiteTypeOK'
  BY <1>4 DEF Restart, SiteTypeOK, upstream, worker, bounds
<1>5. ASSUME NEW i \in Instances, InstanceCrash(i) PROVE SiteTypeOK'
  <2>1. up' \in [Instances -> {"up", "stopping"}] /\ gate' \in [Instances -> Workers \cup {None}]
    BY <1>5 DEF InstanceCrash, SiteTypeOK
  <2>2. lease' \in [TaskKinds -> [owner : Workers \cup {None, Gone}, term : {"free", "short", "long"}]]
    BY <1>5 DEF InstanceCrash, SiteTypeOK
  <2>3. /\ pc' \in [Workers -> {"idle", "gate", "lease"} \cup Running]
        /\ live' \in [Workers -> BOOLEAN]
        /\ row' \in [Workers -> {"open", "closed"}]
    BY <1>5 DEF InstanceCrash, SiteTypeOK
  <2>4. /\ kind' \in [Workers -> TaskKinds]
        /\ seen' \in [Workers -> Nat]
        /\ verdict' \in [Workers -> {"none", "success", "already", "browser", "failed"}]
    BY <1>5, IdleIsKind DEF InstanceCrash, SiteTypeOK
  <2>5. faults' \in 0..MaxFaults /\ UNCHANGED <<unwritten, daily, checked, rounds, announced, shortened, tasks>>
    BY <1>5, FaultCounted DEF InstanceCrash, upstream
  <2> QED
    BY <2>1, <2>2, <2>3, <2>4, <2>5 DEF SiteTypeOK
<1>6. ASSUME NEW w \in Workers, Step(w) PROVE SiteTypeOK'
  BY <1>6, TypeStep
<1>7. ASSUME NEW w \in Workers, RenewSiteTaskLease(w) PROVE SiteTypeOK'
  BY <1>7 DEF RenewSiteTaskLease, SiteTypeOK, worker, bounds
<1>8. ASSUME NEW w \in Workers, RenewFails(w) PROVE SiteTypeOK'
  BY <1>8, FaultCounted DEF RenewFails, SiteTypeOK, upstream
<1>9. ASSUME NEW w \in Workers, handleSiteTaskCancel(w) PROVE SiteTypeOK'
  BY <1>9 DEF handleSiteTaskCancel, SiteTypeOK, upstream, bounds
<1>10. ASSUME NEW k \in TaskKinds, Expire(k) PROVE SiteTypeOK'
  BY <1>10 DEF Expire, Free, SiteTypeOK, upstream, bounds, worker
<1>11. CASE Wait
  BY <1>11 DEF Wait, SiteTypeOK, upstream, bounds, worker
<1>12. CASE UNCHANGED siteVars
  BY <1>12 DEF siteVars, SiteTypeOK
<1> QED
  BY <1>1, <1>2, <1>3, <1>4, <1>5, <1>6, <1>7, <1>8, <1>9, <1>10, <1>11, <1>12 DEF SiteNext

\* Every variable keeps its type, for every value of the constants.
THEOREM SiteTypeInvariant == SiteSpec => []SiteTypeOK
BY TypeInit, TypeNext, PTL DEF SiteSpec

-------------------------------------------------------------------------------
(* The leases.  LeaseExclusive says nothing of the lease row; it holds     *)
(* because a task that renews still owns the row of its kind, which needs  *)
(* to know that nobody else's release or expiry can have taken it away.    *)

\* A free row has no owner.
FreeUnowned == \A k \in TaskKinds : lease[k].term = "free" => lease[k].owner = None

\* The owner of a row is at work on a task of that kind, one that takes leases.
OwnersWork ==
    \A k \in TaskKinds, w \in Workers :
        lease[k].owner = w => kind[w] = k /\ pc[w] \in Running /\ ~Unleased(w)

\* Who would renew owns the row.
RenewersOwn == \A w \in Workers : Renewing(w) => lease[kind[w]].owner = w

\* Who asks for a lease is to have one.
AskersLeased == \A w \in Workers : pc[w] = "lease" => ~Unleased(w)

LeaseInv == FreeUnowned /\ OwnersWork /\ RenewersOwn /\ AskersLeased

LEMMA LeaseInit == SiteInit => LeaseInv
BY WorkerIs DEF SiteInit, LeaseInv, FreeUnowned, OwnersWork, RenewersOwn, AskersLeased, Free, Renewing

\* What does not touch the rows, and changes tasks only by ending contexts.
LEMMA LeaseCancels ==
    ASSUME LeaseInv, lease' = lease, pc' = pc, kind' = kind,
           \A w \in Workers : live'[w] => live[w]
    PROVE  LeaseInv'
BY DEF LeaseInv, FreeUnowned, OwnersWork, RenewersOwn, AskersLeased, Renewing, Unleased

\* A worker that moves and keeps what it has.
LEMMA LeaseMoves ==
    ASSUME SiteTypeOK, LeaseInv, NEW w \in Workers, NEW p,
           lease' = lease, kind' = kind, live' = live, pc' = [pc EXCEPT ![w] = p],
           \/ pc[w] \in Running /\ p \in Running
           \/ pc[w] \notin Running /\ p \notin Running /\ ~Unleased(w)
           \/ pc[w] \notin Running /\ p # "lease" /\ Unleased(w)
    PROVE  LeaseInv'
<1>1. FreeUnowned'
  BY DEF LeaseInv, FreeUnowned
<1>2. OwnersWork'
  BY DEF LeaseInv, OwnersWork, SiteTypeOK, Unleased
<1>3. RenewersOwn'
  BY DEF LeaseInv, RenewersOwn, SiteTypeOK, Renewing, Unleased
<1>4. AskersLeased'
  BY DEF LeaseInv, AskersLeased, SiteTypeOK, Unleased, Running
<1> QED
  BY <1>1, <1>2, <1>3, <1>4 DEF LeaseInv

\* A worker that returns, and that owns no row any more.
LEMMA LeaseReturns ==
    ASSUME SiteTypeOK, LeaseInv, NEW w \in Workers, Return(w),
           \A k \in TaskKinds : /\ lease[k].owner # w => lease'[k] = lease[k]
                                /\ lease'[k].owner # w
                                /\ lease'[k].term = "free" => lease'[k].owner = None
                                /\ lease[k].owner = w => lease'[k].owner \in {None, Gone}
    PROVE  LeaseInv'
<1>0. /\ pc' = [pc EXCEPT ![w] = "idle"] /\ live' = [live EXCEPT ![w] = FALSE]
      /\ kind' = [kind EXCEPT ![w] = Idle]
  BY DEF Return
<1>1. FreeUnowned'
  BY DEF FreeUnowned
<1>2. OwnersWork'
  <2> SUFFICES ASSUME NEW k \in TaskKinds, NEW v \in Workers, lease'[k].owner = v
               PROVE  kind'[v] = k /\ pc'[v] \in Running /\ ~Unleased(v)'
    BY DEF OwnersWork
  <2>1. v # w /\ lease[k].owner = v
    BY WorkerIs
  <2> QED
    BY <2>1, <1>0 DEF LeaseInv, OwnersWork, SiteTypeOK, Unleased
<1>3. RenewersOwn'
  <2> SUFFICES ASSUME NEW v \in Workers, Renewing(v)' PROVE lease'[kind'[v]].owner = v
    BY DEF RenewersOwn
  <2>1. v # w /\ kind'[v] = kind[v] /\ Renewing(v)
    BY <1>0 DEF Renewing, Unleased, SiteTypeOK, Running
  <2>2. lease[kind[v]].owner = v /\ kind[v] \in TaskKinds
    BY <2>1 DEF LeaseInv, RenewersOwn, SiteTypeOK
  <2> QED
    BY <2>1, <2>2
<1>4. AskersLeased'
  BY <1>0 DEF LeaseInv, AskersLeased, SiteTypeOK, Unleased
<1> QED
  BY <1>1, <1>2, <1>3, <1>4 DEF LeaseInv

LEMMA LeaseStep ==
    ASSUME SiteTypeOK, LeaseInv, NEW w \in Workers, Step(w)
    PROVE  LeaseInv'
<1>0. pc[w] \notin Running => \A k \in TaskKinds : lease[k].owner # w
  BY DEF LeaseInv, OwnersWork
<1>1. CASE GiveUp(w)
  BY <1>1, <1>0, LeaseReturns DEF GiveUp, Running, LeaseInv, FreeUnowned
<1>2. CASE acquireSiteGate(w)
  BY <1>2, LeaseMoves DEF acquireSiteGate, Running
<1>3. CASE AcquireSiteTaskLease(w)
  <2>0. /\ pc[w] = "lease" /\ pc' = [pc EXCEPT ![w] = "begin"] /\ kind' = kind /\ live' = live
        /\ lease[kind[w]].term = "free" /\ kind[w] \in TaskKinds
        /\ lease' = [lease EXCEPT ![kind[w]] =
                       [owner |-> w, term |-> IF kind[w] = "announcements" THEN "long" ELSE "short"]]
    BY <1>3 DEF AcquireSiteTaskLease, SiteTypeOK
  <2>u. ~Unleased(w)
    BY <2>0 DEF LeaseInv, AskersLeased
  <2>1. FreeUnowned'
    BY <2>0 DEF LeaseInv, FreeUnowned, SiteTypeOK
  <2>2. OwnersWork'
    <3> SUFFICES ASSUME NEW k \in TaskKinds, NEW v \in Workers, lease'[k].owner = v
                 PROVE  kind'[v] = k /\ pc'[v] \in Running /\ ~Unleased(v)'
      BY DEF OwnersWork
    <3>1. CASE k = kind[w]
      BY <3>1, <2>0, <2>u DEF SiteTypeOK, Running, Unleased
    <3>2. CASE k # kind[w]
      BY <3>2, <2>0, <1>0 DEF LeaseInv, OwnersWork, SiteTypeOK, Running, Unleased
    <3> QED
      BY <3>1, <3>2
  <2>3. RenewersOwn'
    BY <2>0, WorkerIs DEF LeaseInv, FreeUnowned, RenewersOwn, SiteTypeOK, Running, Renewing, Unleased
  <2>4. AskersLeased'
    BY <2>0 DEF LeaseInv, AskersLeased, SiteTypeOK, Unleased
  <2> QED
    BY <2>1, <2>2, <2>3, <2>4 DEF LeaseInv
<1>4. CASE persistTaskFails(w)
  BY <1>4, <1>0, LeaseReturns DEF persistTaskFails, Running, LeaseInv, FreeUnowned
<1>5. CASE LeaseRefused(w)
  BY <1>5, <1>0, LeaseReturns DEF LeaseRefused, Running, LeaseInv, FreeUnowned
<1>6. CASE Begin(w)
  BY <1>6, LeaseMoves DEF Begin, To, Running
<1>7. CASE PrepareRead(w)
  BY <1>7, LeaseMoves DEF PrepareRead, To, Running
<1>8. CASE PrepareWrite(w)
  BY <1>8, LeaseMoves DEF PrepareWrite, To, Running
<1>9. CASE Checkin(w)
  BY <1>9, LeaseMoves DEF Checkin, To, Running
<1>10. CASE Refresh(w)
  BY <1>10, LeaseMoves DEF Refresh, To, Running
<1>11. CASE Record(w)
  BY <1>11, LeaseMoves DEF Record, Running
<1>12. CASE Finish(w)
  <2>1. CASE lease' = Released(w)
    BY <2>1, <1>12, LeaseReturns, WorkerIs DEF Finish, Released, Free, LeaseInv, FreeUnowned
  <2>2. CASE lease' = Left(w)
    BY <2>2, <1>12, LeaseReturns, WorkerIs DEF Finish, Left, LeaseInv, FreeUnowned, SiteTypeOK
  <2> QED
    BY <1>12, <2>1, <2>2 DEF Finish, LeaseAfter
<1> QED
  BY <1>1, <1>2, <1>3, <1>4, <1>5, <1>6, <1>7, <1>8, <1>9, <1>10, <1>11, <1>12 DEF Step

LEMMA LeaseNext == SiteTypeOK /\ LeaseInv /\ [SiteNext]_siteVars => LeaseInv'
<1> SUFFICES ASSUME SiteTypeOK, LeaseInv, [SiteNext]_siteVars PROVE LeaseInv'
  OBVIOUS
<1>1. ASSUME NEW w \in Workers, NEW k \in TaskKinds, NEW s, Start(w, k, s) PROVE LeaseInv'
  <2>0. /\ pc[w] = "idle" /\ pc' = [pc EXCEPT ![w] = "gate"] /\ kind' = [kind EXCEPT ![w] = k]
        /\ live' = [live EXCEPT ![w] = TRUE] /\ lease' = lease
    BY <1>1 DEF Start
  <2>1. FreeUnowned'
    BY <2>0 DEF LeaseInv, FreeUnowned
  <2>2. OwnersWork'
    BY <2>0 DEF LeaseInv, OwnersWork, SiteTypeOK, Running, Unleased
  <2>3. RenewersOwn'
    BY <2>0 DEF LeaseInv, RenewersOwn, SiteTypeOK, Running, Renewing, Unleased
  <2>4. AskersLeased'
    BY <2>0 DEF LeaseInv, AskersLeased, SiteTypeOK, Unleased
  <2> QED
    BY <2>1, <2>2, <2>3, <2>4 DEF LeaseInv
<1>2. ASSUME NEW i \in Instances, RunSchedule(i) \/ Shutdown(i) \/ Restart(i) PROVE LeaseInv'
  <2>1. CASE RunSchedule(i)
    BY <2>1, <1>1, SchedIs DEF RunSchedule, Sched
  <2>2. CASE Shutdown(i)
    BY <2>2, LeaseCancels DEF Shutdown
  <2>3. CASE Restart(i)
    BY <2>3, LeaseCancels DEF Restart, worker
  <2> QED
    BY <1>2, <2>1, <2>2, <2>3
<1>3. ASSUME NEW i \in Manual, Enqueue(i) PROVE LeaseInv'
  BY <1>3, <1>1, ManualIs DEF Enqueue
<1>4. ASSUME NEW i \in Instances, InstanceCrash(i) PROVE LeaseInv'
  <2>0. /\ pc' = [w \in Workers |-> IF w \in Mine(i) THEN "idle" ELSE pc[w]]
        /\ live' = [w \in Workers |-> live[w] /\ w \notin Mine(i)]
        /\ kind' = [w \in Workers |-> IF w \in Mine(i) THEN Idle ELSE kind[w]]
        /\ lease' = [k \in TaskKinds |-> IF lease[k].owner \in Mine(i)
                                   THEN [lease[k] EXCEPT !.owner = Gone] ELSE lease[k]]
    BY <1>4 DEF InstanceCrash
  <2>m. Mine(i) \subseteq Workers
    BY DEF Mine
  <2>1. FreeUnowned'
    <3> SUFFICES ASSUME NEW k \in TaskKinds, lease'[k].term = "free" PROVE lease'[k].owner = None
      BY DEF FreeUnowned
    <3>1. lease[k].term = "free" /\ lease[k].owner = None
      BY <2>0 DEF LeaseInv, FreeUnowned, SiteTypeOK
    <3> QED
      BY <3>1, <2>0, <2>m, WorkerIs
  <2>2. OwnersWork'
    <3> SUFFICES ASSUME NEW k \in TaskKinds, NEW v \in Workers, lease'[k].owner = v
                 PROVE  kind'[v] = k /\ pc'[v] \in Running /\ ~Unleased(v)'
      BY DEF OwnersWork
    <3>1. lease[k].owner = v /\ v \notin Mine(i)
      BY <2>0, WorkerIs DEF SiteTypeOK
    <3> QED
      BY <3>1, <2>0 DEF LeaseInv, OwnersWork, Unleased
  <2>3. RenewersOwn'
    <3> SUFFICES ASSUME NEW v \in Workers, Renewing(v)' PROVE lease'[kind'[v]].owner = v
      BY DEF RenewersOwn
    <3>1. v \notin Mine(i) /\ kind'[v] = kind[v] /\ Renewing(v)
      BY <2>0 DEF Renewing, Unleased, Running
    <3>2. lease[kind[v]].owner = v /\ kind[v] \in TaskKinds
      BY <3>1 DEF LeaseInv, RenewersOwn, SiteTypeOK
    <3> QED
      BY <3>1, <3>2, <2>0
  <2>4. AskersLeased'
    BY <2>0 DEF LeaseInv, AskersLeased, Unleased
  <2> QED
    BY <2>1, <2>2, <2>3, <2>4 DEF LeaseInv
<1>5. ASSUME NEW w \in Workers, RenewSiteTaskLease(w) PROVE LeaseInv'
  <2>0. /\ lease[kind[w]].owner = w /\ lease[kind[w]].term = "long"
        /\ lease' = [lease EXCEPT ![kind[w]].term = "short"]
        /\ pc' = pc /\ kind' = kind /\ live' = live /\ kind[w] \in TaskKinds
    BY <1>5 DEF RenewSiteTaskLease, worker, SiteTypeOK
  <2>1. \A k \in TaskKinds : /\ lease'[k].owner = lease[k].owner
                             /\ lease'[k].term = "free" => lease[k].term = "free"
    BY <2>0 DEF SiteTypeOK
  <2> QED
    BY <2>0, <2>1
       DEF LeaseInv, FreeUnowned, OwnersWork, RenewersOwn, AskersLeased, Renewing, Unleased, SiteTypeOK
<1>6. ASSUME NEW w \in Workers, RenewFails(w) \/ handleSiteTaskCancel(w) PROVE LeaseInv'
  <2>1. CASE RenewFails(w)
    BY <2>1, LeaseCancels DEF RenewFails, SiteTypeOK
  <2>2. CASE handleSiteTaskCancel(w)
    BY <2>2, LeaseCancels DEF handleSiteTaskCancel, SiteTypeOK
  <2> QED
    BY <1>6, <2>1, <2>2
<1>7. ASSUME NEW k \in TaskKinds, Expire(k) PROVE LeaseInv'
  <2>0. /\ lease' = [lease EXCEPT ![k] = Free] /\ pc' = pc /\ kind' = kind /\ live' = live
        /\ lease[k].owner = Gone \/ ~Renewing(lease[k].owner)
    BY <1>7 DEF Expire, worker
  <2>1. FreeUnowned'
    BY <2>0 DEF LeaseInv, FreeUnowned, SiteTypeOK, Free
  <2>2. OwnersWork'
    BY <2>0, WorkerIs DEF LeaseInv, OwnersWork, SiteTypeOK, Free, Unleased
  <2>3. RenewersOwn'
    BY <2>0, WorkerIs DEF LeaseInv, RenewersOwn, SiteTypeOK, Renewing, Unleased
  <2>4. AskersLeased'
    BY <2>0 DEF LeaseInv, AskersLeased, Unleased
  <2> QED
    BY <2>1, <2>2, <2>3, <2>4 DEF LeaseInv
<1>8. CASE Wait \/ UNCHANGED siteVars
  BY <1>8, LeaseCancels DEF Wait, worker, siteVars
<1>9. ASSUME NEW w \in Workers, Step(w) PROVE LeaseInv'
  BY <1>9, LeaseStep
<1> QED
  BY <1>2, <1>3, <1>4, <1>5, <1>6, <1>7, <1>8, <1>9 DEF SiteNext

LEMMA LeaseInductive == SiteSpec => [](SiteTypeOK /\ LeaseInv)
BY LeaseInit, LeaseNext, TypeInit, TypeNext, PTL DEF SiteSpec

\* However many instances share the database, and whatever crashes, shuts down
\* or fails to renew, two tasks that may still write are never of one kind.
THEOREM SiteLeaseExclusive == SiteSpec => []LeaseExclusive
<1>1. LeaseInv => LeaseExclusive
  BY DEF LeaseInv, RenewersOwn, LeaseExclusive
<1> QED
  BY <1>1, LeaseInductive, PTL

-------------------------------------------------------------------------------
(* The rows and the gate. *)

\* The scheduler records its task once it has the lease, not before.
UnrecordedBefore ==
    \A w \in Workers :
        Scheduled(w) /\ pc[w] \in {"gate", "lease"} => row[w] = "closed"

ReturnInv == TasksReturn /\ UnrecordedBefore

LEMMA ReturnNext == SiteTypeOK /\ ReturnInv /\ [SiteNext]_siteVars => ReturnInv'
<1> SUFFICES ASSUME SiteTypeOK, ReturnInv, [SiteNext]_siteVars PROVE ReturnInv'
  OBVIOUS
<1> USE DEF ReturnInv, TasksReturn
<1>1. ASSUME NEW w \in Workers, NEW k \in TaskKinds, NEW s, Scheduled(w) => s = "closed", Start(w, k, s)
      PROVE  ReturnInv'
  BY <1>1, WorkerIs DEF Start, RowsSettled, GateComesBack, UnrecordedBefore, SiteTypeOK
<1>2. ASSUME NEW w \in Workers, Return(w), row'[w] = "closed" \/ unwritten'[w],
             \A v \in Workers : v # w => row'[v] = row[v] /\ unwritten'[v] = unwritten[v],
             \/ FreeGate(w)
             \/ gate' = gate /\ pc[w] = "gate"
      PROVE  ReturnInv'
  <2>1. RowsSettled' /\ UnrecordedBefore'
    BY <1>2 DEF Return, RowsSettled, UnrecordedBefore, SiteTypeOK
  <2>2. GateComesBack'
    BY <1>2, WorkerIs DEF Return, FreeGate, GateComesBack, SiteTypeOK
  <2> QED
    BY <2>1, <2>2
<1>3. ASSUME NEW w \in Workers, NEW p \in Running, pc[w] \notin {"idle", "gate"},
             pc' = [pc EXCEPT ![w] = p], gate' = gate,
             row' = row, unwritten' = unwritten
      PROVE  ReturnInv'
  BY <1>3, WorkerIs DEF RowsSettled, GateComesBack, UnrecordedBefore, Running, SiteTypeOK
<1>4. ASSUME NEW w \in Workers, Step(w) PROVE ReturnInv'
  <2>1. CASE GiveUp(w)
    BY <2>1, <1>2 DEF GiveUp, closeTask, SiteTypeOK
  <2>2. CASE acquireSiteGate(w)
    <3>1. RowsSettled' /\ UnrecordedBefore'
      BY <2>2 DEF acquireSiteGate, RowsSettled, UnrecordedBefore, SiteTypeOK, Unleased
    <3>2. GateComesBack'
      BY <2>2, WorkerIs DEF acquireSiteGate, GateComesBack, SiteTypeOK
    <3> QED
      BY <3>1, <3>2
  <2>3. CASE AcquireSiteTaskLease(w)
    <3>1. RowsSettled' /\ UnrecordedBefore'
      BY <2>3 DEF AcquireSiteTaskLease, RowsSettled, UnrecordedBefore, SiteTypeOK
    <3>2. GateComesBack'
      BY <2>3, WorkerIs DEF AcquireSiteTaskLease, GateComesBack, SiteTypeOK
    <3> QED
      BY <3>1, <3>2
  <2>4. CASE persistTaskFails(w)
    BY <2>4, <1>2 DEF persistTaskFails, UnrecordedBefore
  <2>5. CASE LeaseRefused(w)
    BY <2>5, <1>2 DEF LeaseRefused, closeTask, SiteTypeOK
  <2>6. CASE Begin(w)
    BY <2>6, <1>3 DEF Begin, To, Running
  <2>7. CASE PrepareRead(w)
    BY <2>7, <1>3 DEF PrepareRead, To, Running
  <2>8. CASE PrepareWrite(w)
    BY <2>8, <1>3 DEF PrepareWrite, To, Running
  <2>9. CASE Checkin(w)
    BY <2>9, <1>3 DEF Checkin, To, Running
  <2>10. CASE Refresh(w)
    BY <2>10, <1>3 DEF Refresh, To, Running
  <2>11. CASE Record(w)
    BY <2>11, <1>3 DEF Record, Running
  <2>12. CASE Finish(w)
    BY <2>12, <1>2 DEF Finish, closeTask, SiteTypeOK
  <2> QED
    BY <1>4, <2>1, <2>2, <2>3, <2>4, <2>5, <2>6, <2>7, <2>8, <2>9, <2>10, <2>11, <2>12 DEF Step
<1>5. ASSUME NEW i \in Instances, InstanceCrash(i) PROVE ReturnInv'
  <2>1. RowsSettled' /\ UnrecordedBefore'
    BY <1>5 DEF InstanceCrash, RowsSettled, UnrecordedBefore, SiteTypeOK
  <2>2. GateComesBack'
    BY <1>5, WorkerIs DEF InstanceCrash, GateComesBack, SiteTypeOK, Mine
  <2> QED
    BY <2>1, <2>2
<1>6. ASSUME NEW i \in Instances, RunSchedule(i) PROVE ReturnInv'
  BY <1>6, <1>1, SchedIs DEF RunSchedule, Sched
<1>7. ASSUME NEW i \in Manual, Enqueue(i) PROVE ReturnInv'
  BY <1>7, <1>1, ManualIs DEF Enqueue
<1>8. ASSUME NEW w \in Workers, handleSiteTaskCancel(w) PROVE ReturnInv'
  BY <1>8, WorkerIs
     DEF handleSiteTaskCancel, RowsSettled, GateComesBack, UnrecordedBefore, SiteTypeOK
<1>9. ASSUME UNCHANGED <<gate, pc, row, unwritten>> PROVE ReturnInv'
  BY <1>9, WorkerIs DEF RowsSettled, GateComesBack, UnrecordedBefore
<1> QED
  BY <1>4, <1>5, <1>6, <1>7, <1>8, <1>9
     DEF SiteNext, Shutdown, Restart, RenewSiteTaskLease, RenewFails, Expire, Wait, worker, siteVars

\* Every task that returns, by whichever of its ways out, has given the site's gate
\* back and closed its row, unless the write of its final status was lost.
THEOREM SiteTasksReturn == SiteSpec => []TasksReturn
<1>1. SiteInit => ReturnInv
  BY WorkerIs DEF SiteInit, ReturnInv, TasksReturn, RowsSettled, GateComesBack, UnrecordedBefore
<1>2. ReturnInv => TasksReturn
  BY DEF ReturnInv
<1> QED
  BY <1>1, <1>2, ReturnNext, SiteTypeInvariant, PTL DEF SiteSpec

-------------------------------------------------------------------------------
(* The work of the day.  RoundsBounded compares what was sent with what the *)
(* row counted; it is kept because of what a task between its read and its *)
(* call knows of the row, which nobody else can change while it renews.    *)

Decided == {i \in Instances : kind[Sched(i)] = "checkin"
                                /\ pc[Sched(i)] \in {"gate", "lease", "begin", "read", "write"}}

Calling == {i \in Instances : kind[Sched(i)] = "checkin" /\ pc[Sched(i)] = "call"}

\* Where a task may be tells what it is.
Placed ==
    \A w \in Workers :
        /\ pc[w] \in {"read", "write", "record"} => Scheduled(w) /\ kind[w] = "checkin"
        /\ pc[w] = "record" => verdict[w] # "none"

\* What a live check-in of the scheduler has read is still so.
ReadIsFresh ==
    \A w \in Workers : live[w] /\ Scheduled(w) /\ kind[w] = "checkin" =>
        /\ pc[w] = "write" => daily.no = seen[w]
        /\ pc[w] \in {"call", "record"} => daily.no = seen[w] + 1

NoneCounted == daily.status = "none" => daily.no = 0

RoundsInv ==
    /\ Placed /\ ReadIsFresh /\ NoneCounted
    /\ rounds + Cardinality(Calling) <= daily.no
    /\ daily.no + Cardinality(Decided) <= RetryLimit + Cardinality(Instances) - 1

LEMMA SetsFinite ==
    /\ IsFiniteSet(Instances) /\ IsFiniteSet(Decided) /\ IsFiniteSet(Calling)
    /\ Cardinality(Instances) \in Nat /\ Cardinality(Decided) \in Nat /\ Cardinality(Calling) \in Nat
    /\ Cardinality(Decided) <= Cardinality(Instances)
BY SiteAssumption, FS_Subset, FS_CardinalityType DEF Decided, Calling

LEMMA SetsFinite2 ==
    /\ IsFiniteSet(Decided') /\ IsFiniteSet(Calling')
    /\ Cardinality(Decided') \in Nat /\ Cardinality(Calling') \in Nat
    /\ Cardinality(Decided') <= Cardinality(Instances)
BY SiteAssumption, FS_Subset, FS_CardinalityType DEF Decided, Calling

\* Two check-ins of the scheduler are not both live and past their lease.
LEMMA OneCheckin ==
    ASSUME LeaseInv, NEW v \in Workers, NEW w \in Workers, Scheduled(v), Scheduled(w),
           live[v], live[w], pc[v] \in Running, pc[w] \in Running, kind[v] = kind[w]
    PROVE  v = w
BY DEF LeaseInv, RenewersOwn, Renewing, Unleased

\* What leaves the counts alone or lowers them.
LEMMA CountsShrink ==
    ASSUME SiteTypeOK, RoundsInv, daily'.no = daily.no, rounds' = rounds,
           Calling' \subseteq Calling, Decided' \subseteq Decided
    PROVE  /\ rounds' + Cardinality(Calling') <= daily'.no
           /\ daily'.no + Cardinality(Decided') <= RetryLimit + Cardinality(Instances) - 1
<1>1. Cardinality(Calling') <= Cardinality(Calling) /\ Cardinality(Decided') <= Cardinality(Decided)
  BY SetsFinite, FS_Subset
<1>2. rounds \in Nat /\ daily.no \in Nat /\ RetryLimit \in Nat
  BY SiteAssumption DEF SiteTypeOK
<1> QED
  BY <1>1, <1>2, SetsFinite, SetsFinite2 DEF RoundsInv

LEMMA RoundsQuiet ==
    ASSUME SiteTypeOK, RoundsInv, daily'.no = daily.no, daily'.status = daily.status, rounds' = rounds,
           pc' = pc, kind' = kind, seen' = seen, verdict' = verdict, \A w \in Workers : live'[w] => live[w]
    PROVE  RoundsInv'
<1>1. Calling' = Calling /\ Decided' = Decided
  BY DEF Calling, Decided
<1>2. Placed' /\ ReadIsFresh' /\ NoneCounted'
  BY DEF RoundsInv, Placed, ReadIsFresh, NoneCounted
<1> QED
  BY <1>1, <1>2, CountsShrink DEF RoundsInv

\* A task that ends, or goes where no count knows it.
LEMMA RoundsReturn ==
    ASSUME SiteTypeOK, RoundsInv, NEW w \in Workers, Return(w)
    PROVE  RoundsInv'
<1>0. /\ pc' = [pc EXCEPT ![w] = "idle"] /\ kind' = [kind EXCEPT ![w] = Idle]
      /\ live' = [live EXCEPT ![w] = FALSE] /\ seen' = [seen EXCEPT ![w] = 0]
      /\ verdict' = verdict /\ daily' = daily /\ rounds' = rounds
  BY DEF Return, upstream
<1>1. Calling' \subseteq Calling /\ Decided' \subseteq Decided
  BY <1>0, SchedIs DEF Calling, Decided, SiteTypeOK
<1>2. Placed'
  BY <1>0 DEF RoundsInv, Placed, SiteTypeOK
<1>3. ReadIsFresh' /\ NoneCounted'
  BY <1>0 DEF RoundsInv, ReadIsFresh, NoneCounted, SiteTypeOK
<1> QED
  BY <1>0, <1>1, <1>2, <1>3, CountsShrink DEF RoundsInv

LEMMA RoundsMoves ==
    ASSUME SiteTypeOK, RoundsInv, NEW w \in Workers, NEW p,
           pc' = [pc EXCEPT ![w] = p], kind' = kind, live' = live, seen' = seen, verdict' = verdict,
           daily' = daily, rounds' = rounds,
           p \notin {"write", "record", "gate"},
           p = "call" => ~Scheduled(w) \/ kind[w] # "checkin",
           p \in {"lease", "begin", "read"} => pc[w] \in {"gate", "lease", "begin"},
           p = "read" => Scheduled(w) /\ kind[w] = "checkin"
    PROVE  RoundsInv'
<1>1. Calling' \subseteq Calling
  BY SchedIs DEF Calling, SiteTypeOK
<1>2. Decided' \subseteq Decided
  BY SchedIs DEF Decided, SiteTypeOK
<1>3. Placed'
  BY DEF RoundsInv, Placed, SiteTypeOK
<1>4. ReadIsFresh' /\ NoneCounted'
  BY DEF RoundsInv, ReadIsFresh, NoneCounted, SiteTypeOK
<1> QED
  BY <1>1, <1>2, <1>3, <1>4, CountsShrink DEF RoundsInv

\* The attempt is counted before the upstream is asked.
LEMMA RoundsPrepare ==
    ASSUME SiteTypeOK, LeaseInv, RoundsInv, NEW w \in Workers, PrepareWrite(w), live[w],
           seen[w] = 0 => daily.status = "none"
    PROVE  RoundsInv'
<1>0. /\ pc[w] = "write" /\ pc' = [pc EXCEPT ![w] = "call"]
      /\ daily' = [status |-> "running", no |-> seen[w] + 1, age |-> 0]
      /\ kind' = kind /\ live' = live /\ seen' = seen /\ verdict' = verdict /\ rounds' = rounds
  BY DEF PrepareWrite, To, upstream
<1>1. /\ Scheduled(w) /\ kind[w] = "checkin" /\ w = Sched(w[1]) /\ w[1] \in Instances
      /\ daily.no = seen[w]
  BY <1>0, WorkerIs DEF RoundsInv, Placed, ReadIsFresh
<1>2. rounds \in Nat /\ daily.no \in Nat /\ RetryLimit \in Nat /\ daily'.no = daily.no + 1
  BY <1>0, <1>1, SiteAssumption DEF SiteTypeOK
<1>3. Placed'
  BY <1>0, <1>1 DEF RoundsInv, Placed, SiteTypeOK
<1>4. ReadIsFresh'
  <2> SUFFICES ASSUME NEW v \in Workers, live[v], Scheduled(v), kind[v] = "checkin"
               PROVE  /\ pc'[v] = "write" => daily'.no = seen[v]
                      /\ pc'[v] \in {"call", "record"} => daily'.no = seen[v] + 1
    BY <1>0 DEF ReadIsFresh
  <2>1. CASE v = w
    BY <2>1, <1>0, <1>1, <1>2 DEF SiteTypeOK
  <2>2. CASE v # w
    <3>1. pc[v] \notin Running
      BY <2>2, <1>0, <1>1, OneCheckin DEF Running
    <3> QED
      BY <3>1, <2>2, <1>0 DEF SiteTypeOK, Running
  <2> QED
    BY <2>1, <2>2
<1>5. NoneCounted'
  BY <1>0 DEF NoneCounted
<1>6. Calling' = Calling \cup {w[1]} /\ w[1] \notin Calling
  BY <1>0, <1>1, SchedIs DEF Calling, SiteTypeOK
<1>7. Decided' = Decided \ {w[1]} /\ w[1] \in Decided
  BY <1>0, <1>1, SchedIs DEF Decided, SiteTypeOK
<1>8. Cardinality(Calling') = Cardinality(Calling) + 1
  BY <1>6, SetsFinite, FS_AddElement
<1>9. Cardinality(Decided') = Cardinality(Decided) - 1
  BY <1>7, SetsFinite, FS_RemoveElement
<1> QED
  BY <1>2, <1>3, <1>4, <1>5, <1>8, <1>9, <1>0, SetsFinite DEF RoundsInv

LEMMA RoundsCheckin ==
    ASSUME SiteTypeOK, RoundsInv, NEW w \in Workers, Checkin(w)
    PROVE  RoundsInv'
<1>0. /\ pc[w] = "call" /\ kind[w] = "checkin" /\ kind' = kind /\ live' = live
      /\ seen' = seen /\ daily' = daily
  BY DEF Checkin, To
<1>1. CASE ~Scheduled(w)
  <2>1. verdict' = verdict
    BY <1>1 DEF Checkin, SiteTypeOK
  <2>2. pc' = [pc EXCEPT ![w] = "finish"] /\ rounds' = rounds
    BY <1>1 DEF Checkin, To
  <2> QED
    BY <1>0, <2>1, <2>2, RoundsMoves
<1>2. CASE Scheduled(w)
  <2>0. pc' = [pc EXCEPT ![w] = "record"] /\ rounds' = rounds + 1 /\ w = Sched(w[1]) /\ w[1] \in Instances
    BY <1>2, WorkerIs DEF Checkin, To
  <2>1. verdict' \in [Workers -> {"none", "success", "already", "browser", "failed"}] /\ verdict'[w] # "none"
        /\ \A v \in Workers : v # w => verdict'[v] = verdict[v]
    BY <1>2 DEF Checkin, SiteTypeOK
  <2>2. Placed'
    BY <1>0, <1>2, <2>0, <2>1 DEF RoundsInv, Placed, SiteTypeOK
  <2>3. ReadIsFresh' /\ NoneCounted'
    BY <1>0, <2>0 DEF RoundsInv, ReadIsFresh, NoneCounted, SiteTypeOK
  <2>4. Calling' = Calling \ {w[1]} /\ w[1] \in Calling
    BY <1>0, <2>0, SchedIs DEF Calling, SiteTypeOK
  <2>5. Decided' = Decided
    BY <1>0, <2>0, SchedIs DEF Decided, SiteTypeOK
  <2>6. Cardinality(Calling') = Cardinality(Calling) - 1
    BY <2>4, SetsFinite, FS_RemoveElement
  <2>7. rounds \in Nat /\ daily.no \in Nat
    BY DEF SiteTypeOK
  <2> QED
    BY <1>0, <2>0, <2>2, <2>3, <2>5, <2>6, <2>7, SetsFinite DEF RoundsInv
<1> QED
  BY <1>1, <1>2

LEMMA RoundsRecord ==
    ASSUME SiteTypeOK, LeaseInv, RoundsInv, NEW w \in Workers, Record(w)
    PROVE  RoundsInv'
<1>0. /\ pc[w] = "record" /\ pc' = [pc EXCEPT ![w] = "finish"]
      /\ seen' = [seen EXCEPT ![w] = 0] /\ verdict' = [verdict EXCEPT ![w] = "none"]
      /\ kind' = kind /\ live' = live /\ rounds' = rounds
      /\ \/ live[w] /\ daily' = [status |-> verdict[w], no |-> seen[w] + 1, age |-> 0]
         \/ daily' = daily
  BY DEF Record, upstream
<1>1. daily'.no = daily.no
  BY <1>0 DEF RoundsInv, Placed, ReadIsFresh
<1>2. NoneCounted'
  BY <1>0 DEF RoundsInv, Placed, NoneCounted
<1>3. Placed'
  BY <1>0 DEF RoundsInv, Placed, SiteTypeOK
<1>4. ReadIsFresh'
  BY <1>0, <1>1 DEF RoundsInv, ReadIsFresh, SiteTypeOK
<1>5. Calling' \subseteq Calling /\ Decided' \subseteq Decided
  BY <1>0, SchedIs DEF Calling, Decided, SiteTypeOK
<1> QED
  BY <1>0, <1>1, <1>2, <1>3, <1>4, <1>5, CountsShrink DEF RoundsInv

LEMMA RoundsStep ==
    ASSUME SiteTypeOK, LeaseInv, RoundsInv, NEW w \in Workers, Step(w)
    PROVE  RoundsInv'
<1>1. CASE GiveUp(w) \/ persistTaskFails(w) \/ LeaseRefused(w) \/ Finish(w)
  BY <1>1, RoundsReturn DEF GiveUp, persistTaskFails, LeaseRefused, Finish
<1>2. CASE acquireSiteGate(w)
  <2>0. /\ pc[w] = "gate" /\ kind' = kind /\ live' = live /\ seen' = seen /\ verdict' = verdict
        /\ daily' = daily /\ rounds' = rounds
    BY <1>2 DEF acquireSiteGate, upstream
  <2>1. CASE Unleased(w)
    BY <2>0, <2>1, <1>2, RoundsMoves DEF acquireSiteGate, Unleased
  <2>2. CASE ~Unleased(w)
    BY <2>0, <2>2, <1>2, RoundsMoves DEF acquireSiteGate
  <2> QED
    BY <2>1, <2>2
<1>3. CASE AcquireSiteTaskLease(w)
  BY <1>3, RoundsMoves DEF AcquireSiteTaskLease, upstream
<1>4. CASE Begin(w)
  BY <1>4, RoundsMoves DEF Begin, To, upstream
<1>5. CASE PrepareRead(w)
  <2>0. /\ pc[w] = "read" /\ \E p \in {"write", "finish"} : pc' = [pc EXCEPT ![w] = p]
        /\ seen' = [seen EXCEPT ![w] = daily.no] /\ kind' = kind /\ live' = live
        /\ verdict' = verdict /\ daily' = daily /\ rounds' = rounds
    BY <1>5 DEF PrepareRead, To, upstream
  <2>1. Calling' \subseteq Calling /\ Decided' \subseteq Decided
    BY <2>0, SchedIs DEF Calling, Decided, SiteTypeOK
  <2>2. Placed'
    BY <2>0 DEF RoundsInv, Placed, SiteTypeOK
  <2>3. ReadIsFresh' /\ NoneCounted'
    BY <2>0 DEF RoundsInv, ReadIsFresh, NoneCounted, SiteTypeOK
  <2> QED
    BY <2>0, <2>1, <2>2, <2>3, CountsShrink DEF RoundsInv
<1>6. CASE PrepareWrite(w)
  <2>1. CASE live[w] /\ (seen[w] = 0 => daily.status = "none")
    BY <2>1, <1>6, RoundsPrepare
  <2>2. CASE ~(live[w] /\ (seen[w] = 0 => daily.status = "none"))
    BY <2>2, <1>6, RoundsMoves DEF PrepareWrite, To, upstream
  <2> QED
    BY <2>1, <2>2
<1>7. CASE Checkin(w)
  BY <1>7, RoundsCheckin
<1>8. CASE Refresh(w)
  BY <1>8, RoundsMoves DEF Refresh, To
<1>9. CASE Record(w)
  BY <1>9, RoundsRecord
<1> QED
  BY <1>1, <1>2, <1>3, <1>4, <1>5, <1>6, <1>7, <1>8, <1>9 DEF Step

LEMMA RoundsNext == SiteTypeOK /\ LeaseInv /\ RoundsInv /\ [SiteNext]_siteVars => RoundsInv'
<1> SUFFICES ASSUME SiteTypeOK, LeaseInv, RoundsInv, [SiteNext]_siteVars PROVE RoundsInv'
  OBVIOUS
<1>1. ASSUME NEW w \in Workers, NEW k \in TaskKinds, NEW s, Start(w, k, s),
             Scheduled(w) /\ k = "checkin" => checkinRetryDue(daily)
      PROVE  RoundsInv'
  <2>0. /\ pc[w] = "idle" /\ pc' = [pc EXCEPT ![w] = "gate"] /\ kind' = [kind EXCEPT ![w] = k]
        /\ live' = [live EXCEPT ![w] = TRUE] /\ seen' = seen /\ verdict' = verdict
        /\ daily' = daily /\ rounds' = rounds
    BY <1>1 DEF Start, upstream
  <2>1. Calling' \subseteq Calling
    BY <2>0, SchedIs DEF Calling, SiteTypeOK
  <2>2. Placed'
    BY <2>0 DEF RoundsInv, Placed, SiteTypeOK
  <2>3. ReadIsFresh' /\ NoneCounted'
    BY <2>0 DEF RoundsInv, ReadIsFresh, NoneCounted, SiteTypeOK
  <2>4. CASE Scheduled(w) /\ k = "checkin"
    <3>1. daily.no < RetryLimit
      BY <2>4, <1>1, SiteAssumption DEF checkinRetryDue, RoundsInv, NoneCounted, SiteTypeOK
    <3>2. daily.no + Cardinality(Decided') <= RetryLimit + Cardinality(Instances) - 1
      BY <3>1, SetsFinite, SetsFinite2, SiteAssumption DEF SiteTypeOK
    <3>3. Cardinality(Calling') <= Cardinality(Calling)
      BY <2>1, SetsFinite, FS_Subset
    <3>4. rounds + Cardinality(Calling') <= daily.no
      BY <3>3, SetsFinite, SetsFinite2 DEF RoundsInv, SiteTypeOK
    <3> QED
      BY <2>0, <2>2, <2>3, <3>2, <3>4 DEF RoundsInv
  <2>5. CASE ~(Scheduled(w) /\ k = "checkin")
    <3>1. Decided' \subseteq Decided
      BY <2>0, <2>5, SchedIs DEF Decided, SiteTypeOK
    <3> QED
      BY <2>0, <2>1, <2>2, <2>3, <3>1, CountsShrink DEF RoundsInv
  <2> QED
    BY <2>4, <2>5
<1>2. ASSUME NEW i \in Instances, RunSchedule(i) PROVE RoundsInv'
  BY <1>2, <1>1, SchedIs DEF RunSchedule, Sched
<1>3. ASSUME NEW i \in Manual, Enqueue(i) PROVE RoundsInv'
  BY <1>3, <1>1, ManualIs DEF Enqueue
<1>4. ASSUME NEW i \in Instances, InstanceCrash(i) PROVE RoundsInv'
  <2>0. /\ pc' = [w \in Workers |-> IF w \in Mine(i) THEN "idle" ELSE pc[w]]
        /\ live' = [w \in Workers |-> live[w] /\ w \notin Mine(i)]
        /\ kind' = [w \in Workers |-> IF w \in Mine(i) THEN Idle ELSE kind[w]]
        /\ seen' = [w \in Workers |-> IF w \in Mine(i) THEN 0 ELSE seen[w]]
        /\ verdict' = [w \in Workers |-> IF w \in Mine(i) THEN "none" ELSE verdict[w]]
        /\ daily' = daily /\ rounds' = rounds
    BY <1>4 DEF InstanceCrash, upstream
  <2>1. Calling' \subseteq Calling /\ Decided' \subseteq Decided
    BY <2>0, SchedIs DEF Calling, Decided
  <2>2. Placed'
    BY <2>0 DEF RoundsInv, Placed
  <2>3. ReadIsFresh' /\ NoneCounted'
    BY <2>0 DEF RoundsInv, ReadIsFresh, NoneCounted
  <2> QED
    BY <2>0, <2>1, <2>2, <2>3, CountsShrink DEF RoundsInv
<1>5. ASSUME NEW i \in Instances, Shutdown(i) PROVE RoundsInv'
  BY <1>5, RoundsQuiet DEF Shutdown, upstream
<1>6. ASSUME NEW w \in Workers, RenewFails(w) \/ handleSiteTaskCancel(w) PROVE RoundsInv'
  <2>1. CASE RenewFails(w)
    BY <2>1, RoundsQuiet DEF RenewFails, upstream, SiteTypeOK
  <2>2. CASE handleSiteTaskCancel(w)
    BY <2>2, RoundsQuiet DEF handleSiteTaskCancel, upstream, SiteTypeOK
  <2> QED
    BY <1>6, <2>1, <2>2
<1>7. CASE Wait
  <2>1. daily'.no = daily.no /\ daily'.status = daily.status
    BY <1>7 DEF Wait, SiteTypeOK
  <2> QED
    BY <2>1, <1>7, RoundsQuiet DEF Wait, worker, upstream
<1>8. ASSUME UNCHANGED <<daily, rounds, pc, kind, seen, verdict, live>> PROVE RoundsInv'
  BY <1>8, RoundsQuiet
<1>9. ASSUME NEW w \in Workers, Step(w) PROVE RoundsInv'
  BY <1>9, RoundsStep
<1> QED
  BY <1>2, <1>3, <1>4, <1>5, <1>6, <1>7, <1>8, <1>9
     DEF SiteNext, Restart, RenewSiteTaskLease, Expire, worker, upstream, siteVars

LEMMA RoundsInit == SiteInit => RoundsInv
<1> SUFFICES ASSUME SiteInit PROVE RoundsInv
  OBVIOUS
<1>1. Calling = {} /\ Decided = {}
  BY SchedIs DEF SiteInit, Calling, Decided
<1>2. Cardinality(Calling) = 0 /\ Cardinality(Decided) = 0
  BY <1>1, FS_EmptySet
<1>3. Placed /\ ReadIsFresh /\ NoneCounted
  BY DEF SiteInit, Placed, ReadIsFresh, NoneCounted
<1>4. rounds = 0 /\ daily.no = 0
  BY DEF SiteInit
<1> QED
  BY <1>2, <1>3, <1>4, SiteAssumption, SetsFinite DEF RoundsInv

LEMMA RoundsInductive == SiteSpec => []RoundsInv
BY LeaseInductive, RoundsInit, RoundsNext, PTL DEF SiteSpec

\* The row of the day counts every check-in that was sent, over crashes and lost
\* results, and passes the retry limit by at most one per further instance.
THEOREM SiteRoundsBounded == SiteSpec => []RoundsBounded
<1>1. SiteTypeOK /\ RoundsInv => RoundsBounded
  <2> SUFFICES ASSUME SiteTypeOK, RoundsInv PROVE RoundsBounded
    OBVIOUS
  <2>1. rounds \in Nat /\ daily.no \in Nat /\ RetryLimit \in Nat
    BY SiteAssumption DEF SiteTypeOK
  <2> QED
    BY <2>1, SetsFinite DEF RoundsInv, RoundsBounded
<1> QED
  BY <1>1, RoundsInductive, SiteTypeInvariant, PTL

-------------------------------------------------------------------------------
(* The announcements. *)

\* A task that may yet refresh the announcements for the scheduler.
Refreshes(w) ==
    /\ live[w] /\ Scheduled(w) /\ kind[w] = "announcements"
    /\ pc[w] \in {"begin", "call"}

\* Unless a renewal shortened it the announcements' lease outlasts the day, so a
\* refresh that was done leaves a row that lets nobody else begin.
AnnounceInv ==
    \/ shortened
    \/ /\ announced = 0
       /\ "announcements" \in TaskKinds => lease["announcements"].term # "short"
    \/ /\ announced = 1 /\ "announcements" \in TaskKinds
       /\ lease["announcements"].term = "long"
       /\ \A w \in Workers : ~Refreshes(w)

LEMMA AnnounceStays ==
    ASSUME SiteTypeOK, AnnounceInv, announced' = announced, shortened' = shortened,
           "announcements" \in TaskKinds =>
               \/ lease'["announcements"].term = lease["announcements"].term
               \/ /\ lease["announcements"].term # "long"
                  /\ lease'["announcements"].term # "short",
           lease["announcements"].term = "long" => \A w \in Workers : Refreshes(w)' => Refreshes(w)
    PROVE  AnnounceInv'
BY DEF AnnounceInv

LEMMA AnnounceStep ==
    ASSUME SiteTypeOK, LeaseInv, RoundsInv, AnnounceInv, NEW w \in Workers, Step(w)
    PROVE  AnnounceInv'
<1> DEFINE A == "announcements"
<1>1. ASSUME Return(w), lease' = lease PROVE AnnounceInv'
  <2>1. \A v \in Workers : Refreshes(v)' => Refreshes(v)
    BY <1>1 DEF Return, Refreshes, SiteTypeOK
  <2> QED
    BY <2>1, <1>1, AnnounceStays DEF Return, upstream
<1>2. CASE GiveUp(w) \/ persistTaskFails(w) \/ LeaseRefused(w)
  BY <1>2, <1>1 DEF GiveUp, persistTaskFails, LeaseRefused
<1>3. ASSUME lease' = lease, kind' = kind, live' = live, announced' = announced, shortened' = shortened,
             NEW p, pc' = [pc EXCEPT ![w] = p],
             p \in {"begin", "call"} => Refreshes(w) \/ ~Scheduled(w) \/ kind[w] # A
      PROVE  AnnounceInv'
  <2>1. \A v \in Workers : Refreshes(v)' => Refreshes(v)
    BY <1>3 DEF Refreshes, SiteTypeOK
  <2> QED
    BY <2>1, <1>3, AnnounceStays
<1>4. CASE acquireSiteGate(w)
  BY <1>4, <1>3 DEF acquireSiteGate, upstream, Unleased
<1>5. CASE AcquireSiteTaskLease(w)
  <2>0. /\ lease[kind[w]].term = "free" /\ kind[w] \in TaskKinds
        /\ lease' = [lease EXCEPT ![kind[w]] =
                       [owner |-> w, term |-> IF kind[w] = A THEN "long" ELSE "short"]]
        /\ pc' = [pc EXCEPT ![w] = "begin"] /\ kind' = kind /\ live' = live
        /\ announced' = announced /\ shortened' = shortened
    BY <1>5 DEF AcquireSiteTaskLease, upstream, SiteTypeOK
  <2>1. CASE kind[w] = A
    BY <2>0, <2>1 DEF AnnounceInv, SiteTypeOK
  <2>2. CASE kind[w] # A
    <3>1. A \in TaskKinds => lease'[A] = lease[A]
      BY <2>0, <2>2 DEF SiteTypeOK
    <3>2. \A v \in Workers : Refreshes(v)' => Refreshes(v)
      BY <2>0, <2>2 DEF Refreshes, SiteTypeOK
    <3> QED
      BY <2>0, <3>1, <3>2, AnnounceStays
  <2> QED
    BY <2>1, <2>2
<1>6. CASE Begin(w)
  BY <1>6, <1>3 DEF Begin, To, upstream, Refreshes
<1>7. CASE PrepareRead(w)
  BY <1>7, <1>3 DEF PrepareRead, To, upstream
<1>8. CASE PrepareWrite(w)
  BY <1>8, <1>3 DEF PrepareWrite, To, upstream, RoundsInv, Placed
<1>9. CASE Checkin(w)
  BY <1>9, <1>3 DEF Checkin, To
<1>10. CASE Refresh(w)
  <2>0. /\ pc[w] = "call" /\ pc' = [pc EXCEPT ![w] = "finish"] /\ lease' = lease /\ kind' = kind
        /\ live' = live /\ shortened' = shortened
    BY <1>10 DEF Refresh, To
  <2>1. CASE announced' = announced
    BY <2>0, <2>1, <1>3
  <2>2. CASE /\ live[w] /\ Scheduled(w) /\ kind[w] = A /\ announced' = announced + 1
    <3>1. lease[A].owner = w /\ A \in TaskKinds
      BY <2>0, <2>2 DEF LeaseInv, RenewersOwn, Renewing, Unleased, Running, SiteTypeOK
    <3>2. lease[A].term # "free"
      BY <3>1, WorkerIs DEF LeaseInv, FreeUnowned
    <3>3. \A v \in Workers : Refreshes(v) => v = w
      BY <3>1 DEF LeaseInv, RenewersOwn, Renewing, Unleased, Running, Refreshes
    <3>4. \A v \in Workers : ~Refreshes(v)'
      BY <3>3, <2>0 DEF Refreshes, SiteTypeOK
    <3>5. Refreshes(w)
      BY <2>0, <2>2 DEF Refreshes
    <3>6. lease[A].term \in {"free", "short", "long"}
      BY <3>1 DEF SiteTypeOK
    <3> QED
      BY <2>0, <2>2, <3>1, <3>2, <3>4, <3>5, <3>6 DEF AnnounceInv
  <2> QED
    BY <1>10, <2>1, <2>2 DEF Refresh
<1>11. CASE Record(w)
  BY <1>11, <1>3 DEF Record, upstream
<1>12. CASE Finish(w)
  <2>0. Return(w)
    BY <1>12 DEF Finish
  <2>1. \A v \in Workers : Refreshes(v)' => Refreshes(v)
    BY <2>0 DEF Return, Refreshes, SiteTypeOK
  <2>2. A \in TaskKinds => lease'[A].term = lease[A].term
    <3>1. CASE lease' = Left(w)
      BY <3>1 DEF Left, SiteTypeOK
    <3>2. CASE lease' = Released(w) /\ kind[w] # A
      BY <3>2 DEF Released, LeaseInv, OwnersWork
    <3> QED
      BY <1>12, <3>1, <3>2 DEF Finish, LeaseAfter
  <2> QED
    BY <2>0, <2>1, <2>2, AnnounceStays DEF Return, upstream
<1> QED
  BY <1>2, <1>4, <1>5, <1>6, <1>7, <1>8, <1>9, <1>10, <1>11, <1>12 DEF Step

LEMMA AnnounceNext ==
    SiteTypeOK /\ LeaseInv /\ RoundsInv /\ AnnounceInv /\ [SiteNext]_siteVars => AnnounceInv'
<1> SUFFICES ASSUME SiteTypeOK, LeaseInv, RoundsInv, AnnounceInv, [SiteNext]_siteVars PROVE AnnounceInv'
  OBVIOUS
<1> DEFINE A == "announcements"
<1>1. ASSUME NEW w \in Workers, NEW k \in TaskKinds, NEW s, Start(w, k, s) PROVE AnnounceInv'
  <2>1. \A v \in Workers : Refreshes(v)' => Refreshes(v)
    BY <1>1 DEF Start, Refreshes, SiteTypeOK
  <2> QED
    BY <2>1, <1>1, AnnounceStays DEF Start, upstream
<1>2. ASSUME NEW i \in Instances, RunSchedule(i) PROVE AnnounceInv'
  BY <1>2, <1>1, SchedIs DEF RunSchedule, Sched
<1>3. ASSUME NEW i \in Manual, Enqueue(i) PROVE AnnounceInv'
  BY <1>3, <1>1, ManualIs DEF Enqueue
<1>4. ASSUME NEW i \in Instances, InstanceCrash(i) PROVE AnnounceInv'
  <2>1. \A v \in Workers : Refreshes(v)' => Refreshes(v)
    BY <1>4 DEF InstanceCrash, Refreshes
  <2>2. A \in TaskKinds => lease'[A].term = lease[A].term
    BY <1>4 DEF InstanceCrash, SiteTypeOK
  <2> QED
    BY <2>1, <2>2, <1>4, AnnounceStays DEF InstanceCrash, upstream
<1>5. ASSUME lease' = lease, announced' = announced, shortened' = shortened, pc' = pc, kind' = kind,
             \A w \in Workers : live'[w] => live[w]
      PROVE  AnnounceInv'
  <2>1. \A v \in Workers : Refreshes(v)' => Refreshes(v)
    BY <1>5 DEF Refreshes
  <2> QED
    BY <2>1, <1>5, AnnounceStays
<1>6. ASSUME NEW i \in Instances, Shutdown(i) PROVE AnnounceInv'
  BY <1>6, <1>5 DEF Shutdown, upstream
<1>7. ASSUME NEW w \in Workers, RenewFails(w) \/ handleSiteTaskCancel(w) PROVE AnnounceInv'
  <2>1. CASE RenewFails(w)
    BY <2>1, <1>5 DEF RenewFails, upstream, SiteTypeOK
  <2>2. CASE handleSiteTaskCancel(w)
    BY <2>2, <1>5 DEF handleSiteTaskCancel, upstream, SiteTypeOK
  <2> QED
    BY <1>7, <2>1, <2>2
<1>8. ASSUME NEW w \in Workers, RenewSiteTaskLease(w) PROVE AnnounceInv'
  BY <1>8 DEF RenewSiteTaskLease, AnnounceInv
<1>9. ASSUME NEW k \in TaskKinds, Expire(k) PROVE AnnounceInv'
  <2>1. \A v \in Workers : Refreshes(v)' => Refreshes(v)
    BY <1>9 DEF Expire, worker, Refreshes
  <2>2. A \in TaskKinds =>
          \/ lease'[A].term = lease[A].term
          \/ lease[A].term # "long" /\ lease'[A].term # "short"
    BY <1>9 DEF Expire, Free, SiteTypeOK
  <2> QED
    BY <2>1, <2>2, <1>9, AnnounceStays DEF Expire, upstream
<1>10. CASE Wait \/ (\E i \in Instances : Restart(i)) \/ UNCHANGED siteVars
  BY <1>10, <1>5 DEF Wait, Restart, worker, upstream, siteVars
<1>11. ASSUME NEW w \in Workers, Step(w) PROVE AnnounceInv'
  BY <1>11, AnnounceStep
<1> QED
  BY <1>2, <1>3, <1>4, <1>6, <1>7, <1>8, <1>9, <1>10, <1>11 DEF SiteNext

\* The scheduler refreshes the announcements once a day, whatever crashes, as
\* long as no renewal cuts their lease short.
THEOREM SiteAnnouncedOnce == SiteSpec => []AnnouncedOnce
<1>1. SiteInit => AnnounceInv
  BY DEF SiteInit, AnnounceInv, Free
<1>2. AnnounceInv => AnnouncedOnce
  BY DEF AnnounceInv, AnnouncedOnce
<1> QED
  BY <1>1, <1>2, AnnounceNext, LeaseInductive, RoundsInductive, PTL DEF SiteSpec

\* The day's work is bounded: both of the above.
THEOREM SiteDailyWorkBounded == SiteSpec => []DailyWorkBounded
BY SiteRoundsBounded, SiteAnnouncedOnce, PTL DEF DailyWorkBounded
===============================================================================
