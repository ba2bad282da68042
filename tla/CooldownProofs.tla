----------------------------- MODULE CooldownProofs -----------------------------
(***************************************************************************)
(* Cooldown for every number of requests, keys and models, every back-off  *)
(* policy, and any failures of the store; what earns a cooldown: the       *)
(* attempts (Attempt), for every number of reads and of ways to resend a   *)
(* request, and the decisions on their failures (CooldownDecision), for    *)
(* any number of features in an answer; and what cooldowns mean for the    *)
(* choice of a channel (Selection), for any channels.                      *)
(***************************************************************************)
EXTENDS Cooldown, Attempt, Selection, FiniteSetTheorems, TLAPS

(* Extremes of sets of numbers. *)

LEMMA Least ==
    ASSUME NEW T, T \subseteq Nat, T # {}
    PROVE  \E m \in T : \A y \in T : m <= y
<1>1. PICK m \in T : \A y \in T : ~ (<<y, m>> \in OpToRel(<, Nat))
  BY WFMin, NatLessThanWellFounded
<1>2. ASSUME NEW y \in T, y < m PROVE FALSE
  <2>1. <<y, m>> \in {ab \in Nat \X Nat : ab[1] < ab[2]}
    BY <1>2
  <2>2. <<y, m>> \in OpToRel(<, Nat)
    BY <2>1, Zenon DEF OpToRel
  <2> QED
    BY <2>2, <1>1
<1> QED
  BY <1>2

LEMMA MinIs ==
    ASSUME NEW T, T \subseteq Nat, T # {}
    PROVE  Min(T) \in T /\ \A y \in T : Min(T) <= y
BY Least DEF Min

\* A finite set of numbers is bounded: of the unbounded subsets none could have
\* the fewest elements.
LEMMA Bounded ==
    ASSUME NEW S, IsFiniteSet(S), S \subseteq Nat
    PROVE  \E b \in Nat : \A x \in S : x <= b
<1> DEFINE Bound(T) == \E b \in Nat : \A x \in T : x <= b
           bad == {n \in Nat : \E T \in SUBSET S : Cardinality(T) = n /\ ~ Bound(T)}
<1>1. CASE bad = {}
  <2>1. Cardinality(S) \in Nat
    BY FS_CardinalityType
  <2> QED
    BY <1>1, <2>1
<1>2. CASE bad # {}
  <2>1. PICK n \in bad : \A m \in bad : n <= m
    <3> HIDE DEF bad
    <3>1. bad \subseteq Nat
      BY DEF bad
    <3> QED
      BY <1>2, <3>1, Least
  <2>2. PICK T \in SUBSET S : Cardinality(T) = n /\ ~ Bound(T)
    BY <2>1
  <2>3. T # {}
    BY <2>2
  <2>4. PICK x : x \in T
    BY <2>3
  <2>5. IsFiniteSet(T) /\ IsFiniteSet(T \ {x})
    BY FS_Subset, FS_RemoveElement
  <2>6. Cardinality(T \ {x}) = n - 1 /\ Cardinality(T \ {x}) \in Nat
    BY <2>2, <2>4, <2>5, FS_RemoveElement, FS_CardinalityType
  <2>7. n - 1 \notin bad
    <3> HIDE DEF bad
    <3>1. n \in Nat /\ n - 1 \in Nat
      BY <2>6, <2>1 DEF bad
    <3> QED
      BY <3>1, <2>1
  <2>8. Bound(T \ {x})
    <3>1. (T \ {x}) \in SUBSET S
      OBVIOUS
    <3> HIDE DEF Bound
    <3> QED
      BY <2>6, <2>7, <3>1
  <2>9. PICK b \in Nat : \A y \in T \ {x} : y <= b
    BY <2>8
  <2>10. x \in Nat
    BY <2>4
  <2>11. \A y \in T : y <= b + x
    BY <2>9, <2>10
  <2>12. b + x \in Nat
    BY <2>9, <2>10
  <2> QED
    BY <2>2, <2>11, <2>12
<1> QED
  BY <1>1, <1>2

LEMMA MaxIs ==
    ASSUME NEW S, IsFiniteSet(S), S \subseteq Nat, S # {}
    PROVE  Max(S) \in S /\ \A y \in S : y <= Max(S)
<1> DEFINE U == {n \in Nat : \A x \in S : x <= n}
<1>1. U # {}
  BY Bounded
<1>2. PICK m \in U : \A n \in U : m <= n
  BY <1>1, Least
<1>3. m \in S
  <2> SUFFICES ASSUME m \notin S PROVE FALSE
    OBVIOUS
  <2>1. PICK x : x \in S
    OBVIOUS
  <2>2. x \in Nat /\ x <= m /\ x # m
    BY <2>1
  <2>3. m - 1 \in Nat /\ \A y \in S : y <= m - 1
    BY <2>2
  <2> QED
    BY <2>3, <1>2
<1>4. \E x \in S : \A y \in S : x >= y
  BY <1>3
<1>5. Max(S) \in S /\ \A y \in S : Max(S) >= y
  BY <1>4 DEF Max
<1> QED
  BY <1>5

LEMMA PairMax ==
    ASSUME NEW a \in Int, NEW b \in Int
    PROVE  Max({a, b}) = IF a >= b THEN a ELSE b
BY DEF Max

LEMMA PairMin ==
    ASSUME NEW a \in Int, NEW b \in Int
    PROVE  Min({a, b}) = IF a <= b THEN a ELSE b
BY DEF Min

LEMMA CapIs ==
    /\ Cap \in Nat \ {0} /\ MaxDur <= Cap /\ MaxDur \in Nat /\ MinDur \in Nat
    /\ \A d \in InitialDur \cup ResetDurs : d \in Nat \ {0} /\ d <= Cap
<1>1. IsFiniteSet(InitialDur \cup ResetDurs \cup {MaxDur})
  BY CooldownAssumption, FS_Union, FS_AddElement
<1>2. InitialDur \cup ResetDurs \cup {MaxDur} \subseteq Nat
  BY CooldownAssumption
<1>3. /\ Cap \in InitialDur \cup ResetDurs \cup {MaxDur}
      /\ \A d \in InitialDur \cup ResetDurs \cup {MaxDur} : d <= Cap
  BY <1>1, <1>2, MaxIs DEF Cap
<1> QED
  BY <1>3, CooldownAssumption

LEMMA RowsTyped == Clear \in RowType /\ \A t \in 0..Cap : Until(t) \in RowType /\ Until(t).dur = t
BY CapIs DEF Clear, Until, RowType

LEMMA BackoffTyped ==
    ASSUME NEW w, w.dur \in 0..Cap, w.left \in 0..Cap, NEW d \in InitialDur
    PROVE  Backoff(w, d) \in 0..Cap
<1>1. ASSUME NEW n \in Nat PROVE Doubled(n) \in 0..Cap
  <2> DEFINE M == Max({2 * n, MinDur})
  <2>1. M \in Nat
    <3>1. 2 * n \in Int /\ MinDur \in Int /\ 2 * n \in Nat /\ MinDur \in Nat
      BY <1>1, CapIs
    <3> QED
      BY <3>1, PairMax
  <2> HIDE DEF M
  <2>2. Min({M, MaxDur}) \in 0..Cap
    <3>1. M \in Int /\ MaxDur \in Int
      BY <2>1, CapIs
    <3>2. Min({M, MaxDur}) = IF M <= MaxDur THEN M ELSE MaxDur
      BY <3>1, PairMin
    <3> QED
      BY <3>2, <2>1, CapIs
  <2> QED
    BY <2>2 DEF Doubled, M
<1> QED
  BY <1>1, CapIs DEF Backoff

\* The exhaustion test: -1 unless every row of the set is cooling down.
LEMMA AllCoolingIs ==
    ASSUME NEW S, NEW f, \A x \in S : f[x].left \in 0..Cap
    PROVE  /\ AllCooling(S, f) \in -1..Cap
           /\ AllCooling(S, f) > 0 <=> S # {} /\ \A x \in S : f[x].left > 0
           /\ AllCooling(S, f) >= 0 => AllCooling(S, f) > 0
<1>1. CASE S # {} /\ \A x \in S : f[x].left > 0
  <2> DEFINE T == {f[x].left : x \in S}
  <2>1. T \subseteq Nat /\ T # {} /\ \A y \in T : y \in 0..Cap /\ y > 0
    BY <1>1, CapIs
  <2>2. Min(T) \in T
    BY <2>1, MinIs
  <2> QED
    BY <1>1, <2>1, <2>2, CapIs DEF AllCooling, Earliest
<1>2. CASE ~(S # {} /\ \A x \in S : f[x].left > 0)
  BY <1>2, CapIs DEF AllCooling
<1> QED
  BY <1>1, <1>2

-------------------------------------------------------------------------------
(* Types. *)

LEMMA NoteTyped ==
    ASSUME NEW seen, Note(seen)
    PROVE  noticed' \subseteq {"keys", "models"}
BY DEF Note

LEMMA AfterCoolTyped == \A r \in Requests : AfterCool(r) \in PCs
BY DEF AfterCool, PCs

LEMMA SetRowTyped ==
    ASSUME TypeOK, NEW x \in Rows, NEW t \in 0..Cap, SetRow(x, t)
    PROVE  row' \in [Rows -> RowType] /\ expected' \in [Rows -> 0..Cap]
<1>1. row \in [Rows -> RowType] /\ expected \in [Rows -> 0..Cap]
  BY DEF TypeOK
<1>2. Until(t) \in RowType
  BY RowsTyped
<1> QED
  BY <1>1, <1>2 DEF SetRow

LEMMA ResetRowTyped ==
    ASSUME TypeOK, NEW x \in Rows, ResetRow(x)
    PROVE  row' \in [Rows -> RowType] /\ expected' \in [Rows -> 0..Cap]
<1>1. row \in [Rows -> RowType] /\ expected \in [Rows -> 0..Cap]
  BY DEF TypeOK
<1>2. Clear \in RowType /\ 0 \in 0..Cap
  BY RowsTyped, CapIs
<1> QED
  BY <1>1, <1>2 DEF ResetRow

LEMMA LeftTyped ==
    ASSUME TypeOK
    PROVE  KeysLeft(row) \in -1..Cap /\ ModelsLeft(row) \in -1..Cap
<1>1. \A x \in Rows : row[x].left \in 0..Cap
  BY DEF TypeOK, RowType
<1>2. EnabledKeys \subseteq Rows /\ Models \subseteq Rows
  BY DEF EnabledKeys, Rows
<1> QED
  BY <1>1, <1>2, AllCoolingIs DEF KeysLeft, ModelsLeft

LEMMA StepTyped ==
    ASSUME TypeOK, NEW r \in Requests, Step(r)
    PROVE  TypeOK'
<1> USE DEF TypeOK
<1>t. Channel \in Rows /\ Keys \subseteq Rows /\ Models \subseteq Rows
  BY DEF Rows
<1>c. 0 \in 0..Cap /\ -1 \in -1..Cap /\ Clear \in RowType
  BY CapIs, RowsTyped
<1>1. ASSUME NEW k \in Keys, NEW m \in Models, Start(r, k, m) PROVE TypeOK'
  BY <1>1 DEF Start, PCs
<1>2. ASSUME NEW x \in Rows, NEW t \in ResetDurs \cup {0}, Fail(r, x, t) PROVE TypeOK'
  <2>1. t \in 0..Cap
    BY CapIs
  <2> QED
    BY <1>2, <2>1 DEF Fail, PCs
<1>3. CASE ApplySet(r)
  <2>1. row' \in [Rows -> RowType] /\ expected' \in [Rows -> 0..Cap]
    BY <1>3, SetRowTyped DEF ApplySet
  <2> QED
    BY <1>3, <2>1, <1>c, AfterCoolTyped, NoteTyped DEF ApplySet
<1>4. CASE BumpRead(r)
  BY <1>4 DEF BumpRead, PCs
<1>5. ASSUME NEW d \in InitialDur, BumpWrite(r, d) PROVE TypeOK'
  <2> DEFINE x == target[r]
             w == [row[x] EXCEPT !.dur = expected[x]]
  <2>1. x \in Rows /\ snap[r].dur \in 0..Cap /\ snap[r].left \in 0..Cap
    BY DEF RowType
  <2>2. Backoff(snap[r], d) \in 0..Cap
    BY <2>1, BackoffTyped
  <2>3. w.dur \in 0..Cap /\ w.left \in 0..Cap
    BY <2>1 DEF RowType
  <2>4. Backoff(w, d) \in 0..Cap
    BY <2>3, BackoffTyped
  <2>5. Until(Backoff(snap[r], d)) \in RowType
    BY <2>2, RowsTyped
  <2>6. row' \in [Rows -> RowType] /\ expected' \in [Rows -> 0..Cap]
    BY <1>5, <2>1, <2>4, <2>5 DEF BumpWrite
  <2> QED
    BY <1>5, <2>6, <1>c, AfterCoolTyped, NoteTyped DEF BumpWrite
<1>6. CASE ReadKeys(r)
  BY <1>6, <1>t, LeftTyped, NoteTyped DEF ReadKeys, PCs
<1>7. CASE ReadModels(r)
  <2> DEFINE c == Max({keyLeft[r], ModelsLeft(row)})
  <2>1. c \in -1..Cap
    <3>1. keyLeft[r] \in -1..Cap /\ ModelsLeft(row) \in -1..Cap
      BY LeftTyped
    <3> QED
      BY <3>1, PairMax
  <2> HIDE DEF c
  <2>2. Max({c, 0}) \in 0..Cap
    BY <2>1, PairMax, CapIs
  <2>3. reset' \in [Requests -> 0..Cap]
    BY <1>7, <2>2 DEF ReadModels, c
  <2>4. pc' \in [Requests -> PCs]
    BY <1>7 DEF ReadModels, PCs
  <2> QED
    BY <1>7, <2>3, <2>4, <1>c, NoteTyped DEF ReadModels
<1>8. CASE Promote(r)
  <2>1. row' \in [Rows -> RowType] /\ expected' \in [Rows -> 0..Cap]
    BY <1>8, <1>t, SetRowTyped DEF Promote
  <2> QED
    BY <1>8, <2>1, <1>c DEF Promote, PCs
<1>9. CASE Succeed(r)
  BY <1>9 DEF Succeed, PCs, reqVars
<1>10. CASE ClearChannel(r)
  <2>1. row' \in [Rows -> RowType] /\ expected' \in [Rows -> 0..Cap]
    BY <1>10, <1>t, ResetRowTyped DEF ClearChannel
  <2> QED
    BY <1>10, <2>1 DEF ClearChannel, PCs, reqVars
<1>11. CASE ClearKey(r)
  <2>1. row' \in [Rows -> RowType] /\ expected' \in [Rows -> 0..Cap]
    BY <1>11, <1>t, ResetRowTyped DEF ClearKey
  <2> QED
    BY <1>11, <2>1, NoteTyped DEF ClearKey, PCs, reqVars
<1>12. CASE ClearModel(r)
  <2>1. row' \in [Rows -> RowType] /\ expected' \in [Rows -> 0..Cap]
    BY <1>12, <1>t, ResetRowTyped DEF ClearModel
  <2> QED
    BY <1>12, <2>1, NoteTyped DEF ClearModel, PCs, reqVars
<1>13. CASE StoreError(r)
  <2>1. Max({keyLeft[r], 0}) \in 0..Cap
    <3>1. keyLeft[r] \in -1..Cap
      OBVIOUS
    <3> QED
      BY <3>1, PairMax, CapIs
  <2>2. AfterError(r) \in PCs
    BY AfterCoolTyped DEF AfterError, PCs
  <2>3. lock' \in [Rows -> Requests \cup {NoOne}]
    BY <1>13 DEF StoreError
  <2>4. target' \in [Requests -> Rows] /\ reset' \in [Requests -> 0..Cap]
    BY <1>13, <2>1, <1>t, <1>c DEF StoreError
  <2> QED
    BY <1>13, <2>2, <2>3, <2>4, <1>c, NoteTyped DEF StoreError
<1> QED
  BY <1>1, <1>2, <1>3, <1>4, <1>5, <1>6, <1>7, <1>8, <1>9, <1>10, <1>11, <1>12, <1>13 DEF Step

LEMMA TickTyped ==
    ASSUME TypeOK, Tick
    PROVE  TypeOK'
<1> USE DEF TypeOK
<1>1. ASSUME NEW n \in 0..Cap PROVE Max({n - 1, 0}) \in 0..Cap
  <2>1. n - 1 \in Int /\ 0 \in Int
    BY CapIs
  <2>2. Max({n - 1, 0}) = IF n - 1 >= 0 THEN n - 1 ELSE 0
    BY <2>1, PairMax
  <2> QED
    BY <2>2, CapIs
<1>2. row' \in [Rows -> RowType]
  <2>1. ASSUME NEW x \in Rows PROVE [row[x] EXCEPT !.left = Max({@ - 1, 0})] \in RowType
    BY <1>1 DEF RowType
  <2> QED
    BY <2>1 DEF Tick
<1>3. reset' \in [Requests -> 0..Cap]
  BY <1>1 DEF Tick
<1>4. keyLeft' \in [Requests -> -1..Cap]
  BY CapIs DEF Tick
<1> QED
  BY <1>2, <1>3, <1>4, NoteTyped DEF Tick

LEMMA InitTyped == Init => TypeOK
BY RowsTyped, CapIs DEF Init, PCs, Rows, TypeOK

LEMMA NextTyped ==
    ASSUME TypeOK, [Next]_vars
    PROVE  TypeOK'
<1> USE DEF TypeOK
<1>1. CASE ResetAll
  BY <1>1, RowsTyped, CapIs DEF ResetAll, reqVars
<1>2. ASSUME NEW x \in Keys \cup {Channel}, NEW t \in ResetDurs, SetManually(x, t) PROVE TypeOK'
  <2>1. x \in Rows /\ t \in 0..Cap
    BY CapIs DEF Rows
  <2>2. row' \in [Rows -> RowType] /\ expected' \in [Rows -> 0..Cap]
    BY <1>2, <2>1, SetRowTyped DEF SetManually
  <2> QED
    BY <1>2, <2>2, NoteTyped DEF SetManually, reqVars
<1>3. CASE UNCHANGED vars
  BY <1>3 DEF vars, reqVars
<1> QED
  BY <1>1, <1>2, <1>3, StepTyped, TickTyped DEF Next

\* Every variable keeps to its type; cooldowns stay within the longest distance
\* of the policy and of the explicit resets.
THEOREM CooldownTypeInvariant == Spec => []TypeOK
BY InitTyped, NextTyped, PTL DEF Spec

-------------------------------------------------------------------------------
(* The back-off.  A transaction that has read its row holds the row's lock,  *)
(* so what it read is still there when it writes.                            *)

RowsLocked ==
    \A r \in Requests : pc[r] = "locked" => lock[target[r]] = r /\ snap[r] = row[target[r]]

BackoffInv == TypeOK /\ RowsLocked /\ NoLostFailure

\* A single write of a row no transaction has read.
LEMMA WriteFree ==
    ASSUME RowsLocked, NEW x \in Rows, Unlocked(x),
           \A y \in Rows \ {x} : row'[y] = row[y], TypeOK,
           lock' = lock,
           \A q \in Requests : pc'[q] = "locked" => pc[q] = "locked" /\ target'[q] = target[q] /\ snap'[q] = snap[q]
    PROVE  RowsLocked'
<1> SUFFICES ASSUME NEW q \in Requests, pc'[q] = "locked"
             PROVE  lock'[target'[q]] = q /\ snap'[q] = row'[target'[q]]
  BY DEF RowsLocked
<1>1. pc[q] = "locked" /\ target'[q] = target[q] /\ snap'[q] = snap[q] /\ target[q] \in Rows
  BY DEF TypeOK
<1>2. lock[target[q]] = q /\ snap[q] = row[target[q]]
  BY <1>1 DEF RowsLocked
<1>3. target[q] # x
  BY <1>2, CooldownAssumption DEF Unlocked
<1> QED
  BY <1>1, <1>2, <1>3

LEMMA SetRowKeeps ==
    ASSUME TypeOK, NoLostFailure, NEW x \in Rows, NEW t, SetRow(x, t)
    PROVE  NoLostFailure' /\ \A y \in Rows \ {x} : row'[y] = row[y]
BY DEF TypeOK, NoLostFailure, SetRow, Until

LEMMA ResetRowKeeps ==
    ASSUME TypeOK, NoLostFailure, NEW x \in Rows, ResetRow(x)
    PROVE  NoLostFailure' /\ \A y \in Rows \ {x} : row'[y] = row[y]
BY DEF TypeOK, NoLostFailure, ResetRow, Clear

\* A step that writes no row.
LEMMA NoWrite ==
    ASSUME RowsLocked, row' = row, lock' = lock,
           \A q \in Requests : pc'[q] = "locked" => pc[q] = "locked" /\ target'[q] = target[q] /\ snap'[q] = snap[q]
    PROVE  RowsLocked'
BY DEF RowsLocked

LEMMA StepBackoff ==
    ASSUME BackoffInv, NEW r \in Requests, Step(r)
    PROVE  RowsLocked' /\ NoLostFailure'
<1> USE DEF BackoffInv
<1>p. pc \in [Requests -> PCs] /\ target \in [Requests -> Rows] /\ snap \in [Requests -> RowType]
  BY DEF TypeOK
<1>t. Channel \in Rows /\ key[r] \in Rows /\ mdl[r] \in Rows
  BY DEF Rows, TypeOK
<1>s. AfterCool(r) # "locked"
  BY DEF AfterCool
<1>1. ASSUME NEW k \in Keys, NEW m \in Models, Start(r, k, m) PROVE RowsLocked' /\ NoLostFailure'
  BY <1>1, <1>p, NoWrite DEF Start, NoLostFailure
<1>2. ASSUME NEW x \in Rows, NEW t \in ResetDurs \cup {0}, Fail(r, x, t) PROVE RowsLocked' /\ NoLostFailure'
  BY <1>2, <1>p, NoWrite DEF Fail, NoLostFailure
<1>3. CASE ApplySet(r)
  <2>1. NoLostFailure' /\ \A y \in Rows \ {target[r]} : row'[y] = row[y]
    BY <1>3, <1>p, SetRowKeeps DEF ApplySet
  <2> QED
    BY <1>3, <2>1, <1>p, <1>s, WriteFree DEF ApplySet, SetRow
<1>4. CASE BumpRead(r)
  <2> SUFFICES ASSUME NEW q \in Requests, pc'[q] = "locked"
               PROVE  lock'[target'[q]] = q /\ snap'[q] = row'[target'[q]]
    BY <1>4 DEF BumpRead, NoLostFailure, RowsLocked
  <2>1. CASE q = r
    BY <1>4, <2>1, <1>p DEF BumpRead, TypeOK
  <2>2. CASE q # r
    <3>1. pc[q] = "locked" /\ lock[target[q]] = q /\ snap[q] = row[target[q]]
      BY <1>4, <2>2, <1>p DEF BumpRead, RowsLocked
    <3>2. target[q] # target[r]
      BY <1>4, <3>1, CooldownAssumption DEF BumpRead, Unlocked
    <3> QED
      BY <1>4, <2>2, <3>1, <3>2, <1>p DEF BumpRead, TypeOK
  <2> QED
    BY <2>1, <2>2
<1>5. ASSUME NEW d \in InitialDur, BumpWrite(r, d) PROVE RowsLocked' /\ NoLostFailure'
  <2> DEFINE x == target[r]
             w == [row[x] EXCEPT !.dur = expected[x]]
  <2>1. pc[r] = "locked" /\ x \in Rows /\ row[x] \in RowType
    BY <1>5, <1>p DEF BumpWrite, TypeOK
  <2>2. lock[x] = r /\ snap[r] = row[x] /\ row[x].dur = expected[x]
    BY <2>1 DEF RowsLocked, NoLostFailure
  <2>3. w.dur = row[x].dur /\ w.left = row[x].left
    BY <2>1, <2>2 DEF RowType
  <2>4. Backoff(w, d) = Backoff(snap[r], d)
    BY <2>2, <2>3 DEF Backoff
  <2>5. row'[x] = Until(Backoff(snap[r], d)) /\ expected'[x] = Backoff(w, d)
    BY <1>5, <2>1 DEF BumpWrite, TypeOK
  <2>6. \A y \in Rows \ {x} : row'[y] = row[y] /\ expected'[y] = expected[y] /\ lock'[y] = lock[y]
    BY <1>5, <2>1 DEF BumpWrite, TypeOK
  <2>7. NoLostFailure'
    BY <2>4, <2>5, <2>6 DEF NoLostFailure, Until
  <2>8. RowsLocked'
    <3> SUFFICES ASSUME NEW q \in Requests, pc'[q] = "locked"
                 PROVE  lock'[target'[q]] = q /\ snap'[q] = row'[target'[q]]
      BY DEF RowsLocked
    <3>1. q # r /\ pc[q] = "locked" /\ snap'[q] = snap[q] /\ target'[q] = target[q]
      BY <1>5, <1>p, <1>s DEF BumpWrite
    <3>2. lock[target[q]] = q /\ snap[q] = row[target[q]] /\ target[q] \in Rows
      BY <3>1, <1>p DEF RowsLocked
    <3> QED
      BY <3>1, <3>2, <2>2, <2>6
  <2> QED
    BY <2>7, <2>8
<1>6. CASE ReadKeys(r)
  BY <1>6, <1>p, NoWrite DEF ReadKeys, NoLostFailure
<1>7. CASE ReadModels(r)
  <2>1. \A q \in Requests : pc'[q] = "locked" => pc[q] = "locked" /\ target'[q] = target[q] /\ snap'[q] = snap[q]
    BY <1>7, <1>p DEF ReadModels
  <2>2. row' = row /\ lock' = lock /\ expected' = expected
    BY <1>7 DEF ReadModels
  <2> QED
    BY <2>1, <2>2, NoWrite DEF NoLostFailure
<1>8. CASE Promote(r)
  <2>1. NoLostFailure' /\ \A y \in Rows \ {Channel} : row'[y] = row[y]
    BY <1>8, <1>t, SetRowKeeps DEF Promote
  <2> QED
    BY <1>8, <2>1, <1>p, <1>t, WriteFree DEF Promote, SetRow
<1>9. CASE Succeed(r)
  BY <1>9, <1>p, NoWrite DEF Succeed, NoLostFailure, reqVars
<1>10. CASE ClearChannel(r)
  <2>1. NoLostFailure' /\ \A y \in Rows \ {Channel} : row'[y] = row[y]
    BY <1>10, <1>t, ResetRowKeeps DEF ClearChannel
  <2> QED
    BY <1>10, <2>1, <1>p, <1>t, WriteFree DEF ClearChannel, ResetRow, reqVars
<1>11. CASE ClearKey(r)
  <2>1. NoLostFailure' /\ \A y \in Rows \ {key[r]} : row'[y] = row[y]
    BY <1>11, <1>t, ResetRowKeeps DEF ClearKey
  <2> QED
    BY <1>11, <2>1, <1>p, <1>t, WriteFree DEF ClearKey, ResetRow, reqVars
<1>12. CASE ClearModel(r)
  <2>1. \A q \in Requests : pc'[q] = "locked" => pc[q] = "locked" /\ target'[q] = target[q] /\ snap'[q] = snap[q]
    BY <1>12, <1>p DEF ClearModel, reqVars
  <2>2. CASE ResetRow(mdl[r])
    <3>1. NoLostFailure' /\ \A y \in Rows \ {mdl[r]} : row'[y] = row[y]
      BY <2>2, <1>t, ResetRowKeeps
    <3> QED
      BY <1>12, <2>1, <2>2, <3>1, <1>t, WriteFree DEF ClearModel, ResetRow, reqVars
  <2>3. CASE UNCHANGED <<row, expected>>
    BY <1>12, <2>1, <2>3, NoWrite DEF ClearModel, reqVars, NoLostFailure
  <2> QED
    BY <1>12, <2>2, <2>3 DEF ClearModel
<1>13. CASE StoreError(r)
  <2>1. AfterError(r) # "locked"
    BY <1>s DEF AfterError
  <2>2. NoLostFailure'
    BY <1>13 DEF StoreError, NoLostFailure
  <2>3. RowsLocked'
    <3> SUFFICES ASSUME NEW q \in Requests, pc'[q] = "locked"
                 PROVE  lock'[target'[q]] = q /\ snap'[q] = row'[target'[q]]
      BY DEF RowsLocked
    <3>1. q # r /\ pc[q] = "locked" /\ snap'[q] = snap[q] /\ target'[q] = target[q]
      BY <1>13, <1>p, <2>1 DEF StoreError
    <3>2. lock[target[q]] = q /\ snap[q] = row[target[q]] /\ target[q] \in Rows
      BY <3>1, <1>p DEF RowsLocked
    <3> QED
      BY <1>13, <3>1, <3>2 DEF StoreError
  <2> QED
    BY <2>2, <2>3
<1> QED
  BY <1>1, <1>2, <1>3, <1>4, <1>5, <1>6, <1>7, <1>8, <1>9, <1>10, <1>11, <1>12, <1>13 DEF Step

\* With every row unlocked no transaction has read any.
LEMMA AllUnlocked ==
    ASSUME BackoffInv, \A x \in Rows : Unlocked(x)
    PROVE  \A r \in Requests : pc[r] # "locked"
BY CooldownAssumption DEF BackoffInv, RowsLocked, Unlocked, TypeOK

\* No failure is lost: the back-off of every row counts each of its failures
\* since its last reset, however many requests punish it at the same time.
THEOREM CooldownNoLostFailure == Spec => []NoLostFailure
<1>1. Init => BackoffInv
  BY InitTyped DEF Init, BackoffInv, RowsLocked, NoLostFailure, Clear
<1>2. BackoffInv /\ [Next]_vars => BackoffInv'
  <2> SUFFICES ASSUME BackoffInv, [Next]_vars PROVE RowsLocked' /\ NoLostFailure'
    BY NextTyped DEF BackoffInv
  <2> USE DEF BackoffInv
  <2>1. CASE ResetAll
    <3>1. \A r \in Requests : pc'[r] # "locked"
      BY <2>1, AllUnlocked DEF ResetAll
    <3> QED
      BY <2>1, <3>1 DEF ResetAll, RowsLocked, NoLostFailure, Clear
  <2>2. ASSUME NEW x \in Keys \cup {Channel}, NEW t \in ResetDurs, SetManually(x, t)
        PROVE RowsLocked' /\ NoLostFailure'
    <3>1. x \in Rows
      BY DEF Rows
    <3>2. NoLostFailure' /\ \A y \in Rows \ {x} : row'[y] = row[y]
      BY <2>2, <3>1, SetRowKeeps DEF SetManually
    <3> QED
      BY <2>2, <3>1, <3>2, WriteFree DEF SetManually, SetRow, reqVars
  <2>3. CASE Tick
    <3>1. \A r \in Requests : pc'[r] # "locked"
      BY <2>3, AllUnlocked DEF Tick
    <3>2. \A x \in Rows : row'[x].dur = row[x].dur /\ expected'[x] = expected[x]
      BY <2>3 DEF Tick, TypeOK, RowType
    <3> QED
      BY <3>1, <3>2 DEF RowsLocked, NoLostFailure
  <2>4. CASE UNCHANGED vars
    BY <2>4, NoWrite DEF vars, reqVars, NoLostFailure
  <2> QED
    BY <2>1, <2>2, <2>3, <2>4, StepBackoff DEF Next
<1>3. BackoffInv => NoLostFailure
  BY DEF BackoffInv
<1> QED
  BY <1>1, <1>2, <1>3, PTL DEF Spec

-------------------------------------------------------------------------------
(* Promotion.  A resource that is used up was seen to be (s in noticed), or  *)
(* somebody at one of the places W is still to look at it.                   *)

Gone(S) == S # {} /\ \A x \in S : row[x].left > 0
Seen(S, s, W) == Gone(S) => s \in noticed \/ \E q \in Requests : pc[q] \in W

KeysSeen == Seen(EnabledKeys, "keys", {"keys"})
ModelsSeen == Seen(SendableModels, "models", {"keys", "models"})

LEMMA GoneIs ==
    ASSUME TypeOK, NEW S, S \subseteq Rows
    PROVE  AllCooling(S, row) > 0 <=> Gone(S)
<1>1. \A x \in S : row[x].left \in 0..Cap
  BY DEF TypeOK, RowType
<1> QED
  BY <1>1, AllCoolingIs DEF Gone

LEMMA GoneNext ==
    ASSUME TypeOK', NEW S, S \subseteq Rows
    PROVE  AllCooling(S, row') > 0 <=> Gone(S)'
<1>1. \A x \in S : row'[x].left \in 0..Cap
  BY DEF TypeOK, RowType
<1>2. AllCooling(S, row') > 0 <=> S # {} /\ \A x \in S : row'[x].left > 0
  BY <1>1, AllCoolingIs
<1> QED
  BY <1>2 DEF Gone

LEMMA Resources == EnabledKeys \subseteq Keys /\ SendableModels \subseteq Models /\ Keys \cup Models \subseteq Rows
BY DEF EnabledKeys, SendableModels, Rows

LEMMA NoteKeeps ==
    ASSUME TypeOK', NEW seen, Note(seen)
    PROVE  /\ Gone(EnabledKeys)' /\ "keys" \in noticed \cup seen => "keys" \in noticed'
           /\ Gone(SendableModels)' /\ "models" \in noticed \cup seen => "models" \in noticed'
<1>1. AllCooling(EnabledKeys, row') > 0 <=> Gone(EnabledKeys)'
  BY GoneNext, Resources
<1>2. AllCooling(SendableModels, row') > 0 <=> Gone(SendableModels)'
  BY GoneNext, Resources
<1> QED
  BY <1>1, <1>2 DEF Note

\* A step that uses up nothing of S, forgets nothing, and does not leave the
\* places unless it has looked.
LEMMA StaysSeen ==
    ASSUME NEW S, NEW s, NEW W, Seen(S, s, W),
           \A x \in S : row'[x].left > 0 => row[x].left > 0,
           Gone(S)' /\ s \in noticed => s \in noticed',
           Gone(S)' => \A q \in Requests : pc[q] \in W => pc'[q] \in W \/ s \in noticed'
    PROVE  Seen(S, s, W)'
BY DEF Seen, Gone

\* The steps of a request after which a row may cool that did not: it goes on to
\* look at keys and models, unless the row is the channel's.
LEMMA CoolingSeen ==
    ASSUME TypeOK, TypeOK', KeysSeen, ModelsSeen, NEW r \in Requests,
           pc[r] \in {"cool", "locked"}, pc' = [pc EXCEPT ![r] = AfterCool(r)], Note({}),
           \A y \in Rows \ {target[r]} : row'[y] = row[y]
    PROVE  KeysSeen' /\ ModelsSeen'
<1>1. CASE target[r] # Channel
  <2>1. pc'[r] = "keys"
    BY <1>1 DEF AfterCool, TypeOK
  <2> QED
    BY <2>1 DEF KeysSeen, ModelsSeen, Seen
<1>2. CASE target[r] = Channel
  <2>1. \A x \in Keys \cup Models : row'[x] = row[x]
    BY <1>2, CooldownAssumption DEF Rows
  <2>2. \A q \in Requests : pc[q] \in {"keys", "models"} => pc'[q] = pc[q]
    BY DEF TypeOK
  <2>3. KeysSeen'
    BY <2>1, <2>2, NoteKeeps, Resources, StaysSeen DEF KeysSeen
  <2>4. ModelsSeen'
    BY <2>1, <2>2, NoteKeeps, Resources, StaysSeen DEF ModelsSeen
  <2> QED
    BY <2>3, <2>4
<1> QED
  BY <1>1, <1>2

\* The steps after which nothing is used up that was not before.
LEMMA ClearingSeen ==
    ASSUME TypeOK, TypeOK', KeysSeen, ModelsSeen,
           \A x \in Keys \cup Models : row'[x].left > 0 => row[x].left > 0,
           (\E seen : Note(seen)) \/ noticed' = noticed,
           \A q \in Requests : pc[q] \in {"keys", "models"} => pc'[q] = pc[q]
    PROVE  KeysSeen' /\ ModelsSeen'
<1>1. /\ Gone(EnabledKeys)' /\ "keys" \in noticed => "keys" \in noticed'
      /\ Gone(SendableModels)' /\ "models" \in noticed => "models" \in noticed'
  BY NoteKeeps
<1>2. KeysSeen'
  BY <1>1, Resources, StaysSeen DEF KeysSeen
<1>3. ModelsSeen'
  BY <1>1, Resources, StaysSeen DEF ModelsSeen
<1> QED
  BY <1>2, <1>3

LEMMA ResetRowShrinks ==
    ASSUME TypeOK, NEW x \in Rows, ResetRow(x)
    PROVE  \A y \in Rows : row'[y].left > 0 => row[y].left > 0
BY DEF TypeOK, RowType, ResetRow, Clear

LEMMA StepSeen ==
    ASSUME TypeOK, TypeOK', KeysSeen, ModelsSeen, DisabledModels = {}, NEW r \in Requests, Step(r)
    PROVE  KeysSeen' /\ ModelsSeen'
<1>p. pc \in [Requests -> PCs] /\ target \in [Requests -> Rows] /\ row \in [Rows -> RowType]
  BY DEF TypeOK
<1>t. Channel \in Rows /\ key[r] \in Rows /\ mdl[r] \in Rows
  BY DEF Rows, TypeOK
<1>r. Keys \cup Models \subseteq Rows /\ Channel \notin Keys \cup Models
  BY Resources, CooldownAssumption
<1>1. ASSUME NEW k \in Keys, NEW m \in Models, Start(r, k, m) PROVE KeysSeen' /\ ModelsSeen'
  BY <1>1, <1>p, ClearingSeen DEF Start
<1>2. ASSUME NEW x \in Rows, NEW t \in ResetDurs \cup {0}, Fail(r, x, t) PROVE KeysSeen' /\ ModelsSeen'
  BY <1>2, <1>p, ClearingSeen DEF Fail
<1>3. CASE ApplySet(r)
  BY <1>3, <1>p, CoolingSeen DEF ApplySet, SetRow
<1>4. CASE BumpRead(r)
  BY <1>4, <1>p, ClearingSeen DEF BumpRead
<1>5. ASSUME NEW d \in InitialDur, BumpWrite(r, d) PROVE KeysSeen' /\ ModelsSeen'
  BY <1>5, <1>p, CoolingSeen DEF BumpWrite
<1>6. CASE ReadKeys(r)
  <2>1. row' = row /\ pc[r] = "keys" /\ pc'[r] = "models"
    BY <1>6, <1>p DEF ReadKeys
  <2>2. \A q \in Requests \ {r} : pc'[q] = pc[q]
    BY <1>6, <1>p DEF ReadKeys
  <2>3. ModelsSeen'
    BY <2>1 DEF ModelsSeen, Seen
  <2>4. Gone(EnabledKeys)' => KeysLeft(row) > 0
    BY <2>1, GoneIs, Resources DEF KeysLeft, Gone
  <2>5. Gone(EnabledKeys)' => "keys" \in noticed'
    BY <1>6, <2>4, NoteKeeps DEF ReadKeys
  <2>6. KeysSeen'
    BY <2>5 DEF KeysSeen, Seen
  <2> QED
    BY <2>3, <2>6
<1>7. CASE ReadModels(r)
  <2>1. row' = row /\ pc[r] = "models" /\ \A q \in Requests \ {r} : pc'[q] = pc[q]
    BY <1>7, <1>p DEF ReadModels
  <2>2. Note(IF ModelsLeft(row) > 0 THEN {"models"} ELSE {})
    BY <1>7 DEF ReadModels
  <2>3. SendableModels = Models
    BY DEF SendableModels
  <2>4. Gone(SendableModels)' => ModelsLeft(row) > 0
    BY <2>1, <2>3, GoneIs, Resources DEF ModelsLeft, Gone
  <2>5. Gone(SendableModels)' => "models" \in noticed'
    BY <2>2, <2>4, NoteKeeps
  <2>6. ModelsSeen'
    BY <2>5 DEF ModelsSeen, Seen
  <2>7. Gone(EnabledKeys)' /\ "keys" \in noticed => "keys" \in noticed'
    BY <2>2, NoteKeeps
  <2>8. \A q \in Requests : pc[q] = "keys" => pc'[q] = "keys"
    BY <2>1
  <2>9. KeysSeen'
    BY <2>1, <2>7, <2>8, StaysSeen DEF KeysSeen
  <2> QED
    BY <2>6, <2>9
<1>8. CASE Promote(r)
  <2>1. \A x \in Keys \cup Models : row'[x] = row[x]
    BY <1>8, <1>p, <1>r DEF Promote, SetRow
  <2> QED
    BY <1>8, <2>1, <1>p, ClearingSeen DEF Promote
<1>9. CASE Succeed(r)
  BY <1>9, <1>p, ClearingSeen DEF Succeed
<1>10. CASE ClearChannel(r)
  BY <1>10, <1>p, <1>t, <1>r, ResetRowShrinks, ClearingSeen DEF ClearChannel
<1>11. CASE ClearKey(r)
  BY <1>11, <1>p, <1>t, <1>r, ResetRowShrinks, ClearingSeen DEF ClearKey
<1>12. CASE ClearModel(r)
  <2>1. \A y \in Rows : row'[y].left > 0 => row[y].left > 0
    BY <1>12, <1>t, ResetRowShrinks DEF ClearModel
  <2> QED
    BY <1>12, <2>1, <1>p, <1>r, ClearingSeen DEF ClearModel
<1>13. CASE StoreError(r)
  <2>1. row' = row /\ Note({pc[r]}) /\ pc' = [pc EXCEPT ![r] = AfterError(r)]
    BY <1>13 DEF StoreError
  <2>2. \A q \in Requests \ {r} : pc'[q] = pc[q]
    BY <2>1, <1>p
  <2>3. pc[r] = "keys" => pc'[r] = "models"
    BY <2>1, <1>p DEF AfterError
  <2>4. KeysSeen'
    BY <2>1, <2>2, NoteKeeps, StaysSeen DEF KeysSeen
  <2>5. ModelsSeen'
    BY <2>1, <2>2, <2>3, NoteKeeps, StaysSeen DEF ModelsSeen
  <2> QED
    BY <2>4, <2>5
<1> QED
  BY <1>1, <1>2, <1>3, <1>4, <1>5, <1>6, <1>7, <1>8, <1>9, <1>10, <1>11, <1>12, <1>13 DEF Step

\* A channel whose last free key or model goes is promoted by somebody: the test
\* that sees it is made, still to come, or has failed.  With disabled entries the
\* code looks for models that cannot be sent (configuredModelKeys), so it holds
\* without them.
THEOREM CooldownExhaustionSeen ==
    ASSUME DisabledModels = {}
    PROVE  Spec => []ExhaustionSeen
<1>1. Init => TypeOK /\ KeysSeen /\ ModelsSeen
  <2> SUFFICES ASSUME Init PROVE ~ Gone(EnabledKeys) /\ ~ Gone(SendableModels)
    BY InitTyped DEF KeysSeen, ModelsSeen, Seen
  <2> QED
    BY Resources DEF Init, Gone, Clear
<1>2. TypeOK /\ KeysSeen /\ ModelsSeen /\ [Next]_vars => (TypeOK /\ KeysSeen /\ ModelsSeen)'
  <2> SUFFICES ASSUME TypeOK, KeysSeen, ModelsSeen, [Next]_vars PROVE KeysSeen' /\ ModelsSeen'
    BY NextTyped
  <2>0. TypeOK'
    BY NextTyped
  <2>1. CASE ResetAll
    <3>1. ~ Gone(EnabledKeys)' /\ ~ Gone(SendableModels)'
      BY <2>1, Resources DEF ResetAll, Clear, Gone
    <3> QED
      BY <3>1 DEF KeysSeen, ModelsSeen, Seen
  <2>2. ASSUME NEW x \in Keys \cup {Channel}, NEW t \in ResetDurs, SetManually(x, t)
        PROVE KeysSeen' /\ ModelsSeen'
    <3>1. \A y \in Models : row'[y] = row[y]
      BY <2>2, CooldownAssumption DEF SetManually, SetRow, TypeOK, Rows
    <3>2. pc' = pc
      BY <2>2 DEF SetManually
    <3>3. Note({"keys"})
      BY <2>2 DEF SetManually
    <3>4. KeysSeen'
      BY <2>0, <3>3, NoteKeeps DEF KeysSeen, Seen
    <3>5. ModelsSeen'
      BY <2>0, <3>1, <3>2, <3>3, NoteKeeps, Resources, StaysSeen DEF ModelsSeen
    <3> QED
      BY <3>4, <3>5
  <2>3. CASE Tick
    <3>1. \A x \in Rows : row'[x].left > 0 => row[x].left > 0
      <4> SUFFICES ASSUME NEW x \in Rows, row[x].left = 0 PROVE row'[x].left = 0
        BY <2>0 DEF TypeOK, RowType
      <4>1. row[x] \in RowType
        BY DEF TypeOK
      <4>2. row'[x].left = Max({row[x].left - 1, 0})
        BY <2>3, <4>1 DEF Tick, RowType
      <4> QED
        BY <4>2, PairMax
    <3> QED
      BY <2>0, <2>3, <3>1, Resources, ClearingSeen DEF Tick
  <2>4. CASE UNCHANGED vars
    BY <2>0, <2>4, ClearingSeen DEF vars
  <2> QED
    BY <2>0, <2>1, <2>2, <2>3, <2>4, StepSeen DEF Next
<1>3. TypeOK /\ KeysSeen /\ ModelsSeen => ExhaustionSeen
  BY GoneIs, Resources DEF ExhaustionSeen, KeyExhaustionSeen, ModelExhaustionSeen, KeysSeen, ModelsSeen, Seen
<1> QED
  BY <1>1, <1>2, <1>3, PTL DEF Spec


-------------------------------------------------------------------------------
(* Attempts.  The types, and what holds of a relay that ended.             *)

Errors == {"nil", "network", "invalid", "empty", "read", "write", "translate",
           "deadline", "canceled"}
RelayType ==
    [reads : Nat, chunk : SUBSET Events, output : BOOLEAN, error : BOOLEAN,
     complete : BOOLEAN, committed : BOOLEAN, stop : BOOLEAN, err : Errors,
     diag : BOOLEAN, blame : BOOLEAN, cut : BOOLEAN, unwritten : BOOLEAN]
ContextType ==
    [client : {"there", "lost", "gone"}, first : {"armed", "stopped", "fired"}, total : BOOLEAN]
RequestModes == {"none"} \cup StreamModes \cup BodyModes
AttemptRequest ==
    [stream : BOOLEAN, mode : RequestModes, fallback : BOOLEAN, resent : SUBSET RetryStrategies]

AttemptTyped ==
    /\ req \in AttemptRequest /\ relay \in RelayType /\ ctx \in ContextType
    /\ at \in {"send", "read", "hook", "write", "settle", "input", "decide", "done"}

\* The way an answer is relayed suits the request.
ModeFits == mode \in {"none"} \cup IF Stream THEN StreamModes ELSE BodyModes

\* Somebody answers for what went wrong: the upstream, or the write.
Accounted(r) == r.blame \/ r.unwritten

\* The answer of a stream is committed exactly once it has content and no error.
CommitsContent(r) == Stream => (r.committed => r.output) /\ (r.output /\ ~r.error => r.committed)

\* Nothing has gone wrong so far.
Running(r) == r.err = "nil" /\ ~r.diag /\ ~r.cut

\* What is known of a relay that has ended.
Settled(r) ==
    /\ CommitsContent(r)
    /\ r.committed /\ r.err \notin {"nil", "canceled"} /\ ~r.diag => mode \in {"direct", "buffered"}
    /\ ~Stream /\ r.committed /\ r.err # "nil" => mode \in {"direct", "buffered"}
    /\ Stream /\ r.output /\ r.complete /\ ~r.error => r.err = "nil" /\ ~r.diag
    /\ Stream /\ r.cut /\ r.err = "nil" => r.complete
    /\ Stream /\ r.err = "nil" /\ ~r.error => r.output \/ r.complete
    /\ r.err \notin {"nil", "canceled"} => Accounted(r)
    /\ r.diag => Accounted(r)

\* What the relay may be ended with: an error that somebody answers for.
Endable(r, e) ==
    /\ r \in RelayType /\ e \in Errors
    /\ CommitsContent(r) /\ r.err = "nil" /\ ~r.diag
    /\ e \notin {"nil", "canceled"} => Accounted(r)
    /\ Stream /\ r.cut => e # "nil"
    /\ mode = "collect" => ~r.committed

LEMMA ModesDistinct ==
    /\ \A m \in StreamModes : m \notin BodyModes /\ m # "none" /\ m # "collect"
    /\ \A m \in BodyModes : m # "none" /\ m \in {"collect", "buffered", "direct"}
BY DEF StreamModes, EventModes, BodyModes

LEMMA EndedSettled ==
    ASSUME NEW r, NEW e, Endable(r, e), req \in AttemptRequest, mode # "collect",
           Stream \/ mode \in {"direct", "buffered"}
    PROVE  /\ Ended(r, e) \in RelayType /\ Settled(Ended(r, e))
           /\ r.blame => Ended(r, e).blame
<1> DEFINE empty == Stream /\ e = "nil" /\ ~r.error /\ ~r.output
           x == Ended(r, e)
           err == IF empty THEN "empty" ELSE IF Stream /\ r.complete THEN "nil" ELSE e
           diag == Diagnosed(r, e)
           blame == r.blame \/ empty
<1>1. x = [r EXCEPT !.chunk = {}, !.diag = diag, !.blame = blame, !.err = err]
  BY DEF Ended
<1>2. err \in Errors /\ diag \in BOOLEAN /\ blame \in BOOLEAN /\ r \in RelayType
  BY DEF Errors, Endable, Diagnosed
<1>3. (err # "nil" => ~(Stream /\ r.complete /\ ~empty))
      /\ (diag => Stream /\ e \notin {"nil", "canceled"} /\ ~r.complete)
      /\ (Stream /\ e \notin {"nil", "canceled"} /\ ~r.complete => diag)
      /\ (empty => blame /\ err = "empty") /\ (~empty => err \in {"nil", e})
      /\ (~empty /\ ~(Stream /\ r.complete) => err = e)
      /\ (r.blame => blame)
  BY DEF Diagnosed
<1>4. empty => Stream /\ e = "nil" /\ ~r.error /\ ~r.output
  OBVIOUS
<1>5. Stream /\ e = "nil" /\ ~r.error /\ ~r.output => empty
  OBVIOUS
<1> HIDE DEF empty, x, err, diag, blame
<1>6. /\ x \in RelayType /\ x.diag = diag /\ x.blame = blame /\ x.err = err /\ x.output = r.output
      /\ x.error = r.error /\ x.complete = r.complete /\ x.committed = r.committed
      /\ x.cut = r.cut /\ x.unwritten = r.unwritten
  BY <1>1, <1>2 DEF RelayType
<1>7. Settled(x)
  BY <1>2, <1>3, <1>4, <1>5, <1>6 DEF Settled, Endable, CommitsContent, Accounted
<1> QED BY <1>3, <1>6, <1>7 DEF x

LEMMA CollectedSettled ==
    ASSUME NEW r, NEW e, Endable(r, e), req \in AttemptRequest, ModeFits, mode = "collect",
           NEW x \in Collected([r EXCEPT !.chunk = {}], e)
    PROVE  x \in RelayType /\ Settled(x) /\ (r.blame => x.blame)
<1> DEFINE c == [r EXCEPT !.chunk = {}]
<1>1. ~Stream
  BY ModesDistinct DEF ModeFits
<1>2. r \in RelayType /\ e \in Errors /\ r.err = "nil" /\ ~r.diag /\ ~r.committed
      /\ (e \notin {"nil", "canceled"} => Accounted(r))
  BY DEF Endable
<1>3. /\ c \in RelayType /\ c.diag = r.diag /\ c.blame = r.blame /\ c.err = r.err
      /\ c.error = r.error /\ c.complete = r.complete /\ c.committed = r.committed
      /\ c.unwritten = r.unwritten
  BY <1>2 DEF RelayType
<1> HIDE DEF c
<1>4. ~c.committed /\ c.err = "nil" /\ ~c.diag /\ (e \notin {"nil", "canceled"} => Accounted(c))
  BY <1>2, <1>3 DEF Accounted
<1>5. /\ "nil" \in Errors /\ "translate" \in Errors
  BY DEF Errors
<1>6. x \in Collected(c, e)
  BY DEF c
<1>7. CASE x = [c EXCEPT !.err = "nil"]
  <2>1. x \in RelayType /\ x.err = "nil" /\ ~x.diag /\ x.blame = c.blame /\ ~x.committed
    BY <1>3, <1>4, <1>5, <1>7 DEF RelayType
  <2> QED BY <1>1, <1>3, <2>1 DEF Settled, CommitsContent
<1>8. CASE e # "nil" /\ x = [c EXCEPT !.err = e, !.diag = e # "canceled"]
  <2>1. x \in RelayType /\ x.err = e /\ x.blame = c.blame /\ ~x.committed
        /\ x.unwritten = c.unwritten /\ (x.diag <=> e # "canceled")
    BY <1>2, <1>3, <1>4, <1>8 DEF RelayType
  <2> QED BY <1>1, <1>3, <1>4, <1>8, <2>1 DEF Settled, CommitsContent, Accounted
<1>9. CASE x = [c EXCEPT !.diag = TRUE, !.blame = TRUE]
  <2>1. x \in RelayType /\ x.err = "nil" /\ x.blame /\ ~x.committed
    BY <1>3, <1>4, <1>9 DEF RelayType
  <2> QED BY <1>1, <1>3, <2>1 DEF Settled, CommitsContent, Accounted
<1>10. CASE x = [c EXCEPT !.committed = TRUE]
  <2>1. x \in RelayType /\ x.err = "nil" /\ ~x.diag /\ x.blame = c.blame
    BY <1>3, <1>4, <1>10 DEF RelayType
  <2> QED BY <1>1, <1>3, <2>1 DEF Settled, CommitsContent
<1>11. ASSUME NEW d \in BOOLEAN, x = [c EXCEPT !.err = "translate", !.diag = d, !.blame = TRUE]
       PROVE x \in RelayType /\ Settled(x) /\ (r.blame => x.blame)
  <2>1. x \in RelayType /\ x.err = "translate" /\ x.blame /\ ~x.committed
    BY <1>3, <1>4, <1>5, <1>11 DEF RelayType
  <2> QED BY <1>1, <1>3, <2>1 DEF Settled, CommitsContent, Accounted
<1> QED BY <1>6, <1>7, <1>8, <1>9, <1>10, <1>11 DEF Collected

\* However a relay ends, what is known of it then holds.
LEMMA EndRelaySettled ==
    ASSUME NEW r, NEW e, Endable(r, e), req \in AttemptRequest, ModeFits,
           mode # "none", EndRelay(r, e)
    PROVE  relay' \in RelayType /\ Settled(relay') /\ (r.blame => relay'.blame) /\ at' = "settle"
<1>1. CASE mode = "collect"
  BY <1>1, CollectedSettled DEF EndRelay
<1>2. CASE mode # "collect"
  <2>1. Stream \/ mode \in {"direct", "buffered"}
    BY <1>2, ModesDistinct DEF ModeFits
  <2>2. relay' = Ended(r, e) /\ at' = "settle"
    BY <1>2 DEF EndRelay
  <2> QED BY <1>2, <2>1, <2>2, EndedSettled
<1> QED BY <1>1, <1>2

-------------------------------------------------------------------------------
(* The invariant.                                                          *)

\* A timer that fired is held against the upstream.
TimersBlamed == ctx.first = "fired" \/ ctx.total => relay.blame

\* Before its end an answer is relayed as it suits the request, nothing has gone
\* wrong, and what was not read is not there.
RelayedSoFar ==
    /\ at = "send" => /\ mode = "none" /\ Running(relay)
                      /\ ~relay.output /\ ~relay.error /\ ~relay.complete /\ ~relay.committed
    /\ at \in {"read", "hook", "write"} =>
          /\ mode # "none" /\ Running(relay) /\ CommitsContent(relay)
          /\ Stream /\ relay.reads = 0 => ~relay.output /\ ~relay.complete
          /\ mode = "collect" => ~relay.committed
    /\ at \in {"hook", "write"} => relay.reads # 0
    /\ at = "write" => mode # "collect"
    /\ at = "settle" => Settled(relay)

\* No result before the end, and an earned one after it.
ResultEarned ==
    /\ Busy => result = Pending
    /\ NoRetryAfterBytes
    /\ OutcomeEarned

AttemptInv == AttemptTyped /\ ModeFits /\ (Busy => TimersBlamed) /\ RelayedSoFar /\ ResultEarned

LEMMA FreshTyped ==
    /\ Fresh \in RelayType /\ Running(Fresh) /\ ~Fresh.blame
    /\ ~Fresh.output /\ ~Fresh.error /\ ~Fresh.complete /\ ~Fresh.committed
    /\ Calm \in ContextType /\ Calm.first = "armed" /\ ~Calm.total
BY DEF Fresh, RelayType, Running, Calm, ContextType, Errors

LEMMA PendingEarned ==
    /\ Pending.kind = "pending" /\ ~Pending.whole
    /\ result = Pending => NoRetryAfterBytes /\ OutcomeEarned
BY DEF Pending, NoRetryAfterBytes, OutcomeEarned, Cooling

LEMMA AttemptStarts ==
    ASSUME AttemptInit
    PROVE  AttemptInv
<1>1. req \in [stream : BOOLEAN, mode : {"none"}, fallback : BOOLEAN, resent : {{}}]
      /\ at = "send" /\ relay = Fresh /\ ctx = Calm /\ result = Pending
  BY DEF AttemptInit
<1>2. req \in AttemptRequest /\ mode = "none"
  BY <1>1 DEF AttemptRequest, RequestModes, mode
<1>3. AttemptTyped /\ ModeFits
  BY <1>1, <1>2, FreshTyped DEF AttemptTyped, ModeFits
<1>4. TimersBlamed /\ RelayedSoFar
  BY <1>1, <1>2, FreshTyped DEF TimersBlamed, RelayedSoFar
<1>5. ResultEarned
  BY <1>1, PendingEarned DEF ResultEarned
<1> QED BY <1>3, <1>4, <1>5 DEF AttemptInv

-------------------------------------------------------------------------------
(* The steps.                                                              *)

Relaying == {"send", "read", "hook", "write", "settle"}

\* A step that leaves the attempt without a result.
LEMMA StillBusy ==
    ASSUME AttemptInv, Busy, result' = result, at' \in Relaying,
           req' \in AttemptRequest, relay' \in RelayType, ctx' \in ContextType,
           ModeFits', TimersBlamed', RelayedSoFar'
    PROVE  AttemptInv'
<1>1. AttemptTyped'
  BY DEF AttemptTyped, Relaying
<1>2. result' = Pending
  BY DEF AttemptInv, ResultEarned
<1>3. result'.kind = "pending" /\ ~result'.whole
  BY <1>2, PendingEarned
<1>4. ResultEarned'
  BY <1>2, <1>3 DEF ResultEarned, NoRetryAfterBytes, OutcomeEarned, Cooling
<1> QED BY <1>1, <1>4 DEF AttemptInv

\* The same, when the request stays the same and the client and the timers do
\* what they do.
LEMMA RequestKept ==
    ASSUME AttemptInv, req' = req
    PROVE  /\ mode' = mode /\ (Stream' <=> Stream)
           /\ ModeFits' /\ req' \in AttemptRequest
BY DEF AttemptInv, AttemptTyped, mode, Stream, ModeFits

LEMMA SettledKept ==
    ASSUME req' = req, Settled(relay')
    PROVE  Settled(relay)'
BY DEF Settled, CommitsContent, mode, Stream, Accounted

\* A relay that ends.
LEMMA EndStep ==
    ASSUME AttemptInv, Busy, NEW r, NEW e, Endable(r, e), mode # "none", EndRelay(r, e),
           req' = req, result' = result, ctx' \in ContextType,
           ctx'.first = ctx.first \/ ctx'.first # "fired", ctx'.total = ctx.total,
           relay.blame => r.blame
    PROVE  AttemptInv'
<1>1. req \in AttemptRequest /\ ModeFits
  BY DEF AttemptInv, AttemptTyped
<1>2. relay' \in RelayType /\ Settled(relay') /\ (r.blame => relay'.blame) /\ at' = "settle"
  BY <1>1, EndRelaySettled
<1>3. TimersBlamed'
  BY <1>2 DEF TimersBlamed, AttemptInv
<1>4. RelayedSoFar'
  BY <1>2, SettledKept DEF RelayedSoFar
<1> QED BY <1>2, <1>3, <1>4, RequestKept, StillBusy DEF Relaying

LEMMA InterferenceKeeps ==
    ASSUME AttemptInv, Interference
    PROVE  AttemptInv'
<1>1. Busy /\ req' = req /\ at' = at /\ result' = result
  BY DEF Interference, ClientLost, ContextCancelled, FirstByteTimeout, TotalTimeout
<1>2. relay \in RelayType /\ ctx \in ContextType /\ TimersBlamed /\ RelayedSoFar
  BY <1>1 DEF AttemptInv, AttemptTyped
<1>3. /\ ctx' \in ContextType
      /\ \/ relay' = relay /\ ctx'.first = ctx.first /\ ctx'.total = ctx.total
         \/ relay' = [relay EXCEPT !.blame = TRUE]
  <2>1. CASE ClientLost \/ ContextCancelled
    BY <1>2, <2>1 DEF ClientLost, ContextCancelled, ContextType
  <2>2. CASE FirstByteTimeout \/ TotalTimeout
    BY <1>2, <2>2 DEF FirstByteTimeout, TotalTimeout, ContextType
  <2> QED BY <2>1, <2>2 DEF Interference
<1>4. /\ relay' \in RelayType /\ relay'.reads = relay.reads /\ relay'.output = relay.output
      /\ relay'.error = relay.error /\ relay'.complete = relay.complete
      /\ relay'.committed = relay.committed /\ relay'.err = relay.err
      /\ relay'.diag = relay.diag /\ relay'.cut = relay.cut
      /\ relay'.unwritten = relay.unwritten /\ (relay.blame => relay'.blame)
  BY <1>2, <1>3 DEF RelayType
<1>5. TimersBlamed'
  BY <1>2, <1>3 DEF TimersBlamed, RelayType
<1>6. Settled(relay) => Settled(relay')
  BY <1>4 DEF Settled, CommitsContent, Accounted
<1>7. RelayedSoFar'
  BY <1>1, <1>2, <1>4, <1>6, RequestKept, SettledKept DEF RelayedSoFar, Running, CommitsContent
<1>8. at' \in Relaying
  BY <1>1 DEF Busy, Relaying
<1> QED BY <1>1, <1>3, <1>4, <1>5, <1>7, <1>8, RequestKept, StillBusy

\* An attempt that ends with what it earned.
LEMMA EndEarned ==
    ASSUME AttemptInv, NEW k, NEW w, End(k, w),
           k = "failed" /\ relay.committed => ctx.first = "fired" \/ mode \in {"direct", "buffered"},
           Stream /\ relay.output /\ relay.complete /\ ~relay.error => k = "success",
           Stream /\ k = "success" =>
              /\ ~relay.error
              /\ relay.cut => relay.complete
              /\ relay.committed \/ (relay.complete /\ ~relay.output),
           k \in Cooling => relay.blame \/ w = "answer" \/ relay.unwritten
    PROVE  AttemptInv'
<1>1. /\ result'.kind = k /\ result'.shown = relay.committed /\ result'.complete = relay.complete
      /\ result'.whole = (relay.output /\ relay.complete /\ ~relay.error)
      /\ result'.error = relay.error /\ result'.cut = relay.cut
      /\ result'.late = (ctx.first = "fired")
      /\ result'.blame = (relay.blame \/ w = "answer") /\ result'.unwritten = relay.unwritten
      /\ at' \in {"input", "done"} /\ relay' = Fresh /\ ctx' = Calm /\ req' = req
  BY DEF End
<1>2. mode' = mode /\ (Stream' <=> Stream) /\ ModeFits' /\ req' \in AttemptRequest
  BY <1>1, RequestKept
<1>3. AttemptTyped'
  BY <1>1, <1>2, FreshTyped DEF AttemptTyped
<1>4. ~Busy'
  BY <1>1 DEF Busy
<1>5. RelayedSoFar'
  BY <1>1 DEF RelayedSoFar
<1>6. NoRetryAfterBytes'
  BY <1>1, <1>2 DEF NoRetryAfterBytes
<1>7. OutcomeEarned'
  BY <1>1, <1>2 DEF OutcomeEarned
<1> QED BY <1>2, <1>3, <1>4, <1>5, <1>6, <1>7 DEF AttemptInv, ResultEarned

\* Before the answer nothing of it can have been relayed.
LEMMA EndUnsent ==
    ASSUME AttemptInv, at = "send", NEW k, NEW w, End(k, w),
           k \in {"missing", "returned", "skipped", "failed"},
           k = "failed" => w = "answer"
    PROVE  AttemptInv'
<1>1. ~relay.committed /\ ~relay.output
  BY DEF AttemptInv, RelayedSoFar
<1>2. k # "success" /\ (k \in Cooling => w = "answer")
  BY DEF Cooling
<1> QED BY <1>1, <1>2, EndEarned

LEMMA UnsentEnds ==
    ASSUME AttemptInv, TranslateFails \/ LimitExceeded
    PROVE  AttemptInv'
<1>1. at = "send"
  BY DEF TranslateFails, LimitExceeded
<1>2. End("missing", "nil") \/ End("returned", "nil") \/ End("skipped", "nil")
  BY DEF TranslateFails, LimitExceeded
<1> QED BY <1>1, <1>2, EndUnsent

\* An error before the answer.
LEMMA SendError ==
    ASSUME AttemptInv, at = "send", at' = "settle", req' = req, ctx' = ctx, result' = result,
           NEW e \in Errors \ {"nil"},
           \/ e # "canceled" /\ relay' = [relay EXCEPT !.err = e, !.blame = TRUE]
           \/ e = "canceled" /\ relay' = [relay EXCEPT !.err = e]
           \/ e = "deadline" /\ ctx.total /\ relay' = [relay EXCEPT !.err = e]
    PROVE  AttemptInv'
<1>1. Busy
  BY DEF Busy
<1>2. relay \in RelayType /\ ctx \in ContextType /\ TimersBlamed /\ Running(relay)
      /\ ~relay.output /\ ~relay.committed
  BY <1>1 DEF AttemptInv, AttemptTyped, RelayedSoFar
<1>3. /\ relay' \in RelayType /\ relay'.err = e /\ ~relay'.diag /\ ~relay'.cut
      /\ ~relay'.output /\ ~relay'.committed /\ (relay.blame => relay'.blame)
      /\ (e # "canceled" => relay'.blame)
  BY <1>2 DEF RelayType, Running, TimersBlamed
<1>4. Settled(relay')
  BY <1>3 DEF Settled, CommitsContent, Accounted
<1>5. TimersBlamed' /\ RelayedSoFar'
  BY <1>2, <1>3, <1>4, SettledKept DEF TimersBlamed, RelayedSoFar
<1>6. relay' \in RelayType /\ ctx' \in ContextType /\ at' \in Relaying
  BY <1>2, <1>3 DEF Relaying
<1> QED BY <1>1, <1>5, <1>6, RequestKept, StillBusy

LEMMA SendErrors ==
    ASSUME AttemptInv, SendFails \/ SendCancelled \/ BadAnswer
    PROVE  AttemptInv'
<1>1. at = "send" /\ at' = "settle" /\ req' = req /\ ctx' = ctx /\ result' = result
  BY DEF SendFails, SendCancelled, BadAnswer
<1>2. CASE SendFails
  <2>1. relay' = [relay EXCEPT !.err = "network", !.blame = TRUE]
    BY <1>2 DEF SendFails
  <2>2. "network" \in Errors \ {"nil"} /\ "network" # "canceled"
    BY DEF Errors
  <2> QED BY <1>1, <2>1, <2>2, SendError
<1>3. CASE SendCancelled
  <2>1. \/ ContextError = "canceled" 
        \/ ContextError = "deadline" /\ ctx.total
    BY DEF ContextError
  <2> QED BY <1>1, <1>3, <2>1, SendError DEF SendCancelled, Errors
<1>4. CASE BadAnswer
  <2>1. PICK e \in {"invalid", "empty"} : relay' = [relay EXCEPT !.err = e, !.blame = TRUE]
    BY <1>4 DEF BadAnswer
  <2> QED BY <1>1, <2>1, SendError DEF Errors
<1> QED BY <1>2, <1>3, <1>4

LEMMA ErrorResponseKeeps ==
    ASSUME AttemptInv, ErrorResponse
    PROVE  AttemptInv'
<1>1. at = "send" /\ Busy
  BY DEF ErrorResponse, Busy
<1>2. CASE End("missing", "nil") \/ End("returned", "nil") \/ End("failed", "answer")
  BY <1>1, <1>2, EndUnsent
<1>3. ASSUME NEW s \in RetryStrategies, req' = [req EXCEPT !.resent = @ \cup {s}],
             ctx' = [Calm EXCEPT !.client = ctx.client], relay' = Fresh,
             UNCHANGED <<at, result, verdict>>
      PROVE  AttemptInv'
  <2>1. req \in AttemptRequest /\ ctx \in ContextType /\ mode = "none"
    BY <1>1 DEF AttemptInv, AttemptTyped, RelayedSoFar
  <2>2. req' \in AttemptRequest /\ req'.mode = "none"
    BY <1>3, <2>1 DEF AttemptRequest, mode
  <2>3. ctx' \in ContextType /\ ctx'.first = "armed" /\ ~ctx'.total
    BY <1>3, <2>1 DEF ContextType, Calm
  <2>4. ModeFits' /\ TimersBlamed'
    BY <2>2, <2>3 DEF ModeFits, mode, TimersBlamed
  <2>5. at' = "send" /\ result' = result
    BY <1>1, <1>3
  <2>6. RelayedSoFar'
    BY <1>3, <2>2, <2>5, FreshTyped DEF RelayedSoFar, mode
  <2> QED BY <1>1, <1>3, <2>2, <2>3, <2>4, <2>5, <2>6, FreshTyped, StillBusy DEF Relaying
<1> QED BY <1>2, <1>3 DEF ErrorResponse

LEMMA HeadersKeeps ==
    ASSUME AttemptInv, Headers
    PROVE  AttemptInv'
<1>1. at = "send" /\ at' = "read" /\ Busy /\ ctx' = ctx /\ result' = result
  BY DEF Headers, Busy
<1>2. PICK m \in IF Stream THEN StreamModes ELSE BodyModes :
           /\ req' = [req EXCEPT !.mode = m]
           /\ relay' = [relay EXCEPT !.committed = m = "direct"]
  BY DEF Headers
<1>3. req \in AttemptRequest /\ relay \in RelayType /\ ctx \in ContextType
      /\ Running(relay) /\ ~relay.output /\ ~relay.error /\ ~relay.complete /\ TimersBlamed
  BY <1>1 DEF AttemptInv, AttemptTyped, RelayedSoFar
<1>4. m \in RequestModes /\ m # "none" /\ (Stream => m # "direct" /\ m # "collect")
  BY <1>2 DEF RequestModes, StreamModes, EventModes, BodyModes
<1>5. req' \in AttemptRequest /\ req'.mode = m /\ req'.stream = req.stream
  BY <1>2, <1>3, <1>4 DEF AttemptRequest
<1>6. mode' = m /\ (Stream' <=> Stream) /\ ModeFits'
  BY <1>2, <1>5 DEF mode, Stream, ModeFits
<1>7. /\ relay' \in RelayType /\ (relay'.committed <=> m = "direct") /\ Running(relay')
      /\ ~relay'.output /\ ~relay'.error /\ ~relay'.complete /\ relay'.blame = relay.blame
  BY <1>2, <1>3 DEF RelayType, Running
<1>8. TimersBlamed'
  BY <1>1, <1>3, <1>7 DEF TimersBlamed
<1>9. CommitsContent(relay)'
  BY <1>4, <1>6, <1>7 DEF CommitsContent
<1>10. RelayedSoFar'
  BY <1>1, <1>4, <1>6, <1>7, <1>9 DEF RelayedSoFar, Running
<1>11. at' \in Relaying
  BY <1>1 DEF Relaying
<1> QED BY <1>1, <1>3, <1>5, <1>6, <1>7, <1>8, <1>10, <1>11, StillBusy

\* What holds of a relay that is under way.
LEMMA UnderWay ==
    ASSUME AttemptInv, at \in {"read", "hook", "write"}
    PROVE  /\ Busy /\ relay \in RelayType /\ ctx \in ContextType /\ req \in AttemptRequest
           /\ ModeFits /\ TimersBlamed /\ CommitsContent(relay) /\ mode # "none"
           /\ relay.err = "nil" /\ ~relay.diag /\ ~relay.cut
           /\ (Stream /\ relay.reads = 0 => ~relay.output /\ ~relay.complete)
           /\ (mode = "collect" => ~relay.committed)
           /\ (Stream => mode \in StreamModes) /\ (~Stream => mode \in BodyModes)
<1>1. Busy
  BY DEF Busy
<1>2. mode # "none" /\ Running(relay) /\ CommitsContent(relay) /\ ModeFits
      /\ (Stream /\ relay.reads = 0 => ~relay.output /\ ~relay.complete)
      /\ (mode = "collect" => ~relay.committed)
  BY DEF AttemptInv, RelayedSoFar
<1> QED BY <1>1, <1>2 DEF AttemptInv, AttemptTyped, Running, ModeFits

\* A relay that goes on.
LEMMA GoesOn ==
    ASSUME AttemptInv, at \in {"read", "hook", "write"}, at' \in {"read", "hook", "write"},
           req' = req, result' = result, ctx' \in ContextType,
           ctx'.first = ctx.first \/ ctx'.first # "fired", ctx'.total = ctx.total,
           relay' \in RelayType, relay'.err = "nil", ~relay'.diag, ~relay'.cut,
           CommitsContent(relay'), relay.blame => relay'.blame,
           Stream /\ relay'.reads = 0 => ~relay'.output /\ ~relay'.complete,
           mode = "collect" => ~relay'.committed /\ at' # "write",
           at' \in {"hook", "write"} => relay'.reads # 0
    PROVE  AttemptInv'
<1>1. Busy /\ at' \in Relaying /\ at' # "send" /\ at' # "settle"
  BY DEF Busy, Relaying
<1>2. mode # "none" /\ TimersBlamed
  BY UnderWay
<1>3. mode' = mode /\ (Stream' <=> Stream) /\ ModeFits' /\ req' \in AttemptRequest
  BY RequestKept
<1>4. TimersBlamed'
  BY <1>2 DEF TimersBlamed
<1>5. CommitsContent(relay)'
  BY <1>3 DEF CommitsContent
<1>6. RelayedSoFar'
  BY <1>1, <1>2, <1>3, <1>5 DEF RelayedSoFar, Running
<1> QED BY <1>1, <1>3, <1>4, <1>6, StillBusy

LEMMA ReadKeeps ==
    ASSUME AttemptInv, Read
    PROVE  AttemptInv'
<1>1. /\ at = "read" /\ at' = "hook" /\ req' = req /\ ctx' = ctx /\ result' = result
  BY DEF Read
<1>2. PICK c \in Chunks : relay' = [relay EXCEPT !.chunk = c, !.reads = @ + 1]
  BY DEF Read
<1>3. c \in SUBSET Events
  <2>1. CASE mode = "copy"
    BY <2>1 DEF Chunks
  <2>2. CASE mode \in {"codex", "translate", "collect"}
    BY <2>2 DEF Chunks
  <2>3. CASE mode \notin {"copy", "codex", "translate", "collect"}
    BY <2>3 DEF Chunks, Events
  <2> QED BY <2>1, <2>2, <2>3
<1>4. relay \in RelayType /\ ctx \in ContextType
  BY <1>1, UnderWay
<1>5. /\ relay' \in RelayType /\ relay'.reads = relay.reads + 1 /\ relay.reads \in Nat
      /\ relay'.err = relay.err /\ relay'.diag = relay.diag /\ relay'.cut = relay.cut
      /\ relay'.output = relay.output /\ relay'.error = relay.error
      /\ relay'.committed = relay.committed /\ relay'.blame = relay.blame
  <2>1. PICK n \in Nat : n = relay.reads + 1 /\ relay.reads \in Nat
    BY <1>4 DEF RelayType
  <2>2. relay' = [relay EXCEPT !.chunk = c, !.reads = n]
    BY <1>2, <2>1
  <2> QED BY <1>3, <1>4, <2>1, <2>2 DEF RelayType
<1>6. CommitsContent(relay')
  BY <1>1, <1>5, UnderWay DEF CommitsContent
<1> QED BY <1>1, <1>4, <1>5, <1>6, UnderWay, GoesOn

\* The end of an answer that could be ended as it is.
LEMMA EndableNow ==
    ASSUME AttemptInv, at \in {"read", "hook", "write"},
           NEW e \in Errors, e \notin {"nil", "canceled"} => relay.blame
    PROVE  Endable(relay, e)
BY UnderWay DEF Endable, Accounted

LEMMA ContextErrorBlamed ==
    ASSUME AttemptInv, at \in {"read", "hook", "write"}
    PROVE  /\ ContextError \in Errors
           /\ ContextError \notin {"nil", "canceled"} => relay.blame
BY UnderWay DEF ContextError, Errors, TimersBlamed

LEMMA ClosedKeeps ==
    ASSUME AttemptInv, Closed \/ ReadCancelled
    PROVE  AttemptInv'
<1>1. at = "read" /\ req' = req /\ ctx' = ctx /\ result' = result
      /\ (EndRelay(relay, "nil") \/ EndRelay(relay, ContextError))
  BY DEF Closed, ReadCancelled
<1>2. "nil" \in Errors
  BY DEF Errors
<1>3. Endable(relay, "nil") /\ Endable(relay, ContextError)
  BY <1>1, <1>2, EndableNow, ContextErrorBlamed
<1>4. Busy /\ mode # "none" /\ ctx \in ContextType
  BY <1>1, UnderWay
<1> QED BY <1>1, <1>3, <1>4, EndStep

LEMMA BrokenKeeps ==
    ASSUME AttemptInv, Broken
    PROVE  AttemptInv'
<1> DEFINE cut == [relay EXCEPT !.cut = TRUE, !.blame = TRUE]
<1>1. at = "read" /\ req' = req /\ ctx' = ctx /\ result' = result
  BY DEF Broken
<1>2. \/ /\ relay.reads = 0 /\ mode \in EventModes \cup {"buffered"}
         /\ relay' = [cut EXCEPT !.err = "read"] /\ at' = "settle"
      \/ EndRelay(cut, "read")
      \/ mode = "direct" /\ EndRelay(cut, "nil")
  BY DEF Broken
<1>3. relay \in RelayType
  BY <1>1, UnderWay
<1>4. "nil" \in Errors /\ "read" \in Errors
  BY DEF Errors
<1>5. /\ cut \in RelayType /\ cut.cut /\ cut.blame /\ cut.err = relay.err /\ cut.diag = relay.diag
      /\ cut.output = relay.output /\ cut.error = relay.error /\ cut.complete = relay.complete
      /\ cut.committed = relay.committed
  BY <1>3 DEF RelayType
<1> HIDE DEF cut
<1>6. Endable(cut, "read") /\ (mode = "direct" => Endable(cut, "nil"))
  <2>1. mode = "direct" => ~Stream
    BY <1>1, UnderWay DEF StreamModes, EventModes
  <2> QED BY <1>1, <1>4, <1>5, <2>1, UnderWay DEF Endable, CommitsContent, Accounted
<1>7. CASE EndRelay(cut, "read") \/ (mode = "direct" /\ EndRelay(cut, "nil"))
  BY <1>1, <1>5, <1>6, <1>7, UnderWay, EndStep
<1>8. CASE /\ relay.reads = 0 /\ mode \in EventModes \cup {"buffered"}
           /\ relay' = [cut EXCEPT !.err = "read"] /\ at' = "settle"
  <2>1. /\ relay' \in RelayType /\ relay'.err = "read" /\ relay'.blame /\ ~relay'.diag
        /\ relay'.output = relay.output /\ relay'.error = relay.error
        /\ relay'.complete = relay.complete /\ relay'.committed = relay.committed
    BY <1>1, <1>4, <1>5, <1>8, UnderWay DEF RelayType
  <2>2. /\ Stream => ~relay.output /\ ~relay.complete /\ ~relay.committed
        /\ ~Stream => mode = "buffered"
    BY <1>1, <1>8, UnderWay, ModesDistinct DEF CommitsContent, StreamModes, BodyModes
  <2>3. Settled(relay')
    BY <2>1, <2>2 DEF Settled, CommitsContent, Accounted
  <2>4. TimersBlamed' /\ RelayedSoFar'
    BY <1>8, <1>1, <2>1, <2>3, SettledKept DEF TimersBlamed, RelayedSoFar
  <2> QED BY <1>1, <1>8, <2>1, <2>4, UnderWay, RequestKept, StillBusy DEF Relaying
<1> QED BY <1>2, <1>7, <1>8

\* What feeding a chunk does.
LEMMA FedTyped ==
    ASSUME AttemptInv, at = "hook", NEW f, f = Fed(relay)
    PROVE  /\ f \in RelayType /\ f.err = "nil" /\ ~f.diag /\ ~f.cut /\ f.reads = relay.reads
           /\ f.committed = relay.committed /\ f.unwritten = relay.unwritten
           /\ (relay.blame => f.blame) /\ (relay.output => f.output) /\ (relay.error => f.error)
           /\ relay.reads # 0
<1>1. relay \in RelayType /\ relay.err = "nil" /\ ~relay.diag /\ ~relay.cut
  BY UnderWay
<1>2. PICK o \in BOOLEAN, e \in BOOLEAN, d \in BOOLEAN, b \in BOOLEAN :
         /\ f = [relay EXCEPT !.output = o, !.error = e, !.complete = d, !.blame = b]
         /\ (relay.output => o) /\ (relay.error => e) /\ (relay.blame => b)
  <2> DEFINE o == relay.output \/ relay.chunk \cap {"output", "stop"} # {}
             e == relay.error \/ "error" \in relay.chunk
             d == relay.complete \/ "stop" \in relay.chunk \/ ("done" \in relay.chunk /\ Stream)
             b == relay.blame \/ "error" \in relay.chunk
  <2>1. f = [relay EXCEPT !.output = o, !.error = e, !.complete = d, !.blame = b]
    BY DEF Fed
  <2>2. /\ o \in BOOLEAN /\ e \in BOOLEAN /\ d \in BOOLEAN /\ b \in BOOLEAN
        /\ (relay.output => o) /\ (relay.error => e) /\ (relay.blame => b)
    OBVIOUS
  <2> HIDE DEF o, e, d, b
  <2> QED BY <2>1, <2>2
<1>3. relay.reads # 0
  BY DEF AttemptInv, RelayedSoFar
<1> QED BY <1>1, <1>2, <1>3 DEF RelayType

LEMMA CollectKeeps ==
    ASSUME AttemptInv, Collect
    PROVE  AttemptInv'
<1> DEFINE f == Fed(relay)
           fed == [f EXCEPT !.chunk = {}]
<1>1. at = "hook" /\ ~Stream /\ req' = req /\ ctx' = ctx /\ result' = result
  BY DEF Collect
<1>2. \/ mode # "collect" /\ relay' = fed /\ at' = "write"
      \/ mode = "collect" /\ EndRelay(fed, "nil")
      \/ mode = "collect" /\ relay' = fed /\ at' = "read"
  BY DEF Collect
<1>3. /\ f \in RelayType /\ f.err = "nil" /\ ~f.diag /\ ~f.cut /\ f.reads = relay.reads
      /\ f.committed = relay.committed /\ (relay.blame => f.blame) /\ relay.reads # 0
  BY <1>1, FedTyped
<1> HIDE DEF f
<1>4. /\ fed \in RelayType /\ fed.err = "nil" /\ ~fed.diag /\ ~fed.cut /\ fed.reads = relay.reads
      /\ fed.committed = relay.committed /\ (relay.blame => fed.blame)
  BY <1>3 DEF RelayType
<1> HIDE DEF fed
<1>5. CommitsContent(fed)
  BY <1>1 DEF CommitsContent
<1>6. mode = "collect" => Endable(fed, "nil")
  BY <1>1, <1>4, <1>5, UnderWay DEF Endable, Errors
<1>7. CASE relay' = fed /\ ((mode # "collect" /\ at' = "write") \/ (mode = "collect" /\ at' = "read"))
  BY <1>1, <1>3, <1>4, <1>5, <1>7, UnderWay, GoesOn
<1>8. CASE mode = "collect" /\ EndRelay(fed, "nil")
  BY <1>1, <1>4, <1>6, <1>8, UnderWay, EndStep
<1> QED BY <1>2, <1>7, <1>8

LEMMA HookKeeps ==
    ASSUME AttemptInv, Hook
    PROVE  AttemptInv'
<1> DEFINE fed == Fed(relay)
           r == beforeWrite(fed)
           bad == [r EXCEPT !.blame = TRUE]
           abort == fed.error /\ ~r.committed
           t(done) == [r EXCEPT !.complete = @ \/ done]
           w(done) == [t(done) EXCEPT !.stop = mode \in {"codex", "translate"} /\ t(done).complete]
<1>1. at = "hook" /\ Stream /\ req' = req /\ result' = result
  BY DEF Hook
<1>2. ctx' = stopFirstByteTimer \/ ctx' = ctx
  BY DEF Hook
<1>3. ctx' \in ContextType /\ (ctx'.first = ctx.first \/ ctx'.first # "fired") /\ ctx'.total = ctx.total
  BY <1>1, <1>2, UnderWay DEF stopFirstByteTimer, ContextType
<1>4. \/ abort /\ EndRelay(fed, "nil")
      \/ ~abort /\ at' = "write" /\ \E done \in BOOLEAN : relay' = w(done)
      \/ ~abort /\ EndRelay(bad, "translate")
  BY DEF Hook
<1>5. /\ fed \in RelayType /\ fed.err = "nil" /\ ~fed.diag /\ ~fed.cut /\ fed.reads = relay.reads
      /\ fed.committed = relay.committed
      /\ (relay.blame => fed.blame) /\ (relay.output => fed.output) /\ relay.reads # 0
  BY <1>1, FedTyped
<1>6. \/ r = [fed EXCEPT !.committed = TRUE] /\ fed.output /\ ~fed.error
      \/ r = fed /\ ~(fed.output /\ ~fed.error)
  BY DEF beforeWrite
<1> HIDE DEF fed
<1>7. /\ r \in RelayType /\ r.err = "nil" /\ ~r.diag /\ ~r.cut /\ r.reads = relay.reads
      /\ r.output = fed.output /\ r.error = fed.error /\ r.blame = fed.blame
      /\ (r.committed <=> relay.committed \/ (fed.output /\ ~fed.error))
  BY <1>5, <1>6 DEF RelayType
<1>8. CommitsContent(r) /\ mode # "collect" /\ mode # "none"
  BY <1>1, <1>5, <1>7, UnderWay, ModesDistinct DEF CommitsContent
<1> HIDE DEF r
<1>9. /\ bad \in RelayType /\ bad.err = "nil" /\ ~bad.diag /\ ~bad.cut /\ bad.blame
      /\ bad.output = r.output /\ bad.error = r.error /\ bad.committed = r.committed
  BY <1>7 DEF RelayType
<1>10. Endable(bad, "translate")
  BY <1>8, <1>9 DEF Endable, CommitsContent, Accounted, Errors
<1>11. CASE ~abort /\ EndRelay(bad, "translate")
  <2> HIDE DEF bad
  <2> QED BY <1>1, <1>3, <1>8, <1>9, <1>10, <1>11, UnderWay, EndStep
<1>12. CASE abort /\ EndRelay(fed, "nil")
  <2>1. ~relay.committed /\ fed.error
    BY <1>7, <1>12
  <2>2. Endable(fed, "nil")
    BY <1>5, <1>8, <2>1 DEF Endable, CommitsContent, Errors
  <2> QED BY <1>1, <1>3, <1>5, <1>8, <1>12, <2>2, UnderWay, EndStep
<1>13. CASE ~abort /\ at' = "write" /\ \E done \in BOOLEAN : relay' = w(done)
  <2>1. PICK done \in BOOLEAN : relay' = w(done)
    BY <1>13
  <2>2. PICK c \in BOOLEAN, s \in BOOLEAN : relay' = [r EXCEPT !.complete = c, !.stop = s]
    <3> DEFINE c == r.complete \/ done
               s == mode \in {"codex", "translate"} /\ t(done).complete
    <3>1. t(done) = [r EXCEPT !.complete = c]
      OBVIOUS
    <3>2. c \in BOOLEAN /\ s \in BOOLEAN /\ relay' = [[r EXCEPT !.complete = c] EXCEPT !.stop = s]
      BY <2>1, <3>1
    <3> HIDE DEF c, s
    <3> QED BY <3>2, <1>7 DEF RelayType
  <2>3. /\ relay' \in RelayType /\ relay'.err = "nil" /\ ~relay'.diag /\ ~relay'.cut
        /\ relay'.reads = relay.reads /\ relay'.output = r.output /\ relay'.error = r.error
        /\ relay'.committed = r.committed /\ relay'.blame = r.blame
    BY <1>7, <2>2 DEF RelayType
  <2>4. CommitsContent(relay') /\ (relay.blame => relay'.blame) /\ relay'.reads # 0
    BY <1>5, <1>7, <1>8, <2>3 DEF CommitsContent
  <2> QED BY <1>1, <1>3, <1>8, <1>13, <2>3, <2>4, GoesOn
<1> QED BY <1>4, <1>11, <1>12, <1>13

LEMMA WriteKeeps ==
    ASSUME AttemptInv, Write
    PROVE  AttemptInv'
<1> DEFINE r == [relay EXCEPT !.chunk = {}]
           u == [r EXCEPT !.unwritten = TRUE]
<1>1. at = "write" /\ req' = req /\ ctx' = ctx /\ result' = result
  BY DEF Write
<1>2. \/ relay' = r /\ at' = "read"
      \/ r.stop /\ EndRelay(r, "nil")
      \/ r.committed /\ EndRelay(u, "write")
  BY DEF Write
<1>3. /\ relay \in RelayType /\ ctx \in ContextType /\ mode # "none" /\ mode # "collect"
  BY <1>1, UnderWay DEF AttemptInv, RelayedSoFar
<1>4. /\ r \in RelayType /\ r.err = relay.err /\ r.diag = relay.diag /\ r.cut = relay.cut
      /\ r.reads = relay.reads /\ r.output = relay.output /\ r.error = relay.error
      /\ r.complete = relay.complete /\ r.committed = relay.committed /\ r.blame = relay.blame
  BY <1>3 DEF RelayType
<1> HIDE DEF r
<1>5. /\ u \in RelayType /\ u.err = r.err /\ u.diag = r.diag /\ u.cut = r.cut
      /\ u.output = r.output /\ u.error = r.error /\ u.committed = r.committed
      /\ u.blame = r.blame /\ u.unwritten
  BY <1>4 DEF RelayType
<1> HIDE DEF u
<1>6. CommitsContent(r) /\ CommitsContent(u)
  BY <1>1, <1>4, <1>5, UnderWay DEF CommitsContent
<1>7. Endable(r, "nil") /\ Endable(u, "write")
  BY <1>1, <1>3, <1>4, <1>5, <1>6, UnderWay DEF Endable, Accounted, Errors
<1>8. CASE relay' = r /\ at' = "read"
  BY <1>1, <1>3, <1>4, <1>6, <1>8, UnderWay, GoesOn
<1>9. CASE EndRelay(r, "nil")
  BY <1>1, <1>3, <1>4, <1>7, <1>9, UnderWay, EndStep
<1>10. CASE EndRelay(u, "write")
  BY <1>1, <1>3, <1>4, <1>5, <1>7, <1>10, UnderWay, EndStep
<1> QED BY <1>2, <1>8, <1>9, <1>10

LEMMA WriteBodyKeeps ==
    ASSUME AttemptInv, WriteBody
    PROVE  AttemptInv'
<1> DEFINE r == [relay EXCEPT !.committed = TRUE]
           u == [r EXCEPT !.unwritten = TRUE]
<1>1. at = "write" /\ mode = "buffered" /\ req' = req /\ ctx' = ctx /\ result' = result
  BY DEF WriteBody
<1>2. EndRelay(r, "nil") \/ EndRelay(r, ContextError) \/ EndRelay(u, "write")
  BY DEF WriteBody
<1>3. relay \in RelayType /\ ctx \in ContextType /\ ~Stream
  BY <1>1, UnderWay, ModesDistinct DEF StreamModes, EventModes
<1>4. /\ r \in RelayType /\ r.err = relay.err /\ r.diag = relay.diag /\ r.cut = relay.cut
      /\ r.blame = relay.blame
  BY <1>3 DEF RelayType
<1> HIDE DEF r
<1>5. /\ u \in RelayType /\ u.err = r.err /\ u.diag = r.diag /\ u.cut = r.cut
      /\ u.blame = r.blame /\ u.unwritten
  BY <1>4 DEF RelayType
<1> HIDE DEF u
<1>6. Endable(r, "nil") /\ Endable(r, ContextError) /\ Endable(u, "write")
  BY <1>1, <1>3, <1>4, <1>5, UnderWay, ContextErrorBlamed
     DEF Endable, Accounted, Errors, CommitsContent
<1> QED BY <1>1, <1>2, <1>3, <1>4, <1>5, <1>6, UnderWay, EndStep

\* What is known where an attempt settles.
LEMMA AtSettle ==
    ASSUME AttemptInv, at = "settle"
    PROVE  /\ Settled(relay) /\ relay \in RelayType /\ ctx \in ContextType
           /\ TimersBlamed
BY DEF AttemptInv, AttemptTyped, RelayedSoFar, Busy

\* The cause of an error: a timer that fired, the context's end, or the error.
LEMMA CauseKnown ==
    /\ Cause = "nil" <=> relay.err = "nil"
    /\ Cause # "nil" =>
         \/ Cause = "firstbyte" /\ ctx.first = "fired"
         \/ Cause = "streamtimeout" /\ ctx.total /\ Stream
         \/ Cause = "canceled"
         \/ Cause = "deadline" /\ ctx.total /\ ~Stream
         \/ Cause = relay.err
<1>1. CASE relay.err = "nil"
  BY <1>1 DEF Cause
<1>2. CASE relay.err # "nil" /\ ctx.first = "fired"
  BY <1>2 DEF Cause
<1>3. CASE relay.err # "nil" /\ ctx.first # "fired" /\ ctx.total /\ Stream
  BY <1>3 DEF Cause
<1>4. CASE relay.err # "nil" /\ ctx.first # "fired" /\ ~(ctx.total /\ Stream)
  <2>1. Cause = IF Cancelled /\ relay.err # "network" THEN ContextError ELSE relay.err
    BY <1>4 DEF Cause
  <2> QED BY <1>4, <2>1 DEF ContextError
<1> QED BY <1>1, <1>2, <1>3, <1>4

LEMMA SettleKeeps ==
    ASSUME AttemptInv, Settle
    PROVE  AttemptInv'
<1>1. at = "settle"
  BY DEF Settle
<1>2. /\ Settled(relay) /\ relay \in RelayType /\ ctx \in ContextType /\ TimersBlamed
  BY <1>1, AtSettle
<1>3. CASE Cause # "nil" /\ (relay.diag \/ Cause = "streamtimeout")
  <2>1. PICK w : handleCommittedAwareProxyError(w)
    BY <1>1, <1>3 DEF Settle
  <2>2. PICK k \in {"broken", "failed"} : End(k, w) /\ (k = "failed" => ~relay.committed)
    BY <2>1 DEF handleCommittedAwareProxyError
  <2>3. relay.err # "nil"
    BY <1>3, CauseKnown
  <2>4. relay.blame \/ relay.unwritten
    BY <1>2, <1>3, CauseKnown DEF Settled, TimersBlamed, Accounted, RelayType, ContextType
  <2> QED BY <1>2, <2>2, <2>3, <2>4, EndEarned DEF Settled
<1>4. CASE Cause # "nil" /\ ~(relay.diag \/ Cause = "streamtimeout")
  <2>1. handleNetworkError(Cause)
    BY <1>1, <1>4 DEF Settle
  <2>2. relay.err # "nil"
    BY <1>4, CauseKnown
  <2>3. CASE End("canceled", "nil")
    BY <1>2, <2>2, <2>3, EndEarned DEF Settled, Cooling
  <2>4. CASE Cause # "canceled" /\ End("failed", Cause)
    <3>1. relay.committed => ctx.first = "fired" \/ mode \in {"direct", "buffered"}
      BY <1>2, <1>4, <2>2, <2>4, CauseKnown DEF Settled
    <3>2. relay.blame \/ relay.unwritten
      BY <1>2, <1>4, <2>2, <2>4, CauseKnown DEF Settled, TimersBlamed, Accounted
    <3> QED BY <1>2, <2>2, <2>4, <3>1, <3>2, EndEarned DEF Settled
  <2> QED BY <2>1, <2>3, <2>4 DEF handleNetworkError
<1>5. CASE Cause = "nil" /\ relay.error
  <2>1. handleCommittedAwareProxyError("answer")
    BY <1>1, <1>5 DEF Settle
  <2>2. PICK k \in {"broken", "failed"} : End(k, "answer") /\ (k = "failed" => ~relay.committed)
    BY <2>1 DEF handleCommittedAwareProxyError
  <2> QED BY <1>5, <2>2, EndEarned
<1>6. CASE Cause = "nil" /\ ~relay.error /\ relay.diag
  <2>1. handleCommittedAwareProxyError("incomplete")
    BY <1>1, <1>6 DEF Settle
  <2>2. PICK k \in {"broken", "failed"} : End(k, "incomplete") /\ (k = "failed" => ~relay.committed)
    BY <2>1 DEF handleCommittedAwareProxyError
  <2> QED BY <1>2, <1>6, <2>2, EndEarned DEF Settled, Accounted
<1>7. CASE Cause = "nil" /\ ~relay.error /\ ~relay.diag
  <2>1. End("success", "nil")
    BY <1>1, <1>7 DEF Settle
  <2>2. relay.err = "nil"
    BY <1>7, CauseKnown
  <2> QED BY <1>2, <1>7, <2>1, <2>2, EndEarned DEF Settled, CommitsContent, Cooling
<1> QED BY <1>3, <1>4, <1>5, <1>6, <1>7

\* After the end only the failure counts.
LEMMA DecisionKeeps ==
    ASSUME AttemptInv, ErrorInput \/ applyCooldownDecision
    PROVE  AttemptInv'
<1>1. /\ at \in {"input", "decide"} /\ at' \in {"decide", "done"} /\ relay' = relay /\ ctx' = ctx
  BY DEF ErrorInput, applyCooldownDecision
<1>2. relay' \in RelayType /\ ctx' \in ContextType /\ ~Busy' /\ RelayedSoFar'
  BY <1>1 DEF AttemptInv, AttemptTyped, Busy, RelayedSoFar
<1>3. CASE ErrorInput
  <2>1. req' = [req EXCEPT !.stream = FALSE, !.mode = "none", !.resent = {}] /\ req \in AttemptRequest
        /\ result' = [Pending EXCEPT !.why = result.why]
    BY <1>3 DEF ErrorInput, AttemptInv, AttemptTyped
  <2>2. req' \in AttemptRequest /\ req'.mode = "none"
    BY <2>1 DEF AttemptRequest, RequestModes
  <2>3. result'.kind = "pending" /\ ~result'.whole
    BY <2>1 DEF Pending
  <2> QED BY <1>1, <1>2, <2>2, <2>3
          DEF AttemptInv, AttemptTyped, ModeFits, mode, ResultEarned, NoRetryAfterBytes, OutcomeEarned, Cooling
<1>4. CASE applyCooldownDecision
  <2>1. req' = req /\ result' = result
    BY <1>4 DEF applyCooldownDecision
  <2>2. NoRetryAfterBytes' /\ OutcomeEarned'
    BY <2>1 DEF AttemptInv, ResultEarned, NoRetryAfterBytes, OutcomeEarned, mode, Stream
  <2> QED BY <1>1, <1>2, <2>1, <2>2, RequestKept DEF AttemptInv, AttemptTyped, ResultEarned
<1> QED BY <1>3, <1>4

LEMMA AttemptStutters ==
    ASSUME AttemptInv, UNCHANGED attemptVars
    PROVE  AttemptInv'
<1>1. req' = req /\ at' = at /\ relay' = relay /\ ctx' = ctx /\ result' = result
  BY DEF attemptVars
<1>2. AttemptTyped' /\ ModeFits' /\ (Busy' => TimersBlamed')
  BY <1>1 DEF AttemptInv, AttemptTyped, ModeFits, mode, Stream, Busy, TimersBlamed
<1>3. RelayedSoFar'
  BY <1>1, RequestKept, SettledKept DEF AttemptInv, RelayedSoFar, Running, CommitsContent
<1>4. ResultEarned'
  BY <1>1 DEF AttemptInv, ResultEarned, Busy, NoRetryAfterBytes, OutcomeEarned, mode, Stream
<1> QED BY <1>2, <1>3, <1>4 DEF AttemptInv

LEMMA AttemptInvariant == AttemptSpec => []AttemptInv
<1>1. AttemptInit => AttemptInv
  BY AttemptStarts
<1>2. AttemptInv /\ [AttemptNext]_attemptVars => AttemptInv'
  <2> SUFFICES ASSUME AttemptInv, [AttemptNext]_attemptVars PROVE AttemptInv'
    OBVIOUS
  <2>1. CASE Interference
    BY <2>1, InterferenceKeeps
  <2>2. CASE TranslateFails \/ LimitExceeded
    BY <2>2, UnsentEnds
  <2>3. CASE Upstream
    BY <2>3, SendErrors, ErrorResponseKeeps, HeadersKeeps, ReadKeeps, ClosedKeeps, BrokenKeeps DEF Upstream
  <2>4. CASE Proxy
    BY <2>4, SendErrors, ClosedKeeps, HookKeeps, CollectKeeps, WriteKeeps, WriteBodyKeeps, SettleKeeps DEF Proxy
  <2>5. CASE ErrorInput \/ applyCooldownDecision
    BY <2>5, DecisionKeeps
  <2>6. CASE UNCHANGED attemptVars
    BY <2>6, AttemptStutters
  <2> QED BY <2>1, <2>2, <2>3, <2>4, <2>5, <2>6 DEF AttemptNext
<1> QED BY <1>1, <1>2, PTL DEF AttemptSpec

\* An attempt is repeated elsewhere only while the client has seen nothing of it
\* (handleCommittedAwareProxyError, beforeWrite), but for the exceptions that
\* NoRetryAfterBytes names.
THEOREM RetriedOnlyUnseen == AttemptSpec => []NoRetryAfterBytes
<1>1. AttemptInv => NoRetryAfterBytes
  BY DEF AttemptInv, ResultEarned
<1> QED BY <1>1, AttemptInvariant, PTL

\* How an attempt ends is what its answer earned (handleSuccessResponse,
\* forwardAttempt), however the client, the timers and the connection interfere
\* and however many reads the answer takes.
THEOREM EndsAsEarned == AttemptSpec => []OutcomeEarned
<1>1. AttemptInv => OutcomeEarned
  BY DEF AttemptInv, ResultEarned
<1> QED BY <1>1, AttemptInvariant, PTL

-------------------------------------------------------------------------------
(* What is decided on a failure lands.                                     *)

LEMMA InputsAreInputs ==
    ASSUME NEW why, NEW i \in InputsOf(why)
    PROVE  i \in Inputs /\ i.hasKey \in BOOLEAN /\ i.model \in BOOLEAN
<1>1. i \in HTTPInputs \/ i \in NetInputs
  <2>1. CASE why = "answer"
    BY <2>1 DEF InputsOf
  <2>2. CASE why = "late"
    BY <2>2 DEF InputsOf
  <2>3. CASE why = "incomplete"
    BY <2>3 DEF InputsOf
  <2>4. CASE why = "firstbyte"
    BY <2>4 DEF InputsOf
  <2>5. CASE why \in {"deadline", "empty"}
    BY <2>5 DEF InputsOf
  <2>6. CASE why = "invalid"
    BY <2>6 DEF InputsOf
  <2>7. CASE why \notin {"answer", "late", "incomplete", "firstbyte", "deadline", "empty", "invalid"}
    <3>1. InputsOf(why) = {j \in NetInputs : j.status = 503}
      BY <2>7 DEF InputsOf
    <3> QED BY <3>1
  <2> QED BY <2>1, <2>2, <2>3, <2>4, <2>5, <2>6, <2>7
<1>2. CASE i \in HTTPInputs
  <2>1. i \in Inputs
    BY <1>2 DEF Inputs
  <2>2. i.hasKey \in BOOLEAN /\ i.model \in BOOLEAN
    BY <1>2 DEF HTTPInputs
  <2> QED BY <2>1, <2>2
<1>3. CASE i \in NetInputs
  <2>1. i \in Inputs
    BY <1>3 DEF Inputs
  <2>2. i.hasKey \in BOOLEAN /\ i.model \in BOOLEAN
    BY <1>3 DEF NetInputs
  <2> QED BY <2>1, <2>2
<1> QED BY <1>1, <1>2, <1>3

\* What the decisions of classifyDecision have in common.
Sound(a, i) ==
    /\ a.action \in {"RetryKey", "RetryModel", "RetryChannel", "ReturnClient"}
    /\ a.action = "RetryKey" => i.hasKey
    /\ a.action = "RetryModel" => NamesModel(i)
    /\ a.prevent => a.action = "RetryModel"

LEMMA LevelSound ==
    ASSUME NEW level, NEW hasKey \in BOOLEAN
    PROVE  /\ LevelAction(level, hasKey) \in {"RetryKey", "RetryChannel", "ReturnClient"}
           /\ LevelAction(level, hasKey) = "RetryKey" => hasKey
<1>1. CASE level = "key"
  BY <1>1 DEF LevelAction
<1>2. CASE level = "channel"
  BY <1>2 DEF LevelAction
<1>3. CASE level # "key" /\ level # "channel"
  BY <1>3 DEF LevelAction
<1> QED BY <1>1, <1>2, <1>3

LEMMA DecisionSound ==
    ASSUME NEW i, i.hasKey \in BOOLEAN, i.model \in BOOLEAN
    PROVE  Sound(classifyDecision(i), i)
<1>1. CASE RuleApplies(i)
  <2>1. classifyDecision(i) = RuleDecision(i)
    BY <1>1 DEF classifyDecision
  <2>2. CASE i.rule = "key" /\ i.hasKey
    <3>1. RuleDecision(i) = Act("RetryKey", FALSE, "rule", "none", "none", FALSE)
      BY <2>2 DEF RuleDecision
    <3> QED BY <2>1, <2>2, <3>1 DEF Act, Sound
  <2>3. CASE i.rule = "model" /\ i.model
    <3>1. RuleDecision(i) = Act("RetryModel", TRUE, "none", "rule", "none", FALSE)
      BY <2>3 DEF RuleDecision
    <3> QED BY <2>1, <2>3, <3>1 DEF Act, Sound, NamesModel
  <2>4. CASE i.rule = "channel"
    <3>1. RuleDecision(i) = Act("RetryChannel", FALSE, "none", "none", "rule", FALSE)
      BY <2>4 DEF RuleDecision
    <3> QED BY <2>1, <3>1 DEF Act, Sound
  <2> QED BY <1>1, <2>2, <2>3, <2>4 DEF RuleApplies
<1>2. CASE ~RuleApplies(i) /\ i.net
  <2>1. classifyDecision(i) = NetDecision(i)
    BY <1>2 DEF classifyDecision
  <2>2. \/ i.model /\ NetDecision(i) = Act("RetryModel", TRUE, "none", "none", "none", FALSE)
        \/ NetDecision(i) = Act("RetryChannel", FALSE, "none", "none", "none", FALSE)
    BY DEF NetDecision
  <2> QED BY <2>1, <2>2 DEF Act, Sound, NamesModel
<1>3. CASE ~RuleApplies(i) /\ ~i.net
  <2>1. classifyDecision(i) = HTTPDecision(i)
    BY <1>3 DEF classifyDecision
  <2> DEFINE c == ClassifyHTTP(i.status, i.body, i.headers)
             oauth == ~i.hasKey /\ c.keyUntil # "none" /\ i.model
             scoped == \/ oauth
                       \/ c.scoped /\ NamesModel(i)
                       \/ /\ ~c.scoped /\ c.level = "channel" /\ c.channelUntil = "none"
                          /\ IsModelScopedHTTPStatus(i.status) /\ i.model
  <2>2. scoped => NamesModel(i)
    BY DEF NamesModel
  <2> DEFINE p == scoped /\ c.prevent
  <2>3. p \in BOOLEAN /\ (p => scoped)
    OBVIOUS
  <2>4. \E m : HTTPDecision(i) =
          Act(IF scoped THEN "RetryModel" ELSE LevelAction(c.level, i.hasKey), scoped,
              c.keyUntil, m, c.channelUntil, p)
    BY DEF HTTPDecision
  <2> HIDE DEF c, scoped, p
  <2>5. PICK m : \E q \in BOOLEAN :
          /\ HTTPDecision(i) = Act(IF scoped THEN "RetryModel" ELSE LevelAction(c.level, i.hasKey),
                                   scoped, c.keyUntil, m, c.channelUntil, q)
          /\ q => scoped
    BY <2>3, <2>4, Zenon
  <2>6. /\ scoped => HTTPDecision(i).action = "RetryModel"
        /\ ~scoped => HTTPDecision(i).action = LevelAction(c.level, i.hasKey)
    BY <2>5 DEF Act
  <2>7. HTTPDecision(i).prevent => scoped
    BY <2>5 DEF Act
  <2> QED BY <2>1, <2>2, <2>6, <2>7, LevelSound DEF Sound
<1> QED BY <1>1, <1>2, <1>3

\* What Decide orders is written, and is what the HandleError* entry points wrote.
LEMMA DecisionLands ==
    ASSUME NEW i, i.hasKey \in BOOLEAN, i.model \in BOOLEAN, NEW fb \in BOOLEAN,
           NEW a, a = classifyDecision(i), NEW d, d = Decide(i, fb),
           NEW w, w = ApplyEffect(d, i), NEW l, l = HandleError(i, fb)
    PROVE  /\ d.effect # "None" => w[1] # "nothing"
           /\ w[1] = "model" => NamesModel(i)
           /\ d.retry = "None" <=> w[1] = "nothing"
           /\ a.action = "RetryChannel" /\ a.channelUntil # "none" => w = <<"channel", a.channelUntil>>
           /\ a.prevent => w[1] # "key"
           /\ w = l.write /\ d.retry = l.retry
<1>1. Sound(a, i)
  BY DecisionSound
<1>2. CASE fb /\ canFallbackToOtherKey(i, a)
  <2>1. /\ d.effect = "CoolKey" /\ d.retry = "NextKey" /\ i.hasKey /\ ~a.prevent
        /\ a.channelUntil = "none" /\ d.keyUntil = a.modelUntil
    BY <1>2 DEF Decide, keyFallbackDecision, canFallbackToOtherKey
  <2>2. w = <<"key", a.modelUntil>>
    BY <2>1 DEF ApplyEffect
  <2>3. l = [write |-> <<"key", a.modelUntil>>, retry |-> "NextKey"]
    BY <1>2 DEF HandleError
  <2> QED BY <2>1, <2>2, <2>3
<1>3. CASE ~(fb /\ canFallbackToOtherKey(i, a))
  <2>1. d = legacyToDecision(a)
    BY <1>3 DEF Decide
  <2>2. CASE a.action = "RetryKey"
    <3>1. d.effect = "CoolKey" /\ d.retry = "NextKey" /\ d.keyUntil = a.keyUntil /\ i.hasKey /\ ~a.prevent
      BY <1>1, <2>1, <2>2 DEF legacyToDecision, Sound
    <3>2. w = <<"key", a.keyUntil>>
      BY <3>1 DEF ApplyEffect
    <3>3. l = [write |-> <<"key", a.keyUntil>>, retry |-> "NextKey"]
      BY <1>3, <2>2, <3>1 DEF HandleError
    <3> QED BY <2>2, <3>1, <3>2, <3>3
  <2>3. CASE a.action = "RetryModel"
    <3>1. d.effect = "CoolModel" /\ d.retry = "NextChannel" /\ d.modelUntil = a.modelUntil /\ NamesModel(i)
      BY <1>1, <2>1, <2>3 DEF legacyToDecision, Sound
    <3>2. w = <<"model", a.modelUntil>>
      BY <3>1 DEF ApplyEffect
    <3>3. l = [write |-> <<"model", a.modelUntil>>, retry |-> "NextChannel"]
      BY <1>3, <2>3 DEF HandleError
    <3> QED BY <2>3, <3>1, <3>2, <3>3
  <2>4. CASE a.action = "RetryChannel"
    <3>1. d.effect = "CoolChannel" /\ d.retry = "NextChannel" /\ d.channelUntil = a.channelUntil /\ ~a.prevent
      BY <1>1, <2>1, <2>4 DEF legacyToDecision, Sound
    <3>2. w = <<"channel", a.channelUntil>>
      BY <3>1 DEF ApplyEffect
    <3>3. l = [write |-> <<"channel", a.channelUntil>>, retry |-> "NextChannel"]
      BY <1>3, <2>4 DEF HandleError
    <3> QED BY <2>4, <3>1, <3>2, <3>3
  <2>5. CASE a.action = "ReturnClient"
    <3>1. d.effect = "None" /\ d.retry = "None" /\ ~a.prevent
      BY <1>1, <2>1, <2>5 DEF legacyToDecision, Sound
    <3>2. w = <<"nothing", "none">>
      BY <3>1 DEF ApplyEffect
    <3>3. l = [write |-> <<"nothing", "none">>, retry |-> "None"]
      BY <1>3, <2>5 DEF HandleError
    <3> QED BY <2>5, <3>1, <3>2, <3>3
  <2> QED BY <1>1, <2>2, <2>3, <2>4, <2>5 DEF Sound
<1> QED BY <1>2, <1>3

\* A verdict is what was decided on some failure.
VerdictLands ==
    verdict # Undecided =>
       \E i \in Inputs, fb \in BOOLEAN :
          /\ i.hasKey \in BOOLEAN /\ i.model \in BOOLEAN
          /\ verdict = [in |-> i, decision |-> Decide(i, fb), legacy |-> HandleError(i, fb)]

LEMMA VerdictInvariant == AttemptSpec => []VerdictLands
<1>1. AttemptInit => VerdictLands
  BY DEF AttemptInit, VerdictLands
<1>2. AttemptInv /\ VerdictLands /\ [AttemptNext]_attemptVars => VerdictLands'
  <2> SUFFICES ASSUME AttemptInv, VerdictLands, [AttemptNext]_attemptVars PROVE VerdictLands'
    OBVIOUS
  <2>1. CASE applyCooldownDecision
    <3>1. PICK i \in InputsOf(result.why) :
            verdict' = [in |-> i, decision |-> Decide(i, req.fallback), legacy |-> HandleError(i, req.fallback)]
      BY <2>1 DEF applyCooldownDecision
    <3>2. req.fallback \in BOOLEAN
      BY DEF AttemptInv, AttemptTyped, AttemptRequest
    <3> QED BY <3>1, <3>2, InputsAreInputs DEF VerdictLands
  <2>2. CASE ~applyCooldownDecision
    <3>1. verdict' = verdict
      BY <2>2 DEF AttemptNext, attemptVars, Interference, ClientLost, ContextCancelled,
         FirstByteTimeout, TotalTimeout, TranslateFails, LimitExceeded, Upstream, Proxy,
         SendFails, SendCancelled, ErrorResponse, BadAnswer, Headers, Read, Closed, Broken,
         ReadCancelled, Hook, Collect, Write, WriteBody, Settle, End, ErrorInput,
         handleCommittedAwareProxyError, handleNetworkError
    <3> QED BY <3>1 DEF VerdictLands
  <2> QED BY <2>1, <2>2
<1> QED BY <1>1, <1>2, AttemptInvariant, PTL DEF AttemptSpec

\* Every punishment decided on lands where it should, whatever the answer said
\* (classifyDecision, Decide, ApplyEffect), for any bound of the features in it.
THEOREM EveryPunishmentLands == AttemptSpec => []PunishmentLands
<1>1. VerdictLands => PunishmentLands
  <2> SUFFICES ASSUME verdict # Undecided, VerdictLands PROVE PunishmentLands
    BY DEF PunishmentLands
  <2>1. PICK i \in Inputs, fb \in BOOLEAN :
          /\ i.hasKey \in BOOLEAN /\ i.model \in BOOLEAN
          /\ verdict = [in |-> i, decision |-> Decide(i, fb), legacy |-> HandleError(i, fb)]
    BY DEF VerdictLands
  <2>2. verdict.in = i /\ verdict.decision = Decide(i, fb) /\ verdict.legacy = HandleError(i, fb)
    BY <2>1
  <2> QED BY <2>1, <2>2, DecisionLands DEF PunishmentLands
<1> QED BY <1>1, VerdictInvariant, PTL

-------------------------------------------------------------------------------
(* What cooldowns mean for the selection of a channel.                     *)

\* What may be assumed of a channel in a snapshot.
LEMMA SeenTyped ==
    ASSUME NEW s \in Snapshots, NEW c \in Channels
    PROVE  /\ s[c].ch \in Nat
           /\ s[c].models \in Seq(Nat) /\ s[c].models # <<>>
           /\ s[c].keys \in [1..KeyCount[c] -> Nat] /\ KeyCount[c] \in Nat
BY SelectionAssumption

LEMMA RangeLeast ==
    ASSUME NEW n \in Nat \ {0}, NEW f \in [1..n -> Nat]
    PROVE  /\ Min(Range(f)) \in Nat
           /\ \A t \in Nat : Min(Range(f)) <= t <=> \E i \in 1..n : f[i] <= t
<1>1. Range(f) \subseteq Nat /\ f[1] \in Range(f)
  BY DEF Range
<1>2. Min(Range(f)) \in Range(f) /\ \A y \in Range(f) : Min(Range(f)) <= y
  BY <1>1, MinIs
<1>3. Min(Range(f)) \in Nat
  BY <1>1, <1>2
<1>4. PICK m \in Nat : m = Min(Range(f))
  BY <1>3
<1>5. PICK j \in 1..n : f[j] = m
  BY <1>2, <1>4 DEF Range
<1>6. \A i \in 1..n : f[i] \in Range(f)
  BY DEF Range
<1>7. \A i \in 1..n : m <= f[i] /\ f[i] \in Nat
  BY <1>2, <1>4, <1>6
<1>8. \A t \in Nat : m <= t <=> \E i \in 1..n : f[i] <= t
  BY <1>5, <1>7
<1> QED BY <1>4, <1>8

\* The greatest of two or three numbers.
LEMMA GreatestIs ==
    ASSUME NEW a \in Nat, NEW b \in Nat, NEW K, K = {} \/ \E k \in Nat : K = {k}
    PROVE  /\ Max({a, b} \cup K) \in Nat
           /\ \A t \in Nat : Max({a, b} \cup K) <= t <=> a <= t /\ b <= t /\ \A k \in K : k <= t
<1> DEFINE S == {a, b} \cup K
<1>1. IsFiniteSet(K) /\ IsFiniteSet({a, b})
  <2>1. IsFiniteSet({}) /\ IsFiniteSet({a}) /\ IsFiniteSet({b}) /\ \A k : IsFiniteSet({k})
    BY FS_EmptySet, FS_Singleton
  <2>2. {a, b} = {a} \cup {b}
    OBVIOUS
  <2>3. IsFiniteSet({a} \cup {b})
    BY <2>1, FS_Union
  <2>4. IsFiniteSet(K)
    BY <2>1
  <2> QED BY <2>2, <2>3, <2>4
<1>2. IsFiniteSet(S) /\ S \subseteq Nat /\ S # {}
  BY <1>1, FS_Union
<1>3. Max(S) \in S /\ \A y \in S : y <= Max(S)
  <2> HIDE DEF S
  <2> QED BY <1>2, MaxIs
<1>4. PICK m \in Nat : m = Max(S)
  BY <1>2, <1>3
<1>5. m \in S /\ \A y \in S : y <= m
  BY <1>3, <1>4
<1>6. \A t \in Nat : m <= t <=> a <= t /\ b <= t /\ \A k \in K : k <= t
  BY <1>2, <1>5
<1> QED BY <1>4, <1>6

\* getReadyAt is the moment from which the channel passes the filter.
LEMMA ReadyIs ==
    ASSUME NEW s \in Snapshots, NEW c \in Channels
    PROVE  /\ getReadyAt(s, c) \in Nat
           /\ \A t \in Nat : getReadyAt(s, c) <= t <=> ~CoolsAt(s, c, t)
<1> DEFINE models == s[c].models
           keys == s[c].keys
           m == Min(Range(models))
           K == IF KeyCount[c] > 0 THEN {Min(Range(keys))} ELSE {}
<1>1. /\ s[c].ch \in Nat /\ models \in Seq(Nat) /\ models # <<>>
      /\ keys \in [1..KeyCount[c] -> Nat] /\ KeyCount[c] \in Nat
  BY SeenTyped
<1>2. PICK n \in Nat \ {0} : models \in [1..n -> Nat] /\ DOMAIN models = 1..n
  <2> HIDE DEF models
  <2>1. Len(models) \in Nat \ {0}
    BY <1>1
  <2>2. models \in [1..Len(models) -> Nat] /\ DOMAIN models = 1..Len(models)
    BY <1>1
  <2> QED BY <2>1, <2>2
<1>3. m \in Nat /\ \A t \in Nat : m <= t <=> \E i \in DOMAIN models : models[i] <= t
  BY <1>2, RangeLeast
<1>4. \/ KeyCount[c] = 0 /\ K = {}
      \/ \E k \in Nat : K = {k} /\ KeyCount[c] > 0
                        /\ \A t \in Nat : k <= t <=> \E i \in 1..KeyCount[c] : keys[i] <= t
  <2>1. CASE KeyCount[c] = 0
    <3>1. K = {}
      BY <2>1
    <3> QED BY <2>1, <3>1
  <2>2. CASE KeyCount[c] > 0
    <3>1. PICK l \in Nat \ {0} : l = KeyCount[c]
      BY <1>1, <2>2
    <3>2. keys \in [1..l -> Nat]
      BY <1>1, <3>1
    <3>3. /\ Min(Range(keys)) \in Nat
          /\ \A t \in Nat : Min(Range(keys)) <= t <=> \E i \in 1..l : keys[i] <= t
      <4> HIDE DEF keys
      <4> QED BY <3>2, RangeLeast
    <3>4. K = {Min(Range(keys))}
      BY <2>2
    <3> HIDE DEF K, keys
    <3> QED BY <2>2, <3>1, <3>3, <3>4
  <2>3. KeyCount[c] = 0 \/ KeyCount[c] > 0
    BY <1>1
  <2> HIDE DEF K, keys
  <2> QED BY <2>1, <2>2, <2>3
<1>5. getReadyAt(s, c) = Max({s[c].ch, m} \cup K)
  BY DEF getReadyAt
<1>6. \A t : CoolsAt(s, c, t) <=>
         \/ s[c].ch > t
         \/ \A i \in DOMAIN models : models[i] > t
         \/ KeyCount[c] > 0 /\ \A i \in 1..KeyCount[c] : keys[i] > t
  BY DEF CoolsAt
<1>7. \A i \in DOMAIN models : models[i] \in Nat
  BY <1>2
<1>8. \A i \in 1..KeyCount[c] : keys[i] \in Nat
  BY <1>1
<1> HIDE DEF models, keys, m, K
<1>9. /\ Max({s[c].ch, m} \cup K) \in Nat
      /\ \A t \in Nat : Max({s[c].ch, m} \cup K) <= t <=> s[c].ch <= t /\ m <= t /\ \A k \in K : k <= t
  BY <1>1, <1>3, <1>4, GreatestIs
<1>10. ASSUME NEW t \in Nat
       PROVE  ~CoolsAt(s, c, t) <=> s[c].ch <= t /\ m <= t /\ \A k \in K : k <= t
  <2>1. s[c].ch <= t <=> ~(s[c].ch > t)
    BY <1>1
  <2>2. m <= t <=> ~ \A i \in DOMAIN models : models[i] > t
    BY <1>3, <1>7
  <2>3. (\A k \in K : k <= t) <=> ~(KeyCount[c] > 0 /\ \A i \in 1..KeyCount[c] : keys[i] > t)
    BY <1>4, <1>8
  <2> QED BY <1>6, <2>1, <2>2, <2>3
<1> QED BY <1>5, <1>9, <1>10

\* The order of the candidates for a rescue, spelled out.
Sooner(a, b) ==
    \/ a[1] < b[1]
    \/ a[1] = b[1] /\ a[2] < b[2]
    \/ a[1] = b[1] /\ a[2] = b[2] /\ a[3] < b[3]
    \/ a[1] = b[1] /\ a[2] = b[2] /\ a[3] = b[3] /\ a[4] < b[4]

Rank(s, p, x) == <<getReadyAt(s, x), -EffPriority(p, x), -Priority[x], x>>

LEMMA RankTyped ==
    ASSUME NEW s \in Snapshots, NEW p \in Penalties, NEW c \in Channels
    PROVE  /\ Rank(s, p, c) \in Int \X Int \X Int \X Int
           /\ Rank(s, p, c)[1] = getReadyAt(s, c) /\ Rank(s, p, c)[4] = c
<1>1. getReadyAt(s, c) \in Int
  BY ReadyIs
<1>2. Priority[c] \in Int /\ p[c] \in Int /\ c \in Int
  BY SelectionAssumption
<1>3. -EffPriority(p, c) \in Int /\ -Priority[c] \in Int
  BY <1>2 DEF EffPriority
<1> QED BY <1>1, <1>2, <1>3 DEF Rank

LEMMA BetterIs ==
    ASSUME NEW s \in Snapshots, NEW p \in Penalties, NEW c \in Channels, NEW d \in Channels
    PROVE  Better(s, p, c, d) <=> c = d \/ Sooner(Rank(s, p, c), Rank(s, p, d))
<1> DEFINE a == Rank(s, p, c)
           b == Rank(s, p, d)
           D == {j \in 1..4 : a[j] # b[j]}
<1>1. Better(s, p, c, d) <=> c = d \/ a[Min(D)] < b[Min(D)]
  BY DEF Better, Rank
<1>2. a \in Int \X Int \X Int \X Int /\ b \in Int \X Int \X Int \X Int /\ a[4] = c /\ b[4] = d
  BY RankTyped
<1> HIDE DEF a, b
<1>3. CASE c = d
  BY <1>1, <1>3
<1>4. CASE c # d
  <2>1. 4 \in D /\ D \subseteq Nat
    BY <1>2, <1>4
  <2>2. Min(D) \in D /\ \A j \in D : Min(D) <= j
    <3> HIDE DEF D
    <3> QED BY <2>1, MinIs
  <2>3. PICK i \in 1..4 : i = Min(D) /\ a[i] # b[i]
    BY <2>2
  <2>4. \A j \in 1..4 : j < i => a[j] = b[j]
    BY <2>2, <2>3
  <2>5. a[i] < b[i] <=> Sooner(a, b)
    <3>1. CASE i = 1
      BY <1>2, <2>3, <3>1 DEF Sooner
    <3>2. CASE i = 2
      <4>1. a[1] = b[1]
        BY <2>4, <3>2
      <4> QED BY <1>2, <2>3, <3>2, <4>1 DEF Sooner
    <3>3. CASE i = 3
      <4>1. a[1] = b[1] /\ a[2] = b[2]
        BY <2>4, <3>3
      <4> QED BY <1>2, <2>3, <3>3, <4>1 DEF Sooner
    <3>4. CASE i = 4
      <4>1. a[1] = b[1] /\ a[2] = b[2] /\ a[3] = b[3]
        BY <2>4, <3>4
      <4> QED BY <1>2, <2>3, <3>4, <4>1 DEF Sooner
    <3> QED BY <3>1, <3>2, <3>3, <3>4
  <2> HIDE DEF D
  <2>6. Better(s, p, c, d) <=> Sooner(a, b)
    BY <1>1, <1>4, <2>3, <2>5
  <2> QED BY <1>4, <2>6 DEF a, b
<1> QED BY <1>3, <1>4 DEF a, b

LEMMA SoonerOrders ==
    ASSUME NEW a \in Int \X Int \X Int \X Int, NEW b \in Int \X Int \X Int \X Int,
           NEW c \in Int \X Int \X Int \X Int
    PROVE  /\ a[4] # b[4] => Sooner(a, b) \/ Sooner(b, a)
           /\ Sooner(a, b) /\ Sooner(b, c) => Sooner(a, c)
BY DEF Sooner

\* Among finitely many channels one is at least as good as every other: of the
\* sets without such a one none could have the fewest members.
LEMMA BestExists ==
    ASSUME NEW s \in Snapshots, NEW p \in Penalties,
           NEW S \in SUBSET Channels, S # {}
    PROVE  \E c \in S : \A d \in S : Better(s, p, c, d)
<1> DEFINE Best(T) == \E c \in T : \A d \in T : Better(s, p, c, d)
           bad == {n \in Nat : \E T \in SUBSET S : T # {} /\ Cardinality(T) = n /\ ~Best(T)}
<1>1. IsFiniteSet(S)
  BY SelectionAssumption, FS_Subset
<1>2. CASE bad = {}
  <2>1. Cardinality(S) \in Nat
    BY <1>1, FS_CardinalityType
  <2> QED BY <1>2, <2>1
<1>3. CASE bad # {}
  <2>1. PICK n \in bad : \A m \in bad : n <= m
    <3>1. bad \subseteq Nat
      OBVIOUS
    <3> HIDE DEF bad
    <3> QED BY <1>3, <3>1, Least
  <2>2. PICK T \in SUBSET S : T # {} /\ Cardinality(T) = n /\ ~Best(T)
    BY <2>1
  <2>3. PICK x : x \in T
    BY <2>2
  <2>4. IsFiniteSet(T) /\ IsFiniteSet(T \ {x})
    BY <1>1, FS_Subset
  <2>5. Cardinality(T \ {x}) = n - 1 /\ Cardinality(T \ {x}) \in Nat /\ n \in Nat
    BY <2>1, <2>2, <2>3, <2>4, FS_RemoveElement, FS_CardinalityType
  <2>6. n - 1 \notin bad
    <3>1. bad \subseteq Nat
      OBVIOUS
    <3> HIDE DEF bad
    <3> QED BY <2>1, <2>5
  <2>7. T \ {x} \in SUBSET S
    OBVIOUS
  <2>8. T \ {x} = {} \/ Best(T \ {x})
    <3> HIDE DEF Best
    <3> QED BY <2>5, <2>6, <2>7
  <2>9. Best(T)
    <3>1. T \subseteq Channels
      OBVIOUS
    <3>2. \A c \in T : Better(s, p, c, c)
      BY <3>1, BetterIs
    <3>3. CASE T \ {x} = {}
      <4>1. \A d \in T : d = x
        BY <3>3
      <4> QED BY <2>3, <3>2, <4>1
    <3>4. CASE Best(T \ {x})
      <4>1. PICK c \in T \ {x} : \A d \in T \ {x} : Better(s, p, c, d)
        BY <3>4
      <4>2. c \in Channels /\ x \in Channels /\ c # x
        BY <2>3, <3>1
      <4>3. /\ Rank(s, p, c) \in Int \X Int \X Int \X Int /\ Rank(s, p, c)[4] = c
            /\ Rank(s, p, x) \in Int \X Int \X Int \X Int /\ Rank(s, p, x)[4] = x
        BY <4>2, RankTyped
      <4>4. Sooner(Rank(s, p, c), Rank(s, p, x)) \/ Sooner(Rank(s, p, x), Rank(s, p, c))
        BY <4>2, <4>3, SoonerOrders
      <4>5. CASE Sooner(Rank(s, p, c), Rank(s, p, x))
        <5>1. Better(s, p, c, x)
          BY <4>2, <4>5, BetterIs
        <5> QED BY <4>1, <5>1
      <4>6. CASE Sooner(Rank(s, p, x), Rank(s, p, c))
        <5>1. ASSUME NEW d \in T PROVE Better(s, p, x, d)
          <6>1. CASE d = x
            BY <3>2, <6>1
          <6>2. CASE d = c
            BY <4>2, <4>6, <6>2, BetterIs
          <6>3. CASE d # x /\ d # c
            <7>1. d \in Channels /\ Better(s, p, c, d)
              BY <3>1, <4>1, <6>3
            <7>2. Sooner(Rank(s, p, c), Rank(s, p, d))
              BY <4>2, <6>3, <7>1, BetterIs
            <7>3. Rank(s, p, d) \in Int \X Int \X Int \X Int
              BY <7>1, RankTyped
            <7>4. Sooner(Rank(s, p, x), Rank(s, p, d))
              BY <4>3, <4>6, <7>2, <7>3, SoonerOrders
            <7> QED BY <4>2, <7>1, <7>4, BetterIs
          <6> QED BY <6>1, <6>2, <6>3
        <5> QED BY <2>3, <5>1
      <4> QED BY <4>4, <4>5, <4>6
    <3> QED BY <2>8, <3>3, <3>4
  <2> QED BY <2>2, <2>9
<1> QED BY <1>2, <1>3

\* The rescued channel is the first to be ready.
LEMMA RescuedFirst ==
    ASSUME NEW s \in Snapshots, NEW p \in Penalties, Open(s) # {}
    PROVE  /\ pickBestChannelWhenAllCooled(s, p) \in Open(s)
           /\ \A d \in Open(s) : getReadyAt(s, pickBestChannelWhenAllCooled(s, p)) <= getReadyAt(s, d)
<1>1. Open(s) \in SUBSET Channels
  BY DEF Open
<1>2. \E c \in Open(s) : \A d \in Open(s) : Better(s, p, c, d)
  BY <1>1, BestExists
<1>3. PICK c \in Open(s) : /\ c = pickBestChannelWhenAllCooled(s, p)
                           /\ \A d \in Open(s) : Better(s, p, c, d)
  BY <1>2 DEF pickBestChannelWhenAllCooled
<1>4. ASSUME NEW d \in Open(s) PROVE getReadyAt(s, c) <= getReadyAt(s, d)
  <2>1. c \in Channels /\ d \in Channels
    BY <1>1
  <2>2. getReadyAt(s, c) \in Nat /\ getReadyAt(s, d) \in Nat
    BY <2>1, ReadyIs
  <2>3. c = d \/ Sooner(Rank(s, p, c), Rank(s, p, d))
    BY <1>3, <2>1, BetterIs
  <2>4. Rank(s, p, c)[1] = getReadyAt(s, c) /\ Rank(s, p, d)[1] = getReadyAt(s, d)
    BY <2>1, RankTyped
  <2> QED BY <2>2, <2>3, <2>4 DEF Sooner
<1> QED BY <1>3, <1>4

\* What a rescue leaves in out.
Rescued ==
    out.rescue =>
        \E s \in Snapshots, c \in Channels :
            /\ out.snap = s /\ out.order = <<c>> /\ c \in Open(s)
            /\ \A d \in Open(s) : getReadyAt(s, c) <= getReadyAt(s, d)

LEMMA RescuedInvariant == SelectionSpec => []Rescued
<1>1. SelectionInit => Rescued
  BY DEF SelectionInit, NoSelection, Rescued
<1>2. Rescued /\ [SelectionNext]_selectionVars => Rescued'
  <2> SUFFICES ASSUME Rescued, [SelectionNext]_selectionVars PROVE Rescued'
    OBVIOUS
  <2>1. CASE out' = out
    BY <2>1 DEF Rescued
  <2>2. CASE ~out'.rescue
    BY <2>2 DEF Rescued
  <2>3. ASSUME NEW s \in Snapshots, NEW p \in Penalties, Select(s, p) PROVE ~out'.rescue
    BY <2>3 DEF Select
  <2>4. ASSUME NEW s \in Snapshots, NEW p \in Penalties, SelectCooled(s, p) PROVE Rescued'
    <3>1. CASE out' = [NoSelection EXCEPT !.snap = s]
      <4>1. ~out'.rescue
        BY <3>1 DEF NoSelection
      <4> QED BY <2>2, <4>1
    <3>2. CASE /\ Open(s) # {}
               /\ out' = [order |-> <<pickBestChannelWhenAllCooled(s, p)>>, rescue |-> TRUE, snap |-> s]
      <4>1. PICK c \in Open(s) : /\ c = pickBestChannelWhenAllCooled(s, p)
                                 /\ \A d \in Open(s) : getReadyAt(s, c) <= getReadyAt(s, d)
        BY <3>2, RescuedFirst
      <4>2. c \in Channels
        BY DEF Open
      <4>3. out'.snap = s /\ out'.order = <<c>>
        BY <3>2, <4>1
      <4> QED BY <4>1, <4>2, <4>3 DEF Rescued
    <3> QED BY <2>4, <3>1, <3>2 DEF SelectCooled
  <2>5. ASSUME HandOver PROVE ~out'.rescue
    BY <2>5 DEF HandOver, NoSelection
  <2>6. CASE (\E c \in Channels : Remember(c)) \/ Forget \/ DropExpired \/ Expire
    BY <2>1, <2>6 DEF Remember, Forget, DropExpired, Expire
  <2>7. ASSUME NEW t \in Tiers, Cleanup(t) PROVE out' = out
    BY <2>7 DEF Cleanup
  <2>8. CASE UNCHANGED selectionVars
    BY <2>1, <2>8 DEF selectionVars
  <2> QED BY <2>1, <2>2, <2>3, <2>4, <2>5, <2>6, <2>7, <2>8 DEF SelectionNext
<1> QED BY <1>1, <1>2, PTL DEF SelectionSpec

\* When everything is cooled, the channel rescued is the one that comes back first
\* (pickBestChannelWhenAllCooled, getReadyAt), for any channels, keys, models and
\* ends of their cooldowns.
THEOREM RescuedIsEarliest == SelectionSpec => []RescueIsEarliest
<1>1. Rescued => RescueIsEarliest
  <2> SUFFICES ASSUME Rescued, out.rescue, NEW t \in 0..10, NEW d \in Open(out.snap),
                      ~CoolsAt(out.snap, d, t)
               PROVE  \E u \in 0..t : ~CoolsAt(out.snap, Head(out.order), u)
    BY DEF RescueIsEarliest
  <2>1. PICK s \in Snapshots, c \in Channels :
            /\ out.snap = s /\ out.order = <<c>> /\ c \in Open(s)
            /\ \A e \in Open(s) : getReadyAt(s, c) <= getReadyAt(s, e)
    BY DEF Rescued
  <2>2. d \in Open(s) /\ d \in Channels /\ t \in Nat
    BY <2>1 DEF Open
  <2>3. getReadyAt(s, d) \in Nat /\ getReadyAt(s, d) <= t
    BY <2>1, <2>2, ReadyIs
  <2>4. getReadyAt(s, c) \in Nat /\ ~CoolsAt(s, c, getReadyAt(s, c))
    BY ReadyIs
  <2>5. getReadyAt(s, c) \in 0..t
    BY <2>1, <2>2, <2>3, <2>4
  <2>6. Head(out.order) = c
    BY <2>1
  <2> QED BY <2>1, <2>4, <2>5, <2>6
<1> QED BY <1>1, RescuedInvariant, PTL

-------------------------------------------------------------------------------
(* The round robin of a tier.                                                *)

\* Of the sets in B some has no smaller one, with a member fewer, in B.
LEMMA Smallest ==
    ASSUME NEW U, IsFiniteSet(U), NEW B, B \subseteq SUBSET U, B # {}
    PROVE  \E T \in B : \A x \in T : T \ {x} \notin B
<1> DEFINE sizes == {Cardinality(T) : T \in B}
<1>1. \A T \in B : IsFiniteSet(T) /\ Cardinality(T) \in Nat
  BY FS_Subset, FS_CardinalityType
<1>2. sizes \subseteq Nat /\ sizes # {}
  BY <1>1
<1>3. \E n \in sizes : \A m \in sizes : n <= m
  <2> HIDE DEF sizes
  <2> QED
    BY <1>2, Least
<1>4. PICK T \in B : \A R \in B : Cardinality(T) <= Cardinality(R)
  BY <1>3
<1>5. ASSUME NEW x \in T PROVE T \ {x} \notin B
  <2>1. Cardinality(T \ {x}) = Cardinality(T) - 1
    BY <1>1, FS_RemoveElement
  <2> QED
    BY <1>1, <1>4, <2>1
<1> QED
  BY <1>5

(* Sums over sets of channels. *)
AddsUp(w, g, U) ==
    /\ g \in [SUBSET U -> Int]
    /\ g[{}] = 0
    /\ \A T \in SUBSET U : \A x \in T : g[T] = w[x] + g[T \ {x}]

LEMMA SumExists ==
    ASSUME NEW U, IsFiniteSet(U), NEW w \in [U -> Int]
    PROVE  \E g : AddsUp(w, g, U)
<1> DEFINE bad == {T \in SUBSET U : ~ \E g : AddsUp(w, g, T)}
<1> SUFFICES ASSUME bad # {} PROVE FALSE
  OBVIOUS
<1>1. PICK T \in bad : \A x \in T : T \ {x} \notin bad
  <2> HIDE DEF bad
  <2>1. bad \subseteq SUBSET U
    BY DEF bad
  <2> QED
    BY <2>1, Smallest
<1>2. CASE T = {}
  <2>1. AddsUp(w, [R \in SUBSET {} |-> 0], {})
    BY DEF AddsUp
  <2> QED
    BY <1>1, <1>2, <2>1
<1>3. CASE T # {}
  <2>1. PICK x \in T : TRUE
    BY <1>3
  <2>2. PICK g : AddsUp(w, g, T \ {x})
    BY <1>1, <2>1
  <2> DEFINE h == [R \in SUBSET T |-> IF x \in R THEN w[x] + g[R \ {x}] ELSE g[R]]
  <2>3. \A R \in SUBSET T : R \ {x} \in SUBSET (T \ {x}) /\ (x \notin R => R \in SUBSET (T \ {x}))
    OBVIOUS
  <2>4. h \in [SUBSET T -> Int] /\ h[{}] = 0
    BY <2>1, <2>2, <2>3 DEF AddsUp
  <2>5. ASSUME NEW R \in SUBSET T, NEW y \in R PROVE h[R] = w[y] + h[R \ {y}]
    <3>1. CASE y = x
      BY <3>1, <2>5
    <3>2. CASE y # x /\ x \notin R
      <4>1. g[R] = w[y] + g[R \ {y}]
        BY <2>2, <2>3, <3>2, <2>5 DEF AddsUp
      <4> QED
        BY <2>5, <3>2, <4>1
    <3>3. CASE y # x /\ x \in R
      <4>1. g[R \ {x}] = w[y] + g[(R \ {x}) \ {y}]
        BY <2>2, <2>3, <3>3, <2>5 DEF AddsUp
      <4>2. (R \ {x}) \ {y} = (R \ {y}) \ {x} /\ R \ {y} \in SUBSET T /\ x \in R \ {y}
        BY <3>3
      <4>3. h[R] = w[x] + g[R \ {x}] /\ h[R \ {y}] = w[x] + g[(R \ {y}) \ {x}]
        BY <2>5, <3>3, <4>2
      <4>4. g[(R \ {y}) \ {x}] \in Int /\ w[x] \in Int /\ w[y] \in Int
        BY <2>1, <2>2, <2>3, <4>2, <1>1, <2>5 DEF AddsUp
      <4>5. h[R] = w[x] + (w[y] + g[(R \ {y}) \ {x}])
        <5> HIDE DEF h
        <5> QED
          BY <4>1, <4>2, <4>3
      <4> DEFINE k == g[(R \ {y}) \ {x}]
                 hr == h[R]
                 hy == h[R \ {y}]
      <4>6. k \in Int /\ hr = w[x] + (w[y] + k) /\ hy = w[x] + k
        BY <4>3, <4>4, <4>5
      <4>7. hr = w[y] + hy
        <5> HIDE DEF k, hr, hy, h
        <5> QED
          BY <4>4, <4>6
      <4> QED
        BY <4>7
    <3> QED
      BY <3>1, <3>2, <3>3
  <2>6. AddsUp(w, h, T)
    <3> HIDE DEF h
    <3> QED
      BY <2>4, <2>5 DEF AddsUp
  <2> QED
    BY <1>1, <2>6
<1> QED
  BY <1>2, <1>3

\* A function that is 0 at the empty set and adds one member at a time is the sum.
AddsOne(w, h, U) == h[{}] = 0 /\ \A T \in SUBSET U : T # {} => \E x \in T : h[T] = w[x] + h[T \ {x}]

LEMMA SumUnique ==
    ASSUME NEW V, IsFiniteSet(V), NEW w, NEW g, AddsUp(w, g, V),
           NEW U \in SUBSET V, NEW h, AddsOne(w, h, U)
    PROVE  \A T \in SUBSET U : h[T] = g[T]
<1> DEFINE bad == {T \in SUBSET U : h[T] # g[T]}
<1> SUFFICES ASSUME bad # {} PROVE FALSE
  OBVIOUS
<1>1. PICK T \in bad : \A x \in T : T \ {x} \notin bad
  <2> HIDE DEF bad
  <2>1. bad \subseteq SUBSET V
    BY DEF bad
  <2> QED
    BY <2>1, Smallest
<1>2. T # {}
  BY DEF AddsUp, AddsOne
<1>3. PICK x \in T : h[T] = w[x] + h[T \ {x}]
  BY <1>1, <1>2 DEF AddsOne
<1>4. g[T] = w[x] + g[T \ {x}] /\ T \ {x} \in SUBSET U
  BY <1>1, <1>3 DEF AddsUp
<1> QED
  BY <1>1, <1>3, <1>4

Weights == [Channels -> Int]
SumOver(w) == CHOOSE g : AddsUp(w, g, Channels)

LEMMA SumIs ==
    ASSUME NEW w \in Weights
    PROVE  /\ SumOver(w)[{}] = 0
           /\ \A T \in SUBSET Channels : SumOver(w)[T] \in Int
           /\ \A T \in SUBSET Channels : \A x \in T : SumOver(w)[T] = w[x] + SumOver(w)[T \ {x}]
<1>1. \E g : AddsUp(w, g, Channels)
  BY SumExists, SelectionAssumption DEF Weights
<1>2. AddsUp(w, SumOver(w), Channels)
  BY <1>1 DEF SumOver
<1> QED
  BY <1>2 DEF AddsUp

LEMMA SumEquals ==
    ASSUME NEW w \in Weights, NEW h, AddsOne(w, h, Channels)
    PROVE  \A T \in SUBSET Channels : h[T] = SumOver(w)[T]
<1>1. \E g : AddsUp(w, g, Channels)
  BY SumExists, SelectionAssumption DEF Weights
<1>2. AddsUp(w, SumOver(w), Channels)
  BY <1>1 DEF SumOver
<1>3. IsFiniteSet(Channels) /\ Channels \in SUBSET Channels
  BY SelectionAssumption
<1> QED
  BY <1>2, <1>3, SumUnique

LEMMA SumPlus ==
    ASSUME NEW u \in Weights, NEW v \in Weights, NEW w \in Weights, \A c \in Channels : w[c] = u[c] + v[c]
    PROVE  \A T \in SUBSET Channels : SumOver(w)[T] = SumOver(u)[T] + SumOver(v)[T]
<1> DEFINE h == [T \in SUBSET Channels |-> SumOver(u)[T] + SumOver(v)[T]]
<1>1. h[{}] = 0
  BY SumIs
<1>2. ASSUME NEW T \in SUBSET Channels, NEW x \in T PROVE h[T] = w[x] + h[T \ {x}]
  <2>1. T \ {x} \in SUBSET Channels /\ x \in Channels
    OBVIOUS
  <2>2. SumOver(u)[T] = u[x] + SumOver(u)[T \ {x}] /\ SumOver(v)[T] = v[x] + SumOver(v)[T \ {x}]
    BY SumIs
  <2>3. u[x] \in Int /\ v[x] \in Int /\ SumOver(u)[T \ {x}] \in Int /\ SumOver(v)[T \ {x}] \in Int
    BY <2>1, SumIs DEF Weights
  <2>4. w[x] = u[x] + v[x]
    BY <2>1
  <2>5. h[T] = SumOver(u)[T] + SumOver(v)[T] /\ h[T \ {x}] = SumOver(u)[T \ {x}] + SumOver(v)[T \ {x}]
    BY <2>1
  <2> DEFINE a == SumOver(u)[T \ {x}]
             b == SumOver(v)[T \ {x}]
  <2>6. h[T] = (u[x] + a) + (v[x] + b) /\ h[T \ {x}] = a + b
    BY <2>2, <2>5
  <2> HIDE DEF a, b, h
  <2> QED
    BY <2>3, <2>4, <2>6 DEF a, b
<1>3. AddsOne(w, h, Channels)
  <2> HIDE DEF h
  <2> QED
    BY <1>1, <1>2 DEF AddsOne
<1>4. \A T \in SUBSET Channels : h[T] = SumOver(w)[T]
  <2> HIDE DEF h
  <2> QED
    BY <1>3, SumEquals
<1> QED
  BY <1>4

LEMMA SumMonotone ==
    ASSUME NEW u \in Weights, NEW v \in Weights, \A c \in Channels : u[c] <= v[c]
    PROVE  \A T \in SUBSET Channels : SumOver(u)[T] <= SumOver(v)[T]
<1> DEFINE bad == {T \in SUBSET Channels : ~ (SumOver(u)[T] <= SumOver(v)[T])}
<1> SUFFICES ASSUME bad # {} PROVE FALSE
  OBVIOUS
<1>1. PICK T \in bad : \A x \in T : T \ {x} \notin bad
  <2> HIDE DEF bad
  <2>1. bad \subseteq SUBSET Channels /\ IsFiniteSet(Channels)
    BY SelectionAssumption DEF bad
  <2> QED
    BY <2>1, Smallest
<1>2. T # {}
  <2>1. SumOver(u)[{}] = 0 /\ SumOver(v)[{}] = 0
    BY SumIs
  <2>2. SumOver(u)[{}] <= SumOver(v)[{}]
    BY <2>1
  <2> QED
    BY <1>1, <2>2
<1>3. PICK x \in T : TRUE
  BY <1>2
<1>4. T \ {x} \in SUBSET Channels /\ x \in Channels
  BY <1>1
<1>5. SumOver(u)[T \ {x}] <= SumOver(v)[T \ {x}]
  BY <1>1, <1>3, <1>4
<1>6. SumOver(u)[T] = u[x] + SumOver(u)[T \ {x}] /\ SumOver(v)[T] = v[x] + SumOver(v)[T \ {x}]
  BY <1>1, <1>3, SumIs
<1>7. u[x] \in Int /\ v[x] \in Int /\ SumOver(u)[T \ {x}] \in Int /\ SumOver(v)[T \ {x}] \in Int
  BY <1>4, SumIs DEF Weights
<1>8. u[x] <= v[x]
  BY <1>4
<1> DEFINE a == SumOver(u)[T \ {x}]
           b == SumOver(v)[T \ {x}]
<1>9. SumOver(u)[T] = u[x] + a /\ SumOver(v)[T] = v[x] + b /\ a <= b /\ a \in Int /\ b \in Int
  BY <1>5, <1>6, <1>7
<1>10. SumOver(u)[T] <= SumOver(v)[T]
  <2> HIDE DEF a, b
  <2> QED
    BY <1>7, <1>8, <1>9
<1> QED
  BY <1>1, <1>10

\* The sum over the members of G only.
Part(w, G) == [c \in Channels |-> IF c \in G THEN w[c] ELSE 0]

LEMMA SumOfPart ==
    ASSUME NEW w \in Weights, NEW G \in SUBSET Channels
    PROVE  \A T \in SUBSET Channels : SumOver(Part(w, G))[T] = SumOver(w)[T \cap G]
<1> DEFINE h == [T \in SUBSET Channels |-> SumOver(w)[T \cap G]]
<1>1. h[{}] = 0
  <2>1. {} \cap G = {}
    OBVIOUS
  <2> QED
    BY <2>1, SumIs
<1>2. ASSUME NEW T \in SUBSET Channels, NEW x \in T PROVE h[T] = Part(w, G)[x] + h[T \ {x}]
  <2>1. h[T] = SumOver(w)[T \cap G] /\ h[T \ {x}] = SumOver(w)[(T \ {x}) \cap G]
    OBVIOUS
  <2>2. CASE x \in G
    <3>1. (T \ {x}) \cap G = (T \cap G) \ {x} /\ T \cap G \in SUBSET Channels /\ x \in T \cap G
      BY <2>2
    <3>2. SumOver(w)[T \cap G] = w[x] + SumOver(w)[(T \cap G) \ {x}]
      BY <3>1, SumIs
    <3>3. Part(w, G)[x] = w[x]
      BY <2>2 DEF Part
    <3>4. h[T \ {x}] = SumOver(w)[(T \cap G) \ {x}]
      BY <2>1, <3>1
    <3> HIDE DEF h
    <3> QED
      BY <2>1, <3>2, <3>3, <3>4
  <2>3. CASE x \notin G
    <3>1. (T \ {x}) \cap G = T \cap G /\ T \cap G \in SUBSET Channels
      BY <2>3
    <3>2. Part(w, G)[x] = 0
      BY <2>3 DEF Part
    <3>3. SumOver(w)[T \cap G] \in Int
      BY <3>1, SumIs
    <3>4. h[T \ {x}] = SumOver(w)[T \cap G]
      BY <2>1, <3>1
    <3> HIDE DEF h
    <3> QED
      BY <2>1, <3>2, <3>3, <3>4
  <2> QED
    BY <2>2, <2>3
<1>3. AddsOne(Part(w, G), h, Channels)
  <2> HIDE DEF h
  <2> QED
    BY <1>1, <1>2 DEF AddsOne
<1>4. Part(w, G) \in Weights
  BY DEF Part, Weights
<1>5. \A T \in SUBSET Channels : h[T] = SumOver(Part(w, G))[T]
  <2> HIDE DEF h
  <2> QED
    BY <1>3, <1>4, SumEquals
<1> QED
  BY <1>5

\* Sums of natural numbers grow with the set.
LEMMA SumGrows ==
    ASSUME NEW w \in [Channels -> Nat], NEW L \in SUBSET Channels, NEW K \in SUBSET L
    PROVE  0 <= SumOver(w)[K] /\ SumOver(w)[K] <= SumOver(w)[L]
<1>1. w \in Weights /\ \A G \in SUBSET Channels : Part(w, G) \in Weights
  BY DEF Weights, Part
<1>2. \A G \in SUBSET Channels : \A c \in Channels : Part(w, G)[c] <= w[c]
  BY DEF Part
<1>3. ASSUME NEW M \in SUBSET Channels, NEW G \in SUBSET M PROVE SumOver(w)[G] <= SumOver(w)[M]
  <2>1. M \cap G = G /\ G \in SUBSET Channels
    OBVIOUS
  <2>2. SumOver(Part(w, G))[M] = SumOver(w)[M \cap G]
    BY <1>1, <2>1, SumOfPart
  <2>3. SumOver(Part(w, G))[M] <= SumOver(w)[M]
    BY <1>1, <1>2, <2>1, SumMonotone
  <2> QED
    BY <2>1, <2>2, <2>3
<1>4. SumOver(w)[{}] = 0
  BY <1>1, SumIs
<1> QED
  BY <1>3, <1>4

LEMMA SumAlone ==
    ASSUME NEW s \in Channels, NEW k \in Int
    PROVE  \A T \in SUBSET Channels : SumOver([c \in Channels |-> IF c = s THEN k ELSE 0])[T] = IF s \in T THEN k ELSE 0
<1> DEFINE w == [c \in Channels |-> IF c = s THEN k ELSE 0]
           h == [T \in SUBSET Channels |-> IF s \in T THEN k ELSE 0]
<1>1. AddsOne(w, h, Channels)
  <2>1. h[{}] = 0
    OBVIOUS
  <2>2. ASSUME NEW T \in SUBSET Channels, NEW x \in T PROVE h[T] = w[x] + h[T \ {x}]
    OBVIOUS
  <2> HIDE DEF w, h
  <2> QED
    BY <2>1, <2>2 DEF AddsOne
<1>2. w \in Weights
  BY DEF Weights
<1>3. \A T \in SUBSET Channels : h[T] = SumOver(w)[T]
  <2> HIDE DEF w, h
  <2> QED
    BY <1>1, <1>2, SumEquals
<1> QED
  BY <1>3

(* The weights of a round. *)

KeyWeights(s) == [c \in Channels |-> calcEffectiveKeyCount(s, c)]
MostKeys == [c \in Channels |-> IF KeyCount[c] > 1 THEN KeyCount[c] ELSE 1]
\* What a round adds at most.
Load == SumOver(MostKeys)[Channels]

LEMMA KeyWeightIs ==
    ASSUME NEW s \in Snapshots, NEW c \in Channels
    PROVE  /\ calcEffectiveKeyCount(s, c) \in Nat /\ calcEffectiveKeyCount(s, c) >= 1
           /\ calcEffectiveKeyCount(s, c) <= MostKeys[c]
<1> DEFINE usable == {k \in 1..KeyCount[c] : s[c].keys[k] = 0}
           n == Cardinality(usable)
<1>1. KeyCount[c] \in Nat
  BY SelectionAssumption
<1>2. IsFiniteSet(1..KeyCount[c]) /\ Cardinality(1..KeyCount[c]) = KeyCount[c]
  BY <1>1, FS_Interval
<1>3. usable \subseteq 1..KeyCount[c]
  OBVIOUS
<1>4. n \in Nat /\ n <= KeyCount[c]
  <2> HIDE DEF usable
  <2> QED
    BY <1>2, <1>3, FS_Subset, FS_CardinalityType
<1>5. calcEffectiveKeyCount(s, c) = Max({1, n})
  BY DEF calcEffectiveKeyCount
<1> HIDE DEF n
<1>6. Max({1, n}) = IF n > 1 THEN n ELSE 1
  <2>1. IsFiniteSet({1, n})
    <3>1. {1, n} = {1} \cup {n}
      OBVIOUS
    <3>2. IsFiniteSet({1}) /\ \A k : IsFiniteSet({k})
      BY FS_Singleton
    <3>3. IsFiniteSet({1} \cup {n})
      BY <3>2, FS_Union
    <3> QED
      BY <3>1, <3>3
  <2>2. Max({1, n}) \in {1, n} /\ \A y \in {1, n} : y <= Max({1, n})
    <3> DEFINE S == {1, n}
    <3>1. IsFiniteSet(S) /\ S \subseteq Nat /\ S # {}
      BY <1>4, <2>1
    <3>2. Max(S) \in S /\ \A y \in S : y <= Max(S)
      <4> HIDE DEF S
      <4> QED
        BY <3>1, MaxIs
    <3> QED
      BY <3>2
  <2> QED
    BY <1>4, <2>2
<1> QED
  BY <1>1, <1>4, <1>5, <1>6 DEF MostKeys

LEMMA LoadIs == MostKeys \in [Channels -> Nat] /\ Load \in Nat
<1>1. MostKeys \in [Channels -> Nat]
  BY SelectionAssumption DEF MostKeys
<1>2. MostKeys \in Weights
  BY <1>1 DEF Weights
<1>3. 0 <= SumOver(MostKeys)[{}] /\ SumOver(MostKeys)[{}] <= SumOver(MostKeys)[Channels]
  BY <1>1, SumGrows
<1>4. SumOver(MostKeys)[{}] = 0 /\ SumOver(MostKeys)[Channels] \in Int
  BY <1>2, SumIs
<1> QED
  BY <1>1, <1>3, <1>4 DEF Load

\* What selectByWeight charges is the sum of the weights of the tier.
LEMMA TotalIs ==
    ASSUME NEW s \in Snapshots, NEW G \in SUBSET Channels
    PROVE  MapThenSumSet(LAMBDA c : calcEffectiveKeyCount(s, c), G) = SumOver(KeyWeights(s))[G]
<1> DEFINE step(f, R) == IF R = {} THEN 0
                         ELSE calcEffectiveKeyCount(s, CHOOSE x \in R : TRUE) + f[R \ {CHOOSE x \in R : TRUE}]
           iter == CHOOSE f : f = [R \in SUBSET G |-> step(f, R)]
           w == KeyWeights(s)
           g == [R \in SUBSET G |-> SumOver(w)[R]]
<1>1. MapThenSumSet(LAMBDA c : calcEffectiveKeyCount(s, c), G) = iter[G]
  BY DEF MapThenSumSet, MapThenFoldSet
<1>w. w \in Weights /\ \A c \in Channels : w[c] = calcEffectiveKeyCount(s, c)
  BY KeyWeightIs DEF Weights, KeyWeights
<1>2. g = [R \in SUBSET G |-> step(g, R)]
  <2> SUFFICES ASSUME NEW R \in SUBSET G PROVE g[R] = step(g, R)
    BY Zenon
  <2> HIDE DEF w
  <2>1. CASE R = {}
    BY <1>w, <2>1, SumIs
  <2>2. CASE R # {}
    <3> DEFINE x == CHOOSE x \in R : TRUE
    <3>1. x \in R
      BY <2>2
    <3> HIDE DEF x
    <3>2. SumOver(w)[R] = w[x] + SumOver(w)[R \ {x}]
      BY <1>w, <3>1, SumIs
    <3>3. step(g, R) = calcEffectiveKeyCount(s, x) + SumOver(w)[R \ {x}]
      BY <2>2 DEF x
    <3>4. w[x] = calcEffectiveKeyCount(s, x)
      BY <1>w, <3>1
    <3> QED
      BY <3>2, <3>3, <3>4
  <2> QED
    BY <2>1, <2>2
<1>3. iter = [R \in SUBSET G |-> step(iter, R)]
  <2> HIDE DEF g
  <2> QED
    BY <1>2
<1>4. ASSUME NEW T \in SUBSET G PROVE iter[T] = step(iter, T)
  <2> HIDE DEF iter, step
  <2> QED
    BY <1>3
<1>5. AddsOne(w, iter, G)
  <2>1. iter[{}] = 0
    <3> HIDE DEF iter
    <3> QED
      BY <1>4
  <2>2. ASSUME NEW T \in SUBSET G, T # {} PROVE \E x \in T : iter[T] = w[x] + iter[T \ {x}]
    <3> DEFINE x == CHOOSE x \in T : TRUE
    <3>1. iter[T] = calcEffectiveKeyCount(s, x) + iter[T \ {x}]
      <4> HIDE DEF iter
      <4> QED
        BY <1>4, <2>2
    <3>2. x \in T /\ w[x] = calcEffectiveKeyCount(s, x)
      <4>1. x \in T
        BY <2>2
      <4> HIDE DEF x, w
      <4> QED
        BY <1>w, <4>1
    <3> HIDE DEF iter, w, x
    <3> QED
      BY <3>1, <3>2
  <2> HIDE DEF iter, w
  <2> QED
    BY <2>1, <2>2 DEF AddsOne
<1>6. iter[G] = SumOver(w)[G]
  <2>1. \E a : AddsUp(w, a, Channels)
    BY <1>w, SumExists, SelectionAssumption DEF Weights
  <2>2. AddsUp(w, SumOver(w), Channels)
    BY <2>1 DEF SumOver
  <2>3. \A T \in SUBSET G : iter[T] = SumOver(w)[T]
    <3> DEFINE sum == SumOver(w)
    <3>1. AddsUp(w, sum, Channels) /\ AddsOne(w, iter, G) /\ IsFiniteSet(Channels)
      BY <1>5, <2>2, SelectionAssumption
    <3> HIDE DEF iter, w, sum
    <3>2. \A T \in SUBSET G : iter[T] = sum[T]
      BY <3>1, SumUnique
    <3> QED
      BY <3>2 DEF sum
  <2> QED
    BY <2>3
<1> DEFINE m == MapThenSumSet(LAMBDA c : calcEffectiveKeyCount(s, c), G)
<1>7. m = iter[G]
  BY <1>1
<1> HIDE DEF m, iter, w
<1> QED
  BY <1>6, <1>7 DEF m, w

LEMMA SelectedIs ==
    ASSUME NEW up \in Weights, NEW G \in SUBSET Channels, G # {}
    PROVE  Selected(G, up) \in G /\ \A d \in G : up[d] <= up[Selected(G, up)]
<1> DEFINE Over(c, d) == up[c] > up[d] \/ (up[c] = up[d] /\ c <= d)
           bad == {T \in SUBSET G : T # {} /\ ~ \E c \in T : \A d \in T : Over(c, d)}
<1>1. \A c \in Channels : up[c] \in Int /\ c \in Int
  BY SelectionAssumption DEF Weights
<1>2. \A b, c, d \in Channels : Over(c, c) /\ (Over(c, d) \/ Over(d, c)) /\ (Over(b, c) /\ Over(c, d) => Over(b, d))
  BY <1>1
<1>3. ASSUME bad # {} PROVE FALSE
  <2>1. PICK T \in bad : \A x \in T : T \ {x} \notin bad
    <3>1. bad \subseteq SUBSET Channels /\ IsFiniteSet(Channels)
      BY SelectionAssumption
    <3> HIDE DEF bad
    <3> QED
      BY <1>3, <3>1, Smallest
  <2>2. T \in SUBSET Channels /\ T # {} /\ ~ \E c \in T : \A d \in T : Over(c, d)
    BY <2>1
  <2>3. PICK x \in T : TRUE
    BY <2>2
  <2> HIDE DEF Over
  <2>4. T \ {x} # {}
    <3>1. CASE T = {x}
      BY <1>2, <2>2, <2>3, <3>1
    <3> QED
      BY <2>3, <3>1
  <2>5. PICK c \in T \ {x} : \A d \in T \ {x} : Over(c, d)
    BY <2>1, <2>3, <2>4
  <2>6. CASE Over(c, x)
    BY <2>2, <2>3, <2>5, <2>6
  <2>7. CASE Over(x, c)
    <3>1. \A d \in T : Over(x, d)
      BY <1>2, <2>2, <2>3, <2>5, <2>7
    <3> QED
      BY <2>2, <2>3, <3>1
  <2> QED
    BY <1>2, <2>2, <2>3, <2>5, <2>6, <2>7
<1>4. \E c \in G : \A d \in G : Over(c, d)
  <2> HIDE DEF Over
  <2> QED
    BY <1>3
<1>5. Selected(G, up) = CHOOSE c \in G : \A d \in G : Over(c, d)
  BY DEF Selected
<1>6. Selected(G, up) \in G /\ \A d \in G : Over(Selected(G, up), d)
  <2> HIDE DEF Over
  <2> QED
    BY <1>4, <1>5
<1>7. \A d \in G : up[d] \in Int /\ up[Selected(G, up)] \in Int
  BY <1>1, <1>6
<1> QED
  BY <1>6, <1>7

(* The weights of a tier stay balanced: no set of k channels has built up more *)
(* than Load * k * (n - k), and all of them together nothing.                  *)

Number == Cardinality(Channels)
Level(k) == Load * (k * (Number - k))
Balanced(w) ==
    /\ w \in Weights /\ SumOver(w)[Channels] = 0
    /\ \A K \in SUBSET Channels : SumOver(w)[K] <= Level(Cardinality(K))

LEMMA LevelIs ==
    ASSUME NEW k \in 0..Number
    PROVE  /\ Level(k) \in Nat /\ Number \in Nat
           /\ k \in 1..(Number - 1) => Level(k - 1) + Level(k + 1) + 2 * Load = 2 * Level(k)
<1>1. Number \in Nat /\ Load \in Nat
  BY LoadIs, SelectionAssumption, FS_CardinalityType DEF Number
<1>2. k * (Number - k) \in Nat
  BY <1>1
<1>3. Level(k) \in Nat
  BY <1>1, <1>2 DEF Level
<1>4. k \in 1..(Number - 1) => Level(k - 1) + Level(k + 1) + 2 * Load = 2 * Level(k)
  <2> DEFINE p == k * (Number - k)
  <2>1. (k - 1) * (Number - (k - 1)) + (k + 1) * (Number - (k + 1)) + 2 = 2 * p
    BY <1>1
  <2> DEFINE a == (k - 1) * (Number - (k - 1))
             b == (k + 1) * (Number - (k + 1))
  <2>2. a \in Int /\ b \in Int /\ p \in Int
    BY <1>1
  <2>3. Level(k - 1) = Load * a /\ Level(k + 1) = Load * b /\ Level(k) = Load * p
    BY DEF Level
  <2>4. a + b + 2 = 2 * p
    BY <2>1
  <2>5. Load * a + Load * b + 2 * Load = 2 * (Load * p)
    <3> HIDE DEF a, b, p
    <3>1. Load * (a + b + 2) = Load * (2 * p)
      BY <2>4
    <3> QED
      BY <1>1, <2>2, <3>1
  <2> QED
    BY <2>3, <2>5
<1> QED
  BY <1>1, <1>3, <1>4

\* What a balanced tier lets one channel have or lack.
LEMMA BalancedBounds ==
    ASSUME NEW w, Balanced(w), NEW c \in Channels
    PROVE  /\ w[c] \in Int
           /\ w[c] <= Load * (Number - 1) /\ -(Load * (Number - 1)) <= w[c]
<1>1. Number \in Nat /\ IsFiniteSet(Channels) /\ Load \in Nat
  BY LoadIs, SelectionAssumption, FS_CardinalityType DEF Number
<1>2. /\ {c} \in SUBSET Channels /\ Channels \ {c} \in SUBSET Channels
      /\ Cardinality({c}) = 1 /\ Cardinality(Channels \ {c}) = Number - 1
  BY <1>1, FS_Singleton, FS_RemoveElement DEF Number
<1>3. SumOver(w)[{c}] = w[c] + SumOver(w)[{}] /\ SumOver(w)[{}] = 0
  <2>1. {c} \ {c} = {}
    OBVIOUS
  <2> QED
    BY <1>2, <2>1, SumIs DEF Balanced
<1>4. SumOver(w)[Channels] = w[c] + SumOver(w)[Channels \ {c}]
  BY SumIs DEF Balanced
<1>5. w[c] \in Int /\ SumOver(w)[Channels \ {c}] \in Int
  BY <1>2, SumIs DEF Balanced, Weights
<1>6. SumOver(w)[{c}] <= Level(1) /\ SumOver(w)[Channels \ {c}] <= Level(Number - 1) /\ SumOver(w)[Channels] = 0
  BY <1>2 DEF Balanced
<1>7. Level(1) = Load * (Number - 1) /\ Level(Number - 1) = Load * (Number - 1)
  <2>1. 1 * (Number - 1) = Number - 1 /\ (Number - 1) * (Number - (Number - 1)) = Number - 1
    BY <1>1
  <2> QED
    BY <2>1 DEF Level
<1> DEFINE m == Load * (Number - 1)
           rest == SumOver(w)[Channels \ {c}]
<1>8. m \in Int
  BY <1>1
<1>9. w[c] <= m /\ 0 = w[c] + rest /\ rest <= m /\ rest \in Int
  BY <1>3, <1>4, <1>5, <1>6, <1>7
<1>10. w[c] <= m /\ -m <= w[c]
  <2> HIDE DEF m, rest
  <2> QED
    BY <1>5, <1>8, <1>9
<1> QED
  BY <1>5, <1>10

\* The step of the argument: a set that gains in a round gains no more than half
\* of what the sets with one member fewer and with the selected one more may have.
LEMMA RoundBalanced ==
    ASSUME NEW s \in Snapshots, NEW G \in SUBSET Channels, NEW cur, Balanced(cur), Cardinality(G) > 1
    PROVE  LET up == Raised(s, G, cur)
               c == Selected(G, up)
               new == Charged(s, G, cur)
           IN  /\ c \in G /\ c = First(s, G, cur) /\ Balanced(new)
               /\ \A d \in G \ {c} : new[d] = cur[d] + calcEffectiveKeyCount(s, d)
               /\ \A d \in Channels \ G : new[d] = cur[d]
<1> DEFINE up == Raised(s, G, cur)
           c == Selected(G, up)
           new == Charged(s, G, cur)
           a == Part(KeyWeights(s), G)
           total == SumOver(KeyWeights(s))[G]
           v == [d \in Channels |-> IF d = c THEN -total ELSE 0]
           f(K) == SumOver(cur)[K]
           g(K) == SumOver(up)[K]
           h(K) == SumOver(new)[K]
           e(K) == SumOver(a)[K]
<1>1. /\ KeyWeights(s) \in Weights /\ KeyWeights(s) \in [Channels -> Nat] /\ cur \in Weights
      /\ \A d \in Channels : KeyWeights(s)[d] = calcEffectiveKeyCount(s, d) /\ KeyWeights(s)[d] <= MostKeys[d]
  BY KeyWeightIs DEF KeyWeights, Weights, Balanced
<1>2. a \in Weights /\ a \in [Channels -> Nat] /\ MostKeys \in Weights /\ \A d \in Channels : a[d] <= MostKeys[d]
  BY <1>1, LoadIs DEF Weights, Part
<1>3. up \in Weights /\ \A d \in Channels : up[d] = cur[d] + a[d]
  <2>1. \A d \in Channels : up[d] = cur[d] + a[d] /\ cur[d] \in Int /\ a[d] \in Int
    BY <1>1, <1>2 DEF Raised, Part, KeyWeights, Weights
  <2>2. up = [d \in Channels |-> up[d]]
    BY DEF Raised
  <2> HIDE DEF up, a
  <2> QED
    BY <2>1, <2>2 DEF Weights
<1>4. G # {} /\ Cardinality(G) # 1 /\ ~ Cardinality(G) <= 1
  <2>1. Cardinality(G) \in Nat
    BY SelectionAssumption, FS_Subset, FS_CardinalityType
  <2>2. Cardinality({}) = 0
    BY FS_EmptySet
  <2> QED
    BY <2>1, <2>2
<1>5. c \in G /\ c \in Channels /\ \A d \in G : up[d] <= up[c]
  <2> HIDE DEF up
  <2> QED
    BY <1>3, <1>4, SelectedIs
<1>6. c = First(s, G, cur)
  BY <1>4 DEF First, Before
<1>7. new = [up EXCEPT ![c] = @ - total]
  <2>1. MapThenSumSet(LAMBDA d : calcEffectiveKeyCount(s, d), G) = total
    BY TotalIs
  <2> QED
    BY <1>4, <2>1 DEF Charged, Before
<1>8. total \in Int /\ e(Channels) = total /\ \A K \in SUBSET Channels : K \cap G = {} => e(K) = 0
  <2>1. Channels \cap G = G /\ SumOver(KeyWeights(s))[{}] = 0 /\ total \in Int
    BY <1>1, SumIs
  <2>2. \A K \in SUBSET Channels : e(K) = SumOver(KeyWeights(s))[K \cap G]
    BY <1>1, SumOfPart
  <2> HIDE DEF total, e
  <2> QED
    BY <2>1, <2>2 DEF total
<1>9. v \in Weights /\ new \in Weights /\ \A d \in Channels : new[d] = up[d] + v[d]
  <2>1. v \in Weights
    BY <1>8 DEF Weights
  <2>2. \A d \in Channels : up[d] \in Int
    BY <1>3 DEF Weights
  <2>3. \A d \in Channels : new[d] = (IF d = c THEN up[d] - total ELSE up[d])
    BY <1>3, <1>7 DEF Weights
  <2>4. new = [d \in Channels |-> new[d]]
    BY <1>3, <1>7 DEF Weights
  <2> HIDE DEF new, up, total
  <2>5. new \in Weights /\ \A d \in Channels : new[d] = up[d] + v[d]
    BY <1>8, <2>2, <2>3, <2>4 DEF Weights
  <2> QED
    BY <2>1, <2>5
<1>10. \A K \in SUBSET Channels : /\ f(K) \in Int /\ g(K) \in Int /\ h(K) \in Int /\ e(K) \in Int
                                  /\ g(K) = f(K) + e(K)
                                  /\ h(K) = g(K) + (IF c \in K THEN -total ELSE 0)
  <2>1. \A K \in SUBSET Channels : f(K) \in Int /\ g(K) \in Int /\ h(K) \in Int /\ e(K) \in Int
    <3> HIDE DEF up, a, new
    <3> QED
      BY <1>1, <1>2, <1>3, <1>9, SumIs
  <2>2. \A K \in SUBSET Channels : g(K) = f(K) + e(K)
    <3> HIDE DEF up, a
    <3> QED
      BY <1>1, <1>2, <1>3, SumPlus
  <2>3. \A K \in SUBSET Channels : h(K) = g(K) + SumOver(v)[K]
    <3> HIDE DEF up, new, v
    <3> QED
      BY <1>3, <1>9, SumPlus
  <2>4. \A K \in SUBSET Channels : SumOver(v)[K] = IF c \in K THEN -total ELSE 0
    <3>1. -total \in Int
      BY <1>8
    <3> HIDE DEF total, c
    <3> QED
      BY <1>5, <3>1, SumAlone
  <2> HIDE DEF f, g, h, e, v
  <2> QED
    BY <2>1, <2>2, <2>3, <2>4
<1>11. \A K \in SUBSET Channels : 0 <= e(K) /\ e(K) <= total /\ e(K) <= Load
  <2>1. \A K \in SUBSET Channels : 0 <= e(K) /\ e(K) <= e(Channels)
    <3> HIDE DEF a
    <3> QED
      BY <1>2, SumGrows
  <2>2. e(Channels) <= Load
    <3> HIDE DEF a
    <3>1. \A K \in SUBSET Channels : e(K) <= SumOver(MostKeys)[K]
      BY <1>2, SumMonotone
    <3> QED
      BY <3>1 DEF Load
  <2>3. Load \in Int /\ e(Channels) \in Int
    BY <1>10, LoadIs
  <2> HIDE DEF e
  <2> QED
    BY <1>8, <1>10, <2>1, <2>2, <2>3
<1>12. h(Channels) = 0
  <2>1. f(Channels) = 0 /\ Channels \in SUBSET Channels
    BY DEF Balanced
  <2> HIDE DEF f, g, h, e, total, c
  <2> QED
    BY <1>5, <1>8, <1>10, <2>1
<1>13. ASSUME NEW K \in SUBSET Channels PROVE h(K) <= Level(Cardinality(K))
  <2>f. \A M \in SUBSET Channels : f(M) <= Level(Cardinality(M))
    BY DEF Balanced
  <2>1. /\ IsFiniteSet(Channels) /\ IsFiniteSet(K) /\ Cardinality(K) \in 0..Number /\ Number \in Nat
        /\ (Cardinality(K) = Number => K = Channels)
    <3>1. IsFiniteSet(Channels) /\ IsFiniteSet(K) /\ Cardinality(K) \in Nat /\ Number \in Nat /\ Cardinality(K) <= Number
      BY SelectionAssumption, FS_Subset, FS_CardinalityType DEF Number
    <3>2. Cardinality(K) = Number => K = Channels
      BY <3>1, FS_Subset DEF Number
    <3> QED
      BY <3>1, <3>2
  <2>2. Level(Cardinality(K)) \in Nat
    BY <2>1, LevelIs
  <2>3. CASE c \in K
    <3> HIDE DEF f, g, h, e, total, c
    <3> QED
      BY <1>8, <1>10, <1>11, <2>f, <2>2, <2>3
  <2>4. CASE c \notin K /\ K \cap G = {}
    <3> HIDE DEF f, g, h, e, total, c
    <3> QED
      BY <1>8, <1>10, <2>f, <2>2, <2>4
  <2>5. CASE c \notin K /\ K \cap G # {}
    <3>1. PICK d \in K \cap G : TRUE
      BY <2>5
    <3> DEFINE k == Cardinality(K)
               less == K \ {d}
               more == K \cup {c}
    <3>2. less \in SUBSET Channels /\ more \in SUBSET Channels /\ c \in more /\ more \ {c} = K /\ K \in SUBSET Channels
      <4> HIDE DEF c
      <4> QED
        BY <1>5, <2>5
    <3>3. Cardinality(less) = k - 1 /\ Cardinality(more) = k + 1 /\ k # 0
      <4> HIDE DEF c
      <4>1. Cardinality(less) = k - 1
        BY <2>1, <3>1, FS_RemoveElement
      <4>2. Cardinality(more) = k + 1
        BY <2>1, <2>5, FS_AddElement
      <4>3. Cardinality(less) \in Nat
        BY <2>1, <3>2, FS_Subset, FS_CardinalityType
      <4> QED
        BY <4>1, <4>2, <4>3
    <3>4. k \in 1..(Number - 1)
      <4>1. k # Number
        <5> HIDE DEF c
        <5> QED
          BY <1>5, <2>1, <2>5
      <4> HIDE DEF k
      <4>2. k \in 0..Number /\ Number \in Nat
        BY <2>1 DEF k
      <4> QED
        BY <3>3, <4>1, <4>2
    <3>5. g(K) = up[d] + g(less) /\ g(more) = up[c] + g(K) /\ up[d] <= up[c] /\ up[d] \in Int /\ up[c] \in Int
      <4>1. g(K) = up[d] + g(less)
        <5> HIDE DEF up
        <5> QED
          BY <1>3, <3>1, SumIs
      <4>2. g(more) = up[c] + g(more \ {c})
        <5> HIDE DEF up, c
        <5> QED
          BY <1>3, <3>2, SumIs
      <4>3. up[d] <= up[c] /\ up[d] \in Int /\ up[c] \in Int
        <5> HIDE DEF up, c
        <5> QED
          BY <1>3, <1>5, <3>1 DEF Weights
      <4>4. g(more) = up[c] + g(K)
        <5> HIDE DEF up, c, more
        <5> QED
          BY <3>2, <4>2
      <4> HIDE DEF up, c, less, more
      <4> QED
        BY <4>1, <4>3, <4>4
    <3>6. f(less) <= Level(k - 1) /\ f(more) <= Level(k + 1)
      <4> HIDE DEF f, less, more, k
      <4> QED
        BY <2>f, <3>2, <3>3
    <3>7. g(less) = f(less) + e(less) /\ g(more) = f(more) + e(more) /\ h(K) = g(K)
      <4> HIDE DEF f, e, g, h, less, more, c, total
      <4> QED
        BY <1>10, <2>5, <3>2
    <3>8. e(less) <= Load /\ e(more) <= Load /\ Load \in Int
      <4> HIDE DEF e, less, more
      <4> QED
        BY <1>11, <3>2, LoadIs
    <3>9. /\ f(less) \in Int /\ e(less) \in Int /\ f(more) \in Int /\ e(more) \in Int
          /\ g(K) \in Int /\ g(less) \in Int /\ g(more) \in Int /\ h(K) \in Int
      <4> HIDE DEF f, e, g, h, less, more, c
      <4> QED
        BY <1>10, <3>2
    <3>10. Level(k - 1) + Level(k + 1) + 2 * Load = 2 * Level(k) /\ Level(k) \in Int
           /\ Level(k - 1) \in Int /\ Level(k + 1) \in Int
      <4> HIDE DEF k
      <4>1. k \in 0..Number /\ k - 1 \in 0..Number /\ k + 1 \in 0..Number
        BY <2>1, <3>4
      <4> QED
        BY <3>4, <4>1, LevelIs
    <3> DEFINE lo == Level(k - 1)
               hi == Level(k + 1)
               mid == Level(k)
    <3>11. 2 * h(K) <= 2 * mid /\ mid \in Int /\ h(K) \in Int
      <4> DEFINE u == up[d]
                 x == up[c]
                 fl == f(less)
                 fm == f(more)
                 el == e(less)
                 em == e(more)
                 gk == g(K)
                 gl == g(less)
                 gm == g(more)
                 hk == h(K)
      <4>1. gk = u + gl /\ gm = x + gk /\ u <= x /\ u \in Int /\ x \in Int
        BY <3>5
      <4>2. fl <= lo /\ fm <= hi /\ gl = fl + el /\ gm = fm + em /\ hk = gk
        BY <3>6, <3>7
      <4>3. el <= Load /\ em <= Load /\ Load \in Int /\ fl \in Int /\ el \in Int /\ fm \in Int /\ em \in Int
            /\ gk \in Int /\ gl \in Int /\ gm \in Int
        BY <3>8, <3>9
      <4>4. lo + hi + 2 * Load = 2 * mid /\ lo \in Int /\ hi \in Int /\ mid \in Int
        BY <3>10
      <4>5. 2 * hk <= 2 * mid /\ hk \in Int
        <5> HIDE DEF u, x, fl, fm, el, em, gk, gl, gm, hk, lo, hi, mid
        <5> QED
          BY <4>1, <4>2, <4>3, <4>4
      <4> QED
        BY <4>4, <4>5
    <3>12. h(K) <= mid
      <4> HIDE DEF h, mid
      <4> QED
        BY <3>11
    <3> QED
      BY <3>12
  <2> HIDE DEF h, c
  <2> QED
    BY <2>3, <2>4, <2>5
<1>14. Balanced(new)
  <2> HIDE DEF new
  <2> QED
    BY <1>9, <1>12, <1>13 DEF Balanced
<1>15. \A d \in Channels : new[d] = up[d] + v[d] /\ up[d] = cur[d] + a[d] /\ cur[d] \in Int /\ a[d] \in Int
  <2> HIDE DEF new, up, v, a
  <2> QED
    BY <1>1, <1>2, <1>3, <1>9 DEF Weights
<1>16. \A d \in G \ {c} : v[d] = 0 /\ a[d] = calcEffectiveKeyCount(s, d)
  <2> HIDE DEF c, total
  <2> QED
    BY <1>1 DEF Part
<1>17. \A d \in Channels \ G : v[d] = 0 /\ a[d] = 0
  <2> HIDE DEF c, total
  <2> QED
    BY <1>5 DEF Part
<1>18. \A d \in G \ {c} : new[d] = cur[d] + calcEffectiveKeyCount(s, d)
  <2> HIDE DEF new, up, v, a, c
  <2> QED
    BY <1>15, <1>16
<1>19. \A d \in Channels \ G : new[d] = cur[d]
  <2> HIDE DEF new, up, v, a
  <2> QED
    BY <1>15, <1>17
<1> HIDE DEF new, c
<1> QED
  BY <1>5, <1>6, <1>14, <1>18, <1>19 DEF new, c

\* Skips are paid for in weight.
SkipsPaid(k, w) == \A c \in Channels : k[c] \in Nat /\ k[c] <= w[c] + Load * (Number - 1)
BalanceInv ==
    /\ weight \in [Tiers -> [Channels -> Int]] /\ skips \in [Tiers -> [Channels -> Nat]]
    /\ \A t \in Tiers : Balanced(weight[t]) /\ SkipsPaid(skips[t], weight[t])

LEMMA ZeroBalanced == Balanced(Zero) /\ SkipsPaid(Zero, Zero)
<1>1. Zero \in Weights /\ Load \in Nat /\ Number \in Nat
  BY LoadIs, SelectionAssumption, FS_CardinalityType DEF Weights, Zero, Number
<1> DEFINE h == [T \in SUBSET Channels |-> 0]
<1>2. AddsOne(Zero, h, Channels)
  <2>1. \A x \in Channels : Zero[x] = 0
    BY DEF Zero
  <2> QED
    BY <2>1 DEF AddsOne
<1>3. \A T \in SUBSET Channels : SumOver(Zero)[T] = 0
  <2>1. \A T \in SUBSET Channels : h[T] = SumOver(Zero)[T]
    <3> HIDE DEF h
    <3> QED
      BY <1>1, <1>2, SumEquals
  <2> QED
    BY <2>1
<1>4. ASSUME NEW K \in SUBSET Channels PROVE SumOver(Zero)[K] <= Level(Cardinality(K))
  <2>1. Cardinality(K) \in 0..Number
    <3>1. IsFiniteSet(Channels) /\ IsFiniteSet(K) /\ Cardinality(K) \in Nat /\ Cardinality(K) <= Number
      BY SelectionAssumption, FS_Subset, FS_CardinalityType DEF Number
    <3> QED
      BY <1>1, <3>1
  <2>2. Level(Cardinality(K)) \in Nat
    BY <2>1, LevelIs
  <2> QED
    BY <1>3, <2>2
<1>5. Balanced(Zero)
  BY <1>1, <1>3, <1>4 DEF Balanced
<1>6. ASSUME NEW c \in Channels PROVE Zero[c] \in Nat /\ Zero[c] <= Zero[c] + Load * (Number - 1)
  <2>1. Zero[c] = 0 /\ -(Load * (Number - 1)) <= Zero[c] /\ Load * (Number - 1) \in Int
    BY <1>1, <1>5, BalancedBounds DEF Zero
  <2> DEFINE m == Load * (Number - 1)
  <2>2. -m <= 0 /\ m \in Int
    BY <2>1
  <2>3. 0 <= 0 + m
    <3> HIDE DEF m
    <3> QED
      BY <2>2
  <2> QED
    BY <2>1, <2>3
<1> QED
  BY <1>5, <1>6 DEF SkipsPaid

LEMMA BalanceInit ==
    ASSUME SelectionInit
    PROVE  BalanceInv
<1>1. \A t \in Tiers : weight[t] = Zero /\ skips[t] = Zero
  BY DEF SelectionInit
<1>2. weight \in [Tiers -> [Channels -> Int]] /\ skips \in [Tiers -> [Channels -> Nat]]
  BY DEF SelectionInit, Zero
<1> QED
  BY <1>1, <1>2, ZeroBalanced DEF BalanceInv

\* A selection from a tier.
LEMMA SelectBalance ==
    ASSUME BalanceInv, NEW s \in Snapshots, NEW p \in Penalties, Select(s, p)
    PROVE  BalanceInv'
<1> SUFFICES ASSUME NEW t \in Tiers
             PROVE  /\ weight'[t] \in [Channels -> Int] /\ skips'[t] \in [Channels -> Nat]
                    /\ Balanced(weight'[t]) /\ SkipsPaid(skips'[t], weight'[t])
  <2>1. weight' = [t \in Tiers |-> weight'[t]] /\ skips' = [t \in Tiers |-> skips'[t]]
    BY DEF Select
  <2>2. weight' \in [Tiers -> [Channels -> Int]] /\ skips' \in [Tiers -> [Channels -> Nat]]
    BY <2>1
  <2> QED
    BY <2>2 DEF BalanceInv
<1> DEFINE G == TierOf(s, p, t)
           cur == weight[t]
           k == skips[t]
           new == Charged(s, G, cur)
           m == Load * (Number - 1)
<1>1. Balanced(cur) /\ SkipsPaid(k, cur) /\ cur \in [Channels -> Int] /\ m \in Int /\ G \in SUBSET Channels
  <2>1. Load \in Nat /\ Number \in Nat
    BY LoadIs, SelectionAssumption, FS_CardinalityType DEF Number
  <2>2. G \in SUBSET Channels
    BY DEF TierOf, filterCooledChannels, Open
  <2> QED
    BY <2>1, <2>2 DEF BalanceInv
<1>2. weight'[t] = new
  BY DEF Select
<1>3. skips'[t] = [c \in Channels |->
                     IF c \notin G \/ Cardinality(G) = 1 THEN k[c]
                     ELSE IF c = First(s, G, cur) THEN 0 ELSE k[c] + 1]
  BY DEF Select
<1>4. IsFiniteSet(G) /\ Cardinality(G) \in Nat /\ (Cardinality(G) = 0 => G = {})
  BY <1>1, SelectionAssumption, FS_Subset, FS_CardinalityType, FS_EmptySet
<1>5. CASE ~ Cardinality(G) > 1
  <2>1. new = cur
    BY <1>4, <1>5 DEF Charged
  <2>2. \A c \in Channels : skips'[t][c] = k[c]
    <3> HIDE DEF G, cur, k
    <3> QED
      BY <1>3, <1>4, <1>5
  <2>3. skips'[t] \in [Channels -> Nat]
    <3>1. \A c \in Channels : k[c] \in Nat
      BY <1>1 DEF SkipsPaid
    <3> HIDE DEF G, new, k, cur
    <3> QED
      BY <1>3, <2>2, <3>1
  <2> HIDE DEF G, new, k, cur
  <2> QED
    BY <1>1, <1>2, <2>1, <2>2, <2>3 DEF SkipsPaid
<1>6. CASE Cardinality(G) > 1
  <2> DEFINE c == First(s, G, cur)
  <2>1. /\ c \in G /\ Balanced(new)
        /\ \A d \in G \ {c} : new[d] = cur[d] + calcEffectiveKeyCount(s, d)
        /\ \A d \in Channels \ G : new[d] = cur[d]
    <3> HIDE DEF G, cur
    <3> QED
      BY <1>1, <1>6, RoundBalanced
  <2>2. ASSUME NEW d \in Channels PROVE skips'[t][d] \in Nat /\ skips'[t][d] <= new[d] + m
    <3>1. k[d] \in Nat /\ k[d] <= cur[d] + m /\ cur[d] \in Int
      BY <1>1 DEF SkipsPaid
    <3>2. CASE d \notin G
      <4>1. skips'[t][d] = k[d] /\ new[d] = cur[d]
        <5> HIDE DEF G, k, new, cur
        <5> QED
          BY <1>3, <2>1, <3>2
      <4> HIDE DEF G, k, new, cur, m
      <4> QED
        BY <3>1, <4>1
    <3>3. CASE d = c
      <4>1. skips'[t][d] = 0
        <5> HIDE DEF G, k, cur
        <5> QED
          BY <1>3, <1>6, <2>1, <3>3
      <4>2. -m <= new[d] /\ new[d] \in Int
        <5> HIDE DEF new
        <5> QED
          BY <2>1, BalancedBounds
      <4> HIDE DEF new, m
      <4> QED
        BY <1>1, <4>1, <4>2
    <3>4. CASE d \in G \ {c}
      <4>1. skips'[t][d] = k[d] + 1
        <5>1. d # First(s, G, cur) /\ Cardinality(G) # 1 /\ d \in G
          BY <1>6, <3>4
        <5> HIDE DEF G, k, cur, c
        <5> QED
          BY <1>3, <5>1
      <4>2. new[d] = cur[d] + calcEffectiveKeyCount(s, d)
        <5> HIDE DEF G, new, cur, c
        <5> QED
          BY <2>1, <3>4
      <4>3. calcEffectiveKeyCount(s, d) \in Nat /\ calcEffectiveKeyCount(s, d) >= 1
        BY KeyWeightIs
      <4> HIDE DEF G, new, cur, k, m
      <4> QED
        BY <1>1, <3>1, <4>1, <4>2, <4>3
    <3> HIDE DEF G, c
    <3> QED
      BY <3>2, <3>3, <3>4
  <2>3. new \in [Channels -> Int]
    BY <2>1 DEF Balanced, Weights
  <2>4. skips'[t] \in [Channels -> Nat]
    <3> HIDE DEF G, new, k, cur, m
    <3> QED
      BY <1>3, <2>2
  <2> HIDE DEF new, m
  <2> QED
    BY <1>2, <2>1, <2>2, <2>3, <2>4 DEF SkipsPaid, m
<1> QED
  BY <1>5, <1>6

LEMMA CleanupBalance ==
    ASSUME BalanceInv, NEW t \in Tiers, Cleanup(t)
    PROVE  BalanceInv'
<1>1. weight' = [weight EXCEPT ![t] = Zero] /\ skips' = [skips EXCEPT ![t] = Zero]
  BY DEF Cleanup
<1>2. Zero \in [Channels -> Int] /\ Zero \in [Channels -> Nat]
  BY DEF Zero
<1>3. weight' \in [Tiers -> [Channels -> Int]] /\ skips' \in [Tiers -> [Channels -> Nat]]
  BY <1>1, <1>2 DEF BalanceInv
<1>4. ASSUME NEW u \in Tiers PROVE Balanced(weight'[u]) /\ SkipsPaid(skips'[u], weight'[u])
  <2>1. CASE u = t
    <3>1. weight'[u] = Zero /\ skips'[u] = Zero
      BY <1>1, <2>1 DEF BalanceInv
    <3> QED
      BY <3>1, ZeroBalanced
  <2>2. CASE u # t
    <3>1. weight'[u] = weight[u] /\ skips'[u] = skips[u]
      BY <1>1, <2>2 DEF BalanceInv
    <3> QED
      BY <3>1 DEF BalanceInv
  <2> QED
    BY <2>1, <2>2
<1> QED
  BY <1>3, <1>4 DEF BalanceInv

LEMMA BalanceNext ==
    ASSUME BalanceInv, [SelectionNext]_selectionVars
    PROVE  BalanceInv'
<1>1. CASE UNCHANGED <<weight, skips>>
  BY <1>1 DEF BalanceInv
<1>2. ASSUME NEW s \in Snapshots, NEW p \in Penalties, Select(s, p) \/ SelectCooled(s, p) PROVE BalanceInv'
  BY <1>1, <1>2, SelectBalance DEF SelectCooled
<1>3. ASSUME NEW t \in Tiers, Cleanup(t) PROVE BalanceInv'
  BY <1>3, CleanupBalance
<1>4. CASE (\E c \in Channels : Remember(c)) \/ HandOver \/ Forget \/ DropExpired \/ Expire
  BY <1>1, <1>4 DEF Remember, HandOver, Forget, DropExpired, Expire
<1>5. CASE UNCHANGED selectionVars
  BY <1>1, <1>5 DEF selectionVars
<1> QED
  BY <1>2, <1>3, <1>4, <1>5 DEF SelectionNext

\* The weights that the smooth weighted round robin keeps for a tier
\* (selectByWeight of smooth_weighted_rr.go) stay within Load * (n - 1) of zero and
\* add up to zero, for any channels, however they cool down and come back between
\* the rounds; a channel's weight grows with each round it is passed over in.
THEOREM SelectionBalance == SelectionSpec => []BalanceInv
<1>1. SelectionInit => BalanceInv
  BY BalanceInit
<1>2. BalanceInv /\ [SelectionNext]_selectionVars => BalanceInv'
  BY BalanceNext
<1> QED
  BY <1>1, <1>2, PTL DEF SelectionSpec

\* No channel starves in its tier: with the usable keys of all n channels adding up
\* to Load at most, a channel is first again after at most 2 * Load * (n - 1) rounds
\* it took part in (selectByWeight, First), whatever the others do.
THEOREM NoChannelStarves ==
    ASSUME MaxSkips >= 2 * (Load * (Number - 1))
    PROVE  SelectionSpec => []NoStarvation
<1>1. BalanceInv => NoStarvation
  <2> SUFFICES ASSUME BalanceInv, NEW t \in Tiers, NEW c \in Channels PROVE skips[t][c] <= MaxSkips
    BY DEF NoStarvation
  <2> DEFINE m == Load * (Number - 1)
             k == skips[t][c]
             w == weight[t][c]
  <2>1. Load \in Nat /\ Number \in Nat
    BY LoadIs, SelectionAssumption, FS_CardinalityType DEF Number
  <2>2. m \in Int /\ MaxSkips \in Nat /\ MaxSkips >= 2 * m
    BY <2>1, SelectionAssumption
  <2>3. k \in Nat /\ k <= w + m
    BY DEF BalanceInv, SkipsPaid
  <2>4. w \in Int /\ w <= m
    BY BalancedBounds DEF BalanceInv
  <2> HIDE DEF m, k, w
  <2>5. k <= MaxSkips
    BY <2>2, <2>3, <2>4
  <2> QED
    BY <2>5 DEF k
<1> QED
  BY <1>1, SelectionBalance, PTL

===============================================================================
