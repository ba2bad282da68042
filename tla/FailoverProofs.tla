---------------------------- MODULE FailoverProofs ----------------------------
(***************************************************************************)
(* Failover for every number of candidates, set of keys, retry limit and   *)
(* configuration.                                                          *)
(***************************************************************************)
EXTENDS Failover, FiniteSetTheorems, TLAPS

(* The URLs and the protocols still ahead of a request.                    *)

UrlOrders == {<<>>, <<1>>, <<2>>, <<1, 2>>, <<2, 1>>}
ProtoOrders == {<<>>, <<"native">>, <<"translated">>,
                <<"native", "translated">>, <<"translated", "native">>}
Ahead(q) == {q[i] : i \in 1..Len(q)}

LEMMA UrlsAhead ==
    ASSUME NEW q \in UrlOrders
    PROVE  /\ q \in {<<>>, <<2>>} \cup Orders(2)
           /\ q = <<>> => Ahead(q) = {}
           /\ q # <<>> => /\ Head(q) \in Urls /\ Tail(q) \in UrlOrders
                          /\ Head(q) \notin Ahead(Tail(q))
                          /\ Ahead(q) = {Head(q)} \cup Ahead(Tail(q))
<1>1. CASE q = <<>>
  BY <1>1 DEF Ahead, Orders
<1>2. CASE q = <<1>>
  <2>1. Len(q) = 1 /\ Head(q) = 1 /\ Tail(q) = <<>> /\ q[1] = 1
    BY <1>2
  <2> QED BY <1>2, <2>1 DEF Ahead, Orders, Urls, UrlOrders
<1>3. CASE q = <<2>>
  <2>1. Len(q) = 1 /\ Head(q) = 2 /\ Tail(q) = <<>> /\ q[1] = 2
    BY <1>3
  <2> QED BY <1>3, <2>1 DEF Ahead, Orders, Urls, UrlOrders
<1>4. CASE q = <<1, 2>>
  <2>1. Len(q) = 2 /\ Head(q) = 1 /\ Tail(q) = <<2>> /\ q[1] = 1 /\ q[2] = 2
    BY <1>4
  <2>2. Ahead(q) = {1, 2} /\ Ahead(<<2>>) = {2}
    BY <2>1 DEF Ahead
  <2> QED BY <1>4, <2>1, <2>2 DEF Orders, Urls, UrlOrders
<1>5. CASE q = <<2, 1>>
  <2>1. Len(q) = 2 /\ Head(q) = 2 /\ Tail(q) = <<1>> /\ q[1] = 2 /\ q[2] = 1
    BY <1>5
  <2>2. Ahead(q) = {1, 2} /\ Ahead(<<1>>) = {1}
    BY <2>1 DEF Ahead
  <2> QED BY <1>5, <2>1, <2>2 DEF Orders, Urls, UrlOrders
<1> QED BY <1>1, <1>2, <1>3, <1>4, <1>5 DEF UrlOrders

LEMMA ProtosAhead ==
    ASSUME NEW q \in ProtoOrders
    PROVE  /\ q \in Seq(Protocols)
           /\ q # <<>> => /\ Head(q) \in Protocols /\ Tail(q) \in ProtoOrders
                          /\ Len(q) > 1 => Tail(q) # <<>>
                          /\ Head(q) \notin Ahead(Tail(q))
                          /\ Ahead(q) = {Head(q)} \cup Ahead(Tail(q))
<1>1. CASE q = <<>>
  BY <1>1 DEF Protocols
<1>2. ASSUME NEW a \in Protocols, q = <<a>> PROVE /\ Head(q) \in Protocols /\ Tail(q) \in ProtoOrders
                          /\ Len(q) = 1 /\ q \in Seq(Protocols)
                          /\ Head(q) \notin Ahead(Tail(q))
                          /\ Ahead(q) = {Head(q)} \cup Ahead(Tail(q))
  <2>1. Len(q) = 1 /\ Head(q) = a /\ Tail(q) = <<>> /\ q[1] = a /\ q \in Seq(Protocols)
    BY <1>2
  <2>2. Ahead(q) = {a} /\ Ahead(<<>>) = {}
    BY <2>1 DEF Ahead
  <2> QED BY <2>1, <2>2 DEF ProtoOrders
<1>3. ASSUME NEW a \in Protocols, NEW b \in Protocols, a # b, q = <<a, b>>
      PROVE /\ Head(q) \in Protocols /\ Tail(q) \in ProtoOrders
            /\ Tail(q) # <<>> /\ q \in Seq(Protocols)
            /\ Head(q) \notin Ahead(Tail(q))
            /\ Ahead(q) = {Head(q)} \cup Ahead(Tail(q))
  <2>1. Len(q) = 2 /\ Head(q) = a /\ Tail(q) = <<b>> /\ q[1] = a /\ q[2] = b /\ q \in Seq(Protocols)
    BY <1>3
  <2>2. Ahead(q) = {a, b} /\ Ahead(<<b>>) = {b}
    BY <2>1 DEF Ahead
  <2> QED BY <2>1, <2>2, <1>3 DEF ProtoOrders, Protocols
<1> QED BY <1>1, <1>2, <1>3 DEF ProtoOrders, Protocols

LEMMA OrdersTyped ==
    ASSUME NEW c \in Configs, NEW o \in Orders(c.urls)
    PROVE  o \in UrlOrders
BY DEF Orders, UrlOrders

(* Types, and what holds at each stage of a request.                       *)

Stages == {"channel", "key", "credential", "url", "attempt", "done"}
Answers == {"pending", "ok", "broken", "failed", "client", "cancel", "unavailable", "empty"}
RequestType ==
    [pc : Stages, ch : 1..N + 1, key : Keys \cup {NoKey}, tried : SUBSET Keys,
     snap : SUBSET Keys, urls : UrlOrders, protos : ProtoOrders, refresh : 0..1,
     urlFail : Results, last : {"nil", "failed", "client", "cancel"},
     missing : BOOLEAN, answer : Answers]

TriedBound == IF cfg.otherKeys THEN Cardinality(Keys) ELSE MaxRetries

Typed ==
    /\ cfg \in Configs /\ alpha \in BOOLEAN /\ req \in RequestType
    /\ gone \in BOOLEAN /\ others \in 0..MaxOthers
    /\ keyCool \subseteq Keys /\ cap \in Capabilities
    /\ sticky \in Channels \cup {Nil}

Staged ==
    /\ Cardinality(req.tried) <= TriedBound
    /\ req.pc = "channel" => req.tried = {}
    /\ req.pc \notin {"channel", "done"} => req.ch \in Channels
    /\ req.pc # "done" => req.answer = "pending"
    /\ req.pc = "key" => ~cfg.oauth
    /\ req.pc = "credential" => cfg.oauth
    /\ req.pc = "attempt" => req.urls # <<>> /\ req.protos # <<>>
    /\ req.pc \in {"url", "attempt"} /\ ~cfg.oauth => req.key \in req.tried
    /\ req.urlFail.retry # "None"

TypeInv == Typed /\ Staged

LEMMA TypesHold ==
    ASSUME TypeInv
    PROVE  TypeOK
BY UrlsAhead, ProtosAhead DEF TypeInv, Typed, Staged, TypeOK, RequestType, Stages, TriedBound

LEMMA Candidates == N \in Nat \ {0} /\ MaxOthers \in Nat
BY FailoverAssumption

LEMMA ConfigTyped ==
    ASSUME NEW c \in Configs
    PROVE  c.oauth \in BOOLEAN /\ c.otherKeys \in BOOLEAN /\ c.spare \in BOOLEAN /\ c.urls \in 1..2
BY FailoverAssumption

LEMMA KeysFinite == IsFiniteSet(Keys) /\ Cardinality(Keys) \in Nat /\ Nil \notin Keys
BY FailoverAssumption, FS_CardinalityType

LEMMA PairMinimum ==
    ASSUME NEW a \in Nat, NEW b \in Nat
    PROVE  Min({a, b}) = IF a <= b THEN a ELSE b
BY DEF Min

LEMMA BudgetBounds ==
    ASSUME Typed
    PROVE  KeyBudget \in Nat /\ KeyBudget <= TriedBound
<1>1. MaxRetries \in Nat
  BY FailoverAssumption
<1> QED BY <1>1, KeysFinite, PairMinimum, ConfigTyped DEF Typed, KeyBudget, TriedBound

\* One more key is tried only within the budget.
LEMMA OneMoreKey ==
    ASSUME Typed, Cardinality(req.tried) < KeyBudget, NEW k \in Keys \ req.tried
    PROVE  /\ req.tried \cup {k} \in SUBSET Keys
           /\ Cardinality(req.tried \cup {k}) <= TriedBound
<1>1. req.tried \in SUBSET Keys
  BY DEF Typed, RequestType
<1>2. IsFiniteSet(req.tried)
  BY <1>1, KeysFinite, FS_Subset
<1>3. Cardinality(req.tried) \in Nat /\ Cardinality(req.tried \cup {k}) = Cardinality(req.tried) + 1
  BY <1>2, FS_CardinalityType, FS_AddElement
<1>4. TriedBound \in Nat
  BY KeysFinite, FailoverAssumption, ConfigTyped DEF Typed, TriedBound
<1> QED BY <1>1, <1>3, <1>4, BudgetBounds

LEMMA NoneTried == Cardinality({}) = 0
BY FS_EmptySet

LEMMA ResultsTyped ==
    /\ NoResult \in Results /\ NoResult.retry # "None"
    /\ \A retry \in {"NextKey", "NextChannel"} :
          \A class \in Failures \cup {"missing", "credential"} :
             /\ Result(retry, class) \in Results
             /\ Result(retry, class).retry # "None"
    /\ \A class \in {"client", "cancel"} : Result("None", class).class = class
BY DEF Results, NoResult, Result

\* The request moves on to a channel, or past the last.
LEMMA AtChannelTyped ==
    ASSUME NEW c \in 1..N + 1, NEW last \in {"nil", "failed", "client", "cancel"},
           NEW missing, missing \in BOOLEAN
    PROVE  /\ AtChannel(c, last, missing) \in RequestType
           /\ AtChannel(c, last, missing).pc = "channel"
           /\ AtChannel(c, last, missing).tried = {}
           /\ AtChannel(c, last, missing).last = last
           /\ AtChannel(c, last, missing).answer = "pending"
           /\ AtChannel(c, last, missing).urlFail.retry # "None"
<1>1. <<>> \in UrlOrders /\ <<>> \in ProtoOrders
  BY DEF UrlOrders, ProtoOrders
<1>2. NoResult \in Results /\ NoResult.retry # "None"
  BY ResultsTyped
<1> DEFINE r == AtChannel(c, last, missing)
<1>3. /\ r.pc = "channel" /\ r.tried = {} /\ r.last = last
      /\ r.answer = "pending" /\ r.urlFail = NoResult
  BY DEF AtChannel
<1>4. r \in RequestType
  <2>1. /\ "channel" \in Stages /\ "pending" \in Answers /\ 0 \in 0..1
        /\ NoKey \in Keys \cup {NoKey} /\ {} \in SUBSET Keys
    BY DEF Stages, Answers
  <2> QED BY <1>1, <1>2, <2>1, SMTT(60) DEF AtChannel, RequestType
<1> QED BY <1>2, <1>3, <1>4

\* What a step makes of the request when it leaves the candidate.
Departs ==
    /\ req' \in RequestType /\ req'.pc = "channel" /\ req'.tried = {}
    /\ req'.answer = "pending" /\ req'.urlFail.retry # "None"

LEMMA SkipDeparts ==
    ASSUME Typed, req.ch \in Channels, SkipChannel
    PROVE  Departs /\ req'.last = req.last
<1>1. /\ req.last \in {"nil", "failed", "client", "cancel"} /\ req.missing \in BOOLEAN
  BY DEF Typed, RequestType
<1>1a. req.ch + 1 \in 1..N + 1
  BY Candidates DEF Channels
<1>2. req' = AtChannel(req.ch + 1, req.last, req.missing)
  BY DEF SkipChannel
<1> QED BY <1>1, <1>1a, <1>2, AtChannelTyped DEF Departs

LEMMA LeaveDeparts ==
    ASSUME Typed, req.ch \in Channels, NEW r,
           r.retry # "None" \/ r.class \in {"client", "cancel"}, LeaveChannel(r)
    PROVE  Departs /\ req'.last # "nil" /\ sticky' = Nil
<1> DEFINE last == IF r.retry = "None" THEN r.class ELSE "failed"
           missing == req.missing \/ (alpha /\ r.class = "missing")
<1>1a. req.ch + 1 \in 1..N + 1 /\ N + 1 \in 1..N + 1
  BY Candidates DEF Channels
<1>1. /\ req.missing \in BOOLEAN /\ alpha \in BOOLEAN
  BY Candidates DEF Typed, RequestType, Channels
<1>2. last \in {"nil", "failed", "client", "cancel"} /\ last # "nil"
  OBVIOUS
<1>3. missing \in BOOLEAN
  BY <1>1
<1>5. req' = AtChannel(req.ch + 1, last, missing) \/ req' = AtChannel(N + 1, last, missing)
  BY DEF LeaveChannel, AfterResult
<1>6. sticky' = Nil
  BY DEF LeaveChannel
<1> HIDE DEF last, missing
<1> QED BY <1>1a, <1>2, <1>3, <1>5, <1>6, AtChannelTyped DEF Departs

LEMMA BoundTyped ==
    ASSUME NEW c \in Configs
    PROVE  (IF c.otherKeys THEN Cardinality(Keys) ELSE MaxRetries) \in Nat
BY KeysFinite, FailoverAssumption, ConfigTyped

LEMMA DepartsStaged ==
    ASSUME Departs, cfg' \in Configs
    PROVE  Staged'
<1>1. TriedBound' \in Nat
  BY BoundTyped DEF TriedBound
<1> QED BY <1>1, NoneTried DEF Departs, Staged

(* What each step makes of the request, field by field.                    *)

Candidate == <<cfg, alpha, gone>>

\* The candidate, the others and what has been learnt stay as they are.
Kept == UNCHANGED <<cfg, alpha, gone, others, keyCool, cap>>

LEMMA DepartsTyped ==
    ASSUME TypeInv, Departs, Kept, sticky' = sticky \/ sticky' = Nil
    PROVE  TypeInv'
<1>1. cfg' \in Configs /\ req' \in RequestType
  BY DEF TypeInv, Typed, Kept, Departs
<1>2. Staged'
  BY <1>1, DepartsStaged
<1>3. Typed'
  BY <1>1 DEF TypeInv, Typed, Kept
<1> QED BY <1>2, <1>3 DEF TypeInv

LEMMA Initially ==
    ASSUME Init
    PROVE  TypeInv
<1>1. 1 \in 1..N + 1 /\ FALSE \in BOOLEAN
  BY Candidates
<1>2. req \in RequestType /\ req.pc = "channel" /\ req.tried = {} /\ req.answer = "pending"
      /\ req.urlFail.retry # "None"
  BY <1>1, AtChannelTyped DEF Init
<1>3. cfg \in Configs
  BY FailoverAssumption DEF Init
<1>4. TriedBound \in Nat
  BY <1>3, BoundTyped DEF TriedBound
<1>5. Typed
  <2>1. cap \in Capabilities
    BY DEF Init, Capabilities
  <2>2. alpha \in BOOLEAN /\ gone \in BOOLEAN /\ others = 0 /\ keyCool = {} /\ sticky \in Channels \cup {Nil}
    BY DEF Init
  <2>3. others \in 0..MaxOthers /\ keyCool \subseteq Keys
    BY <2>2, Candidates
  <2> QED BY <1>2, <1>3, <2>1, <2>2, <2>3 DEF Typed
<1>6. Staged
  BY <1>2, <1>4, NoneTried DEF Staged
<1> QED BY <1>5, <1>6 DEF TypeInv

\* TryChannel: off to the credential or to the keys, or on to the next channel.
LEMMA TryChannelEffect ==
    ASSUME TypeInv, TryChannel
    PROVE  /\ TypeInv'
           /\ tries' = {} /\ blame' = {} /\ marks' = {} /\ twice' = twice
           /\ req'.answer = "pending"
           /\ req'.pc # "done" /\ (req'.pc = "channel" => Departs)
           /\ req'.pc \in {"channel", "key", "credential"}
           /\ \/ sticky' = Nil
              \/ sticky' = sticky /\ req'.last = req.last
<1> USE DEF TypeInv
<1>1. cfg' \in Configs /\ keyCool' \subseteq Keys /\ cap' \in Capabilities /\ others' = 0
      /\ tries' = {} /\ blame' = {} /\ marks' = {}
  <2>1. Known \subseteq {"unknown", "unsupported"} \cup Protocols
    BY FailoverAssumption DEF Protocols
  <2>2. cap' \in [Urls -> Known]
    BY DEF TryChannel, Arrive
  <2>3. cap' \in Capabilities
    BY <2>1, <2>2 DEF Capabilities
  <2> QED BY <2>3 DEF TryChannel, Arrive
<1>2. req \in RequestType /\ req.pc = "channel" /\ req.ch \in Channels /\ req.tried = {}
      /\ req.answer = "pending" /\ req.urlFail.retry # "None"
  BY Candidates DEF TryChannel, Typed, Staged, RequestType, Channels
<1>3. alpha' = alpha /\ gone' = gone /\ twice' = twice
  BY DEF TryChannel
<1>4. TriedBound' \in Nat
  BY <1>1, BoundTyped DEF TriedBound
<1>5. ASSUME Departs, sticky' = Nil \/ sticky' = sticky
      PROVE  TypeInv'
  <2>1. Staged'
    BY <1>1, <1>5, DepartsStaged
  <2> QED BY <1>1, <1>3, <1>5, <2>1, Candidates DEF Typed, Departs
<1>6. CASE LeaveChannel(Result("None", "cancel"))
  <2>1. Departs /\ sticky' = Nil
    BY <1>2, <1>6, LeaveDeparts, ResultsTyped
  <2> QED BY <1>1, <1>3, <1>5, <2>1 DEF Departs
<1>7. CASE SkipChannel /\ sticky' = sticky
  <2>1. Departs /\ req'.last = req.last
    BY <1>2, <1>7, SkipDeparts
  <2> QED BY <1>1, <1>3, <1>5, <1>7, <2>1 DEF Departs
<1>8. CASE req' = [req EXCEPT !.pc = "credential"] /\ cfg'.oauth /\ sticky' = sticky
  <2>1. /\ req' \in RequestType /\ req'.pc = "credential" /\ req'.tried = {} /\ req'.ch \in Channels
        /\ req'.answer = "pending" /\ req'.urlFail = req.urlFail /\ req'.last = req.last
    BY <1>2, <1>8 DEF RequestType, Stages
  <2>2. Staged'
    BY <1>2, <1>4, <1>8, <2>1, NoneTried DEF Staged
  <2>3. Typed'
    BY <1>1, <1>3, <1>8, <2>1, Candidates DEF Typed
  <2> QED BY <1>1, <1>3, <1>8, <2>1, <2>2, <2>3
<1>9. CASE req' = [req EXCEPT !.pc = "key", !.snap = keyCool'] /\ ~cfg'.oauth /\ sticky' = sticky
  <2>1. /\ req' \in RequestType /\ req'.pc = "key" /\ req'.tried = {} /\ req'.ch \in Channels
        /\ req'.answer = "pending" /\ req'.urlFail = req.urlFail /\ req'.last = req.last
    BY <1>1, <1>2, <1>9 DEF RequestType, Stages
  <2>2. Staged'
    BY <1>2, <1>4, <1>9, <2>1, NoneTried DEF Staged
  <2>3. Typed'
    BY <1>1, <1>3, <1>9, <2>1, Candidates DEF Typed
  <2> QED BY <1>1, <1>3, <1>9, <2>1, <2>2, <2>3
<1> QED BY <1>6, <1>7, <1>8, <1>9 DEF TryChannel

LEMMA CredentialEffect ==
    ASSUME TypeInv, Credential
    PROVE  /\ TypeInv' /\ UNCHANGED <<cfg, hist, marks>> /\ req.pc = "credential"
           /\ \/ Departs /\ sticky' = Nil
              \/ /\ sticky' = sticky /\ req'.last = req.last /\ req'.pc = "url"
                 /\ req'.key = req.key /\ req'.refresh = req.refresh /\ req'.tried = req.tried
                 /\ req'.answer = req.answer
<1> USE DEF TypeInv
<1>1. req \in RequestType /\ req.pc = "credential" /\ req.ch \in Channels /\ Kept
      /\ UNCHANGED <<cfg, hist, marks>> /\ cfg.oauth /\ cfg \in Configs
  BY DEF Credential, Typed, Staged, Kept
<1>2. CASE LeaveChannel(Result("NextChannel", "credential"))
  <2>1. Departs /\ sticky' = Nil
    BY <1>1, <1>2, LeaveDeparts, ResultsTyped
  <2> QED BY <1>1, <2>1, DepartsTyped
<1>3. ASSUME NEW o \in Orders(cfg.urls), sticky' = sticky,
             req' = [req EXCEPT !.pc = "url", !.urls = o, !.urlFail = NoResult]
      PROVE  /\ TypeInv' /\ req'.last = req.last /\ req'.pc = "url"
             /\ req'.key = req.key /\ req'.refresh = req.refresh /\ req'.tried = req.tried
             /\ req'.answer = req.answer
  <2>1. o \in UrlOrders /\ NoResult \in Results /\ NoResult.retry # "None"
    BY <1>1, OrdersTyped, ResultsTyped
  <2>2. /\ req' \in RequestType /\ req'.last = req.last /\ req'.pc = "url"
        /\ req'.key = req.key /\ req'.refresh = req.refresh /\ req'.tried = req.tried
        /\ req'.answer = req.answer /\ req'.ch = req.ch /\ req'.urlFail = NoResult
    BY <1>1, <1>3, <2>1 DEF RequestType, Stages
  <2>3. Staged'
    BY <1>1, <2>1, <2>2 DEF Staged, Kept, TriedBound
  <2>4. Typed'
    BY <1>1, <1>3, <2>2 DEF Typed, Kept
  <2> QED BY <2>2, <2>3, <2>4
<1> QED BY <1>1, <1>2, <1>3 DEF Credential

LEMMA SelectKeyEffect ==
    ASSUME TypeInv, SelectKey
    PROVE  /\ TypeInv' /\ UNCHANGED <<cfg, sticky, hist, marks>> /\ req.pc = "key" /\ ~cfg.oauth
           /\ req'.last = req.last /\ req'.pc = "url" /\ req'.answer = req.answer
           /\ req'.key \notin req.tried /\ req'.tried = req.tried \cup {req'.key}
           /\ req'.refresh = req.refresh
<1> USE DEF TypeInv
<1>1. req \in RequestType /\ req.pc = "key" /\ req.ch \in Channels /\ Kept
      /\ UNCHANGED <<cfg, sticky, hist, marks>> /\ ~cfg.oauth /\ cfg \in Configs
  BY DEF SelectKey, Typed, Staged, Kept
<1>2. PICK k \in Keys \ req.tried, o \in Orders(cfg.urls) :
         req' = [req EXCEPT !.pc = "url", !.key = k, !.tried = @ \cup {k},
                            !.urls = o, !.urlFail = NoResult]
  BY DEF SelectKey, Selectable
<1>3. o \in UrlOrders /\ NoResult \in Results /\ NoResult.retry # "None"
  BY <1>1, OrdersTyped, ResultsTyped
<1>4. /\ req.tried \cup {k} \in SUBSET Keys
      /\ Cardinality(req.tried \cup {k}) <= TriedBound
  BY OneMoreKey DEF SelectKey
<1>5. /\ req' \in RequestType /\ req'.last = req.last /\ req'.pc = "url" /\ req'.key = k
      /\ req'.refresh = req.refresh /\ req'.tried = req.tried \cup {k}
      /\ req'.answer = req.answer /\ req'.ch = req.ch /\ req'.urlFail = NoResult
  BY <1>1, <1>2, <1>3, <1>4 DEF RequestType, Stages
<1>6. Staged'
  BY <1>1, <1>3, <1>4, <1>5 DEF Staged, Kept, TriedBound
<1>7. Typed'
  BY <1>1, <1>5 DEF Typed, Kept
<1> QED BY <1>1, <1>2, <1>5, <1>6, <1>7

\* The loops that end without an attempt.
LEMMA NoKeyAvailableEffect ==
    ASSUME TypeInv, NoKeyAvailable
    PROVE  /\ TypeInv' /\ UNCHANGED <<cfg, hist>> /\ ~cfg.oauth
           /\ marks' = marks \cup {<<"channel", Nil>>}
           /\ Departs /\ sticky' = Nil
<1> USE DEF TypeInv
<1>1. req.ch \in Channels /\ Kept /\ UNCHANGED <<cfg, hist>> /\ ~cfg.oauth /\ sticky' = Nil
      /\ SkipChannel /\ marks' = marks \cup {<<"channel", Nil>>}
  BY DEF NoKeyAvailable, Staged, Kept
<1>2. Departs
  BY <1>1, SkipDeparts
<1> QED BY <1>1, <1>2, DepartsTyped

LEMMA KeyLoopEndsEffect ==
    ASSUME TypeInv, KeyLoopEnds
    PROVE  /\ TypeInv' /\ UNCHANGED <<cfg, hist, marks>>
           /\ Departs /\ sticky' = Nil
<1> USE DEF TypeInv
<1>1. req.ch \in Channels /\ Kept /\ UNCHANGED <<cfg, hist, marks>>
      /\ (LeaveChannel(Result("None", "cancel")) \/ LeaveChannel(req.urlFail))
  BY DEF KeyLoopEnds, Staged, Kept
<1>2. req.urlFail.retry # "None" /\ Result("None", "cancel").class = "cancel"
  BY ResultsTyped DEF Staged
<1>3. Departs /\ sticky' = Nil
  BY <1>1, <1>2, LeaveDeparts
<1> QED BY <1>1, <1>3, DepartsTyped

LEMMA LimitExceededEffect ==
    ASSUME TypeInv, LimitExceeded
    PROVE  /\ TypeInv' /\ UNCHANGED <<cfg, hist, marks>>
           /\ Departs /\ sticky' = Nil
<1> USE DEF TypeInv
<1>1. req.ch \in Channels /\ Kept /\ UNCHANGED <<cfg, hist, marks>> /\ sticky' = Nil /\ SkipChannel
  BY DEF LimitExceeded, Staged, Kept
<1>2. Departs
  BY <1>1, SkipDeparts
<1> QED BY <1>1, <1>2, DepartsTyped

\* What an attempt works on.
LEMMA AttemptFacts ==
    ASSUME TypeInv, req.pc = "attempt"
    PROVE  /\ req \in RequestType /\ req.ch \in Channels /\ req.answer = "pending"
           /\ U \in Urls /\ Head(req.protos) \in Protocols
           /\ Tail(req.urls) \in UrlOrders /\ <<>> \in UrlOrders /\ Tail(req.protos) \in ProtoOrders
           /\ Len(req.protos) > 1 => Tail(req.protos) # <<>>
           /\ ~cfg.oauth => req.key \in req.tried
<1>1. req \in RequestType /\ req.urls # <<>> /\ req.protos # <<>> /\ req.ch \in Channels
      /\ req.answer = "pending" /\ (~cfg.oauth => req.key \in req.tried)
  BY DEF TypeInv, Typed, Staged
<1>2. req.urls \in UrlOrders /\ req.protos \in ProtoOrders /\ <<>> \in UrlOrders
  BY <1>1 DEF RequestType, UrlOrders
<1> QED BY <1>1, <1>2, UrlsAhead, ProtosAhead DEF U

\* The attempt is over: to the remaining URLs, or to none.
LEMMA BackToUrls ==
    ASSUME TypeInv, req.pc = "attempt", NEW q \in {Tail(req.urls), <<>>},
           NEW r \in Results, r.retry # "None", cfg' = cfg,
           req' = [req EXCEPT !.pc = "url", !.urls = q, !.urlFail = r]
    PROVE  /\ req' \in RequestType /\ Staged' /\ req'.pc = "url" /\ req'.urls = q
           /\ req'.key = req.key /\ req'.refresh = req.refresh /\ req'.tried = req.tried
           /\ req'.last = req.last /\ req'.answer = "pending"
<1>1. req \in RequestType /\ q \in UrlOrders /\ req.answer = "pending" /\ req.ch \in Channels
      /\ (~cfg.oauth => req.key \in req.tried)
  BY AttemptFacts
<1>2. /\ req' \in RequestType /\ req'.pc = "url" /\ req'.urls = q
      /\ req'.key = req.key /\ req'.refresh = req.refresh /\ req'.tried = req.tried
      /\ req'.last = req.last /\ req'.answer = "pending" /\ req'.ch = req.ch /\ req'.urlFail = r
  BY <1>1 DEF RequestType, Stages
<1>3. Staged'
  BY <1>1, <1>2 DEF TypeInv, Staged, TriedBound
<1> QED BY <1>2, <1>3

LEMMA LearnTyped ==
    ASSUME TypeInv, req.pc = "attempt", Learn
    PROVE  cap' \in Capabilities
<1>1. U \in Urls /\ Head(req.protos) \in Protocols /\ cap \in Capabilities
  BY AttemptFacts DEF TypeInv, Typed
<1> QED BY <1>1 DEF Learn, Capabilities

LEMMA NextURLEffect ==
    ASSUME TypeInv, NextURL
    PROVE  /\ TypeInv' /\ UNCHANGED <<cfg, hist, marks>>
           /\ req.pc = "url" /\ req.urls # <<>>
           /\ \/ Departs /\ sticky' = Nil
              \/ /\ sticky' = sticky /\ req'.last = req.last /\ req'.answer = req.answer
                 /\ req'.key = req.key /\ req'.refresh = req.refresh /\ req'.tried = req.tried
                 /\ \/ req'.pc = "url" /\ req'.urls = Tail(req.urls)
                    \/ req'.pc = "attempt" /\ req'.urls = req.urls /\ req'.protos \in ProtoOrders
<1> USE DEF TypeInv
<1>1. req \in RequestType /\ req.pc = "url" /\ req.ch \in Channels /\ Kept /\ req.urls # <<>>
      /\ UNCHANGED <<cfg, hist, marks>> /\ cfg \in Configs
  BY DEF NextURL, Typed, Staged, Kept
<1>2. Tail(req.urls) \in UrlOrders
  BY <1>1, UrlsAhead DEF RequestType
<1>3. CASE LeaveChannel(Result("None", "cancel"))
  <2>1. Departs /\ sticky' = Nil
    BY <1>1, <1>3, LeaveDeparts, ResultsTyped
  <2> QED BY <1>1, <2>1, DepartsTyped
<1>4. CASE /\ sticky' = sticky
           /\ req' = [req EXCEPT !.urls = Tail(@), !.urlFail = Result("NextChannel", "missing")]
  <2>1. Result("NextChannel", "missing") \in Results /\ Result("NextChannel", "missing").retry # "None"
    BY ResultsTyped
  <2>2. /\ req' \in RequestType /\ req'.last = req.last /\ req'.pc = "url"
        /\ req'.key = req.key /\ req'.refresh = req.refresh /\ req'.tried = req.tried
        /\ req'.answer = req.answer /\ req'.ch = req.ch /\ req'.urls = Tail(req.urls)
        /\ req'.urlFail = Result("NextChannel", "missing")
    BY <1>1, <1>2, <1>4, <2>1 DEF RequestType
  <2>3. Staged'
    BY <1>1, <2>1, <2>2 DEF Staged, Kept, TriedBound
  <2>4. Typed'
    BY <1>1, <1>4, <2>2 DEF Typed, Kept
  <2> QED BY <1>1, <1>4, <2>2, <2>3, <2>4
<1>5. ASSUME NEW p \in {<<"translated", "native">>, <<"native", "translated">>},
             sticky' = sticky, req' = [req EXCEPT !.pc = "attempt", !.protos = p]
      PROVE  /\ TypeInv' /\ sticky' = sticky /\ req'.last = req.last /\ req'.answer = req.answer
             /\ req'.key = req.key /\ req'.refresh = req.refresh /\ req'.tried = req.tried
             /\ req'.pc = "attempt" /\ req'.urls = req.urls /\ req'.protos \in ProtoOrders
  <2>1. p \in ProtoOrders /\ p # <<>>
    BY DEF ProtoOrders
  <2>2. /\ req' \in RequestType /\ req'.last = req.last /\ req'.pc = "attempt"
        /\ req'.key = req.key /\ req'.refresh = req.refresh /\ req'.tried = req.tried
        /\ req'.answer = req.answer /\ req'.ch = req.ch /\ req'.urls = req.urls
        /\ req'.urlFail = req.urlFail /\ req'.protos = p
    BY <1>1, <1>5, <2>1 DEF RequestType, Stages
  <2>3. Staged'
    BY <1>1, <2>1, <2>2 DEF Staged, Kept, TriedBound
  <2>4. Typed'
    BY <1>1, <1>5, <2>2 DEF Typed, Kept
  <2> QED BY <1>5, <2>1, <2>2, <2>3, <2>4
<1>6. CASE ~gone /\ cap[U] # "unsupported" /\ sticky' = sticky
           /\ req' = [req EXCEPT !.pc = "attempt",
                                 !.protos = IF cap[U] = "translated" THEN <<"translated", "native">>
                                           ELSE <<"native", "translated">>]
  <2>1. CASE cap[U] = "translated"
    BY <1>1, <1>5, <1>6, <2>1
  <2>2. CASE cap[U] # "translated"
    BY <1>1, <1>5, <1>6, <2>2
  <2> QED BY <2>1, <2>2
<1> QED BY <1>1, <1>3, <1>4, <1>6 DEF NextURL

LEMMA UrlLoopEndsEffect ==
    ASSUME TypeInv, UrlLoopEnds
    PROVE  /\ TypeInv' /\ UNCHANGED <<cfg, hist, marks>>
           /\ req.pc = "url"
           /\ \/ Departs /\ sticky' = Nil
              \/ /\ sticky' = sticky /\ req'.last = req.last /\ req'.answer = req.answer
                 /\ req'.tried = req.tried
                 /\ \/ req'.pc = "credential" /\ cfg.oauth /\ req.refresh = 0 /\ req'.refresh = 1
                    \/ req'.pc = "key" /\ ~cfg.oauth /\ req'.refresh = req.refresh
<1> USE DEF TypeInv
<1>1. req \in RequestType /\ req.pc = "url" /\ req.ch \in Channels /\ Kept
      /\ UNCHANGED <<cfg, hist, marks>> /\ cfg \in Configs /\ req.urlFail.retry # "None"
  BY DEF UrlLoopEnds, Typed, Staged, Kept
<1>2. CASE LeaveChannel(req.urlFail)
  <2>1. Departs /\ sticky' = Nil
    BY <1>1, <1>2, LeaveDeparts
  <2> QED BY <1>1, <2>1, DepartsTyped
<1>3. CASE /\ cfg.oauth /\ req.refresh = 0 /\ sticky' = sticky
           /\ req' = [req EXCEPT !.pc = "credential", !.refresh = 1]
  <2>1. req' = [req EXCEPT !.pc = "credential", !.refresh = 1] /\ 1 \in 0..1 /\ "credential" \in Stages
    BY <1>3 DEF Stages
  <2>2. /\ req' \in RequestType /\ req'.last = req.last /\ req'.pc = "credential"
        /\ req'.refresh = 1 /\ req'.tried = req.tried
        /\ req'.answer = req.answer /\ req'.ch = req.ch /\ req'.urlFail = req.urlFail
    BY <1>1, <2>1 DEF RequestType
  <2>3. Staged'
    BY <1>1, <1>3, <2>2 DEF Staged, Kept, TriedBound
  <2>4. Typed'
    BY <1>1, <1>3, <2>2 DEF Typed, Kept
  <2> QED BY <1>1, <1>3, <2>2, <2>3, <2>4
<1>4. CASE ~cfg.oauth /\ sticky' = sticky /\ req' = [req EXCEPT !.pc = "key"]
  <2>2. /\ req' \in RequestType /\ req'.last = req.last /\ req'.pc = "key"
        /\ req'.refresh = req.refresh /\ req'.tried = req.tried
        /\ req'.answer = req.answer /\ req'.ch = req.ch /\ req'.urlFail = req.urlFail
    BY <1>1, <1>4 DEF RequestType, Stages
  <2>3. Staged'
    BY <1>1, <1>4, <2>2 DEF Staged, Kept, TriedBound
  <2>4. Typed'
    BY <1>1, <1>4, <2>2 DEF Typed, Kept
  <2> QED BY <1>1, <1>4, <2>2, <2>3, <2>4
<1> QED BY <1>1, <1>2, <1>3, <1>4 DEF UrlLoopEnds

\* The request is answered from an attempt.
LEMMA DoneTyped ==
    ASSUME TypeInv, req.pc = "attempt", NEW how \in {"ok", "broken"}, Done(how),
           cfg' = cfg
    PROVE  /\ req' \in RequestType /\ Staged'
           /\ req'.pc = "done" /\ req'.answer = how /\ req'.ch = req.ch
<1>1. req \in RequestType /\ req.ch \in Channels
  BY AttemptFacts
<1>2. how \in Answers /\ "done" \in Stages
  BY DEF Answers, Stages
<1>3. /\ req' \in RequestType /\ req'.pc = "done" /\ req'.answer = how /\ req'.ch = req.ch
      /\ req'.tried = req.tried /\ req'.urlFail = req.urlFail
  BY <1>1, <1>2 DEF Done, RequestType
<1>4. Staged'
  BY <1>3 DEF TypeInv, Staged, TriedBound
<1> QED BY <1>3, <1>4

LEMMA SuccessEffect ==
    ASSUME TypeInv, Success
    PROVE  /\ TypeInv' /\ Try /\ req.pc = "attempt" /\ UNCHANGED <<cfg, blame>>
           /\ marks' = {x \in marks : x[1] \notin {"channel", "model"} /\ x # <<"key", req.key>>}
           /\ req'.pc = "done" /\ req'.answer = "ok" /\ sticky' = req'.ch
<1> USE DEF TypeInv
<1>1. /\ req.pc = "attempt" /\ UNCHANGED <<alpha, cfg, gone, others, blame>> /\ Try /\ Learn
      /\ keyCool' \subseteq Keys /\ sticky' = req.ch /\ Done("ok")
      /\ marks' = {x \in marks : x[1] \notin {"channel", "model"} /\ x # <<"key", req.key>>}
  BY DEF Success, Try, Typed
<1>2. req' \in RequestType /\ Staged' /\ req'.pc = "done" /\ req'.answer = "ok" /\ req'.ch = req.ch
  BY <1>1, DoneTyped
<1>3. cap' \in Capabilities /\ req.ch \in Channels
  BY <1>1, LearnTyped, AttemptFacts
<1>4. Typed'
  BY <1>1, <1>2, <1>3 DEF Typed
<1> QED BY <1>1, <1>2, <1>4

\* A failure cools only keys of the channel.
LEMMA CooledKeysTyped ==
    ASSUME TypeInv, NEW o
    PROVE  CooledKeys(o) \subseteq Keys
BY DEF TypeInv, Typed, RequestType, CooledKeys, EffectOf, NoKey, CanFallback

LEMMA BrokenEffect ==
    ASSUME TypeInv, NEW o \in Failures, Broken(o)
    PROVE  /\ TypeInv' /\ Try /\ req.pc = "attempt" /\ cfg' = cfg
           /\ marks' = marks \cup Cooled(o) /\ blame' = blame \cup {Blamed(o)}
           /\ req'.pc = "done" /\ req'.answer = "broken" /\ sticky' = req'.ch
<1> USE DEF TypeInv
<1>1. /\ req.pc = "attempt" /\ UNCHANGED <<alpha, cfg, gone, others>> /\ Try /\ Learn
      /\ keyCool' = CooledKeys(o) /\ sticky' = req.ch /\ Done("broken")
      /\ marks' = marks \cup Cooled(o) /\ blame' = blame \cup {Blamed(o)}
  BY DEF Broken, Try
<1>2. req' \in RequestType /\ Staged' /\ req'.pc = "done" /\ req'.answer = "broken" /\ req'.ch = req.ch
  BY <1>1, DoneTyped
<1>3. cap' \in Capabilities /\ req.ch \in Channels /\ keyCool' \subseteq Keys
  BY <1>1, LearnTyped, AttemptFacts, CooledKeysTyped
<1>4. Typed'
  BY <1>1, <1>2, <1>3 DEF Typed
<1> QED BY <1>1, <1>2, <1>4

LEMMA FailureEffect ==
    ASSUME TypeInv, NEW o \in Failures, Failure(o)
    PROVE  /\ TypeInv' /\ Try /\ req.pc = "attempt" /\ UNCHANGED <<cfg, sticky>>
           /\ marks' = marks \cup (IF ~Deferred(o) \/ AppliedLate(o) THEN Cooled(o) ELSE {})
                             \cup (IF TriesNextURL(o) THEN CooledURL ELSE {})
           /\ blame' = blame \cup {Blamed(o)}
           /\ req'.pc = "url" /\ req'.urls \in {Tail(req.urls), <<>>} /\ req'.last = req.last
           /\ req'.key = req.key /\ req'.refresh = req.refresh /\ req'.tried = req.tried
           /\ req'.answer = "pending"
<1> USE DEF TypeInv
<1> DEFINE q == IF TriesNextURL(o) THEN Tail(req.urls) ELSE <<>>
           r == Result(RetryOf(o), o)
<1>1. /\ req.pc = "attempt" /\ UNCHANGED <<alpha, cfg, gone, sticky, others>> /\ Try /\ Learn
      /\ keyCool' = IF ~Deferred(o) \/ AppliedLate(o) THEN CooledKeys(o) ELSE keyCool
      /\ marks' = marks \cup (IF ~Deferred(o) \/ AppliedLate(o) THEN Cooled(o) ELSE {})
                        \cup (IF TriesNextURL(o) THEN CooledURL ELSE {})
      /\ blame' = blame \cup {Blamed(o)}
  BY DEF Failure, Try
<1>2. req' = [req EXCEPT !.pc = "url", !.urls = q, !.urlFail = r]
  BY DEF Failure
<1>3. q \in {Tail(req.urls), <<>>}
  OBVIOUS
<1>4. r \in Results /\ r.retry # "None"
  BY ResultsTyped DEF RetryOf
<1> HIDE DEF q, r
<1>5. /\ req' \in RequestType /\ Staged' /\ req'.pc = "url" /\ req'.urls = q
      /\ req'.key = req.key /\ req'.refresh = req.refresh /\ req'.tried = req.tried
      /\ req'.last = req.last /\ req'.answer = "pending"
  BY <1>1, <1>2, <1>3, <1>4, BackToUrls
<1>6. cap' \in Capabilities /\ keyCool' \subseteq Keys
  BY <1>1, LearnTyped, CooledKeysTyped DEF Typed
<1>7. Typed'
  BY <1>1, <1>5, <1>6 DEF Typed
<1> QED BY <1>1, <1>3, <1>5, <1>7

LEMMA ReturnClientEffect ==
    ASSUME TypeInv, NEW o \in {"client", "cancel"}, ReturnClient(o)
    PROVE  /\ TypeInv' /\ UNCHANGED <<cfg, hist, marks>>
           /\ Departs /\ sticky' = Nil
<1> USE DEF TypeInv
<1>1. /\ req.pc = "attempt" /\ UNCHANGED <<alpha, cfg, gone, keyCool, others, hist, marks>>
      /\ Learn /\ LeaveChannel(Result("None", o))
  BY DEF ReturnClient
<1>2. Departs /\ sticky' = Nil /\ cap' \in Capabilities
  BY <1>1, AttemptFacts, LeaveDeparts, LearnTyped, ResultsTyped
<1>3. Staged'
  BY <1>1, <1>2, DepartsStaged DEF Typed
<1>4. Typed'
  BY <1>1, <1>2 DEF Typed, Departs
<1> QED BY <1>1, <1>2, <1>3, <1>4

LEMMA MissingEffect ==
    ASSUME TypeInv, Missing
    PROVE  /\ TypeInv' /\ Try /\ UNCHANGED <<cfg, sticky, blame, marks>> /\ req.pc = "attempt"
           /\ req'.key = req.key /\ req'.refresh = req.refresh /\ req'.tried = req.tried
           /\ req'.answer = "pending" /\ req'.last = req.last
           /\ \/ req'.pc = "url" /\ req'.urls = Tail(req.urls)
              \/ req'.pc = "attempt" /\ req'.urls = req.urls /\ req'.protos = Tail(req.protos)
<1> USE DEF TypeInv
<1>1. /\ req.pc = "attempt" /\ UNCHANGED <<alpha, cfg, gone, keyCool, sticky, others, blame, marks>>
      /\ Try
  BY DEF Missing, Try
<1>2. CASE /\ cap' = [cap EXCEPT ![U] = "unsupported"]
           /\ req' = [req EXCEPT !.pc = "url", !.urls = Tail(@),
                                 !.urlFail = Result("NextChannel", "missing")]
  <2> DEFINE q == Tail(req.urls)
             r == Result("NextChannel", "missing")
  <2>1. req' = [req EXCEPT !.pc = "url", !.urls = q, !.urlFail = r]
    BY <1>2
  <2>2. q \in {Tail(req.urls), <<>>} /\ q = Tail(req.urls) /\ r \in Results /\ r.retry # "None"
    BY ResultsTyped
  <2> HIDE DEF q, r
  <2>3. /\ req' \in RequestType /\ Staged' /\ req'.pc = "url" /\ req'.urls = q
        /\ req'.key = req.key /\ req'.refresh = req.refresh /\ req'.tried = req.tried
        /\ req'.last = req.last /\ req'.answer = "pending"
    BY <1>1, <2>1, <2>2, BackToUrls
  <2>4. cap' \in Capabilities
    BY <1>2, AttemptFacts, <1>1 DEF Typed, Capabilities
  <2>5. Typed'
    BY <1>1, <2>3, <2>4 DEF Typed
  <2> QED BY <1>1, <2>2, <2>3, <2>5
<1>3. CASE Len(req.protos) > 1 /\ req' = [req EXCEPT !.protos = Tail(@)] /\ UNCHANGED cap
  <2>1. /\ req \in RequestType /\ Tail(req.protos) \in ProtoOrders /\ Tail(req.protos) # <<>>
        /\ req.answer = "pending" /\ req.ch \in Channels
    BY <1>1, <1>3, AttemptFacts
  <2>2. /\ req' \in RequestType /\ req'.pc = "attempt" /\ req'.urls = req.urls
        /\ req'.protos = Tail(req.protos)
        /\ req'.key = req.key /\ req'.refresh = req.refresh /\ req'.tried = req.tried
        /\ req'.last = req.last /\ req'.answer = "pending" /\ req'.ch = req.ch
        /\ req'.urlFail = req.urlFail
    BY <1>1, <1>3, <2>1 DEF RequestType
  <2>3. Staged'
    BY <1>1, <2>1, <2>2 DEF Staged, TriedBound
  <2>4. Typed'
    BY <1>1, <1>3, <2>2 DEF Typed
  <2> QED BY <1>1, <2>2, <2>3, <2>4
<1> QED BY <1>1, <1>2, <1>3 DEF Missing

LEMMA FinalEffect ==
    ASSUME TypeInv, Final
    PROVE  /\ TypeInv' /\ UNCHANGED <<cfg, sticky, hist, marks>> /\ req.pc = "channel"
           /\ req'.pc = "done" /\ req'.answer = FinalAnswer /\ req'.answer # "ok"
<1> USE DEF TypeInv
<1>1. req \in RequestType /\ req.pc = "channel" /\ Kept /\ UNCHANGED <<cfg, sticky, hist, marks>>
      /\ req' = [req EXCEPT !.pc = "done", !.answer = FinalAnswer]
  BY DEF Final, Typed, Kept
<1>2. FinalAnswer \in Answers /\ FinalAnswer # "ok" /\ "done" \in Stages
  BY <1>1 DEF FinalAnswer, Answers, Stages, RequestType
<1>3. /\ req' \in RequestType /\ req'.pc = "done" /\ req'.answer = FinalAnswer
      /\ req'.tried = req.tried /\ req'.urlFail = req.urlFail
  BY <1>1, <1>2 DEF RequestType
<1>4. Staged'
  BY <1>1, <1>3 DEF Staged, Kept, TriedBound
<1>5. Typed'
  BY <1>1, <1>3 DEF Typed, Kept
<1> QED BY <1>1, <1>2, <1>3, <1>4, <1>5

\* The environment changes neither the request nor its history.
LEMMA EnvironmentEffect ==
    ASSUME TypeInv, ClientGone \/ \E k \in Keys : OtherRequest(k)
    PROVE  TypeInv' /\ UNCHANGED <<req, cfg, sticky, hist, marks>>
<1> USE DEF TypeInv
<1>1. UNCHANGED <<req, cfg, sticky, cap, alpha, hist, marks>>
  BY DEF ClientGone, OtherRequest
<1>2. gone' \in BOOLEAN /\ others' \in 0..MaxOthers /\ keyCool' \subseteq Keys
  <2>1. CASE ClientGone
    BY <2>1 DEF ClientGone, Typed
  <2>2. CASE \E k \in Keys : OtherRequest(k)
    BY <2>2, Candidates DEF OtherRequest, Typed
  <2> QED BY <2>1, <2>2
<1>3. Staged' = Staged
  BY <1>1 DEF Staged, TriedBound
<1>4. Typed'
  BY <1>1, <1>2 DEF Typed
<1> QED BY <1>1, <1>3, <1>4

-------------------------------------------------------------------------------
(* What is ahead of a request was not tried.                               *)

InLoop == req.pc \in {"key", "credential", "url", "attempt"}

\* An attempt with the request's key and its present credential.
Alike(t) == t[1] = req.key /\ t[4] = req.refresh

Fresh ==
    /\ ~twice
    /\ InLoop => \A t \in tries : t[4] \in 0..req.refresh /\ (~cfg.oauth => t[1] \in req.tried)
    /\ req.pc = "credential" => \A t \in tries : t[4] # req.refresh
    /\ req.pc = "url" => \A t \in tries : Alike(t) => t[2] \notin Ahead(req.urls)
    /\ req.pc = "attempt" =>
          \A t \in tries : Alike(t) => /\ t[2] \notin Ahead(Tail(req.urls))
                                       /\ t[2] = U => t[3] \notin Ahead(req.protos)

LEMMA TryIsNew ==
    ASSUME TypeInv, Fresh, req.pc = "attempt", Try
    PROVE  /\ ~twice'
           /\ \A t \in tries' :
                 /\ t[4] \in 0..req.refresh /\ (~cfg.oauth => t[1] \in req.tried)
                 /\ Alike(t) => /\ t[2] \notin Ahead(Tail(req.urls))
                                /\ t[2] = U => t[3] \notin Ahead(Tail(req.protos))
<1> DEFINE n == <<req.key, U, Head(req.protos), req.refresh>>
<1>1. req \in RequestType /\ req.urls # <<>> /\ req.protos # <<>> /\ (~cfg.oauth => req.key \in req.tried)
  BY DEF TypeInv, Typed, Staged
<1>2. U \notin Ahead(Tail(req.urls))
  BY <1>1, UrlsAhead DEF RequestType, U
<1>3. Head(req.protos) \notin Ahead(Tail(req.protos))
      /\ Ahead(req.protos) = {Head(req.protos)} \cup Ahead(Tail(req.protos))
  BY <1>1, ProtosAhead DEF RequestType
<1>4. n[1] = req.key /\ n[2] = U /\ n[3] = Head(req.protos) /\ n[4] = req.refresh
  OBVIOUS
<1>5. tries' = tries \cup {n} /\ twice' = (twice \/ n \in tries)
  BY DEF Try
<1>6. req.refresh \in 0..req.refresh
  BY <1>1 DEF RequestType
<1> HIDE DEF n
<1>7. n \notin tries
  BY <1>3, <1>4 DEF Fresh, Alike
<1>8. ASSUME NEW t \in tries
      PROVE /\ t[4] \in 0..req.refresh /\ (~cfg.oauth => t[1] \in req.tried)
            /\ Alike(t) => /\ t[2] \notin Ahead(Tail(req.urls))
                           /\ t[2] = U => t[3] \notin Ahead(Tail(req.protos))
  BY <1>3 DEF Fresh, InLoop
<1> QED BY <1>1, <1>2, <1>3, <1>4, <1>5, <1>6, <1>7, <1>8 DEF Fresh

LEMMA FreshUpdate ==
    ASSUME Fresh, twice' = twice,
           \/ Departs
           \/ req'.pc = "done"
           \/ tries' = {}
    PROVE  Fresh'
BY DEF Fresh, Departs, InLoop

LEMMA FreshInit ==
    ASSUME Init
    PROVE  Fresh
BY DEF Init, Fresh

\* A failed attempt moves on to what is still ahead.
LEMMA FreshBack ==
    ASSUME TypeInv, Fresh, req.pc = "attempt", Try,
           cfg' = cfg, req'.pc = "url", req'.urls \in {Tail(req.urls), <<>>},
           req'.key = req.key, req'.refresh = req.refresh, req'.tried = req.tried
    PROVE  Fresh'
<1>1. /\ ~twice'
      /\ \A t \in tries' :
            /\ t[4] \in 0..req.refresh /\ (~cfg.oauth => t[1] \in req.tried)
            /\ Alike(t) => t[2] \notin Ahead(Tail(req.urls))
  BY TryIsNew
<1>2. Ahead(<<>>) = {}
  BY UrlsAhead DEF UrlOrders
<1>3. \A t \in tries' : t[1] = req.key /\ t[4] = req.refresh => t[2] \notin Ahead(req'.urls)
  BY <1>1, <1>2 DEF Alike
<1> QED BY <1>1, <1>3 DEF Fresh, InLoop, Alike

LEMMA FreshStep ==
    ASSUME TypeInv, Fresh, Next
    PROVE  Fresh'
<1>1. CASE TryChannel
  BY <1>1, TryChannelEffect, FreshUpdate
<1>2. CASE Credential
  <2>1. CASE Departs
    BY <1>2, <2>1, CredentialEffect, FreshUpdate DEF hist
  <2>2. CASE ~Departs
    <3>1. /\ UNCHANGED <<cfg, tries, twice>> /\ req.pc = "credential" /\ req'.pc = "url"
          /\ req'.key = req.key /\ req'.refresh = req.refresh /\ req'.tried = req.tried
      BY <1>2, <2>2, CredentialEffect DEF hist
    <3> QED BY <3>1 DEF Fresh, InLoop, Alike
  <2> QED BY <2>1, <2>2
<1>3. CASE SelectKey
  <2>1. /\ UNCHANGED <<cfg, tries, twice>> /\ req.pc = "key" /\ req'.pc = "url" /\ ~cfg.oauth
        /\ req'.key \notin req.tried /\ req'.refresh = req.refresh
        /\ req'.tried = req.tried \cup {req'.key}
    BY <1>3, SelectKeyEffect DEF hist
  <2> QED BY <2>1 DEF Fresh, InLoop, Alike
<1>4. CASE NoKeyAvailable
  BY <1>4, NoKeyAvailableEffect, FreshUpdate DEF hist
<1>5. CASE KeyLoopEnds
  BY <1>5, KeyLoopEndsEffect, FreshUpdate DEF hist
<1>6. CASE NextURL
  <2>1. UNCHANGED <<cfg, tries, twice>> /\ req.pc = "url" /\ req.urls # <<>> /\ req \in RequestType
    BY <1>6, NextURLEffect DEF hist, TypeInv, Typed
  <2>2. Ahead(req.urls) = {U} \cup Ahead(Tail(req.urls))
    BY <2>1, UrlsAhead DEF U, RequestType
  <2>3. CASE Departs
    BY <2>1, <2>3, FreshUpdate
  <2>4. CASE req'.pc = "url" /\ ~Departs
    <3>1. req'.urls = Tail(req.urls) /\ req'.key = req.key /\ req'.refresh = req.refresh
          /\ req'.tried = req.tried
      BY <1>6, <2>4, NextURLEffect
    <3> QED BY <2>1, <2>2, <2>4, <3>1 DEF Fresh, InLoop, Alike
  <2>5. CASE req'.pc = "attempt" /\ ~Departs
    <3>1. req'.urls = req.urls /\ req'.key = req.key /\ req'.refresh = req.refresh
          /\ req'.tried = req.tried /\ U' = U
      BY <1>6, <2>5, NextURLEffect DEF U
    <3> QED BY <2>1, <2>2, <2>5, <3>1 DEF Fresh, InLoop, Alike
  <2> QED BY <1>6, <2>3, <2>4, <2>5, NextURLEffect
<1>7. CASE UrlLoopEnds
  <2>1. UNCHANGED <<cfg, tries, twice>> /\ req.pc = "url"
    BY <1>7, UrlLoopEndsEffect DEF hist
  <2>2. CASE Departs
    BY <2>1, <2>2, FreshUpdate
  <2>3. CASE req'.pc = "credential" /\ ~Departs
    <3>1. cfg.oauth /\ req.refresh = 0 /\ req'.refresh = 1
      BY <1>7, <2>3, UrlLoopEndsEffect
    <3>2. \A t \in tries : t[4] \in 0..0
      BY <2>1, <3>1 DEF Fresh, InLoop
    <3> QED BY <2>1, <2>3, <3>1, <3>2 DEF Fresh, InLoop
  <2>4. CASE req'.pc = "key" /\ ~Departs
    BY <1>7, <2>1, <2>4, UrlLoopEndsEffect DEF Fresh, InLoop
  <2> QED BY <1>7, <2>2, <2>3, <2>4, UrlLoopEndsEffect
<1>8. CASE Success
  <2>1. ~twice' /\ req'.pc = "done"
    BY <1>8, SuccessEffect, TryIsNew
  <2> QED BY <2>1 DEF Fresh, InLoop
<1>9. CASE Missing
  <2>1. CASE req'.pc = "url"
    BY <1>9, <2>1, MissingEffect, FreshBack
  <2>2. CASE req'.pc = "attempt"
    <3>1. req'.urls = req.urls /\ req'.key = req.key /\ req'.refresh = req.refresh
          /\ req'.tried = req.tried /\ U' = U /\ cfg' = cfg /\ req'.protos = Tail(req.protos)
      BY <1>9, <2>2, MissingEffect DEF U
    <3>2. /\ ~twice'
          /\ \A t \in tries' :
                /\ t[4] \in 0..req.refresh /\ (~cfg.oauth => t[1] \in req.tried)
                /\ Alike(t) => /\ t[2] \notin Ahead(Tail(req.urls))
                               /\ t[2] = U => t[3] \notin Ahead(Tail(req.protos))
      BY <1>9, MissingEffect, TryIsNew
    <3> QED BY <2>2, <3>1, <3>2 DEF Fresh, InLoop, Alike
  <2> QED BY <1>9, <2>1, <2>2, MissingEffect
<1>11. CASE LimitExceeded
  BY <1>11, LimitExceededEffect, FreshUpdate DEF hist
<1>12. CASE \E o \in Failures : Failure(o)
  BY <1>12, FailureEffect, FreshBack
<1>13. CASE \E o \in {"key", "timeout"} : Broken(o)
  <2>1. ~twice' /\ req'.pc = "done"
    BY <1>13, BrokenEffect, TryIsNew DEF Failures
  <2> QED BY <2>1 DEF Fresh, InLoop
<1>14. CASE \E o \in {"client", "cancel"} : ReturnClient(o)
  BY <1>14, ReturnClientEffect, FreshUpdate DEF hist
<1>15. CASE Final
  BY <1>15, FinalEffect, FreshUpdate DEF hist
<1>16. CASE ClientGone \/ \E k \in Keys : OtherRequest(k)
  <2>1. UNCHANGED <<req, cfg, tries, twice>>
    BY <1>16, EnvironmentEffect DEF hist
  <2> QED BY <2>1 DEF Fresh, InLoop, Alike, U
<1> QED BY <1>1, <1>2, <1>3, <1>4, <1>5, <1>6, <1>7, <1>8, <1>9, <1>11, <1>12, <1>13,
           <1>14, <1>15, <1>16 DEF Next, Step

-------------------------------------------------------------------------------
(* What a request leaves behind.                                           *)

\* A failure that does not go without its cooldown.
Punished == \E o \in blame : o # "server" \/ cfg.urls = 1

Outcome ==
    /\ req.answer # "ok" /\ Punished => marks # {}
    /\ NoMarkWithoutBlame
    /\ StickyTracksOutcome
    /\ req.pc # "done" /\ req.last # "nil" => sticky = Nil

LEMMA OutcomeInit ==
    ASSUME Init
    PROVE  Outcome
BY DEF Init, Outcome, Punished, NoMarkWithoutBlame, StickyTracksOutcome, AtChannel

\* Every failure cools something, but the deferred one of a server.
LEMMA FailureCools ==
    ASSUME TypeInv, NEW o \in Failures
    PROVE  \/ ~Deferred(o) \/ AppliedLate(o)
           \/ TriesNextURL(o)
           \/ o = "server" /\ cfg.urls # 1
<1>1. cfg.urls \in 1..2
  BY ConfigTyped DEF TypeInv, Typed
<1> QED BY <1>1 DEF Deferred, AppliedLate, TriesNextURL, Defer, RetryOf

LEMMA CooledNotEmpty ==
    ASSUME NEW o
    PROVE  Cooled(o) # {} /\ CooledURL # {}
BY DEF Cooled, CooledURL

\* A step that touches neither the candidate's history nor its cooldowns.
LEMMA OutcomeUntouched ==
    ASSUME TypeInv, Outcome, UNCHANGED <<cfg, blame, marks>>, req.pc # "done",
           req'.pc # "done", req'.answer = "pending",
           sticky' = Nil \/ (sticky' = sticky /\ req'.last = req.last)
    PROVE  Outcome'
<1>1. req.answer = "pending"
  BY DEF TypeInv, Staged
<1> QED BY <1>1 DEF Outcome, Punished, NoMarkWithoutBlame, StickyTracksOutcome

LEMMA OutcomeStep ==
    ASSUME TypeInv, Outcome, Next
    PROVE  Outcome'
<1>0. req.pc # "done" => req.answer = "pending"
  BY DEF TypeInv, Staged
<1>1. CASE TryChannel
  <2>1. /\ tries' = {} /\ blame' = {} /\ marks' = {} /\ req'.pc # "done"
        /\ sticky' = Nil \/ (sticky' = sticky /\ req'.last = req.last)
        /\ req.pc # "done"
    BY <1>1, TryChannelEffect DEF TryChannel
  <2> QED BY <2>1 DEF Outcome, Punished, NoMarkWithoutBlame, StickyTracksOutcome
<1>2. CASE Credential
  BY <1>0, <1>2, CredentialEffect, OutcomeUntouched DEF hist, Departs
<1>3. CASE SelectKey
  BY <1>0, <1>3, SelectKeyEffect, OutcomeUntouched DEF hist
<1>4. CASE NoKeyAvailable
  <2>1. /\ UNCHANGED <<cfg, blame>> /\ ~cfg.oauth /\ marks' = marks \cup {<<"channel", Nil>>}
        /\ req'.pc = "channel" /\ sticky' = Nil
    BY <1>4, NoKeyAvailableEffect DEF hist, Departs
  <2> QED BY <2>1 DEF Outcome, Punished, NoMarkWithoutBlame, StickyTracksOutcome
<1>5. CASE KeyLoopEnds
  <2>1. req.pc = "key"
    BY <1>5 DEF KeyLoopEnds
  <2> QED BY <1>5, <2>1, KeyLoopEndsEffect, OutcomeUntouched DEF hist, Departs
<1>6. CASE NextURL
  BY <1>0, <1>6, NextURLEffect, OutcomeUntouched DEF hist, Departs
<1>7. CASE UrlLoopEnds
  BY <1>0, <1>7, UrlLoopEndsEffect, OutcomeUntouched DEF hist, Departs
<1>8. CASE Success
  <2>1. /\ blame' = blame /\ cfg' = cfg /\ req'.pc = "done" /\ req'.answer = "ok" /\ sticky' = req'.ch
        /\ marks' = {x \in marks : x[1] \notin {"channel", "model"} /\ x # <<"key", req.key>>}
    BY <1>8, SuccessEffect
  <2>2. NoMarkWithoutBlame'
    <3>1. CASE blame # {}
      BY <2>1, <3>1 DEF NoMarkWithoutBlame
    <3>2. CASE marks = {<<"channel", Nil>>}
      BY <2>1, <3>2 DEF NoMarkWithoutBlame
    <3>3. CASE marks = {}
      BY <2>1, <3>3 DEF NoMarkWithoutBlame
    <3> QED BY <3>1, <3>2, <3>3 DEF Outcome, NoMarkWithoutBlame
  <2> QED BY <2>1, <2>2 DEF Outcome, StickyTracksOutcome
<1>9. CASE Missing
  BY <1>9, MissingEffect, OutcomeUntouched
<1>11. CASE LimitExceeded
  <2>1. req.pc = "attempt"
    BY <1>11 DEF LimitExceeded
  <2> QED BY <1>11, <2>1, LimitExceededEffect, OutcomeUntouched DEF hist, Departs
<1>12. ASSUME NEW o \in Failures, Failure(o) PROVE Outcome'
  <2>1. /\ req.pc = "attempt" /\ UNCHANGED <<cfg, sticky>>
        /\ marks' = marks \cup (IF ~Deferred(o) \/ AppliedLate(o) THEN Cooled(o) ELSE {})
                          \cup (IF TriesNextURL(o) THEN CooledURL ELSE {})
        /\ blame' = blame \cup {Blamed(o)}
        /\ req'.pc = "url" /\ req'.last = req.last /\ req'.answer = "pending"
    BY <1>12, FailureEffect
  <2>2. Punished' => marks' # {}
    <3>1. CASE Punished
      BY <1>0, <2>1, <3>1 DEF Outcome
    <3>2. CASE ~Punished
      <4>1. SUFFICES ASSUME Punished' PROVE marks' # {}
        OBVIOUS
      <4>2. ~(o = "server" /\ cfg.urls # 1)
        BY <2>1, <3>2, <4>1 DEF Punished, Blamed
      <4> QED BY <2>1, <4>2, FailureCools, CooledNotEmpty
    <3> QED BY <3>1, <3>2
  <2>3. NoMarkWithoutBlame'
    BY <2>1 DEF NoMarkWithoutBlame
  <2> QED BY <1>0, <2>1, <2>2, <2>3 DEF Outcome, StickyTracksOutcome
<1>13. ASSUME NEW o \in Failures, Broken(o) PROVE Outcome'
  <2>1. /\ marks' = marks \cup Cooled(o) /\ blame' = blame \cup {Blamed(o)}
        /\ req'.pc = "done" /\ req'.answer = "broken" /\ sticky' = req'.ch
    BY <1>13, BrokenEffect
  <2> QED BY <2>1, CooledNotEmpty DEF Outcome, NoMarkWithoutBlame, StickyTracksOutcome
<1>14. ASSUME NEW o \in {"client", "cancel"}, ReturnClient(o) PROVE Outcome'
  <2>1. req.pc = "attempt"
    BY <1>14 DEF ReturnClient
  <2> QED BY <1>14, <2>1, ReturnClientEffect, OutcomeUntouched DEF hist, Departs
<1>15. CASE Final
  <2>1. /\ UNCHANGED <<cfg, sticky, blame, marks>> /\ req.pc = "channel" /\ req.answer = "pending"
        /\ req'.pc = "done" /\ req'.answer = FinalAnswer /\ req \in RequestType
    BY <1>0, <1>15, FinalEffect DEF hist, TypeInv, Typed
  <2>2. StickyTracksOutcome'
    BY <2>1 DEF Outcome, StickyTracksOutcome, FinalAnswer, RequestType
  <2> QED BY <2>1, <2>2 DEF Outcome, Punished, NoMarkWithoutBlame
<1>16. CASE ClientGone \/ \E k \in Keys : OtherRequest(k)
  <2>1. UNCHANGED <<req, cfg, sticky, blame, marks>>
    BY <1>16, EnvironmentEffect DEF hist
  <2> QED BY <2>1 DEF Outcome, Punished, NoMarkWithoutBlame, StickyTracksOutcome
<1>17. \A o \in {"key", "timeout"} : o \in Failures
  BY DEF Failures
<1> QED BY <1>1, <1>2, <1>3, <1>4, <1>5, <1>6, <1>7, <1>8, <1>9, <1>11, <1>12, <1>13,
           <1>14, <1>15, <1>16, <1>17 DEF Next, Step

-------------------------------------------------------------------------------
IInv == TypeInv /\ Fresh /\ Outcome

LEMMA TypeInvStep ==
    ASSUME TypeInv, Next
    PROVE  TypeInv'
<1>1. CASE Step
  <2>1. \A o \in {"key", "timeout"} : o \in Failures
    BY DEF Failures
  <2> QED BY <1>1, <2>1, TryChannelEffect, CredentialEffect, SelectKeyEffect, NoKeyAvailableEffect,
             KeyLoopEndsEffect, NextURLEffect, UrlLoopEndsEffect, SuccessEffect, MissingEffect,
             LimitExceededEffect, FailureEffect, BrokenEffect,
             ReturnClientEffect, FinalEffect DEF Step
<1>2. CASE ClientGone \/ \E k \in Keys : OtherRequest(k)
  BY <1>2, EnvironmentEffect
<1> QED BY <1>1, <1>2 DEF Next

LEMMA Invariant == Spec => []IInv
<1>1. Init => IInv
  BY Initially, FreshInit, OutcomeInit DEF IInv
<1>2. IInv /\ [Next]_vars => IInv'
  <2> SUFFICES ASSUME IInv, [Next]_vars PROVE IInv'
    OBVIOUS
  <2>1. CASE Next
    BY <2>1, TypeInvStep, FreshStep, OutcomeStep DEF IInv
  <2>2. CASE UNCHANGED vars
    BY <2>2 DEF IInv, vars, hist, TypeInv, Typed, Staged, TriedBound, Fresh, InLoop, Alike, U,
                Outcome, Punished, NoMarkWithoutBlame, StickyTracksOutcome
  <2> QED BY <2>1, <2>2
<1> QED BY <1>1, <1>2, PTL DEF Spec

\* Every field of a request stays within its type, and no more keys of a
\* channel are tried than its setting allows (tryChannelWithKeys).
THEOREM FailoverTypeInvariant == Spec => []TypeOK
<1>1. IInv => TypeOK
  BY TypesHold DEF IInv
<1> QED BY <1>1, Invariant, PTL

\* Whatever the candidates, the keys, the URLs' order and the failures, no
\* attempt is made twice with one key, URL and protocol, unless the credential
\* was refreshed in between (tryChannelWithKeys, attemptKeyAcrossURLs,
\* the two rounds of tryCodexOAuthChannel).
THEOREM EachAttemptOnce == Spec => []NeverTriedTwice
<1>1. IInv => NeverTriedTwice
  BY DEF IInv, Fresh, NeverTriedTwice
<1> QED BY <1>1, Invariant, PTL

\* A request leaves behind what its outcome says: a failure its cooldown,
\* a cooldown somebody's failure, and the channel remembered is the one that
\* served (handleProxyErrorResponse, handleNetworkError, handleProxySuccess).
THEOREM OutcomesRecorded == Spec => []OutcomeRecorded
<1>1. IInv => OutcomeRecorded
  BY DEF IInv, Outcome, OutcomeRecorded, FailureCooled, Punished
<1> QED BY <1>1, Invariant, PTL
===============================================================================
