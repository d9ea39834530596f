---------------------------- MODULE LayerProofs ----------------------------
(***************************************************************************)
(* Theorems about Layer for every set of requests, clients, endpoints and  *)
(* traffic, every chunk, frame and ring size: types, the references to the *)
(* connection, the counters and records of odin, the headers and bodies of *)
(* responses, and the sessions.                                            *)
(***************************************************************************)
EXTENDS Layer, FiniteSetTheorems, Flattening

(* Arithmetic of the offsets in a file. *)
LEMMA AddBoth ==
  ASSUME NEW i \in Nat, NEW j \in Nat, NEW k \in Nat, NEW l \in Nat, NEW d \in Nat,
         i + j = k + l
  PROVE  (i + d) + j = k + (l + d) /\ (l + d = j => i + d = k)
  OBVIOUS

(* What a sequence has, of elements. *)
LEMMA ToSetAppend ==
  ASSUME NEW S, NEW s \in Seq(S), NEW x \in S
  PROVE  ToSet(Append(s, x)) = ToSet(s) \cup {x}
  <1>1. /\ Len(Append(s, x)) = Len(s) + 1 /\ Append(s, x)[Len(s) + 1] = x
        /\ \A i \in 1 .. Len(s) : Append(s, x)[i] = s[i]
        /\ DOMAIN Append(s, x) = 1 .. Len(s) + 1 /\ DOMAIN s = 1 .. Len(s)
        /\ Len(s) \in Nat
    OBVIOUS
  <1>2. ToSet(Append(s, x)) \subseteq ToSet(s) \cup {x}
    BY <1>1 DEF ToSet
  <1>3. ASSUME NEW y \in ToSet(s) PROVE y \in ToSet(Append(s, x))
    <2>1. PICK i \in 1 .. Len(s) : y = s[i]
      BY <1>1, <1>3 DEF ToSet
    <2>2. i \in 1 .. Len(s) + 1 /\ Append(s, x)[i] = y
      BY <1>1, <2>1
    <2> QED
      BY <1>1, <2>2 DEF ToSet
  <1>4. x \in ToSet(Append(s, x))
    BY <1>1 DEF ToSet
  <1> QED
    BY <1>2, <1>3, <1>4

LEMMA AppendLast ==
  ASSUME NEW S, NEW s \in Seq(S), NEW x \in S
  PROVE  Append(s, x) # << >> /\ Last(Append(s, x)) = x
  <1>1. Len(Append(s, x)) = Len(s) + 1 /\ Append(s, x)[Len(s) + 1] = x /\ Len(s) \in Nat
    OBVIOUS
  <1> QED
    BY <1>1 DEF Last

LEMMA InjectiveAppend ==
  ASSUME NEW S, NEW s \in Seq(S), NEW x \in S, IsInjective(s), x \notin ToSet(s)
  PROVE  IsInjective(Append(s, x))
  <1> DEFINE t == Append(s, x)
             n == Len(s)
  <1>1. /\ t[n + 1] = x /\ \A i \in 1 .. n : t[i] = s[i]
        /\ DOMAIN t = 1 .. n + 1 /\ DOMAIN s = 1 .. n /\ n \in Nat
    OBVIOUS
  <1> HIDE DEF t, n
  <1>2. \A i \in 1 .. n : s[i] # x
    BY <1>1 DEF ToSet
  <1>3. \A i, j \in 1 .. n : s[i] = s[j] => i = j
    BY <1>1 DEF IsInjective
  <1>4. ASSUME NEW i \in 1 .. n + 1, NEW j \in 1 .. n + 1, t[i] = t[j]
        PROVE  i = j
    <2>1. i \in 1 .. n \/ i = n + 1
      BY <1>1
    <2>2. j \in 1 .. n \/ j = n + 1
      BY <1>1
    <2> QED
      BY <1>1, <1>2, <1>3, <1>4, <2>1, <2>2
  <1>5. IsInjective(t)
    BY <1>1, <1>4 DEF IsInjective
  <1> QED
    BY <1>5 DEF t

LEMMA LastIsIn ==
  ASSUME NEW S, NEW s \in Seq(S), s # << >>
  PROVE  Last(s) \in ToSet(s)
  BY DEF Last, ToSet

LEMMA InsertionAppend ==
  ASSUME NEW w \in Seq(Insertion), NEW y \in Insertion
  PROVE  ToSet(Append(w, y)) = ToSet(w) \cup {y}
  BY ToSetAppend

(* The first n insertions of a response. *)
FirstOf(r, n) == [k \in 1 .. n |-> <<r, k>>]

LEMMA FirstGrows ==
  ASSUME NEW v, NEW n \in Nat
  PROVE  /\ FirstOf(v, 0) = << >> /\ FirstOf(v, n + 1) # << >>
         /\ Append(FirstOf(v, n), <<v, n + 1>>) = FirstOf(v, n + 1)
  <1> DEFINE s == FirstOf(v, n)
             t == Append(s, <<v, n + 1>>)
  <1>1. s \in Seq({<<v, k>> : k \in Nat}) /\ Len(s) = n /\ \A k \in 1 .. n : s[k] = <<v, k>>
    BY DEF FirstOf
  <1>2. /\ t = [k \in 1 .. n + 1 |-> t[k]]
        /\ t[n + 1] = <<v, n + 1>> /\ \A k \in 1 .. n : t[k] = s[k]
    BY <1>1
  <1>3. \A k \in 1 .. n + 1 : k \in 1 .. n \/ k = n + 1
    OBVIOUS
  <1> HIDE DEF s, t
  <1>4. \A k \in 1 .. n + 1 : t[k] = <<v, k>>
    BY <1>1, <1>2, <1>3
  <1>5. t = [k \in 1 .. n + 1 |-> <<v, k>>]
    BY <1>2, <1>4, Zenon
  <1>6. FirstOf(v, 0) = << >>
    BY DEF FirstOf
  <1>7. FirstOf(v, n + 1) # << >>
    BY DEF FirstOf
  <1> QED
    BY <1>5, <1>6, <1>7 DEF s, t, FirstOf

(* Totals.  A recursive function has the value it should have because the  *)
(* octets of the pieces, put together, have that length.                   *)
Sized(S) == \A x \in S : x.len \in Nat

Octets(pieces) == [n \in 1 .. Len(pieces) |-> [k \in 1 .. pieces[n].len |-> n]]

LEMMA OctetsType ==
  ASSUME NEW S, Sized(S), NEW s \in Seq(S)
  PROVE  /\ Octets(s) \in Seq(Seq(Nat)) /\ Len(Octets(s)) = Len(s)
         /\ \A n \in 1 .. Len(s) : Len(Octets(s)[n]) = s[n].len /\ s[n].len \in Nat
  <1>1. ASSUME NEW n \in 1 .. Len(s)
        PROVE  /\ s[n].len \in Nat
               /\ [k \in 1 .. s[n].len |-> n] \in Seq(Nat)
               /\ Len([k \in 1 .. s[n].len |-> n]) = s[n].len
    <2>1. s[n] \in S
      BY ElementOfSeq
    <2>2. s[n].len \in Nat /\ n \in Nat
      BY <2>1 DEF Sized
    <2> QED
      BY <2>2
  <1>2. PICK m \in Nat : m = Len(s)
    OBVIOUS
  <1>3. Octets(s) \in [1 .. m -> Seq(Nat)]
    BY <1>1, <1>2 DEF Octets
  <1>4. Octets(s) \in Seq(Seq(Nat)) /\ Len(Octets(s)) = m
    BY <1>3
  <1> QED
    BY <1>1, <1>2, <1>4 DEF Octets

LEMMA TotalIsLength ==
  ASSUME NEW S, Sized(S), NEW s \in Seq(S)
  PROVE  Total(s) = Len(FlattenSeq(Octets(s)))
  <1>1. PICK parts, m : parts = Octets(s) /\ m = Len(s)
    OBVIOUS
  <1>2. /\ parts \in Seq(Seq(Nat)) /\ Len(parts) = m /\ m \in Nat
        /\ \A n \in 1 .. m : Len(parts[n]) = s[n].len
    BY <1>1, OctetsType
  <1> DEFINE g == [n \in 0 .. m |-> Len(FirstParts(parts, n))]
             Recursion(f) == f = [n \in 0 .. m |-> IF n = 0 THEN 0 ELSE f[n - 1] + s[n].len]
  <1>3. g[0] = 0 /\ \A n \in 1 .. m : g[n] = g[n - 1] + s[n].len
    <2>1. g[0] = 0
      BY <1>2, FirstPartsNone
    <2>2. ASSUME NEW n \in 1 .. m PROVE g[n] = g[n - 1] + s[n].len
      <3>1. n \in 0 .. m /\ n - 1 \in 0 .. m
        BY <1>2
      <3>2. PICK a, p : a = FirstParts(parts, n - 1) /\ p = parts[n]
        OBVIOUS
      <3>3. FirstParts(parts, n) = a \o p /\ a \in Seq(Nat) /\ p \in Seq(Nat)
        BY <1>2, <3>1, <3>2, FirstPartsType, FirstPartsMore, ElementOfSeq
      <3>4. Len(FirstParts(parts, n)) = Len(a) + Len(p)
        BY <3>3
      <3>5. Len(p) = s[n].len
        BY <1>2, <3>2
      <3> QED
        BY <3>1, <3>2, <3>4, <3>5
    <2> QED
      BY <2>1, <2>2
  <1>4. Recursion(g)
    <2> SUFFICES ASSUME NEW n \in 0 .. m
                 PROVE  g[n] = IF n = 0 THEN 0 ELSE g[n - 1] + s[n].len
      BY Zenon
    <2>1. n # 0 => n \in 1 .. m
      BY <1>2
    <2> HIDE DEF g
    <2> QED
      BY <1>3, <2>1
  <1>5. PICK f : f = CHOOSE h : Recursion(h)
    OBVIOUS
  <1>6. Recursion(f)
    <2> HIDE DEF Recursion
    <2> QED
      BY <1>4, <1>5, Zenon
  <1>7. f[0] = 0 /\ \A n \in 1 .. m : f[n] = f[n - 1] + s[n].len
    BY <1>2, <1>6
  <1>8. f[m] = g[m]
    <2> HIDE DEF g, Recursion
    <2> DEFINE Bad == {n \in 0 .. m : f[n] # g[n]}
    <2> SUFFICES ASSUME Bad # {} PROVE FALSE
      BY <1>2
    <2>1. PICK n \in Bad : \A j \in Bad : n <= j
      <3>1. Bad \in SUBSET Nat
        BY <1>2
      <3> HIDE DEF Bad
      <3> QED
        BY <3>1, LeastNatural
    <2>2. n \in 1 .. m /\ n - 1 \in 0 .. m /\ ~(n <= n - 1)
      BY <1>2, <1>3, <1>7
    <2>3. f[n - 1] = g[n - 1]
      BY <2>1, <2>2
    <2> QED
      BY <1>3, <1>7, <2>2, <2>3
  <1>9. Total(s) = f[m]
    BY <1>1, <1>5, Zenon DEF Total
  <1>10. g[m] = Len(FlattenSeq(parts))
    BY <1>2, FirstPartsAll
  <1> QED
    BY <1>1, <1>8, <1>9, <1>10

LEMMA TotalNone == Total(<< >>) = 0
  <1>1. << >> \in Seq({}) /\ Sized({})
    BY DEF Sized
  <1>2. Total(<< >>) = Len(FlattenSeq(Octets(<< >>)))
    BY <1>1, TotalIsLength
  <1>3. Octets(<< >>) = << >>
    BY DEF Octets
  <1> QED
    BY <1>2, <1>3, FlattenNone

LEMMA TotalAppend ==
  ASSUME NEW S, Sized(S), NEW s \in Seq(S), NEW x \in S
  PROVE  Total(Append(s, x)) = Total(s) + x.len /\ Total(s) \in Nat
  <1>1. PICK t, us, ws, m : /\ t = Append(s, x) /\ us = Octets(t) /\ ws = Octets(s) /\ m = Len(s)
    OBVIOUS
  <1>2. /\ t \in Seq(S) /\ Len(t) = m + 1 /\ m \in Nat /\ t[m + 1] = x
        /\ \A i \in 1 .. m : t[i] = s[i]
    BY <1>1
  <1>3. /\ us \in Seq(Seq(Nat)) /\ Len(us) = m + 1 /\ Len(us[m + 1]) = x.len
        /\ ws \in Seq(Seq(Nat)) /\ Len(ws) = m
    <2>1. m + 1 \in 1 .. Len(t)
      BY <1>2
    <2>2. us \in Seq(Seq(Nat)) /\ Len(us) = Len(t) /\ Len(us[m + 1]) = t[m + 1].len
      <3>1. t \in Seq(S)
        BY <1>2
      <3>2. /\ Octets(t) \in Seq(Seq(Nat)) /\ Len(Octets(t)) = Len(t)
            /\ \A i \in 1 .. Len(t) : Len(Octets(t)[i]) = t[i].len
        BY <3>1, OctetsType
      <3> QED
        BY <1>1, <2>1, <3>2, Zenon
    <2>3. ws \in Seq(Seq(Nat)) /\ Len(ws) = m
      BY <1>1, OctetsType
    <2> QED
      BY <1>2, <2>1, <2>2, <2>3
  <1>4. \A i \in 1 .. m : ws[i] = us[i]
    <2> SUFFICES ASSUME NEW i \in 1 .. m PROVE ws[i] = us[i]
      OBVIOUS
    <2>1. i \in 1 .. Len(t) /\ i \in 1 .. Len(s) /\ t[i] = s[i]
      BY <1>1, <1>2
    <2> QED
      BY <1>1, <2>1 DEF Octets
  <1>5. FlattenSeq(us) = FlattenSeq(ws) \o us[m + 1]
    <2>1. m \in Nat /\ us \in Seq(Seq(Nat)) /\ ws \in Seq(Seq(Nat)) /\ Len(ws) = m /\ Len(us) = m + 1
      BY <1>2, <1>3
    <2>2. SameUpTo(ws, us, m)
      BY <1>4 DEF SameUpTo
    <2> QED
      BY <2>1, <2>2, FlattenAppended
  <1>6. FlattenSeq(ws) \in Seq(Nat) /\ us[m + 1] \in Seq(Nat)
    <2>1. m + 1 \in 1 .. Len(us)
      BY <1>2, <1>3
    <2> QED
      BY <1>3, <2>1, FlattenType, ElementOfSeq
  <1>7. /\ Len(FlattenSeq(us)) = Len(FlattenSeq(ws)) + Len(us[m + 1])
        /\ Len(FlattenSeq(ws)) \in Nat
    BY <1>5, <1>6
  <1>8. Total(t) = Len(FlattenSeq(us)) /\ Total(s) = Len(FlattenSeq(ws))
    BY <1>1, <1>2, TotalIsLength
  <1> QED
    BY <1>1, <1>3, <1>7, <1>8

LEMMA TotalIsNatural ==
  ASSUME NEW S, Sized(S), NEW s \in Seq(S)
  PROVE  Total(s) \in Nat
  <1>1. FlattenSeq(Octets(s)) \in Seq(Nat)
    BY OctetsType, FlattenType
  <1> QED
    BY <1>1, TotalIsLength

-----------------------------------------------------------------------------
USE EndpointAssumption, StreamAssumption, OdinAssumption, LayerAssumption
    DEF EndpointAssumption, StreamAssumption, OdinAssumption, LayerAssumption

-----------------------------------------------------------------------------
(* What a worker does, or what others have it do. *)
WorkerMove(r) == WorkerStep(r) \/ Hangup(r) \/ TakeEvent(r)

(* What a step does to each of the parts that Layer composes. *)
SessionStep(r) ==
    \/ UNCHANGED sessionVars
    \/ Load(r, traffic[r].cookie)
    \/ \E text \in Settable : SetValue(r, text)
    \/ RemoveFile(r) \/ Truncate(r) \/ Write(r) \/ CutOff

OdinStep(r) ==
    \/ UNCHANGED odinVars
    \/ Count(IsAdmin(r))
    \/ CountStatus(IsAdmin(r), Endpoints[EndpointOf(r)].status)
    \/ PushRing(r)
    \/ PushTiming(r, {q \in Request : handler[q] = "timing"})

Buffers == [len : Nat, last : BOOLEAN]

StreamStep(r) ==
    \/ UNCHANGED streamVars
    \/ \E buffers \in Seq(Buffers), file \in Nat \cup {NoFile} : Respond(r, buffers, file)
    \/ WriteBuffer(r) \/ CutBuffer(r) \/ WriteFrame(r)

LEMMA OdinSteps ==
  ASSUME NEW r \in Request,
         Handle(r) \/ WorkerMove(r) \/ PoolRuns(r) \/ HandlerStep(r)
  PROVE  OdinStep(r)
  <1>1. CASE Handle(r) BY <1>1 DEF Handle, OdinStep
  <1>2. CASE WorkerMove(r)
    BY <1>2 DEF WorkerMove, WorkerStep, HandleReturns, ReleaseEvent, Save,
                SaveEnd, LockForRead, ReadEnds, Hangup, ReturnEof, TakeEvent, OdinStep
  <1>3. CASE PoolRuns(r) BY <1>3 DEF PoolRuns, OdinStep
  <1>4. CASE HandlerStep(r)
    BY <1>4 DEF HandlerStep, Run, RunThrows, WriteHead, Serialize, Inserted, FinishHeaders, WriteHeaders,
                ReadClosedFile, WriteBody, NextBuffer, WriteData, WriteFails, ReleaseFinish,
                CloseStream, PostSend, RecordTiming, Throw, OdinStep
  <1> QED
    BY <1>1, <1>2, <1>3, <1>4

-----------------------------------------------------------------------------
(* Where requests are.  Every request with a worker has a record; its      *)
(* session_handle lives from the worker's first step until its last copy   *)
(* is destroyed, which on HTTP/1.1 is after the event was released.        *)
Unsaved(r) ==
    \/ worker[r] \in {"handle", "save", "write"}
    \/ worker[r] = "release" /\ ~Http2(r)

Places ==
    \A r \in Request :
        /\ worker[r] = "idle" <=> handler[r] = "none"
        /\ worker[r] # "idle" => r \in DOMAIN traffic
        /\ worker[r] = "idle" => r \notin alive
        /\ Unsaved(r) => r \in alive
        /\ handler[r] \in {"none", "pooled", "run"} => inserted[r] = 0
        /\ handler[r] = "head" => inserted[r] < Inserts

PlaceTypeOK ==
    /\ traffic \in Traffic
    /\ worker \in [Request -> {"idle", "handle", "release", "save", "write",
                               "again", "read", "edge", "gone"}]
    /\ handler \in [Request -> {"none", "pooled", "run", "head", "serialized", "framed", "body",
                                "frames", "sent", "closing", "post", "timing", "ended", "thrown"}]
    /\ refs_ \in [Client -> Int]
    /\ hungup \subseteq Client /\ reread \subseteq Client /\ misused \subseteq Client
    /\ cookieSet \subseteq Request /\ together \subseteq Client
    /\ inserted \in [Request -> 0 .. Inserts]
    /\ payload \in [Client -> Seq(Insertion)] /\ block \in [Request -> Seq(Insertion)]
    /\ wire \in [Client -> Seq(Request)]
    /\ exited \in BOOLEAN /\ undefined \in BOOLEAN

LEMMA TrafficKept == [Next]_vars => traffic' = traffic
  <1>1. ASSUME NEW r \in Request, WorkerMove(r) \/ HandlerStep(r)
        PROVE  traffic' = traffic
    BY <1>1 DEF WorkerMove, WorkerStep, HandleReturns, ReleaseEvent, Save,
                SaveEnd, LockForRead, ReadEnds, Hangup, ReturnEof, TakeEvent, GoWorker,
                HandlerStep, Run, RunThrows, WriteHead, Serialize, Inserted, FinishHeaders, WriteHeaders,
                ReadClosedFile, WriteBody, NextBuffer, WriteData, WriteFails, ReleaseFinish,
                CloseStream, PostSend, RecordTiming, Throw, GoHandler
  <1>2. ASSUME NEW r \in Request, Handle(r) \/ PoolRuns(r)
        PROVE  traffic' = traffic
    BY <1>2 DEF Handle, PoolRuns, GoHandler
  <1>3. ASSUME RateStep \/ Quiet \/ UNCHANGED vars PROVE traffic' = traffic
    BY <1>3 DEF RateStep, Quiet, vars
  <1> QED
    BY <1>1, <1>2, <1>3 DEF Next, WorkerMove

LEMMA HasClient ==
  ASSUME PlaceTypeOK, Places, NEW r \in Request, worker[r] # "idle"
  PROVE  /\ r \in DOMAIN traffic /\ ClientOf(r) \in Client
         /\ Http2(r) \in BOOLEAN
  <1>1. r \in DOMAIN traffic /\ traffic \in Traffic
    BY DEF PlaceTypeOK, Places
  <1>2. traffic[r].client \in Client /\ traffic[r].http2 \in BOOLEAN
    BY <1>1
  <1> QED
    BY <1>1, <1>2 DEF ClientOf, Http2

LEMMA ClientTypes ==
  ASSUME PlaceTypeOK, NEW r, ClientOf(r) \in Client
  PROVE  /\ \A n \in Int : [refs_ EXCEPT ![ClientOf(r)] = @ + n] \in [Client -> Int]
         /\ [refs_ EXCEPT ![ClientOf(r)] = @ - 1] \in [Client -> Int]
         /\ UseClient(r) => /\ refs_' \in [Client -> Int] /\ misused' \subseteq Client
                            /\ hungup' \subseteq Client /\ reread' \subseteq Client
         /\ GiveBack(r) => refs_' \in [Client -> Int] /\ misused' \subseteq Client
  BY DEF PlaceTypeOK, UseClient, GiveBack, Touch

LEMMA PlaceTypeStep ==
  ASSUME PlaceTypeOK, Places, [Next]_vars
  PROVE  PlaceTypeOK'
  <1> USE DEF PlaceTypeOK, GoWorker, GoHandler
  <1> USE DEF writeVars, clientVars, placeVars
  <1>1. ASSUME NEW r \in Request, Handle(r) PROVE PlaceTypeOK'
    <2>1. ClientOf(r) \in Client
      BY <1>1 DEF Handle, ClientOf
    <2>2. /\ refs_' \in [Client -> Int] /\ reread' \subseteq Client
          /\ worker' \in [Request -> {"idle", "handle", "release", "save", "write",
                                      "again", "read", "edge", "gone"}]
      <3>1. CASE ReadByWorker(r) BY <2>1, <3>1 DEF ReadByWorker, TakeUp
      <3>2. CASE ReadByReader(r)
        <4>1. PICK q \in Request : worker' = [worker EXCEPT ![r] = "handle", ![q] = "edge"]
          BY <3>2 DEF ReadByReader
        <4>2. worker' \in [Request -> {"idle", "handle", "release", "save", "write",
                                      "again", "read", "edge", "gone"}]
          BY <4>1
        <4>3. TakeUp(r, 1) /\ reread' = reread \cup {ClientOf(r)}
          BY <3>2 DEF ReadByReader
        <4> QED BY <2>1, <4>2, <4>3 DEF TakeUp
      <3>3. CASE ReadInPacket(r)
        <4>1. PICK q \in Request : worker' = [worker EXCEPT ![r] = "handle", ![q] = "gone"]
          BY <3>3 DEF ReadInPacket
        <4>2. worker' \in [Request -> {"idle", "handle", "release", "save", "write",
                                      "again", "read", "edge", "gone"}]
          BY <4>1
        <4>3. TakeUp(r, 1) /\ reread' = reread
          BY <3>3 DEF ReadInPacket
        <4> QED BY <2>1, <4>2, <4>3 DEF TakeUp
      <3> QED BY <1>1, <3>1, <3>2, <3>3 DEF Handle
    <2>3. /\ traffic' = traffic /\ together' \subseteq Client
          /\ handler' \in [Request -> {"none", "pooled", "run", "head", "serialized", "framed", "body",
                                "frames", "sent", "closing", "post", "timing", "ended", "thrown"}]
          /\ UNCHANGED <<hungup, misused, writeVars, exited, undefined>>
      BY <1>1, <2>1 DEF Handle
    <2> QED
      BY <2>2, <2>3
  <1>2. ASSUME NEW r \in Request, WorkerMove(r) PROVE PlaceTypeOK'
    <2>c. worker[r] # "idle" => ClientOf(r) \in Client
      BY HasClient
    <2>1. CASE HandleReturns(r) BY <2>1 DEF HandleReturns, After
    <2>2. CASE ReleaseEvent(r)
      <3>1. GiveBack(r) /\ worker[r] = "release"
        BY <2>2 DEF ReleaseEvent
      <3>2. refs_' \in [Client -> Int] /\ misused' \subseteq Client
        BY <2>c, <3>1, ClientTypes
      <3> QED
        BY <2>2, <3>2 DEF ReleaseEvent
    <2>3. CASE Save(r)
      <3>1. \E place \in {"write", "release", "gone"} : GoWorker(r, place)
        BY <2>3 DEF Save, AfterSave
      <3>2. UNCHANGED <<clientVars, writeVars, exited, undefined>>
        BY <2>3 DEF Save
      <3> QED
        BY <3>1, <3>2
    <2>4. CASE SaveEnd(r) BY <2>4 DEF SaveEnd, AfterSave
    <2>5. CASE LockForRead(r) BY <2>5 DEF LockForRead
    <2>6. CASE ReturnEof(r)
      <3>1. GiveBack(r) /\ worker[r] = "read"
        BY <2>6 DEF ReturnEof
      <3>2. refs_' \in [Client -> Int] /\ misused' \subseteq Client /\ ClientOf(r) \in Client
        BY <2>c, <3>1, ClientTypes
      <3> QED
        BY <2>6, <3>2 DEF ReturnEof
    <2>7. CASE TakeEvent(r)
      <3>1. refs_' \in [Client -> Int]
        BY <2>7, <2>c, ClientTypes DEF TakeEvent, TakeUp
      <3> QED
        BY <2>7, <3>1 DEF TakeEvent
    <2> QED
      BY <1>2, <2>1, <2>2, <2>3, <2>4, <2>5, <2>6, <2>7
         DEF WorkerMove, WorkerStep, ReadEnds, Hangup
  <1>3. ASSUME NEW r \in Request, PoolRuns(r) PROVE PlaceTypeOK'
    <2>1. UNCHANGED <<worker, traffic, together, clientVars, writeVars, exited>>
      BY <1>3 DEF PoolRuns
    <2>2. handler' \in {handler, [handler EXCEPT ![r] = "run"]} /\ undefined' \in {undefined, TRUE}
      BY <1>3 DEF PoolRuns
    <2> QED
      BY <2>1, <2>2
  <1>4. ASSUME NEW r \in Request, HandlerStep(r) PROVE PlaceTypeOK'
    <2>1. handler[r] # "none" => ClientOf(r) \in Client
      BY HasClient DEF Places
    <2>2. ASSUME ClientOf(r) \in Client, Wrote(r) PROVE wire' \in [Client -> Seq(Request)]
      BY <2>2 DEF Wrote
    <2>u. ASSUME handler[r] # "none", UseClient(r)
          PROVE  /\ refs_' \in [Client -> Int] /\ misused' \subseteq Client
                 /\ hungup' \subseteq Client /\ reread' \subseteq Client
      BY <2>1, <2>u, ClientTypes
    <2>3. CASE Run(r) BY <2>3 DEF Run
    <2>4. CASE RunThrows(r) BY <2>4 DEF RunThrows, Throw
    <2>5. CASE WriteHead(r) BY <2>1, <2>2, <2>u, <2>5 DEF WriteHead
    <2>6. CASE Serialize(r)
      <3>1. /\ handler[r] = "head"
            /\ payload' = [payload EXCEPT ![ClientOf(r)] = Append(@, <<r, inserted[r] + 1>>)]
            /\ inserted' = [inserted EXCEPT ![r] = @ + 1]
            /\ handler' = [handler EXCEPT ![r] = IF inserted[r] + 1 < Inserts THEN "head" ELSE "serialized"]
            /\ UNCHANGED <<worker, traffic, together, clientVars, cookieSet, block, wire, exited, undefined>>
        BY <2>6 DEF Serialize, Inserted
      <3>2. inserted[r] + 1 \in 1 .. Inserts
        BY <3>1 DEF Places
      <3>3. payload' \in [Client -> Seq(Insertion)] /\ inserted' \in [Request -> 0 .. Inserts]
        BY <2>1, <3>1, <3>2 DEF Insertion
      <3> QED
        BY <3>1, <3>3
    <2>16. CASE FinishHeaders(r) BY <2>1, <2>16 DEF FinishHeaders
    <2>7. CASE WriteHeaders(r) BY <2>1, <2>2, <2>u, <2>7 DEF WriteHeaders
    <2>17. CASE ReadClosedFile(r) BY <2>17 DEF ReadClosedFile
    <2>8. CASE WriteBody(r) BY <2>1, <2>2, <2>u, <2>8 DEF WriteBody, AfterBuffer
    <2>9. CASE NextBuffer(r) BY <2>9 DEF NextBuffer, AfterBuffer
    <2>10. CASE WriteData(r) BY <2>10, <2>u DEF WriteData, AfterBuffer
    <2>11. CASE WriteFails(r) BY <2>11 DEF WriteFails, Throw
    <2>12. CASE ReleaseFinish(r)
      <3>1. GiveBack(r) /\ handler[r] = "sent"
        BY <2>12 DEF ReleaseFinish
      <3>2. refs_' \in [Client -> Int] /\ misused' \subseteq Client
        BY <2>1, <3>1, ClientTypes
      <3> QED
        BY <2>12, <3>2 DEF ReleaseFinish
    <2>13. CASE CloseStream(r) BY <2>13, <2>u DEF CloseStream
    <2>14. CASE PostSend(r) BY <2>14, <2>u DEF PostSend
    <2>15. CASE RecordTiming(r) BY <2>15 DEF RecordTiming
    <2> QED
      BY <1>4, <2>3, <2>4, <2>5, <2>6, <2>7, <2>8, <2>9, <2>10, <2>11, <2>12,
         <2>13, <2>14, <2>15, <2>16, <2>17 DEF HandlerStep
  <1>5. CASE RateStep BY <1>5 DEF RateStep
  <1>6. ASSUME Quiet \/ UNCHANGED vars PROVE PlaceTypeOK'
    BY <1>6 DEF Quiet, vars
  <1> QED
    BY <1>1, <1>2, <1>3, <1>4, <1>5, <1>6 DEF Next, WorkerMove

(* Where the launch leaves the handler. *)
Launched(r) ==
    IF Found(r) THEN IF PolicyOf(r) = "pool" THEN "pooled" ELSE "run" ELSE "head"

LEMMA HandleMoves ==
  ASSUME PlaceTypeOK, NEW r \in Request, Handle(r)
  PROVE  /\ Running /\ worker[r] = "idle" /\ r \in DOMAIN traffic
         /\ handler' = [handler EXCEPT ![r] = Launched(r)]
         /\ worker'[r] = "handle"
         /\ \A q \in Request \ {r} :
                \/ worker'[q] = worker[q]
                \/ worker[q] = "read" /\ worker'[q] = "edge"
                \/ worker[q] = "release" /\ Http2(q) /\ worker'[q] = "gone"
  <1>1. (CASE ~Found(r) -> "head" [] PolicyOf(r) = "pool" -> "pooled" [] OTHER -> "run")
            = Launched(r)
    <2>1. CASE ~Found(r) BY <2>1 DEF Launched, PolicyOf
    <2>2. CASE Found(r) BY <2>2 DEF Launched
    <2> QED BY <2>1, <2>2
  <1>2. /\ worker'[r] = "handle"
        /\ \A q \in Request \ {r} :
               \/ worker'[q] = worker[q]
               \/ worker[q] = "read" /\ worker'[q] = "edge"
               \/ worker[q] = "release" /\ Http2(q) /\ worker'[q] = "gone"
    <2> USE DEF PlaceTypeOK
    <2>w. worker[r] = "idle"
      BY DEF Handle
    <2>1. CASE ReadByWorker(r) BY <2>1 DEF ReadByWorker
    <2>2. CASE ReadByReader(r) BY <2>2, <2>w DEF ReadByReader
    <2>3. CASE ReadInPacket(r) BY <2>3, <2>w DEF ReadInPacket
    <2> QED
      BY <2>1, <2>2, <2>3 DEF Handle
  <1> QED
    BY <1>1, <1>2 DEF Handle

(* A worker and a handler as they move. *)
LEMMA WorkerMoves ==
  ASSUME PlaceTypeOK, NEW r \in Request, WorkerMove(r)
  PROVE  /\ Running /\ UNCHANGED handler
         /\ worker[r] \notin {"idle", "gone"}
         /\ \E place \in {"release", "save", "write", "again", "read", "gone"} :
                worker' = [worker EXCEPT ![r] = place]
  BY DEF WorkerMove, WorkerStep, HandleReturns, ReleaseEvent, Save, SaveEnd, LockForRead,
         ReadEnds, Hangup, ReturnEof, TakeEvent, GoWorker, After, AfterSave

InProgress == {"run", "head", "serialized", "framed", "body", "frames", "sent", "closing",
               "post", "timing"}

LEMMA HandlerMoves ==
  ASSUME PlaceTypeOK, NEW r \in Request, HandlerStep(r)
  PROVE  /\ Running /\ UNCHANGED worker
         /\ handler[r] \in InProgress
         /\ \E place \in InProgress \cup {"ended", "thrown"} :
                handler' = [handler EXCEPT ![r] = place]
  <1> USE DEF GoHandler, InProgress
  <1>1. ASSUME Run(r) \/ RunThrows(r) \/ WriteHead(r) \/ Serialize(r) \/ FinishHeaders(r) \/ WriteHeaders(r)
        PROVE  /\ Running /\ UNCHANGED worker
               /\ handler[r] \in InProgress
               /\ \E place \in InProgress \cup {"ended", "thrown"} :
                      handler' = [handler EXCEPT ![r] = place]
    BY <1>1 DEF Run, RunThrows, Throw, WriteHead, Serialize, Inserted, FinishHeaders, WriteHeaders
  <1>4. CASE ReadClosedFile(r)
    <2>1. Running /\ UNCHANGED <<worker, handler>> /\ handler[r] = "body"
      BY <1>4 DEF ReadClosedFile, placeVars
    <2>2. handler' = [handler EXCEPT ![r] = "body"]
      BY <2>1 DEF PlaceTypeOK
    <2> QED
      BY <2>1, <2>2
  <1>2. ASSUME WriteBody(r) \/ NextBuffer(r) \/ WriteData(r) \/ WriteFails(r)
        PROVE  /\ Running /\ UNCHANGED worker
               /\ handler[r] \in InProgress
               /\ \E place \in InProgress \cup {"ended", "thrown"} :
                      handler' = [handler EXCEPT ![r] = place]
    BY <1>2 DEF WriteBody, NextBuffer, WriteData, WriteFails, Throw, AfterBuffer
  <1>3. ASSUME ReleaseFinish(r) \/ CloseStream(r) \/ PostSend(r) \/ RecordTiming(r)
        PROVE  /\ Running /\ UNCHANGED worker
               /\ handler[r] \in InProgress
               /\ \E place \in InProgress \cup {"ended", "thrown"} :
                      handler' = [handler EXCEPT ![r] = place]
    BY <1>3 DEF ReleaseFinish, CloseStream, PostSend, RecordTiming
  <1> QED
    BY <1>1, <1>2, <1>3, <1>4 DEF HandlerStep

(* What a handler inserts, before its headers are taken. *)
LEMMA HandlerInserts ==
  ASSUME PlaceTypeOK, NEW r \in Request, HandlerStep(r)
  PROVE  /\ handler'[r] \notin {"none", "pooled", "run"}
         /\ \/ inserted' = inserted /\ (handler'[r] = "head" => handler[r] = "run")
            \/ /\ inserted' = [inserted EXCEPT ![r] = @ + 1]
               /\ handler[r] = "head"
               /\ handler'[r] = "head" => inserted[r] + 1 < Inserts
  <1> USE DEF PlaceTypeOK, GoHandler, writeVars
  <1>1. CASE Serialize(r) BY <1>1 DEF Serialize, Inserted
  <1>2. ASSUME Run(r) \/ RunThrows(r) \/ WriteFails(r)
        PROVE  /\ inserted' = inserted /\ handler'[r] \in {"head", "thrown"}
               /\ handler'[r] = "head" => handler[r] = "run"
    BY <1>2 DEF Run, RunThrows, WriteFails, Throw
  <1>3. ASSUME WriteHead(r) \/ FinishHeaders(r) \/ WriteHeaders(r)
        PROVE  inserted' = inserted /\ handler'[r] \in {"framed", "body"}
    BY <1>3 DEF WriteHead, FinishHeaders, WriteHeaders
  <1>4. CASE ReadClosedFile(r)
    BY <1>4 DEF ReadClosedFile, placeVars
  <1>5. ASSUME WriteBody(r) \/ NextBuffer(r) \/ WriteData(r)
        PROVE  inserted' = inserted /\ handler'[r] \in {"body", "frames", "sent"}
    BY <1>5 DEF WriteBody, NextBuffer, WriteData, AfterBuffer
  <1>6. ASSUME ReleaseFinish(r) \/ CloseStream(r) \/ PostSend(r) \/ RecordTiming(r)
        PROVE  inserted' = inserted /\ handler'[r] \in {"closing", "post", "timing", "ended"}
    BY <1>6 DEF ReleaseFinish, CloseStream, PostSend, RecordTiming
  <1> QED
    BY <1>1, <1>2, <1>3, <1>4, <1>5, <1>6 DEF HandlerStep

LEMMA PlacesStep ==
  ASSUME PlaceTypeOK, Places, [Next]_vars
  PROVE  Places'
  <1>t. traffic' = traffic
    BY TrafficKept
  <1> USE <1>t DEF PlaceTypeOK, Places, Unsaved, Http2
  <1>1. ASSUME NEW r \in Request, Handle(r) PROVE Places'
    <2>1. /\ handler' = [handler EXCEPT ![r] = Launched(r)] /\ worker'[r] = "handle"
          /\ r \in DOMAIN traffic /\ worker[r] = "idle"
          /\ \A q \in Request \ {r} :
                 \/ worker'[q] = worker[q]
                 \/ worker[q] = "read" /\ worker'[q] = "edge"
                 \/ worker[q] = "release" /\ Http2(q) /\ worker'[q] = "gone"
      BY <1>1, HandleMoves
    <2>2. alive' = alive \cup {r} /\ UNCHANGED inserted
      BY <1>1 DEF Handle, Load, writeVars
    <2> QED
      BY <2>1, <2>2 DEF Launched
  <1>2. ASSUME NEW r \in Request, WorkerMove(r) PROVE Places'
    <2> USE DEF GoWorker, writeVars
    <2>1. CASE HandleReturns(r) BY <2>1 DEF HandleReturns, After, sessionVars
    <2>2. CASE ReleaseEvent(r) BY <2>2 DEF ReleaseEvent, sessionVars
    <2>3. CASE Save(r) BY <2>3 DEF Save, RemoveFile, Truncate, AfterSave
    <2>4. CASE SaveEnd(r) BY <2>4 DEF SaveEnd, Write, AfterSave
    <2>5. CASE LockForRead(r) BY <2>5 DEF LockForRead, sessionVars
    <2>6. CASE ReturnEof(r) BY <2>6 DEF ReturnEof, sessionVars
    <2>7. CASE TakeEvent(r) BY <2>7 DEF TakeEvent, sessionVars
    <2> QED
      BY <1>2, <2>1, <2>2, <2>3, <2>4, <2>5, <2>6, <2>7
         DEF WorkerMove, WorkerStep, ReadEnds, Hangup
  <1>3. ASSUME NEW r \in Request, PoolRuns(r) PROVE Places'
    <2>1. UNCHANGED <<worker, alive, inserted>>
      BY <1>3 DEF PoolRuns, GoHandler, placeVars, sessionVars, writeVars
    <2>2. handler[r] = "pooled" /\ handler' \in {handler, [handler EXCEPT ![r] = "run"]}
      BY <1>3 DEF PoolRuns, GoHandler, placeVars
    <2> QED
      BY <2>1, <2>2
  <1>4. ASSUME NEW r \in Request, HandlerStep(r) PROVE Places'
    <2>1. /\ UNCHANGED worker /\ handler[r] \in InProgress
          /\ \E place \in InProgress \cup {"ended", "thrown"} :
                 handler' = [handler EXCEPT ![r] = place]
      BY <1>4, HandlerMoves
    <2>2. UNCHANGED alive
      BY <1>4 DEF HandlerStep, Run, RunThrows, WriteHead, Serialize, Inserted, FinishHeaders, WriteHeaders,
                ReadClosedFile, WriteBody, NextBuffer, WriteData, WriteFails, ReleaseFinish,
                  CloseStream, PostSend, RecordTiming, Throw, CutOff, SetValue,
                  sessionVars
    <2>3. /\ handler'[r] \notin {"none", "pooled", "run"}
          /\ \/ inserted' = inserted /\ (handler'[r] = "head" => handler[r] = "run")
             \/ /\ inserted' = [inserted EXCEPT ![r] = @ + 1]
                /\ handler[r] = "head"
                /\ handler'[r] = "head" => inserted[r] + 1 < Inserts
      BY <1>4, HandlerInserts
    <2>4. ASSUME NEW q \in Request
          PROVE  /\ handler'[q] \in {"none", "pooled", "run"} => inserted'[q] = 0
                 /\ handler'[q] = "head" => inserted'[q] < Inserts
      <3>1. CASE q = r
        BY <2>1, <2>3, <3>1
      <3>2. CASE q # r
        BY <2>1, <2>3, <3>2
      <3> QED
        BY <3>1, <3>2
    <2>5. ASSUME NEW q \in Request
          PROVE  /\ worker'[q] = "idle" <=> handler'[q] = "none"
                 /\ worker'[q] # "idle" => q \in DOMAIN traffic
                 /\ worker'[q] = "idle" => q \notin alive'
                 /\ Unsaved(q)' => q \in alive'
      BY <2>1, <2>2 DEF InProgress
    <2> QED
      BY <2>4, <2>5
  <1>5. ASSUME RateStep \/ Quiet \/ UNCHANGED vars
        PROVE  UNCHANGED <<worker, handler, alive, inserted>>
    BY <1>5 DEF RateStep, Quiet, vars, placeVars, sessionVars, writeVars
  <1>6. CASE UNCHANGED <<worker, handler, alive, inserted>>
    BY <1>6
  <1> QED
    BY <1>1, <1>2, <1>3, <1>4, <1>5, <1>6 DEF Next, WorkerMove

-----------------------------------------------------------------------------
(* Types of the parts.                                                     *)

LEMMA ReadBackType ==
  ASSUME NEW entries \in SUBSET Entry
  PROVE  ReadBack(entries) \subseteq Entry
  BY DEF ReadBack, Entry, Settable

LEMMA SessionTypeStep ==
  ASSUME SessionTypeOK, NEW r \in Request, SessionStep(r),
         Truncate(r) => r \in alive
  PROVE  SessionTypeOK'
  <1> USE DEF SessionTypeOK
  <1>1. CASE UNCHANGED sessionVars BY <1>1 DEF sessionVars
  <1>2. CASE Load(r, traffic[r].cookie)
    <2>1. SessionOf(r, traffic[r].cookie) \in Id
      BY DEF SessionOf, Id
    <2>2. \A s \in Id : ReadBack(files[s]) \subseteq Entry
      BY ReadBackType
    <2> QED
      BY <1>2, <2>1, <2>2 DEF Load
  <1>3. ASSUME NEW text \in Settable, SetValue(r, text) PROVE SessionTypeOK'
    <2>1. <<r, text>> \in Entry
      BY DEF Entry
    <2> QED
      BY <1>3, <2>1 DEF SetValue
  <1>4. CASE RemoveFile(r) BY <1>4 DEF RemoveFile
  <1>5. CASE Truncate(r) BY <1>5 DEF Truncate
  <1>6. CASE Write(r) BY <1>6 DEF Write
  <1>7. CASE CutOff BY <1>7 DEF CutOff
  <1> QED
    BY <1>1, <1>2, <1>3, <1>4, <1>5, <1>6, <1>7 DEF SessionStep

(* With the types of the sequences, which OdinTypeOK leaves open. *)
RecordTypeOK ==
    /\ OdinTypeOK
    /\ ring_buffer_ \in Seq(Request)
    /\ timings_ \in [0 .. Timings - 1 -> Request \cup {NoTiming}]

LEMMA RingStep ==
  ASSUME NEW r \in Request, PushRing(r), ring_buffer_ \in Seq(Request),
         Len(ring_buffer_) <= RingSize
  PROVE  /\ ring_buffer_' \in Seq(Request)
         /\ Len(ring_buffer_') = IF Len(ring_buffer_) < RingSize
                                 THEN Len(ring_buffer_) + 1 ELSE RingSize
         /\ ring_buffer_'[1] = r
         /\ \A i \in 2 .. Len(ring_buffer_') : ring_buffer_'[i] = ring_buffer_[i - 1]
  <1> DEFINE ring == <<r>> \o ring_buffer_
  <1>1. /\ ring \in Seq(Request) /\ Len(ring) = Len(ring_buffer_) + 1
        /\ ring[1] = r
        /\ \A i \in 2 .. Len(ring) : ring[i] = ring_buffer_[i - 1]
    OBVIOUS
  <1>2. ring_buffer_' = IF Len(ring) > RingSize THEN Front(ring) ELSE ring
    BY DEF PushRing
  <1> HIDE DEF ring
  <1>3. CASE Len(ring) > RingSize
    <2>1. /\ Front(ring) \in Seq(Request) /\ Len(Front(ring)) = Len(ring) - 1
          /\ \A i \in 1 .. Len(ring) - 1 : Front(ring)[i] = ring[i]
      BY <1>1, <1>3 DEF Front
    <2>2. Len(ring) - 1 = RingSize /\ RingSize >= 1
      BY <1>1, <1>3
    <2> QED
      BY <1>1, <1>2, <1>3, <2>1, <2>2
  <1>4. CASE ~(Len(ring) > RingSize)
    BY <1>1, <1>2, <1>4
  <1> QED
    BY <1>3, <1>4

LEMMA RecordTypeStep ==
  ASSUME RecordTypeOK, NEW r \in Request, OdinStep(r)
  PROVE  RecordTypeOK'
  <1> USE DEF RecordTypeOK, OdinTypeOK, countVars, recordVars
  <1>1. CASE UNCHANGED odinVars BY <1>1 DEF odinVars
  <1>2. CASE Count(IsAdmin(r)) BY <1>2 DEF Count
  <1>3. CASE CountStatus(IsAdmin(r), Endpoints[EndpointOf(r)].status)
    BY <1>3 DEF CountStatus
  <1>4. CASE PushRing(r) BY <1>4, RingStep DEF PushRing
  <1>5. CASE PushTiming(r, {q \in Request : handler[q] = "timing"})
    <2>1. (timing_idx_ + 1) % Timings \in 0 .. Timings - 1
      OBVIOUS
    <2> QED
      BY <1>5, <2>1 DEF PushTiming
  <1> QED
    BY <1>1, <1>2, <1>3, <1>4, <1>5 DEF OdinStep

LEMMA RecordTypeRate ==
  ASSUME RecordTypeOK, ReadCount \/ ResetCount
  PROVE  RecordTypeOK'
  <1> USE DEF RecordTypeOK, OdinTypeOK, recordVars
  <1>1. CASE ReadCount BY <1>1 DEF ReadCount
  <1>2. CASE ResetCount BY <1>2 DEF ResetCount
  <1> QED
    BY <1>1, <1>2

-----------------------------------------------------------------------------
(* find_endpoint returns an endpoint, or none.                             *)

LEMMA EndpointIsOne ==
  ASSUME NEW r
  PROVE  EndpointOf(r) \in {0} \cup DOMAIN Endpoints
  <1> DEFINE M == Matching(traffic[r])
  <1>1. M \subseteq DOMAIN Endpoints /\ M \in SUBSET Nat
    BY DEF Matching
  <1>2. CASE M = {}
    BY <1>2 DEF EndpointOf, FindEndpoint
  <1>3. CASE M # {}
    <2>1. \E i \in M : \A j \in M : i <= j
      BY <1>1, <1>3, LeastNatural
    <2>2. (CHOOSE i \in M : \A j \in M : i <= j) \in M
      BY <2>1
    <2> QED
      BY <1>1, <1>3, <2>2 DEF EndpointOf, FindEndpoint
  <1> QED
    BY <1>2, <1>3

(* Handlers and the hooks after them run for endpoints only. *)
ForEndpoints ==
    \A r \in Request : handler[r] \in {"pooled", "run", "post", "timing"} => Found(r)

LEMMA FoundKept == ASSUME traffic' = traffic, NEW r PROVE Found(r)' = Found(r)
  BY DEF Found, EndpointOf, FindEndpoint, Matching

LEMMA ForEndpointsStep ==
  ASSUME PlaceTypeOK, Places, ForEndpoints, [Next]_vars
  PROVE  ForEndpoints'
  <1>t. \A r : Found(r)' = Found(r)
    BY TrafficKept, FoundKept
  <1> USE <1>t DEF PlaceTypeOK, ForEndpoints
  <1>1. ASSUME NEW r \in Request, Handle(r) PROVE ForEndpoints'
    <2>1. handler' = [handler EXCEPT ![r] = Launched(r)]
      BY <1>1, HandleMoves
    <2> QED
      BY <2>1 DEF Launched
  <1>2. ASSUME NEW r \in Request, WorkerMove(r) PROVE ForEndpoints'
    BY <1>2, WorkerMoves
  <1>3. ASSUME NEW r \in Request, PoolRuns(r) PROVE ForEndpoints'
    BY <1>3 DEF PoolRuns, GoHandler, placeVars
  <1>4. ASSUME NEW r \in Request, HandlerStep(r) PROVE ForEndpoints'
    <2>1. /\ UNCHANGED worker /\ handler[r] \in InProgress
          /\ \E place \in InProgress \cup {"ended", "thrown"} :
                 handler' = [handler EXCEPT ![r] = place]
      BY <1>4, HandlerMoves
    <2>2. /\ handler'[r] \notin {"pooled", "run"}
          /\ handler'[r] \in {"post", "timing"} => Found(r)
      <3> USE DEF GoHandler, InProgress
      <3>1. CASE ReleaseFinish(r) BY <2>1, <3>1 DEF ReleaseFinish
      <3>2. CASE CloseStream(r) BY <2>1, <3>2 DEF CloseStream
      <3>3. CASE PostSend(r) BY <2>1, <3>3 DEF PostSend
      <3>4. ASSUME WriteBody(r) \/ NextBuffer(r) \/ WriteData(r)
            PROVE  handler'[r] \in {"body", "frames", "sent"}
        BY <2>1, <3>4 DEF WriteBody, NextBuffer, WriteData, AfterBuffer
      <3>6. CASE ReadClosedFile(r)
        BY <2>1, <3>6 DEF ReadClosedFile, placeVars
      <3>5. ASSUME Run(r) \/ RunThrows(r) \/ WriteHead(r) \/ Serialize(r) \/ FinishHeaders(r)
                   \/ WriteHeaders(r) \/ WriteFails(r) \/ RecordTiming(r)
            PROVE  handler'[r] \in {"head", "thrown", "body", "serialized", "framed", "ended"}
        BY <2>1, <3>5 DEF Run, RunThrows, WriteHead, Serialize, Inserted, FinishHeaders, WriteHeaders,
                          WriteFails, RecordTiming, Throw
      <3> QED
        BY <1>4, <3>1, <3>2, <3>3, <3>4, <3>5, <3>6 DEF HandlerStep
    <2> QED
      BY <2>1, <2>2
  <1>5. ASSUME RateStep \/ Quiet \/ UNCHANGED vars
        PROVE  UNCHANGED handler
    BY <1>5 DEF RateStep, Quiet, vars, placeVars
  <1>6. CASE UNCHANGED handler
    BY <1>6
  <1> QED
    BY <1>1, <1>2, <1>3, <1>4, <1>5, <1>6 DEF Next, WorkerMove

(* What a handler sets, and responds, has the type of the endpoint's fields. *)
LEMMA SessionSteps ==
  ASSUME ForEndpoints, NEW r \in Request,
         Handle(r) \/ WorkerMove(r) \/ PoolRuns(r) \/ HandlerStep(r)
  PROVE  SessionStep(r)
  <1>1. CASE Handle(r) BY <1>1 DEF Handle, SessionStep
  <1>2. CASE WorkerMove(r)
    BY <1>2 DEF WorkerMove, WorkerStep, HandleReturns, ReleaseEvent, Save, SaveEnd,
                LockForRead, ReadEnds, Hangup, ReturnEof, TakeEvent, SessionStep
  <1>3. CASE PoolRuns(r) BY <1>3 DEF PoolRuns, SessionStep
  <1>4. CASE Run(r)
    <2>1. EndpointOf(r) \in DOMAIN Endpoints
      BY <1>4, EndpointIsOne DEF Run, ForEndpoints, Found
    <2>2. Endpoints[EndpointOf(r)].sets \in {"none"} \cup Settable
      BY <2>1
    <2> QED
      BY <1>4, <2>2 DEF Run, SessionStep
  <1>5. CASE HandlerStep(r) /\ ~Run(r)
    BY <1>5 DEF HandlerStep, RunThrows, WriteHead, Serialize, Inserted, FinishHeaders,
                WriteHeaders, ReadClosedFile, WriteBody, NextBuffer, WriteData, WriteFails,
                ReleaseFinish, CloseStream, PostSend, RecordTiming, Throw, SessionStep
  <1> QED
    BY <1>1, <1>2, <1>3, <1>4, <1>5

LEMMA StreamSteps ==
  ASSUME ForEndpoints, NEW r \in Request,
         Handle(r) \/ WorkerMove(r) \/ PoolRuns(r) \/ HandlerStep(r)
  PROVE  StreamStep(r)
  <1>1. CASE Handle(r)
    <2>1. <<Body(1)>> \in Seq(Buffers) /\ NoFile \in Nat \cup {NoFile}
      BY DEF Body, Buffer, Buffers
    <2> QED
      BY <1>1, <2>1 DEF Handle, StreamStep
  <1>2. CASE WorkerMove(r)
    BY <1>2 DEF WorkerMove, WorkerStep, HandleReturns, ReleaseEvent, Save,
                SaveEnd, LockForRead, ReadEnds, Hangup, ReturnEof, TakeEvent, StreamStep
  <1>3. CASE PoolRuns(r) BY <1>3 DEF PoolRuns, StreamStep
  <1>4. CASE Run(r)
    <2>1. EndpointOf(r) \in DOMAIN Endpoints
      BY <1>4, EndpointIsOne DEF Run, ForEndpoints, Found
    <2>2. /\ Endpoints[EndpointOf(r)].streams \in Seq(Buffers)
          /\ Endpoints[EndpointOf(r)].file \in Nat \cup {NoFile}
      BY <2>1 DEF Buffers
    <2> QED
      BY <1>4, <2>2 DEF Run, StreamStep
  <1>5. CASE HandlerStep(r) /\ ~Run(r)
    BY <1>5 DEF HandlerStep, RunThrows, WriteHead, Serialize, Inserted, FinishHeaders, WriteHeaders,
                ReadClosedFile, WriteBody, NextBuffer, WriteData, WriteFails, ReleaseFinish,
                CloseStream, PostSend, RecordTiming, StreamStep
  <1> QED
    BY <1>1, <1>2, <1>3, <1>4, <1>5 DEF HandlerStep

-----------------------------------------------------------------------------
(* With the types of the sequences, and what a suffix is. *)
Ends(t, s) ==
    /\ Len(t) <= Len(s)
    /\ \A i \in 1 .. Len(t) : t[i] = s[Len(s) - Len(t) + i]

StreamTyped ==
    /\ channel \in [Request -> Seq(Buffers)] /\ streamed \in [Request -> Seq(Buffers)]
    /\ unread \in [Request -> Nat \cup {NoFile, Closed}]
    /\ buf \in [Request -> Buffers] /\ offset \in [Request -> Nat]
    /\ sent \in [Request -> Seq([len : Nat, end : BOOLEAN])]
    /\ \A r \in Request : offset[r] <= buf[r].len /\ Ends(channel[r], streamed[r])

LEMMA EndsIsSuffix ==
  ASSUME NEW S, NEW s \in Seq(S), NEW t \in Seq(S), Ends(t, s)
  PROVE  IsSuffix(t, s)
  <1>1. /\ Reverse(s) \in Seq(S) /\ Len(Reverse(s)) = Len(s)
        /\ \A i \in 1 .. Len(s) : Reverse(s)[i] = s[Len(s) - i + 1]
    BY DEF Reverse
  <1>2. /\ Reverse(t) \in Seq(S) /\ Len(Reverse(t)) = Len(t)
        /\ \A i \in 1 .. Len(t) : Reverse(t)[i] = t[Len(t) - i + 1]
    BY DEF Reverse
  <1>3. \A i \in 1 .. Len(t) : Reverse(t)[i] = Reverse(s)[i]
    <2> TAKE i \in 1 .. Len(t)
    <2>1. Len(t) - i + 1 \in 1 .. Len(t) /\ i \in 1 .. Len(s)
      BY DEF Ends
    <2>2. t[Len(t) - i + 1] = s[Len(s) - Len(t) + (Len(t) - i + 1)]
      BY <2>1 DEF Ends
    <2>3. Len(s) - Len(t) + (Len(t) - i + 1) = Len(s) - i + 1
      BY <2>1
    <2> QED
      BY <1>1, <1>2, <2>1, <2>2, <2>3
  <1> DEFINE p == SubSeq(Reverse(t), 1, Len(t))
             q == SubSeq(Reverse(s), 1, Len(t))
  <1>4. /\ p \in Seq(S) /\ Len(p) = Len(t)
        /\ \A i \in 1 .. Len(t) : p[i] = Reverse(t)[i]
    BY <1>2, SubSeqProperties
  <1>5. /\ q \in Seq(S) /\ Len(q) = Len(t)
        /\ \A i \in 1 .. Len(t) : q[i] = Reverse(s)[i]
    BY <1>1, SubSeqProperties DEF Ends
  <1>6. p = q
    BY <1>3, <1>4, <1>5, SeqEqual
  <1> QED
    BY <1>1, <1>2, <1>6 DEF IsSuffix, IsPrefix, Ends

(* Taking the first of what was streamed and triggered leaves a suffix. *)
LEMMA TakeEnds ==
  ASSUME NEW S, NEW s \in Seq(S), NEW c \in Seq(S), NEW t \in Seq(S),
         Ends(c, s), Len(t) >= Len(c), t # << >>,
         \A i \in 1 .. Len(c) : t[i] = c[i]
  PROVE  /\ s \o SubSeq(t, Len(c) + 1, Len(t)) \in Seq(S)
         /\ Ends(Tail(t), s \o SubSeq(t, Len(c) + 1, Len(t)))
  <1> DEFINE more == SubSeq(t, Len(c) + 1, Len(t))
             all == s \o more
  <1>1. /\ more \in Seq(S) /\ Len(more) = Len(t) - Len(c)
        /\ \A i \in 1 .. Len(t) - Len(c) : more[i] = t[Len(c) + i]
    <2>1. Len(c) + 1 \in 1 .. Len(t) + 1 /\ Len(t) \in Nat
      OBVIOUS
    <2> QED
      BY <2>1, SubSeqProperties
  <1>2. /\ all \in Seq(S) /\ Len(all) = Len(s) + Len(t) - Len(c)
        /\ \A i \in 1 .. Len(s) : all[i] = s[i]
        /\ \A i \in 1 .. Len(t) - Len(c) : all[Len(s) + i] = t[Len(c) + i]
    <2> HIDE DEF more
    <2>1. /\ all \in Seq(S) /\ Len(all) = Len(s) + Len(more)
          /\ \A i \in 1 .. Len(s) : all[i] = s[i]
      <3>1. Len(more) \in Nat /\ Len(s) \in Nat
        BY <1>1
      <3>2. /\ all \in Seq(S) /\ Len(all) = Len(s) + Len(more)
            /\ \A i \in 1 .. Len(s) + Len(more) :
                   all[i] = IF i <= Len(s) THEN s[i] ELSE more[i - Len(s)]
        <4>1. more \in Seq(S)
          BY <1>1
        <4> QED
          BY <4>1, ConcatProperties
      <3> QED
        BY <3>1, <3>2
    <2>2. ASSUME NEW i \in 1 .. Len(t) - Len(c) PROVE all[Len(s) + i] = more[i]
      <3>1. Len(s) + i \in 1 .. Len(s) + Len(more) /\ ~(Len(s) + i <= Len(s))
            /\ (Len(s) + i) - Len(s) = i
        BY <1>1
      <3> QED
        BY <1>1, <3>1
    <2> QED
      BY <1>1, <2>1, <2>2
  <1>3. /\ Tail(t) \in Seq(S) /\ Len(Tail(t)) = Len(t) - 1
        /\ \A i \in 1 .. Len(t) - 1 : Tail(t)[i] = t[i + 1]
    OBVIOUS
  <1> HIDE DEF all
  <1> DEFINE d == Len(all) - Len(Tail(t))
  <1>4. /\ d = Len(s) - Len(c) + 1 /\ d \in Nat /\ Len(c) <= Len(s)
        /\ Len(c) \in Nat /\ Len(s) \in Nat /\ Len(t) \in Nat
    BY <1>2, <1>3 DEF Ends
  <1> HIDE DEF d
  <1>5. ASSUME NEW i \in 1 .. Len(t) - 1 PROVE Tail(t)[i] = all[d + i]
    <2>1. CASE i + 1 <= Len(c)
      <3>1. i + 1 \in 1 .. Len(c)
        BY <2>1
      <3>2. t[i + 1] = s[Len(s) - Len(c) + (i + 1)]
        BY <3>1 DEF Ends
      <3>3. d + i = Len(s) - Len(c) + (i + 1) /\ d + i \in 1 .. Len(s)
        BY <1>4, <3>1
      <3> QED
        BY <1>2, <1>3, <3>2, <3>3
    <2>2. CASE i + 1 > Len(c)
      <3>1. i + 1 - Len(c) \in 1 .. Len(t) - Len(c)
        BY <2>2
      <3>2. all[Len(s) + (i + 1 - Len(c))] = t[Len(c) + (i + 1 - Len(c))]
        BY <1>2, <3>1
      <3>3. d + i = Len(s) + (i + 1 - Len(c)) /\ Len(c) + (i + 1 - Len(c)) = i + 1
        BY <1>4
      <3> QED
        BY <1>3, <3>2, <3>3
    <2> QED
      BY <2>1, <2>2
  <1>6. Len(Tail(t)) <= Len(all)
    BY <1>4, <1>2, <1>3
  <1>7. Ends(Tail(t), all)
    BY <1>3, <1>5, <1>6 DEF Ends, d
  <1> QED
    BY <1>2, <1>7 DEF all, more

LEMMA TriggeredType ==
  ASSUME StreamTyped, NEW r \in Request
  PROVE  /\ Triggered(r) \in Seq(Buffers)
         /\ Len(Triggered(r)) >= Len(channel[r])
         /\ \A i \in 1 .. Len(channel[r]) : Triggered(r)[i] = channel[r][i]
         /\ Triggered(r) # << >> => Head(Triggered(r)) \in Buffers
  <1>1. channel[r] \in Seq(Buffers) /\ unread[r] \in Nat \cup {NoFile, Closed}
    BY DEF StreamTyped
  <1>2. ChunkOf(unread[r]) \in Seq(Buffers)
    <2>1. \A n \in Nat : Body(n) \in Buffers /\ Stream(n) \in Buffers
      BY DEF Body, Stream, Buffer, Buffers
    <2>2. CASE unread[r] \in {NoFile, Closed}
      BY <2>2 DEF ChunkOf, NoFile, Closed
    <2>3. CASE unread[r] \in Nat
      <3>1. Body(unread[r]) \in Buffers /\ Stream(ChunkSize) \in Buffers /\ ~(unread[r] < 0)
        BY <2>1, <2>3
      <3> QED
        BY <3>1 DEF ChunkOf
    <2> QED
      BY <1>1, <2>2, <2>3
  <1> DEFINE c == channel[r]
             k == ChunkOf(unread[r])
  <1>3. Triggered(r) = c \o k
    BY DEF Triggered
  <1> HIDE DEF c, k
  <1>4. /\ c \o k \in Seq(Buffers) /\ Len(c \o k) >= Len(c)
        /\ \A i \in 1 .. Len(c) : (c \o k)[i] = c[i]
        /\ c \o k # << >> => Head(c \o k) \in Buffers
    <2>1. c \in Seq(Buffers) /\ k \in Seq(Buffers)
      BY <1>1, <1>2 DEF c, k
    <2> QED
      BY <2>1, ConcatProperties
  <1> QED
    BY <1>3, <1>4 DEF c

LEMMA TakeStep ==
  ASSUME StreamTyped, NEW r \in Request, TakeBuffer(r)
  PROVE  /\ channel' \in [Request -> Seq(Buffers)] /\ streamed' \in [Request -> Seq(Buffers)]
         /\ unread' \in [Request -> Nat \cup {NoFile, Closed}]
         /\ \A q \in Request : Ends(channel[q], streamed[q])'
         /\ Head(Triggered(r)) \in Buffers
  <1> DEFINE t == Triggered(r)
             all == streamed[r] \o SubSeq(t, Len(channel[r]) + 1, Len(t))
  <1>1. /\ t \in Seq(Buffers) /\ t # << >> /\ Len(t) >= Len(channel[r])
        /\ \A i \in 1 .. Len(channel[r]) : t[i] = channel[r][i]
        /\ Head(t) \in Buffers
    BY TriggeredType DEF TakeBuffer, Starved
  <1>2. Ends(channel[r], streamed[r]) /\ channel[r] \in Seq(Buffers) /\ streamed[r] \in Seq(Buffers)
    BY DEF StreamTyped
  <1>3. channel' = [channel EXCEPT ![r] = Tail(t)] /\ streamed' = [streamed EXCEPT ![r] = all]
        /\ unread' = [unread EXCEPT ![r] = IF @ = NoFile THEN NoFile
                                           ELSE IF @ < ChunkSize THEN Closed ELSE @ - ChunkSize]
        /\ unread[r] # Closed
    BY DEF TakeBuffer, ReadsClosed
  <1> HIDE DEF t
  <1>4. all \in Seq(Buffers) /\ Ends(Tail(t), all) /\ Tail(t) \in Seq(Buffers)
    <2>1. Tail(t) \in Seq(Buffers)
      BY <1>1
    <2> QED
      BY <1>1, <1>2, <2>1, TakeEnds, Zenon
  <1> HIDE DEF all
  <1>5. channel' \in [Request -> Seq(Buffers)] /\ streamed' \in [Request -> Seq(Buffers)]
    BY <1>3, <1>4 DEF StreamTyped
  <1>6. unread' \in [Request -> Nat \cup {NoFile, Closed}]
    <2>1. unread \in [Request -> Nat \cup {NoFile, Closed}]
      BY DEF StreamTyped
    <2>2. (IF unread[r] = NoFile THEN NoFile
           ELSE IF unread[r] < ChunkSize THEN Closed ELSE unread[r] - ChunkSize)
              \in Nat \cup {NoFile, Closed}
      BY <1>3, <2>1
    <2> QED
      BY <1>3, <2>1, <2>2
  <1>7. ASSUME NEW q \in Request PROVE Ends(channel'[q], streamed'[q])
    <2>1. CASE q = r
      BY <1>3, <1>4, <2>1 DEF StreamTyped
    <2>2. CASE q # r
      BY <1>3, <2>2 DEF StreamTyped
    <2> QED
      BY <2>1, <2>2
  <1>8. \A q \in Request : Ends(channel[q], streamed[q])'
    BY <1>7 DEF Ends
  <1> QED
    BY <1>1, <1>5, <1>6, <1>8 DEF t

LEMMA StreamTypeStep ==
  ASSUME StreamTyped, NEW r \in Request, StreamStep(r)
  PROVE  StreamTyped'
  <1> USE DEF Ends
  <1>1. CASE UNCHANGED streamVars
    BY <1>1 DEF streamVars, StreamTyped
  <1>2. ASSUME NEW buffers \in Seq(Buffers), NEW file \in Nat \cup {NoFile},
               Respond(r, buffers, file)
        PROVE  StreamTyped'
    BY <1>2 DEF Respond, StreamTyped
  <1>3. CASE WriteBuffer(r)
    <2>1. TakeBuffer(r) /\ UNCHANGED <<buf, offset>>
          /\ sent' = [sent EXCEPT ![r] = Append(@, [len |-> Head(Triggered(r)).len,
                                                    end |-> Head(Triggered(r)).last])]
      BY <1>3 DEF WriteBuffer, Written
    <2>2. sent' \in [Request -> Seq([len : Nat, end : BOOLEAN])]
      <3>1. Head(Triggered(r)) \in Buffers
        BY <2>1, TakeStep
      <3>2. [len |-> Head(Triggered(r)).len, end |-> Head(Triggered(r)).last]
                \in [len : Nat, end : BOOLEAN]
        BY <3>1 DEF Buffers
      <3> QED
        BY <2>1, <3>2 DEF StreamTyped
    <2> QED
      BY <2>1, <2>2, TakeStep DEF StreamTyped
  <1>4. CASE CutBuffer(r)
    <2>1. TakeBuffer(r) /\ UNCHANGED sent
          /\ buf' = [buf EXCEPT ![r] = Head(Triggered(r))] /\ offset' = [offset EXCEPT ![r] = 0]
      BY <1>4 DEF CutBuffer
    <2>2. buf' \in [Request -> Buffers] /\ offset' \in [Request -> Nat]
          /\ \A q \in Request : offset'[q] <= buf'[q].len
      <3>1. Head(Triggered(r)) \in Buffers
        BY <2>1, TakeStep
      <3>2. Head(Triggered(r)).len >= 0
        BY <3>1 DEF Buffers
      <3> QED
        BY <2>1, <3>1, <3>2 DEF StreamTyped
    <2> QED
      BY <2>1, <2>2, TakeStep DEF StreamTyped
  <1>5. CASE WriteFrame(r)
    <2> DEFINE slice == IF buf[r].len - offset[r] < FrameSize THEN buf[r].len - offset[r] ELSE FrameSize
               end == EndsStream(r, slice)
    <2>1. /\ slice \in Nat /\ offset[r] + slice <= buf[r].len /\ offset[r] + slice \in Nat
          /\ end \in BOOLEAN
      BY <1>5 DEF WriteFrame, StreamTyped, Buffers, EndsStream
    <2>2. /\ UNCHANGED <<channel, unread, buf, streamed>>
          /\ sent' = [sent EXCEPT ![r] = Append(@, [len |-> slice, end |-> end])]
          /\ offset' = [offset EXCEPT ![r] = @ + slice]
      BY <1>5 DEF WriteFrame, Written
    <2> HIDE DEF slice, end
    <2>3. sent' \in [Request -> Seq([len : Nat, end : BOOLEAN])]
      BY <2>1, <2>2 DEF StreamTyped
    <2>4. offset' \in [Request -> Nat] /\ \A q \in Request : offset'[q] <= buf[q].len
      BY <2>1, <2>2 DEF StreamTyped
    <2> QED
      BY <2>2, <2>3, <2>4 DEF StreamTyped
  <1> QED
    BY <1>1, <1>2, <1>3, <1>4, <1>5 DEF StreamStep

LEMMA StreamTypes == ASSUME StreamTyped PROVE StreamTypeOK
  <1> SUFFICES ASSUME NEW r \in Request
               PROVE  /\ \A i \in DOMAIN streamed[r] :
                             streamed[r][i].len \in Nat /\ streamed[r][i].last \in BOOLEAN
                      /\ IsSuffix(channel[r], streamed[r])
                      /\ unread[r] \in Nat \cup {NoFile, Closed} /\ offset[r] \in 0 .. buf[r].len
    BY DEF StreamTypeOK
  <1>1. streamed[r] \in Seq(Buffers) /\ channel[r] \in Seq(Buffers) /\ Ends(channel[r], streamed[r])
    BY DEF StreamTyped
  <1>2. IsSuffix(channel[r], streamed[r])
    BY <1>1, EndsIsSuffix
  <1>3. \A i \in DOMAIN streamed[r] :
            streamed[r][i].len \in Nat /\ streamed[r][i].last \in BOOLEAN
    <2> TAKE i \in DOMAIN streamed[r]
    <2>1. streamed[r][i] \in Buffers
      BY <1>1
    <2> QED
      BY <2>1 DEF Buffers
  <1>4. unread[r] \in Nat \cup {NoFile, Closed} /\ offset[r] \in 0 .. buf[r].len
    BY DEF StreamTyped, Buffers
  <1> QED
    BY <1>2, <1>3, <1>4

-----------------------------------------------------------------------------
(* The invariant of which the others are corollaries. *)
Typed ==
    SessionTypeOK /\ RecordTypeOK /\ StreamTyped /\ PlaceTypeOK /\ Places /\ ForEndpoints

LEMMA TypedInit == Init => Typed
  <1> SUFFICES ASSUME Init PROVE Typed
    OBVIOUS
  <1> USE DEF Init
  <1>1. SessionTypeOK BY DEF SessionInit, SessionTypeOK, Id
  <1>2. RecordTypeOK
    <2>1. /\ 0 \in 0 .. Timings - 1 /\ 0 \in 0 .. MaxRates
          /\ [s \in StatusClass |-> 0] \in [StatusClass -> Nat] /\ Len(<< >>) <= RingSize
      OBVIOUS
    <2>2. OdinTypeOK
      BY <2>1 DEF OdinInit, OdinTypeOK
    <2> QED
      BY <2>2 DEF OdinInit, RecordTypeOK
  <1>3. StreamTyped
    <2>1. Stream(0) \in Buffers /\ Stream(0).len = 0
      BY DEF Stream, Buffer, Buffers
    <2>2. Ends(<< >>, << >>)
      BY DEF Ends
    <2>3. \A r \in Request : channel[r] = << >> /\ streamed[r] = << >>
      BY DEF StreamInit
    <2>4. \A r \in Request : Ends(channel[r], streamed[r])
      BY <2>2, <2>3
    <2>5. \A r \in Request : offset[r] <= buf[r].len
      BY <2>1 DEF StreamInit
    <2>6. /\ channel \in [Request -> Seq(Buffers)] /\ streamed \in [Request -> Seq(Buffers)]
          /\ unread \in [Request -> Nat \cup {NoFile, Closed}]
          /\ buf \in [Request -> Buffers] /\ offset \in [Request -> Nat]
          /\ sent \in [Request -> Seq([len : Nat, end : BOOLEAN])]
      BY <2>1 DEF StreamInit
    <2> QED
      BY <2>4, <2>5, <2>6, Zenon DEF StreamTyped
  <1>4. PlaceTypeOK
    <2>1. << >> \in Seq(Request) /\ << >> \in Seq(Insertion)
      OBVIOUS
    <2>2. payload \in [Client -> Seq(Insertion)] /\ block \in [Request -> Seq(Insertion)]
          /\ wire \in [Client -> Seq(Request)]
      BY <2>1
    <2>3. inserted \in [Request -> 0 .. Inserts] /\ refs_ \in [Client -> Int]
          /\ traffic \in Traffic
      OBVIOUS
    <2> QED
      BY <2>2, <2>3 DEF PlaceTypeOK
  <1>5. Places /\ ForEndpoints BY DEF Places, ForEndpoints, Unsaved, SessionInit
  <1> QED
    BY <1>1, <1>2, <1>3, <1>4, <1>5 DEF Typed

LEMMA TypedStep == Typed /\ [Next]_vars => Typed'
  <1> SUFFICES ASSUME Typed, [Next]_vars PROVE Typed'
    OBVIOUS
  <1> USE DEF Typed
  <1>1. PlaceTypeOK' /\ Places' /\ ForEndpoints'
    BY PlaceTypeStep, PlacesStep, ForEndpointsStep
  <1>2. ASSUME NEW r \in Request, Handle(r) \/ WorkerMove(r) \/ PoolRuns(r) \/ HandlerStep(r)
        PROVE  SessionTypeOK' /\ RecordTypeOK' /\ StreamTyped'
    <2>1. Truncate(r) => r \in alive
      <3>1. Truncate(r) => alive' = alive /\ r \in writing'
        BY DEF Truncate
      <3>2. CASE Handle(r)
        BY <3>1, <3>2 DEF Handle, Load
      <3>3. CASE WorkerMove(r)
        BY <3>1, <3>3 DEF WorkerMove, WorkerStep, HandleReturns, ReleaseEvent, Save,
                SaveEnd, LockForRead, ReadEnds, Hangup, ReturnEof, TakeEvent, Places,
                          Unsaved, sessionVars, SessionTypeOK
      <3>4. CASE PoolRuns(r) \/ HandlerStep(r)
        <4>1. UNCHANGED writing
          BY <3>4 DEF PoolRuns, HandlerStep, Run, RunThrows, WriteHead, Serialize, Inserted, FinishHeaders, WriteHeaders,
                ReadClosedFile, WriteBody, NextBuffer, WriteData, WriteFails,
                      ReleaseFinish, CloseStream, PostSend, RecordTiming, Throw, CutOff,
                      SetValue, sessionVars
        <4> QED
          BY <3>1, <4>1 DEF SessionTypeOK
      <3> QED
        BY <1>2, <3>2, <3>3, <3>4
    <2>2. SessionTypeOK'
      BY <1>2, <2>1, SessionSteps, SessionTypeStep
    <2>3. RecordTypeOK' /\ StreamTyped'
      BY <1>2, OdinSteps, StreamSteps, RecordTypeStep, StreamTypeStep
    <2> QED
      BY <2>2, <2>3
  <1>3. CASE RateStep
    <2>1. RecordTypeOK'
      BY <1>3, RecordTypeRate DEF RateStep
    <2>2. SessionTypeOK' /\ StreamTyped'
      BY <1>3 DEF RateStep, SessionTypeOK, sessionVars, StreamTyped, streamVars, Ends
    <2> QED
      BY <1>1, <2>1, <2>2
  <1>4. ASSUME Quiet \/ UNCHANGED vars PROVE SessionTypeOK' /\ RecordTypeOK' /\ StreamTyped'
    <2>1. UNCHANGED <<sessionVars, odinVars, streamVars>>
      BY <1>4 DEF Quiet, vars
    <2> QED
      BY <2>1 DEF SessionTypeOK, sessionVars, RecordTypeOK, OdinTypeOK, odinVars,
                  StreamTyped, streamVars, Ends
  <1> QED
    BY <1>1, <1>2, <1>3, <1>4 DEF Next, WorkerMove

(* Type correctness: what every member and history variable can hold. *)
THEOREM TypeCorrect == Spec => []TypeOK
  <1>1. Typed => TypeOK
    BY StreamTypes DEF Typed, TypeOK, RecordTypeOK, PlaceTypeOK
  <1> QED
    BY <1>1, TypedInit, TypedStep, PTL DEF Spec

-----------------------------------------------------------------------------
(* References.  A worker has that of its event until it releases it or     *)
(* goes on to the next request of the packet, and leaves handle only when  *)
(* no handler of its own is in progress; a handler has that of finish      *)
(* until the end of the callback.  So the count of a connection is the     *)
(* number of both, until a worker reads from it for the second time.       *)
HasEvent(r) ==
    \/ worker[r] \in {"handle", "release"}
    \/ worker[r] \in {"save", "write"} /\ Http2(r)

HasFinish(r) == handler[r] \notin {"none", "closing", "post", "timing", "ended"}

EventHolders(c) == {r \in DOMAIN traffic : ClientOf(r) = c /\ HasEvent(r)}
FinishHolders(c) == {r \in DOMAIN traffic : ClientOf(r) = c /\ HasFinish(r)}

Balanced(c) == refs_[c] = Cardinality(EventHolders(c)) + Cardinality(FinishHolders(c))

Waited(r) ==
    /\ handler[r] \in InProgress => worker[r] = "handle"
    /\ worker[r] = "edge" => ClientOf(r) \in reread

References ==
    ~undefined =>
        /\ misused \subseteq reread
        /\ \A r \in Request : Waited(r)
        /\ \A c \in Client \ reread : Balanced(c)

(* What is in progress, is so under the worker's handle. *)
LEMMA WorkerWaits ==
  ASSUME Typed, References, Running, NEW r \in Request, handler[r] \in InProgress
  PROVE  worker[r] = "handle" /\ r \in DOMAIN traffic /\ ClientOf(r) \in Client
         /\ Http2(r) \in BOOLEAN
  <1>1. worker[r] = "handle"
    BY DEF References, Waited, Running
  <1> QED
    BY <1>1, HasClient DEF Typed

LEMMA CardinalityStep ==
  ASSUME NEW S, NEW T, NEW x, IsFiniteSet(S), IsFiniteSet(T), S \ {x} = T \ {x}
  PROVE  Cardinality(T) = Cardinality(S) - (IF x \in S THEN 1 ELSE 0)
                          + (IF x \in T THEN 1 ELSE 0)
  <1>1. /\ Cardinality(S) \in Nat /\ Cardinality(T) \in Nat
        /\ Cardinality(S \ {x}) = IF x \in S THEN Cardinality(S) - 1
                                  ELSE Cardinality(S)
        /\ Cardinality(T \ {x}) = IF x \in T THEN Cardinality(T) - 1
                                  ELSE Cardinality(T)
    BY FS_RemoveElement, FS_CardinalityType
  <1> DEFINE s == Cardinality(S)
             t == Cardinality(T)
             rest == Cardinality(S \ {x})
  <1>2. /\ s \in Nat /\ t \in Nat
        /\ rest = IF x \in S THEN s - 1 ELSE s
        /\ rest = IF x \in T THEN t - 1 ELSE t
    BY <1>1
  <1> HIDE DEF s, t, rest
  <1>3. t = s - (IF x \in S THEN 1 ELSE 0) + (IF x \in T THEN 1 ELSE 0)
    BY <1>2
  <1> QED
    BY <1>3 DEF s, t

LEMMA HoldersFinite ==
  ASSUME PlaceTypeOK, NEW c
  PROVE  /\ IsFiniteSet(EventHolders(c)) /\ IsFiniteSet(FinishHolders(c))
         /\ Cardinality(EventHolders(c)) \in Nat /\ Cardinality(FinishHolders(c)) \in Nat
  <1>1. DOMAIN traffic \subseteq Request
    BY DEF PlaceTypeOK
  <1>2. EventHolders(c) \subseteq Request /\ FinishHolders(c) \subseteq Request
    BY <1>1 DEF EventHolders, FinishHolders
  <1>3. IsFiniteSet(EventHolders(c)) /\ IsFiniteSet(FinishHolders(c))
    BY <1>2, FS_Subset
  <1> QED
    BY <1>3, FS_CardinalityType

Bit(b) == IF b THEN 1 ELSE 0

(* The other requests stay where they are. *)
OthersKeep(r) ==
    \A q \in Request \ {r} : worker'[q] = worker[q] /\ handler'[q] = handler[q]

(* What r acquires less what it gives back. *)
Change(r) == (Bit(HasEvent(r)') - Bit(HasEvent(r))) + (Bit(HasFinish(r)') - Bit(HasFinish(r)))

LEMMA BalanceKept ==
  ASSUME PlaceTypeOK, PlaceTypeOK', traffic' = traffic, NEW c \in Client, Balanced(c),
         refs_'[c] = refs_[c],
         \A q \in DOMAIN traffic : ClientOf(q) = c =>
             worker'[q] = worker[q] /\ handler'[q] = handler[q]
  PROVE  Balanced(c)'
  <1>1. \A q \in DOMAIN traffic : ClientOf(q)' = ClientOf(q) /\ Http2(q)' = Http2(q)
    BY DEF ClientOf, Http2
  <1>2. \A q \in DOMAIN traffic : ClientOf(q) = c =>
            (HasEvent(q)' <=> HasEvent(q)) /\ (HasFinish(q)' <=> HasFinish(q))
    BY <1>1 DEF HasEvent, HasFinish
  <1>3. EventHolders(c)' = EventHolders(c) /\ FinishHolders(c)' = FinishHolders(c)
    BY <1>1, <1>2 DEF EventHolders, FinishHolders
  <1> QED
    BY <1>3 DEF Balanced

LEMMA BalanceMoves ==
  ASSUME PlaceTypeOK, PlaceTypeOK', traffic' = traffic, NEW r \in DOMAIN traffic, r \in Request,
         OthersKeep(r), NEW c \in Client, Balanced(c),
         refs_'[c] = refs_[c] + (IF ClientOf(r) = c THEN Change(r) ELSE 0)
  PROVE  Balanced(c)'
  <1>t. DOMAIN traffic \subseteq Request
    BY DEF PlaceTypeOK
  <1>1. CASE ClientOf(r) # c
    <2>1. refs_'[c] = refs_[c]
      BY <1>1 DEF PlaceTypeOK
    <2>2. \A q \in DOMAIN traffic : ClientOf(q) = c => worker'[q] = worker[q] /\ handler'[q] = handler[q]
      BY <1>1, <1>t DEF OthersKeep
    <2> QED
      BY <2>1, <2>2, BalanceKept
  <1>2. CASE ClientOf(r) = c
    <2>1. \A q \in DOMAIN traffic : ClientOf(q)' = ClientOf(q) /\ Http2(q)' = Http2(q)
      BY DEF ClientOf, Http2
    <2>2. \A q \in DOMAIN traffic : q # r =>
              (HasEvent(q)' <=> HasEvent(q)) /\ (HasFinish(q)' <=> HasFinish(q))
      BY <2>1, <1>t DEF HasEvent, HasFinish, OthersKeep
    <2>3. /\ EventHolders(c)' \ {r} = EventHolders(c) \ {r}
          /\ FinishHolders(c)' \ {r} = FinishHolders(c) \ {r}
      BY <2>1, <2>2 DEF EventHolders, FinishHolders
    <2>4. /\ r \in EventHolders(c) <=> HasEvent(r)
          /\ r \in FinishHolders(c) <=> HasFinish(r)
          /\ (r \in EventHolders(c)') <=> HasEvent(r)'
          /\ (r \in FinishHolders(c)') <=> HasFinish(r)'
      BY <1>2, <2>1 DEF EventHolders, FinishHolders
    <2> DEFINE e == Cardinality(EventHolders(c))
               f == Cardinality(FinishHolders(c))
               e2 == Cardinality(EventHolders(c)')
               f2 == Cardinality(FinishHolders(c)')
    <2>5. IsFiniteSet(EventHolders(c)') /\ IsFiniteSet(FinishHolders(c)')
          /\ IsFiniteSet(EventHolders(c)) /\ IsFiniteSet(FinishHolders(c))
          /\ e \in Nat /\ f \in Nat
      <3>1. EventHolders(c)' \subseteq Request /\ FinishHolders(c)' \subseteq Request
        BY <1>t DEF EventHolders, FinishHolders
      <3> QED
        BY <3>1, HoldersFinite, FS_Subset
    <2>6. e2 = (e - Bit(HasEvent(r))) + Bit(HasEvent(r)')
      BY <2>3, <2>4, <2>5, CardinalityStep DEF Bit
    <2>7. f2 = (f - Bit(HasFinish(r))) + Bit(HasFinish(r)')
      BY <2>3, <2>4, <2>5, CardinalityStep DEF Bit
    <2>8. /\ Bit(HasEvent(r)) \in Int /\ Bit(HasEvent(r)') \in Int
          /\ Bit(HasFinish(r)) \in Int /\ Bit(HasFinish(r)') \in Int
      BY DEF Bit
    <2>9. refs_[c] = e + f
      BY DEF Balanced
    <2> HIDE DEF e, f, e2, f2
    <2>10. refs_'[c] = e2 + f2
      BY <1>2, <2>5, <2>6, <2>7, <2>8, <2>9 DEF Change
    <2> QED
      BY <2>10 DEF Balanced, e2, f2
  <1> QED
    BY <1>1, <1>2

LEMMA ReferencesInit == Init => References
  <1> SUFFICES ASSUME Init PROVE References
    OBVIOUS
  <1>1. \A r \in Request : Waited(r)
    BY DEF Init, Waited, InProgress
  <1>2. ASSUME NEW c \in Client PROVE Balanced(c)
    <2>1. DOMAIN traffic \subseteq Request /\ refs_[c] = 0
      BY DEF Init
    <2>2. EventHolders(c) = {} /\ FinishHolders(c) = {}
      BY <2>1 DEF Init, EventHolders, FinishHolders, HasEvent, HasFinish
    <2> QED
      BY <2>1, <2>2, FS_EmptySet DEF Balanced
  <1> QED
    BY <1>1, <1>2 DEF Init, References

(* A request comes, with two references or with what another leaves it. *)
LEMMA ReferencesHandle ==
  ASSUME Typed, Typed', References, NEW r \in Request, Handle(r)
  PROVE  References'
  <1>1. PlaceTypeOK /\ PlaceTypeOK' /\ Places
    BY DEF Typed
  <1>2. /\ Running /\ worker[r] = "idle" /\ r \in DOMAIN traffic /\ r \in Request
        /\ handler' = [handler EXCEPT ![r] = Launched(r)] /\ worker'[r] = "handle"
        /\ traffic' = traffic /\ misused' = misused /\ undefined' = undefined
        /\ ReadByWorker(r) \/ ReadByReader(r) \/ ReadInPacket(r)
    BY <1>1, HandleMoves DEF Handle
  <1>3. /\ ~undefined /\ misused \subseteq reread /\ \A q \in Request : Waited(q)
        /\ \A c \in Client \ reread : Balanced(c)
    BY <1>2 DEF References, Running
  <1>4. /\ handler[r] = "none" /\ handler'[r] \in {"pooled", "run", "head"}
        /\ \A q \in Request \ {r} : handler'[q] = handler[q]
        /\ ClientOf(r) \in Client /\ DOMAIN traffic \subseteq Request
        /\ \A q : ClientOf(q)' = ClientOf(q) /\ Http2(q)' = Http2(q)
    BY <1>1, <1>2 DEF PlaceTypeOK, Places, Launched, ClientOf, Http2
  <1>5. ~HasEvent(r) /\ ~HasFinish(r) /\ HasEvent(r)' /\ HasFinish(r)'
    BY <1>2, <1>4 DEF HasEvent, HasFinish
  <1>6. CASE ReadByWorker(r)
    <2>1. /\ worker' = [worker EXCEPT ![r] = "handle"] /\ reread' = reread
          /\ refs_' = [refs_ EXCEPT ![ClientOf(r)] = @ + 2]
      BY <1>6 DEF ReadByWorker, TakeUp
    <2>2. OthersKeep(r)
      BY <1>1, <1>4, <2>1 DEF OthersKeep, PlaceTypeOK
    <2>3. Change(r) = 2
      BY <1>5 DEF Change, Bit
    <2>4. ASSUME NEW c \in Client \ reread' PROVE Balanced(c)'
      <3>1. refs_'[c] = refs_[c] + (IF ClientOf(r) = c THEN Change(r) ELSE 0)
        BY <1>1, <2>1, <2>3 DEF PlaceTypeOK
      <3> QED
        BY <1>1, <1>2, <1>3, <2>1, <2>2, <3>1, BalanceMoves
    <2>5. \A q \in Request : Waited(q)'
      BY <1>2, <1>3, <1>4, <2>1, <2>2 DEF Waited, OthersKeep
    <2> QED
      BY <1>2, <1>3, <2>1, <2>4, <2>5 DEF References
  <1>7. CASE ReadByReader(r)
    <2>1. PICK p \in Request :
              /\ worker[p] = "read" /\ ClientOf(p) = ClientOf(r)
              /\ worker' = [worker EXCEPT ![r] = "handle", ![p] = "edge"]
      BY <1>7 DEF ReadByReader
    <2>2. /\ refs_' = [refs_ EXCEPT ![ClientOf(r)] = @ + 1]
          /\ reread' = reread \cup {ClientOf(r)}
      BY <1>7 DEF ReadByReader, TakeUp
    <2>3. worker'[p] = "edge" /\ \A q \in Request \ {r, p} : worker'[q] = worker[q]
      BY <1>1, <1>2, <2>1 DEF PlaceTypeOK
    <2>4. ASSUME NEW c \in Client \ reread' PROVE Balanced(c)'
      <3>1. c # ClientOf(r) /\ c \in Client \ reread /\ refs_'[c] = refs_[c]
        BY <1>1, <2>2 DEF PlaceTypeOK
      <3>2. \A q \in DOMAIN traffic : ClientOf(q) = c => q \notin {r, p} /\ q \in Request
        BY <1>4, <2>1, <3>1
      <3>3. \A q \in DOMAIN traffic : ClientOf(q) = c =>
                worker'[q] = worker[q] /\ handler'[q] = handler[q]
        BY <1>4, <2>3, <3>2
      <3> QED
        BY <1>1, <1>2, <1>3, <3>1, <3>3, BalanceKept
    <2>5. ASSUME NEW q \in Request PROVE Waited(q)'
      <3>1. CASE q = r
        BY <1>2, <3>1 DEF Waited
      <3>2. CASE q # r /\ q = p
        <4>1. handler'[q] = handler[q] /\ handler[q] \notin InProgress
          BY <1>3, <1>4, <2>1, <3>2 DEF Waited
        <4>2. ClientOf(q)' \in reread'
          BY <1>4, <2>1, <2>2, <3>2
        <4> QED
          BY <4>1, <4>2 DEF Waited
      <3>3. CASE q # r /\ q # p
        <4>1. worker'[q] = worker[q] /\ handler'[q] = handler[q] /\ ClientOf(q)' = ClientOf(q)
          BY <1>4, <2>3, <3>3
        <4> QED
          BY <1>3, <2>2, <4>1 DEF Waited
      <3> QED
        BY <3>1, <3>2, <3>3
    <2> QED
      BY <1>2, <1>3, <2>2, <2>4, <2>5 DEF References
  <1>8. CASE ReadInPacket(r)
    <2>1. PICK p \in Request :
              /\ worker[p] = "release" /\ Http2(p) /\ ClientOf(p) = ClientOf(r)
              /\ worker' = [worker EXCEPT ![r] = "handle", ![p] = "gone"]
      BY <1>8 DEF ReadInPacket
    <2>2. refs_' = [refs_ EXCEPT ![ClientOf(r)] = @ + 1] /\ reread' = reread
      BY <1>8 DEF ReadInPacket, TakeUp
    <2>3. p # r /\ worker'[p] = "gone" /\ \A q \in Request \ {r, p} : worker'[q] = worker[q]
      BY <1>1, <1>2, <2>1 DEF PlaceTypeOK
    <2>4. handler'[p] = handler[p] /\ p \in DOMAIN traffic
      BY <1>1, <1>4, <2>1, <2>3 DEF Places
    <2>5. ASSUME NEW c \in Client \ reread' PROVE Balanced(c)'
      <3>1. CASE c # ClientOf(r)
        <4>1. refs_'[c] = refs_[c]
          BY <1>1, <2>2, <3>1 DEF PlaceTypeOK
        <4>2. \A q \in DOMAIN traffic : ClientOf(q) = c => q \notin {r, p} /\ q \in Request
          BY <1>4, <2>1, <3>1
        <4>3. \A q \in DOMAIN traffic : ClientOf(q) = c =>
                  worker'[q] = worker[q] /\ handler'[q] = handler[q]
          BY <1>4, <2>3, <4>2
        <4> QED
          BY <1>1, <1>2, <1>3, <2>2, <4>1, <4>3, BalanceKept
      <3>2. CASE c = ClientOf(r)
        <4> DEFINE E == EventHolders(c)
                   F == FinishHolders(c)
        <4>1. /\ HasEvent(p) /\ ~HasEvent(p)' /\ (HasFinish(p)' <=> HasFinish(p))
              /\ \A q \in DOMAIN traffic \ {r, p} :
                     (HasEvent(q)' <=> HasEvent(q)) /\ (HasFinish(q)' <=> HasFinish(q))
          BY <1>4, <2>1, <2>3, <2>4 DEF HasEvent, HasFinish
        <4>2. E' = (E \ {p}) \cup {r} /\ F' = F \cup {r} /\ p \in E /\ r \notin E /\ r \notin F
          BY <1>2, <1>4, <1>5, <2>1, <2>4, <3>2, <4>1 DEF EventHolders, FinishHolders
        <4>3. IsFiniteSet(E) /\ IsFiniteSet(F) /\ Cardinality(E) \in Nat /\ Cardinality(F) \in Nat
          BY <1>1, HoldersFinite
        <4>4. Cardinality(E') = Cardinality(E) /\ Cardinality(F') = Cardinality(F) + 1
          <5> HIDE DEF E, F
          <5>1. IsFiniteSet(E \ {p}) /\ Cardinality(E \ {p}) = Cardinality(E) - 1
            BY <4>2, <4>3, FS_RemoveElement
          <5>2. Cardinality((E \ {p}) \cup {r}) = Cardinality(E \ {p}) + 1
            BY <4>2, <5>1, FS_AddElement
          <5>3. Cardinality(F \cup {r}) = Cardinality(F) + 1
            BY <4>2, <4>3, FS_AddElement
          <5> QED
            BY <4>2, <4>3, <5>1, <5>2, <5>3
        <4>5. refs_'[c] = refs_[c] + 1 /\ refs_[c] = Cardinality(E) + Cardinality(F)
          BY <1>1, <1>3, <2>2, <3>2 DEF PlaceTypeOK, Balanced
        <4>6. refs_'[c] = Cardinality(E') + Cardinality(F')
          <5> HIDE DEF E, F
          <5> QED
            BY <4>3, <4>4, <4>5
        <4> QED
          BY <4>6 DEF Balanced
      <3> QED
        BY <3>1, <3>2
    <2>6. ASSUME NEW q \in Request PROVE Waited(q)'
      <3>1. CASE q = r
        BY <1>2, <3>1 DEF Waited
      <3>2. CASE q = p
        BY <1>3, <2>1, <2>3, <2>4, <3>2 DEF Waited
      <3>3. CASE q # r /\ q # p
        BY <1>3, <1>4, <2>2, <2>3, <3>3 DEF Waited
      <3> QED
        BY <3>1, <3>2, <3>3
    <2> QED
      BY <1>2, <1>3, <2>2, <2>5, <2>6 DEF References
  <1> QED
    BY <1>2, <1>6, <1>7, <1>8

LEMMA Holds ==
  ASSUME Typed, References, Running, NEW r \in DOMAIN traffic, ClientOf(r) \in Client,
         HasEvent(r) \/ HasFinish(r) \/ ClientOf(r) \in reread
  PROVE  /\ Touch(ClientOf(r)) => misused' \subseteq reread
         /\ UNCHANGED misused => misused' \subseteq reread
  <1>1. PlaceTypeOK /\ misused \subseteq reread
    BY DEF Typed, References, Running
  <1>2. ASSUME ClientOf(r) \notin reread PROVE refs_[ClientOf(r)] > 0
    <2> DEFINE c == ClientOf(r)
               e == Cardinality(EventHolders(c))
               f == Cardinality(FinishHolders(c))
    <2>1. refs_[c] = e + f
      BY <1>2 DEF References, Balanced, Running
    <2>2. r \in EventHolders(c) \/ r \in FinishHolders(c)
      BY <1>2 DEF EventHolders, FinishHolders
    <2>3. /\ IsFiniteSet(EventHolders(c)) /\ IsFiniteSet(FinishHolders(c))
          /\ e \in Nat /\ f \in Nat
      BY <1>1, HoldersFinite
    <2>4. e # 0 \/ f # 0
      BY <2>2, <2>3, FS_EmptySet
    <2> HIDE DEF e, f
    <2>5. e + f > 0
      BY <2>3, <2>4
    <2> QED
      BY <2>1, <2>5
  <1> QED
    BY <1>1, <1>2 DEF Touch

LEMMA ReferencesOf ==
  ASSUME Typed, Typed', References, Running, traffic' = traffic,
         NEW r \in DOMAIN traffic, r \in Request, OthersKeep(r),
         reread \subseteq reread', undefined' \in BOOLEAN,
         \A c \in Client \ {ClientOf(r)} : refs_'[c] = refs_[c],
         ~undefined' =>
             /\ misused' \subseteq reread' /\ Waited(r)'
             /\ ClientOf(r) \notin reread' => refs_'[ClientOf(r)] = refs_[ClientOf(r)] + Change(r)
  PROVE  References'
  <1> SUFFICES ASSUME ~undefined'
               PROVE  /\ \A q \in Request : Waited(q)'
                      /\ \A c \in Client \ reread' : Balanced(c)'
    BY DEF References
  <1>1. ASSUME NEW q \in Request PROVE Waited(q)'
    <2>1. CASE q = r
      BY <2>1
    <2>2. CASE q # r
      <3>1. Waited(q) /\ worker'[q] = worker[q] /\ handler'[q] = handler[q]
            /\ ClientOf(q)' = ClientOf(q)
        BY <2>2 DEF OthersKeep, References, Running, ClientOf
      <3> QED
        BY <3>1 DEF Waited
    <2> QED
      BY <2>1, <2>2
  <1>2. ASSUME NEW c \in Client \ reread' PROVE Balanced(c)'
    <2>1. Balanced(c)
      BY DEF References, Running
    <2>2. refs_'[c] = refs_[c] + (IF ClientOf(r) = c THEN Change(r) ELSE 0)
      <3>1. refs_[c] \in Int
        BY DEF Typed, PlaceTypeOK
      <3> QED
        BY <3>1
    <2> QED
      BY <2>1, <2>2, BalanceMoves DEF Typed
  <1> QED
    BY <1>1, <1>2

(* A worker gives its reference back, takes one up, or keeps it. *)
LEMMA ReferencesWorker ==
  ASSUME Typed, Typed', References, NEW r \in Request, WorkerMove(r), traffic' = traffic
  PROVE  References'
  <1>1. PlaceTypeOK /\ PlaceTypeOK' /\ Places
    BY DEF Typed
  <1>2. Running /\ UNCHANGED handler /\ worker[r] \notin {"idle", "gone"}
    BY <1>1, WorkerMoves
  <1>3. PICK place \in {"release", "save", "write", "again", "read", "gone"} :
            worker' = [worker EXCEPT ![r] = place]
    BY <1>1, WorkerMoves
  <1>4. r \in DOMAIN traffic /\ ClientOf(r) \in Client /\ Http2(r) \in BOOLEAN
        /\ Http2(r)' = Http2(r) /\ ClientOf(r)' = ClientOf(r)
    BY <1>1, <1>2, HasClient DEF Http2, ClientOf
  <1>5. OthersKeep(r) /\ worker'[r] = place /\ handler'[r] = handler[r]
    BY <1>1, <1>2, <1>3 DEF OthersKeep, PlaceTypeOK
  <1>6. (HasFinish(r)' <=> HasFinish(r)) /\ (HasEvent(r)' <=>
             (place = "release" \/ (place \in {"save", "write"} /\ Http2(r))))
    BY <1>4, <1>5 DEF HasFinish, HasEvent
  <1>7. misused \subseteq reread /\ Waited(r) /\ ~undefined
    BY <1>2 DEF References, Running
  <1>8. \A c \in Client : refs_[c] \in Int
    BY <1>1 DEF PlaceTypeOK
  <1>9. /\ (HasEvent(r) <=> HasEvent(r)') => Change(r) = 0
        /\ HasEvent(r) /\ ~HasEvent(r)' => Change(r) = -1
    BY <1>6 DEF Change, Bit
  <1>u. undefined' \in BOOLEAN
    BY <1>1 DEF PlaceTypeOK
  <1> DEFINE Good ==
        /\ reread \subseteq reread' /\ undefined' \in BOOLEAN
        /\ \A c \in Client \ {ClientOf(r)} : refs_'[c] = refs_[c]
        /\ ~undefined' =>
             /\ misused' \subseteq reread' /\ Waited(r)'
             /\ ClientOf(r) \notin reread' => refs_'[ClientOf(r)] = refs_[ClientOf(r)] + Change(r)
  <1>a. ASSUME HandleReturns(r) PROVE Good
    <2>1. /\ worker[r] = "handle" /\ UNCHANGED <<refs_, reread, misused>>
          /\ worker' = [worker EXCEPT ![r] = After(r)]
          /\ PolicyOf(r) # "pool" => handler[r] \in {"ended", "thrown"}
          /\ undefined' = (PolicyOf(r) = "pool" /\ handler[r] \notin {"pooled", "ended"})
      BY <1>a DEF HandleReturns, GoWorker, clientVars
    <2>2. HasEvent(r) /\ HasEvent(r)' /\ worker'[r] \in {"save", "release"}
      BY <1>1, <1>4, <2>1 DEF HasEvent, After, PlaceTypeOK
    <2>3. ~undefined' => handler[r] \notin InProgress
      BY <2>1 DEF InProgress
    <2>4. ~undefined' => Waited(r)'
      BY <1>5, <2>2, <2>3 DEF Waited
    <2>5. refs_'[ClientOf(r)] = refs_[ClientOf(r)] + Change(r)
      BY <1>4, <1>8, <1>9, <2>1, <2>2
    <2> QED
      BY <1>7, <1>u, <2>1, <2>4, <2>5
  <1>b. ASSUME ReleaseEvent(r) PROVE Good
    <2>1. /\ worker[r] = "release" /\ UNCHANGED <<reread, undefined>> /\ Touch(ClientOf(r))
          /\ refs_' = [refs_ EXCEPT ![ClientOf(r)] = @ - 1]
          /\ worker' = [worker EXCEPT ![r] = IF Http2(r) THEN "again" ELSE "save"]
      BY <1>b DEF ReleaseEvent, GoWorker, GiveBack
    <2>2. HasEvent(r) /\ ~HasEvent(r)' /\ worker'[r] \in {"again", "save"}
      BY <1>1, <1>4, <2>1 DEF HasEvent, PlaceTypeOK
    <2>3. misused' \subseteq reread
      BY <1>2, <1>4, <2>1, <2>2, Holds
    <2>4. Waited(r)'
      BY <1>5, <1>7, <2>1, <2>2 DEF Waited
    <2>5. refs_'[ClientOf(r)] = refs_[ClientOf(r)] + Change(r)
          /\ \A c \in Client \ {ClientOf(r)} : refs_'[c] = refs_[c]
      BY <1>1, <1>4, <1>8, <1>9, <2>1, <2>2 DEF PlaceTypeOK
    <2> QED
      BY <1>u, <2>1, <2>3, <2>4, <2>5
  <1>c. ASSUME Save(r) \/ SaveEnd(r) PROVE Good
    <2>1. /\ worker[r] \in {"save", "write"} /\ UNCHANGED <<refs_, reread, misused, undefined>>
          /\ \E p \in {"write", IF Http2(r) THEN "release" ELSE "gone"} :
                 worker' = [worker EXCEPT ![r] = p]
      BY <1>c DEF Save, SaveEnd, GoWorker, AfterSave, clientVars
    <2>2. worker'[r] \in {"write", IF Http2(r) THEN "release" ELSE "gone"}
      BY <1>1, <2>1 DEF PlaceTypeOK
    <2>3. HasEvent(r)' <=> HasEvent(r)
      BY <1>4, <2>1, <2>2 DEF HasEvent
    <2>4. Waited(r)'
      BY <1>4, <1>5, <1>7, <2>1, <2>2 DEF Waited
    <2>5. refs_'[ClientOf(r)] = refs_[ClientOf(r)] + Change(r)
      BY <1>4, <1>8, <1>9, <2>1, <2>3
    <2> QED
      BY <1>7, <1>u, <2>1, <2>4, <2>5
  <1>d. ASSUME LockForRead(r) PROVE Good
    <2>1. /\ worker[r] = "again" /\ UNCHANGED <<refs_, reread, misused, undefined>>
          /\ worker' = [worker EXCEPT ![r] = "read"]
      BY <1>d DEF LockForRead, GoWorker, clientVars
    <2>2. ~HasEvent(r)' /\ ~HasEvent(r) /\ worker'[r] = "read"
      BY <1>1, <2>1 DEF HasEvent, PlaceTypeOK
    <2>4. Waited(r)'
      BY <1>5, <1>7, <2>1, <2>2 DEF Waited
    <2>5. refs_'[ClientOf(r)] = refs_[ClientOf(r)] + Change(r)
      BY <1>4, <1>8, <1>9, <2>1, <2>2
    <2> QED
      BY <1>7, <1>u, <2>1, <2>4, <2>5
  <1>e. ASSUME ReturnEof(r) PROVE Good
    <2>1. /\ worker[r] = "read" /\ UNCHANGED undefined /\ Touch(ClientOf(r))
          /\ refs_' = [refs_ EXCEPT ![ClientOf(r)] = @ - 1]
          /\ reread' = reread \cup {ClientOf(r)}
          /\ worker' = [worker EXCEPT ![r] = "gone"]
      BY <1>e DEF ReturnEof, GoWorker, GiveBack
    <2>2. misused' \subseteq reread'
      BY <1>7, <2>1 DEF Touch
    <2>3. worker'[r] = "gone"
      BY <1>1, <2>1 DEF PlaceTypeOK
    <2>4. Waited(r)'
      BY <1>5, <1>7, <2>1, <2>3 DEF Waited
    <2>5. ClientOf(r) \in reread' /\ \A c \in Client \ {ClientOf(r)} : refs_'[c] = refs_[c]
      BY <1>1, <1>4, <2>1, <2>2 DEF PlaceTypeOK
    <2> QED
      BY <1>7, <1>u, <2>1, <2>2, <2>4, <2>5
  <1>f. ASSUME TakeEvent(r) PROVE Good
    <2>1. /\ worker[r] = "edge" /\ UNCHANGED <<reread, misused, undefined>>
          /\ refs_' = [refs_ EXCEPT ![ClientOf(r)] = @ + 1]
          /\ worker' = [worker EXCEPT ![r] = "again"]
      BY <1>f DEF TakeEvent, TakeUp, GoWorker
    <2>2. ClientOf(r) \in reread /\ worker'[r] = "again"
      BY <1>1, <1>7, <2>1 DEF Waited, PlaceTypeOK
    <2>4. Waited(r)'
      BY <1>5, <1>7, <2>1, <2>2 DEF Waited
    <2>5. ClientOf(r) \in reread' /\ \A c \in Client \ {ClientOf(r)} : refs_'[c] = refs_[c]
      BY <1>1, <1>4, <2>1, <2>2 DEF PlaceTypeOK
    <2> QED
      BY <1>7, <1>u, <2>1, <2>2, <2>4, <2>5
  <1>g. Good
    BY <1>a, <1>b, <1>c, <1>d, <1>e, <1>f DEF WorkerMove, WorkerStep, ReadEnds, Hangup
  <1> QED
    BY <1>2, <1>4, <1>5, <1>g, ReferencesOf

(* What a handler does to the connection. *)
LEMMA HandlerUses ==
  ASSUME NEW r \in Request, HandlerStep(r)
  PROVE  \/ ReleaseFinish(r)
         \/ /\ UNCHANGED <<refs_, reread>>
            /\ Touch(ClientOf(r)) \/ UNCHANGED misused
  <1> DEFINE Keeps ==
        /\ UNCHANGED <<refs_, reread>>
        /\ Touch(ClientOf(r)) \/ UNCHANGED misused
  <1>1. ASSUME UNCHANGED clientVars \/ UseClient(r) PROVE Keeps
    BY <1>1 DEF clientVars, UseClient
  <1>2. ASSUME Run(r) \/ RunThrows(r) \/ WriteHead(r) \/ Serialize(r) \/ FinishHeaders(r) \/ WriteHeaders(r)
               \/ ReadClosedFile(r)
        PROVE  UNCHANGED clientVars \/ UseClient(r)
    BY <1>2 DEF Run, RunThrows, Throw, WriteHead, Serialize, Inserted, FinishHeaders, WriteHeaders,
                ReadClosedFile
  <1>3. ASSUME WriteBody(r) \/ NextBuffer(r) \/ WriteData(r) \/ WriteFails(r) \/ CloseStream(r)
               \/ RecordTiming(r)
        PROVE  UNCHANGED clientVars \/ UseClient(r)
    BY <1>3 DEF WriteBody, NextBuffer, WriteData, WriteFails, Throw, CloseStream, RecordTiming
  <1>4. PostSend(r) => UNCHANGED clientVars \/ UseClient(r)
    BY DEF PostSend
  <1> QED
    BY <1>1, <1>2, <1>3, <1>4 DEF HandlerStep

LEMMA ReferencesHandler ==
  ASSUME Typed, Typed', References, NEW r \in Request, HandlerStep(r), traffic' = traffic
  PROVE  References'
  <1>1. PlaceTypeOK /\ PlaceTypeOK' /\ Places
    BY DEF Typed
  <1>2. Running /\ UNCHANGED worker /\ handler[r] \in InProgress
    BY <1>1, HandlerMoves
  <1>3. PICK place \in InProgress \cup {"ended", "thrown"} :
            handler' = [handler EXCEPT ![r] = place]
    BY <1>1, HandlerMoves
  <1>4. /\ worker[r] = "handle" /\ r \in DOMAIN traffic /\ ClientOf(r) \in Client
        /\ HasEvent(r) /\ HasEvent(r)' /\ Waited(r)'
    BY <1>1, <1>2, WorkerWaits DEF HasEvent, Waited
  <1>5. OthersKeep(r) /\ handler'[r] = place
    BY <1>1, <1>2, <1>3 DEF OthersKeep, PlaceTypeOK
  <1>6. \A c \in Client : refs_[c] \in Int
    BY <1>1 DEF PlaceTypeOK
  <1>7. CASE ReleaseFinish(r)
    <2>1. /\ handler[r] = "sent" /\ UNCHANGED <<undefined, reread>> /\ Touch(ClientOf(r))
          /\ refs_' = [refs_ EXCEPT ![ClientOf(r)] = @ - 1]
          /\ \E p \in {"closing", "post", "ended"} : handler' = [handler EXCEPT ![r] = p]
      BY <1>7 DEF ReleaseFinish, GiveBack, GoHandler
    <2>2. HasFinish(r) /\ ~HasFinish(r)'
      BY <1>1, <2>1 DEF HasFinish, PlaceTypeOK
    <2>3. Change(r) = -1
      BY <1>4, <2>2 DEF Change, Bit
    <2>4. misused' \subseteq reread
      BY <1>2, <1>4, <2>1, Holds
    <2>5. /\ refs_'[ClientOf(r)] = refs_[ClientOf(r)] + Change(r)
          /\ \A c \in Client \ {ClientOf(r)} : refs_'[c] = refs_[c]
      BY <1>1, <1>4, <1>6, <2>1, <2>3 DEF PlaceTypeOK
    <2>6. undefined' \in BOOLEAN
      BY <1>1 DEF PlaceTypeOK
    <2> QED
      BY <1>2, <1>4, <1>5, <2>1, <2>4, <2>5, <2>6, ReferencesOf
  <1>8. CASE ~ReleaseFinish(r)
    <2>1. UNCHANGED <<refs_, reread>> /\ (Touch(ClientOf(r)) \/ UNCHANGED misused)
      BY <1>8, HandlerUses
    <2>2. misused' \subseteq reread'
      BY <1>2, <1>4, <2>1, Holds
    <2>3. ~undefined' => (HasFinish(r)' <=> HasFinish(r))
      <3>1. ASSUME Run(r) \/ RunThrows(r) \/ WriteHead(r) \/ Serialize(r) \/ FinishHeaders(r) \/ WriteHeaders(r)
                   \/ WriteFails(r)
            PROVE  /\ handler[r] \in {"run", "head", "serialized", "framed", "frames"}
                   /\ handler'[r] \in {"head", "serialized", "framed", "body", "thrown"}
        BY <1>1, <3>1 DEF Run, RunThrows, WriteHead, Serialize, Inserted, FinishHeaders, WriteHeaders,
                          WriteFails, Throw, GoHandler, PlaceTypeOK
      <3>2. ASSUME WriteBody(r) \/ NextBuffer(r) \/ WriteData(r)
            PROVE  /\ handler[r] \in {"body", "frames"}
                   /\ handler'[r] \in {"body", "frames", "sent"}
        BY <1>1, <3>2 DEF WriteBody, NextBuffer, WriteData, AfterBuffer, GoHandler, PlaceTypeOK
      <3>3. ASSUME CloseStream(r) \/ PostSend(r) \/ RecordTiming(r)
            PROVE  /\ handler[r] \in {"closing", "post", "timing"}
                   /\ handler'[r] \in {"post", "timing", "ended"}
        BY <1>1, <3>3 DEF CloseStream, PostSend, RecordTiming, GoHandler, PlaceTypeOK
      <3>4. ReadClosedFile(r) => undefined'
        BY DEF ReadClosedFile
      <3> QED
        BY <1>8, <3>1, <3>2, <3>3, <3>4 DEF HandlerStep, HasFinish
    <2>4. ~undefined' => Change(r) = 0
      BY <1>4, <2>3 DEF Change, Bit
    <2>5. undefined' \in BOOLEAN
      BY <1>1 DEF PlaceTypeOK
    <2>6. ~undefined' => refs_'[ClientOf(r)] = refs_[ClientOf(r)] + Change(r)
      BY <1>4, <1>6, <2>1, <2>4
    <2> QED
      BY <1>2, <1>4, <1>5, <2>1, <2>2, <2>5, <2>6, ReferencesOf
  <1> QED
    BY <1>7, <1>8

LEMMA ReferencesStep ==
  ASSUME Typed, Typed', References, [Next]_vars
  PROVE  References'
  <1>t. PlaceTypeOK /\ PlaceTypeOK' /\ Places /\ traffic' = traffic
    BY TrafficKept DEF Typed
  <1>1. ASSUME NEW r \in Request, Handle(r) PROVE References'
    BY <1>1, ReferencesHandle
  <1>2. ASSUME NEW r \in Request, WorkerMove(r) PROVE References'
    BY <1>2, <1>t, ReferencesWorker
  <1>3. ASSUME NEW r \in Request, PoolRuns(r) PROVE References'
    <2>1. handler[r] = "pooled" /\ r \in DOMAIN traffic /\ Running
          /\ UNCHANGED <<worker, refs_, reread, misused>>
      BY <1>3, <1>t DEF PoolRuns, Places, clientVars, GoHandler, placeVars
    <2>2. CASE worker[r] = "handle"
      <3>1. handler' = [handler EXCEPT ![r] = "run"] /\ UNCHANGED undefined
        BY <1>3, <2>2 DEF PoolRuns, GoHandler
      <3>2. OthersKeep(r) /\ handler'[r] = "run"
        BY <1>t, <2>1, <3>1 DEF OthersKeep, PlaceTypeOK
      <3>3. Change(r) = 0
        BY <2>1, <2>2, <3>2 DEF Change, Bit, HasEvent, HasFinish
      <3>4. Waited(r)' /\ misused' \subseteq reread'
        BY <2>1, <2>2, <3>2 DEF Waited, References, Running
      <3>5. ClientOf(r) \in Client /\ undefined' \in BOOLEAN
        BY <1>t, <2>1, <2>2, HasClient DEF PlaceTypeOK
      <3>6. refs_'[ClientOf(r)] = refs_[ClientOf(r)] + Change(r)
        BY <1>t, <2>1, <3>3, <3>5 DEF PlaceTypeOK
      <3> QED
        BY <1>t, <2>1, <3>2, <3>4, <3>5, <3>6, ReferencesOf
    <2>3. CASE worker[r] # "handle"
      BY <1>3, <2>3 DEF PoolRuns, References
    <2> QED
      BY <2>2, <2>3
  <1>4. ASSUME NEW r \in Request, HandlerStep(r) PROVE References'
    BY <1>4, <1>t, ReferencesHandler
  <1>5. ASSUME RateStep \/ Quiet \/ UNCHANGED vars PROVE References'
    <2>1. UNCHANGED <<worker, handler, refs_, reread, misused, undefined>>
      BY <1>5 DEF RateStep, Quiet, vars, placeVars, clientVars
    <2>2. \A c \in Client : Balanced(c) => Balanced(c)'
      BY <1>t, <2>1, BalanceKept
    <2>3. \A q \in Request : Waited(q) => Waited(q)'
      BY <1>t, <2>1 DEF Waited, ClientOf
    <2> QED
      BY <2>1, <2>2, <2>3 DEF References
  <1> QED
    BY <1>1, <1>2, <1>3, <1>4, <1>5 DEF Next, WorkerMove

(* Everything that handle does with a connection, in whatever thread, it   *)
(* does with a reference, and when no request of it is handled any more    *)
(* all are given back, but for those of handlers that threw or that the    *)
(* pool has not run; until a worker reads from it for the second time.     *)
THEOREM ConnectionsAreHeld == Spec => []HeldWhileUsed
  <1>1. Init => Typed /\ References
    BY TypedInit, ReferencesInit
  <1>2. (Typed /\ References) /\ [Next]_vars => (Typed /\ References)'
    BY TypedStep, ReferencesStep
  <1>3. Typed /\ References => HeldWhileUsed
    <2> SUFFICES ASSUME Typed, References, ~undefined, NEW c \in Client \ reread,
                        \A r \in DOMAIN traffic : ClientOf(r) = c => ~Active(r)
                 PROVE  refs_[c] = Cardinality(Unfinished(c))
      BY DEF References, HeldWhileUsed
    <2>1. PlaceTypeOK /\ Balanced(c) /\ DOMAIN traffic \subseteq Request
      BY DEF Typed, References, PlaceTypeOK
    <2>2. EventHolders(c) = {}
      BY DEF EventHolders, HasEvent, Active
    <2>3. \A r \in DOMAIN traffic : ClientOf(r) = c =>
              (HasFinish(r) <=> handler[r] \in {"thrown", "pooled"})
      <3> TAKE r \in DOMAIN traffic
      <3>1. ClientOf(r) = c => handler[r] \notin InProgress
        BY <2>1 DEF References, Waited, Active
      <3>2. handler[r] \in InProgress \cup {"none", "pooled", "ended", "thrown"}
        BY <2>1 DEF PlaceTypeOK, InProgress
      <3> QED
        BY <3>1, <3>2 DEF HasFinish, InProgress
    <2>4. FinishHolders(c) = Unfinished(c)
      BY <2>3 DEF FinishHolders, Unfinished
    <2>5. Cardinality(FinishHolders(c)) \in Nat
      BY <2>1, HoldersFinite
    <2> QED
      BY <2>1, <2>2, <2>4, <2>5, FS_EmptySet DEF Balanced
  <1> QED
    BY <1>1, <1>2, <1>3, PTL DEF Spec

-----------------------------------------------------------------------------
(* The counters of odin, as sets of requests. *)
Throws(r) == Endpoints[EndpointOf(r)].throws
StatusOf(r) == Endpoints[EndpointOf(r)].status

Counted == {r \in Request : worker[r] # "idle" /\ ~IsAdmin(r)}
Served == {r \in Counted : handler[r] = "ended" /\ Found(r)}
WithStatus ==
    {r \in Counted : /\ Found(r) /\ ~Throws(r) /\ StatusOf(r) \in StatusClass
                     /\ handler[r] \notin {"none", "pooled", "run"}}
Statuses == status_code_["ok"] + status_code_["client_error"] + status_code_["server_error"]

InRate ==
    ~late => /\ current_rps \in {-1, request_count_}
             /\ sampled + request_count_ = Cardinality(Counted)

Counts ==
    /\ InRate
    /\ requests_served_ = Cardinality(Served)
    /\ Statuses = Cardinality(WithStatus)
    /\ \A r \in Request :
           /\ handler[r] = "timing" => ~IsAdmin(r)
           /\ Found(r) /\ Throws(r) => handler[r] \in {"none", "pooled", "run", "thrown"}

LEMMA SameTraffic ==
  ASSUME traffic' = traffic, NEW r
  PROVE  /\ Found(r)' = Found(r) /\ IsAdmin(r)' = IsAdmin(r)
         /\ Throws(r)' = Throws(r) /\ StatusOf(r)' = StatusOf(r)
  BY DEF Found, IsAdmin, Throws, StatusOf, EndpointOf, FindEndpoint, Matching

LEMMA CountedMove ==
  ASSUME traffic' = traffic, NEW r \in Request,
         \A q \in Request \ {r} :
             (worker'[q] = "idle" <=> worker[q] = "idle") /\ handler'[q] = handler[q]
  PROVE  /\ Cardinality(Counted') = Cardinality(Counted) - (IF r \in Counted THEN 1 ELSE 0)
                                    + (IF r \in Counted' THEN 1 ELSE 0)
         /\ Cardinality(Served') = Cardinality(Served) - (IF r \in Served THEN 1 ELSE 0)
                                    + (IF r \in Served' THEN 1 ELSE 0)
         /\ Cardinality(WithStatus') = Cardinality(WithStatus)
                                    - (IF r \in WithStatus THEN 1 ELSE 0)
                                    + (IF r \in WithStatus' THEN 1 ELSE 0)
         /\ Cardinality(Counted) \in Nat /\ Cardinality(Served) \in Nat
         /\ Cardinality(WithStatus) \in Nat
  <1>1. \A q : /\ Found(q)' = Found(q) /\ IsAdmin(q)' = IsAdmin(q)
               /\ Throws(q)' = Throws(q) /\ StatusOf(q)' = StatusOf(q)
    BY SameTraffic
  <1>2. ASSUME NEW S, S \subseteq Request PROVE IsFiniteSet(S) /\ Cardinality(S) \in Nat
    BY <1>2, FS_Subset, FS_CardinalityType
  <1>3. Counted \ {r} = Counted' \ {r} /\ Counted \subseteq Request /\ Counted' \subseteq Request
    BY <1>1 DEF Counted
  <1>4. Served \ {r} = Served' \ {r} /\ Served \subseteq Request /\ Served' \subseteq Request
    BY <1>1, <1>3 DEF Served
  <1>5. WithStatus \ {r} = WithStatus' \ {r} /\ WithStatus \subseteq Request
        /\ WithStatus' \subseteq Request
    BY <1>1, <1>3 DEF WithStatus
  <1>6. Cardinality(Counted') = Cardinality(Counted) - (IF r \in Counted THEN 1 ELSE 0)
                                + (IF r \in Counted' THEN 1 ELSE 0)
    BY <1>2, <1>3, CardinalityStep
  <1>7. Cardinality(Served') = Cardinality(Served) - (IF r \in Served THEN 1 ELSE 0)
                                + (IF r \in Served' THEN 1 ELSE 0)
    BY <1>2, <1>4, CardinalityStep
  <1>8. Cardinality(WithStatus') = Cardinality(WithStatus)
                                - (IF r \in WithStatus THEN 1 ELSE 0)
                                + (IF r \in WithStatus' THEN 1 ELSE 0)
    BY <1>2, <1>5, CardinalityStep
  <1> QED
    BY <1>2, <1>3, <1>4, <1>5, <1>6, <1>7, <1>8

(* Only post_send with its second record makes a request served. *)
LEMMA EndsUnserved ==
  ASSUME Typed, NEW r \in Request, HandlerStep(r), ~RecordTiming(r)
  PROVE  /\ handler'[r] = "ended" => ~Found(r) \/ IsAdmin(r)
         /\ handler'[r] = "timing" => ~IsAdmin(r)
  <1>1. PlaceTypeOK
    BY DEF Typed
  <1> USE <1>1 DEF GoHandler, PlaceTypeOK
  <1>2. CASE ReleaseFinish(r) BY <1>2 DEF ReleaseFinish
  <1>3. CASE CloseStream(r) BY <1>3 DEF CloseStream
  <1>4. CASE PostSend(r) BY <1>4 DEF PostSend
  <1>5. ASSUME ReadClosedFile(r) \/ WriteBody(r) \/ NextBuffer(r) \/ WriteData(r)
        PROVE  handler'[r] \in {"body", "frames", "sent"}
    BY <1>5 DEF ReadClosedFile, placeVars, WriteBody, NextBuffer, WriteData, AfterBuffer
  <1>6. ASSUME Run(r) \/ RunThrows(r) \/ WriteHead(r) \/ Serialize(r) \/ FinishHeaders(r)
               \/ WriteHeaders(r) \/ WriteFails(r)
        PROVE  handler'[r] \in {"head", "thrown", "body", "serialized", "framed"}
    BY <1>6 DEF Run, RunThrows, WriteHead, Serialize, Inserted, FinishHeaders, WriteHeaders, WriteFails, Throw
  <1> QED
    BY <1>2, <1>3, <1>4, <1>5, <1>6 DEF HandlerStep

LEMMA CountsInit == Init => Counts
  <1> SUFFICES ASSUME Init PROVE Counts
    OBVIOUS
  <1>1. Counted = {} /\ Served = {} /\ WithStatus = {}
    BY DEF Init, Counted, Served, WithStatus
  <1>2. Cardinality({}) = 0
    BY FS_EmptySet
  <1>3. Cardinality(Counted) = 0 /\ Cardinality(Served) = 0 /\ Cardinality(WithStatus) = 0
    BY <1>1, <1>2
  <1>4. Statuses = 0
    BY DEF Init, OdinInit, Statuses, StatusClass
  <1>5. \A r \in Request : handler[r] = "none"
    BY DEF Init
  <1> QED
    BY <1>3, <1>4, <1>5 DEF Init, OdinInit, Counts, InRate

LEMMA StatusesAdd ==
  ASSUME status_code_ \in [StatusClass -> Nat], NEW s \in StatusClass,
         status_code_' = [status_code_ EXCEPT ![s] = @ + 1]
  PROVE  Statuses' = Statuses + 1
  <1>1. /\ status_code_["ok"] \in Nat /\ status_code_["client_error"] \in Nat
        /\ status_code_["server_error"] \in Nat
    BY DEF StatusClass
  <1>2. CASE s = "ok" BY <1>1, <1>2 DEF Statuses, StatusClass
  <1>3. CASE s = "client_error" BY <1>1, <1>3 DEF Statuses, StatusClass
  <1>4. CASE s = "server_error" BY <1>1, <1>4 DEF Statuses, StatusClass
  <1> QED
    BY <1>2, <1>3, <1>4 DEF StatusClass

LEMMA CountsStep ==
  ASSUME Typed, Counts, [Next]_vars
  PROVE  Counts'
  <1>t. PlaceTypeOK /\ Places /\ ForEndpoints /\ OdinTypeOK /\ traffic' = traffic
    BY TrafficKept DEF Typed, RecordTypeOK
  <1>f. \A q : /\ Found(q)' = Found(q) /\ IsAdmin(q)' = IsAdmin(q)
               /\ Throws(q)' = Throws(q) /\ StatusOf(q)' = StatusOf(q)
    BY <1>t, SameTraffic
  <1> DEFINE Others(r) == \A q \in Request \ {r} :
                 (worker'[q] = "idle" <=> worker[q] = "idle") /\ handler'[q] = handler[q]
             Flags(q) == /\ handler[q] = "timing" => ~IsAdmin(q)
                         /\ Found(q) /\ Throws(q) => handler[q] \in {"none", "pooled", "run", "thrown"}
             Flags1(q) == /\ handler'[q] = "timing" => ~IsAdmin(q)
                          /\ Found(q) /\ Throws(q) => handler'[q] \in {"none", "pooled", "run", "thrown"}
  <1>g. ASSUME NEW r \in Request, Others(r), Flags1(r)
        PROVE  \A q \in Request : /\ handler'[q] = "timing" => ~IsAdmin(q)'
                                  /\ Found(q)' /\ Throws(q)' =>
                                         handler'[q] \in {"none", "pooled", "run", "thrown"}
    BY <1>f, <1>g DEF Counts
  <1>1. ASSUME NEW r \in Request, Handle(r) PROVE Counts'
    <2>1. /\ worker[r] = "idle" /\ worker'[r] = "handle"
          /\ \A q \in Request \ {r} : worker'[q] = "idle" <=> worker[q] = "idle"
          /\ handler' = [handler EXCEPT ![r] = Launched(r)]
          /\ Count(IsAdmin(r))
      BY <1>1, <1>t, HandleMoves DEF Handle
    <2>2. Others(r) /\ worker'[r] = "handle" /\ handler'[r] = Launched(r)
      BY <1>t, <2>1 DEF PlaceTypeOK
    <2>3. Launched(r) \in {"pooled", "run", "head"} /\ (Launched(r) = "head" => ~Found(r))
      BY DEF Launched
    <2>4. /\ r \notin Counted /\ r \notin Served /\ r \notin WithStatus
          /\ r \in Counted' <=> ~IsAdmin(r)
          /\ r \notin Served' /\ r \notin WithStatus'
      BY <1>f, <2>1, <2>2, <2>3 DEF Counted, Served, WithStatus
    <2>5. /\ Cardinality(Counted') = Cardinality(Counted) + (IF IsAdmin(r) THEN 0 ELSE 1)
          /\ Cardinality(Served') = Cardinality(Served)
          /\ Cardinality(WithStatus') = Cardinality(WithStatus)
          /\ Cardinality(Counted) \in Nat
      BY <1>t, <2>2, <2>4, CountedMove
    <2>6. InRate'
      <3>1. /\ request_count_' = request_count_ + (IF IsAdmin(r) THEN 0 ELSE 1)
            /\ ~late' => ~late /\ (IsAdmin(r) \/ current_rps = -1)
            /\ UNCHANGED <<current_rps, sampled>>
            /\ request_count_ \in Nat /\ sampled \in Nat
        <4>1. request_count_ \in Nat /\ sampled \in Nat /\ late \in BOOLEAN
          BY <1>t DEF OdinTypeOK
        <4>2. CASE IsAdmin(r)
          <5>1. /\ request_count_' = request_count_ /\ late' = late
                /\ UNCHANGED <<current_rps, sampled>>
            BY <2>1, <4>1, <4>2 DEF Count
          <5> QED
            BY <4>1, <4>2, <5>1
        <4>3. CASE ~IsAdmin(r) BY <2>1, <4>1, <4>3 DEF Count
        <4> QED
          BY <4>2, <4>3
      <3> DEFINE n == Cardinality(Counted)
                 m == Cardinality(Counted')
      <3>2. m = n + (IF IsAdmin(r) THEN 0 ELSE 1) /\ n \in Nat
        BY <2>5
      <3>3. ~late => current_rps \in {-1, request_count_} /\ sampled + request_count_ = n
        BY DEF Counts, InRate
      <3> HIDE DEF n, m
      <3>4. ~late' => current_rps' \in {-1, request_count_'} /\ sampled' + request_count_' = m
        BY <3>1, <3>2, <3>3
      <3> QED
        BY <3>4 DEF InRate, m
    <2>7. requests_served_' = requests_served_ /\ Statuses' = Statuses
      BY <2>1 DEF Count, recordVars, Statuses
    <2>8. Flags1(r)
      BY <2>2, <2>3
    <2> HIDE DEF Others, Flags1
    <2> QED
      BY <1>g, <2>2, <2>5, <2>6, <2>7, <2>8 DEF Counts
  <1>2. ASSUME NEW r \in Request, WorkerMove(r) \/ PoolRuns(r) PROVE Counts'
    <2>1. /\ Others(r) /\ (worker'[r] = "idle" <=> worker[r] = "idle")
          /\ handler'[r] = handler[r] \/ (handler[r] = "pooled" /\ handler'[r] = "run")
      <3>1. CASE WorkerMove(r)
        <4>1. /\ UNCHANGED handler /\ worker[r] # "idle"
              /\ \E place \in {"release", "save", "write", "again", "read", "gone"} :
                     worker' = [worker EXCEPT ![r] = place]
          BY <1>t, <3>1, WorkerMoves
        <4> QED
          BY <1>t, <4>1 DEF PlaceTypeOK
      <3>2. CASE PoolRuns(r)
        BY <1>t, <3>2 DEF PoolRuns, GoHandler, placeVars, PlaceTypeOK
      <3> QED
        BY <1>2, <3>1, <3>2
    <2>2. UNCHANGED odinVars
      BY <1>2 DEF WorkerMove, WorkerStep, HandleReturns, ReleaseEvent, Save,
                SaveEnd, LockForRead, ReadEnds, Hangup, ReturnEof, TakeEvent, PoolRuns
    <2>3. /\ r \in Counted' <=> r \in Counted
          /\ r \in Served' <=> r \in Served
          /\ r \in WithStatus' <=> r \in WithStatus
      BY <1>f, <2>1 DEF Counted, Served, WithStatus
    <2>4. /\ Cardinality(Counted') = Cardinality(Counted)
          /\ Cardinality(Served') = Cardinality(Served)
          /\ Cardinality(WithStatus') = Cardinality(WithStatus)
      BY <1>t, <2>1, <2>3, CountedMove
    <2>5. Flags1(r)
      BY <2>1 DEF Counts
    <2> HIDE DEF Others, Flags1
    <2> QED
      BY <1>g, <2>1, <2>2, <2>4, <2>5 DEF Counts, InRate, Statuses, odinVars
  <1>3. ASSUME NEW r \in Request, HandlerStep(r) PROVE Counts'
    <2>1. /\ UNCHANGED worker /\ handler[r] \in InProgress /\ Others(r)
      BY <1>3, <1>t, HandlerMoves DEF PlaceTypeOK
    <2>2. worker[r] # "idle"
      BY <1>t, <2>1 DEF Places, InProgress
    <2>3. /\ r \in Counted' <=> r \in Counted
          /\ r \in Counted <=> ~IsAdmin(r)
          /\ r \notin Served
      BY <1>f, <2>1, <2>2 DEF Counted, Served, InProgress
    <2>4. Cardinality(Counted') = Cardinality(Counted)
      BY <1>t, <2>1, <2>3, CountedMove
    <2>5. CASE Run(r)
      <3>1. /\ handler[r] = "run" /\ handler'[r] = "head" /\ ~Throws(r) /\ Found(r)
            /\ CountStatus(IsAdmin(r), StatusOf(r))
        BY <1>t, <2>5 DEF Run, GoHandler, PlaceTypeOK, ForEndpoints, Throws, StatusOf
      <3>2. /\ r \notin Served' /\ r \notin WithStatus
            /\ r \in WithStatus' <=> ~IsAdmin(r) /\ StatusOf(r) \in StatusClass
        BY <1>f, <2>3, <3>1 DEF Served, WithStatus
      <3>3. /\ Cardinality(Served') = Cardinality(Served)
            /\ Cardinality(WithStatus') = Cardinality(WithStatus)
                   + (IF ~IsAdmin(r) /\ StatusOf(r) \in StatusClass THEN 1 ELSE 0)
        BY <1>t, <2>1, <2>3, <3>2, CountedMove
      <3>4. Statuses' = Statuses + (IF ~IsAdmin(r) /\ StatusOf(r) \in StatusClass THEN 1 ELSE 0)
        <4>1. CASE ~IsAdmin(r) /\ StatusOf(r) \in StatusClass
          <5>1. status_code_' = [status_code_ EXCEPT ![StatusOf(r)] = @ + 1]
            BY <3>1, <4>1 DEF CountStatus
          <5> QED
            BY <1>t, <4>1, <5>1, StatusesAdd DEF OdinTypeOK
        <4>2. CASE ~(~IsAdmin(r) /\ StatusOf(r) \in StatusClass)
          <5>1. Statuses' = Statuses
            BY <3>1, <4>2 DEF CountStatus, Statuses
          <5>2. Statuses \in Int
            BY <1>t DEF OdinTypeOK, Statuses, StatusClass
          <5> QED
            BY <4>2, <5>1, <5>2
        <4> QED
          BY <4>1, <4>2
      <3>5. UNCHANGED <<late, current_rps, sampled, request_count_, requests_served_>>
        BY <3>1 DEF CountStatus, countVars, recordVars
      <3>6. Flags1(r)
        BY <3>1
      <3> HIDE DEF Others, Flags1
      <3> QED
        BY <1>g, <2>1, <2>4, <3>3, <3>4, <3>5, <3>6 DEF Counts, InRate
    <2>6. CASE RecordTiming(r)
      <3>1. /\ handler[r] = "timing" /\ handler'[r] = "ended" /\ Found(r) /\ ~IsAdmin(r)
            /\ requests_served_' = requests_served_ + 1
            /\ UNCHANGED <<late, current_rps, sampled, request_count_, status_code_>>
        BY <1>t, <2>6 DEF RecordTiming, GoHandler, PlaceTypeOK, ForEndpoints, Counts, PushTiming,
                          countVars
      <3>2. r \in Served' /\ (r \in WithStatus' <=> r \in WithStatus)
        BY <1>f, <2>3, <3>1 DEF Served, WithStatus
      <3>3. /\ Cardinality(Served') = Cardinality(Served) + 1
            /\ Cardinality(WithStatus') = Cardinality(WithStatus)
        BY <1>t, <2>1, <2>3, <3>2, CountedMove
      <3>4. Flags1(r)
        BY <3>1 DEF Counts
      <3> HIDE DEF Others, Flags1
      <3> QED
        BY <1>g, <2>1, <2>4, <3>1, <3>3, <3>4 DEF Counts, InRate, Statuses
    <2>7. CASE ~Run(r) /\ ~RecordTiming(r)
      <3>1. /\ UNCHANGED <<late, current_rps, sampled, request_count_, status_code_, requests_served_>>
        <4>1. UNCHANGED odinVars \/ PushRing(r)
          BY <1>3, <2>7 DEF HandlerStep, RunThrows, WriteHead, Serialize, Inserted, FinishHeaders, WriteHeaders,
                      ReadClosedFile, WriteBody, NextBuffer, WriteData, WriteFails, Throw, ReleaseFinish, CloseStream, PostSend
        <4> QED
          BY <4>1 DEF odinVars, PushRing, countVars
      <3>2. r \notin Served'
        BY <1>3, <1>f, <2>3, <2>7, EndsUnserved DEF Served
      <3>3. \/ RunThrows(r) /\ handler[r] = "run" /\ Throws(r) /\ handler'[r] = "thrown"
            \/ /\ handler[r] \notin {"none", "pooled", "run", "thrown", "ended"}
               /\ handler'[r] \notin {"none", "pooled", "run"}
        <4>1. \E place \in InProgress \cup {"ended", "thrown"} :
                 handler' = [handler EXCEPT ![r] = place]
          BY <1>3, <1>t, HandlerMoves
        <4>2. CASE RunThrows(r)
          BY <1>t, <4>2 DEF RunThrows, Throw, Throws, PlaceTypeOK
        <4>3. ASSUME WriteHead(r) \/ Serialize(r) \/ FinishHeaders(r) \/ WriteHeaders(r)
                     \/ ReadClosedFile(r) \/ WriteBody(r) \/ NextBuffer(r) \/ WriteData(r) \/ WriteFails(r)
              PROVE  /\ handler[r] \in {"head", "serialized", "framed", "body", "frames"}
                     /\ handler'[r] \in {"head", "serialized", "framed", "body", "frames", "sent", "thrown"}
          BY <1>t, <4>3 DEF WriteHead, Serialize, Inserted, FinishHeaders, WriteHeaders,
                ReadClosedFile, placeVars, WriteBody, NextBuffer, WriteData,
                      WriteFails, Throw, AfterBuffer, GoHandler, PlaceTypeOK
        <4>4. ASSUME ReleaseFinish(r) \/ CloseStream(r) \/ PostSend(r)
              PROVE  /\ handler[r] \in {"sent", "closing", "post"}
                     /\ handler'[r] \in {"closing", "post", "timing", "ended"}
          BY <1>t, <4>4 DEF ReleaseFinish, CloseStream, PostSend, GoHandler, PlaceTypeOK
        <4> QED
          BY <1>3, <2>7, <4>2, <4>3, <4>4 DEF HandlerStep
      <3>4. r \in WithStatus' <=> r \in WithStatus
        BY <1>f, <2>3, <3>3 DEF WithStatus
      <3>5. /\ Cardinality(Served') = Cardinality(Served)
            /\ Cardinality(WithStatus') = Cardinality(WithStatus)
        BY <1>t, <2>1, <2>3, <3>2, <3>4, CountedMove
      <3>6. Flags1(r)
        <4>1. Flags(r)
          BY DEF Counts
        <4> QED
          BY <1>3, <2>7, <3>3, <4>1, EndsUnserved
      <3> HIDE DEF Others, Flags1
      <3> QED
        BY <1>g, <2>1, <2>4, <3>1, <3>5, <3>6 DEF Counts, InRate, Statuses
    <2> QED
      BY <2>5, <2>6, <2>7
  <1>4. CASE RateStep
    <2>1. UNCHANGED <<worker, handler>>
      BY <1>4 DEF RateStep, placeVars
    <2>2. Counted' = Counted
      BY <1>f, <2>1 DEF Counted
    <2>3. Served' = Served /\ WithStatus' = WithStatus
      BY <1>f, <2>1, <2>2 DEF Served, WithStatus
    <2>4. UNCHANGED <<requests_served_, status_code_, late>>
      BY <1>4 DEF RateStep, ReadCount, ResetCount, recordVars
    <2>5. InRate'
      <3> DEFINE n == Cardinality(Counted)
      <3>1. ~late => current_rps \in {-1, request_count_} /\ sampled + request_count_ = n
        BY DEF Counts, InRate
      <3> HIDE DEF n
      <3>2. request_count_ \in Nat /\ sampled \in Nat /\ current_rps \in Nat \cup {-1}
        BY <1>t DEF OdinTypeOK
      <3>3. ~late => current_rps' \in {-1, request_count_'} /\ sampled' + request_count_' = n
        <4>1. CASE ReadCount
          BY <3>1, <3>2, <4>1 DEF ReadCount
        <4>2. CASE ResetCount
          BY <3>1, <3>2, <4>2 DEF ResetCount
        <4> QED
          BY <1>4, <4>1, <4>2 DEF RateStep
      <3> QED
        BY <2>2, <2>4, <3>3 DEF InRate, n
    <2> QED
      BY <1>f, <2>1, <2>3, <2>4, <2>5 DEF Counts, Statuses
  <1>5. ASSUME Quiet \/ UNCHANGED vars PROVE Counts'
    <2>1. UNCHANGED <<worker, handler, odinVars>>
      BY <1>5 DEF Quiet, vars, placeVars
    <2>2. Counted' = Counted
      BY <1>f, <2>1 DEF Counted
    <2>3. Served' = Served /\ WithStatus' = WithStatus
      BY <1>f, <2>1, <2>2 DEF Served, WithStatus
    <2> QED
      BY <1>f, <2>1, <2>2, <2>3 DEF Counts, InRate, Statuses, odinVars
  <1> QED
    BY <1>1, <1>2, <1>3, <1>4, <1>5 DEF Next, WorkerMove

(* The counters of odin add up: every request that is not for odin itself  *)
(* is in the rate or waits to be, unless one came between reading and      *)
(* resetting; the served are those that got an answer from an endpoint,    *)
(* and the statuses are between them and all that had an endpoint.         *)
THEOREM CountersAddUp == Spec => []CountsAddUp
  <1>1. Init => Typed /\ Counts
    BY TypedInit, CountsInit
  <1>2. (Typed /\ Counts) /\ [Next]_vars => (Typed /\ Counts)'
    BY TypedStep, CountsStep
  <1>3. Typed /\ Counts => CountsAddUp
    <2> SUFFICES ASSUME Typed, Counts PROVE CountsAddUp
      OBVIOUS
    <2> DEFINE low == {r \in Served : StatusOf(r) \in StatusClass}
               high == {r \in Counted : Found(r)}
    <2>1. low \subseteq WithStatus /\ WithStatus \subseteq high /\ high \subseteq Request
      BY DEF Counts, Served, WithStatus, Counted
    <2>2. /\ Cardinality(low) <= Cardinality(WithStatus)
          /\ Cardinality(WithStatus) <= Cardinality(high)
      <3>1. IsFiniteSet(high) /\ IsFiniteSet(WithStatus)
        BY <2>1, FS_Subset
      <3> QED
        BY <2>1, <3>1, FS_Subset
    <2>3. /\ Cardinality(low) \in Nat /\ Cardinality(WithStatus) \in Nat
          /\ Cardinality(high) \in Nat
      <3>1. IsFiniteSet(high) /\ IsFiniteSet(WithStatus) /\ IsFiniteSet(low)
        BY <2>1, FS_Subset
      <3> QED
        BY <3>1, FS_CardinalityType
    <2>4. Statuses \in Cardinality(low) .. Cardinality(high)
      BY <2>2, <2>3 DEF Counts
    <2> QED
      BY <2>4 DEF Counts, InRate, CountsAddUp, Counted, Served, Statuses, StatusOf
  <1> QED
    BY <1>1, <1>2, <1>3, PTL DEF Spec

-----------------------------------------------------------------------------
(* The records of odin.  Slot(j) of timings_ has the j-th newest timing.   *)
Slot(j) == IF j <= timing_idx_ THEN timing_idx_ - j ELSE timing_idx_ - j + Timings
Entries == 0 .. Timings - 1

Least(m, n) == IF m < n THEN m ELSE n
Between == {r \in Request : handler[r] = "timing"}
Timed == {timings_[i] : i \in Entries} \ {NoTiming}

(* No request is recorded before it has come to the lock, or twice.        *)
RingOnce ==
    /\ IsInjective(ring_buffer_)
    /\ \A i \in 1 .. Len(ring_buffer_) : handler[ring_buffer_[i]] \in {"timing", "ended"}
    /\ Len(ring_buffer_) = Least(RingSize, requests_served_ + Cardinality(Between))

TimedOnce ==
    /\ requests_served_ < Timings => timing_idx_ = requests_served_
    /\ \A i \in Entries :
           /\ timings_[i] # NoTiming <=> requests_served_ >= Timings \/ i < requests_served_
           /\ timings_[i] # NoTiming => handler[timings_[i]] = "ended"
    /\ \A i \in Entries, j \in Entries : timings_[i] = timings_[j] /\ timings_[i] # NoTiming => i = j
    /\ Cardinality(Timed) = Least(Timings, requests_served_)

(* The ring starts with the requests that have not come to the second lock *)
(* yet, and goes on in the order of the timings.                           *)
InOrder(k) ==
    /\ \A i \in 1 .. k : handler[ring_buffer_[i]] = "timing"
    /\ \A i \in k + 1 .. Len(ring_buffer_) :
           /\ handler[ring_buffer_[i]] = "ended"
           /\ i - k <= Timings => timings_[Slot(i - k)] = ring_buffer_[i]
    /\ k < Len(ring_buffer_) => \A q \in Between : \E i \in 1 .. k : ring_buffer_[i] = q

Records ==
    /\ RingOnce /\ TimedOnce
    /\ ~passed => \E k \in 0 .. Len(ring_buffer_) : InOrder(k)

LEMMA NoneBetween ==
  ASSUME \A r \in Request : handler[r] # "timing"
  PROVE  Between = {} /\ Cardinality(Between) = 0
  <1>1. Between = {}
    BY DEF Between
  <1>2. Cardinality({}) = 0
    BY FS_EmptySet
  <1> QED
    BY <1>1, <1>2

LEMMA RecordsInit == Init => Records
  <1> SUFFICES ASSUME Init PROVE Records
    OBVIOUS
  <1>1. /\ ring_buffer_ = << >> /\ timing_idx_ = 0 /\ requests_served_ = 0 /\ passed = FALSE
        /\ timings_ = [i \in Entries |-> NoTiming]
        /\ \A r \in Request : handler[r] = "none"
    BY DEF Init, OdinInit, Entries
  <1>2. Cardinality(Between) = 0
    BY <1>1, NoneBetween
  <1>3. RingOnce
    <2>1. Len(ring_buffer_) = 0 /\ IsInjective(ring_buffer_)
      BY <1>1 DEF IsInjective
    <2> QED
      BY <1>1, <1>2, <2>1 DEF RingOnce, Least
  <1>4. TimedOnce
    <2>1. Timed = {}
      BY <1>1 DEF Timed
    <2>2. Cardinality(Timed) = 0
      BY <2>1, FS_EmptySet
    <2> QED
      BY <1>1, <2>2 DEF TimedOnce, Least, Entries
  <1>5. InOrder(0) /\ 0 \in 0 .. Len(ring_buffer_)
    BY <1>1 DEF InOrder
  <1> QED
    BY <1>3, <1>4, <1>5 DEF Records

(* Steps that record nothing. *)
LEMMA RecordsKept ==
  ASSUME RecordTypeOK, Records, UNCHANGED recordVars,
         \A q \in Request : /\ handler'[q] = "timing" <=> handler[q] = "timing"
                            /\ handler[q] = "ended" => handler'[q] = "ended"
  PROVE  Records'
  <1>1. /\ UNCHANGED <<ring_buffer_, timings_, timing_idx_, requests_served_, passed>>
        /\ \A i \in 1 .. Len(ring_buffer_) : ring_buffer_[i] \in Request
        /\ \A i \in Entries : timings_[i] \in Request \cup {NoTiming}
    BY DEF recordVars, RecordTypeOK, Entries
  <1>2. Between' = Between /\ Timed' = Timed
    BY <1>1 DEF Between, Timed
  <1>3. RingOnce'
    BY <1>1, <1>2 DEF Records, RingOnce
  <1>4. TimedOnce'
    BY <1>1, <1>2 DEF Records, TimedOnce
  <1>5. ASSUME NEW k \in 0 .. Len(ring_buffer_), InOrder(k) PROVE InOrder(k)'
    BY <1>1, <1>2, <1>5 DEF InOrder, Slot
  <1> QED
    BY <1>1, <1>3, <1>4, <1>5 DEF Records

(* The first lock. *)
LEMMA RecordsPush ==
  ASSUME RecordTypeOK, PlaceTypeOK, Records, NEW r \in Request, handler[r] = "post",
         handler' = [handler EXCEPT ![r] = "timing"], PushRing(r)
  PROVE  Records'
  <1> DEFINE n == Len(ring_buffer_)
             m == Len(ring_buffer_')
             b == Cardinality(Between)
  <1>1. /\ UNCHANGED <<timings_, timing_idx_, requests_served_, passed>>
        /\ handler'[r] = "timing" /\ \A q \in Request \ {r} : handler'[q] = handler[q]
        /\ \A i \in Entries : timings_[i] \in Request \cup {NoTiming}
        /\ requests_served_ \in Nat /\ n \in Nat /\ n <= RingSize
    BY DEF PushRing, PlaceTypeOK, RecordTypeOK, OdinTypeOK, Entries
  <1>2. /\ ring_buffer_' \in Seq(Request)
        /\ m = IF n < RingSize THEN n + 1 ELSE RingSize
        /\ ring_buffer_'[1] = r
        /\ \A i \in 2 .. m : ring_buffer_'[i] = ring_buffer_[i - 1]
    BY RingStep DEF RecordTypeOK, OdinTypeOK
  <1>3. /\ \A i \in 1 .. n : ring_buffer_[i] \in Request \ {r}
        /\ \A i \in 1 .. n, j \in 1 .. n : ring_buffer_[i] = ring_buffer_[j] => i = j
    <2>1. RingOnce /\ ring_buffer_ \in Seq(Request)
      BY DEF RecordTypeOK, Records
    <2>2. ASSUME NEW i \in 1 .. n PROVE ring_buffer_[i] \in Request \ {r}
      BY <2>1 DEF RingOnce
    <2>3. \A i \in 1 .. n, j \in 1 .. n : ring_buffer_[i] = ring_buffer_[j] => i = j
      BY <2>1 DEF RingOnce, IsInjective
    <2> QED
      BY <2>2, <2>3
  <1>4. Cardinality(Between') = b + 1 /\ b \in Nat
    <2>1. IsFiniteSet(Between) /\ r \notin Between /\ Between' = Between \cup {r}
      <3>1. IsFiniteSet(Between)
        <4>1. Between \subseteq Request
          BY DEF Between
        <4> QED
          BY <4>1, FS_Subset
      <3> QED
        BY <1>1, <3>1 DEF Between
    <2> QED
      BY <2>1, FS_AddElement, FS_CardinalityType
  <1>5. RingOnce'
    <2> HIDE DEF m, b, n
    <2>1. IsInjective(ring_buffer_')
      <3> SUFFICES ASSUME NEW i \in 1 .. m, NEW j \in 1 .. m, ring_buffer_'[i] = ring_buffer_'[j]
                   PROVE  i = j
        BY <1>2 DEF IsInjective, m
      <3>1. m \in Nat /\ m <= n + 1
        BY <1>1, <1>2
      <3>2. CASE i = 1 /\ j = 1
        BY <3>2
      <3>3. CASE i = 1 /\ j # 1
        <4>1. j \in 2 .. m /\ j - 1 \in 1 .. n
          BY <1>1, <3>1, <3>3
        <4> QED
          BY <1>2, <1>3, <3>3, <4>1
      <3>4. CASE i # 1 /\ j = 1
        <4>1. i \in 2 .. m /\ i - 1 \in 1 .. n
          BY <1>1, <3>1, <3>4
        <4> QED
          BY <1>2, <1>3, <3>4, <4>1
      <3>5. CASE i # 1 /\ j # 1
        <4>1. i \in 2 .. m /\ i - 1 \in 1 .. n /\ j \in 2 .. m /\ j - 1 \in 1 .. n
          BY <1>1, <3>1, <3>5
        <4>2. i - 1 = j - 1
          BY <1>2, <1>3, <4>1
        <4> QED
          BY <4>2
      <3> QED
        BY <3>2, <3>3, <3>4, <3>5
    <2>2. ASSUME NEW i \in 1 .. m PROVE handler'[ring_buffer_'[i]] \in {"timing", "ended"}
      <3>1. CASE i = 1
        BY <1>1, <1>2, <3>1
      <3>2. CASE i # 1
        <4>1. i \in 2 .. m /\ i - 1 \in 1 .. n
          BY <1>1, <1>2, <3>2
        <4>2. handler[ring_buffer_[i - 1]] \in {"timing", "ended"}
          BY <4>1 DEF Records, RingOnce, n
        <4> QED
          BY <1>1, <1>2, <1>3, <4>1, <4>2
      <3> QED
        BY <3>1, <3>2
    <2>3. m = Least(RingSize, requests_served_ + (b + 1))
      <3>1. n = Least(RingSize, requests_served_ + b)
        BY DEF Records, RingOnce, n, b
      <3> QED
        BY <1>1, <1>2, <1>4, <3>1 DEF Least
    <2> QED
      BY <1>1, <1>4, <2>1, <2>2, <2>3 DEF RingOnce, m, b
  <1>6. TimedOnce'
    <2>1. Timed' = Timed
      BY <1>1 DEF Timed
    <2>2. \A i \in Entries : timings_[i] # NoTiming => handler'[timings_[i]] = "ended"
      BY <1>1 DEF Records, TimedOnce
    <2> QED
      BY <1>1, <2>1, <2>2 DEF Records, TimedOnce
  <1>7. ASSUME NEW k \in 0 .. n, InOrder(k)
        PROVE  \E l \in 0 .. m : InOrder(l)'
    <2> DEFINE l == IF k + 1 <= m THEN k + 1 ELSE m
    <2> HIDE DEF m, n
    <2>1. /\ m \in Nat \ {0} /\ m <= n + 1 /\ l \in 1 .. m /\ l <= k + 1
          /\ l < m => l = k + 1
      BY <1>1, <1>2
    <2> HIDE DEF l
    <2>2. ASSUME NEW i \in 1 .. l PROVE handler'[ring_buffer_'[i]] = "timing"
      <3>1. CASE i = 1
        BY <1>1, <1>2, <3>1
      <3>2. CASE i # 1
        <4>1. i \in 2 .. m /\ i - 1 \in 1 .. n /\ i - 1 \in 1 .. k
          BY <1>1, <2>1, <3>2
        <4> QED
          BY <1>1, <1>2, <1>3, <1>7, <4>1 DEF InOrder
      <3> QED
        BY <3>1, <3>2
    <2>3. ASSUME NEW i \in l + 1 .. m
          PROVE  /\ handler'[ring_buffer_'[i]] = "ended"
                 /\ i - l <= Timings => timings_[Slot(i - l)] = ring_buffer_'[i]
      <3>1. /\ i \in 2 .. m /\ i - 1 \in 1 .. n /\ i - 1 \in k + 1 .. n /\ i - l = (i - 1) - k
        BY <1>1, <2>1
      <3>2. ring_buffer_'[i] = ring_buffer_[i - 1] /\ ring_buffer_[i - 1] \in Request \ {r}
        BY <1>2, <1>3, <3>1
      <3>3. /\ handler[ring_buffer_[i - 1]] = "ended"
            /\ (i - 1) - k <= Timings => timings_[Slot((i - 1) - k)] = ring_buffer_[i - 1]
        BY <1>7, <3>1 DEF InOrder, n
      <3> QED
        BY <1>1, <3>1, <3>2, <3>3
    <2>4. ASSUME l < m, NEW q \in Between' PROVE \E i \in 1 .. l : ring_buffer_'[i] = q
      <3>1. CASE q = r
        BY <1>2, <2>1, <3>1
      <3>2. CASE q # r
        <4>1. q \in Between /\ k < n
          BY <1>1, <2>1, <2>4, <3>2 DEF Between
        <4>2. PICK i \in 1 .. k : ring_buffer_[i] = q
          BY <1>7, <4>1 DEF InOrder, n
        <4>3. i + 1 \in 1 .. l /\ i + 1 \in 2 .. m /\ (i + 1) - 1 = i
          BY <2>1, <2>4
        <4> QED
          BY <1>2, <4>2, <4>3
      <3> QED
        BY <3>1, <3>2
    <2>5. Slot(0)' = Slot(0) /\ \A j \in Int : Slot(j)' = Slot(j)
      BY <1>1 DEF Slot
    <2>6. \A i \in l + 1 .. m : i - l \in Int
      BY <2>1
    <2>7. ASSUME NEW e \in 1 .. m, e = l PROVE InOrder(e)'
      BY <1>1, <2>2, <2>3, <2>4, <2>5, <2>6, <2>7 DEF InOrder, m
    <2> QED
      BY <2>1, <2>7
  <1> QED
    BY <1>1, <1>5, <1>6, <1>7 DEF Records

(* Where the timings go: the newest is in Slot(1), and the rest moves on.  *)
LEMMA SlotMoves ==
  ASSUME timing_idx_ \in Entries, timing_idx_' = (timing_idx_ + 1) % Timings
  PROVE  /\ timing_idx_' = IF timing_idx_ + 1 < Timings THEN timing_idx_ + 1 ELSE 0
         /\ Slot(1)' = timing_idx_
         /\ \A j \in 1 .. Timings - 1 : /\ Slot(j + 1)' = Slot(j)
                                        /\ Slot(j) \in Entries \ {timing_idx_}
  <1>1. timing_idx_' = IF timing_idx_ + 1 < Timings THEN timing_idx_ + 1 ELSE 0
    BY DEF Entries
  <1> QED
    BY <1>1 DEF Entries, Slot

(* The second lock. *)
LEMMA RecordsTime ==
  ASSUME RecordTypeOK, PlaceTypeOK, Records, NEW r \in Request, handler[r] = "timing",
         handler' = [handler EXCEPT ![r] = "ended"], PushTiming(r, Between)
  PROVE  Records'
  <1> DEFINE n == Len(ring_buffer_)
             idx == timing_idx_
             s == requests_served_
             b == Cardinality(Between)
  <1>1. /\ timings_' = [timings_ EXCEPT ![idx] = r] /\ timing_idx_' = (idx + 1) % Timings
        /\ requests_served_' = s + 1 /\ ring_buffer_' = ring_buffer_
        /\ handler'[r] = "ended" /\ \A q \in Request \ {r} : handler'[q] = handler[q]
        /\ idx \in Entries /\ s \in Nat /\ n \in Nat
        /\ timings_ \in [Entries -> Request \cup {NoTiming}] /\ NoTiming \notin Request
    BY DEF PushTiming, PlaceTypeOK, RecordTypeOK, OdinTypeOK, Entries
  <1>2. /\ timings_'[idx] = r /\ \A i \in Entries \ {idx} : timings_'[i] = timings_[i]
        /\ \A i \in Entries : timings_[i] # r
    BY <1>1 DEF Records, TimedOnce
  <1>3. \A i \in 1 .. n : ring_buffer_[i] \in Request
    BY DEF RecordTypeOK
  <1>4. Cardinality(Between') = b - 1 /\ b \in Nat \ {0} /\ Between' = Between \ {r}
    <2>1. IsFiniteSet(Between) /\ r \in Between /\ Between' = Between \ {r}
      <3>1. IsFiniteSet(Between)
        <4>1. Between \subseteq Request
          BY DEF Between
        <4> QED
          BY <4>1, FS_Subset
      <3> QED
        BY <1>1, <3>1 DEF Between
    <2>2. Cardinality(Between) # 0
      BY <2>1, FS_EmptySet
    <2> QED
      BY <2>1, <2>2, FS_RemoveElement, FS_CardinalityType
  <1>5. RingOnce'
    <2>1. \A i \in 1 .. n : handler'[ring_buffer_[i]] \in {"timing", "ended"}
      BY <1>1, <1>3 DEF Records, RingOnce
    <2> HIDE DEF b, s
    <2>2. n = Least(RingSize, (s + 1) + (b - 1))
      <3>1. n = Least(RingSize, s + b)
        BY DEF Records, RingOnce, s, b
      <3>2. (s + 1) + (b - 1) = s + b
        BY <1>1, <1>4
      <3> QED
        BY <3>1, <3>2
    <2> QED
      BY <1>1, <1>4, <2>1, <2>2 DEF Records, RingOnce, s, b
  <1>6. TimedOnce'
    <2>0. /\ s < Timings => idx = s
          /\ \A i \in Entries : /\ timings_[i] # NoTiming <=> s >= Timings \/ i < s
                                /\ timings_[i] # NoTiming => handler[timings_[i]] = "ended"
          /\ \A i \in Entries, j \in Entries :
                 timings_[i] = timings_[j] /\ timings_[i] # NoTiming => i = j
          /\ Cardinality(Timed) = Least(Timings, s)
      BY DEF Records, TimedOnce
    <2>1. s + 1 < Timings => timing_idx_' = s + 1
      BY <1>1, <2>0, SlotMoves
    <2>2. ASSUME NEW i \in Entries
          PROVE  /\ timings_'[i] # NoTiming <=> s + 1 >= Timings \/ i < s + 1
                 /\ timings_'[i] # NoTiming => handler'[timings_'[i]] = "ended"
      <3>1. CASE i = idx
        BY <1>1, <1>2, <2>0, <3>1 DEF Entries
      <3>2. CASE i # idx
        <4>1. timings_'[i] = timings_[i] /\ timings_[i] \in Request \cup {NoTiming} /\ timings_[i] # r
          BY <1>1, <1>2, <3>2
        <4>2. timings_[i] # NoTiming <=> s + 1 >= Timings \/ i < s + 1
          BY <1>1, <2>0, <3>2 DEF Entries
        <4> QED
          BY <1>1, <2>0, <4>1, <4>2
      <3> QED
        BY <3>1, <3>2
    <2>3. ASSUME NEW i \in Entries, NEW j \in Entries, timings_'[i] = timings_'[j], timings_'[i] # NoTiming
          PROVE  i = j
      BY <1>2, <2>0, <2>3
    <2>4. Timed' = (Timed \ {timings_[idx]}) \cup {r}
      <3>1. ASSUME NEW q \in Timed' PROVE q \in (Timed \ {timings_[idx]}) \cup {r}
        <4>1. PICK i \in Entries : q = timings_'[i] /\ q # NoTiming
          BY DEF Timed
        <4> QED
          BY <1>1, <1>2, <2>0, <4>1 DEF Timed
      <3>2. ASSUME NEW q \in Timed, q # timings_[idx] PROVE q \in Timed'
        <4>1. PICK i \in Entries : q = timings_[i] /\ q # NoTiming
          BY DEF Timed
        <4> QED
          BY <1>2, <3>2, <4>1 DEF Timed
      <3>3. r \in Timed'
        BY <1>1, <1>2 DEF Timed
      <3> QED
        BY <3>1, <3>2, <3>3
    <2>5. IsFiniteSet(Timed) /\ r \notin Timed
      <3>1. Timed \subseteq Request
        BY <1>1 DEF Timed
      <3> QED
        BY <1>2, <3>1, FS_Subset DEF Timed
    <2>6. Cardinality(Timed') = Least(Timings, s + 1)
      <3>1. CASE s < Timings
        <4>1. timings_[idx] = NoTiming /\ Timed' = Timed \cup {r}
          BY <1>1, <2>0, <2>4, <3>1 DEF Entries, Timed
        <4>2. Cardinality(Timed') = Cardinality(Timed) + 1
          BY <2>5, <4>1, FS_AddElement
        <4>3. Cardinality(Timed) = s
          BY <1>1, <2>0, <3>1 DEF Least
        <4> QED
          BY <1>1, <3>1, <4>2, <4>3 DEF Least
      <3>2. CASE ~(s < Timings)
        <4>1. timings_[idx] \in Timed
          BY <1>1, <2>0, <3>2 DEF Timed, Entries
        <4>2. IsFiniteSet(Timed \ {timings_[idx]}) /\ r \notin Timed \ {timings_[idx]}
              /\ Cardinality(Timed \ {timings_[idx]}) = Cardinality(Timed) - 1
              /\ Cardinality(Timed) \in Nat
          BY <2>5, <4>1, FS_RemoveElement, FS_CardinalityType
        <4>3. Cardinality(Timed') = Cardinality(Timed \ {timings_[idx]}) + 1
          BY <2>4, <4>2, FS_AddElement
        <4>4. Cardinality(Timed) = Timings
          BY <1>1, <2>0, <3>2 DEF Least
        <4> QED
          BY <1>1, <3>2, <4>2, <4>3, <4>4 DEF Least
      <3> QED
        BY <3>1, <3>2
    <2> QED
      BY <1>1, <2>1, <2>2, <2>3, <2>6 DEF TimedOnce
  <1>7. ASSUME ~passed' PROVE \E k \in 0 .. n : InOrder(k)'
    <2>1. ~passed /\ \A q \in Between : ~Passes(r, q)
      BY <1>7 DEF PushTiming
    <2>2. PICK k \in 0 .. n : InOrder(k)
      BY <2>1 DEF Records
    <2>3. \A q \in Between \ {r} : \E i \in 1 .. n :
              ring_buffer_[i] = q /\ \A j \in 1 .. n : ring_buffer_[j] = r => i < j
      <3>1. DOMAIN ring_buffer_ = 1 .. n
        BY DEF RecordTypeOK
      <3> QED
        BY <2>1, <3>1 DEF Passes
    <2>4. \A i \in 1 .. n, j \in 1 .. n : ring_buffer_[i] = ring_buffer_[j] => i = j
      BY DEF Records, RingOnce, IsInjective, RecordTypeOK
    <2>5. CASE \E j \in 1 .. n : ring_buffer_[j] = r
      <3>1. PICK j \in 1 .. n : ring_buffer_[j] = r
        BY <2>5
      <3> HIDE DEF n
      <3>2. j = k
        <4>1. j <= k
          <5> SUFFICES ASSUME j \in k + 1 .. n PROVE FALSE
            BY <1>1, <2>2, <3>1
          <5> QED
            BY <2>2, <3>1 DEF InOrder, n
        <4>2. SUFFICES ASSUME j < k PROVE FALSE
          BY <1>1, <2>2, <4>1
        <4>3. k \in 1 .. n /\ k \in 1 .. k
          BY <1>1, <2>2, <4>2
        <4>4. ring_buffer_[k] \in Between \ {r}
          BY <1>3, <2>2, <2>4, <3>1, <4>2, <4>3 DEF InOrder, Between, n
        <4>5. PICK i \in 1 .. n : ring_buffer_[i] = ring_buffer_[k] /\ i < j
          BY <2>3, <3>1, <4>4
        <4>6. i = k
          BY <2>4, <4>3, <4>5
        <4> QED
          BY <4>2, <4>3, <4>5, <4>6
      <3>3. k - 1 \in 0 .. n
        BY <1>1, <3>1, <3>2
      <3>4. ASSUME NEW i \in 1 .. k - 1 PROVE handler'[ring_buffer_[i]] = "timing"
        <4>1. i \in 1 .. k /\ i \in 1 .. n /\ i # j
          BY <1>1, <3>1, <3>2
        <4>2. ring_buffer_[i] \in Request \ {r}
          BY <1>3, <2>4, <3>1, <4>1 DEF n
        <4> QED
          BY <1>1, <2>2, <4>1, <4>2 DEF InOrder
      <3>5. ASSUME NEW i \in (k - 1) + 1 .. n
            PROVE  /\ handler'[ring_buffer_[i]] = "ended"
                   /\ i - (k - 1) <= Timings => timings_'[Slot(i - (k - 1))'] = ring_buffer_[i]
        <4>1. CASE i = k
          <5>1. i - (k - 1) = 1
            BY <1>1, <3>3, <4>1
          <5>2. Slot(1)' = idx
            BY <1>1, SlotMoves
          <5>3. Slot(i - (k - 1))' = idx
            BY <4>1, <5>1, <5>2
          <5> QED
            BY <1>1, <1>2, <3>1, <3>2, <4>1, <5>3
        <4>2. CASE i # k
          <5>1. i \in k + 1 .. n /\ i \in 1 .. n /\ i - (k - 1) = (i - k) + 1 /\ i - k \in Nat \ {0}
            BY <1>1, <3>3, <4>2
          <5>2. handler[ring_buffer_[i]] = "ended" /\ ring_buffer_[i] \in Request
            BY <1>3, <2>2, <5>1 DEF InOrder, n
          <5>3. ASSUME (i - k) + 1 <= Timings
                PROVE  timings_'[Slot((i - k) + 1)'] = ring_buffer_[i]
            <6>1. i - k \in 1 .. Timings - 1
              BY <5>1, <5>3
            <6>2. Slot((i - k) + 1)' = Slot(i - k) /\ Slot(i - k) \in Entries \ {idx}
              BY <1>1, <6>1, SlotMoves
            <6>3. timings_[Slot(i - k)] = ring_buffer_[i]
              BY <2>2, <5>1, <6>1 DEF InOrder, n
            <6> QED
              BY <1>2, <6>2, <6>3
          <5> QED
            BY <1>1, <5>1, <5>2, <5>3
        <4> QED
          BY <4>1, <4>2
      <3>6. ASSUME NEW q \in Between' PROVE \E i \in 1 .. k - 1 : ring_buffer_[i] = q
        <4>1. q \in Between \ {r}
          BY <1>4
        <4>2. PICK i \in 1 .. n : ring_buffer_[i] = q /\ i < j
          BY <2>3, <3>1, <4>1
        <4>3. i \in 1 .. k - 1
          BY <3>2, <3>3, <4>2
        <4> QED
          BY <4>2, <4>3
      <3>7. ASSUME NEW e \in 0 .. n, e = k - 1 PROVE InOrder(e)'
        BY <1>1, <3>4, <3>5, <3>6, <3>7 DEF InOrder, n
      <3> QED
        BY <3>3, <3>7
    <2>6. CASE ~\E j \in 1 .. n : ring_buffer_[j] = r
      <3>1. k = n
        <4> SUFFICES ASSUME k < n PROVE FALSE
          BY <1>1, <2>2
        <4>1. r \in Between
          BY DEF Between
        <4>2. PICK i \in 1 .. k : ring_buffer_[i] = r
          BY <2>2, <4>1 DEF InOrder
        <4>3. i \in 1 .. n
          BY <1>1, <2>2
        <4> QED
          BY <2>6, <4>2, <4>3
      <3>2. ASSUME NEW i \in 1 .. n PROVE handler'[ring_buffer_[i]] = "timing"
        BY <1>1, <1>3, <2>2, <2>6, <3>1 DEF InOrder
      <3>3. InOrder(n)'
        BY <1>1, <3>2 DEF InOrder
      <3> QED
        BY <1>1, <3>3
    <2> QED
      BY <2>5, <2>6
  <1> QED
    BY <1>1, <1>5, <1>6, <1>7 DEF Records

LEMMA RecordsStep ==
  ASSUME Typed, Records, [Next]_vars
  PROVE  Records'
  <1>t. RecordTypeOK /\ PlaceTypeOK /\ Places
    BY DEF Typed
  <1>1. ASSUME NEW r \in Request, Handle(r) PROVE Records'
    <2>1. /\ handler' = [handler EXCEPT ![r] = Launched(r)] /\ handler[r] = "none"
          /\ Launched(r) \notin {"timing", "ended"} /\ UNCHANGED recordVars
      BY <1>1, <1>t, HandleMoves DEF Handle, Count, Launched, Places
    <2> QED
      BY <1>t, <2>1, RecordsKept DEF PlaceTypeOK
  <1>2. ASSUME NEW r \in Request, WorkerMove(r) PROVE Records'
    <2>1. UNCHANGED recordVars
      BY <1>2 DEF WorkerMove, WorkerStep, HandleReturns, ReleaseEvent, Save,
                SaveEnd, LockForRead, ReadEnds, Hangup, ReturnEof, TakeEvent, odinVars, recordVars
    <2> QED
      BY <1>2, <1>t, <2>1, WorkerMoves, RecordsKept
  <1>3. ASSUME NEW r \in Request, PoolRuns(r) PROVE Records'
    <2>1. /\ UNCHANGED recordVars /\ handler[r] = "pooled"
          /\ UNCHANGED handler \/ handler' = [handler EXCEPT ![r] = "run"]
      BY <1>3 DEF PoolRuns, GoHandler, placeVars, odinVars, recordVars
    <2> QED
      BY <1>t, <2>1, RecordsKept DEF PlaceTypeOK
  <1>4. ASSUME NEW r \in Request, HandlerStep(r) PROVE Records'
    <2>1. CASE PostSend(r) /\ ~IsAdmin(r)
      <3>1. handler[r] = "post" /\ PushRing(r) /\ handler' = [handler EXCEPT ![r] = "timing"]
        BY <2>1 DEF PostSend, GoHandler
      <3> QED
        BY <1>t, <3>1, RecordsPush
    <2>2. CASE RecordTiming(r)
      <3>1. /\ handler[r] = "timing" /\ PushTiming(r, Between)
            /\ handler' = [handler EXCEPT ![r] = "ended"]
        BY <2>2 DEF RecordTiming, GoHandler, Between
      <3> QED
        BY <1>t, <3>1, RecordsTime
    <2>3. CASE ~(PostSend(r) /\ ~IsAdmin(r)) /\ ~RecordTiming(r)
      <3>1. UNCHANGED recordVars
        BY <1>4, <2>3 DEF HandlerStep, Run, RunThrows, WriteHead, Serialize, Inserted, FinishHeaders, WriteHeaders,
                ReadClosedFile, WriteBody, NextBuffer, WriteData, WriteFails, ReleaseFinish,
                    CloseStream, PostSend, Throw, CountStatus, odinVars, recordVars
      <3> DEFINE Unrecorded ==
                   /\ handler[r] \notin {"timing", "ended"}
                   /\ \E place \in (InProgress \ {"timing"}) \cup {"ended", "thrown"} :
                          handler' = [handler EXCEPT ![r] = place]
      <3>2. Unrecorded
        <4> USE DEF GoHandler, InProgress
        <4>1. ASSUME Run(r) \/ RunThrows(r) \/ WriteHead(r) \/ Serialize(r) \/ FinishHeaders(r) \/ WriteHeaders(r)
              PROVE  Unrecorded
          BY <4>1 DEF Run, RunThrows, Throw, WriteHead, Serialize, Inserted, FinishHeaders, WriteHeaders
        <4>4. CASE ReadClosedFile(r)
          <5>1. handler' = handler /\ handler[r] = "body"
            BY <4>4 DEF ReadClosedFile, placeVars
          <5>2. handler' = [handler EXCEPT ![r] = "body"]
            BY <1>t, <5>1 DEF PlaceTypeOK
          <5> QED
            BY <5>1, <5>2
        <4>2. ASSUME WriteBody(r) \/ NextBuffer(r) \/ WriteData(r) \/ WriteFails(r)
              PROVE  Unrecorded
          BY <4>2 DEF WriteBody, NextBuffer, WriteData, WriteFails, Throw, AfterBuffer
        <4>3. ASSUME ReleaseFinish(r) \/ CloseStream(r) \/ (PostSend(r) /\ IsAdmin(r))
              PROVE  Unrecorded
          BY <4>3 DEF ReleaseFinish, CloseStream, PostSend
        <4> QED
          BY <1>4, <2>3, <4>1, <4>2, <4>3, <4>4 DEF HandlerStep
      <3> QED
        BY <1>t, <3>1, <3>2, RecordsKept DEF PlaceTypeOK
    <2> QED
      BY <2>1, <2>2, <2>3
  <1>5. ASSUME RateStep \/ Quiet \/ UNCHANGED vars PROVE Records'
    <2>1. UNCHANGED recordVars /\ UNCHANGED handler
      BY <1>5 DEF RateStep, ReadCount, ResetCount, Quiet, vars, placeVars, odinVars, recordVars
    <2> QED
      BY <1>t, <2>1, RecordsKept
  <1> QED
    BY <1>1, <1>2, <1>3, <1>4, <1>5 DEF Next, WorkerMove

(* What the page of odin shows is of the newest requests: the ring and the *)
(* timings have as many as they can hold, each once, for every size of     *)
(* theirs; and unless a request has passed another between the two locks   *)
(* of post_send, the smaller one has nothing that the larger one has not.  *)
THEOREM NewestAreRecorded == Spec => []RecentAreRecorded
  <1>1. Init => Typed /\ Records
    BY TypedInit, RecordsInit
  <1>2. (Typed /\ Records) /\ [Next]_vars => (Typed /\ Records)'
    BY TypedStep, RecordsStep
  <1>3. Typed /\ Records => RecentAreRecorded
    <2> SUFFICES ASSUME Typed, Records PROVE RecentAreRecorded
      OBVIOUS
    <2> DEFINE n == Len(ring_buffer_)
    <2>1. /\ RecordTypeOK /\ RingOnce /\ TimedOnce /\ n \in Nat /\ requests_served_ \in Nat
          /\ timing_idx_ \in Entries /\ timings_ \in [Entries -> Request \cup {NoTiming}]
          /\ \A i \in 1 .. n : ring_buffer_[i] \in Request \ {NoTiming}
      BY DEF Typed, RecordTypeOK, OdinTypeOK, Records, Entries
    <2>2. ASSUME ~passed, Between = {}, NEW i \in 1 .. n, i <= Timings
          PROVE  ring_buffer_[i] = timings_[Slot(i)]
      <3>1. PICK k \in 0 .. n : InOrder(k)
        BY <2>2 DEF Records
      <3>2. k = 0
        <4> SUFFICES ASSUME 1 \in 1 .. k PROVE FALSE
          BY <2>1, <3>1
        <4> QED
          BY <2>1, <2>2, <3>1 DEF InOrder, Between
      <3> QED
        BY <2>2, <3>1, <3>2 DEF InOrder
    <2>3. ASSUME ~passed, Between = {}, RingSize <= Timings
          PROVE  ToSet(ring_buffer_) \subseteq Timed
      <3> SUFFICES ASSUME NEW i \in 1 .. n PROVE ring_buffer_[i] \in Timed
        BY <2>1 DEF ToSet, RecordTypeOK
      <3>1. n <= Timings
        BY <2>1, <2>3 DEF RecordTypeOK, OdinTypeOK
      <3>2. ring_buffer_[i] = timings_[Slot(i)] /\ Slot(i) \in Entries
        BY <2>1, <2>2, <2>3, <3>1 DEF Slot, Entries
      <3> QED
        BY <2>1, <3>2 DEF Timed
    <2>4. ASSUME ~passed, Between = {}, ~(RingSize <= Timings)
          PROVE  Timed \subseteq ToSet(ring_buffer_)
      <3> SUFFICES ASSUME NEW q \in Timed PROVE q \in ToSet(ring_buffer_)
        OBVIOUS
      <3>1. PICK p \in Entries : q = timings_[p] /\ q # NoTiming
        BY DEF Timed
      <3> DEFINE j == IF p < timing_idx_ THEN timing_idx_ - p ELSE timing_idx_ - p + Timings
      <3>2. j \in 1 .. Timings /\ Slot(j) = p
        BY <2>1 DEF Entries, Slot
      <3> HIDE DEF j
      <3>3. n = Least(RingSize, requests_served_)
        <4>1. Cardinality(Between) = 0
          BY <2>4, FS_EmptySet
        <4> QED
          BY <2>1, <4>1 DEF RingOnce, Least
      <3>4. j <= n
        <4>1. CASE requests_served_ >= Timings
          BY <2>1, <2>4, <3>2, <3>3, <4>1 DEF Least
        <4>2. CASE ~(requests_served_ >= Timings)
          <5>1. timing_idx_ = requests_served_ /\ p < requests_served_
            BY <2>1, <3>1, <4>2 DEF TimedOnce
          <5> QED
            BY <2>1, <2>4, <3>2, <3>3, <4>2, <5>1 DEF Least, j, Entries
        <4> QED
          BY <4>1, <4>2
      <3>5. ring_buffer_[j] = q /\ j \in DOMAIN ring_buffer_
        BY <2>1, <2>2, <2>4, <3>1, <3>2, <3>4 DEF RecordTypeOK
      <3> QED
        BY <3>5 DEF ToSet
    <2> QED
      BY <2>1, <2>3, <2>4 DEF RecentAreRecorded, RingOnce, TimedOnce, Timed, Between, Entries, Least
  <1> QED
    BY <1>1, <1>2, <1>3, PTL DEF Spec

-----------------------------------------------------------------------------
(***************************************************************************)
(* Responses, for every interleaving of handlers, every endpoint and every *)
(* size of file and frame: HeadersAreSentOnce and AnswerIsWhole of Layer.  *)
(*                                                                         *)
(* hpack.tx.serialize adds to the payload of the connection and            *)
(* hpack.tx.finish takes all of it, with no lock held; what is added by    *)
(* one request may be sent by another, but is sent once, and its own if no *)
(* two are handled at a time.  What is written of a body is what has been  *)
(* taken of its channel, between two buffers; how much that is, of a file, *)
(* the chunk event knows from what it has left.                            *)
(***************************************************************************)
-----------------------------------------------------------------------------

(* Before its HEADERS frame is made, and from the time it has written.     *)
Unframed == {"none", "pooled", "run", "head", "serialized"}
Unwritten == Unframed \cup {"framed"}
Filling == {"head", "serialized"}
Writing == {"body", "frames"}
Late == {"body", "frames", "sent", "closing", "post", "timing"}

LEMMA SameClients ==
  ASSUME traffic' = traffic, NEW r
  PROVE  ClientOf(r)' = ClientOf(r) /\ Http2(r)' = Http2(r)
  BY DEF ClientOf, Http2

(* A step of a handler that is none of those that write headers. *)
Beside(r) ==
    /\ UNCHANGED <<payload, block, inserted>>
    /\ \/ UNCHANGED wire
       \/ handler[r] = "body" /\ Wrote(r)
    /\ \/ handler[r] = "run" /\ handler'[r] \in {"head", "thrown"}
       \/ /\ handler[r] \in Late /\ handler'[r] \in Late \cup {"ended", "thrown"}
          /\ handler'[r] \in Writing => handler[r] \in Writing

LEMMA HandlerKinds ==
  ASSUME PlaceTypeOK, NEW r \in Request, HandlerStep(r)
  PROVE  Serialize(r) \/ FinishHeaders(r) \/ WriteHeaders(r) \/ WriteHead(r) \/ Beside(r)
  <1> USE DEF Late, Writing, GoHandler, Beside, writeVars, PlaceTypeOK
  <1>1. ASSUME Run(r) \/ RunThrows(r) PROVE Beside(r)
    BY <1>1 DEF Run, RunThrows, Throw
  <1>2. ASSUME WriteBody(r) PROVE Beside(r)
    BY <1>2 DEF WriteBody, AfterBuffer
  <1>3. ASSUME NextBuffer(r) \/ WriteData(r) \/ WriteFails(r) PROVE Beside(r)
    BY <1>3 DEF NextBuffer, WriteData, WriteFails, Throw, AfterBuffer
  <1>4. ASSUME ReleaseFinish(r) \/ CloseStream(r) \/ PostSend(r) \/ RecordTiming(r)
        PROVE  Beside(r)
    BY <1>4 DEF ReleaseFinish, CloseStream, PostSend, RecordTiming
  <1>5. CASE ReadClosedFile(r)
    BY <1>5 DEF ReadClosedFile, placeVars
  <1> QED
    BY <1>1, <1>2, <1>3, <1>4, <1>5 DEF HandlerStep

-----------------------------------------------------------------------------
(* Where the insertions are: each that was made waits in the payload of    *)
(* its connection, or was sent in a block of it, and only in one place.    *)
Made(x) == x[1] \in DOMAIN traffic /\ x[2] <= inserted[x[1]]

WaitAt == \A c \in Client, x \in Insertion : x \in ToSet(payload[c]) =>
    Made(x) /\ ClientOf(x[1]) = c

SentIn == \A q \in Request, x \in Insertion : x \in ToSet(block[q]) =>
    /\ Made(x) /\ q \in DOMAIN traffic /\ ClientOf(x[1]) = ClientOf(q)
    /\ x \notin ToSet(payload[ClientOf(q)])

SentOnce == \A p \in Request, q \in Request, x \in Insertion :
    x \in ToSet(block[p]) /\ x \in ToSet(block[q]) => p = q

NotLost == \A x \in Insertion : Made(x) =>
    \/ x \in ToSet(payload[ClientOf(x[1])])
    \/ \E q \in Request : x \in ToSet(block[q])

Unsent == \A q \in Request :
    /\ handler[q] \in Unframed => block[q] = << >>
    /\ inserted[q] > 0 => Http2(q)

Headers == WaitAt /\ SentIn /\ SentOnce /\ NotLost /\ Unsent

LEMMA HeadersInit == Init => Headers
  <1> SUFFICES ASSUME Init PROVE Headers
    OBVIOUS
  <1>1. ToSet(<< >>) = {}
    BY DEF ToSet
  <1>2. /\ \A c \in Client : payload[c] = << >>
        /\ \A r \in Request : block[r] = << >> /\ inserted[r] = 0
        /\ DOMAIN traffic \subseteq Request
    BY DEF Init
  <1>3. \A x \in Insertion : x[1] \in Request /\ x[2] \in Nat \ {0}
    BY DEF Insertion
  <1>4. \A x \in Insertion : ~Made(x)
    BY <1>2, <1>3 DEF Made
  <1> QED
    BY <1>1, <1>2, <1>4 DEF Headers, WaitAt, SentIn, SentOnce, NotLost, Unsent

(* Steps that leave payload and blocks alone. *)
LEMMA HeadersKept ==
  ASSUME Headers, PlaceTypeOK, traffic' = traffic, UNCHANGED <<payload, block, inserted>>,
         \A q \in Request : handler'[q] \in Unframed => handler[q] \in Unframed
  PROVE  Headers'
  <1>1. \A r : ClientOf(r)' = ClientOf(r) /\ Http2(r)' = Http2(r)
    BY SameClients
  <1>2. \A x : Made(x)' <=> Made(x)
    BY DEF Made
  <1>3. WaitAt' BY <1>1, <1>2 DEF Headers, WaitAt
  <1>4. SentIn' BY <1>1, <1>2 DEF Headers, SentIn
  <1>5. SentOnce' BY DEF Headers, SentOnce
  <1>6. NotLost' BY <1>1, <1>2 DEF Headers, NotLost
  <1>7. Unsent' BY <1>1 DEF Headers, Unsent
  <1> QED
    BY <1>3, <1>4, <1>5, <1>6, <1>7 DEF Headers

LEMMA HeadersSerialize ==
  ASSUME Headers, Typed, traffic' = traffic, NEW r \in Request, Serialize(r)
  PROVE  Headers'
  <1>0. PlaceTypeOK /\ Places /\ DOMAIN traffic \subseteq Request
    BY DEF Typed, PlaceTypeOK
  <1>1. \A q : ClientOf(q)' = ClientOf(q) /\ Http2(q)' = Http2(q)
    BY SameClients
  <1> DEFINE c == ClientOf(r)
  <1>y. PICK y : y = <<r, inserted[r] + 1>>
    OBVIOUS
  <1>2. /\ handler[r] = "head" /\ Http2(r) /\ r \in DOMAIN traffic /\ c \in Client
        /\ handler' = [handler EXCEPT ![r] = IF inserted[r] + 1 < Inserts THEN "head" ELSE "serialized"]
        /\ payload' = [payload EXCEPT ![c] = Append(@, y)] /\ UNCHANGED block
        /\ inserted' = [inserted EXCEPT ![r] = @ + 1]
    BY <1>0, <1>y, HasClient DEF Serialize, Inserted, GoHandler, Places
  <1>3. y \in Insertion /\ y[1] = r /\ y[2] = inserted[r] + 1
        /\ inserted[r] \in Nat /\ inserted'[r] = inserted[r] + 1
        /\ \A q \in Request \ {r} : inserted'[q] = inserted[q]
    <2>1. inserted[r] < Inserts
      BY <1>0, <1>2 DEF Places
    <2> QED
      BY <1>0, <1>2, <1>y, <2>1 DEF Insertion, PlaceTypeOK
  <1>6. ASSUME NEW x \in Insertion PROVE Made(x)' <=> (Made(x) \/ x = y)
    <2>1. PICK q \in Request, k \in 1 .. Inserts : x = <<q, k>>
      BY DEF Insertion
    <2>2. CASE q = r
      <3>1. Made(x)' <=> k <= inserted[r] + 1
        BY <1>2, <1>3, <2>1, <2>2 DEF Made
      <3>2. Made(x) <=> k <= inserted[r]
        BY <1>2, <2>1, <2>2 DEF Made
      <3>3. x = y <=> k = inserted[r] + 1
        BY <1>y, <2>1, <2>2
      <3> QED
        BY <1>3, <3>1, <3>2, <3>3
    <2>3. CASE q # r
      BY <1>2, <1>3, <2>1, <2>3 DEF Made
    <2> QED
      BY <2>2, <2>3
  <1> HIDE DEF c
  <1>4. /\ ToSet(payload'[c]) = ToSet(payload[c]) \cup {y}
        /\ \A d \in Client \ {c} : payload'[d] = payload[d]
    <2>1. payload[c] \in Seq(Insertion) /\ payload'[c] = Append(payload[c], y)
          /\ \A d \in Client \ {c} : payload'[d] = payload[d]
      BY <1>0, <1>2 DEF PlaceTypeOK
    <2>2. ToSet(Append(payload[c], y)) = ToSet(payload[c]) \cup {y}
      <3>1. payload[c] \in Seq(Insertion) /\ y \in Insertion
        BY <1>3, <2>1
      <3> QED
        BY <3>1, InsertionAppend, Zenon
    <2> QED
      BY <2>1, <2>2
  <1>5. ~Made(y) /\ Made(y)'
    <2>1. ~(y[2] <= inserted[r])
      BY <1>3
    <2>2. ~Made(y)
      BY <1>3, <2>1, Zenon DEF Made
    <2> QED
      BY <1>3, <1>6, <2>2, Zenon
  <1>7. WaitAt'
    <2> SUFFICES ASSUME NEW d \in Client, NEW x \in Insertion, x \in ToSet(payload'[d])
                 PROVE  Made(x)' /\ ClientOf(x[1]) = d
      BY <1>1 DEF WaitAt
    <2>1. CASE x \in ToSet(payload[d])
      BY <1>6, <2>1 DEF Headers, WaitAt
    <2>2. CASE x \notin ToSet(payload[d])
      <3>1. x = y /\ d = c
        BY <1>4, <2>2
      <3> QED
        BY <1>3, <1>5, <3>1, Zenon DEF c
    <2> QED
      BY <2>1, <2>2
  <1>8. SentIn'
    <2> SUFFICES ASSUME NEW q \in Request, NEW x \in Insertion, x \in ToSet(block[q])
                 PROVE  /\ Made(x)' /\ q \in DOMAIN traffic /\ ClientOf(x[1]) = ClientOf(q)
                        /\ x \notin ToSet(payload'[ClientOf(q)])
      BY <1>1, <1>2 DEF SentIn
    <2>1. /\ Made(x) /\ q \in DOMAIN traffic /\ ClientOf(x[1]) = ClientOf(q)
          /\ x \notin ToSet(payload[ClientOf(q)])
      BY DEF Headers, SentIn
    <2>2. ClientOf(q) \in Client
      BY <1>0, <2>1 DEF PlaceTypeOK, ClientOf
    <2>3. x # y
      BY <1>5, <2>1
    <2> QED
      BY <1>4, <1>6, <2>1, <2>2, <2>3
  <1>9. SentOnce'
    BY <1>2 DEF Headers, SentOnce
  <1>10. NotLost'
    <2> SUFFICES ASSUME NEW x \in Insertion, Made(x)'
                 PROVE  \/ x \in ToSet(payload'[ClientOf(x[1])])
                        \/ \E q \in Request : x \in ToSet(block[q])
      BY <1>1, <1>2 DEF NotLost
    <2>1. CASE x = y
      BY <1>3, <1>4, <1>5, <2>1 DEF c
    <2>2. CASE x # y
      <3>1. Made(x)
        BY <1>6, <2>2
      <3>2. \/ x \in ToSet(payload[ClientOf(x[1])])
            \/ \E q \in Request : x \in ToSet(block[q])
        BY <3>1 DEF Headers, NotLost
      <3>3. ClientOf(x[1]) \in Client
        BY <1>0, <3>1 DEF PlaceTypeOK, ClientOf, Made
      <3> QED
        BY <1>4, <3>2, <3>3
    <2> QED
      BY <2>1, <2>2
  <1>11. Unsent'
    <2> SUFFICES ASSUME NEW q \in Request
                 PROVE  /\ handler'[q] \in Unframed => block[q] = << >>
                        /\ inserted'[q] > 0 => Http2(q)
      BY <1>1, <1>2 DEF Unsent
    <2>1. CASE q = r
      BY <1>2, <2>1 DEF Headers, Unsent, Unframed
    <2>2. CASE q # r
      BY <1>0, <1>2, <1>3, <2>2 DEF Headers, Unsent, PlaceTypeOK
    <2> QED
      BY <2>1, <2>2
  <1> QED
    BY <1>7, <1>8, <1>9, <1>10, <1>11 DEF Headers

LEMMA HeadersFinish ==
  ASSUME Headers, Typed, traffic' = traffic, NEW r \in Request, FinishHeaders(r)
  PROVE  Headers'
  <1>0. PlaceTypeOK /\ Places /\ DOMAIN traffic \subseteq Request
    BY DEF Typed, PlaceTypeOK
  <1>1. \A q : ClientOf(q)' = ClientOf(q) /\ Http2(q)' = Http2(q)
    BY SameClients
  <1> DEFINE c == ClientOf(r)
  <1>2. /\ handler[r] = "serialized" /\ handler' = [handler EXCEPT ![r] = "framed"]
        /\ block' = [block EXCEPT ![r] = payload[c]]
        /\ payload' = [payload EXCEPT ![c] = << >>] /\ inserted' = inserted
        /\ r \in DOMAIN traffic /\ c \in Client
    BY <1>0, HasClient DEF FinishHeaders, GoHandler, Places
  <1>3. /\ ToSet(payload'[c]) = {} /\ block'[r] = payload[c] /\ ToSet(block[r]) = {}
        /\ \A d \in Client \ {c} : payload'[d] = payload[d]
        /\ \A q \in Request \ {r} : block'[q] = block[q] /\ handler'[q] = handler[q]
    <2>1. ToSet(<< >>) = {}
      BY DEF ToSet
    <2>2. block[r] = << >>
      BY <1>2 DEF Headers, Unsent, Unframed
    <2> QED
      BY <1>0, <1>2, <2>1, <2>2 DEF PlaceTypeOK
  <1>4. \A x : Made(x)' <=> Made(x)
    BY <1>2 DEF Made
  <1>c. \A q \in DOMAIN traffic : ClientOf(q) \in Client
    BY <1>0 DEF PlaceTypeOK, ClientOf
  <1> HIDE DEF c
  <1>5. WaitAt'
    BY <1>1, <1>3, <1>4 DEF Headers, WaitAt
  <1>7. SentIn'
    <2> SUFFICES ASSUME NEW q \in Request, NEW x \in Insertion, x \in ToSet(block'[q])
                 PROVE  /\ Made(x) /\ q \in DOMAIN traffic /\ ClientOf(x[1]) = ClientOf(q)
                        /\ x \notin ToSet(payload'[ClientOf(q)])
      BY <1>1, <1>4 DEF SentIn
    <2>1. CASE q = r
      <3>1. x \in ToSet(payload[c])
        BY <1>3, <2>1
      <3>2. Made(x) /\ ClientOf(x[1]) = c
        BY <1>2, <3>1 DEF Headers, WaitAt
      <3> QED
        BY <1>2, <1>3, <2>1, <3>2 DEF c
    <2>2. CASE q # r
      <3>1. /\ Made(x) /\ q \in DOMAIN traffic /\ ClientOf(x[1]) = ClientOf(q)
            /\ x \notin ToSet(payload[ClientOf(q)])
        BY <1>3, <2>2 DEF Headers, SentIn
      <3>2. ClientOf(q) \in Client
        BY <1>c, <3>1
      <3>3. x \notin ToSet(payload'[ClientOf(q)])
        BY <1>3, <3>1, <3>2
      <3> QED
        BY <3>1, <3>3
    <2> QED
      BY <2>1, <2>2
  <1>8. SentOnce'
    <2> SUFFICES ASSUME NEW p \in Request, NEW q \in Request, NEW x \in Insertion,
                        x \in ToSet(block'[p]), x \in ToSet(block'[q])
                 PROVE  p = q
      BY DEF SentOnce
    <2>1. ASSUME NEW u \in Request, u # r, x \in ToSet(block[u]), x \in ToSet(payload[c])
          PROVE  FALSE
      <3>1. ClientOf(x[1]) = c
        BY <1>2, <2>1 DEF Headers, WaitAt
      <3>2. ClientOf(x[1]) = ClientOf(u) /\ x \notin ToSet(payload[ClientOf(u)])
        BY <2>1 DEF Headers, SentIn
      <3> QED
        BY <2>1, <3>1, <3>2
    <2>2. CASE p = r /\ q # r
      BY <1>3, <2>1, <2>2
    <2>3. CASE p # r /\ q = r
      BY <1>3, <2>1, <2>3
    <2>4. CASE p # r /\ q # r
      BY <1>3, <2>4 DEF Headers, SentOnce
    <2> QED
      BY <2>2, <2>3, <2>4
  <1>9. NotLost'
    <2> SUFFICES ASSUME NEW x \in Insertion, Made(x)
                 PROVE  \/ x \in ToSet(payload'[ClientOf(x[1])])
                        \/ \E q \in Request : x \in ToSet(block'[q])
      BY <1>1, <1>4 DEF NotLost
    <2>1. CASE x \in ToSet(payload[ClientOf(x[1])])
      <3>1. ClientOf(x[1]) \in Client
        BY <1>c DEF Made
      <3>2. CASE ClientOf(x[1]) = c
        BY <1>3, <2>1, <3>2
      <3>3. CASE ClientOf(x[1]) # c
        BY <1>3, <2>1, <3>1, <3>3
      <3> QED
        BY <3>2, <3>3
    <2>2. CASE \E q \in Request : x \in ToSet(block[q])
      BY <1>3, <2>2
    <2> QED
      BY <2>1, <2>2 DEF Headers, NotLost
  <1>10. Unsent'
    <2> SUFFICES ASSUME NEW q \in Request
                 PROVE  /\ handler'[q] \in Unframed => block'[q] = << >>
                        /\ inserted[q] > 0 => Http2(q)
      BY <1>1, <1>2 DEF Unsent
    <2>1. CASE q = r
      <3>1. handler'[q] = "framed"
        BY <1>0, <1>2, <2>1 DEF PlaceTypeOK
      <3> QED
        BY <3>1 DEF Headers, Unsent, Unframed
    <2>2. CASE q # r
      BY <1>3, <2>2 DEF Headers, Unsent
    <2> QED
      BY <2>1, <2>2
  <1> QED
    BY <1>5, <1>7, <1>8, <1>9, <1>10 DEF Headers

LEMMA HeadersStep ==
  ASSUME Headers, Typed, [Next]_vars
  PROVE  Headers'
  <1>t. PlaceTypeOK /\ Places /\ traffic' = traffic
    BY TrafficKept DEF Typed
  <1>1. ASSUME NEW r \in Request, Handle(r) PROVE Headers'
    <2>1. /\ worker[r] = "idle" /\ handler' = [handler EXCEPT ![r] = Launched(r)]
          /\ UNCHANGED <<payload, block, inserted>>
      BY <1>1, <1>t, HandleMoves DEF Handle, writeVars
    <2>2. handler[r] = "none"
      BY <1>t, <2>1 DEF Places
    <2>3. \A q \in Request : handler'[q] \in Unframed => handler[q] \in Unframed
      BY <1>t, <2>1, <2>2 DEF PlaceTypeOK, Unframed
    <2> QED
      BY <1>t, <2>1, <2>3, HeadersKept
  <1>2. ASSUME NEW r \in Request, WorkerMove(r) \/ PoolRuns(r) PROVE Headers'
    <2>1. UNCHANGED <<payload, block, inserted>>
      BY <1>2 DEF WorkerMove, WorkerStep, HandleReturns, ReleaseEvent, Save,
                SaveEnd, LockForRead, ReadEnds, Hangup, ReturnEof, TakeEvent, PoolRuns, writeVars
    <2>2. \A q \in Request : handler'[q] \in Unframed => handler[q] \in Unframed
      <3>1. CASE WorkerMove(r)
        BY <1>t, <3>1, WorkerMoves
      <3>2. CASE PoolRuns(r)
        BY <1>t, <3>2 DEF PoolRuns, GoHandler, placeVars, PlaceTypeOK, Unframed
      <3> QED
        BY <1>2, <3>1, <3>2
    <2> QED
      BY <1>t, <2>1, <2>2, HeadersKept
  <1>3. ASSUME NEW r \in Request, HandlerStep(r) PROVE Headers'
    <2>1. \A q \in Request \ {r} : handler'[q] = handler[q]
      BY <1>t, <1>3, HandlerMoves DEF PlaceTypeOK
    <2>2. CASE Serialize(r) BY <1>t, <2>2, HeadersSerialize
    <2>3. CASE FinishHeaders(r) BY <1>t, <2>3, HeadersFinish
    <2>4. CASE WriteHead(r) \/ WriteHeaders(r)
      <3>1. handler'[r] = "body" /\ UNCHANGED <<payload, block, inserted>>
        BY <1>t, <2>4 DEF WriteHead, WriteHeaders, GoHandler, PlaceTypeOK
      <3> QED
        BY <1>t, <2>1, <3>1, HeadersKept DEF Unframed
    <2>5. CASE Beside(r)
      <3>1. UNCHANGED <<payload, block, inserted>>
        BY <2>5 DEF Beside
      <3>2. handler'[r] \in Unframed => handler[r] \in Unframed
        BY <2>5 DEF Beside, Unframed, Late
      <3> QED
        BY <1>t, <2>1, <3>1, <3>2, HeadersKept
    <2> QED
      BY <1>t, <1>3, <2>2, <2>3, <2>4, <2>5, HandlerKinds
  <1>4. ASSUME RateStep \/ Quiet \/ UNCHANGED vars PROVE Headers'
    <2>1. UNCHANGED <<handler, payload, block, inserted>>
      BY <1>4 DEF RateStep, Quiet, vars, placeVars, writeVars
    <2> QED
      BY <1>t, <2>1, HeadersKept
  <1> QED
    BY <1>1, <1>2, <1>3, <1>4 DEF Next, WorkerMove

-----------------------------------------------------------------------------
(* Connections on which no two requests have been handled at a time. *)
WrittenBy == \A c \in Client, r \in Request : r \in ToSet(wire[c]) =>
    r \in DOMAIN traffic /\ ClientOf(r) = c /\ handler[r] \notin Unwritten

OneActive == \A p \in DOMAIN traffic, q \in DOMAIN traffic :
    worker[p] = "handle" /\ worker[q] = "handle" /\ ClientOf(p) = ClientOf(q) /\ p # q
        => ClientOf(p) \in together

OwnHeaders(r) ==
    /\ handler[r] \in Filling => payload[ClientOf(r)] = FirstOf(r, inserted[r])
    /\ block[r] \in {<< >>, FirstOf(r, inserted[r])}
    /\ handler[r] \in Writing => wire[ClientOf(r)] # << >> /\ Last(wire[ClientOf(r)]) = r

NoneWaits(c) == (\A r \in DOMAIN traffic : ClientOf(r) = c => handler[r] \notin Filling)
                    => payload[c] = << >>

AloneOn(c) ==
    /\ IsInjective(wire[c]) /\ NoneWaits(c)
    /\ \A r \in DOMAIN traffic : ClientOf(r) = c => OwnHeaders(r)

Alone == \A c \in Client \ together : AloneOn(c)

Separate == WrittenBy /\ OneActive /\ Alone

LEMMA SeparateInit == Init => Separate
  <1> SUFFICES ASSUME Init PROVE Separate
    OBVIOUS
  <1>1. /\ \A c \in Client : payload[c] = << >> /\ wire[c] = << >>
        /\ \A r \in Request : block[r] = << >> /\ handler[r] = "none" /\ worker[r] = "idle"
        /\ DOMAIN traffic \subseteq Request
    BY DEF Init
  <1>2. ToSet(<< >>) = {} /\ IsInjective(<< >>)
    BY DEF ToSet, IsInjective
  <1>3. WrittenBy /\ OneActive
    BY <1>1, <1>2 DEF WrittenBy, OneActive
  <1>4. Alone
    BY <1>1, <1>2 DEF Alone, AloneOn, OwnHeaders, NoneWaits, Filling, Writing
  <1> QED
    BY <1>3, <1>4 DEF Separate

LEMMA WrittenByKept ==
  ASSUME WrittenBy, traffic' = traffic, UNCHANGED wire,
         \A q \in Request : handler'[q] \in Unwritten => handler[q] \in Unwritten
  PROVE  WrittenBy'
  <1>1. \A q : ClientOf(q)' = ClientOf(q)
    BY SameClients
  <1> QED
    BY <1>1 DEF WrittenBy

LEMMA OneActiveKept ==
  ASSUME OneActive, PlaceTypeOK, traffic' = traffic, together \subseteq together',
         \A q \in Request : worker'[q] = "handle" => worker[q] = "handle"
  PROVE  OneActive'
  <1>1. \A q : ClientOf(q)' = ClientOf(q)
    BY SameClients
  <1>2. DOMAIN traffic \subseteq Request
    BY DEF PlaceTypeOK
  <1> QED
    BY <1>1, <1>2 DEF OneActive

(* A handler of a step that does not touch what a connection has: it has   *)
(* nothing to wait for when it starts to fill the payload.                 *)
Calm(q) ==
    /\ block'[q] = block[q] /\ inserted'[q] = inserted[q]
    /\ handler[q] \in Filling => handler'[q] \in Filling
    /\ handler'[q] \in Writing => handler[q] \in Writing
    /\ handler'[q] \in Filling /\ handler[q] \notin Filling =>
           inserted[q] = 0 /\ payload[ClientOf(q)] = << >>

LEMMA AloneAt ==
  ASSUME PlaceTypeOK, traffic' = traffic, NEW c \in Client, AloneOn(c),
         payload'[c] = payload[c], wire'[c] = wire[c],
         \A q \in DOMAIN traffic : ClientOf(q) = c => Calm(q)
  PROVE  AloneOn(c)'
  <1>1. \A q : ClientOf(q)' = ClientOf(q)
    BY SameClients
  <1>2. IsInjective(wire[c]) /\ NoneWaits(c)
        /\ \A r \in DOMAIN traffic : ClientOf(r) = c => OwnHeaders(r)
    BY DEF AloneOn
  <1>3. NoneWaits(c)'
    BY <1>1, <1>2 DEF NoneWaits, Calm
  <1>4. ASSUME NEW r \in DOMAIN traffic, ClientOf(r) = c PROVE OwnHeaders(r)'
    <2>1. OwnHeaders(r) /\ Calm(r) /\ ClientOf(r)' = c
      BY <1>1, <1>2, <1>4
    <2>2. FirstOf(r, inserted[r])' = FirstOf(r, inserted[r])
      BY <2>1 DEF FirstOf, Calm
    <2>3. handler'[r] \in Filling => payload'[c] = FirstOf(r, inserted[r])
      <3>1. CASE handler[r] \in Filling
        BY <1>4, <2>1, <3>1 DEF OwnHeaders
      <3>2. CASE handler[r] \notin Filling
        <4>1. FirstOf(r, 0) = << >>
          BY FirstGrows
        <4> QED
          BY <1>4, <2>1, <3>2, <4>1 DEF Calm
      <3> QED
        BY <3>1, <3>2
    <2>4. block'[r] = block[r] /\ (handler'[r] \in Writing => handler[r] \in Writing)
      BY <2>1 DEF Calm
    <2> QED
      BY <1>4, <2>1, <2>2, <2>3, <2>4 DEF OwnHeaders
  <1> QED
    BY <1>1, <1>2, <1>3, <1>4 DEF AloneOn

(* The only handler of a connection in progress. *)
LEMMA OnlyHandler ==
  ASSUME Typed, References, OneActive, Running, NEW r \in Request, handler[r] \in InProgress,
         ClientOf(r) \notin together,
         NEW q \in DOMAIN traffic, ClientOf(q) = ClientOf(r), q # r
  PROVE  handler[q] \notin InProgress
  <1>1. SUFFICES ASSUME handler[q] \in InProgress PROVE FALSE
    OBVIOUS
  <1>2. q \in Request
    BY DEF Typed, PlaceTypeOK
  <1>3. worker[r] = "handle" /\ worker[q] = "handle" /\ r \in DOMAIN traffic
    BY <1>1, <1>2, WorkerWaits
  <1> QED
    BY <1>3 DEF OneActive

(* Nothing waits in a payload that nobody fills. *)
LEMMA NothingWaits ==
  ASSUME Typed, References, Separate, Running, NEW r \in Request, handler[r] \in InProgress \ Filling,
         ClientOf(r) \in Client \ together
  PROVE  payload[ClientOf(r)] = << >>
  <1>1. OneActive /\ NoneWaits(ClientOf(r))
    BY DEF Separate, Alone, AloneOn
  <1>2. ASSUME NEW q \in DOMAIN traffic, ClientOf(q) = ClientOf(r) PROVE handler[q] \notin Filling
    <2>1. CASE q = r BY <2>1
    <2>2. CASE q # r
      BY <1>1, <1>2, <2>2, OnlyHandler DEF Filling, InProgress
    <2> QED
      BY <2>1, <2>2
  <1> QED
    BY <1>1, <1>2 DEF NoneWaits

(* To write is to be the last who wrote, once. *)
LEMMA WroteStep ==
  ASSUME PlaceTypeOK, WrittenBy, NEW r \in Request, ClientOf(r) \in Client, Wrote(r)
  PROVE  /\ \A d \in Client \ {ClientOf(r)} : wire'[d] = wire[d]
         /\ ToSet(wire'[ClientOf(r)]) = ToSet(wire[ClientOf(r)]) \cup {r}
         /\ wire[ClientOf(r)] # << >> /\ Last(wire[ClientOf(r)]) = r => UNCHANGED wire
         /\ handler[r] \in Unwritten =>
                /\ wire'[ClientOf(r)] # << >> /\ Last(wire'[ClientOf(r)]) = r
                /\ IsInjective(wire[ClientOf(r)]) => IsInjective(wire'[ClientOf(r)])
  <1> DEFINE c == ClientOf(r)
             w == wire[c]
             w1 == wire'[c]
  <1>1. /\ w \in Seq(Request) /\ wire \in [Client -> Seq(Request)]
        /\ w1 = IF w # << >> /\ Last(w) = r THEN w ELSE Append(w, r)
        /\ \A d \in Client \ {c} : wire'[d] = wire[d]
        /\ w # << >> /\ Last(w) = r => wire' = wire
    BY DEF PlaceTypeOK, Wrote
  <1>2. handler[r] \in Unwritten => r \notin ToSet(w)
    BY DEF WrittenBy
  <1> HIDE DEF c, w, w1
  <1>3. /\ ToSet(Append(w, r)) = ToSet(w) \cup {r}
        /\ Append(w, r) # << >> /\ Last(Append(w, r)) = r
    <2>1. w \in Seq(Request)
      BY <1>1
    <2>2. ToSet(Append(w, r)) = ToSet(w) \cup {r}
      BY <2>1, ToSetAppend
    <2>3. Append(w, r) # << >> /\ Last(Append(w, r)) = r
      BY <2>1, AppendLast
    <2> QED
      BY <2>2, <2>3
  <1>4. w # << >> /\ Last(w) = r => r \in ToSet(w)
    BY <1>1, LastIsIn
  <1>5. IsInjective(w) /\ r \notin ToSet(w) => IsInjective(Append(w, r))
    BY <1>1, InjectiveAppend
  <1>6. ToSet(w1) = ToSet(w) \cup {r}
    BY <1>1, <1>3, <1>4
  <1>7. handler[r] \in Unwritten => w1 = Append(w, r)
    BY <1>1, <1>2, <1>4
  <1> QED
    BY <1>1, <1>2, <1>3, <1>5, <1>6, <1>7 DEF c, w, w1

(* What the steps of a handler that fill, frame or write have in common:   *)
(* no other handler of the connection is in progress.                      *)
LEMMA AloneHandler ==
  ASSUME Separate, Typed, References, traffic' = traffic, UNCHANGED together, NEW r \in Request, HandlerStep(r),
         \A q \in Request \ {r} : block'[q] = block[q] /\ inserted'[q] = inserted[q],
         \A d \in Client \ {ClientOf(r)} : payload'[d] = payload[d] /\ wire'[d] = wire[d],
         ClientOf(r) \notin together =>
             IsInjective(wire'[ClientOf(r)]) /\ NoneWaits(ClientOf(r))' /\ OwnHeaders(r)'
  PROVE  Alone'
  <1>c. PICK c : c = ClientOf(r)
    OBVIOUS
  <1>0. /\ PlaceTypeOK /\ Running /\ handler[r] \in InProgress /\ DOMAIN traffic \subseteq Request
        /\ OneActive /\ Alone
        /\ \A q \in Request \ {r} : handler'[q] = handler[q]
    BY HandlerMoves DEF Typed, PlaceTypeOK, Separate
  <1>1. \A q : ClientOf(q)' = ClientOf(q)
    BY SameClients
  <1>2. ASSUME c \in Client, c \notin together PROVE AloneOn(c)'
    <2>1. AloneOn(c)
      BY <1>0, <1>2 DEF Alone
    <2>2. ASSUME NEW q \in DOMAIN traffic, ClientOf(q) = c, q # r PROVE OwnHeaders(q)'
      <3>1. handler[q] \notin InProgress
        <4>1. ClientOf(q) = ClientOf(r) /\ ClientOf(r) \notin together
          BY <1>c, <1>2, <2>2
        <4> QED
          BY <1>0, <2>2, <4>1, OnlyHandler
      <3>2. handler'[q] \notin Filling \cup Writing
        BY <1>0, <2>2, <3>1 DEF Filling, Writing, InProgress
      <3>3. block[q] \in {<< >>, FirstOf(q, inserted[q])} /\ block'[q] = block[q]
            /\ inserted'[q] = inserted[q]
        BY <1>0, <2>1, <2>2 DEF AloneOn, OwnHeaders
      <3>4. FirstOf(q, inserted[q])' = FirstOf(q, inserted[q])
        BY <3>3 DEF FirstOf
      <3> QED
        BY <3>2, <3>3, <3>4 DEF OwnHeaders
    <2>3. IsInjective(wire'[c]) /\ NoneWaits(c)' /\ OwnHeaders(r)'
      BY <1>1, <1>c, <1>2 DEF NoneWaits
    <2>4. \A q \in DOMAIN traffic' : ClientOf(q)' = c => OwnHeaders(q)'
      BY <1>1, <1>c, <2>2, <2>3
    <2> QED
      BY <2>3, <2>4 DEF AloneOn
  <1>3. ASSUME NEW d \in Client, d \notin together, d # c PROVE AloneOn(d)'
    <2>1. AloneOn(d)
      BY <1>0, <1>3 DEF Alone
    <2>2. \A q \in DOMAIN traffic : ClientOf(q) = d => Calm(q)
      BY <1>0, <1>c, <1>3 DEF Calm
    <2>3. payload'[d] = payload[d] /\ wire'[d] = wire[d]
      BY <1>c, <1>3
    <2> QED
      BY <1>0, <2>1, <2>2, <2>3, AloneAt
  <1>4. together' = together
    OBVIOUS
  <1> QED
    BY <1>2, <1>3, <1>4, Zenon DEF Alone

LEMMA SeparateSerialize ==
  ASSUME Separate, Typed, References, Headers, traffic' = traffic, UNCHANGED <<worker, together>>,
         NEW r \in Request, HandlerStep(r), Serialize(r)
  PROVE  Separate'
  <1> DEFINE c == ClientOf(r)
  <1>0. /\ PlaceTypeOK /\ Places /\ Running /\ handler[r] \in InProgress
        /\ DOMAIN traffic \subseteq Request /\ WrittenBy /\ OneActive /\ Alone
    BY HandlerMoves DEF Typed, PlaceTypeOK, Separate
  <1>1. \A q : ClientOf(q)' = ClientOf(q)
    BY SameClients
  <1>2. /\ r \in DOMAIN traffic /\ c \in Client
    BY <1>0, HasClient DEF Places, InProgress
  <1>3. /\ handler[r] = "head"
        /\ handler' = [handler EXCEPT ![r] = IF inserted[r] + 1 < Inserts THEN "head" ELSE "serialized"]
        /\ payload' = [payload EXCEPT ![c] = Append(@, <<r, inserted[r] + 1>>)]
        /\ inserted' = [inserted EXCEPT ![r] = @ + 1]
        /\ UNCHANGED <<block, wire>>
    BY DEF Serialize, Inserted, GoHandler
  <1>4. /\ handler'[r] \in Filling /\ \A q \in Request \ {r} : handler'[q] = handler[q]
        /\ payload'[c] = Append(payload[c], <<r, inserted[r] + 1>>)
        /\ \A d \in Client \ {c} : payload'[d] = payload[d]
        /\ inserted'[r] = inserted[r] + 1 /\ inserted[r] \in Nat
        /\ \A q \in Request \ {r} : inserted'[q] = inserted[q]
    BY <1>0, <1>2, <1>3 DEF PlaceTypeOK, Filling
  <1>5. WrittenBy'
    <2>1. \A q \in Request : handler'[q] \in Unwritten => handler[q] \in Unwritten
      BY <1>3, <1>4 DEF Unwritten, Unframed
    <2> QED
      BY <1>0, <1>3, <2>1, WrittenByKept
  <1>6. OneActive'
    BY <1>0, OneActiveKept
  <1>7. ASSUME c \notin together
        PROVE  IsInjective(wire'[c]) /\ NoneWaits(c)' /\ OwnHeaders(r)'
    <2>1. IsInjective(wire[c]) /\ OwnHeaders(r)
      BY <1>0, <1>2, <1>7 DEF Alone, AloneOn
    <2>2. NoneWaits(c)'
      BY <1>1, <1>2, <1>4 DEF NoneWaits
    <2>3. payload[c] = FirstOf(r, inserted[r])
      BY <1>3, <2>1 DEF OwnHeaders, Filling
    <2>4. payload'[c] = FirstOf(r, inserted'[r])
      <3>1. Append(FirstOf(r, inserted[r]), <<r, inserted[r] + 1>>) = FirstOf(r, inserted[r] + 1)
        BY <1>4, FirstGrows
      <3> QED
        BY <1>4, <2>3, <3>1, Zenon
    <2>5. block'[r] = << >>
      BY <1>3 DEF Headers, Unsent, Unframed
    <2>6. handler'[r] \notin Writing
      BY <1>4 DEF Filling, Writing
    <2>7. FirstOf(r, inserted[r])' = FirstOf(r, inserted'[r])
      BY DEF FirstOf
    <2>8. OwnHeaders(r)'
      BY <1>1, <2>4, <2>5, <2>6, <2>7 DEF OwnHeaders
    <2> QED
      BY <1>3, <2>1, <2>2, <2>8
  <1>8. Alone'
    BY <1>1, <1>3, <1>4, <1>7, AloneHandler
  <1> QED
    BY <1>5, <1>6, <1>8 DEF Separate

LEMMA SeparateFinish ==
  ASSUME Separate, Typed, References, Headers, traffic' = traffic, UNCHANGED <<worker, together>>,
         NEW r \in Request, HandlerStep(r), FinishHeaders(r)
  PROVE  Separate'
  <1> DEFINE c == ClientOf(r)
  <1>0. /\ PlaceTypeOK /\ Places /\ Running /\ handler[r] \in InProgress
        /\ DOMAIN traffic \subseteq Request /\ WrittenBy /\ OneActive /\ Alone
    BY HandlerMoves DEF Typed, PlaceTypeOK, Separate
  <1>1. \A q : ClientOf(q)' = ClientOf(q)
    BY SameClients
  <1>2. /\ r \in DOMAIN traffic /\ c \in Client
    BY <1>0, HasClient DEF Places, InProgress
  <1>3. /\ handler[r] = "serialized" /\ handler' = [handler EXCEPT ![r] = "framed"]
        /\ block' = [block EXCEPT ![r] = payload[c]]
        /\ payload' = [payload EXCEPT ![c] = << >>]
        /\ UNCHANGED <<inserted, wire>>
    BY DEF FinishHeaders, GoHandler
  <1>4. /\ handler'[r] = "framed" /\ \A q \in Request \ {r} : handler'[q] = handler[q]
        /\ payload'[c] = << >> /\ \A d \in Client \ {c} : payload'[d] = payload[d]
        /\ block'[r] = payload[c] /\ \A q \in Request \ {r} : block'[q] = block[q]
    BY <1>0, <1>2, <1>3 DEF PlaceTypeOK
  <1>5. WrittenBy'
    <2>1. \A q \in Request : handler'[q] \in Unwritten => handler[q] \in Unwritten
      BY <1>3, <1>4 DEF Unwritten, Unframed
    <2> QED
      BY <1>0, <1>3, <2>1, WrittenByKept
  <1>6. OneActive'
    BY <1>0, OneActiveKept
  <1>7. ASSUME c \notin together
        PROVE  IsInjective(wire'[c]) /\ NoneWaits(c)' /\ OwnHeaders(r)'
    <2>1. IsInjective(wire[c]) /\ OwnHeaders(r)
      BY <1>0, <1>2, <1>7 DEF Alone, AloneOn
    <2>2. NoneWaits(c)'
      BY <1>1, <1>4 DEF NoneWaits
    <2>3. block'[r] = FirstOf(r, inserted[r])
      BY <1>3, <1>4, <2>1 DEF OwnHeaders, Filling
    <2>4. FirstOf(r, inserted[r])' = FirstOf(r, inserted[r])
      BY <1>3 DEF FirstOf
    <2>5. handler'[r] \notin Writing \cup Filling
      BY <1>4 DEF Filling, Writing
    <2>6. OwnHeaders(r)'
      BY <2>3, <2>4, <2>5 DEF OwnHeaders
    <2> QED
      BY <1>3, <2>1, <2>2, <2>6
  <1>8. Alone'
    BY <1>1, <1>3, <1>4, <1>7, AloneHandler
  <1> QED
    BY <1>5, <1>6, <1>8 DEF Separate

LEMMA SeparateWrite ==
  ASSUME Separate, Typed, References, Headers, traffic' = traffic, UNCHANGED <<worker, together>>,
         NEW r \in Request, HandlerStep(r),
         WriteHead(r) \/ WriteHeaders(r)
  PROVE  Separate'
  <1> DEFINE c == ClientOf(r)
  <1>0. /\ PlaceTypeOK /\ Places /\ Running /\ handler[r] \in InProgress
        /\ DOMAIN traffic \subseteq Request /\ WrittenBy /\ OneActive /\ Alone
    BY HandlerMoves DEF Typed, PlaceTypeOK, Separate
  <1>1. \A q : ClientOf(q)' = ClientOf(q)
    BY SameClients
  <1>2. /\ r \in DOMAIN traffic /\ c \in Client
    BY <1>0, HasClient DEF Places, InProgress
  <1>3. /\ handler[r] \in Unwritten /\ handler' = [handler EXCEPT ![r] = "body"]
        /\ Wrote(r) /\ UNCHANGED <<payload, block, inserted>>
        /\ handler[r] = "framed" \/ (handler[r] = "head" /\ ~Http2(r))
    BY DEF WriteHead, WriteHeaders, GoHandler, Unwritten, Unframed
  <1>4. /\ handler'[r] = "body" /\ \A q \in Request \ {r} : handler'[q] = handler[q]
    BY <1>0, <1>3 DEF PlaceTypeOK
  <1>5. /\ \A d \in Client \ {c} : wire'[d] = wire[d]
        /\ ToSet(wire'[c]) = ToSet(wire[c]) \cup {r}
        /\ wire'[c] # << >> /\ Last(wire'[c]) = r
        /\ IsInjective(wire[c]) => IsInjective(wire'[c])
    BY <1>0, <1>2, <1>3, WroteStep
  <1>6. WrittenBy'
    <2> SUFFICES ASSUME NEW d \in Client, NEW q \in Request, q \in ToSet(wire'[d])
                 PROVE  q \in DOMAIN traffic /\ ClientOf(q) = d /\ handler'[q] \notin Unwritten
      BY <1>1 DEF WrittenBy
    <2>1. CASE q = r /\ d = c
      BY <1>2, <1>4, <2>1 DEF Unwritten, Unframed
    <2>2. CASE ~(q = r /\ d = c)
      <3>1. q \in ToSet(wire[d])
        BY <1>5, <2>2
      <3>2. q \in DOMAIN traffic /\ ClientOf(q) = d /\ handler[q] \notin Unwritten
        BY <1>0, <3>1 DEF WrittenBy
      <3> QED
        BY <1>3, <1>4, <3>2
    <2> QED
      BY <2>1, <2>2
  <1>7. OneActive'
    BY <1>0, OneActiveKept
  <1>8. ASSUME c \notin together
        PROVE  IsInjective(wire'[c]) /\ NoneWaits(c)' /\ OwnHeaders(r)'
    <2>1. IsInjective(wire[c]) /\ OwnHeaders(r)
      BY <1>0, <1>2, <1>8 DEF Alone, AloneOn
    <2>2. payload[c] = << >>
      <3>1. CASE handler[r] = "framed"
        BY <1>0, <1>2, <1>8, <3>1, NothingWaits DEF Filling
      <3>2. CASE handler[r] = "head" /\ ~Http2(r)
        <4>1. inserted[r] = 0
          BY <1>0, <3>2 DEF Headers, Unsent, PlaceTypeOK
        <4>2. payload[c] = FirstOf(r, 0)
          BY <2>1, <3>2, <4>1 DEF OwnHeaders, Filling
        <4> QED
          BY <4>2, FirstGrows
      <3> QED
        BY <1>3, <3>1, <3>2
    <2>3. NoneWaits(c)'
      BY <1>1, <1>3, <2>2 DEF NoneWaits
    <2>4. block'[r] \in {<< >>, FirstOf(r, inserted[r])}
      BY <1>3, <2>1 DEF OwnHeaders
    <2>5. FirstOf(r, inserted[r])' = FirstOf(r, inserted[r])
      BY <1>3 DEF FirstOf
    <2>6. handler'[r] \notin Filling
      BY <1>4 DEF Filling
    <2>7. OwnHeaders(r)'
      BY <1>1, <1>5, <2>4, <2>5, <2>6 DEF OwnHeaders
    <2> QED
      BY <1>5, <2>1, <2>3, <2>7
  <1>9. Alone'
    BY <1>3, <1>5, <1>8, AloneHandler
  <1> QED
    BY <1>6, <1>7, <1>9 DEF Separate

(* The steps that are none of those. *)
LEMMA SeparateKept ==
  ASSUME Separate, PlaceTypeOK, traffic' = traffic, UNCHANGED <<payload, block, inserted, wire>>,
         together \subseteq together', OneActive',
         \A q \in Request : handler'[q] \in Unwritten => handler[q] \in Unwritten,
         \A q \in DOMAIN traffic : ClientOf(q) \in Client \ together' => Calm(q)
  PROVE  Separate'
  <1>0. DOMAIN traffic \subseteq Request /\ WrittenBy /\ Alone
    BY DEF PlaceTypeOK, Separate
  <1>1. WrittenBy'
    BY <1>0, WrittenByKept
  <1>2. ASSUME NEW d \in Client \ together' PROVE AloneOn(d)'
    <2>1. AloneOn(d)
      BY <1>0 DEF Alone
    <2>2. \A q \in DOMAIN traffic : ClientOf(q) = d => Calm(q)
      BY <1>2
    <2> QED
      BY <2>1, <2>2, AloneAt
  <1>3. Alone'
    BY <1>2 DEF Alone
  <1> QED
    BY <1>1, <1>3 DEF Separate

LEMMA SeparateHandle ==
  ASSUME Separate, Typed, References, traffic' = traffic, NEW r \in Request, Handle(r)
  PROVE  Separate'
  <1>t. /\ PlaceTypeOK /\ Places /\ DOMAIN traffic \subseteq Request
        /\ OneActive /\ WrittenBy /\ Alone
    BY DEF Typed, PlaceTypeOK, Separate
  <1>1. /\ Running /\ worker[r] = "idle" /\ handler' = [handler EXCEPT ![r] = Launched(r)]
        /\ UNCHANGED <<payload, block, inserted, wire>>
        /\ together' = IF \E q \in Request : worker[q] = "handle" /\ ClientOf(q) = ClientOf(r)
                       THEN together \cup {ClientOf(r)} ELSE together
    BY <1>t, HandleMoves DEF Handle, writeVars
  <1>2. handler[r] = "none" /\ inserted[r] = 0 /\ Launched(r) \in Unwritten
    BY <1>t, <1>1 DEF Places, Launched, Unwritten, Unframed
  <1>3. /\ handler'[r] \in Unwritten /\ \A q \in Request \ {r} : handler'[q] = handler[q]
    BY <1>t, <1>1, <1>2 DEF PlaceTypeOK
  <1>4. \A q \in Request \ {r} : worker'[q] = "handle" => worker[q] = "handle"
    BY <1>t, HandleMoves
  <1>5. OneActive'
    <2> SUFFICES ASSUME NEW p \in DOMAIN traffic, NEW q \in DOMAIN traffic,
                        worker'[p] = "handle", worker'[q] = "handle",
                        ClientOf(p) = ClientOf(q), p # q
                 PROVE  ClientOf(p) \in together'
      BY <1>t, SameClients DEF OneActive
    <2>1. CASE p # r /\ q # r
      BY <1>t, <1>1, <1>4, <2>1 DEF OneActive
    <2>2. CASE p = r \/ q = r
      <3>1. \E u \in Request : worker[u] = "handle" /\ ClientOf(u) = ClientOf(r)
        BY <1>t, <1>4, <2>2
      <3> QED
        BY <1>1, <2>2, <3>1
    <2> QED
      BY <2>1, <2>2
  <1>6. ASSUME ClientOf(r) \in Client, ClientOf(r) \notin together' PROVE payload[ClientOf(r)] = << >>
    <2>1. /\ ClientOf(r) \notin together
          /\ \A q \in Request : ClientOf(q) = ClientOf(r) => worker[q] # "handle"
      BY <1>1, <1>6
    <2>2. \A q \in Request : ClientOf(q) = ClientOf(r) => handler[q] \notin InProgress
      BY <1>1, <2>1, WorkerWaits
    <2>3. NoneWaits(ClientOf(r))
      BY <1>t, <1>6, <2>1 DEF Alone, AloneOn
    <2> QED
      BY <1>t, <2>2, <2>3 DEF NoneWaits, Filling, InProgress
  <1>7. ASSUME NEW q \in DOMAIN traffic, ClientOf(q) \in Client \ together' PROVE Calm(q)
    <2>1. CASE q = r
      BY <1>1, <1>2, <1>3, <1>6, <1>7, <2>1 DEF Calm, Filling, Writing, Unwritten, Unframed
    <2>2. CASE q # r
      BY <1>t, <1>1, <1>3, <2>2 DEF Calm
    <2> QED
      BY <2>1, <2>2
  <1>8. \A q \in Request : handler'[q] \in Unwritten => handler[q] \in Unwritten
    BY <1>2, <1>3 DEF Unwritten, Unframed
  <1>9. together \subseteq together'
    BY <1>1
  <1> QED
    BY <1>t, <1>1, <1>5, <1>7, <1>8, <1>9, SeparateKept

(* Steps of the worker, of the pool and of others that write nothing. *)
LEMMA SeparateMoves ==
  ASSUME Separate, Typed, References, traffic' = traffic, NEW r \in Request, WorkerMove(r) \/ PoolRuns(r)
  PROVE  Separate'
  <1>t. /\ PlaceTypeOK /\ DOMAIN traffic \subseteq Request /\ OneActive
    BY DEF Typed, PlaceTypeOK, Separate
  <1>1. UNCHANGED <<payload, block, inserted, wire, together>>
    BY DEF WorkerMove, WorkerStep, HandleReturns, ReleaseEvent, Save,
           SaveEnd, LockForRead, ReadEnds, Hangup, ReturnEof, TakeEvent, PoolRuns, writeVars,
           GoWorker, GoHandler
  <1>2. \A q \in Request : handler'[q] = handler[q] \/ (handler[q] = "pooled" /\ handler'[q] = "run")
    <2>1. CASE WorkerMove(r) BY <1>t, <2>1, WorkerMoves
    <2>2. CASE PoolRuns(r) BY <1>t, <2>2 DEF PoolRuns, GoHandler, placeVars, PlaceTypeOK
    <2> QED
      BY <2>1, <2>2
  <1>3. \A q \in Request : worker'[q] = "handle" => worker[q] = "handle"
    <2>1. CASE WorkerMove(r)
      <3>1. PICK place \in {"release", "save", "write", "again", "read", "gone"} :
                worker' = [worker EXCEPT ![r] = place]
        BY <1>t, <2>1, WorkerMoves
      <3> QED
        BY <1>t, <3>1 DEF PlaceTypeOK
    <2>2. CASE PoolRuns(r) BY <1>t, <2>2 DEF PoolRuns, GoHandler, placeVars
    <2> QED
      BY <2>1, <2>2
  <1>4. OneActive'
    BY <1>t, <1>1, <1>3, OneActiveKept
  <1>5. \A q \in DOMAIN traffic : Calm(q)
    BY <1>t, <1>1, <1>2 DEF Calm, Filling, Writing
  <1>6. \A q \in Request : handler'[q] \in Unwritten => handler[q] \in Unwritten
    BY <1>2 DEF Unwritten, Unframed
  <1> QED
    BY <1>t, <1>1, <1>4, <1>5, <1>6, SeparateKept

LEMMA SeparateBeside ==
  ASSUME Separate, Typed, References, Headers, traffic' = traffic, UNCHANGED <<worker, together>>,
         NEW r \in Request, HandlerStep(r), Beside(r)
  PROVE  Separate'
  <1>t. /\ PlaceTypeOK /\ Places /\ DOMAIN traffic \subseteq Request
        /\ OneActive /\ WrittenBy /\ Alone
    BY DEF Typed, PlaceTypeOK, Separate
  <1>1. /\ Running /\ handler[r] \in InProgress /\ \A q \in Request \ {r} : handler'[q] = handler[q]
        /\ UNCHANGED <<payload, block, inserted>>
    BY <1>t, HandlerMoves DEF PlaceTypeOK, Beside
  <1>2. /\ handler[r] \notin Filling
        /\ handler'[r] \in Unwritten => handler[r] \in Unwritten
        /\ handler'[r] \in Writing => handler[r] \in Writing
        /\ handler'[r] \in Filling => handler[r] = "run"
    BY DEF Beside, Late, Filling, Writing, Unwritten, Unframed
  <1>3. r \in DOMAIN traffic /\ ClientOf(r) \in Client
    BY <1>t, <1>1, HasClient DEF Places, InProgress
  <1>4. OneActive'
    BY <1>t, OneActiveKept
  <1>5. \A q \in Request : handler'[q] \in Unwritten => handler[q] \in Unwritten
    BY <1>1, <1>2
  <1>6. ASSUME NEW q \in DOMAIN traffic, ClientOf(q) \in Client \ together PROVE Calm(q)
    <2>1. CASE q = r
      <3>1. payload[ClientOf(r)] = << >>
        BY <1>1, <1>2, <1>6, <2>1, NothingWaits
      <3>2. handler[r] = "run" => inserted[r] = 0
        BY <1>t DEF Places
      <3> QED
        BY <1>1, <1>2, <2>1, <3>1, <3>2 DEF Calm
    <2>2. CASE q # r
      BY <1>t, <1>1, <2>2 DEF Calm
    <2> QED
      BY <2>1, <2>2
  <1>7. CASE UNCHANGED wire
    BY <1>t, <1>1, <1>4, <1>5, <1>6, <1>7, SeparateKept
  <1>8. CASE handler[r] = "body" /\ Wrote(r)
    <2>c. PICK c : c = ClientOf(r)
      OBVIOUS
    <2>1. /\ \A d \in Client \ {c} : wire'[d] = wire[d]
          /\ ToSet(wire'[c]) = ToSet(wire[c]) \cup {r}
          /\ wire[c] # << >> /\ Last(wire[c]) = r => UNCHANGED wire
      BY <1>t, <1>3, <1>8, <2>c, WroteStep
    <2>2. WrittenBy'
      <3> SUFFICES ASSUME NEW d \in Client, NEW q \in Request, q \in ToSet(wire'[d])
                   PROVE  q \in DOMAIN traffic /\ ClientOf(q) = d /\ handler'[q] \notin Unwritten
        BY <1>t, SameClients DEF WrittenBy
      <3>1. CASE q = r /\ d = c
        BY <1>3, <1>5, <1>8, <2>c, <3>1 DEF Unwritten, Unframed
      <3>2. CASE ~(q = r /\ d = c)
        BY <1>t, <1>5, <2>1, <3>2 DEF WrittenBy
      <3> QED
        BY <3>1, <3>2
    <2>3. ASSUME NEW d \in Client \ together PROVE AloneOn(d)'
      <3>1. AloneOn(d)
        BY <1>t DEF Alone
      <3>2. d = c => wire[c] # << >> /\ Last(wire[c]) = r
        BY <1>3, <1>8, <2>c, <3>1 DEF AloneOn, OwnHeaders, Writing
      <3>3. wire'[d] = wire[d] /\ payload'[d] = payload[d]
        BY <1>1, <2>1, <3>2
      <3>4. \A q \in DOMAIN traffic : ClientOf(q) = d => Calm(q)
        BY <1>6
      <3> QED
        BY <1>t, <3>1, <3>3, <3>4, AloneAt
    <2>4. Alone'
      <3>1. together' = together
        OBVIOUS
      <3> QED
        BY <2>3, <3>1 DEF Alone
    <2> QED
      BY <1>4, <2>2, <2>4 DEF Separate
  <1> QED
    BY <1>7, <1>8 DEF Beside

LEMMA SeparateStep ==
  ASSUME Separate, Typed, References, Headers, [Next]_vars
  PROVE  Separate'
  <1>t. /\ PlaceTypeOK /\ traffic' = traffic /\ OneActive /\ DOMAIN traffic \subseteq Request
    BY TrafficKept DEF Typed, PlaceTypeOK, Separate
  <1>1. ASSUME NEW r \in Request, Handle(r) PROVE Separate'
    BY <1>t, <1>1, SeparateHandle
  <1>2. ASSUME NEW r \in Request, WorkerMove(r) \/ PoolRuns(r) PROVE Separate'
    BY <1>t, <1>2, SeparateMoves
  <1>3. ASSUME NEW r \in Request, HandlerStep(r) PROVE Separate'
    <2>1. UNCHANGED worker
      BY <1>t, <1>3, HandlerMoves
    <2>2. UNCHANGED together
      BY <1>3 DEF HandlerStep, Run, RunThrows, WriteHead, Serialize, Inserted, FinishHeaders, WriteHeaders,
                  ReadClosedFile, WriteBody, NextBuffer, WriteData, WriteFails, ReleaseFinish,
                  CloseStream, PostSend, RecordTiming, Throw, GoHandler
    <2>3. CASE Serialize(r)
      BY <1>t, <1>3, <2>1, <2>2, <2>3, SeparateSerialize
    <2>4. CASE FinishHeaders(r)
      BY <1>t, <1>3, <2>1, <2>2, <2>4, SeparateFinish
    <2>5. CASE WriteHeaders(r) \/ WriteHead(r)
      BY <1>t, <1>3, <2>1, <2>2, <2>5, SeparateWrite
    <2>6. CASE Beside(r)
      BY <1>t, <1>3, <2>1, <2>2, <2>6, SeparateBeside
    <2> QED
      BY <1>t, <1>3, <2>3, <2>4, <2>5, <2>6, HandlerKinds
  <1>4. ASSUME RateStep \/ Quiet \/ UNCHANGED vars PROVE Separate'
    <2>1. UNCHANGED <<worker, handler, payload, block, inserted, wire, together>>
      BY <1>4 DEF RateStep, Quiet, vars, placeVars, writeVars
    <2>2. OneActive'
      BY <1>t, <2>1, OneActiveKept
    <2>3. \A q \in DOMAIN traffic : Calm(q)
      BY <2>1 DEF Calm
    <2> QED
      BY <1>t, <2>1, <2>2, <2>3, SeparateKept
  <1> QED
    BY <1>1, <1>2, <1>3, <1>4 DEF Next, WorkerMove

(* However the handlers of an HTTP/2 connection interleave, each insertion *)
(* of a response's headers is sent once, in a block of that connection, or *)
(* is still to be sent; and on a connection whose requests were handled    *)
(* one after another, of both protocols, nobody's response has octets of   *)
(* another.                                                                *)
THEOREM EachHeaderIsSentOnce == Spec => []HeadersAreSentOnce
  <1>1. Init => Typed /\ References /\ Headers /\ Separate
    BY TypedInit, ReferencesInit, HeadersInit, SeparateInit
  <1>2. (Typed /\ References /\ Headers /\ Separate) /\ [Next]_vars
            => (Typed /\ References /\ Headers /\ Separate)'
    BY TypedStep, ReferencesStep, HeadersStep, SeparateStep
  <1>3. Typed /\ Headers /\ Separate => HeadersAreSentOnce
    <2> SUFFICES ASSUME Typed, Headers, Separate, NEW r \in DOMAIN traffic
                 PROVE  LET c == ClientOf(r)
                            own == [k \in 1 .. inserted[r] |-> <<r, k>>]
                            blocks(k) == {q \in DOMAIN traffic : ClientOf(q) = c /\ <<r, k>> \in ToSet(block[q])}
                            waiting(k) == IF <<r, k>> \in ToSet(payload[c]) THEN 1 ELSE 0
                        IN /\ \A k \in 1 .. inserted[r] : Cardinality(blocks(k)) + waiting(k) = 1
                           /\ c \notin together => block[r] \in {<< >>, own} /\ IsInjective(wire[c])
      BY DEF HeadersAreSentOnce
    <2>c. PICK c : c = ClientOf(r)
      OBVIOUS
    <2>1. r \in Request /\ c \in Client /\ DOMAIN traffic \subseteq Request
      BY <2>c DEF Typed, PlaceTypeOK, ClientOf
    <2>2. c \notin together => block[r] \in {<< >>, FirstOf(r, inserted[r])} /\ IsInjective(wire[c])
      BY <2>c, <2>1 DEF Separate, Alone, AloneOn, OwnHeaders
    <2>3. ASSUME NEW k \in 1 .. inserted[r]
          PROVE  Cardinality({q \in DOMAIN traffic : ClientOf(q) = c /\ <<r, k>> \in ToSet(block[q])})
                     + (IF <<r, k>> \in ToSet(payload[c]) THEN 1 ELSE 0) = 1
      <3> DEFINE blocks == {q \in DOMAIN traffic : ClientOf(q) = c /\ <<r, k>> \in ToSet(block[q])}
      <3>x. PICK x : x = <<r, k>>
        OBVIOUS
      <3>1. x \in Insertion /\ Made(x) /\ x[1] = r
        <4>1. inserted[r] \in 0 .. Inserts
          BY <2>1 DEF Typed, PlaceTypeOK
        <4> QED
          BY <2>1, <3>x, <4>1 DEF Insertion, Made
      <3>2. \/ x \in ToSet(payload[c])
            \/ \E q \in Request : x \in ToSet(block[q])
        BY <2>c, <3>1 DEF Headers, NotLost
      <3>3. CASE x \in ToSet(payload[c])
        <4>1. blocks = {}
          BY <2>1, <3>x, <3>1, <3>3 DEF Headers, SentIn
        <4>2. Cardinality(blocks) = 0
          BY <4>1, FS_EmptySet
        <4> HIDE DEF blocks
        <4>3. Cardinality(blocks) + (IF <<r, k>> \in ToSet(payload[c]) THEN 1 ELSE 0) = 1
          BY <3>x, <3>3, <4>2
        <4> QED
          BY <4>3 DEF blocks
      <3>4. CASE x \notin ToSet(payload[c])
        <4>1. PICK q \in Request : x \in ToSet(block[q])
          BY <3>2, <3>4
        <4>2. q \in DOMAIN traffic /\ ClientOf(q) = c
          BY <2>c, <3>1, <4>1 DEF Headers, SentIn
        <4>3. \A p \in DOMAIN traffic : x \in ToSet(block[p]) => p = q
          BY <2>1, <3>1, <4>1 DEF Headers, SentOnce
        <4>4. blocks = {q}
          BY <3>x, <4>1, <4>2, <4>3
        <4>5. Cardinality(blocks) = 1
          BY <4>4, FS_Singleton
        <4> HIDE DEF blocks
        <4>6. Cardinality(blocks) + (IF <<r, k>> \in ToSet(payload[c]) THEN 1 ELSE 0) = 1
          BY <3>x, <3>4, <4>5
        <4> QED
          BY <4>6 DEF blocks
      <3> QED
        BY <3>3, <3>4
    <2>4. ClientOf(r) \notin together =>
              /\ block[r] \in {<< >>, [k \in 1 .. inserted[r] |-> <<r, k>>]}
              /\ IsInjective(wire[ClientOf(r)])
      BY <2>c, <2>2 DEF FirstOf
    <2>5. ASSUME NEW k \in 1 .. inserted[r]
          PROVE  Cardinality({q \in DOMAIN traffic : ClientOf(q) = ClientOf(r) /\ <<r, k>> \in ToSet(block[q])})
                     + (IF <<r, k>> \in ToSet(payload[ClientOf(r)]) THEN 1 ELSE 0) = 1
      BY <2>c, <2>3, Zenon
    <2> QED
      BY <2>4, <2>5, Zenon
  <1> QED
    BY <1>1, <1>2, <1>3, PTL DEF Spec

-----------------------------------------------------------------------------
Pieces == [len : Nat, end : BOOLEAN]

(* What has been taken of the channel: what was streamed before it. *)
TakenOf(r) == SubSeq(streamed[r], 1, Len(streamed[r]) - Len(channel[r]))

LEMMA PartBefore ==
  ASSUME NEW S, NEW p \in Seq(S), NEW c \in Seq(S)
  PROVE  SubSeq(p \o c, 1, Len(p \o c) - Len(c)) = p
  <1>1. PICK s, n : s = p \o c /\ n = Len(p)
    OBVIOUS
  <1>2. /\ s \in Seq(S) /\ n \in Nat /\ Len(s) - Len(c) = n /\ n <= Len(s)
        /\ \A i \in 1 .. n : s[i] = p[i]
    BY <1>1, ConcatProperties
  <1>3. /\ SubSeq(s, 1, n) \in Seq(S) /\ Len(SubSeq(s, 1, n)) = n
        /\ \A i \in 1 .. n : SubSeq(s, 1, n)[i] = s[i]
    BY <1>2
  <1>4. Len(SubSeq(s, 1, n)) = Len(p) /\ \A i \in 1 .. Len(p) : SubSeq(s, 1, n)[i] = p[i]
    BY <1>1, <1>2, <1>3
  <1>5. SubSeq(s, 1, n) = p
    BY <1>3, <1>4, SeqEqual
  <1> QED
    BY <1>1, <1>2, <1>5

LEMMA TakenType ==
  ASSUME StreamTyped, NEW r \in Request
  PROVE  /\ TakenOf(r) \in Seq(Buffers)
         /\ Len(TakenOf(r)) = Len(streamed[r]) - Len(channel[r])
         /\ Len(TakenOf(r)) <= Len(streamed[r])
         /\ \A i \in 1 .. Len(TakenOf(r)) : TakenOf(r)[i] = streamed[r][i]
         /\ streamed[r] = TakenOf(r) \o channel[r]
  <1>1. PICK s, c, n : s = streamed[r] /\ c = channel[r] /\ n = Len(s) - Len(c)
    OBVIOUS
  <1>2. s \in Seq(Buffers) /\ c \in Seq(Buffers) /\ Ends(c, s) /\ Len(s) \in Nat /\ Len(c) \in Nat
    BY <1>1 DEF StreamTyped
  <1>3. n \in Nat /\ n <= Len(s) /\ Len(s) = n + Len(c)
    <2>1. Len(c) <= Len(s)
      BY <1>2 DEF Ends
    <2>2. Len(s) \in Nat /\ Len(c) \in Nat /\ n = Len(s) - Len(c)
      BY <1>1, <1>2
    <2> QED
      BY <2>1, <2>2
  <1>4. PICK t : t = SubSeq(s, 1, n)
    OBVIOUS
  <1>5. /\ t \in Seq(Buffers) /\ Len(t) = n /\ \A i \in 1 .. n : t[i] = s[i]
    BY <1>2, <1>3, <1>4
  <1>6. s = t \o c
    <2>1. /\ t \o c \in Seq(Buffers) /\ Len(t \o c) = Len(s)
          /\ \A i \in 1 .. Len(s) : (t \o c)[i] = IF i <= n THEN t[i] ELSE c[i - n]
      BY <1>2, <1>3, <1>5, ConcatProperties
    <2>2. ASSUME NEW i \in 1 .. Len(s) PROVE (t \o c)[i] = s[i]
      <3>1. CASE i <= n
        <4>1. i \in 1 .. n
          BY <1>3, <3>1
        <4> QED
          BY <1>5, <2>1, <3>1, <4>1
      <3>2. CASE ~(i <= n)
        <4>1. i - n \in 1 .. Len(c) /\ Len(s) - Len(c) + (i - n) = i
          BY <1>2, <1>3, <3>2
        <4> QED
          BY <1>2, <2>1, <3>2, <4>1 DEF Ends
      <3> QED
        BY <3>1, <3>2
    <2> QED
      BY <1>2, <2>1, <2>2, SeqEqual
  <1>7. TakenOf(r) = t
    BY <1>1, <1>4 DEF TakenOf
  <1> QED
    BY <1>1, <1>3, <1>5, <1>6, <1>7

LEMMA ChunkType ==
  ASSUME StreamTyped, NEW r \in Request
  PROVE  ChunkOf(unread[r]) \in Seq(Buffers)
  <1>1. \A n \in Nat : Body(n) \in Buffers /\ Stream(n) \in Buffers
    BY DEF Body, Stream, Buffer, Buffers
  <1>2. unread[r] \in Nat \/ unread[r] < 0
    <2>1. unread[r] \in Nat \cup {NoFile, Closed}
      BY DEF StreamTyped
    <2> QED
      BY <2>1 DEF NoFile, Closed
  <1>3. CASE unread[r] < 0
    BY <1>3 DEF ChunkOf
  <1>4. CASE unread[r] \in Nat
    <2>1. Body(unread[r]) \in Buffers /\ Stream(ChunkSize) \in Buffers /\ ~(unread[r] < 0)
      BY <1>1, <1>4
    <2> QED
      BY <2>1 DEF ChunkOf
  <1> QED
    BY <1>2, <1>3, <1>4

(* The history gets what the chunk event streams, and the first buffer of  *)
(* the channel is taken.                                                   *)
LEMMA TakeAppends ==
  ASSUME StreamTyped, NEW r \in Request, TakeBuffer(r)
  PROVE  /\ streamed'[r] = streamed[r] \o ChunkOf(unread[r])
         /\ TakenOf(r)' = Append(TakenOf(r), Head(Triggered(r)))
         /\ unread'[r] = IF unread[r] = NoFile THEN NoFile
                         ELSE IF unread[r] < ChunkSize THEN Closed ELSE unread[r] - ChunkSize
         /\ unread[r] # Closed /\ Head(Triggered(r)) \in Buffers
  <1>1. PICK s, c, k, t, p, x : /\ s = streamed[r] /\ c = channel[r] /\ k = ChunkOf(unread[r])
                                /\ t = Triggered(r) /\ p = TakenOf(r) /\ x = Head(t)
    OBVIOUS
  <1>2. /\ c \in Seq(Buffers) /\ k \in Seq(Buffers) /\ p \in Seq(Buffers) /\ t \in Seq(Buffers)
        /\ s \in Seq(Buffers) /\ s = p \o c /\ t = c \o k /\ t # << >> /\ x \in Buffers
    <2>1. Triggered(r) # << >>
      BY DEF TakeBuffer, Starved
    <2> QED
      BY <1>1, <2>1, TakenType, ChunkType, TriggeredType DEF StreamTyped, Triggered
  <1>3. SubSeq(t, Len(c) + 1, Len(t)) = k
    <2>1. /\ Len(t) = Len(c) + Len(k) /\ Len(c) \in Nat /\ Len(k) \in Nat
          /\ \A i \in 1 .. Len(k) : t[Len(c) + i] = k[i]
      BY <1>2, ConcatProperties
    <2>2. PICK u : u = SubSeq(t, Len(c) + 1, Len(t))
      OBVIOUS
    <2>3. /\ u \in Seq(Buffers) /\ Len(u) = Len(k)
          /\ \A i \in 1 .. Len(k) : u[i] = t[Len(c) + i]
      BY <1>2, <2>1, <2>2, SubSeqProperties
    <2>4. \A i \in 1 .. Len(u) : u[i] = k[i]
      BY <2>1, <2>3
    <2> QED
      BY <1>2, <2>2, <2>3, <2>4, SeqEqual
  <1>4. streamed'[r] = s \o k /\ channel'[r] = Tail(t)
    BY <1>1, <1>3 DEF TakeBuffer, StreamTyped
  <1>5. s \o k = Append(p, x) \o Tail(t)
    <2>1. s \o k = p \o t
      <3>1. p \in Seq(Buffers) /\ c \in Seq(Buffers) /\ k \in Seq(Buffers)
        BY <1>2
      <3>2. (p \o c) \o k = p \o (c \o k)
        BY <3>1, ConcatAssociative
      <3> QED
        BY <1>2, <3>2, Zenon
    <2>2. PICK u : u = Tail(t)
      OBVIOUS
    <2>3. /\ u \in Seq(Buffers) /\ <<x>> \in Seq(Buffers) /\ t = <<x>> \o u
      <3>1. /\ u \in Seq(Buffers) /\ Len(u) = Len(t) - 1 /\ Len(t) \in Nat
            /\ \A i \in 1 .. Len(u) : u[i] = t[i + 1]
        BY <1>2, <2>2
      <3>2. t[1] = x /\ <<x>> \in Seq(Buffers) /\ Len(<<x>>) = 1 /\ <<x>>[1] = x
        <4>1. x = Head(t) /\ t \in Seq(Buffers) /\ t # << >> /\ x \in Buffers
          BY <1>1, <1>2
        <4>2. t[1] = x
          BY <4>1
        <4>3. <<x>> \in Seq(Buffers) /\ Len(<<x>>) = 1 /\ <<x>>[1] = x
          BY <4>1
        <4> QED
          BY <4>2, <4>3
      <3>3. /\ <<x>> \o u \in Seq(Buffers) /\ Len(<<x>> \o u) = Len(t)
            /\ \A i \in 1 .. Len(t) : (<<x>> \o u)[i] = IF i <= 1 THEN <<x>>[i] ELSE u[i - 1]
        BY <3>1, <3>2, ConcatProperties
      <3>4. ASSUME NEW i \in 1 .. Len(t) PROVE (<<x>> \o u)[i] = t[i]
        <4>1. CASE i <= 1
          <5>1. i = 1
            BY <4>1
          <5> QED
            BY <3>2, <3>3, <5>1
        <4>2. CASE ~(i <= 1)
          <5>1. i - 1 \in 1 .. Len(u) /\ (i - 1) + 1 = i
            BY <3>1, <4>2
          <5> QED
            BY <3>1, <3>3, <4>2, <5>1
        <4> QED
          BY <4>1, <4>2
      <3> QED
        BY <1>2, <3>1, <3>2, <3>3, <3>4, SeqEqual
    <2>5. p \o t = (p \o <<x>>) \o u
      <3>1. p \in Seq(Buffers)
        BY <1>2
      <3>2. (p \o <<x>>) \o u = p \o (<<x>> \o u)
        BY <2>3, <3>1, ConcatAssociative
      <3> QED
        BY <2>3, <3>2, Zenon
    <2>4. p \o <<x>> = Append(p, x)
      BY <1>2, AppendIsConcat
    <2> QED
      BY <2>1, <2>2, <2>4, <2>5
  <1>6. TakenOf(r)' = Append(p, x)
    <2>1. Append(p, x) \in Seq(Buffers) /\ Tail(t) \in Seq(Buffers)
      BY <1>2
    <2>2. TakenOf(r)' = SubSeq(streamed'[r], 1, Len(streamed'[r]) - Len(channel'[r]))
      BY DEF TakenOf
    <2> QED
      BY <1>4, <1>5, <2>1, <2>2, PartBefore
  <1>7. /\ unread'[r] = IF unread[r] = NoFile THEN NoFile
                         ELSE IF unread[r] < ChunkSize THEN Closed ELSE unread[r] - ChunkSize
        /\ unread[r] # Closed
    BY DEF TakeBuffer, StreamTyped, ReadsClosed
  <1> QED
    BY <1>1, <1>2, <1>4, <1>6, <1>7

-----------------------------------------------------------------------------
(* Sequences of buffers and of writes, as they grow.                       *)
NoneLast(s) == \A i \in 1 .. Len(s) : ~s[i].last
LastOnly(s) ==
    /\ s # << >> /\ s[Len(s)].last
    /\ \A i \in 1 .. Len(s) : s[i].last => i = Len(s)

NoEnd(s) == \A i \in 1 .. Len(s) : ~s[i].end
EndOnly(s) == s # << >> /\ \A i \in 1 .. Len(s) : s[i].end <=> i = Len(s)

Fits(s) == \A i \in 1 .. Len(s) : s[i].len \in 1 .. FrameSize

LEMMA AppendBuffer ==
  ASSUME NEW s \in Seq(Buffers), NEW x \in Buffers, NoneLast(s)
  PROVE  /\ x.last => LastOnly(Append(s, x))
         /\ ~x.last => NoneLast(Append(s, x))
         /\ \A i \in 1 .. Len(Append(s, x)) : Append(s, x)[i].last => i = Len(Append(s, x))
         /\ Append(s, x) # << >> /\ Append(s, x)[Len(Append(s, x))] = x
         /\ Append(s, x) \in Seq(Buffers)
  <1>1. PICK t, n : t = Append(s, x) /\ n = Len(s)
    OBVIOUS
  <1>2. /\ t \in Seq(Buffers) /\ n \in Nat /\ Len(t) = n + 1 /\ t[n + 1] = x /\ t # << >>
        /\ \A i \in 1 .. n : t[i] = s[i]
    BY <1>1
  <1>3. \A i \in 1 .. n + 1 : i = n + 1 \/ (i \in 1 .. n /\ ~t[i].last)
    <2> SUFFICES ASSUME NEW i \in 1 .. n + 1, i # n + 1 PROVE i \in 1 .. n /\ ~t[i].last
      OBVIOUS
    <2>1. i \in 1 .. n
      BY <1>2
    <2> QED
      BY <1>1, <1>2, <2>1 DEF NoneLast
  <1>4. x.last => LastOnly(t)
    BY <1>2, <1>3 DEF LastOnly
  <1>5. ~x.last => NoneLast(t)
    BY <1>2, <1>3 DEF NoneLast
  <1> QED
    BY <1>1, <1>2, <1>3, <1>4, <1>5

LEMMA AppendPiece ==
  ASSUME NEW s \in Seq(Pieces), NEW x \in Pieces, NoEnd(s)
  PROVE  /\ x.end => EndOnly(Append(s, x))
         /\ ~x.end => NoEnd(Append(s, x))
  <1>1. PICK t, n : t = Append(s, x) /\ n = Len(s)
    OBVIOUS
  <1>2. /\ t \in Seq(Pieces) /\ n \in Nat /\ Len(t) = n + 1 /\ t[n + 1] = x /\ t # << >>
        /\ \A i \in 1 .. n : t[i] = s[i]
    BY <1>1
  <1>3. \A i \in 1 .. n + 1 : i = n + 1 \/ (i \in 1 .. n /\ ~t[i].end)
    <2> SUFFICES ASSUME NEW i \in 1 .. n + 1, i # n + 1 PROVE i \in 1 .. n /\ ~t[i].end
      OBVIOUS
    <2>1. i \in 1 .. n
      BY <1>2
    <2> QED
      BY <1>1, <1>2, <2>1 DEF NoEnd
  <1>4. x.end => EndOnly(t)
    BY <1>2, <1>3 DEF EndOnly
  <1>5. ~x.end => NoEnd(t)
    BY <1>2, <1>3 DEF NoEnd
  <1> QED
    BY <1>1, <1>4, <1>5

LEMMA AppendFits ==
  ASSUME NEW s \in Seq(Pieces), NEW x \in Pieces, Fits(s), x.len \in 1 .. FrameSize
  PROVE  Fits(Append(s, x))
  <1>1. PICK t, n : t = Append(s, x) /\ n = Len(s)
    OBVIOUS
  <1>2. /\ n \in Nat /\ Len(t) = n + 1 /\ t[n + 1] = x
        /\ \A i \in 1 .. n : t[i] = s[i]
    BY <1>1
  <1>3. ASSUME NEW i \in 1 .. n + 1 PROVE t[i].len \in 1 .. FrameSize
    <2>1. CASE i \in 1 .. n
      BY <1>1, <1>2, <2>1 DEF Fits
    <2>2. CASE i = n + 1
      BY <1>2, <2>2
    <2> QED
      BY <1>2, <2>1, <2>2
  <1> QED
    BY <1>1, <1>2, <1>3 DEF Fits

LEMMA SizedTypes == Sized(Buffers) /\ Sized(Pieces)
  BY DEF Sized, Buffers, Pieces

-----------------------------------------------------------------------------
(* How far a response is: what is written of what has been taken, between  *)
(* two buffers, within one, and after the last.  And, of a well-formed     *)
(* response, what the chunk event has left of the file.                    *)
Unanswered == {"none", "pooled", "run"}
Sending == {"head", "serialized", "framed", "body"}
Finished == {"sent", "closing", "post", "timing", "ended"}
Responding == Sending \cup {"frames"} \cup Finished

BetweenBuffers(r) ==
    /\ Total(sent[r]) = Total(TakenOf(r))
    /\ NoneLast(TakenOf(r)) /\ NoEnd(sent[r])

WithinBuffer(r) ==
    LET taken == TakenOf(r)
    IN /\ taken # << >> /\ taken[Len(taken)] = buf[r]
       /\ \A i \in 1 .. Len(taken) : taken[i].last => i = Len(taken)
       /\ offset[r] < buf[r].len
       /\ Total(sent[r]) + buf[r].len = Total(taken) + offset[r]
       /\ NoEnd(sent[r])

AllWritten(r) ==
    LET taken == TakenOf(r)
    IN /\ LastOnly(taken) /\ Total(sent[r]) = Total(taken)
       /\ IF Http2(r) /\ taken[Len(taken)].len = 0 THEN NoEnd(sent[r]) ELSE EndOnly(sent[r])

StreamLeft(r) ==
    LET s == streamed[r]
    IN IF FileOf(r) = NoFile THEN unread[r] = NoFile /\ s = StreamsOf(r)
       ELSE /\ unread[r] = Closed =>
                   /\ LastOnly(s) /\ Total(s) = FileOf(r)
                   /\ Http2(r) => s[Len(s)].len # 0
            /\ unread[r] # Closed =>
                   /\ unread[r] \in Nat /\ NoneLast(s)
                   /\ Total(s) \in Nat /\ Total(s) + unread[r] = FileOf(r)
                   /\ \E k \in 0 .. Total(s) : Total(s) = k * ChunkSize

Answering(r) ==
    /\ handler[r] \in Unanswered => sent[r] = << >>
    /\ handler[r] \in Sending => BetweenBuffers(r)
    /\ handler[r] = "frames" => WithinBuffer(r)
    /\ handler[r] \in Finished => AllWritten(r)
    /\ handler[r] \in Responding /\ Http2(r) => Fits(sent[r])
    /\ handler[r] \in Responding /\ WellFormed(r) => StreamLeft(r)

Answers == \A r \in Request : Answering(r)

LEMMA RequestKept ==
  ASSUME traffic' = traffic, NEW r
  PROVE  /\ Http2(r)' = Http2(r) /\ EndpointOf(r)' = EndpointOf(r)
         /\ StreamsOf(r)' = StreamsOf(r) /\ FileOf(r)' = FileOf(r)
         /\ WellFormed(r)' = WellFormed(r)
  <1>1. Http2(r)' = Http2(r) /\ EndpointOf(r)' = EndpointOf(r)
    BY DEF Http2, EndpointOf, FindEndpoint, Matching
  <1>2. StreamsOf(r)' = StreamsOf(r) /\ FileOf(r)' = FileOf(r)
    BY <1>1, Zenon DEF StreamsOf, FileOf, Found
  <1>3. WellFormed(r)' = WellFormed(r)
    BY <1>1, <1>2, Zenon DEF WellFormed
  <1> QED
    BY <1>1, <1>2, <1>3

(* Steps that leave the response where it is. *)
SameStream(r) ==
    /\ channel'[r] = channel[r] /\ streamed'[r] = streamed[r] /\ unread'[r] = unread[r]
    /\ buf'[r] = buf[r] /\ offset'[r] = offset[r] /\ sent'[r] = sent[r]

LEMMA AnsweringKept ==
  ASSUME NEW r \in Request, Answering(r), SameStream(r), traffic' = traffic,
         \/ handler'[r] = handler[r]
         \/ handler[r] \in Unanswered /\ handler'[r] \in Unanswered
         \/ handler[r] \in Sending /\ handler'[r] \in Sending
         \/ handler[r] \in Finished /\ handler'[r] \in Finished
         \/ handler'[r] = "thrown"
  PROVE  Answering(r)'
  <1>1. /\ TakenOf(r)' = TakenOf(r) /\ Http2(r)' = Http2(r) /\ WellFormed(r)' = WellFormed(r)
        /\ StreamsOf(r)' = StreamsOf(r) /\ FileOf(r)' = FileOf(r)
    BY RequestKept DEF SameStream, TakenOf
  <1>2. /\ BetweenBuffers(r)' = BetweenBuffers(r) /\ WithinBuffer(r)' = WithinBuffer(r)
        /\ AllWritten(r)' = AllWritten(r) /\ StreamLeft(r)' = StreamLeft(r)
    <2>1. BetweenBuffers(r)' = BetweenBuffers(r)
      BY <1>1, Zenon DEF BetweenBuffers, SameStream
    <2>2. WithinBuffer(r)' = WithinBuffer(r)
      BY <1>1, Zenon DEF WithinBuffer, SameStream
    <2>3. AllWritten(r)' = AllWritten(r)
      BY <1>1, Zenon DEF AllWritten, SameStream
    <2>4. StreamLeft(r)' = StreamLeft(r)
      BY <1>1, Zenon DEF StreamLeft, SameStream
    <2> QED
      BY <2>1, <2>2, <2>3, <2>4
  <1> QED
    BY <1>1, <1>2 DEF Answering, SameStream, Unanswered, Sending, Finished, Responding

-----------------------------------------------------------------------------
(* The steps that move a response on.                                      *)

(* A response begins: nothing has been taken or written. *)
LEMMA Begins ==
  ASSUME StreamTyped, NEW r \in Request, Answering(r), traffic' = traffic,
         NEW buffers \in Seq(Buffers), NEW file \in Nat \cup {NoFile}, Respond(r, buffers, file),
         handler[r] \in Unanswered, handler'[r] = "head",
         buffers = StreamsOf(r), file = FileOf(r)
  PROVE  Answering(r)'
  <1>1. /\ streamed'[r] = buffers /\ channel'[r] = buffers /\ unread'[r] = file
        /\ sent'[r] = << >>
    BY DEF Respond, StreamTyped, Answering
  <1>2. TakenOf(r)' = << >>
    <2>1. TakenOf(r)' = SubSeq(buffers, 1, Len(buffers) - Len(buffers))
      BY <1>1, Zenon DEF TakenOf
    <2>2. Len(buffers) - Len(buffers) = 0
      OBVIOUS
    <2> QED
      BY <2>1, <2>2
  <1>3. BetweenBuffers(r)'
    <2>1. NoneLast(<< >>) /\ NoEnd(<< >>)
      BY DEF NoneLast, NoEnd
    <2> QED
      BY <1>1, <1>2, <2>1, Zenon DEF BetweenBuffers
  <1>4. Fits(sent[r])'
    <2>1. Fits(<< >>)
      BY DEF Fits
    <2> QED
      BY <1>1, <2>1, Zenon
  <1>5. ASSUME WellFormed(r) PROVE StreamLeft(r)'
    <2>1. FileOf(r)' = file /\ StreamsOf(r)' = buffers
      BY RequestKept
    <2>2. CASE file = NoFile
      BY <1>1, <2>1, <2>2, Zenon DEF StreamLeft
    <2>3. CASE file # NoFile
      <3>1. file \in Nat /\ file # Closed /\ buffers = << >>
        BY <1>5, <2>3 DEF WellFormed, Closed
      <3>2. NoneLast(<< >>) /\ Total(<< >>) = 0
        BY TotalNone DEF NoneLast
      <3>3. /\ Total(<< >>) \in Nat /\ Total(<< >>) + file = file
            /\ \E k \in 0 .. Total(<< >>) : Total(<< >>) = k * ChunkSize
        BY <3>1, <3>2
      <3> QED
        BY <1>1, <2>1, <2>3, <3>1, <3>2, <3>3, Zenon DEF StreamLeft
    <2> QED
      BY <2>2, <2>3
  <1> QED
    BY <1>3, <1>4, <1>5, RequestKept DEF Answering, Unanswered, Sending, Finished, Responding

(* The file: what the chunk event streams, it has read. *)
LEMMA FileTaken ==
  ASSUME StreamTyped, NEW r \in Request, TakeBuffer(r), traffic' = traffic, WellFormed(r), StreamLeft(r)
  PROVE  StreamLeft(r)'
  <1>1. PICK s, u, m : s = streamed[r] /\ u = unread[r] /\ m = FileOf(r)
    OBVIOUS
  <1>2. /\ s \in Seq(Buffers) /\ FileOf(r)' = m /\ StreamsOf(r)' = StreamsOf(r)
        /\ Http2(r)' = Http2(r)
        /\ streamed'[r] = s \o ChunkOf(u) /\ u # Closed
        /\ unread'[r] = IF u = NoFile THEN NoFile ELSE IF u < ChunkSize THEN Closed ELSE u - ChunkSize
    BY <1>1, TakeAppends, RequestKept DEF StreamTyped
  <1>3. CASE m = NoFile
    <2>1. u = NoFile /\ s = StreamsOf(r)
      BY <1>1, <1>3 DEF StreamLeft
    <2>2. s \o ChunkOf(u) = s
      BY <1>2, <2>1, ConcatEmptySeq DEF ChunkOf, NoFile
    <2>3. unread'[r] = NoFile
      BY <1>2, <2>1
    <2> QED
      BY <1>2, <1>3, <2>1, <2>2, <2>3 DEF StreamLeft
  <1>4. ASSUME m # NoFile
        PROVE  /\ u \in Nat /\ NoneLast(s) /\ Total(s) \in Nat /\ Total(s) + u = m
               /\ \E k \in 0 .. Total(s) : Total(s) = k * ChunkSize
    BY <1>1, <1>2, <1>4 DEF StreamLeft
  <1>5. CASE m # NoFile /\ u < ChunkSize
    <2>1. PICK x : x = Body(u)
      OBVIOUS
    <2>2. x \in Buffers /\ x.len = u /\ x.last
      BY <1>4, <1>5, <2>1 DEF Body, Buffer, Buffers
    <2>3. streamed'[r] = Append(s, x)
      BY <1>2, <1>4, <1>5, <2>1, <2>2, AppendIsConcat DEF ChunkOf
    <2>4. LastOnly(Append(s, x)) /\ Total(Append(s, x)) = Total(s) + x.len
      BY <1>2, <1>4, <1>5, <2>2, AppendBuffer, TotalAppend, SizedTypes
    <2>5. Append(s, x)[Len(Append(s, x))] = x
      BY <1>2, <2>2
    <2>6. unread'[r] = Closed
      BY <1>2, <1>4, <1>5 DEF NoFile
    <2>7. Http2(r) => u # 0
      <3> SUFFICES ASSUME Http2(r), u = 0 PROVE FALSE
        OBVIOUS
      <3>1. PICK k \in 0 .. Total(s) : Total(s) = k * ChunkSize
        BY <1>4, <1>5
      <3>2. Total(s) = m
        BY <1>4, <1>5
      <3> QED
        BY <1>1, <1>5, <3>1, <3>2 DEF WellFormed
    <2>8. Total(Append(s, x)) = m
      BY <1>4, <1>5, <2>2, <2>4
    <2> QED
      BY <1>2, <1>5, <2>2, <2>3, <2>4, <2>5, <2>6, <2>7, <2>8 DEF StreamLeft
  <1>6. CASE m # NoFile /\ ~(u < ChunkSize)
    <2>1. PICK x : x = Stream(ChunkSize)
      OBVIOUS
    <2>2. x \in Buffers /\ x.len = ChunkSize /\ ~x.last
      BY <2>1 DEF Stream, Buffer, Buffers
    <2>3. streamed'[r] = Append(s, x)
      BY <1>2, <1>4, <1>6, <2>1, <2>2, AppendIsConcat DEF ChunkOf
    <2>4. NoneLast(Append(s, x)) /\ Total(Append(s, x)) = Total(s) + x.len
      BY <1>2, <1>4, <1>6, <2>2, AppendBuffer, TotalAppend, SizedTypes
    <2>5. unread'[r] = u - ChunkSize /\ u - ChunkSize \in Nat /\ u - ChunkSize # Closed
      BY <1>2, <1>4, <1>6 DEF NoFile, Closed
    <2>6. PICK n, y : n = Total(s) /\ y = Total(streamed'[r])
      OBVIOUS
    <2>7. n \in Nat /\ y = n + ChunkSize /\ n + u = m
      BY <1>4, <1>6, <2>2, <2>3, <2>4, <2>6
    <2>8. y \in Nat /\ y + (u - ChunkSize) = m
      BY <1>4, <1>6, <2>5, <2>7
    <2>9. \E k \in 0 .. y : y = k * ChunkSize
      <3>1. PICK k \in 0 .. n : n = k * ChunkSize
        BY <1>4, <1>6, <2>6
      <3>2. k + 1 \in 0 .. y
        BY <2>7, <3>1
      <3>3. y = (k + 1) * ChunkSize
        BY <2>7, <3>1
      <3> QED
        BY <3>2, <3>3
    <2> QED
      BY <1>2, <1>6, <2>3, <2>4, <2>5, <2>6, <2>8, <2>9 DEF StreamLeft
  <1> QED
    BY <1>3, <1>5, <1>6

(* A buffer is taken, and counted. *)
LEMMA BufferTaken ==
  ASSUME StreamTyped, NEW r \in Request, TakeBuffer(r), BetweenBuffers(r)
  PROVE  LET b == Head(Triggered(r))
             taken == TakenOf(r)'
         IN /\ b \in Buffers /\ taken # << >> /\ taken[Len(taken)] = b
            /\ Total(taken) = Total(sent[r]) + b.len /\ Total(sent[r]) \in Nat
            /\ b.last => LastOnly(taken)
            /\ ~b.last => NoneLast(taken)
            /\ \A i \in 1 .. Len(taken) : taken[i].last => i = Len(taken)
  <1>1. PICK b, p : b = Head(Triggered(r)) /\ p = TakenOf(r)
    OBVIOUS
  <1>2. /\ TakenOf(r)' = Append(p, b) /\ b \in Buffers /\ p \in Seq(Buffers)
        /\ NoneLast(p) /\ Total(sent[r]) = Total(p)
    BY <1>1, TakeAppends, TakenType DEF BetweenBuffers
  <1>3. Total(Append(p, b)) = Total(p) + b.len /\ Total(p) \in Nat
    BY <1>2, TotalAppend, SizedTypes
  <1> QED
    BY <1>1, <1>2, <1>3, AppendBuffer

(* HTTP/1.1: the buffer is written. *)
LEMMA BufferWritten ==
  ASSUME StreamTyped, NEW r \in Request, Answering(r), WriteBuffer(r), traffic' = traffic,
         handler[r] = "body", ~Http2(r),
         handler'[r] = AfterBuffer(Head(Triggered(r)))
  PROVE  Answering(r)'
  <1>1. PICK b, t, w, x : /\ b = Head(Triggered(r)) /\ t = TakenOf(r)' /\ w = sent[r]
                          /\ x = [len |-> b.len, end |-> b.last]
    OBVIOUS
  <1>2. TakeBuffer(r) /\ sent'[r] = Append(w, x)
    BY <1>1 DEF WriteBuffer, Written, StreamTyped
  <1>3. BetweenBuffers(r) /\ w \in Seq(Pieces)
    BY <1>1 DEF Answering, Sending, StreamTyped, Pieces
  <1>4. /\ b \in Buffers /\ t # << >> /\ t[Len(t)] = b
        /\ Total(t) = Total(w) + b.len
        /\ b.last => LastOnly(t)
        /\ ~b.last => NoneLast(t)
    BY <1>1, <1>2, <1>3, BufferTaken
  <1>5. x \in Pieces /\ x.len = b.len /\ (x.end <=> b.last)
    BY <1>1, <1>4 DEF Pieces, Buffers
  <1>6. /\ Total(Append(w, x)) = Total(t)
        /\ b.last => EndOnly(Append(w, x))
        /\ ~b.last => NoEnd(Append(w, x))
    <2>1. Total(Append(w, x)) = Total(w) + x.len
      BY <1>3, <1>5, TotalAppend, SizedTypes
    <2>2. NoEnd(w)
      BY <1>1, <1>3 DEF BetweenBuffers
    <2> QED
      BY <1>3, <1>4, <1>5, <2>1, <2>2, AppendPiece
  <1>7. WellFormed(r) => StreamLeft(r)'
    <2>1. WellFormed(r) => StreamLeft(r)
      BY DEF Answering, Responding, Sending
    <2> QED
      BY <1>2, <2>1, FileTaken
  <1>8. Http2(r)' = Http2(r) /\ WellFormed(r)' = WellFormed(r)
    BY RequestKept
  <1>9. CASE b.last
    <2>1. handler'[r] = "sent"
      BY <1>1, <1>9 DEF AfterBuffer
    <2>2. AllWritten(r)'
      <3>1. /\ TakenOf(r)' = t /\ sent'[r] = Append(w, x)
            /\ LastOnly(t) /\ Total(Append(w, x)) = Total(t) /\ EndOnly(Append(w, x))
        BY <1>1, <1>2, <1>4, <1>6, <1>9
      <3>2. ~Http2(r)'
        BY <1>8
      <3> QED
        BY <3>1, <3>2, Zenon DEF AllWritten
    <2> QED
      BY <1>7, <1>8, <2>1, <2>2 DEF Answering, Unanswered, Sending, Finished, Responding
  <1>10. CASE ~b.last
    <2>1. handler'[r] = "body"
      BY <1>1, <1>10 DEF AfterBuffer
    <2>2. BetweenBuffers(r)'
      BY <1>1, <1>2, <1>4, <1>6, <1>10, Zenon DEF BetweenBuffers
    <2> QED
      BY <1>7, <1>8, <2>1, <2>2 DEF Answering, Unanswered, Sending, Finished, Responding
  <1> QED
    BY <1>9, <1>10

(* HTTP/2: the buffer is to be cut, if there is anything in it. *)
LEMMA BufferCut ==
  ASSUME StreamTyped, NEW r \in Request, Answering(r), CutBuffer(r), traffic' = traffic,
         handler[r] = "body", Http2(r),
         handler'[r] = IF buf'[r].len > 0 THEN "frames" ELSE AfterBuffer(buf'[r])
  PROVE  Answering(r)'
  <1>1. PICK b, t, w : b = Head(Triggered(r)) /\ t = TakenOf(r)' /\ w = sent[r]
    OBVIOUS
  <1>2. TakeBuffer(r) /\ sent'[r] = w /\ buf'[r] = b /\ offset'[r] = 0
    BY <1>1 DEF CutBuffer, StreamTyped
  <1>3. BetweenBuffers(r) /\ NoEnd(w)
    BY <1>1 DEF Answering, Sending, BetweenBuffers
  <1>4. /\ b \in Buffers /\ t # << >> /\ t[Len(t)] = b
        /\ Total(t) = Total(w) + b.len /\ Total(w) \in Nat
        /\ b.last => LastOnly(t)
        /\ ~b.last => NoneLast(t)
        /\ \A i \in 1 .. Len(t) : t[i].last => i = Len(t)
    BY <1>1, <1>2, <1>3, BufferTaken
  <1>5. b.len \in Nat
    BY <1>4 DEF Buffers
  <1>6. /\ WellFormed(r) => StreamLeft(r)'
        /\ Fits(sent[r])'
    BY <1>1, <1>2, FileTaken DEF Answering, Responding, Sending, Fits
  <1>7. Http2(r)' = Http2(r) /\ WellFormed(r)' = WellFormed(r)
    BY RequestKept
  <1>8. CASE b.len > 0
    <2>1. handler'[r] = "frames"
      BY <1>2, <1>8
    <2>2. /\ offset'[r] < buf'[r].len
          /\ Total(sent'[r]) + buf'[r].len = Total(t) + offset'[r]
      <3>1. PICK n, k : n = Total(w) /\ k = Total(t)
        OBVIOUS
      <3>2. k = n + b.len /\ n \in Nat
        BY <1>4, <3>1
      <3> QED
        BY <1>2, <1>5, <1>8, <3>1, <3>2
    <2>3. WithinBuffer(r)'
      BY <1>1, <1>2, <1>3, <1>4, <2>2, Zenon DEF WithinBuffer
    <2> QED
      BY <1>6, <1>7, <2>1, <2>3 DEF Answering, Unanswered, Sending, Finished, Responding
  <1>9. CASE ~(b.len > 0)
    <2>1. b.len = 0 /\ Total(t) = Total(w)
      BY <1>4, <1>5, <1>9
    <2>2. CASE b.last
      <3>1. handler'[r] = "sent"
        BY <1>2, <1>9, <2>2 DEF AfterBuffer
      <3>2. AllWritten(r)'
        BY <1>1, <1>2, <1>3, <1>4, <1>7, <2>1, <2>2, Zenon DEF AllWritten
      <3> QED
        BY <1>6, <1>7, <3>1, <3>2 DEF Answering, Unanswered, Sending, Finished, Responding
    <2>3. CASE ~b.last
      <3>1. handler'[r] = "body"
        BY <1>2, <1>9, <2>3 DEF AfterBuffer
      <3>2. BetweenBuffers(r)'
        BY <1>1, <1>2, <1>3, <1>4, <2>1, <2>3, Zenon DEF BetweenBuffers
      <3> QED
        BY <1>6, <1>7, <3>1, <3>2 DEF Answering, Unanswered, Sending, Finished, Responding
    <2> QED
      BY <2>2, <2>3
  <1> QED
    BY <1>8, <1>9

(* HTTP/2: a frame of the buffer is written. *)
LEMMA FrameWritten ==
  ASSUME StreamTyped, NEW r \in Request, Answering(r), WriteFrame(r), traffic' = traffic,
         handler[r] = "frames",
         handler'[r] = IF offset'[r] < buf[r].len THEN "frames" ELSE AfterBuffer(buf[r])
  PROVE  Answering(r)'
  <1>1. PICK b, o, t, w, slice, x, n, k :
            /\ b = buf[r] /\ o = offset[r] /\ t = TakenOf(r) /\ w = sent[r]
            /\ slice = IF b.len - o < FrameSize THEN b.len - o ELSE FrameSize
            /\ x = [len |-> slice, end |-> o + slice >= b.len /\ b.last]
            /\ n = Total(w) /\ k = Total(t)
    OBVIOUS
  <1>2. /\ b.len \in Nat /\ b.last \in BOOLEAN /\ o \in Nat /\ w \in Seq(Pieces)
        /\ t \in Seq(Buffers)
    BY <1>1, TakenType DEF StreamTyped, Buffers, Pieces
  <1>3. WithinBuffer(r)
    BY DEF Answering
  <1>4. /\ t # << >> /\ t[Len(t)] = b /\ \A i \in 1 .. Len(t) : t[i].last => i = Len(t)
        /\ o < b.len /\ n + b.len = k + o /\ NoEnd(w)
    BY <1>1, <1>3 DEF WithinBuffer
  <1>5. slice \in 1 .. FrameSize /\ o + slice <= b.len /\ o + slice \in Nat
    BY <1>1, <1>2, <1>4
  <1>6. x \in Pieces /\ x.len = slice /\ (x.end <=> o + slice >= b.len /\ b.last)
    <2>1. PICK e : e = (o + slice >= b.len /\ b.last)
      OBVIOUS
    <2>2. e \in BOOLEAN /\ x = [len |-> slice, end |-> e]
      BY <1>1, <2>1, Zenon
    <2>3. slice \in Nat
      BY <1>5
    <2>4. x \in Pieces /\ x.len = slice /\ x.end = e
      BY <2>2, <2>3 DEF Pieces
    <2> QED
      BY <2>1, <2>4, Zenon
  <1>7. /\ sent'[r] = Append(w, x) /\ offset'[r] = o + slice
        /\ UNCHANGED <<channel, unread, buf, streamed>>
    BY <1>1 DEF WriteFrame, Written, EndsStream, StreamTyped
  <1>8. TakenOf(r)' = t /\ buf'[r] = b
    BY <1>1, <1>7 DEF TakenOf
  <1>9. Total(Append(w, x)) = n + slice /\ n \in Nat
    BY <1>1, <1>2, <1>6, TotalAppend, SizedTypes
  <1>10. Fits(Append(w, x)) \/ ~Http2(r)
    BY <1>1, <1>2, <1>5, <1>6, AppendFits DEF Answering, Responding
  <1>11. /\ Http2(r)' = Http2(r) /\ WellFormed(r)' = WellFormed(r)
         /\ StreamLeft(r)' = StreamLeft(r)
    <2>1. /\ Http2(r)' = Http2(r) /\ WellFormed(r)' = WellFormed(r)
          /\ StreamsOf(r)' = StreamsOf(r) /\ FileOf(r)' = FileOf(r)
      BY RequestKept
    <2> QED
      BY <1>7, <2>1, Zenon DEF StreamLeft
  <1>12. WellFormed(r) => StreamLeft(r)
    BY DEF Answering, Responding
  <1>13. /\ x.end => EndOnly(Append(w, x))
         /\ ~x.end => NoEnd(Append(w, x))
    BY <1>2, <1>4, <1>6, AppendPiece
  <1>14. /\ (n + slice) + b.len = k + (o + slice)
         /\ o + slice = b.len => n + slice = k
    <2>1. PICK m : m = b.len
      OBVIOUS
    <2>2. /\ n \in Nat /\ m \in Nat /\ k \in Nat /\ o \in Nat /\ slice \in Nat
          /\ n + m = k + o
      <3>1. k \in Nat
        BY <1>1, <1>2, TotalIsNatural, SizedTypes
      <3> QED
        BY <1>2, <1>4, <1>5, <1>9, <2>1, <3>1
    <2>3. (n + slice) + m = k + (o + slice) /\ (o + slice = m => n + slice = k)
      BY <2>2, AddBoth
    <2> QED
      BY <2>1, <2>3, Zenon
  <1>15. CASE o + slice < b.len
    <2>1. handler'[r] = "frames"
      BY <1>1, <1>7, <1>15
    <2>2. ~x.end /\ offset'[r] < b.len
      BY <1>2, <1>5, <1>6, <1>7, <1>15
    <2>3. Total(Append(w, x)) + b.len = k + offset'[r]
      <3>1. Total(Append(w, x)) = n + slice /\ offset'[r] = o + slice
        BY <1>7, <1>9
      <3> QED
        BY <1>14, <3>1
    <2>4. WithinBuffer(r)'
      BY <1>1, <1>4, <1>7, <1>8, <1>13, <2>2, <2>3, Zenon DEF WithinBuffer
    <2> QED
      BY <1>7, <1>10, <1>11, <1>12, <2>1, <2>4
      DEF Answering, Unanswered, Sending, Finished, Responding
  <1>16. CASE ~(o + slice < b.len)
    <2>1. o + slice = b.len /\ handler'[r] = AfterBuffer(b)
      BY <1>1, <1>2, <1>5, <1>7, <1>16
    <2>2. Total(Append(w, x)) = k
      BY <1>9, <1>14, <2>1
    <2>3. CASE b.last
      <3>1. handler'[r] = "sent" /\ x.end
        BY <1>2, <1>6, <2>1, <2>3 DEF AfterBuffer
      <3>2. LastOnly(t) /\ t[Len(t)].len # 0
        BY <1>2, <1>4, <2>3 DEF LastOnly
      <3>3. AllWritten(r)'
        BY <1>1, <1>7, <1>8, <1>13, <2>2, <3>1, <3>2, Zenon DEF AllWritten
      <3> QED
        BY <1>7, <1>10, <1>11, <1>12, <3>1, <3>3
        DEF Answering, Unanswered, Sending, Finished, Responding
    <2>4. CASE ~b.last
      <3>1. handler'[r] = "body" /\ ~x.end
        BY <1>6, <2>1, <2>4 DEF AfterBuffer
      <3>2. NoneLast(t)
        BY <1>4, <2>4 DEF NoneLast
      <3>3. BetweenBuffers(r)'
        BY <1>1, <1>7, <1>8, <1>13, <2>2, <3>1, <3>2, Zenon DEF BetweenBuffers
      <3> QED
        BY <1>7, <1>10, <1>11, <1>12, <3>1, <3>3
        DEF Answering, Unanswered, Sending, Finished, Responding
    <2> QED
      BY <2>3, <2>4
  <1> QED
    BY <1>15, <1>16

-----------------------------------------------------------------------------
LEMMA AnswersInit == Init => Answers
  BY DEF Init, StreamInit, Answers, Answering, Unanswered, Sending, Finished, Responding

(* What a step leaves alone of the other requests. *)
LEMMA OthersStay ==
  ASSUME StreamTyped, PlaceTypeOK, NEW r \in Request, NEW q \in Request, q # r,
         Handle(r) \/ WorkerMove(r) \/ PoolRuns(r) \/ HandlerStep(r), StreamStep(r)
  PROVE  SameStream(q) /\ handler'[q] = handler[q]
  <1>1. handler'[q] = handler[q]
    <2>1. CASE Handle(r)
      BY <2>1, HandleMoves DEF PlaceTypeOK
    <2>2. CASE WorkerMove(r)
      BY <2>2, WorkerMoves
    <2>3. CASE PoolRuns(r)
      BY <2>3 DEF PoolRuns, GoHandler, placeVars, PlaceTypeOK
    <2>4. CASE HandlerStep(r)
      BY <2>4, HandlerMoves DEF PlaceTypeOK
    <2> QED
      BY <2>1, <2>2, <2>3, <2>4
  <1>2. ASSUME UNCHANGED streamVars PROVE SameStream(q)
    BY <1>2 DEF streamVars, SameStream
  <1>3. ASSUME NEW buffers, NEW file, Respond(r, buffers, file) PROVE SameStream(q)
    BY <1>3 DEF Respond, SameStream, StreamTyped
  <1>4. ASSUME WriteBuffer(r) \/ CutBuffer(r) PROVE SameStream(q)
    BY <1>4 DEF WriteBuffer, CutBuffer, TakeBuffer, Written, SameStream, StreamTyped
  <1>5. ASSUME WriteFrame(r) PROVE SameStream(q)
    BY <1>5 DEF WriteFrame, Written, SameStream, StreamTyped
  <1> QED
    BY <1>1, <1>2, <1>3, <1>4, <1>5 DEF StreamStep

LEMMA OwnStep ==
  ASSUME Typed, Answers, traffic' = traffic, NEW r \in Request,
         Handle(r) \/ WorkerMove(r) \/ PoolRuns(r) \/ HandlerStep(r)
  PROVE  Answering(r)'
  <1>0. PlaceTypeOK /\ Places /\ ForEndpoints /\ StreamTyped /\ Answering(r)
    BY DEF Typed, Answers
  <1> USE DEF Unanswered, Sending, Finished
  <1>1. CASE Handle(r)
    <2>1. handler[r] = "none" /\ handler'[r] = Launched(r)
      BY <1>0, <1>1, HandleMoves DEF Places, PlaceTypeOK
    <2>2. CASE Found(r)
      <3>1. handler'[r] \in {"pooled", "run"}
        BY <2>1, <2>2 DEF Launched
      <3>2. SameStream(r)
        BY <1>1, <2>2 DEF Handle, streamVars, SameStream
      <3> QED
        BY <1>0, <2>1, <3>1, <3>2, AnsweringKept
    <2>3. CASE ~Found(r)
      <3>1. /\ handler'[r] = "head" /\ Respond(r, <<Body(1)>>, NoFile)
            /\ StreamsOf(r) = <<Body(1)>> /\ FileOf(r) = NoFile
        BY <1>1, <2>1, <2>3 DEF Launched, Handle, StreamsOf, FileOf
      <3>2. <<Body(1)>> \in Seq(Buffers) /\ NoFile \in Nat \cup {NoFile}
        BY DEF Body, Buffer, Buffers
      <3> QED
        BY <1>0, <2>1, <3>1, <3>2, Begins
    <2> QED
      BY <2>2, <2>3
  <1>2. CASE WorkerMove(r)
    <2>1. UNCHANGED handler
      BY <1>0, <1>2, WorkerMoves
    <2>2. SameStream(r)
      BY <1>2 DEF WorkerMove, WorkerStep, HandleReturns, ReleaseEvent, Save,
                SaveEnd, LockForRead, ReadEnds, Hangup, ReturnEof, TakeEvent, streamVars, SameStream
    <2> QED
      BY <1>0, <2>1, <2>2, AnsweringKept
  <1>3. CASE PoolRuns(r)
    <2>1. handler'[r] = handler[r] \/ (handler[r] = "pooled" /\ handler'[r] = "run")
      BY <1>0, <1>3 DEF PoolRuns, GoHandler, placeVars, PlaceTypeOK
    <2>2. SameStream(r)
      BY <1>3 DEF PoolRuns, streamVars, SameStream
    <2> QED
      BY <1>0, <2>1, <2>2, AnsweringKept
  <1>4. CASE Run(r)
    <2>1. EndpointOf(r) \in DOMAIN Endpoints /\ Found(r)
      BY <1>0, <1>4, EndpointIsOne DEF Run, ForEndpoints, Found
    <2>2. PICK e : e = Endpoints[EndpointOf(r)]
      OBVIOUS
    <2>3. /\ e.streams \in Seq(Buffers) /\ e.file \in Nat \cup {NoFile}
          /\ e.streams = StreamsOf(r) /\ e.file = FileOf(r)
      BY <2>1, <2>2 DEF Buffers, StreamsOf, FileOf
    <2>4. Respond(r, e.streams, e.file) /\ handler[r] = "run" /\ handler'[r] = "head"
      BY <1>0, <1>4, <2>2 DEF Run, GoHandler, PlaceTypeOK
    <2> QED
      BY <1>0, <2>2, <2>3, <2>4, Begins
  <1>5. CASE WriteBody(r)
    BY <1>0, <1>5, BufferWritten DEF WriteBody, GoHandler, PlaceTypeOK
  <1>6. CASE NextBuffer(r)
    BY <1>0, <1>6, BufferCut DEF NextBuffer, GoHandler, PlaceTypeOK
  <1>7. CASE WriteData(r)
    BY <1>0, <1>7, FrameWritten DEF WriteData, GoHandler, PlaceTypeOK
  <1>8. ASSUME WriteHead(r) \/ Serialize(r) \/ FinishHeaders(r) \/ WriteHeaders(r) PROVE Answering(r)'
    <2>1. handler[r] \in Sending /\ handler'[r] \in Sending
      BY <1>0, <1>8 DEF WriteHead, Serialize, Inserted, FinishHeaders, WriteHeaders, GoHandler, PlaceTypeOK
    <2>2. SameStream(r)
      BY <1>8 DEF WriteHead, Serialize, Inserted, FinishHeaders, WriteHeaders, streamVars, SameStream
    <2> QED
      BY <1>0, <2>1, <2>2, AnsweringKept
  <1>9. ASSUME RunThrows(r) \/ WriteFails(r) PROVE Answering(r)'
    <2>1. handler'[r] = "thrown"
      BY <1>0, <1>9 DEF RunThrows, WriteFails, Throw, PlaceTypeOK
    <2>2. SameStream(r)
      BY <1>9 DEF RunThrows, WriteFails, streamVars, SameStream
    <2> QED
      BY <1>0, <2>1, <2>2, AnsweringKept
  <1>10. ASSUME ReleaseFinish(r) \/ CloseStream(r) \/ PostSend(r) \/ RecordTiming(r)
         PROVE  Answering(r)'
    <2>1. handler[r] \in Finished /\ handler'[r] \in Finished
      BY <1>0, <1>10 DEF ReleaseFinish, CloseStream, PostSend, RecordTiming, GoHandler, PlaceTypeOK
    <2>2. SameStream(r)
      BY <1>10 DEF ReleaseFinish, CloseStream, PostSend, RecordTiming, streamVars, SameStream
    <2> QED
      BY <1>0, <2>1, <2>2, AnsweringKept
  <1>11. CASE ReadClosedFile(r)
    <2>1. SameStream(r) /\ handler'[r] = handler[r]
      BY <1>11 DEF ReadClosedFile, streamVars, placeVars, SameStream
    <2> QED
      BY <1>0, <2>1, AnsweringKept
  <1> QED
    BY <1>1, <1>2, <1>3, <1>4, <1>5, <1>6, <1>7, <1>8, <1>9, <1>10, <1>11 DEF HandlerStep

LEMMA AnswersStep == Typed /\ Answers /\ [Next]_vars => Answers'
  <1> SUFFICES ASSUME Typed, Answers, [Next]_vars, NEW q \in Request
               PROVE  Answering(q)'
    BY DEF Answers
  <1>0. /\ PlaceTypeOK /\ ForEndpoints /\ StreamTyped /\ Answering(q) /\ traffic' = traffic
    BY TrafficKept DEF Typed, Answers
  <1>1. ASSUME NEW r \in Request, Handle(r) \/ WorkerMove(r) \/ PoolRuns(r) \/ HandlerStep(r)
        PROVE  Answering(q)'
    <2>1. CASE q = r
      BY <1>0, <1>1, <2>1, OwnStep
    <2>2. CASE q # r
      <3>1. StreamStep(r)
        BY <1>0, <1>1, StreamSteps
      <3>2. SameStream(q) /\ handler'[q] = handler[q]
        BY <1>0, <1>1, <2>2, <3>1, OthersStay
      <3> QED
        BY <1>0, <3>2, AnsweringKept
    <2> QED
      BY <2>1, <2>2
  <1>2. ASSUME RateStep \/ Quiet \/ UNCHANGED vars PROVE Answering(q)'
    <2>1. SameStream(q) /\ handler'[q] = handler[q]
      BY <1>2 DEF RateStep, Quiet, vars, streamVars, placeVars, SameStream
    <2> QED
      BY <1>0, <2>1, AnsweringKept
  <1> QED
    BY <1>1, <1>2 DEF Next, WorkerMove

(* A well-formed response that has been sent is all of what the handler    *)
(* has streamed, or all of the file; in frames that fit; and it has been   *)
(* ended by its last write, and by no other.                               *)
THEOREM AnswersAreWhole == Spec => []AnswerIsWhole
  <1>1. Typed /\ Answers => AnswerIsWhole
    <2> SUFFICES ASSUME Typed, Answers, NEW r \in Request, Answered(r), WellFormed(r)
                 PROVE  LET file == IF FileOf(r) = NoFile THEN 0 ELSE FileOf(r)
                        IN /\ Total(sent[r]) = Total(StreamsOf(r)) + file
                           /\ Http2(r) => \A i \in DOMAIN sent[r] : sent[r][i].len \in 1 .. FrameSize
                           /\ sent[r] # << >>
                           /\ \A i \in DOMAIN sent[r] : sent[r][i].end <=> i = Len(sent[r])
      BY DEF AnswerIsWhole
    <2>1. PICK s, t, w, n : s = streamed[r] /\ t = TakenOf(r) /\ w = sent[r] /\ n = Len(t)
      OBVIOUS
    <2>2. /\ s \in Seq(Buffers) /\ t \in Seq(Buffers) /\ w \in Seq(Pieces)
          /\ n <= Len(s) /\ n \in Nat /\ \A i \in 1 .. n : t[i] = s[i]
      BY <2>1, TakenType DEF Typed, StreamTyped, Pieces
    <2>3. /\ LastOnly(t) /\ Total(w) = Total(t)
          /\ IF Http2(r) /\ t[n].len = 0 THEN NoEnd(w) ELSE EndOnly(w)
          /\ Http2(r) => Fits(w)
          /\ StreamLeft(r)
      BY <2>1 DEF Answers, Answering, Answered, Finished, Responding, AllWritten
    <2>4. n \in 1 .. Len(s) /\ s[n].last
      <3>1. n # 0
        BY <2>1, <2>2, <2>3 DEF LastOnly
      <3>2. n \in 1 .. n
        BY <2>2, <3>1
      <3> QED
        BY <2>1, <2>2, <2>3, <3>2 DEF LastOnly
    <2>5. n = Len(s) => t = s
      BY <2>1, <2>2, SeqEqual
    <2>6. /\ Total(w) = Total(StreamsOf(r)) + (IF FileOf(r) = NoFile THEN 0 ELSE FileOf(r))
          /\ Http2(r) => t[n].len # 0
      <3>1. CASE FileOf(r) = NoFile
        <4>1. s = StreamsOf(r) /\ LastOnlyAtEnd(s) /\ (Http2(r) => Last(s).len > 0)
          BY <2>1, <2>3, <3>1 DEF StreamLeft, WellFormed
        <4>2. n = Len(s)
          BY <2>2, <2>4, <4>1 DEF LastOnlyAtEnd
        <4>3. Total(w) = Total(StreamsOf(r)) /\ Total(w) \in Nat
          BY <2>2, <2>3, <2>5, <4>1, <4>2, TotalIsNatural, SizedTypes
        <4>4. Http2(r) => t[n].len # 0
          BY <2>2, <2>4, <2>5, <4>1, <4>2 DEF Last, Buffers
        <4> QED
          BY <3>1, <4>3, <4>4
      <3>2. CASE FileOf(r) # NoFile
        <4>1. StreamsOf(r) = << >>
          BY <3>2 DEF WellFormed
        <4>2. unread[r] = Closed
          BY <2>1, <2>3, <2>4, <3>2 DEF StreamLeft, NoneLast
        <4>3. LastOnly(s) /\ Total(s) = FileOf(r) /\ (Http2(r) => s[Len(s)].len # 0)
          BY <2>1, <2>3, <3>2, <4>2 DEF StreamLeft
        <4>4. n = Len(s)
          BY <2>4, <4>3 DEF LastOnly
        <4>5. Total(w) = FileOf(r) /\ Total(w) \in Nat
          BY <2>2, <2>3, <2>5, <4>3, <4>4, TotalIsNatural, SizedTypes
        <4>6. Http2(r) => t[n].len # 0
          BY <2>5, <4>3, <4>4
        <4> QED
          BY <3>2, <4>1, <4>5, <4>6, TotalNone
      <3> QED
        BY <3>1, <3>2
    <2>7. EndOnly(w) /\ DOMAIN w = 1 .. Len(w)
      BY <2>2, <2>3, <2>6
    <2>8. Http2(r) => \A i \in DOMAIN w : w[i].len \in 1 .. FrameSize
      BY <2>3, <2>7 DEF Fits
    <2>9. w # << >> /\ \A i \in DOMAIN w : w[i].end <=> i = Len(w)
      BY <2>7, Zenon DEF EndOnly
    <2>10. w = sent[r]
      BY <2>1
    <2>11. Total(sent[r]) = Total(StreamsOf(r)) + (IF FileOf(r) = NoFile THEN 0 ELSE FileOf(r))
      BY <2>6, <2>10
    <2>12. Http2(r) => \A i \in DOMAIN sent[r] : sent[r][i].len \in 1 .. FrameSize
      BY <2>8, <2>10
    <2>13. sent[r] # << >> /\ \A i \in DOMAIN sent[r] : sent[r][i].end <=> i = Len(sent[r])
      BY <2>9, <2>10
    <2> QED
      BY <2>11, <2>12, <2>13, Zenon
  <1> QED
    BY <1>1, TypedInit, TypedStep, AnswersInit, AnswersStep, PTL DEF Spec

-----------------------------------------------------------------------------
(***************************************************************************)
(* The session extension keeps what SessionStore promises, for every set   *)
(* of sessions, requests and endpoints: ImplementsStore of Layer.  A step  *)
(* of Layer saves what a request has set when it opens the session's file, *)
(* and is otherwise a step about which nothing was promised, or none.      *)
(***************************************************************************)
-----------------------------------------------------------------------------
(* The invariant.  As long as the requests of a session come one after the *)
(* other, the copy that one has differs from the file, in what is kept, by *)
(* what it has set itself, until it opens the file, which is empty then.   *)
Absent == \A s \in Id \ exists : files[s] = {}

Opened == \A r \in writing : worker[r] = "write" /\ id_[r] \in exists

OneByOne == \A p \in alive, q \in alive : id_[p] = id_[q] /\ id_[p] \in alone => p = q

Emptied == \A r \in writing : id_[r] \in alone => files[id_[r]] = {}

Copied ==
    \A r \in alive \ writing : id_[r] \in alone =>
        /\ Plain(files[id_[r]]) \subseteq Plain(values_[r])
        /\ Plain(values_[r]) \subseteq Plain(files[id_[r]]) \cup {r}

Sessions == Absent /\ Opened /\ OneByOne /\ Emptied /\ Copied

(* What is plain of some entries: of none, of those that are read back, of *)
(* one more, and of a file.                                                *)
LEMMA PlainNone == Plain({}) = {}
  BY DEF Plain

LEMMA PlainReadBack ==
  ASSUME NEW E \in SUBSET Entry
  PROVE  Plain(ReadBack(E)) = Plain(E)
  <1>1. ASSUME NEW r \in Request, <<r, "plain">> \in E
        PROVE  <<r, "plain">> \in ReadBack(E)
    BY <1>1 DEF ReadBack
  <1>2. ASSUME NEW r \in Request, <<r, "plain">> \in ReadBack(E)
        PROVE  <<r, "plain">> \in E
    <2>1. PICK e \in E : <<r, "plain">> = <<e[1], IF e[2] \in {"equals", "newline"} THEN "cut" ELSE e[2]>>
      BY <1>2 DEF ReadBack
    <2>2. e = <<e[1], e[2]>>
      BY DEF Entry
    <2>3. e[1] = r /\ e[2] = "plain"
      BY <2>1
    <2> QED
      BY <2>2, <2>3
  <1> QED
    BY <1>1, <1>2 DEF Plain

LEMMA PlainAdd ==
  ASSUME NEW E, NEW r, NEW text
  PROVE  /\ Plain(E) \subseteq Plain(E \cup {<<r, text>>})
         /\ Plain(E \cup {<<r, text>>}) \subseteq Plain(E) \cup {r}
  BY DEF Plain

LEMMA SessionsInit == Init => Sessions
  BY DEF Init, SessionInit, Sessions, Absent, Opened, OneByOne, Emptied, Copied

(* The moves of the session extension, with where the worker is. *)
OthersWait(r) == \A q \in Request \ {r} : worker[q] = "write" => worker'[q] = "write"

Unmoved ==
    /\ UNCHANGED <<sessionVars, exited>>
    /\ \A q \in Request : worker[q] = "write" /\ q \in writing => worker'[q] = "write"

Moved(r) ==
    /\ ~exited /\ OthersWait(r)
    /\ \/ ~exited' /\ worker[r] = "idle" /\ Load(r, traffic[r].cookie)
       \/ ~exited' /\ worker[r] = "handle" /\ UNCHANGED worker
          /\ \E text \in Settable : SetValue(r, text)
       \/ ~exited' /\ worker[r] = "save" /\ RemoveFile(r)
       \/ ~exited' /\ worker[r] = "save" /\ worker'[r] = "write" /\ Truncate(r)
       \/ ~exited' /\ worker[r] = "write" /\ Write(r)
       \/ UNCHANGED worker /\ CutOff /\ exited'

LEMMA SessionMoves ==
  ASSUME Typed, References, Sessions, NEW r \in Request,
         Handle(r) \/ WorkerMove(r) \/ PoolRuns(r) \/ HandlerStep(r)
  PROVE  Unmoved \/ Moved(r)
  <1>t. PlaceTypeOK
    BY DEF Typed
  <1> USE DEF Running
  <1>1. CASE Handle(r)
    <2>1. OthersWait(r)
      BY <1>1, <1>t, HandleMoves DEF OthersWait
    <2> QED
      BY <1>1, <2>1 DEF Handle, Moved
  <1>2. CASE HandleReturns(r)
    BY <1>2, <1>t DEF HandleReturns, GoWorker, Unmoved, PlaceTypeOK
  <1>3. CASE ReleaseEvent(r)
    BY <1>3, <1>t DEF ReleaseEvent, GoWorker, Unmoved, PlaceTypeOK
  <1>4. CASE Save(r)
    BY <1>4, <1>t DEF Save, GoWorker, Moved, OthersWait, PlaceTypeOK
  <1>5. CASE SaveEnd(r)
    BY <1>5, <1>t DEF SaveEnd, GoWorker, Moved, OthersWait, PlaceTypeOK
  <1>8. CASE LockForRead(r) \/ Hangup(r) \/ ReadEnds(r) \/ TakeEvent(r)
    <2>1. UNCHANGED <<sessionVars, exited>> /\ worker[r] # "write"
      BY <1>8 DEF LockForRead, Hangup, ReadEnds, ReturnEof, TakeEvent
    <2>2. \E place : worker' = [worker EXCEPT ![r] = place]
      BY <1>8 DEF LockForRead, Hangup, ReadEnds, ReturnEof, TakeEvent, GoWorker
    <2> QED
      BY <1>t, <2>1, <2>2 DEF Unmoved, PlaceTypeOK
  <1>6. CASE PoolRuns(r)
    BY <1>6 DEF PoolRuns, GoHandler, placeVars, Unmoved
  <1>7. CASE HandlerStep(r)
    <2>1. /\ UNCHANGED worker /\ ~exited /\ worker[r] = "handle"
      BY <1>7, <1>t, HandlerMoves, WorkerWaits
    <2>2. \/ UNCHANGED <<sessionVars, exited>>
          \/ UNCHANGED exited /\ \E text \in Settable : SetValue(r, text)
          \/ CutOff /\ exited'
      <3>1. CASE Run(r)
        <4>0. ForEndpoints /\ handler[r] = "run"
          BY <3>1 DEF Run, Typed
        <4>1. EndpointOf(r) \in DOMAIN Endpoints
          BY <4>0, EndpointIsOne DEF ForEndpoints, Found
        <4>2. PICK sets : sets = Endpoints[EndpointOf(r)].sets
          OBVIOUS
        <4>3. sets \in {"none"} \cup Settable
          BY <4>1, <4>2, LayerAssumption
        <4>4. /\ UNCHANGED exited
              /\ IF sets = "none" THEN UNCHANGED sessionVars ELSE SetValue(r, sets)
          BY <3>1, <4>2 DEF Run
        <4> QED
          BY <4>3, <4>4
      <3> QED
        BY <1>7, <3>1 DEF HandlerStep, RunThrows, WriteHead, Serialize, Inserted, FinishHeaders, WriteHeaders,
                ReadClosedFile, WriteBody, NextBuffer, WriteData, WriteFails, ReleaseFinish,
                  CloseStream, PostSend, RecordTiming, Throw
    <2> QED
      BY <2>1, <2>2 DEF Unmoved, Moved, OthersWait
  <1> QED
    BY <1>1, <1>2, <1>3, <1>4, <1>5, <1>6, <1>7, <1>8 DEF WorkerMove, WorkerStep

(* Everyone else's file is not the business of a move. *)
SameFile(s) ==
    /\ Plain(files'[s]) = Plain(files[s]) /\ exited' = exited
    /\ Writers(s)' = Writers(s)
    /\ \A q \in Writers(s) : values_'[q] = values_[q]

LEMMA StoredKept ==
  ASSUME NEW s \in Id, SameFile(s)
  PROVE  Stored'[s] = Stored[s]
  <1>1. (UNION {values_[q] : q \in Writers(s)})' = UNION {values_[q] : q \in Writers(s)}
    BY DEF SameFile
  <1> QED
    BY <1>1 DEF SameFile, Stored

(* The one that has opened the file of a session that nobody wrote. *)
LEMMA StoredOpened ==
  ASSUME NEW s \in Id, NEW r, ~exited, ~exited', Writers(s) = {}, Writers(s)' = {r},
         values_' = values_
  PROVE  Stored[s] = Plain(files[s]) /\ Stored'[s] = Plain(values_[r])
  <1>1. UNION {values_[q] : q \in {r}} = values_[r]
    OBVIOUS
  <1>2. (UNION {values_[q] : q \in Writers(s)})' = values_[r]
    BY <1>1
  <1>3. Stored'[s] = Plain(IF exited' \/ Writers(s)' = {} THEN files'[s]
                           ELSE (UNION {values_[q] : q \in Writers(s)})')
    BY DEF Stored
  <1> QED
    BY <1>2, <1>3 DEF Stored

(* What is stored of sessions that are still alone has not changed. *)
LEMMA Spoils ==
  ASSUME SessionTypeOK', alone' \subseteq alone,
         \A s \in alone' : Stored'[s] = Stored[s]
  PROVE  Store!Next
  <1>1. ASSUME NEW E PROVE Plain(E) \subseteq Request
    BY DEF Plain
  <1>2. Stored' \in [Id -> SUBSET Request]
    BY <1>1 DEF Stored
  <1> QED
    BY <1>2 DEF Store!Next, Store!Spoil

-----------------------------------------------------------------------------
(* Every move keeps the invariant and the promise. *)

LEMMA LoadKeeps ==
  ASSUME SessionTypeOK, SessionTypeOK', Sessions, NEW r \in Request, Moved(r),
         worker[r] = "idle", r \notin alive, Load(r, traffic[r].cookie), exited' = exited
  PROVE  Sessions' /\ [Store!Next]_<<Stored, alone>>
  <1> DEFINE s == SessionOf(r, traffic[r].cookie)
  <1>1. /\ id_' = [id_ EXCEPT ![r] = s]
        /\ values_' = [values_ EXCEPT ![r] = IF s \in exists THEN ReadBack(files[s]) ELSE {}]
        /\ alive' = alive \cup {r}
        /\ alone' = IF \E q \in alive : id_[q] = s THEN alone \ {s} ELSE alone
        /\ UNCHANGED <<exists, files, writing>>
    BY DEF Load
  <1>2. s \in Id
    BY DEF SessionOf, Id
  <1> HIDE DEF s
  <1>3. /\ r \notin writing /\ id_'[r] = s
        /\ \A q \in Request \ {r} : id_'[q] = id_[q] /\ values_'[q] = values_[q]
        /\ writing \subseteq Request \ {r} /\ alive \subseteq Request \ {r}
    BY <1>1 DEF SessionTypeOK
  <1>4. Absent'
    BY <1>1 DEF Absent, Sessions
  <1>5. Opened'
    BY <1>1, <1>3 DEF Opened, Sessions, Moved, OthersWait
  <1>6. OneByOne'
    <2> SUFFICES ASSUME NEW p \in alive', NEW q \in alive', id_'[p] = id_'[q], id_'[p] \in alone', p # q
                 PROVE  FALSE
      BY DEF OneByOne
    <2>1. CASE p # r /\ q # r
      BY <1>1, <1>3, <2>1 DEF Sessions, OneByOne
    <2>2. CASE p = r \/ q = r
      BY <1>1, <1>3, <2>2
    <2> QED
      BY <2>1, <2>2
  <1>7. Emptied'
    BY <1>1, <1>3 DEF Emptied, Sessions
  <1>8. Copied'
    <2> SUFFICES ASSUME NEW q \in alive' \ writing', id_'[q] \in alone'
                 PROVE  /\ Plain(files[id_'[q]]) \subseteq Plain(values_'[q])
                        /\ Plain(values_'[q]) \subseteq Plain(files[id_'[q]]) \cup {q}
      BY <1>1 DEF Copied
    <2>1. CASE q = r
      <3>1. Plain(values_'[r]) = Plain(files[s])
        <4>1. values_'[r] = IF s \in exists THEN ReadBack(files[s]) ELSE {}
          BY <1>1 DEF SessionTypeOK
        <4>2. files[s] \in SUBSET Entry /\ (s \notin exists => files[s] = {})
          BY <1>2 DEF Sessions, Absent, SessionTypeOK
        <4> QED
          BY <4>1, <4>2, PlainReadBack
      <3> QED
        BY <1>3, <2>1, <3>1
    <2>2. CASE q # r
      <3>1. q \in alive \ writing /\ id_'[q] = id_[q] /\ values_'[q] = values_[q]
        BY <1>1, <1>3, <2>2
      <3>2. id_[q] \in alone
        BY <1>1, <3>1
      <3> QED
        BY <3>1, <3>2 DEF Sessions, Copied
    <2> QED
      BY <2>1, <2>2
  <1>9. ASSUME NEW t \in Id PROVE Stored'[t] = Stored[t]
    <2>1. SameFile(t)
      BY <1>1, <1>3 DEF SameFile, Writers
    <2> QED
      BY <2>1, StoredKept
  <1>10. Store!Next
    BY <1>1, <1>9, Spoils DEF SessionTypeOK
  <1> QED
    BY <1>4, <1>5, <1>6, <1>7, <1>8, <1>10 DEF Sessions

LEMMA SetKeeps ==
  ASSUME SessionTypeOK, SessionTypeOK', Sessions, NEW r \in Request, NEW text,
         worker[r] = "handle", UNCHANGED worker, SetValue(r, text), exited' = exited
  PROVE  Sessions' /\ [Store!Next]_<<Stored, alone>>
  <1>1. /\ r \notin writing /\ values_' = [values_ EXCEPT ![r] = @ \cup {<<r, text>>}]
        /\ UNCHANGED <<exists, files, id_, alive, writing, alone>>
    BY DEF SetValue, Sessions, Opened
  <1>2. /\ values_'[r] = values_[r] \cup {<<r, text>>}
        /\ \A q \in Request \ {r} : values_'[q] = values_[q]
        /\ alive \subseteq Request /\ writing \subseteq Request \ {r}
    BY <1>1 DEF SessionTypeOK
  <1>3. Copied'
    <2> SUFFICES ASSUME NEW q \in alive \ writing, id_[q] \in alone
                 PROVE  /\ Plain(files[id_[q]]) \subseteq Plain(values_'[q])
                        /\ Plain(values_'[q]) \subseteq Plain(files[id_[q]]) \cup {q}
      BY <1>1 DEF Copied
    <2>1. /\ Plain(files[id_[q]]) \subseteq Plain(values_[q])
          /\ Plain(values_[q]) \subseteq Plain(files[id_[q]]) \cup {q}
      BY DEF Sessions, Copied
    <2>2. CASE q = r
      <3>1. PICK E, F : E = values_[q] /\ F = E \cup {<<r, text>>} /\ values_'[q] = F
        BY <1>2, <2>2
      <3>2. Plain(E) \subseteq Plain(F) /\ Plain(F) \subseteq Plain(E) \cup {r}
        BY <3>1, PlainAdd, Zenon
      <3> QED
        BY <2>1, <2>2, <3>1, <3>2
    <2>3. CASE q # r
      BY <1>2, <2>1, <2>3
    <2> QED
      BY <2>2, <2>3
  <1>4. Sessions'
    BY <1>1, <1>3 DEF Sessions, Absent, Opened, OneByOne, Emptied
  <1>5. ASSUME NEW t \in Id PROVE Stored'[t] = Stored[t]
    <2>1. SameFile(t)
      BY <1>1, <1>2 DEF SameFile, Writers
    <2> QED
      BY <2>1, StoredKept
  <1>6. Store!Next
    BY <1>1, <1>5, Spoils DEF SessionTypeOK
  <1> QED
    BY <1>4, <1>6

(* An empty session: there was no file, or an empty one. *)
LEMMA RemoveKeeps ==
  ASSUME SessionTypeOK, SessionTypeOK', Sessions, NEW r \in Request, r \in alive,
         worker[r] = "save", OthersWait(r), RemoveFile(r), exited' = exited
  PROVE  Sessions' /\ [Store!Next]_<<Stored, alone>>
  <1>0. PICK s \in Id : s = id_[r]
    BY DEF SessionTypeOK
  <1>1. /\ values_[r] = {} /\ s \in Id
        /\ exists' = exists \ {s} /\ files' = [files EXCEPT ![s] = {}]
        /\ writing' = {q \in writing : id_[q] # s} /\ alive' = alive \ {r}
        /\ UNCHANGED <<id_, values_, alone>>
    BY <1>0 DEF RemoveFile, SessionTypeOK
  <1>2. /\ files'[s] = {} /\ \A t \in Id \ {s} : files'[t] = files[t]
        /\ r \notin writing /\ writing \subseteq Request /\ alive \subseteq Request
        /\ writing \subseteq alive /\ \A q \in Request : id_[q] \in Id
    BY <1>1 DEF SessionTypeOK, Sessions, Opened
  <1>3. s \in alone => Plain(files[s]) = {} /\ \A q \in alive : id_[q] = s => q = r
    BY <1>0, <1>1, <1>2, PlainNone DEF Sessions, OneByOne, Copied
  <1>4. Absent'
    BY <1>1, <1>2 DEF Sessions, Absent
  <1>5. Opened'
    BY <1>1, <1>2 DEF Sessions, Opened, OthersWait
  <1>6. OneByOne'
    BY <1>1 DEF Sessions, OneByOne
  <1>7. Emptied'
    BY <1>1, <1>2 DEF Sessions, Emptied
  <1>8. Copied'
    <2> SUFFICES ASSUME NEW q \in alive' \ writing', id_[q] \in alone
                 PROVE  /\ Plain(files'[id_[q]]) \subseteq Plain(values_[q])
                        /\ Plain(values_[q]) \subseteq Plain(files'[id_[q]]) \cup {q}
      BY <1>1 DEF Copied
    <2>1. id_[q] # s
      BY <1>1, <1>3
    <2> QED
      BY <1>1, <1>2, <2>1 DEF Sessions, Copied
  <1>9. ASSUME NEW t \in alone' PROVE Stored'[t] = Stored[t]
    <2>1. t \in Id
      BY <1>1 DEF SessionTypeOK
    <2>2. Plain(files'[t]) = Plain(files[t])
      BY <1>1, <1>2, <1>3, <2>1, PlainNone
    <2>3. {q \in writing' : id_'[q] = t} = {q \in writing : id_[q] = t}
      BY <1>1, <1>2, <1>3
    <2>4. SameFile(t)
      BY <1>1, <2>2, <2>3 DEF SameFile, Writers
    <2> QED
      BY <2>1, <2>4, StoredKept
  <1>10. Store!Next
    BY <1>1, <1>9, Spoils
  <1> QED
    BY <1>4, <1>5, <1>6, <1>7, <1>8, <1>10 DEF Sessions

(* Opening the file is the step that saves, unless nothing was set. *)
LEMMA TruncateKeeps ==
  ASSUME SessionTypeOK, SessionTypeOK', Sessions, NEW r \in Request, r \in alive, ~exited, exited' = exited,
         worker[r] = "save", worker'[r] = "write", OthersWait(r), Truncate(r)
  PROVE  Sessions' /\ [Store!Next]_<<Stored, alone>>
  <1>0. PICK s \in Id : s = id_[r]
    BY DEF SessionTypeOK
  <1>1. /\ s \in Id /\ exists' = exists \cup {s} /\ files' = [files EXCEPT ![s] = {}]
        /\ writing' = writing \cup {r}
        /\ UNCHANGED <<id_, values_, alive, alone>>
    BY <1>0 DEF Truncate, SessionTypeOK
  <1>2. /\ files'[s] = {} /\ \A t \in Id \ {s} : files'[t] = files[t]
        /\ r \notin writing /\ writing \subseteq Request /\ alive \subseteq Request
        /\ writing \subseteq alive /\ \A q \in Request : id_[q] \in Id
    BY <1>1 DEF SessionTypeOK, Sessions, Opened
  <1>3. s \in alone => /\ \A q \in alive : id_[q] = s => q = r
                       /\ Plain(files[s]) \subseteq Plain(values_[r])
                       /\ Plain(values_[r]) \subseteq Plain(files[s]) \cup {r}
    BY <1>0, <1>1, <1>2 DEF Sessions, OneByOne, Copied
  <1>4. Absent'
    BY <1>1, <1>2 DEF Sessions, Absent
  <1>5. Opened'
    BY <1>0, <1>1, <1>2 DEF Sessions, Opened, OthersWait
  <1>6. OneByOne'
    BY <1>1 DEF Sessions, OneByOne
  <1>7. Emptied'
    BY <1>0, <1>1, <1>2 DEF Sessions, Emptied
  <1>8. Copied'
    <2> SUFFICES ASSUME NEW q \in alive' \ writing', id_[q] \in alone
                 PROVE  /\ Plain(files'[id_[q]]) \subseteq Plain(values_[q])
                        /\ Plain(values_[q]) \subseteq Plain(files'[id_[q]]) \cup {q}
      BY <1>1 DEF Copied
    <2>1. id_[q] # s /\ q # r
      BY <1>1, <1>3
    <2> QED
      BY <1>1, <1>2, <2>1 DEF Sessions, Copied
  <1>9. ASSUME NEW t \in Id, t # s PROVE Stored'[t] = Stored[t]
    <2>1. {q \in writing' : id_'[q] = t} = {q \in writing : id_[q] = t}
      BY <1>0, <1>1, <1>9
    <2>2. SameFile(t)
      BY <1>1, <1>2, <1>9, <2>1 DEF SameFile, Writers
    <2> QED
      BY <2>2, StoredKept
  <1>10. ASSUME s \in alone, r \in Plain(values_[r]) PROVE Store!Next
    <2>1. Writers(s) = {} /\ Writers(s)' = {r}
      BY <1>0, <1>1, <1>2, <1>3, <1>10 DEF Writers
    <2>2. Stored[s] = Plain(files[s]) /\ Stored'[s] = Plain(values_[r])
      BY <1>1, <2>1, StoredOpened
    <2>3. Stored'[s] = Stored[s] \cup {r}
      BY <1>3, <1>10, <2>2
    <2>4. Stored' = [Stored EXCEPT ![s] = @ \cup {r}]
      <3>1. DOMAIN Stored = Id /\ DOMAIN Stored' = Id
        BY DEF Stored
      <3>2. Stored = [t \in Id |-> Stored[t]] /\ Stored' = [t \in Id |-> Stored'[t]]
        BY DEF Stored
      <3> QED
        BY <1>1, <1>9, <2>3, <3>1, <3>2
    <2>5. Store!Save(s, r)
      BY <1>1, <1>10, <2>4 DEF Store!Save
    <2> QED
      BY <1>1, <2>5 DEF Store!Next
  <1>11. ASSUME s \notin alone \/ r \notin Plain(values_[r]) PROVE Store!Next
    <2>1. ASSUME s \in alone PROVE Stored'[s] = Stored[s]
      <3>1. Writers(s) = {} /\ Writers(s)' = {r}
        BY <1>0, <1>1, <1>2, <1>3, <2>1 DEF Writers
      <3>2. Stored[s] = Plain(files[s]) /\ Stored'[s] = Plain(values_[r])
        BY <1>1, <3>1, StoredOpened
      <3>3. Plain(values_[r]) = Plain(files[s])
        BY <1>3, <1>11, <2>1
      <3> QED
        BY <3>2, <3>3
    <2>2. ASSUME NEW t \in alone' PROVE Stored'[t] = Stored[t]
      BY <1>1, <1>9, <2>1 DEF SessionTypeOK
    <2> QED
      BY <1>1, <2>2, Spoils
  <1> QED
    BY <1>4, <1>5, <1>6, <1>7, <1>8, <1>10, <1>11 DEF Sessions

(* Closing it puts what counted already where it is read. *)
LEMMA WriteKeeps ==
  ASSUME SessionTypeOK, SessionTypeOK', Sessions, NEW r \in Request, r \in alive, ~exited, exited' = exited,
         worker[r] = "write", OthersWait(r), Write(r)
  PROVE  Sessions' /\ [Store!Next]_<<Stored, alone>>
  <1>0. PICK s \in Id : s = id_[r]
    BY DEF SessionTypeOK
  <1>1. /\ s \in Id /\ writing' = writing \ {r} /\ alive' = alive \ {r}
        /\ UNCHANGED <<exists, id_, values_, alone>>
    BY <1>0 DEF Write, SessionTypeOK
  <1>2. /\ files' \in [Id -> SUBSET Entry] /\ files \in [Id -> SUBSET Entry]
        /\ \A t \in Id \ {s} : files'[t] = files[t]
        /\ writing \subseteq Request /\ alive \subseteq Request
        /\ writing \subseteq alive /\ \A q \in Request : id_[q] \in Id
    BY <1>0 DEF Write, SessionTypeOK
  <1>3. CASE r \notin writing
    <2>1. files' = files /\ writing' = writing
      BY <1>1, <1>3 DEF Write
    <2>2. Sessions'
      BY <1>1, <1>2, <1>3, <2>1 DEF Sessions, Absent, Opened, OneByOne, Emptied, Copied, OthersWait
    <2>3. ASSUME NEW t \in Id PROVE Stored'[t] = Stored[t]
      <3>1. SameFile(t)
        BY <1>1, <2>1 DEF SameFile, Writers
      <3> QED
        BY <3>1, StoredKept
    <2> QED
      BY <1>1, <2>2, <2>3, Spoils DEF SessionTypeOK
  <1>4. CASE r \in writing
    <2>1. PICK rest \in SUBSET files[s] : files' = [files EXCEPT ![s] = values_[r] \cup rest]
      BY <1>0, <1>4 DEF Write
    <2>2. s \in exists /\ files'[s] = values_[r] \cup rest
      BY <1>0, <1>1, <1>2, <1>4, <2>1 DEF Sessions, Opened
    <2>3. s \in alone => /\ \A q \in alive : id_[q] = s => q = r
                         /\ files[s] = {} /\ files'[s] = values_[r]
      <3>1. s \in alone => \A q \in alive : id_[q] = s => q = r
        BY <1>0 DEF Sessions, OneByOne
      <3>2. s \in alone => files[s] = {}
        BY <1>0, <1>4 DEF Sessions, Emptied
      <3>3. files[s] = {} => rest = {}
        OBVIOUS
      <3> QED
        BY <2>2, <3>1, <3>2, <3>3
    <2>4. Absent'
      BY <1>1, <1>2, <2>2 DEF Sessions, Absent
    <2>5. Opened'
      BY <1>1, <1>2 DEF Sessions, Opened, OthersWait
    <2>6. OneByOne'
      BY <1>1 DEF Sessions, OneByOne
    <2>7. Emptied'
      <3> SUFFICES ASSUME NEW q \in writing', id_[q] \in alone PROVE files'[id_[q]] = {}
        BY <1>1 DEF Emptied
      <3>1. id_[q] # s
        BY <1>1, <1>2, <2>3
      <3> QED
        BY <1>1, <1>2, <3>1 DEF Sessions, Emptied
    <2>8. Copied'
      <3> SUFFICES ASSUME NEW q \in alive' \ writing', id_[q] \in alone
                   PROVE  /\ Plain(files'[id_[q]]) \subseteq Plain(values_[q])
                          /\ Plain(values_[q]) \subseteq Plain(files'[id_[q]]) \cup {q}
        BY <1>1 DEF Copied
      <3>1. id_[q] # s
        BY <1>1, <2>3
      <3> QED
        BY <1>1, <1>2, <3>1 DEF Sessions, Copied
    <2>9. ASSUME NEW t \in alone' PROVE Stored'[t] = Stored[t]
      <3>0. t \in Id
        BY <1>1 DEF SessionTypeOK
      <3>1. CASE t = s
        <4>1. Writers(s) = {r} /\ Writers(s)' = {}
          BY <1>0, <1>1, <1>2, <1>4, <2>3, <3>1 DEF Writers
        <4>2. UNION {values_[q] : q \in {r}} = values_[r]
          OBVIOUS
        <4>3. Stored[s] = Plain(values_[r]) /\ Stored'[s] = Plain(files'[s])
          BY <1>1, <4>1, <4>2 DEF Stored
        <4> QED
          BY <1>1, <2>3, <3>1, <4>3
      <3>2. CASE t # s
        <4>1. {q \in writing' : id_'[q] = t} = {q \in writing : id_[q] = t}
          BY <1>0, <1>1, <3>2
        <4>2. SameFile(t)
          BY <1>1, <1>2, <3>0, <3>2, <4>1 DEF SameFile, Writers
        <4> QED
          BY <3>0, <4>2, StoredKept
      <3> QED
        BY <3>1, <3>2
    <2>10. Store!Next
      BY <1>1, <2>9, Spoils
    <2> QED
      BY <2>4, <2>5, <2>6, <2>7, <2>8, <2>10 DEF Sessions
  <1> QED
    BY <1>3, <1>4

(* The program ends: nothing is promised of what was being written. *)
LEMMA CutOffKeeps ==
  ASSUME SessionTypeOK, SessionTypeOK', Sessions, ~exited, exited', UNCHANGED worker, CutOff
  PROVE  Sessions' /\ [Store!Next]_<<Stored, alone>>
  <1>1. /\ alone' = alone \ {id_[r] : r \in writing}
        /\ UNCHANGED <<exists, files, id_, values_, alive, writing>>
    BY DEF CutOff
  <1>2. Sessions'
    BY <1>1 DEF Sessions, Absent, Opened, OneByOne, Emptied, Copied
  <1>3. ASSUME NEW t \in alone' PROVE Stored'[t] = Stored[t]
    <2>1. t \in Id /\ Writers(t) = {}
      BY <1>1 DEF SessionTypeOK, Writers
    <2> QED
      BY <1>1, <2>1 DEF Stored
  <1>4. alone' \subseteq alone
    BY <1>1
  <1> QED
    BY <1>2, <1>3, <1>4, Spoils

LEMMA UnmovedKeeps ==
  ASSUME Sessions, Unmoved, writing \subseteq Request
  PROVE  Sessions' /\ [Store!Next]_<<Stored, alone>>
  <1>1. /\ UNCHANGED <<exists, files, id_, values_, alive, writing, alone, exited>>
        /\ \A q \in writing : worker[q] = "write" => worker'[q] = "write"
    BY DEF Unmoved, sessionVars
  <1>2. Sessions'
    BY <1>1 DEF Sessions, Absent, Opened, OneByOne, Emptied, Copied
  <1>3. UNCHANGED <<Stored, alone>>
    BY <1>1 DEF Stored, Writers
  <1> QED
    BY <1>2, <1>3

LEMMA SessionsStep ==
  ASSUME Typed, Typed', References, Sessions, [Next]_vars
  PROVE  Sessions' /\ [Store!Next]_<<Stored, alone>>
  <1>t. /\ SessionTypeOK /\ SessionTypeOK' /\ writing \subseteq Request
        /\ exited \in BOOLEAN /\ exited' \in BOOLEAN
    BY DEF Typed, PlaceTypeOK, SessionTypeOK
  <1>1. ASSUME NEW r \in Request, Handle(r) \/ WorkerMove(r) \/ PoolRuns(r) \/ HandlerStep(r)
        PROVE  Sessions' /\ [Store!Next]_<<Stored, alone>>
    <2>1. CASE Unmoved
      BY <1>t, <2>1, UnmovedKeeps
    <2>2. CASE Moved(r)
      <3>0. /\ ~exited /\ OthersWait(r) /\ (exited' \/ exited' = exited)
            /\ worker[r] = "idle" => r \notin alive
            /\ worker[r] \in {"save", "write"} => r \in alive
        BY <1>t, <2>2 DEF Moved, Typed, Places, Unsaved
      <3>1. CASE ~exited' /\ worker[r] = "idle" /\ Load(r, traffic[r].cookie)
        BY <1>t, <2>2, <3>0, <3>1, LoadKeeps
      <3>2. CASE /\ ~exited' /\ worker[r] = "handle" /\ UNCHANGED worker
                 /\ \E text \in Settable : SetValue(r, text)
        BY <1>t, <3>0, <3>2, SetKeeps
      <3>3. CASE ~exited' /\ worker[r] = "save" /\ RemoveFile(r)
        BY <1>t, <3>0, <3>3, RemoveKeeps
      <3>4. CASE ~exited' /\ worker[r] = "save" /\ worker'[r] = "write" /\ Truncate(r)
        BY <1>t, <3>0, <3>4, TruncateKeeps
      <3>5. CASE ~exited' /\ worker[r] = "write" /\ Write(r)
        BY <1>t, <3>0, <3>5, WriteKeeps
      <3>6. CASE UNCHANGED worker /\ CutOff /\ exited'
        BY <1>t, <3>0, <3>6, CutOffKeeps
      <3> QED
        BY <2>2, <3>1, <3>2, <3>3, <3>4, <3>5, <3>6 DEF Moved
    <2> QED
      BY <1>1, <2>1, <2>2, SessionMoves
  <1>2. ASSUME RateStep \/ Quiet \/ UNCHANGED vars
        PROVE  Sessions' /\ [Store!Next]_<<Stored, alone>>
    <2>1. Unmoved
      BY <1>2 DEF RateStep, Quiet, vars, placeVars, Unmoved
    <2> QED
      BY <1>t, <2>1, UnmovedKeeps
  <1> QED
    BY <1>1, <1>2 DEF Next, WorkerMove

(* The sessions of Layer are those of SessionStore: what the requests of a *)
(* session set, when they come one after the other, is kept, whatever the  *)
(* other sessions' requests do meanwhile and however handlers run.         *)
THEOREM SessionsAreKept == Spec => ImplementsStore
  <1>1. Init => Store!Init
    <2> SUFFICES ASSUME Init PROVE Store!Init
      OBVIOUS
    <2>1. files = [s \in Id |-> {}] /\ writing = {} /\ alone = Id
      BY DEF Init, SessionInit
    <2>2. \A s \in Id : Writers(s) = {} /\ files[s] = {}
      BY <2>1 DEF Writers
    <2>3. Stored = [s \in Id |-> {}]
      BY <2>2, PlainNone DEF Stored
    <2> QED
      BY <2>1, <2>3 DEF Store!Init
  <1>2. Init => Typed /\ References /\ Sessions
    BY TypedInit, ReferencesInit, SessionsInit
  <1>3. Typed /\ References /\ Sessions /\ [Next]_vars
            => /\ Typed' /\ References' /\ Sessions'
               /\ [Store!Next]_<<Stored, alone>>
    BY TypedStep, ReferencesStep, SessionsStep
  <1> QED
    BY <1>1, <1>2, <1>3, PTL DEF Spec, ImplementsStore, Store!Spec
=============================================================================
