------------------------- MODULE H2ConnectionProofs -------------------------
(***************************************************************************)
(* Theorems about H2Connection for every script, every way to cut it into  *)
(* packets, every number of workers and streams, and every size.           *)
(***************************************************************************)
EXTENDS H2Connection, Flattening

USE FramesAssumption, H2Assumption DEF FramesAssumption, H2Assumption

-----------------------------------------------------------------------------
(* Types.  The frame number of a header that has been read is that of a    *)
(* frame, and an unfinished frame has less than its length.                *)
Sendable == (0 .. Len(frames)) \X Nat

NetTyped ==
    /\ frames \in Script /\ wire \in Seq(Sendable)
    /\ cut \in BOOLEAN /\ raced \in BOOLEAN

ReadTyped ==
    /\ pc \in [Worker -> {"read", "process", "request"}]
    /\ packet \in [Worker -> Seq(Sendable)]
    /\ state \in {"CLIENT_PREFACE", "WAIT_CLIENT_SETTINGS", "IDLE"}
    /\ unfinished \in [frame : 0 .. Len(frames), data : Seq(Sendable)]
    /\ unfinished # NoFrame =>
        /\ unfinished.frame \in DOMAIN frames
        /\ Len(unfinished.data) < frames[unfinished.frame].length
    /\ closed \in BOOLEAN /\ lost \in {"no", "exited", "garbled"}

StreamTyped ==
    /\ decoded \in Seq(Nat) /\ headers \in [Stream -> Seq(Nat)]
    /\ data \in [Stream -> Seq(UnitSet)]
    /\ request \in Seq(Request) /\ Len(request) <= 1
    /\ handled \in Seq(Request)

Typed == NetTyped /\ ReadTyped /\ StreamTyped

LEMMA UnitsType ==
  ASSUME NEW m \in Nat, NEW n \in 0 .. m, NEW i \in Nat, NEW k \in Nat
  PROVE  /\ Units(n, i, k) \in Seq((0 .. m) \X Nat)
         /\ i <= k + 1 => Len(Units(n, i, k)) = k - i + 1
         /\ \A j \in 1 .. k - i + 1 : Units(n, i, k)[j] = <<n, i + j - 1>>
  BY DEF Units

FrameUnits(fs) == [n \in DOMAIN fs |-> Units(n, 1, HeaderSize + fs[n].length)]

LEMMA FrameUnitsType ==
  ASSUME NEW fs \in Seq(Frame)
  PROVE  FrameUnits(fs) \in Seq(Seq((0 .. Len(fs)) \X Nat)) /\ Len(FrameUnits(fs)) = Len(fs)
  <1>1. ASSUME NEW n \in 1 .. Len(fs)
        PROVE  Units(n, 1, HeaderSize + fs[n].length) \in Seq((0 .. Len(fs)) \X Nat)
    <2>1. fs[n] \in Frame
      BY ElementOfSeq
    <2>2. HeaderSize + fs[n].length \in Nat
      BY <2>1 DEF Frame
    <2>3. n \in 0 .. Len(fs) /\ Len(fs) \in Nat
      OBVIOUS
    <2> QED
      BY <2>2, <2>3, UnitsType
  <1>2. Len(fs) \in Nat /\ DOMAIN fs = 1 .. Len(fs)
    OBVIOUS
  <1>3. PICK T : T = Seq((0 .. Len(fs)) \X Nat)
    OBVIOUS
  <1>4. FrameUnits(fs) \in [1 .. Len(fs) -> T]
    BY <1>1, <1>2, <1>3 DEF FrameUnits
  <1>5. FrameUnits(fs) \in Seq(T) /\ Len(FrameUnits(fs)) = Len(fs)
    BY <1>2, <1>4
  <1> QED
    BY <1>3, <1>5

LEMMA SentType ==
  ASSUME NEW fs \in Seq(Frame)
  PROVE  Sent(fs) \in Seq((0 .. Len(fs)) \X Nat)
  <1>1. Units(0, 1, PrefaceSize) \in Seq((0 .. Len(fs)) \X Nat)
    BY UnitsType
  <1>2. FlattenSeq(FrameUnits(fs)) \in Seq((0 .. Len(fs)) \X Nat)
    BY FrameUnitsType, FlattenType
  <1> QED
    BY <1>1, <1>2, ConcatProperties DEF Sent, FrameUnits

LEMMA SendableIsUnit == ASSUME NEW s \in Seq(Sendable) PROVE s \in Seq(UnitSet)
  <1>1. Sendable \subseteq UnitSet
    BY DEF Sendable, UnitSet
  <1> QED
    BY <1>1, SeqMonotonic

LEMMA TypedIsOK == Typed => TypeOK
  <1> SUFFICES ASSUME Typed PROVE TypeOK
    OBVIOUS
  <1> USE DEF Typed, NetTyped, ReadTyped, StreamTyped
  <1>1. wire \in Seq(UnitSet) /\ unfinished.data \in Seq(UnitSet)
    BY SendableIsUnit
  <1>2. packet \in [Worker -> Seq(UnitSet)]
    BY SendableIsUnit
  <1>3. unfinished \in [frame : 0 .. Len(frames), data : Seq(UnitSet)]
    BY <1>1
  <1> QED
    BY <1>1, <1>2, <1>3 DEF TypeOK

LEMMA TypedInit == Init => Typed
  <1> SUFFICES ASSUME Init PROVE Typed
    OBVIOUS
  <1> USE DEF Init
  <1>1. frames \in Seq(Frame) /\ 0 \in 0 .. Len(frames)
    OBVIOUS
  <1>2. NetTyped
    BY <1>1, SentType DEF Sendable, NetTyped
  <1>3. ReadTyped
    <2>1. /\ packet \in [Worker -> Seq(Sendable)]
          /\ unfinished \in [frame : 0 .. Len(frames), data : Seq(Sendable)]
      BY <1>1, EmptySeq DEF NoFrame
    <2> QED
      BY <2>1 DEF ReadTyped
  <1>4. StreamTyped
    BY EmptySeq DEF StreamTyped
  <1> QED
    BY <1>2, <1>3, <1>4 DEF Typed

(* What a call of read_frame reads. *)
LEMMA ReadTypes ==
  ASSUME Typed, NEW w \in Worker, NEW s, FrameReadable(w, s)
  PROVE  /\ FrameNumber(w) \in DOMAIN frames
         /\ frames[FrameNumber(w)] \in Frame
         /\ frames[FrameNumber(w)].length \in Nat
         /\ Payload(w) \in Seq(Sendable)
         /\ Missing(w) \in Nat
         /\ Taken(w) \in 0 .. Len(Payload(w)) /\ Taken(w) <= Missing(w)
         /\ Accumulated(w) \in Seq(Sendable)
         /\ Len(Accumulated(w)) = Len(unfinished.data) + Taken(w)
         /\ Rest(w) \in Seq(Sendable)
  <1>1. /\ frames \in Seq(Frame) /\ DOMAIN frames = 1 .. Len(frames) /\ Len(frames) \in Nat
        /\ packet[w] \in Seq(Sendable) /\ packet[w] # << >>
        /\ unfinished.data \in Seq(Sendable) /\ Len(unfinished.data) \in Nat
    BY DEF Typed, NetTyped, ReadTyped, FrameReadable, Processing
  <1>2. FrameNumber(w) \in DOMAIN frames
    <2>1. CASE Continuing
      BY <2>1 DEF Continuing, FrameNumber, Typed, ReadTyped
    <2>2. CASE ~Continuing
      <3>1. packet[w][1] \in Sendable
        BY <1>1, EmptySeq, ElementOfSeq
      <3>2. packet[w][1][1] \in 0 .. Len(frames)
        BY <3>1 DEF Sendable
      <3>3. packet[w][1][1] # 0
        BY <2>2 DEF FrameReadable, HeaderArrived
      <3> QED
        BY <1>1, <2>2, <3>2, <3>3 DEF FrameNumber
    <2> QED
      BY <2>1, <2>2
  <1>3. frames[FrameNumber(w)] \in Frame
    BY <1>1, <1>2, ElementOfSeq
  <1>4. frames[FrameNumber(w)].length \in Nat
    BY <1>3 DEF Frame
  <1>5. Payload(w) \in Seq(Sendable)
    <2>1. CASE Continuing
      BY <1>1, <2>1 DEF Payload
    <2>2. CASE ~Continuing
      <3>1. Len(packet[w]) \in Nat /\ \A i \in HeaderSize + 1 .. Len(packet[w]) : packet[w][i] \in Sendable
        BY <1>1, ElementOfSeq
      <3>2. SubSeq(packet[w], HeaderSize + 1, Len(packet[w])) \in Seq(Sendable)
        BY <1>1, <3>1, SubSeqProperties
      <3> QED
        BY <2>2, <3>2 DEF Payload
    <2> QED
      BY <2>1, <2>2
  <1>6. Missing(w) \in Nat
    <2>1. CASE Continuing
      BY <1>1, <1>4, <2>1 DEF Continuing, FrameNumber, Missing, Typed, ReadTyped
    <2>2. CASE ~Continuing
      <3>1. Len(unfinished.data) = 0
        BY <2>2 DEF Continuing, NoFrame
      <3> QED
        BY <1>4, <3>1 DEF Missing
    <2> QED
      BY <2>1, <2>2
  <1>7. Taken(w) \in 0 .. Len(Payload(w)) /\ Taken(w) <= Missing(w)
    BY <1>5, <1>6 DEF Taken
  <1>8. /\ SubSeq(Payload(w), 1, Taken(w)) \in Seq(Sendable)
        /\ Len(SubSeq(Payload(w), 1, Taken(w))) = Taken(w)
    BY <1>5, <1>7
  <1>9. Rest(w) \in Seq(Sendable)
    BY <1>5, <1>7 DEF Rest
  <1>10. /\ Accumulated(w) \in Seq(Sendable)
         /\ Len(Accumulated(w)) = Len(unfinished.data) + Taken(w)
    BY <1>1, <1>8, ConcatProperties DEF Accumulated
  <1> QED
    BY <1>2, <1>3, <1>4, <1>5, <1>6, <1>7, <1>9, <1>10

LEMMA SendableKept == ASSUME frames' = frames PROVE Sendable' = Sendable
  BY DEF Sendable

LEMMA ReceiveTypes ==
  ASSUME Typed, NEW w \in Worker, Receive(w)
  PROVE  NetTyped' /\ ReadTyped'
  <1> USE DEF Typed, NetTyped, ReadTyped, Receive
  <1>1. PICK len \in 1 .. Len(wire) :
            /\ packet' = [packet EXCEPT ![w] = SubSeq(wire, 1, len)]
            /\ wire' = SubSeq(wire, len + 1, Len(wire))
            /\ cut' = (cut \/ (len < Len(wire) /\ Splits(wire[len + 1])))
    OBVIOUS
  <1>2. /\ SubSeq(wire, 1, len) \in Seq(Sendable)
        /\ SubSeq(wire, len + 1, Len(wire)) \in Seq(Sendable)
    OBVIOUS
  <1>3. packet' \in [Worker -> Seq(Sendable)] /\ wire' \in Seq(Sendable)
    BY <1>1, <1>2
  <1>4. cut' \in BOOLEAN /\ raced' \in BOOLEAN
    BY <1>1
  <1> QED
    BY <1>3, <1>4, SendableKept

(* A frame, or a part of one, has been consumed. *)
LEMMA ConsumeTypes ==
  ASSUME Typed, NEW w \in Worker, NEW s, FrameReadable(w, s), Consume(w),
         frames' = frames
  PROVE  /\ packet' \in [Worker -> Seq(Sendable)]
         /\ unfinished' = NoFrame
         /\ unfinished' \in [frame : 0 .. Len(frames), data : Seq(Sendable)]
  <1>1. Rest(w) \in Seq(Sendable)
    BY ReadTypes
  <1>2. NoFrame \in [frame : 0 .. Len(frames), data : Seq(Sendable)]
    BY EmptySeq DEF NoFrame, Typed, NetTyped
  <1> QED
    BY <1>1, <1>2 DEF Consume, Typed, ReadTyped

LEMMA ThrowTypes ==
  ASSUME Typed, NEW w \in Worker, Throw(w), UNCHANGED state,
         unfinished' \in {unfinished, NoFrame}
  PROVE  NetTyped' /\ ReadTyped'
  <1> USE DEF Typed, NetTyped, ReadTyped, Throw, netVars
  <1>1. packet' \in [Worker -> Seq(Sendable)]
    BY EmptySeq
  <1>2. unfinished' \in [frame : 0 .. Len(frames), data : Seq(Sendable)]
    <2>1. NoFrame \in [frame : 0 .. Len(frames), data : Seq(Sendable)]
      BY EmptySeq DEF NoFrame
    <2> QED
      BY <2>1
  <1>3. NetTyped'
    BY SendableKept
  <1>4. ReadTyped'
    BY <1>1, <1>2, SendableKept
  <1> QED
    BY <1>3, <1>4

LEMMA FinishTypes ==
  ASSUME Typed, NEW w \in Worker, NEW s \in Stream, NEW hs \in Seq(Nat),
         NEW body \in Seq(UnitSet), FinishStream(w, s, hs, body), UNCHANGED frames
  PROVE  /\ request' \in Seq(Request) /\ Len(request') = 1
         /\ data' \in [Stream -> Seq(UnitSet)]
         /\ pc' = [pc EXCEPT ![w] = "request"]
  <1>1. /\ [stream |-> s, headers |-> hs, body |-> body] \in Request
        /\ [stream |-> s, headers |-> << >>, body |-> << >>] \in Request
    BY EmptySeq DEF Request
  <1>2. data' \in [Stream -> Seq(UnitSet)]
    BY EmptySeq DEF FinishStream, Typed, StreamTyped
  <1>3. PICK r \in Request : request' = <<r>>
    BY <1>1 DEF FinishStream
  <1>4. pc' = [pc EXCEPT ![w] = "request"]
    BY DEF FinishStream
  <1> QED
    BY <1>2, <1>3, <1>4

LEMMA TypedStep == Typed /\ [Next]_vars => Typed'
  <1> SUFFICES ASSUME Typed, [Next]_vars PROVE Typed'
    OBVIOUS
  <1>a. ASSUME UNCHANGED vars PROVE Typed'
    BY <1>a DEF Typed, NetTyped, ReadTyped, StreamTyped, vars, netVars, streamVars, Sendable
  <1>b. ASSUME NEW w \in Worker, OnRead(w) PROVE Typed'
    <2> USE DEF netVars, streamVars
    <2>0. frames \in Seq(Frame) /\ Len(frames) \in Nat /\ DOMAIN frames = 1 .. Len(frames)
      BY DEF Typed, NetTyped
    <2>1. CASE Receive(w)
      <3>1. StreamTyped'
        BY <2>1 DEF Receive, Typed, StreamTyped
      <3> QED
        BY <2>1, <3>1, ReceiveTypes DEF Typed
    <2>2. CASE PacketDone(w)
      BY <2>2, SendableKept DEF PacketDone, Typed, NetTyped, ReadTyped, StreamTyped
    <2>3. CASE MoveRequest(w)
      <3>1. handled' \in Seq(Request) /\ request' \in Seq(Request) /\ Len(request') <= 1
        BY <2>3, ConcatProperties, EmptySeq DEF MoveRequest, Typed, StreamTyped
      <3>2. StreamTyped'
        BY <2>3, <3>1 DEF MoveRequest, Typed, StreamTyped
      <3>3. NetTyped' /\ ReadTyped'
        BY <2>3, SendableKept DEF MoveRequest, Typed, NetTyped, ReadTyped
      <3> QED
        BY <3>2, <3>3 DEF Typed
    <2>4. CASE RequestGone(w)
      <3>1. StreamTyped'
        BY <2>4 DEF RequestGone, Throw, Typed, StreamTyped
      <3> QED
        BY <2>4, <3>1, ThrowTypes DEF RequestGone, Typed
    <2>5. CASE Preface(w)
      <3>1. SubSeq(packet[w], PrefaceSize + 1, Len(packet[w])) \in Seq(Sendable)
        BY DEF Typed, ReadTyped
      <3>2. packet' \in [Worker -> Seq(Sendable)]
        BY <2>5, <3>1 DEF Preface, Typed, ReadTyped
      <3> QED
        BY <2>5, <3>2, SendableKept DEF Preface, Typed, NetTyped, ReadTyped, StreamTyped
    <2>6. CASE PrefaceInvalid(w)
      <3>1. StreamTyped'
        BY <2>6 DEF PrefaceInvalid, Throw, Typed, StreamTyped
      <3> QED
        BY <2>6, <3>1, ThrowTypes DEF PrefaceInvalid, Typed
    <2>7. CASE Settings(w)
      <3>1. FrameReadable(w, "WAIT_CLIENT_SETTINGS") /\ Consume(w) /\ frames' = frames
        BY <2>7 DEF Settings, FrameComplete
      <3>2. NetTyped' /\ StreamTyped'
        BY <2>7, SendableKept DEF Settings, Typed, NetTyped, StreamTyped
      <3>3. state' \in {"WAIT_CLIENT_SETTINGS", "IDLE"} /\ closed' \in BOOLEAN
        BY <2>7, <3>1 DEF Settings, FrameReadable, Processing, Typed, ReadTyped
      <3>4. ReadTyped'
        BY <2>7, <3>1, <3>3, ConsumeTypes, SendableKept DEF Settings, Typed, ReadTyped
      <3> QED
        BY <3>2, <3>4 DEF Typed
    <2>8. CASE SettingsMissing(w)
      <3>1. StreamTyped'
        BY <2>8 DEF SettingsMissing, Throw, Typed, StreamTyped
      <3> QED
        BY <2>8, <3>1, ThrowTypes DEF SettingsMissing, Typed
    <2>9. CASE FrameIncomplete(w)
      <3>1. PICK s : FrameReadable(w, s)
        BY <2>9 DEF FrameIncomplete
      <3>2. /\ unfinished' \in [frame : 0 .. Len(frames), data : Seq(Sendable)]
            /\ unfinished'.frame \in DOMAIN frames
            /\ Len(unfinished'.data) < frames[unfinished'.frame].length
        BY <2>0, <2>9, <3>1, ReadTypes DEF FrameIncomplete
      <3>3. packet' \in [Worker -> Seq(Sendable)]
        BY <2>9, <3>1, ReadTypes DEF FrameIncomplete, Typed, ReadTyped
      <3>4. NetTyped' /\ StreamTyped'
        BY <2>9, SendableKept DEF FrameIncomplete, Typed, NetTyped, StreamTyped
      <3>5. ReadTyped'
        BY <2>9, <3>2, <3>3, SendableKept DEF FrameIncomplete, Typed, ReadTyped
      <3> QED
        BY <3>4, <3>5 DEF Typed
    <2>10. CASE Garbled(w)
      BY <2>10, SendableKept DEF Garbled, Typed, NetTyped, ReadTyped, StreamTyped
    <2>11. CASE Exit(w)
      BY <2>11, SendableKept DEF Exit, Typed, NetTyped, ReadTyped, StreamTyped
    <2>12. CASE OtherFrame(w)
      <3>1. FrameReadable(w, "IDLE") /\ Consume(w) /\ frames' = frames
        BY <2>12 DEF OtherFrame, FrameComplete
      <3>2. NetTyped' /\ StreamTyped'
        BY <2>12, SendableKept DEF OtherFrame, Typed, NetTyped, StreamTyped
      <3>3. ReadTyped'
        BY <2>12, <3>1, ConsumeTypes, SendableKept DEF OtherFrame, Typed, ReadTyped
      <3> QED
        BY <3>2, <3>3 DEF Typed
    <2>13. CASE Headers(w)
      <3>1. FrameReadable(w, "IDLE") /\ Consume(w) /\ frames' = frames
        BY <2>13 DEF Headers, FrameComplete
      <3> DEFINE f == frames[FrameNumber(w)]
                 block == Append(decoded, FrameNumber(w))
      <3>2. FrameNumber(w) \in Nat /\ f.stream \in Stream
        BY <2>0, <3>1, ReadTypes DEF Frame
      <3>3. block \in Seq(Nat) /\ data[f.stream] \in Seq(UnitSet)
        BY <3>2, AppendProperties DEF Typed, StreamTyped
      <3>4. /\ request' \in Seq(Request) /\ Len(request') <= 1
            /\ data' \in [Stream -> Seq(UnitSet)]
            /\ pc' \in [Worker -> {"read", "process", "request"}]
        <4>1. CASE (f.endHeaders \/ f.endStream) /\ f.endStream
          <5>1. FinishStream(w, f.stream, block, data[f.stream])
            BY <2>13, <4>1 DEF Headers
          <5>2. /\ request' \in Seq(Request) /\ Len(request') = 1
                /\ data' \in [Stream -> Seq(UnitSet)]
                /\ pc' = [pc EXCEPT ![w] = "request"]
            BY <3>1, <3>2, <3>3, <5>1, FinishTypes
          <5> QED
            BY <5>2 DEF Typed, ReadTyped
        <4>2. CASE ~((f.endHeaders \/ f.endStream) /\ f.endStream)
          BY <2>13, <4>2 DEF Headers, Typed, ReadTyped, StreamTyped
        <4> QED
          BY <4>1, <4>2
      <3>5. decoded' \in Seq(Nat) /\ headers' \in [Stream -> Seq(Nat)]
        <4>1. CASE f.endHeaders \/ f.endStream
          BY <2>13, <3>2, <3>3, <4>1, EmptySeq DEF Headers, Typed, StreamTyped
        <4>2. CASE ~(f.endHeaders \/ f.endStream)
          BY <2>13, <3>3, <4>2 DEF Headers, Typed, StreamTyped
        <4> QED
          BY <4>1, <4>2
      <3>6. NetTyped' /\ StreamTyped'
        BY <2>13, <3>4, <3>5, SendableKept DEF Headers, Typed, NetTyped, StreamTyped
      <3>7. ReadTyped'
        BY <2>13, <3>1, <3>4, ConsumeTypes, SendableKept DEF Headers, Typed, ReadTyped
      <3> QED
        BY <3>6, <3>7 DEF Typed
    <2>14. CASE HeadersInvalid(w)
      <3>1. FrameReadable(w, "IDLE") /\ frames' = frames
        BY <2>14 DEF HeadersInvalid, FrameComplete, Throw
      <3>2. StreamTyped'
        <4>1. Append(decoded, FrameNumber(w)) \in Seq(Nat)
          <5>1. FrameNumber(w) \in Nat
            BY <2>0, <3>1, ReadTypes
          <5> QED
            BY <5>1, AppendProperties DEF Typed, StreamTyped
        <4> QED
          BY <2>14, <4>1 DEF HeadersInvalid, Throw, Typed, StreamTyped
      <3>3. CASE Throw(w)
        BY <2>14, <3>2, <3>3, ThrowTypes DEF HeadersInvalid, Typed
      <3>4. CASE ~Throw(w)
        <4>1. Consume(w) /\ closed' = TRUE /\ UNCHANGED <<netVars, pc, handled, lost, state>>
          BY <2>14, <3>4 DEF HeadersInvalid, Consume
        <4>2. NetTyped'
          BY <4>1, SendableKept DEF Typed, NetTyped
        <4>3. ReadTyped'
          BY <3>1, <4>1, ConsumeTypes, SendableKept DEF Typed, ReadTyped
        <4> QED
          BY <3>2, <4>2, <4>3 DEF Typed
      <3> QED
        BY <3>3, <3>4
    <2>15. CASE Data(w)
      <3>1. FrameReadable(w, "IDLE") /\ Consume(w) /\ frames' = frames
        BY <2>15 DEF Data, FrameComplete
      <3> DEFINE f == frames[FrameNumber(w)]
                 body == data[f.stream] \o Accumulated(w)
      <3>2. f.stream \in Stream /\ Accumulated(w) \in Seq(Sendable)
        BY <3>1, ReadTypes DEF Frame
      <3>3. body \in Seq(UnitSet) /\ headers[f.stream] \in Seq(Nat)
        BY <3>2, SendableIsUnit, ConcatProperties DEF Typed, StreamTyped
      <3>4. /\ request' \in Seq(Request) /\ Len(request') <= 1
            /\ data' \in [Stream -> Seq(UnitSet)]
            /\ pc' \in [Worker -> {"read", "process", "request"}]
        <4>1. CASE f.endStream
          <5>1. FinishStream(w, f.stream, headers[f.stream], body)
            BY <2>15, <4>1 DEF Data
          <5>2. /\ request' \in Seq(Request) /\ Len(request') = 1
                /\ data' \in [Stream -> Seq(UnitSet)]
                /\ pc' = [pc EXCEPT ![w] = "request"]
            BY <3>1, <3>2, <3>3, <5>1, FinishTypes
          <5> QED
            BY <5>2 DEF Typed, ReadTyped
        <4>2. CASE ~f.endStream
          BY <2>15, <3>2, <3>3, <4>2 DEF Data, Typed, ReadTyped, StreamTyped
        <4> QED
          BY <4>1, <4>2
      <3>5. NetTyped' /\ StreamTyped'
        BY <2>15, <3>4, SendableKept DEF Data, Typed, NetTyped, StreamTyped
      <3>6. ReadTyped'
        BY <2>15, <3>1, <3>4, ConsumeTypes, SendableKept DEF Data, Typed, ReadTyped
      <3> QED
        BY <3>5, <3>6 DEF Typed
    <2> QED
      BY <1>b, <2>1, <2>2, <2>3, <2>4, <2>5, <2>6, <2>7, <2>8, <2>9, <2>10, <2>11,
         <2>12, <2>13, <2>14, <2>15 DEF OnRead
  <1> QED
    BY <1>a, <1>b DEF Next, Quiet

(* Every variable has its type, in all states of all instances. *)
THEOREM TypeCorrect == Spec => []TypeOK
  <1>1. Spec => []Typed
    BY TypedInit, TypedStep, PTL DEF Spec
  <1> QED
    BY <1>1, TypedIsOK, PTL
-----------------------------------------------------------------------------
(* Where the preface and the frames are in what the peer sends.            *)
Size(fs, n) == IF n = 0 THEN PrefaceSize ELSE HeaderSize + fs[n].length

Laid(fs, S, b) ==
    /\ S \in Seq((0 .. Len(fs)) \X Nat)
    /\ b \in [0 .. Len(fs) + 1 -> Nat]
    /\ b[0] = 0 /\ b[Len(fs) + 1] = Len(S)
    /\ \A n \in 0 .. Len(fs) :
        /\ b[n + 1] = b[n] + Size(fs, n) /\ b[n + 1] <= Len(S)
        /\ \A k \in 1 .. Size(fs, n) : S[b[n] + k] = <<n, k>>

LEMMA SentIsLaid ==
  ASSUME NEW fs \in Seq(Frame)
  PROVE  \E b : Laid(fs, Sent(fs), b)
  <1>1. PICK N, parts, P, F, T :
            /\ N = Len(fs) /\ parts = FrameUnits(fs) /\ P = Units(0, 1, PrefaceSize)
            /\ F = FlattenSeq(parts) /\ T = (0 .. N) \X Nat
    OBVIOUS
  <1>2. /\ N \in Nat /\ parts \in Seq(Seq(T)) /\ Len(parts) = N
        /\ Sent(fs) = P \o F
        /\ \A n \in 1 .. N : parts[n] = Units(n, 1, Size(fs, n)) /\ Size(fs, n) \in Nat
    <2>1. \A n \in 1 .. N : fs[n] \in Frame
      BY <1>1, ElementOfSeq
    <2>2. \A n \in 1 .. N : Size(fs, n) \in Nat
      BY <1>1, <2>1 DEF Size, Frame
    <2>3. \A n \in 1 .. N : parts[n] = Units(n, 1, Size(fs, n))
      BY <1>1 DEF FrameUnits, Size
    <2>4. parts \in Seq(Seq(T)) /\ Len(parts) = N
      BY <1>1, FrameUnitsType
    <2>5. Sent(fs) = P \o F
      BY <1>1 DEF Sent, FrameUnits
    <2>6. N \in Nat
      BY <1>1
    <2> QED
      BY <2>2, <2>3, <2>4, <2>5, <2>6
  <1>3. /\ P \in Seq(T) /\ Len(P) = PrefaceSize /\ \A k \in 1 .. PrefaceSize : P[k] = <<0, k>>
        /\ F \in Seq(T)
    <2>1. P \in Seq(T) /\ Len(P) = PrefaceSize
      <3>1. 0 \in 0 .. N /\ 1 <= PrefaceSize + 1
        BY <1>2
      <3>2. Units(0, 1, PrefaceSize) \in Seq((0 .. N) \X Nat)
        BY <1>2, <3>1, UnitsType
      <3>3. Len(Units(0, 1, PrefaceSize)) = PrefaceSize
        BY DEF Units
      <3> QED
        BY <1>1, <3>2, <3>3
    <2>2. \A k \in 1 .. PrefaceSize : P[k] = <<0, k>>
      BY <1>1 DEF Units
    <2> QED
      BY <1>1, <1>2, <2>1, <2>2, FlattenType
  <1>4. \A n \in 1 .. N : /\ Len(parts[n]) = Size(fs, n)
                          /\ \A k \in 1 .. Size(fs, n) : parts[n][k] = <<n, k>>
    BY <1>2 DEF Units
  <1>5. PICK L : L = [n \in 0 .. N |-> Len(FirstParts(parts, n))]
    OBVIOUS
  <1>6. /\ L \in [0 .. N -> Nat] /\ L[0] = 0 /\ L[N] = Len(F)
        /\ \A n \in 1 .. N : L[n] = L[n - 1] + Size(fs, n)
        /\ \A n \in 1 .. N : HasAt(F, L[n - 1], parts[n])
    <2>1. L \in [0 .. N -> Nat]
      BY <1>2, <1>5, FirstPartsType
    <2>2. L[0] = 0
      BY <1>2, <1>5, FirstPartsNone
    <2>3. L[N] = Len(F)
      BY <1>1, <1>2, <1>5, FirstPartsAll
    <2>4. ASSUME NEW n \in 1 .. N
          PROVE  L[n] = L[n - 1] + Size(fs, n) /\ HasAt(F, L[n - 1], parts[n])
      <3>1. n \in 0 .. N /\ n - 1 \in 0 .. N /\ n \in 1 .. Len(parts)
        BY <1>2
      <3>2. PICK s, t, p : s = FirstParts(parts, n - 1) /\ t = FirstParts(parts, n) /\ p = parts[n]
        OBVIOUS
      <3>3. s \in Seq(T) /\ p \in Seq(T) /\ t = s \o p
        BY <1>2, <3>1, <3>2, FirstPartsType, FirstPartsMore, ElementOfSeq
      <3>4. Len(t) = Len(s) + Len(p)
        BY <3>3, ConcatProperties
      <3>5. L[n] = Len(t) /\ L[n - 1] = Len(s) /\ Len(p) = Size(fs, n)
        BY <1>4, <1>5, <3>1, <3>2
      <3>6. HasAt(F, Len(FirstParts(parts, n - 1)), parts[n])
        BY <1>1, <1>2, <3>1, PartIsAt
      <3> QED
        BY <3>2, <3>4, <3>5, <3>6
    <2> QED
      BY <2>1, <2>2, <2>3, <2>4
  <1>7. PICK S : S = Sent(fs)
    OBVIOUS
  <1>8. /\ S \in Seq(T) /\ Len(S) = PrefaceSize + Len(F) /\ Len(F) \in Nat
        /\ \A k \in 1 .. PrefaceSize : S[k] = <<0, k>>
        /\ \A k \in 1 .. Len(F) : S[PrefaceSize + k] = F[k]
    <2>1. Len(F) \in Nat /\ S = P \o F
      BY <1>2, <1>3, <1>7
    <2>2. P \in Seq(T) /\ F \in Seq(T) /\ Len(P) \in Nat
      BY <1>3
    <2>3. S \in Seq(T) /\ Len(S) = Len(P) + Len(F)
      BY <2>1, <2>2, ConcatProperties
    <2>4. /\ \A k \in 1 .. Len(P) : S[k] = P[k]
          /\ \A k \in 1 .. Len(F) : S[Len(P) + k] = F[k]
      BY <2>1, <2>2
    <2> QED
      BY <1>3, <2>1, <2>3, <2>4
  <1> DEFINE b == [n \in 0 .. N + 1 |-> IF n = 0 THEN 0 ELSE PrefaceSize + L[n - 1]]
  <1>9. b \in [0 .. N + 1 -> Nat] /\ b[0] = 0 /\ b[N + 1] = Len(S)
    BY <1>2, <1>6, <1>8
  <1>10. ASSUME NEW n \in 0 .. N
         PROVE  /\ b[n + 1] = b[n] + Size(fs, n) /\ b[n + 1] <= Len(S)
                /\ \A k \in 1 .. Size(fs, n) : S[b[n] + k] = <<n, k>>
    <2>1. CASE n = 0
      <3>1. b[0] = 0 /\ b[1] = PrefaceSize
        BY <1>2, <1>6
      <3>2. Size(fs, 0) = PrefaceSize
        BY DEF Size
      <3> HIDE DEF b
      <3> QED
        BY <1>8, <2>1, <3>1, <3>2
    <2>2. CASE n # 0
      <3>1. n \in 1 .. N /\ n - 1 \in 0 .. N /\ n \in 0 .. N + 1 /\ n + 1 \in 0 .. N + 1
        BY <1>2, <2>2
      <3>2. b[n] = PrefaceSize + L[n - 1] /\ b[n + 1] = PrefaceSize + L[n] /\ L[n - 1] \in Nat
        BY <1>6, <2>2, <3>1
      <3>3. L[n] = L[n - 1] + Size(fs, n) /\ Size(fs, n) \in Nat
        BY <1>2, <1>6, <3>1
      <3>4. /\ L[n - 1] + Size(fs, n) <= Len(F)
            /\ \A k \in 1 .. Size(fs, n) : F[L[n - 1] + k] = <<n, k>>
        <4>1. HasAt(F, L[n - 1], parts[n])
          BY <1>6, <3>1
        <4> QED
          BY <1>4, <3>1, <4>1 DEF HasAt
      <3>5. ASSUME NEW k \in 1 .. Size(fs, n) PROVE S[b[n] + k] = <<n, k>>
        <4>1. L[n - 1] + k \in 1 .. Len(F) /\ b[n] + k = PrefaceSize + (L[n - 1] + k)
          <5> HIDE DEF b
          <5>1. PICK l, z, f : l = L[n - 1] /\ z = Size(fs, n) /\ f = Len(F)
            OBVIOUS
          <5>2. l \in Nat /\ z \in Nat /\ k \in 1 .. z /\ l + z <= f /\ f \in Nat
            BY <1>8, <3>2, <3>3, <3>4, <5>1
          <5>3. l + k \in 1 .. f
            BY <5>2
          <5>4. b[n] = PrefaceSize + l
            BY <3>2, <5>1
          <5>5. b[n] + k = PrefaceSize + (l + k)
            BY <5>2, <5>4
          <5> QED
            BY <5>1, <5>3, <5>5
        <4> HIDE DEF b
        <4> QED
          BY <1>8, <3>4, <4>1
      <3> HIDE DEF b
      <3>6. b[n + 1] = b[n] + Size(fs, n) /\ b[n + 1] <= Len(S)
        <4>1. PICK l, z, f : l = L[n - 1] /\ z = Size(fs, n) /\ f = Len(F)
          OBVIOUS
        <4>2. l \in Nat /\ z \in Nat /\ f \in Nat /\ l + z <= f
          BY <1>8, <3>2, <3>3, <3>4, <4>1
        <4>3. b[n] = PrefaceSize + l /\ b[n + 1] = PrefaceSize + (l + z) /\ Len(S) = PrefaceSize + f
          BY <1>8, <3>2, <3>3, <4>1
        <4> QED
          BY <4>1, <4>2, <4>3
      <3> QED
        BY <3>5, <3>6
    <2> QED
      BY <2>1, <2>2
  <1> HIDE DEF b
  <1>11. \A n \in 0 .. N :
             /\ b[n + 1] = b[n] + Size(fs, n) /\ b[n + 1] <= Len(S)
             /\ \A k \in 1 .. Size(fs, n) : S[b[n] + k] = <<n, k>>
    BY <1>10, Zenon
  <1>12. Laid(fs, S, b)
    BY <1>1, <1>8, <1>9, <1>11 DEF Laid
  <1> QED
    BY <1>7, <1>12
-----------------------------------------------------------------------------
(* Where the connection stands.  One worker at a time has a packet, and    *)
(* what it has left of it starts where the frame n, or the rest of its     *)
(* payload, is expected.                                                   *)
Window(S, from, to) == SubSeq(S, from + 1, to)

LEMMA WindowOfWindow ==
  ASSUME NEW T, NEW S \in Seq(T), NEW c \in 0 .. Len(S), NEW a \in 0 .. c, NEW j \in 0 .. c - a
  PROVE  /\ SubSeq(Window(S, a, c), j + 1, Len(Window(S, a, c))) = Window(S, a + j, c)
         /\ SubSeq(Window(S, a, c), 1, j) = Window(S, a, a + j)
  <1>1. PICK W : W = Window(S, a, c)
    OBVIOUS
  <1>2. W \in Seq(T) /\ Len(W) = c - a /\ \A i \in 1 .. c - a : W[i] = S[a + i]
    BY <1>1 DEF Window
  <1>3. /\ a + j \in Nat /\ a + j <= c /\ a + j <= Len(S) /\ a <= a + j /\ c - a \in Nat /\ j \in Nat
        /\ (c - (a + j)) = (c - a) - j /\ (a + j) - a = j
    OBVIOUS
  <1>4. /\ Window(S, a + j, c) \in Seq(T) /\ Len(Window(S, a + j, c)) = c - (a + j)
        /\ \A i \in 1 .. c - (a + j) : Window(S, a + j, c)[i] = S[(a + j) + i]
    BY <1>3 DEF Window
  <1>5. /\ Window(S, a, a + j) \in Seq(T) /\ Len(Window(S, a, a + j)) = (a + j) - a
        /\ \A i \in 1 .. (a + j) - a : Window(S, a, a + j)[i] = S[a + i]
    BY <1>3 DEF Window
  <1>6. PICK U, V, m : /\ U = SubSeq(W, j + 1, m) /\ V = SubSeq(W, 1, j) /\ m = Len(W)
    OBVIOUS
  <1>7. /\ U \in Seq(T) /\ Len(U) = m - j /\ \A i \in 1 .. m - j : U[i] = W[j + i]
        /\ V \in Seq(T) /\ Len(V) = j /\ \A i \in 1 .. j : V[i] = W[i]
    <2>1. m \in Nat /\ j <= m
      BY <1>2, <1>3, <1>6
    <2>2. U \in Seq(T) /\ Len(U) = m - j /\ \A i \in 1 .. m - j : U[i] = W[j + i]
      BY <1>2, <1>3, <1>6, <2>1
    <2>3. V \in Seq(T) /\ Len(V) = j /\ \A i \in 1 .. j : V[i] = W[i]
      BY <1>2, <1>3, <1>6, <2>1
    <2> QED
      BY <2>2, <2>3
  <1>8. U = Window(S, a + j, c)
    <2>1. \A i \in 1 .. m - j : U[i] = S[(a + j) + i]
      <3> SUFFICES ASSUME NEW i \in 1 .. m - j PROVE U[i] = S[(a + j) + i]
        OBVIOUS
      <3>1. j + i \in 1 .. c - a /\ a + (j + i) = (a + j) + i
        BY <1>2, <1>3, <1>6
      <3> QED
        BY <1>2, <1>7, <3>1
    <2>2. m - j = c - (a + j)
      BY <1>2, <1>3, <1>6
    <2>3. PICK X : X = Window(S, a + j, c)
      OBVIOUS
    <2>4. X \in Seq(T) /\ Len(X) = m - j /\ \A i \in 1 .. m - j : X[i] = S[(a + j) + i]
      BY <1>4, <2>2, <2>3
    <2>5. Len(X) = Len(U) /\ \A i \in 1 .. Len(U) : U[i] = X[i]
      BY <1>7, <2>1, <2>4
    <2>6. U = X
      BY <1>7, <2>4, <2>5, SeqEqual
    <2> QED
      BY <2>3, <2>6
  <1>9. V = Window(S, a, a + j)
    <2>1. \A i \in 1 .. j : V[i] = S[a + i]
      <3> SUFFICES ASSUME NEW i \in 1 .. j PROVE V[i] = S[a + i]
        OBVIOUS
      <3>1. i \in 1 .. c - a
        BY <1>3
      <3> QED
        BY <1>2, <1>7, <3>1
    <2>2. PICK X : X = Window(S, a, a + j)
      OBVIOUS
    <2>3. X \in Seq(T) /\ Len(X) = j /\ \A i \in 1 .. j : X[i] = S[a + i]
      BY <1>3, <1>5, <2>2
    <2>4. Len(X) = Len(V) /\ \A i \in 1 .. Len(V) : V[i] = X[i]
      BY <1>7, <2>1, <2>3
    <2>5. V = X
      BY <1>7, <2>3, <2>4, SeqEqual
    <2> QED
      BY <2>2, <2>5
  <1> QED
    BY <1>1, <1>6, <1>8, <1>9

Begin(fs) == CHOOSE b : Laid(fs, Sent(fs), b)

LEMMA BeginIsLaid ==
  ASSUME NEW fs \in Seq(Frame)
  PROVE  Laid(fs, Sent(fs), Begin(fs))
  BY SentIsLaid DEF Begin

At(n) == Begin(frames)[n] + IF Continuing THEN HeaderSize + Len(unfinished.data) ELSE 0

Received == Len(Sent(frames)) - Len(wire)

Failed == closed \/ lost # "no"

StateAt(n) ==
    IF n = 0 THEN "CLIENT_PREFACE" ELSE IF n = 1 THEN "WAIT_CLIENT_SETTINGS" ELSE "IDLE"

InStep(n) ==
    /\ n \in 0 .. Len(frames) + 1
    /\ state = StateAt(n)
    /\ Received \in Nat /\ At(n) <= Received
    /\ wire = Window(Sent(frames), Received, Len(Sent(frames)))
    /\ \A w \in Worker : pc[w] # "read" => packet[w] = Window(Sent(frames), At(n), Received)
    /\ \A v \in Worker, w \in Worker : pc[v] # "read" /\ pc[w] # "read" => v = w
    /\ AllRead => At(n) = Received
    /\ Continuing =>
        /\ n \in 1 .. Len(frames) /\ unfinished.frame = n
        /\ unfinished.data = Units(n, HeaderSize + 1, HeaderSize + Len(unfinished.data))
    /\ ~cut /\ Received < Len(Sent(frames)) => ~Splits(Sent(frames)[Received + 1])
    /\ \A w \in Worker : pc[w] = "request" => request # << >>

SyncInv == Plain(frames) /\ ~raced => IF Failed THEN cut ELSE \E n : InStep(n)

LEMMA SyncInit == Typed /\ Init => SyncInv
  <1> SUFFICES ASSUME Typed, Init PROVE InStep(0)
    BY DEF SyncInv, Failed, Init
  <1>1. frames \in Seq(Frame) /\ ~Continuing /\ AllRead
    BY DEF Init, Continuing, AllRead, Typed, NetTyped
  <1>2. PICK S : S = Sent(frames)
    OBVIOUS
  <1>3. Laid(frames, S, Begin(frames)) /\ wire = S
    BY <1>1, <1>2, BeginIsLaid DEF Init
  <1>4. S \in Seq((0 .. Len(frames)) \X Nat) /\ Len(S) \in Nat
    BY <1>3 DEF Laid
  <1>5. At(0) = 0 /\ Received = 0
    BY <1>1, <1>2, <1>3, <1>4 DEF At, Received, Laid
  <1>6. wire = Window(S, 0, Len(S))
    BY <1>3, <1>4, SubSeqFull DEF Window
  <1>7. ~Splits(S[1])
    <2>1. S[0 + 1] = <<0, 1>>
      <3>1. 0 \in 0 .. Len(frames) /\ 1 \in 1 .. Size(frames, 0)
        BY <1>1 DEF Size
      <3>2. Begin(frames)[0] = 0 /\ S[Begin(frames)[0] + 1] = <<0, 1>>
        BY <1>3, <3>1 DEF Laid
      <3> QED
        BY <3>2
    <2> QED
      BY <2>1 DEF Splits
  <1> QED
    BY <1>1, <1>2, <1>5, <1>6, <1>7 DEF InStep, StateAt, Init

(* A worker has the units from At(n) on, of which the first are those of   *)
(* the preface, or of a header; what is cut off is recorded.               *)
LEMMA Standing ==
  ASSUME Typed, NEW n, InStep(n)
  PROVE  /\ frames \in Seq(Frame) /\ Len(frames) \in Nat /\ DOMAIN frames = 1 .. Len(frames)
         /\ Laid(frames, Sent(frames), Begin(frames))
         /\ Sent(frames) \in Seq((0 .. Len(frames)) \X Nat)
         /\ Len(Sent(frames)) \in Nat
         /\ Begin(frames)[n] \in Nat
         /\ At(n) \in Nat /\ Received \in Nat
         /\ At(n) <= Received /\ Received <= Len(Sent(frames))
         /\ Len(wire) = Len(Sent(frames)) - Received
         /\ unfinished.data \in Seq(Sendable) /\ Len(unfinished.data) \in Nat
  <1>1. /\ frames \in Seq(Frame) /\ Len(frames) \in Nat /\ DOMAIN frames = 1 .. Len(frames)
        /\ wire \in Seq(Sendable) /\ unfinished.data \in Seq(Sendable)
    BY DEF Typed, NetTyped, ReadTyped
  <1>2. Laid(frames, Sent(frames), Begin(frames))
    BY <1>1, BeginIsLaid
  <1>3. /\ Sent(frames) \in Seq((0 .. Len(frames)) \X Nat) /\ Len(Sent(frames)) \in Nat
        /\ Begin(frames)[n] \in Nat
    <2>1. n \in 0 .. Len(frames) + 1
      BY DEF InStep
    <2>2. /\ Sent(frames) \in Seq((0 .. Len(frames)) \X Nat)
          /\ Begin(frames) \in [0 .. Len(frames) + 1 -> Nat]
      BY <1>2 DEF Laid
    <2>3. Len(Sent(frames)) \in Nat
      BY <2>2
    <2>4. Begin(frames)[n] \in Nat
      BY <2>1, <2>2, Zenon
    <2> QED
      BY <2>2, <2>3, <2>4
  <1>4. Len(wire) \in Nat /\ Len(unfinished.data) \in Nat
    BY <1>1
  <1>5. At(n) \in Nat
    BY <1>3, <1>4 DEF At
  <1>6. /\ Received \in Nat /\ At(n) <= Received /\ Received <= Len(Sent(frames))
        /\ Len(wire) = Len(Sent(frames)) - Received
    BY <1>3, <1>4 DEF InStep, Received
  <1> QED
    BY <1>1, <1>2, <1>3, <1>4, <1>5, <1>6

LEMMA PacketIs ==
  ASSUME Typed, NEW n, InStep(n), NEW w \in Worker, pc[w] # "read"
  PROVE  /\ packet[w] = Window(Sent(frames), At(n), Received)
         /\ Len(packet[w]) = Received - At(n)
         /\ \A i \in 1 .. Received - At(n) : packet[w][i] = Sent(frames)[At(n) + i]
  <1>1. packet[w] = Window(Sent(frames), At(n), Received)
    BY DEF InStep
  <1>2. PICK S, a, c : S = Sent(frames) /\ a = At(n) /\ c = Received
    OBVIOUS
  <1>3. /\ S \in Seq((0 .. Len(frames)) \X Nat) /\ a \in Nat /\ c \in Nat
        /\ a <= c /\ c <= Len(S)
    BY <1>2, Standing
  <1>4. /\ Len(Window(S, a, c)) = c - a
        /\ \A i \in 1 .. c - a : Window(S, a, c)[i] = S[a + i]
    BY <1>3 DEF Window
  <1> QED
    BY <1>1, <1>2, <1>4

(* The first units of frame n, of which a packet may lack some. *)
LEMMA BeginningThere ==
  ASSUME Typed, NEW n, InStep(n), NEW w \in Worker, pc[w] # "read", packet[w] # << >>,
         ~Continuing, NEW k \in Nat,
         n = 0 => k = PrefaceSize, n # 0 => k = HeaderSize
  PROVE  /\ n \in 0 .. Len(frames) /\ At(n) = Begin(frames)[n]
         /\ Len(packet[w]) >= 1 /\ packet[w][1] = <<n, 1>>
         /\ Len(packet[w]) < k => cut
         /\ Len(packet[w]) >= k => SubSeq(packet[w], 1, k) = Units(n, 1, k)
  <1>1. PICK S, b, r : S = Sent(frames) /\ b = Begin(frames) /\ r = Received
    OBVIOUS
  <1>2. /\ Len(frames) \in Nat /\ Laid(frames, S, b) /\ Len(S) \in Nat /\ b[n] \in Nat
        /\ r \in Nat /\ b[n] <= r /\ r <= Len(S) /\ At(n) = b[n]
        /\ S \in Seq((0 .. Len(frames)) \X Nat)
    <2>1. At(n) = b[n]
      <3>1. b[n] \in Nat
        BY <1>1, Standing
      <3> QED
        BY <1>1, <3>1 DEF At
    <2> QED
      BY <1>1, <2>1, Standing
  <1>3. /\ packet[w] \in Seq(Sendable) /\ Len(packet[w]) = r - b[n]
        /\ \A i \in 1 .. r - b[n] : packet[w][i] = S[b[n] + i]
    <2>1. packet[w] \in Seq(Sendable)
      BY DEF Typed, ReadTyped
    <2>2. /\ Len(packet[w]) = Received - At(n)
          /\ \A i \in 1 .. Received - At(n) : packet[w][i] = Sent(frames)[At(n) + i]
      BY PacketIs
    <2>3. At(n) = b[n]
      BY <1>2
    <2> QED
      BY <1>1, <2>1, <2>2, <2>3
  <1>4. Len(packet[w]) >= 1 /\ b[n] < Len(S)
    <2>1. Len(packet[w]) >= 1
      BY <1>3, EmptySeq
    <2>2. PICK a, l : a = b[n] /\ l = Len(S)
      OBVIOUS
    <2>3. a \in Nat /\ l \in Nat /\ r \in Nat /\ r <= l /\ r - a >= 1
      BY <1>2, <1>3, <2>1, <2>2
    <2>4. a < l
      BY <2>3
    <2> QED
      BY <2>1, <2>2, <2>4
  <1>5. n \in 0 .. Len(frames)
    <2>1. b[Len(frames) + 1] = Len(S)
      BY <1>2 DEF Laid
    <2>2. n \in 0 .. Len(frames) + 1 /\ n # Len(frames) + 1
      BY <1>2, <1>4, <2>1 DEF InStep
    <2> QED
      BY <1>2, <2>2
  <1>6. /\ k <= Size(frames, n) /\ Size(frames, n) \in Nat /\ k >= 1
        /\ b[n] + Size(frames, n) <= Len(S)
        /\ \A i \in 1 .. Size(frames, n) : S[b[n] + i] = <<n, i>>
    <2>1. Size(frames, n) \in Nat /\ k <= Size(frames, n) /\ k >= 1
      <3>1. CASE n = 0
        BY <3>1 DEF Size
      <3>2. CASE n # 0
        <4>1. n \in 1 .. Len(frames) /\ frames \in Seq(Frame)
          BY <1>2, <1>5, <3>2, Standing
        <4>2. frames[n] \in Frame
          BY <4>1, ElementOfSeq
        <4>3. frames[n].length \in Nat
          BY <4>2 DEF Frame
        <4> QED
          BY <3>2, <4>3 DEF Size
      <3> QED
        BY <3>1, <3>2
    <2>2. /\ b[n + 1] = b[n] + Size(frames, n) /\ b[n + 1] <= Len(S)
          /\ \A i \in 1 .. Size(frames, n) : S[b[n] + i] = <<n, i>>
      BY <1>2, <1>5 DEF Laid
    <2> QED
      BY <2>1, <2>2
  <1>7. \A i \in 1 .. Len(packet[w]) : i <= k => packet[w][i] = <<n, i>>
    <2> SUFFICES ASSUME NEW i \in 1 .. Len(packet[w]), i <= k PROVE packet[w][i] = <<n, i>>
      OBVIOUS
    <2>1. i \in 1 .. r - b[n] /\ i \in 1 .. Size(frames, n)
      BY <1>2, <1>3, <1>6
    <2> QED
      BY <1>3, <1>6, <2>1
  <1>8. ASSUME Len(packet[w]) < k PROVE cut
    <2>1. /\ r < Len(S) /\ r + 1 = b[n] + (Len(packet[w]) + 1)
          /\ Len(packet[w]) + 1 \in 1 .. Size(frames, n)
      <3>1. PICK p, z, a : p = Len(packet[w]) /\ z = Size(frames, n) /\ a = b[n]
        OBVIOUS
      <3>2. p \in Nat /\ p = r - a
        BY <1>3, <3>1
      <3>3. p < k
        BY <1>8, <3>1
      <3>4. k <= z /\ a + z <= Len(S)
        BY <1>6, <3>1
      <3>5. p \in Nat /\ p = r - a /\ p < k /\ k <= z /\ a + z <= Len(S)
        BY <3>2, <3>3, <3>4
      <3>6. z \in Nat /\ a \in Nat
        BY <1>2, <1>6, <3>1
      <3>7. PICK l : l = Len(S) /\ l \in Nat
        BY <1>2
      <3>8. a + z <= l /\ r \in Nat
        BY <1>2, <3>5, <3>7
      <3>9. r < l /\ r + 1 = a + (p + 1) /\ p + 1 \in 1 .. z
        BY <3>5, <3>6, <3>7, <3>8
      <3> QED
        BY <3>1, <3>7, <3>9
    <2>2. S[r + 1] = <<n, Len(packet[w]) + 1>>
      BY <1>6, <2>1
    <2>3. Splits(S[r + 1])
      <3>1. Len(packet[w]) + 1 > 1 /\ Len(packet[w]) + 1 <= k
        BY <1>3, <1>4, <1>8
      <3> QED
        BY <2>2, <3>1 DEF Splits
    <2> QED
      BY <1>1, <2>1, <2>3 DEF InStep, Typed, NetTyped
  <1>9. ASSUME Len(packet[w]) >= k PROVE SubSeq(packet[w], 1, k) = Units(n, 1, k)
    <2>1. \A i \in 1 .. k : packet[w][i] = <<n, i>>
      BY <1>3, <1>7, <1>9
    <2>2. PICK U : U = Units(n, 1, k)
      OBVIOUS
    <2>3. U \in Seq(Sendable) /\ Len(U) = k /\ \A i \in 1 .. k : U[i] = <<n, i>>
      <3>1. U \in Seq(Sendable)
        BY <1>2, <1>5, <2>2, UnitsType DEF Sendable
      <3> QED
        BY <2>2, <3>1 DEF Units
    <2>4. PICK V : V = SubSeq(packet[w], 1, k)
      OBVIOUS
    <2>5. V \in Seq(Sendable) /\ Len(V) = k /\ \A i \in 1 .. k : V[i] = packet[w][i]
      BY <1>3, <1>9, <2>4
    <2> QED
      <3>1. Len(V) = Len(U) /\ \A i \in 1 .. Len(V) : V[i] = U[i]
        BY <2>1, <2>3, <2>5
      <3>2. V = U
        BY <2>3, <2>5, <3>1, SeqEqual
      <3> QED
        BY <2>2, <2>4, <3>2
  <1>10. packet[w][1] = <<n, 1>>
    BY <1>3, <1>4, <1>6, <1>7
  <1> QED
    BY <1>1, <1>2, <1>4, <1>5, <1>8, <1>9, <1>10

(* A header that has arrived is that of frame n, and one that has not      *)
(* arrived was cut off.                                                    *)
LEMMA HeaderThere ==
  ASSUME Typed, NEW n, InStep(n), n # 0, NEW w \in Worker, pc[w] # "read", packet[w] # << >>,
         ~Continuing
  PROVE  /\ n \in 1 .. Len(frames) /\ At(n) = Begin(frames)[n]
         /\ packet[w][1][1] = n
         /\ Len(packet[w]) < HeaderSize => cut
         /\ Len(packet[w]) >= HeaderSize => HeaderArrived(w)
  <1>1. /\ n \in 0 .. Len(frames) /\ At(n) = Begin(frames)[n]
        /\ Len(packet[w]) >= 1 /\ packet[w][1] = <<n, 1>>
        /\ Len(packet[w]) < HeaderSize => cut
        /\ Len(packet[w]) >= HeaderSize => SubSeq(packet[w], 1, HeaderSize) = Units(n, 1, HeaderSize)
    <2>1. HeaderSize \in Nat
      OBVIOUS
    <2> QED
      BY <2>1, BeginningThere
  <1>2. packet[w][1][1] = n
    BY <1>1
  <1> QED
    BY <1>1, <1>2 DEF HeaderArrived

LEMMA PrefaceThere ==
  ASSUME Typed, InStep(0), NEW w \in Worker, pc[w] # "read", packet[w] # << >>
  PROVE  /\ At(0) = 0 /\ ~Continuing
         /\ ~PrefaceArrived(w) => cut
  <1>1. ~Continuing
    BY DEF InStep
  <1>2. /\ At(0) = Begin(frames)[0]
        /\ Len(packet[w]) < PrefaceSize => cut
        /\ Len(packet[w]) >= PrefaceSize => SubSeq(packet[w], 1, PrefaceSize) = Units(0, 1, PrefaceSize)
    <2>1. PrefaceSize \in Nat
      OBVIOUS
    <2> QED
      BY <1>1, <2>1, BeginningThere
  <1>3. Begin(frames)[0] = 0
    BY Standing DEF Laid
  <1>4. Len(packet[w]) \in Nat
    BY DEF Typed, ReadTyped
  <1> QED
    BY <1>1, <1>2, <1>3, <1>4 DEF PrefaceArrived

(* read_frame reads frame n, and leaves the packet where it stopped. *)
LEMMA ReadSync ==
  ASSUME Typed, NEW n, InStep(n), NEW w \in Worker, NEW s, s # "CLIENT_PREFACE",
         FrameReadable(w, s)
  PROVE  /\ n \in 1 .. Len(frames) /\ FrameNumber(w) = n
         /\ Accumulated(w) \in Seq(Sendable) /\ Len(Accumulated(w)) \in Nat
         /\ Len(Accumulated(w)) <= frames[n].length
         /\ Accumulated(w) = Units(n, HeaderSize + 1, HeaderSize + Len(Accumulated(w)))
         /\ Begin(frames)[n] + HeaderSize + Len(Accumulated(w)) <= Received
         /\ Rest(w) = Window(Sent(frames),
                             Begin(frames)[n] + HeaderSize + Len(Accumulated(w)), Received)
  <1>1. PICK S, b, r, d : /\ S = Sent(frames) /\ b = Begin(frames)[n] /\ r = Received
                          /\ d = Len(unfinished.data)
    OBVIOUS
  <1>2. /\ pc[w] # "read" /\ packet[w] # << >> /\ n # 0
        /\ ~Continuing => HeaderArrived(w) /\ Len(packet[w]) >= HeaderSize
    <2>1. n # 0
      BY DEF FrameReadable, Processing, InStep, StateAt
    <2> QED
      BY <2>1 DEF FrameReadable, Processing, HeaderArrived
  <1>3. /\ S \in Seq((0 .. Len(frames)) \X Nat) /\ Len(S) \in Nat
        /\ b \in Nat /\ r \in Nat /\ r <= Len(S) /\ d \in Nat /\ Len(frames) \in Nat
        /\ unfinished.data \in Seq(Sendable)
    BY <1>1, Standing
  <1>4. n \in 1 .. Len(frames) /\ FrameNumber(w) = n
    <2>1. CASE Continuing
      BY <2>1 DEF FrameNumber, InStep
    <2>2. CASE ~Continuing
      BY <1>2, <2>2, HeaderThere DEF FrameNumber
    <2> QED
      BY <2>1, <2>2
  <1>5. PICK a : a = b + HeaderSize + d
    OBVIOUS
  <1>6. a \in Nat /\ a <= r /\ Payload(w) = Window(S, a, r)
    <2>1. CASE Continuing
      <3>1. At(n) = a
        <4>1. At(n) = b + (HeaderSize + d)
          BY <1>1, <2>1 DEF At
        <4> QED
          BY <1>3, <1>5, <4>1
      <3> QED
        BY <1>1, <1>2, <2>1, <3>1, PacketIs, Standing DEF Payload
    <2>2. CASE ~Continuing
      <3>1. d = 0
        BY <1>1, <2>2 DEF Continuing, NoFrame
      <3>a. At(n) = b
        BY <1>1, <1>2, <2>2, HeaderThere
      <3>b. packet[w] = Window(S, b, r) /\ Len(packet[w]) = r - b
        BY <1>1, <1>2, <3>a, PacketIs
      <3>2. /\ At(n) = b /\ packet[w] = Window(S, b, r) /\ Len(packet[w]) = r - b /\ b <= r
        BY <1>1, <3>a, <3>b, Standing
      <3>3. HeaderSize \in 0 .. r - b
        BY <1>2, <1>3, <2>2, <3>2
      <3>4. SubSeq(Window(S, b, r), HeaderSize + 1, Len(Window(S, b, r))) = Window(S, b + HeaderSize, r)
        <4>1. PICK T : T = (0 .. Len(frames)) \X Nat
          OBVIOUS
        <4>2. S \in Seq(T) /\ r \in 0 .. Len(S) /\ b \in 0 .. r
          BY <1>3, <3>2, <4>1
        <4>3. PICK j \in 0 .. r - b : j = HeaderSize
          BY <3>3
        <4>4. SubSeq(Window(S, b, r), j + 1, Len(Window(S, b, r))) = Window(S, b + j, r)
          BY <4>2, WindowOfWindow
        <4> QED
          BY <4>3, <4>4
      <3>5. a = b + HeaderSize
        BY <1>3, <1>5, <3>1
      <3> QED
        BY <1>3, <2>2, <3>2, <3>3, <3>4, <3>5 DEF Payload
    <2> QED
      BY <2>1, <2>2
  <1>7. PICK t : t = Taken(w)
    OBVIOUS
  <1>8. /\ t \in 0 .. r - a /\ Len(Accumulated(w)) = d + t /\ Accumulated(w) \in Seq(Sendable)
        /\ d + t <= frames[n].length
    <2>1. Len(Window(S, a, r)) = r - a
      BY <1>3, <1>6 DEF Window
    <2>2. /\ Taken(w) \in 0 .. Len(Payload(w)) /\ Taken(w) <= Missing(w)
          /\ Missing(w) \in Nat /\ frames[FrameNumber(w)].length \in Nat
          /\ Accumulated(w) \in Seq(Sendable)
          /\ Len(Accumulated(w)) = Len(unfinished.data) + Taken(w)
      BY ReadTypes
    <2>3. d + t <= frames[n].length
      <3>1. PICK l : l = frames[n].length
        OBVIOUS
      <3>2. l \in Nat /\ Missing(w) = l - d
        BY <1>1, <1>4, <2>2, <3>1 DEF Missing
      <3>3. t \in Nat /\ t <= l - d
        BY <1>7, <2>2, <3>2
      <3>4. d + t <= l
        BY <1>3, <3>2, <3>3
      <3> QED
        BY <3>1, <3>4
    <2> QED
      BY <1>1, <1>6, <1>7, <2>1, <2>2, <2>3
  <1>9. Rest(w) = Window(S, a + t, r)
    <2>1. r \in 0 .. Len(S) /\ a \in 0 .. r
      BY <1>3, <1>6
    <2>2. SubSeq(Window(S, a, r), t + 1, Len(Window(S, a, r))) = Window(S, a + t, r)
      BY <1>3, <1>8, <2>1, WindowOfWindow
    <2> QED
      BY <1>6, <1>7, <2>2 DEF Rest
  <1>10. Accumulated(w) = unfinished.data \o Window(S, a, a + t)
    <2>1. r \in 0 .. Len(S) /\ a \in 0 .. r
      BY <1>3, <1>6
    <2>2. SubSeq(Window(S, a, r), 1, t) = Window(S, a, a + t)
      BY <1>3, <1>8, <2>1, WindowOfWindow
    <2> QED
      BY <1>6, <1>7, <2>2 DEF Accumulated
  <1>11. \A i \in 1 .. t : S[a + i] = <<n, HeaderSize + d + i>>
    <2> SUFFICES ASSUME NEW i \in 1 .. t PROVE S[a + i] = <<n, HeaderSize + d + i>>
      OBVIOUS
    <2>1. /\ \A k \in 1 .. Size(frames, n) : S[b + k] = <<n, k>>
          /\ Size(frames, n) = HeaderSize + frames[n].length
      <3>1. Laid(frames, S, Begin(frames)) /\ n \in 0 .. Len(frames)
        BY <1>1, <1>3, <1>4, Standing
      <3>2. Size(frames, n) = HeaderSize + frames[n].length
        BY <1>4 DEF Size
      <3>3. \A k \in 1 .. Size(frames, n) : S[Begin(frames)[n] + k] = <<n, k>>
        BY <3>1 DEF Laid
      <3> QED
        BY <1>1, <3>2, <3>3
    <2>2. /\ HeaderSize + d + i \in 1 .. Size(frames, n)
          /\ a + i = b + (HeaderSize + d + i)
      <3>1. frames[n].length \in Nat
        BY <1>4, ReadTypes
      <3>2. i \in Nat /\ i >= 1 /\ d + i <= frames[n].length
        BY <1>3, <1>8, <3>1
      <3> QED
        BY <1>3, <1>5, <2>1, <3>1, <3>2
    <2> QED
      BY <2>1, <2>2
  <1>12. Accumulated(w) = Units(n, HeaderSize + 1, HeaderSize + (d + t))
    <2>1. PICK A, D, W, U : /\ A = Accumulated(w) /\ D = unfinished.data /\ W = Window(S, a, a + t)
                            /\ U = Units(n, HeaderSize + 1, HeaderSize + (d + t))
      OBVIOUS
    <2>2. /\ W \in Seq(Sendable) /\ Len(W) = t
          /\ \A i \in 1 .. t : W[i] = <<n, HeaderSize + d + i>>
      <3>1. W \in Seq(Sendable)
        BY <1>3, <1>6, <1>8, <2>1 DEF Window, Sendable
      <3>2. Len(W) = t /\ \A i \in 1 .. t : W[i] = S[a + i]
        BY <1>3, <1>6, <1>8, <2>1 DEF Window
      <3> QED
        BY <1>11, <3>1, <3>2
    <2>3. /\ U \in Seq(Sendable) /\ Len(U) = d + t
          /\ \A i \in 1 .. d + t : U[i] = <<n, HeaderSize + i>>
      <3>1. n \in 0 .. Len(frames) /\ HeaderSize + 1 \in Nat /\ HeaderSize + (d + t) \in Nat
        BY <1>3, <1>4, <1>8
      <3>2. U \in Seq(Sendable)
        BY <1>3, <2>1, <3>1, UnitsType DEF Sendable
      <3>3. Len(U) = d + t /\ \A i \in 1 .. d + t : U[i] = <<n, HeaderSize + i>>
        <4>1. PICK k : k = d + t /\ k \in Nat
          BY <1>3, <1>8
        <4>2. /\ HeaderSize + k - (HeaderSize + 1) + 1 = k
              /\ \A i \in 1 .. k : HeaderSize + 1 + i - 1 = HeaderSize + i
          BY <4>1
        <4> QED
          BY <2>1, <4>1, <4>2 DEF Units
      <3> QED
        BY <3>2, <3>3
    <2>4. D \in Seq(Sendable) /\ Len(D) = d /\ \A i \in 1 .. d : D[i] = <<n, HeaderSize + i>>
      <3>1. CASE Continuing
        <4>1. D = Units(n, HeaderSize + 1, HeaderSize + d)
          BY <1>1, <2>1, <3>1 DEF InStep
        <4>2. \A i \in 1 .. d : D[i] = <<n, HeaderSize + i>>
          BY <1>3, <4>1 DEF Units
        <4> QED
          BY <1>1, <1>3, <2>1, <4>2
      <3>2. CASE ~Continuing
        <4>1. d = 0
          BY <1>1, <3>2 DEF Continuing, NoFrame
        <4> QED
          BY <1>1, <1>3, <2>1, <4>1
      <3> QED
        BY <3>1, <3>2
    <2>5. /\ A = D \o W /\ A \in Seq(Sendable) /\ Len(A) = d + t
          /\ \A i \in 1 .. d : A[i] = D[i]
          /\ \A i \in 1 .. t : A[d + i] = W[i]
      <3>1. A = D \o W /\ A \in Seq(Sendable) /\ Len(A) = d + t
        BY <1>8, <1>10, <2>1
      <3>2. \A i \in 1 .. Len(D) : A[i] = D[i]
        BY <2>2, <2>4, <3>1
      <3>3. \A i \in 1 .. Len(W) : A[Len(D) + i] = W[i]
        <4>1. D \in Seq(Sendable) /\ W \in Seq(Sendable)
          BY <2>2, <2>4
        <4> QED
          BY <3>1, <4>1
      <3> QED
        BY <2>2, <2>4, <3>1, <3>2, <3>3
    <2>6. ASSUME NEW i \in 1 .. d + t PROVE A[i] = U[i]
      <3>1. CASE i \in 1 .. d
        BY <2>3, <2>4, <2>5, <3>1
      <3>2. CASE i \notin 1 .. d
        <4>1. PICK j : j = i - d
          OBVIOUS
        <4>2. d \in Nat /\ t \in Nat
          BY <1>3, <1>8
        <4>3. j \in 1 .. t /\ i = d + j /\ HeaderSize + d + j = HeaderSize + i
          BY <3>2, <4>1, <4>2
        <4>4. A[i] = <<n, HeaderSize + i>>
          BY <2>2, <2>5, <4>3
        <4> QED
          BY <2>3, <4>4
      <3> QED
        BY <3>1, <3>2
    <2>7. A = U
      <3>1. Len(A) = Len(U) /\ \A i \in 1 .. Len(A) : A[i] = U[i]
        BY <2>3, <2>5, <2>6
      <3> QED
        BY <2>3, <2>5, <3>1, SeqEqual
    <2> QED
      BY <2>1, <2>7
  <1>13. b + HeaderSize + Len(Accumulated(w)) = a + t /\ a + t <= r
    BY <1>3, <1>5, <1>8
  <1> QED
    BY <1>1, <1>3, <1>4, <1>8, <1>9, <1>12, <1>13

(* A call of process, or the move of a request, leaves the connection in   *)
(* front of frame m, or within it.                                         *)
LEMMA StepsTo ==
  ASSUME Typed, NEW n, InStep(n), NEW w \in Worker, pc[w] # "read",
         UNCHANGED <<frames, wire, cut>>,
         NEW m \in 0 .. Len(frames) + 1, NEW a \in Nat, At(m)' = a, a <= Received,
         state' = StateAt(m),
         packet'[w] = Window(Sent(frames), a, Received),
         pc'[w] # "read", pc'[w] = "request" => request' # << >>,
         \A v \in Worker : v # w => pc'[v] = pc[v],
         Continuing' =>
            /\ m \in 1 .. Len(frames) /\ unfinished'.frame = m
            /\ unfinished'.data = Units(m, HeaderSize + 1, HeaderSize + Len(unfinished'.data))
  PROVE  InStep(m)'
  <1>1. Received' = Received /\ Sent(frames)' = Sent(frames)
    BY DEF Received
  <1>2. \A v \in Worker : v # w => pc'[v] = "read"
    BY DEF InStep
  <1>3. ~AllRead'
    BY DEF AllRead
  <1>4. m \in 0 .. Len(frames') + 1 /\ state' = StateAt(m) /\ Received' \in Nat
    BY <1>1 DEF InStep
  <1>5. (At(m) <= Received)' /\ wire' = Window(Sent(frames'), Received', Len(Sent(frames')))
    BY <1>1 DEF InStep
  <1>6. \A v \in Worker : pc'[v] # "read" => packet'[v] = Window(Sent(frames'), At(m)', Received')
    BY <1>1, <1>2
  <1>7. /\ \A u \in Worker, v \in Worker : pc'[u] # "read" /\ pc'[v] # "read" => u = v
        /\ \A v \in Worker : pc'[v] = "request" => request' # << >>
    BY <1>2
  <1>8. ~cut' /\ Received' < Len(Sent(frames')) => ~Splits(Sent(frames')[Received' + 1])
    BY <1>1 DEF InStep
  <1>9. Continuing' =>
            /\ m \in 1 .. Len(frames') /\ unfinished'.frame = m
            /\ unfinished'.data = Units(m, HeaderSize + 1, HeaderSize + Len(unfinished'.data))
    OBVIOUS
  <1> QED
    BY <1>3, <1>4, <1>5, <1>6, <1>7, <1>8, <1>9 DEF InStep

LEMMA ReceiveSync ==
  ASSUME Typed, NEW n, InStep(n), NEW w \in Worker, Receive(w), AllRead
  PROVE  InStep(n)'
  <1>1. PICK S, r : S = Sent(frames) /\ r = Received
    OBVIOUS
  <1>2. /\ S \in Seq((0 .. Len(frames)) \X Nat) /\ Len(S) \in Nat /\ r \in Nat /\ r <= Len(S)
        /\ Len(wire) = Len(S) - r /\ At(n) = r /\ wire = Window(S, r, Len(S))
    BY <1>1, Standing DEF InStep
  <1>3. PICK len \in 1 .. Len(wire) :
            /\ packet' = [packet EXCEPT ![w] = SubSeq(wire, 1, len)]
            /\ wire' = SubSeq(wire, len + 1, Len(wire))
            /\ cut' = (cut \/ (len < Len(wire) /\ Splits(wire[len + 1])))
    BY DEF Receive
  <1>4. PICK q : q = r + len
    OBVIOUS
  <1>5. q \in Nat /\ r <= q /\ q <= Len(S) /\ len \in Nat /\ len <= Len(S) - r
    BY <1>2, <1>3, <1>4
  <1>6. packet'[w] = Window(S, r, q) /\ wire' = Window(S, q, Len(S))
    <2>1. len \in 0 .. Len(S) - r /\ r \in 0 .. Len(S) /\ Len(S) \in 0 .. Len(S)
      BY <1>2, <1>5
    <2>2. /\ SubSeq(wire, len + 1, Len(wire)) = Window(S, r + len, Len(S))
          /\ SubSeq(wire, 1, len) = Window(S, r, r + len)
      <3>1. PICK T, c : T = (0 .. Len(frames)) \X Nat /\ c = Len(S)
        OBVIOUS
      <3>2. S \in Seq(T) /\ c \in 0 .. Len(S) /\ r \in 0 .. c /\ len \in 0 .. c - r
        BY <1>2, <2>1, <3>1
      <3>3. /\ SubSeq(Window(S, r, c), len + 1, Len(Window(S, r, c))) = Window(S, r + len, c)
            /\ SubSeq(Window(S, r, c), 1, len) = Window(S, r, r + len)
        BY <3>2, WindowOfWindow
      <3> QED
        BY <1>2, <3>1, <3>3
    <2>3. packet'[w] = SubSeq(wire, 1, len)
      BY <1>3 DEF Typed, ReadTyped
    <2> QED
      BY <1>3, <1>4, <2>2, <2>3
  <1>7. frames' = frames /\ state' = state /\ unfinished' = unfinished /\ request' = request
    BY DEF Receive, streamVars
  <1>8. Sent(frames)' = S /\ Received' = q
    <2>1. Len(wire') = Len(S) - q
      BY <1>2, <1>5, <1>6 DEF Window
    <2>2. Sent(frames') = S
      BY <1>1, <1>7
    <2>3. Received' = Len(S) - (Len(S) - q)
      BY <2>1, <2>2 DEF Received
    <2> QED
      BY <1>2, <1>5, <2>2, <2>3
  <1>9. At(n)' = r /\ Continuing' = Continuing
    BY <1>2, <1>7 DEF At, Continuing
  <1>10. \A v \in Worker : v # w => pc'[v] = "read"
    BY DEF Receive, AllRead, Typed, ReadTyped
  <1>11. pc'[w] = "process"
    BY DEF Receive, Typed, ReadTyped
  <1>12. ASSUME ~cut', q < Len(S) PROVE ~Splits(S[q + 1])
    <2>1. len < Len(wire) /\ len + 1 \in 1 .. Len(S) - r /\ r + (len + 1) = q + 1
      BY <1>2, <1>4, <1>5, <1>12
    <2>2. wire[len + 1] = S[r + (len + 1)]
      BY <1>2, <2>1 DEF Window
    <2> QED
      BY <1>3, <1>12, <2>1, <2>2
  <1>13. /\ n \in 0 .. Len(frames') + 1 /\ state' = StateAt(n) /\ Received' \in Nat
         /\ (At(n) <= Received)'
    BY <1>5, <1>7, <1>8, <1>9 DEF InStep
  <1>14. wire' = Window(Sent(frames'), Received', Len(Sent(frames')))
    BY <1>6, <1>8
  <1>15. \A v \in Worker : pc'[v] # "read" => packet'[v] = Window(Sent(frames'), At(n)', Received')
    BY <1>6, <1>8, <1>9, <1>10
  <1>16. /\ \A u \in Worker, v \in Worker : pc'[u] # "read" /\ pc'[v] # "read" => u = v
         /\ \A v \in Worker : pc'[v] = "request" => request' # << >>
         /\ ~AllRead'
    BY <1>10, <1>11 DEF AllRead
  <1>17. ~cut' /\ Received' < Len(Sent(frames')) => ~Splits(Sent(frames')[Received' + 1])
    BY <1>8, <1>12
  <1>18. Continuing' =>
            /\ n \in 1 .. Len(frames') /\ unfinished'.frame = n
            /\ unfinished'.data = Units(n, HeaderSize + 1, HeaderSize + Len(unfinished'.data))
    BY <1>7, <1>9 DEF InStep
  <1> QED
    BY <1>13, <1>14, <1>15, <1>16, <1>17, <1>18 DEF InStep

LEMMA PacketDoneSync ==
  ASSUME Typed, NEW n, InStep(n), NEW w \in Worker, PacketDone(w)
  PROVE  InStep(n)'
  <1>1. /\ UNCHANGED <<frames, wire, cut, state, unfinished, request>>
        /\ packet' = packet /\ packet[w] = << >> /\ pc[w] = "process"
    BY DEF PacketDone, netVars, streamVars
  <1>2. At(n) = Received
    <2>1. Len(packet[w]) = Received - At(n)
      BY <1>1, PacketIs
    <2>2. Len(packet[w]) = 0
      BY <1>1
    <2>3. At(n) \in Nat /\ Received \in Nat
      BY Standing
    <2> QED
      BY <2>1, <2>2, <2>3
  <1>3. \A v \in Worker : pc'[v] = "read"
    BY <1>1 DEF PacketDone, InStep, Typed, ReadTyped
  <1>4. At(n)' = At(n) /\ Received' = Received /\ Continuing' = Continuing
    BY <1>1 DEF At, Received, Continuing
  <1> QED
    BY <1>1, <1>2, <1>3, <1>4 DEF InStep

LEMMA MoveRequestSync ==
  ASSUME Typed, NEW n, InStep(n), NEW w \in Worker, MoveRequest(w)
  PROVE  InStep(n)'
  <1>1. /\ UNCHANGED <<frames, wire, cut, state, unfinished>>
        /\ packet' = packet /\ pc[w] = "request"
        /\ pc'[w] = "process" /\ \A v \in Worker : v # w => pc'[v] = pc[v]
    BY DEF MoveRequest, netVars, Typed, ReadTyped
  <1>2. At(n)' = At(n) /\ Continuing' = Continuing
    BY <1>1 DEF At, Continuing
  <1>3. PICK a : a = At(n)
    OBVIOUS
  <1>4. a \in Nat /\ a <= Received /\ n \in 0 .. Len(frames) + 1 /\ At(n)' = a
    BY <1>2, <1>3, Standing DEF InStep
  <1>5. packet'[w] = Window(Sent(frames), a, Received) /\ state' = StateAt(n)
    BY <1>1, <1>3 DEF InStep
  <1>6. Continuing' =>
            /\ n \in 1 .. Len(frames) /\ unfinished'.frame = n
            /\ unfinished'.data = Units(n, HeaderSize + 1, HeaderSize + Len(unfinished'.data))
    BY <1>1, <1>2 DEF InStep
  <1> QED
    BY <1>1, <1>4, <1>5, <1>6, StepsTo

(* Before a frame, and within its payload. *)
LEMMA BeginType ==
  ASSUME Typed, NEW m \in 0 .. Len(frames) + 1, UNCHANGED frames
  PROVE  /\ Begin(frames)[m] \in Nat
         /\ unfinished' = NoFrame => At(m)' = Begin(frames)[m] /\ ~Continuing'
  <1>1. frames \in Seq(Frame)
    BY DEF Typed, NetTyped
  <1>2. Begin(frames)[m] \in Nat
    BY <1>1, BeginIsLaid DEF Laid
  <1> QED
    BY <1>2 DEF At, Continuing

(* What Plain says of frame n. *)
LEMMA PlainFrame ==
  ASSUME Typed, Plain(frames), NEW n \in 1 .. Len(frames)
  PROVE  /\ frames[n] \in Frame /\ frames[n].valid /\ frames[n].length \in Nat
         /\ frames[n].length <= MaxFrameSize
         /\ n = 1 => frames[n].type = "SETTINGS"
  <1>1. frames \in Seq(Frame) /\ n \in DOMAIN frames
    BY DEF Typed, NetTyped
  <1>2. frames[n] \in Frame
    BY <1>1, ElementOfSeq
  <1> QED
    BY <1>1, <1>2 DEF Plain, Conforming, Frame

LEMMA PrefaceSync ==
  ASSUME Typed, NEW n, InStep(n), NEW w \in Worker, Preface(w)
  PROVE  n = 0 /\ InStep(1)'
  <1>1. n = 0
    BY DEF Preface, Processing, InStep, StateAt
  <1>2. /\ UNCHANGED <<frames, wire, cut, pc, unfinished, request>>
        /\ pc[w] = "process" /\ packet[w] # << >> /\ PrefaceArrived(w)
        /\ packet'[w] = SubSeq(packet[w], PrefaceSize + 1, Len(packet[w]))
        /\ state' = StateAt(1)
    BY DEF Preface, Processing, netVars, streamVars, Typed, ReadTyped, StateAt
  <1>3. At(0) = 0 /\ ~Continuing
    BY <1>1, <1>2, PrefaceThere
  <1>4. PICK S, r : S = Sent(frames) /\ r = Received
    OBVIOUS
  <1>5. /\ S \in Seq((0 .. Len(frames)) \X Nat) /\ r \in Nat /\ r \in 0 .. Len(S)
        /\ packet[w] = Window(S, 0, r) /\ Len(packet[w]) = r
    <2>1. /\ S \in Seq((0 .. Len(frames)) \X Nat) /\ r \in Nat /\ r <= Len(S)
      BY <1>4, Standing
    <2>2. packet[w] = Window(S, 0, r) /\ Len(packet[w]) = r - 0
      BY <1>1, <1>2, <1>3, <1>4, PacketIs
    <2> QED
      BY <2>1, <2>2
  <1>6. PrefaceSize <= r
    BY <1>2, <1>5 DEF PrefaceArrived
  <1>7. packet'[w] = Window(S, PrefaceSize, r)
    <2>1. PICK T, j : T = (0 .. Len(frames)) \X Nat /\ j = PrefaceSize
      OBVIOUS
    <2>2. S \in Seq(T) /\ 0 \in 0 .. r /\ j \in 0 .. r - 0
      BY <1>5, <1>6, <2>1
    <2>3. SubSeq(Window(S, 0, r), j + 1, Len(Window(S, 0, r))) = Window(S, 0 + j, r)
      BY <1>5, <2>2, WindowOfWindow
    <2>4. 0 + j = PrefaceSize
      BY <2>1
    <2> QED
      BY <1>2, <1>5, <2>1, <2>3, <2>4
  <1>8. /\ 1 \in 0 .. Len(frames) + 1 /\ At(1)' = PrefaceSize /\ ~Continuing'
    <2>1. frames \in Seq(Frame) /\ Len(frames) \in Nat /\ Laid(frames, S, Begin(frames))
      BY <1>4, Standing
    <2>2. Begin(frames)[1] = PrefaceSize
      <3>1. 0 \in 0 .. Len(frames) /\ Size(frames, 0) = PrefaceSize
        BY <2>1 DEF Size
      <3>2. Begin(frames)[0] = 0 /\ Begin(frames)[0 + 1] = Begin(frames)[0] + Size(frames, 0)
        BY <2>1, <3>1 DEF Laid
      <3> QED
        BY <3>1, <3>2
    <2>3. unfinished' = NoFrame
      BY <1>2, <1>3 DEF Continuing
    <2>4. 1 \in 0 .. Len(frames) + 1
      BY <2>1
    <2> QED
      BY <1>2, <2>2, <2>3, <2>4, BeginType
  <1>9. InStep(1)'
    <2>1. PrefaceSize \in Nat
      OBVIOUS
    <2> QED
      BY <1>2, <1>4, <1>6, <1>7, <1>8, <2>1, StepsTo
  <1> QED
    BY <1>1, <1>9

(* A frame that has been read to its end: the next one is expected.        *)
LEMMA ConsumeSync ==
  ASSUME Typed, Plain(frames), NEW n, InStep(n), NEW w \in Worker, NEW s, s # "CLIENT_PREFACE",
         FrameComplete(w, s), Consume(w), UNCHANGED <<frames, wire, cut>>,
         state' = "IDLE",
         pc'[w] # "read", pc'[w] = "request" => request' # << >>,
         \A v \in Worker : v # w => pc'[v] = pc[v]
  PROVE  InStep(n + 1)'
  <1>1. /\ n \in 1 .. Len(frames) /\ FrameNumber(w) = n /\ Len(frames) \in Nat
        /\ Len(Accumulated(w)) = frames[n].length /\ frames[n].length \in Nat
        /\ Begin(frames)[n] + HeaderSize + frames[n].length <= Received
        /\ Rest(w) = Window(Sent(frames), Begin(frames)[n] + HeaderSize + frames[n].length, Received)
    <2>1. FrameReadable(w, s)
      BY DEF FrameComplete
    <2>2. /\ n \in 1 .. Len(frames) /\ FrameNumber(w) = n
          /\ Len(Accumulated(w)) \in Nat
          /\ Len(Accumulated(w)) <= frames[n].length
          /\ Begin(frames)[n] + HeaderSize + Len(Accumulated(w)) <= Received
          /\ Rest(w) = Window(Sent(frames),
                             Begin(frames)[n] + HeaderSize + Len(Accumulated(w)), Received)
      BY <2>1, ReadSync
    <2>3. frames[n].length \in Nat /\ Len(frames) \in Nat
      BY <2>2, PlainFrame, Standing
    <2>4. Len(Accumulated(w)) >= frames[n].length
      BY <2>2 DEF FrameComplete
    <2>5. Len(Accumulated(w)) = frames[n].length
      BY <2>2, <2>3, <2>4
    <2> QED
      BY <2>2, <2>3, <2>5
  <1>2. PICK a : a = Begin(frames)[n + 1]
    OBVIOUS
  <1>3. /\ n + 1 \in 0 .. Len(frames) + 1 /\ a \in Nat
        /\ a = Begin(frames)[n] + HeaderSize + frames[n].length
    <2>1. Laid(frames, Sent(frames), Begin(frames))
      BY Standing
    <2>2. n \in 0 .. Len(frames) /\ n # 0 /\ Begin(frames)[n] \in Nat
      BY <1>1, Standing
    <2>3. Begin(frames)[n + 1] = Begin(frames)[n] + Size(frames, n)
      BY <2>1, <2>2 DEF Laid
    <2>4. Size(frames, n) = HeaderSize + frames[n].length
      BY <2>2 DEF Size
    <2> QED
      BY <1>1, <1>2, <2>2, <2>3, <2>4
  <1>4. a <= Received /\ packet'[w] = Window(Sent(frames), a, Received)
    <2>1. packet'[w] = Rest(w)
      BY DEF Consume, Typed, ReadTyped
    <2> QED
      BY <1>1, <1>3, <2>1
  <1>5. At(n + 1)' = a /\ ~Continuing'
    <2>1. unfinished' = NoFrame
      BY DEF Consume
    <2> QED
      BY <1>2, <1>3, <2>1, BeginType
  <1>6. state' = StateAt(n + 1)
    BY <1>1 DEF StateAt
  <1>7. pc[w] # "read"
    BY DEF FrameComplete, FrameReadable, Processing
  <1> QED
    BY <1>3, <1>4, <1>5, <1>6, <1>7, StepsTo

LEMMA IncompleteSync ==
  ASSUME Typed, NEW n, InStep(n), NEW w \in Worker, FrameIncomplete(w)
  PROVE  InStep(n)'
  <1>1. PICK s \in {"WAIT_CLIENT_SETTINGS", "IDLE"} : FrameReadable(w, s)
    BY DEF FrameIncomplete
  <1>2. PICK d : d = Len(Accumulated(w))
    OBVIOUS
  <1>3. /\ n \in 1 .. Len(frames) /\ FrameNumber(w) = n /\ d \in Nat
        /\ Accumulated(w) = Units(n, HeaderSize + 1, HeaderSize + d)
        /\ Begin(frames)[n] + HeaderSize + d <= Received
        /\ Rest(w) = Window(Sent(frames), Begin(frames)[n] + HeaderSize + d, Received)
    <2>1. s # "CLIENT_PREFACE"
      OBVIOUS
    <2> QED
      BY <1>1, <1>2, <2>1, ReadSync
  <1>4. /\ UNCHANGED <<frames, wire, cut, pc, state, request>>
        /\ packet'[w] = Rest(w) /\ unfinished' = [frame |-> n, data |-> Accumulated(w)]
        /\ pc[w] = "process"
    BY <1>1, <1>3 DEF FrameIncomplete, FrameReadable, Processing, netVars, streamVars, Typed, ReadTyped
  <1>5. Continuing' /\ unfinished'.frame = n /\ unfinished'.data = Accumulated(w)
    BY <1>3, <1>4 DEF Continuing, NoFrame
  <1>6. PICK a : a = Begin(frames)[n] + HeaderSize + d
    OBVIOUS
  <1>7. Begin(frames)[n] \in Nat /\ n \in 0 .. Len(frames) + 1
    BY Standing DEF InStep
  <1>8. At(n)' = a /\ a \in Nat
    <2>1. At(n)' = Begin(frames)[n] + (HeaderSize + d)
      BY <1>2, <1>4, <1>5 DEF At
    <2> QED
      BY <1>3, <1>6, <1>7, <2>1
  <1>9. state' = StateAt(n)
    BY <1>4 DEF InStep
  <1>10. unfinished'.data = Units(n, HeaderSize + 1, HeaderSize + Len(unfinished'.data))
    BY <1>2, <1>3, <1>5
  <1>11. a <= Received /\ packet'[w] = Window(Sent(frames), a, Received) /\ pc'[w] = "process"
    BY <1>3, <1>4, <1>6
  <1> QED
    BY <1>3, <1>4, <1>5, <1>7, <1>8, <1>9, <1>10, <1>11, StepsTo

(* Without a frame that is refused for its size, only what has been cut    *)
(* off is refused.                                                         *)
LEMMA RefusedIsCut ==
  ASSUME Typed, Plain(frames), NEW n, InStep(n), NEW w \in Worker, NEW s,
         s # "CLIENT_PREFACE", Processing(w, s), FrameRefused(w)
  PROVE  cut
  <1>1. n # 0 /\ pc[w] # "read" /\ packet[w] # << >> /\ ~Continuing
    BY DEF Processing, InStep, StateAt, FrameRefused
  <1>2. /\ n \in 1 .. Len(frames) /\ packet[w][1][1] = n
        /\ Len(packet[w]) < HeaderSize => cut
    BY <1>1, HeaderThere
  <1>3. FrameNumber(w) = n
    BY <1>1, <1>2 DEF FrameNumber
  <1>4. frames[n].length \in Nat /\ frames[n].length <= MaxFrameSize
    BY <1>2, PlainFrame
  <1>5. ~(frames[FrameNumber(w)].length > MaxFrameSize)
    BY <1>3, <1>4
  <1> QED
    BY <1>2, <1>5 DEF FrameRefused

LEMMA FinishBusy ==
  ASSUME NEW w, NEW s, NEW hs, NEW body, FinishStream(w, s, hs, body)
  PROVE  pc' = [pc EXCEPT ![w] = "request"] /\ request' # << >>
  BY DEF FinishStream

(* What a call of process, or of read, does to a connection in step, by    *)
(* the frames it has used up: none, the preface, or frame n.               *)
LEMMA StepInStep ==
  ASSUME Typed, Plain(frames), NEW n, InStep(n), ~Failed, NEW w \in Worker, OnRead(w), ~raced'
  PROVE  \/ InStep(n)' /\ ~Failed' /\ (Receive(w) \/ PacketDone(w) \/ MoveRequest(w) \/ FrameIncomplete(w))
         \/ n = 0 /\ InStep(1)' /\ ~Failed' /\ Preface(w)
         \/ n = 1 /\ InStep(2)' /\ ~Failed' /\ Settings(w)
         \/ n > 1 /\ InStep(n + 1)' /\ ~Failed' /\ (OtherFrame(w) \/ Headers(w) \/ Data(w))
         \/ Failed' /\ cut /\ cut' /\ UNCHANGED <<frames, handled>>
  <1>1. n \in 0 .. Len(frames) + 1 /\ Len(frames) \in Nat
    BY Standing DEF InStep
  <1>2. CASE Receive(w)
    <2>1. AllRead /\ ~Failed'
      BY <1>2 DEF Receive, Failed
    <2> QED
      BY <1>2, <2>1, ReceiveSync
  <1>3. CASE PacketDone(w)
    <2>1. ~Failed'
      BY <1>3 DEF PacketDone, Failed
    <2> QED
      BY <1>3, <2>1, PacketDoneSync
  <1>4. CASE MoveRequest(w)
    <2>1. ~Failed'
      BY <1>4 DEF MoveRequest, Failed
    <2> QED
      BY <1>4, <2>1, MoveRequestSync
  <1>5. CASE RequestGone(w)
    BY <1>5 DEF RequestGone, InStep
  <1>6. CASE Preface(w)
    <2>1. ~Failed'
      BY <1>6 DEF Preface, Failed
    <2> QED
      BY <1>6, <2>1, PrefaceSync
  <1>7. CASE PrefaceInvalid(w)
    <2>1. n = 0 /\ pc[w] # "read" /\ packet[w] # << >> /\ ~PrefaceArrived(w)
      BY <1>7 DEF PrefaceInvalid, Processing, InStep, StateAt
    <2>2. cut
      BY <2>1, PrefaceThere
    <2>3. Failed' /\ UNCHANGED <<frames, handled, cut>>
      BY <1>7 DEF PrefaceInvalid, Throw, Failed, netVars
    <2> QED
      BY <2>2, <2>3
  <1>8. CASE Settings(w)
    <2>1. FrameComplete(w, "WAIT_CLIENT_SETTINGS") /\ FrameReadable(w, "WAIT_CLIENT_SETTINGS")
      BY <1>8 DEF Settings, FrameComplete
    <2>2. n \in 1 .. Len(frames) /\ FrameNumber(w) = n
      BY <2>1, ReadSync
    <2>3. n = 1
      BY <2>1, <2>2 DEF FrameReadable, Processing, InStep, StateAt
    <2>4. frames[n].valid
      BY <2>2, PlainFrame
    <2>5. /\ Consume(w) /\ UNCHANGED <<frames, wire, cut, pc, closed, lost, request>>
          /\ state' = "IDLE" /\ pc[w] = "process"
      BY <1>8, <2>1, <2>2, <2>4 DEF Settings, netVars, streamVars, FrameReadable, Processing
    <2>6. ~Failed'
      BY <2>5 DEF Failed
    <2>7. InStep(n + 1)'
      BY <2>1, <2>5, ConsumeSync
    <2>8. n + 1 = 2
      BY <2>3
    <2> QED
      BY <1>8, <2>3, <2>6, <2>7, <2>8
  <1>9. CASE SettingsMissing(w)
    <2>1. Failed' /\ UNCHANGED <<frames, handled, cut>>
      BY <1>9 DEF SettingsMissing, Throw, Failed, netVars
    <2>2. CASE Processing(w, "WAIT_CLIENT_SETTINGS") /\ FrameRefused(w)
      BY <2>1, <2>2, RefusedIsCut
    <2>3. CASE FrameComplete(w, "WAIT_CLIENT_SETTINGS") /\ frames[FrameNumber(w)].type # "SETTINGS"
      <3>1. FrameReadable(w, "WAIT_CLIENT_SETTINGS")
        BY <2>3 DEF FrameComplete
      <3>2. n \in 1 .. Len(frames) /\ FrameNumber(w) = n
        BY <3>1, ReadSync
      <3>3. n = 1
        BY <3>1, <3>2 DEF FrameReadable, Processing, InStep, StateAt
      <3> QED
        BY <2>3, <3>2, <3>3, PlainFrame
    <2> QED
      BY <1>9, <2>2, <2>3 DEF SettingsMissing
  <1>10. CASE FrameIncomplete(w)
    <2>1. ~Failed'
      BY <1>10 DEF FrameIncomplete, Failed
    <2> QED
      BY <1>10, <2>1, IncompleteSync
  <1>11. CASE Garbled(w)
    <2>1. n # 0 /\ pc[w] # "read" /\ ~Continuing /\ Len(packet[w]) >= HeaderSize /\ ~HeaderArrived(w)
      BY <1>11 DEF Garbled, InStep, StateAt
    <2>2. packet[w] # << >>
      BY <2>1, EmptySeq
    <2> QED
      BY <2>1, <2>2, HeaderThere
  <1>12. CASE Exit(w)
    <2>1. Failed' /\ UNCHANGED <<frames, handled, cut>>
      BY <1>12 DEF Exit, Failed, netVars
    <2>2. Processing(w, "IDLE") /\ FrameRefused(w)
      BY <1>12 DEF Exit
    <2> QED
      BY <2>1, <2>2, RefusedIsCut
  <1>13. ASSUME FrameComplete(w, "IDLE")
         PROVE  /\ n > 1 /\ n \in 1 .. Len(frames) /\ FrameNumber(w) = n
                /\ frames[n].valid /\ pc[w] = "process" /\ state = "IDLE"
    <2>1. FrameReadable(w, "IDLE")
      BY <1>13 DEF FrameComplete
    <2>2. n \in 1 .. Len(frames) /\ FrameNumber(w) = n
      BY <2>1, ReadSync
    <2>3. n # 1 /\ pc[w] = "process" /\ state = "IDLE"
      BY <2>1 DEF FrameReadable, Processing, InStep, StateAt
    <2> QED
      BY <1>1, <2>2, <2>3, PlainFrame
  <1>14. CASE OtherFrame(w)
    <2>1. FrameComplete(w, "IDLE")
      BY <1>14 DEF OtherFrame
    <2>2. /\ Consume(w) /\ UNCHANGED <<frames, wire, cut, pc, closed, lost, request>>
          /\ state' = "IDLE" /\ pc[w] = "process" /\ n > 1
      BY <1>13, <1>14, <2>1 DEF OtherFrame, netVars, streamVars
    <2>3. ~Failed'
      BY <2>2 DEF Failed
    <2> QED
      BY <1>14, <2>1, <2>2, <2>3, ConsumeSync
  <1>15. CASE Headers(w)
    <2>1. FrameComplete(w, "IDLE")
      BY <1>15 DEF Headers
    <2>2. /\ Consume(w) /\ UNCHANGED <<frames, wire, cut, closed, lost>>
          /\ state' = "IDLE" /\ pc[w] = "process" /\ n > 1
      BY <1>13, <1>15, <2>1 DEF Headers, netVars
    <2>3. pc' = pc \/ (pc' = [pc EXCEPT ![w] = "request"] /\ request' # << >>)
      <3>1. CASE (frames[FrameNumber(w)].endHeaders \/ frames[FrameNumber(w)].endStream)
                 /\ frames[FrameNumber(w)].endStream
        BY <1>15, <3>1, FinishBusy DEF Headers
      <3>2. CASE ~((frames[FrameNumber(w)].endHeaders \/ frames[FrameNumber(w)].endStream)
                   /\ frames[FrameNumber(w)].endStream)
        BY <1>15, <3>2 DEF Headers
      <3> QED
        BY <3>1, <3>2
    <2>4. /\ pc'[w] # "read"
          /\ pc'[w] = "request" => request' # << >>
          /\ \A v \in Worker : v # w => pc'[v] = pc[v]
      BY <2>2, <2>3 DEF Typed, ReadTyped
    <2>5. ~Failed'
      BY <2>2 DEF Failed
    <2> QED
      BY <1>15, <2>1, <2>2, <2>4, <2>5, ConsumeSync
  <1>16. CASE HeadersInvalid(w)
    BY <1>13, <1>16 DEF HeadersInvalid
  <1>17. CASE Data(w)
    <2>1. FrameComplete(w, "IDLE")
      BY <1>17 DEF Data
    <2>2. /\ Consume(w) /\ UNCHANGED <<frames, wire, cut, closed, lost>>
          /\ state' = "IDLE" /\ pc[w] = "process" /\ n > 1
      BY <1>13, <1>17, <2>1 DEF Data, netVars
    <2>3. pc' = pc \/ (pc' = [pc EXCEPT ![w] = "request"] /\ request' # << >>)
      <3>1. CASE frames[FrameNumber(w)].endStream
        BY <1>17, <3>1, FinishBusy DEF Data
      <3>2. CASE ~frames[FrameNumber(w)].endStream
        BY <1>17, <3>2 DEF Data
      <3> QED
        BY <3>1, <3>2
    <2>4. /\ pc'[w] # "read"
          /\ pc'[w] = "request" => request' # << >>
          /\ \A v \in Worker : v # w => pc'[v] = pc[v]
      BY <2>2, <2>3 DEF Typed, ReadTyped
    <2>5. ~Failed'
      BY <2>2 DEF Failed
    <2> QED
      BY <1>17, <2>1, <2>2, <2>4, <2>5, ConsumeSync
  <1> QED
    BY <1>2, <1>3, <1>4, <1>5, <1>6, <1>7, <1>8, <1>9, <1>10, <1>11, <1>12,
       <1>14, <1>15, <1>16, <1>17 DEF OnRead

(* Failures, cuts and races are not undone. *)
LEMMA Lasting ==
  ASSUME Typed, NEW w \in Worker, OnRead(w)
  PROVE  /\ frames' = frames /\ (raced => raced') /\ (cut => cut')
         /\ Failed => Failed'
  <1> USE DEF netVars, Throw
  <1>1. frames' = frames /\ (raced => raced') /\ (cut => cut')
    <2>1. CASE Receive(w)
      <3>1. PICK x \in BOOLEAN : cut' = (cut \/ x)
        <4>1. PICK len \in 1 .. Len(wire) :
                cut' = (cut \/ (len < Len(wire) /\ Splits(wire[len + 1])))
          BY <2>1 DEF Receive
        <4>2. PICK x : x = (len < Len(wire) /\ Splits(wire[len + 1]))
          OBVIOUS
        <4>3. x \in BOOLEAN /\ cut' = (cut \/ x)
          BY <4>1, <4>2
        <4> QED
          BY <4>3
      <3> QED
        BY <2>1, <3>1, Zenon DEF Receive
    <2>2. CASE ~Receive(w)
      <3>1. UNCHANGED netVars
        BY <2>2 DEF OnRead, PacketDone, MoveRequest, RequestGone, Preface, PrefaceInvalid,
               Settings, SettingsMissing, FrameIncomplete, Garbled, Exit, OtherFrame, Headers,
               HeadersInvalid, Data
      <3> QED
        BY <3>1
    <2> QED
      BY <2>1, <2>2
  <1>2. (closed => closed') /\ (lost # "no" => lost' # "no")
    BY DEF OnRead, Receive, PacketDone, MoveRequest, RequestGone, Preface, PrefaceInvalid,
           Settings, SettingsMissing, FrameIncomplete, Garbled, Exit, OtherFrame, Headers,
           HeadersInvalid, Data
  <1> QED
    BY <1>1, <1>2 DEF Failed

LEMMA SyncStep == Typed /\ SyncInv /\ [Next]_vars => SyncInv'
  <1> SUFFICES ASSUME Typed, SyncInv, [Next]_vars PROVE SyncInv'
    OBVIOUS
  <1>1. ASSUME UNCHANGED vars PROVE SyncInv'
    <2>1. UNCHANGED <<frames, wire, cut, raced, pc, packet, state, unfinished, request, closed, lost>>
      BY <1>1 DEF vars, netVars, streamVars
    <2>2. /\ AllRead' = AllRead /\ Received' = Received /\ Failed' = Failed
          /\ Continuing' = Continuing /\ \A n : At(n)' = At(n)
      BY <2>1 DEF AllRead, Received, Failed, Continuing, At
    <2>3. \A n : InStep(n)' <=> InStep(n)
      BY <2>1, <2>2 DEF InStep
    <2> QED
      BY <2>1, <2>2, <2>3 DEF SyncInv
  <1>2. ASSUME NEW w \in Worker, OnRead(w) PROVE SyncInv'
    <2> SUFFICES ASSUME Plain(frames)', ~raced' PROVE (IF Failed THEN cut ELSE \E n : InStep(n))'
      BY DEF SyncInv
    <2>1. Plain(frames) /\ ~raced
      BY <1>2, Lasting
    <2>2. CASE Failed
      BY <1>2, <2>1, <2>2, Lasting DEF SyncInv
    <2>3. CASE ~Failed
      <3>1. PICK n : InStep(n)
        BY <2>1, <2>3 DEF SyncInv
      <3>2. (Failed' /\ cut') \/ (~Failed' /\ \E m : InStep(m)')
        BY <1>2, <2>1, <2>3, <3>1, StepInStep
      <3> QED
        BY <3>2
    <2> QED
      BY <2>2, <2>3
  <1> QED
    BY <1>1, <1>2 DEF Next, Quiet

(* A peer that keeps to the protocol makes the connection fail only by a   *)
(* packet that ends within a header or the preface, whatever the workers,  *)
(* the packets and the frames are: read_frame continues every payload.     *)
THEOREM OnlyCutsMakeItFail == Spec => []OnlyCutsFail
  <1>1. Init => Typed /\ SyncInv
    BY TypedInit, SyncInit
  <1>2. Typed /\ SyncInv /\ [Next]_vars => Typed' /\ SyncInv'
    BY TypedStep, SyncStep
  <1>3. SyncInv => OnlyCutsFail
    BY DEF SyncInv, OnlyCutsFail, Failed
  <1> QED
    BY <1>1, <1>2, <1>3, PTL DEF Spec
-----------------------------------------------------------------------------
(* What the frames of a Plain peer are to each other.                      *)
Speaks(f) == f.type \in {"HEADERS", "DATA"}

RequestParts(fs) ==
    [n \in DOMAIN fs |-> IF Ends(fs[n]) THEN <<RequestAt(fs, n)>> ELSE << >>]

LEMMA PartsTypes ==
  ASSUME NEW fs \in Seq(Frame)
  PROVE  /\ \A s : /\ BlockParts(fs, s) \in Seq(Seq(Nat)) /\ Len(BlockParts(fs, s)) = Len(fs)
                   /\ BodyParts(fs, s) \in Seq(Seq(UnitSet)) /\ Len(BodyParts(fs, s)) = Len(fs)
         /\ RequestParts(fs) \in Seq(Seq(Request)) /\ Len(RequestParts(fs)) = Len(fs)
  <1>1. /\ DOMAIN fs = 1 .. Len(fs) /\ Len(fs) \in Nat
        /\ \A n \in DOMAIN fs : fs[n] \in Frame /\ fs[n].length \in Nat /\ fs[n].stream \in Stream
    <2>1. DOMAIN fs = 1 .. Len(fs) /\ Len(fs) \in Nat
      OBVIOUS
    <2>2. \A n \in DOMAIN fs : fs[n] \in Frame
      BY <2>1, ElementOfSeq
    <2> QED
      BY <2>1, <2>2 DEF Frame
  <1>2. ASSUME NEW s
        PROVE  BlockParts(fs, s) \in Seq(Seq(Nat)) /\ Len(BlockParts(fs, s)) = Len(fs)
    <2>1. PICK T : T = Seq(Nat)
      OBVIOUS
    <2>2. \A n \in 1 .. Len(fs) : <<n>> \in T /\ << >> \in T
      BY <2>1, EmptySeq
    <2>3. BlockParts(fs, s) \in [1 .. Len(fs) -> T]
      BY <1>1, <2>2 DEF BlockParts
    <2>4. BlockParts(fs, s) \in Seq(T) /\ Len(BlockParts(fs, s)) = Len(fs)
      BY <1>1, <2>3
    <2> QED
      BY <2>1, <2>4
  <1>3. ASSUME NEW s
        PROVE  BodyParts(fs, s) \in Seq(Seq(UnitSet)) /\ Len(BodyParts(fs, s)) = Len(fs)
    <2>1. PICK T : T = Seq(UnitSet)
      OBVIOUS
    <2>2. ASSUME NEW n \in 1 .. Len(fs)
          PROVE  Units(n, HeaderSize + 1, HeaderSize + fs[n].length) \in T /\ << >> \in T
      <3>1. PICK m \in Nat : m = Len(fs)
        BY <1>1
      <3>2. n \in 0 .. m /\ HeaderSize + 1 \in Nat /\ HeaderSize + fs[n].length \in Nat
        BY <1>1, <3>1
      <3>3. Units(n, HeaderSize + 1, HeaderSize + fs[n].length) \in Seq((0 .. m) \X Nat)
        BY <3>1, <3>2, UnitsType
      <3>4. (0 .. m) \X Nat \subseteq UnitSet
        BY DEF UnitSet
      <3>5. Seq((0 .. m) \X Nat) \subseteq Seq(UnitSet)
        BY <3>4, SeqMonotonic
      <3>6. << >> \in Seq(UnitSet)
        BY EmptySeq
      <3> QED
        BY <2>1, <3>3, <3>5, <3>6
    <2>3. BodyParts(fs, s) \in [1 .. Len(fs) -> T]
      BY <1>1, <2>2 DEF BodyParts
    <2>4. BodyParts(fs, s) \in Seq(T) /\ Len(BodyParts(fs, s)) = Len(fs)
      BY <1>1, <2>3
    <2> QED
      BY <2>1, <2>4
  <1>4. RequestParts(fs) \in Seq(Seq(Request)) /\ Len(RequestParts(fs)) = Len(fs)
    <2>1. PICK T : T = Seq(Request)
      OBVIOUS
    <2>2. ASSUME NEW n \in 1 .. Len(fs) PROVE <<RequestAt(fs, n)>> \in T /\ << >> \in T
      <3>1. /\ FlattenSeq(BlockParts(fs, fs[n].stream)) \in Seq(Nat)
            /\ FlattenSeq(BodyParts(fs, fs[n].stream)) \in Seq(UnitSet)
        BY <1>2, <1>3, FlattenType
      <3>2. RequestAt(fs, n) \in Request
        BY <1>1, <3>1 DEF RequestAt, Request
      <3> QED
        BY <2>1, <3>2, EmptySeq
    <2>3. RequestParts(fs) \in [1 .. Len(fs) -> T]
      BY <1>1, <2>2 DEF RequestParts
    <2>4. RequestParts(fs) \in Seq(T) /\ Len(RequestParts(fs)) = Len(fs)
      BY <1>1, <2>3
    <2> QED
      BY <2>1, <2>4
  <1> QED
    BY <1>2, <1>3, <1>4

LEMMA ContinuationFollows ==
  ASSUME NEW fs \in Seq(Frame), Plain(fs), NEW n \in DOMAIN fs, fs[n].type = "CONTINUATION"
  PROVE  /\ n - 1 \in DOMAIN fs /\ IsBlock(fs[n - 1]) /\ ~fs[n - 1].endHeaders
         /\ fs[n - 1].stream = fs[n].stream /\ ~fs[n].endStream
  <1>1. BlocksAreWhole(fs) /\ DOMAIN fs = 1 .. Len(fs) /\ Len(fs) \in Nat
    BY DEF Plain, Conforming
  <1>2. n > 1 /\ IsBlock(fs[n - 1]) /\ ~fs[n - 1].endHeaders /\ ~fs[n].endStream
    BY <1>1 DEF BlocksAreWhole
  <1>3. PICK m : m = n - 1
    OBVIOUS
  <1>4. m \in DOMAIN fs /\ m + 1 = n
    BY <1>1, <1>2, <1>3
  <1>5. fs[m + 1].stream = fs[m].stream
    BY <1>1, <1>2, <1>3, <1>4 DEF BlocksAreWhole
  <1> QED
    BY <1>2, <1>3, <1>4, <1>5

LEMMA OpenFollows ==
  ASSUME NEW fs \in Seq(Frame), Plain(fs), NEW n \in DOMAIN fs, IsBlock(fs[n]), ~fs[n].endHeaders
  PROVE  /\ n + 1 \in DOMAIN fs /\ fs[n + 1].type = "CONTINUATION"
         /\ fs[n + 1].stream = fs[n].stream
  BY DEF Plain, Conforming, BlocksAreWhole

LEMMA SpeaksInOrder ==
  ASSUME NEW fs \in Seq(Frame), Plain(fs), NEW n \in DOMAIN fs, Speaks(fs[n])
  PROVE  /\ \A m \in 1 .. n - 1 : fs[m].stream = fs[n].stream => ~Ends(fs[m])
         /\ fs[n].type = "DATA" =>
              \E m \in 1 .. n - 1 : fs[m].stream = fs[n].stream /\ Speaks(fs[m])
         /\ fs[n].type = "HEADERS" =>
              /\ fs[n].pseudo /\ (fs[n].endStream => fs[n].endHeaders)
              /\ \A m \in 1 .. n - 1 : fs[m].stream = fs[n].stream => ~Speaks(fs[m])
  <1>1. PICK before : before = {m \in 1 .. n - 1 : fs[m].stream = fs[n].stream
                                                  /\ fs[m].type \in {"HEADERS", "DATA"}}
    OBVIOUS
  <1>2. StreamsAreOrdered(fs) /\ ~HasTrailers(fs) /\ ~EndsEarly(fs)
    BY DEF Plain, Conforming
  <1>3. /\ \A m \in before : ~fs[m].endStream
        /\ fs[n].type = "DATA" => before # {}
        /\ fs[n].type = "HEADERS" => (fs[n].pseudo <=> before = {})
    BY <1>1, <1>2 DEF StreamsAreOrdered, Speaks
  <1>4. fs[n].type = "HEADERS" => fs[n].pseudo /\ (fs[n].endStream => fs[n].endHeaders)
    BY <1>2 DEF HasTrailers, EndsEarly
  <1>5. \A m \in 1 .. n - 1 : fs[m].stream = fs[n].stream => ~Ends(fs[m])
    BY <1>1, <1>3 DEF Ends
  <1>6. fs[n].type = "DATA" =>
              \E m \in 1 .. n - 1 : fs[m].stream = fs[n].stream /\ Speaks(fs[m])
    BY <1>1, <1>3 DEF Speaks
  <1>7. fs[n].type = "HEADERS" =>
              \A m \in 1 .. n - 1 : fs[m].stream = fs[n].stream => ~Speaks(fs[m])
    <2> SUFFICES ASSUME fs[n].type = "HEADERS", NEW m \in 1 .. n - 1,
                        fs[m].stream = fs[n].stream, Speaks(fs[m])
                 PROVE  FALSE
      OBVIOUS
    <2>1. m \in before
      BY <1>1 DEF Speaks
    <2>2. before = {}
      BY <1>3, <1>4
    <2> QED
      BY <2>1, <2>2
  <1> QED
    BY <1>4, <1>5, <1>6, <1>7

(* A header block begins with its HEADERS frame, before which the stream   *)
(* has no frame that carries one.                                          *)
LEMMA NoBlockBefore ==
  ASSUME NEW fs \in Seq(Frame), Plain(fs), NEW n \in DOMAIN fs, fs[n].type = "HEADERS"
  PROVE  EmptyBetween(BlockParts(fs, fs[n].stream), 0, n - 1)
  <1> DEFINE Bad == {m \in 1 .. n - 1 : fs[m].stream = fs[n].stream /\ IsBlock(fs[m])}
  <1>1. DOMAIN fs = 1 .. Len(fs) /\ Len(fs) \in Nat
    OBVIOUS
  <1>2. Bad = {}
    <2> SUFFICES ASSUME Bad # {} PROVE FALSE
      OBVIOUS
    <2>1. PICK m \in Bad : \A j \in Bad : m <= j
      <3>1. Bad \in SUBSET Nat
        BY <1>1
      <3> HIDE DEF Bad
      <3> QED
        BY <3>1, LeastNatural
    <2>2. m \in 1 .. n - 1 /\ fs[m].stream = fs[n].stream /\ IsBlock(fs[m]) /\ m \in DOMAIN fs
      BY <1>1
    <2>3. fs[m].type = "CONTINUATION"
      <3>1. ~Speaks(fs[m])
        BY <2>2, SpeaksInOrder DEF Speaks
      <3> QED
        BY <2>2, <3>1 DEF IsBlock, Speaks
    <2>4. m - 1 \in DOMAIN fs /\ IsBlock(fs[m - 1]) /\ fs[m - 1].stream = fs[m].stream
      BY <2>2, <2>3, ContinuationFollows
    <2>5. m - 1 \in Bad /\ ~(m <= m - 1)
      BY <1>1, <2>2, <2>4
    <2> QED
      BY <2>1, <2>5
  <1>3. ASSUME NEW m \in 1 .. n - 1 PROVE BlockParts(fs, fs[n].stream)[m] = << >>
    <2>1. m \in DOMAIN fs /\ m \notin Bad
      BY <1>1, <1>2
    <2> QED
      BY <2>1 DEF BlockParts
  <1> QED
    BY <1>3 DEF EmptyBetween

(* Nothing of a stream follows its end. *)
LEMMA NothingAfter ==
  ASSUME NEW fs \in Seq(Frame), Plain(fs), NEW n \in DOMAIN fs, Ends(fs[n])
  PROVE  /\ EmptyBetween(BlockParts(fs, fs[n].stream), n, Len(fs))
         /\ EmptyBetween(BodyParts(fs, fs[n].stream), n, Len(fs))
  <1> DEFINE Bad == {m \in n + 1 .. Len(fs) : fs[m].stream = fs[n].stream
                                             /\ (IsBlock(fs[m]) \/ fs[m].type = "DATA")}
  <1>1. DOMAIN fs = 1 .. Len(fs) /\ Len(fs) \in Nat /\ n \in Nat
    OBVIOUS
  <1>2. Bad = {}
    <2> SUFFICES ASSUME Bad # {} PROVE FALSE
      OBVIOUS
    <2>1. PICK m \in Bad : \A j \in Bad : m <= j
      <3>1. Bad \in SUBSET Nat
        BY <1>1
      <3> HIDE DEF Bad
      <3> QED
        BY <3>1, LeastNatural
    <2>2. /\ m \in n + 1 .. Len(fs) /\ fs[m].stream = fs[n].stream /\ m \in DOMAIN fs
          /\ IsBlock(fs[m]) \/ fs[m].type = "DATA"
      BY <1>1
    <2>3. fs[m].type = "CONTINUATION"
      <3>1. n \in 1 .. m - 1
        BY <1>1, <2>2
      <3>2. ~Speaks(fs[m])
        BY <2>2, <3>1, SpeaksInOrder
      <3> QED
        BY <2>2, <3>2 DEF IsBlock, Speaks
    <2>4. /\ m - 1 \in DOMAIN fs /\ IsBlock(fs[m - 1]) /\ ~fs[m - 1].endHeaders
          /\ fs[m - 1].stream = fs[m].stream
      BY <2>2, <2>3, ContinuationFollows
    <2>5. CASE m - 1 = n
      <3>1. Speaks(fs[n]) /\ fs[n].endStream /\ IsBlock(fs[n]) /\ ~fs[n].endHeaders
        BY <2>4, <2>5 DEF Ends, Speaks
      <3>2. fs[n].type = "HEADERS"
        BY <3>1 DEF Speaks, IsBlock
      <3> QED
        BY <3>1, <3>2, SpeaksInOrder
    <2>6. CASE m - 1 # n
      <3>1. m - 1 \in Bad /\ ~(m <= m - 1)
        BY <1>1, <2>2, <2>4, <2>6
      <3> QED
        BY <2>1, <3>1
    <2> QED
      BY <2>5, <2>6
  <1>3. ASSUME NEW m \in n + 1 .. Len(fs)
        PROVE  /\ BlockParts(fs, fs[n].stream)[m] = << >>
               /\ BodyParts(fs, fs[n].stream)[m] = << >>
    <2>1. m \in DOMAIN fs /\ m \notin Bad
      BY <1>1, <1>2
    <2> QED
      BY <2>1 DEF BlockParts, BodyParts
  <1> QED
    BY <1>3 DEF EmptyBetween

(* The block of a stream that has data has the fields of a request. *)
LEMMA PseudoThere ==
  ASSUME NEW fs \in Seq(Frame), Plain(fs), NEW n \in DOMAIN fs, fs[n].type = "DATA"
  PROVE  LET hs == FlattenSeq(BlockParts(fs, fs[n].stream))
         IN  \E i \in DOMAIN hs : fs[hs[i]].pseudo
  <1> DEFINE Before == {m \in 1 .. n - 1 : fs[m].stream = fs[n].stream /\ Speaks(fs[m])}
  <1>1. DOMAIN fs = 1 .. Len(fs) /\ Len(fs) \in Nat /\ n \in Nat
    OBVIOUS
  <1>2. PICK m \in Before : fs[m].type = "HEADERS"
    <2>1. Before # {}
      BY SpeaksInOrder DEF Speaks
    <2>2. PICK m \in Before : \A j \in Before : m <= j
      <3>1. Before \in SUBSET Nat
        BY <1>1
      <3> HIDE DEF Before
      <3> QED
        BY <2>1, <3>1, LeastNatural
    <2>3. m \in DOMAIN fs /\ fs[m].stream = fs[n].stream /\ Speaks(fs[m]) /\ m \in 1 .. n - 1
      BY <1>1
    <2>4. ASSUME fs[m].type = "DATA" PROVE FALSE
      <3>1. PICK j \in 1 .. m - 1 : fs[j].stream = fs[m].stream /\ Speaks(fs[j])
        BY <2>3, <2>4, SpeaksInOrder
      <3>2. j \in Before /\ ~(m <= j)
        BY <1>1, <2>3, <3>1
      <3> QED
        BY <2>2, <3>2
    <2>5. fs[m].type = "HEADERS"
      BY <2>3, <2>4 DEF Speaks
    <2> QED
      BY <2>2, <2>5
  <1>3. m \in DOMAIN fs /\ fs[m].pseudo /\ fs[m].stream = fs[n].stream
    <2>1. m \in DOMAIN fs /\ Speaks(fs[m]) /\ fs[m].stream = fs[n].stream
      BY <1>1
    <2> QED
      BY <1>2, <2>1, SpeaksInOrder
  <1>4. PICK parts, hs, before : /\ parts = BlockParts(fs, fs[n].stream)
                                 /\ hs = FlattenSeq(parts)
                                 /\ before = Len(FirstParts(parts, m - 1))
    OBVIOUS
  <1>5. /\ parts \in Seq(Seq(Nat)) /\ Len(parts) = Len(fs) /\ m \in 1 .. Len(parts)
        /\ m - 1 \in 0 .. Len(parts)
    <2>1. fs[n].stream \in Stream
      <3>1. fs[n] \in Frame
        BY ElementOfSeq
      <3> QED
        BY <3>1 DEF Frame
    <2>2. parts \in Seq(Seq(Nat)) /\ Len(parts) = Len(fs)
      BY <1>4, <2>1, PartsTypes
    <2>3. m \in 1 .. Len(fs) /\ Len(fs) \in Nat
      BY <1>3
    <2> QED
      BY <2>2, <2>3
  <1>6. parts[m] = <<m>>
    BY <1>2, <1>3, <1>4 DEF BlockParts, IsBlock
  <1>7. hs \in Seq(Nat) /\ before \in Nat /\ HasAt(hs, before, <<m>>)
    <2>1. hs \in Seq(Nat)
      BY <1>4, <1>5, FlattenType
    <2>2. before \in Nat
      BY <1>4, <1>5, FirstPartsType
    <2>3. HasAt(FlattenSeq(parts), Len(FirstParts(parts, m - 1)), parts[m])
      BY <1>5, PartIsAt
    <2> QED
      BY <1>4, <1>6, <2>1, <2>2, <2>3
  <1>8. before + 1 \in DOMAIN hs /\ hs[before + 1] = m
    <2>1. Len(<<m>>) = 1 /\ <<m>>[1] = m
      OBVIOUS
    <2>2. before + 1 <= Len(hs) /\ hs[before + 1] = m
      BY <1>7, <2>1 DEF HasAt
    <2> QED
      BY <1>7, <2>2
  <1>9. \E i \in DOMAIN hs : fs[hs[i]].pseudo
    BY <1>3, <1>8
  <1> QED
    BY <1>4, <1>9
-----------------------------------------------------------------------------
(* What the connection holds once it has used up the first k frames.       *)
Done(n) == IF n = 0 THEN 0 ELSE n - 1

Open(k) == k \in DOMAIN frames /\ IsBlock(frames[k]) /\ ~frames[k].endHeaders

OpenFor(s, k) == Open(k) /\ frames[k].stream = s

Over(s, k) == \E m \in 1 .. k : frames[m].stream = s /\ Ends(frames[m])

Block(s, k) == FirstParts(BlockParts(frames, s), k)
Body(s, k) == FirstParts(BodyParts(frames, s), k)

Content(k) ==
    /\ handled \o request = FirstParts(RequestParts(frames), k)
    /\ \A s \in Stream : OpenFor(s, k) => decoded = Block(s, k)
    /\ ~Open(k) => decoded = << >>
    /\ \A s \in Stream : ~OpenFor(s, k) => headers[s] = Block(s, k)
    /\ \A s \in Stream : ~Over(s, k) => data[s] = Body(s, k)
    /\ request # << >> => \E w \in Worker : pc[w] = "request"

LogInv == Plain(frames) /\ ~raced /\ ~Failed => \E n : InStep(n) /\ Content(Done(n))

LEMMA LogInvInit == Typed /\ Init => LogInv
  <1> SUFFICES ASSUME Typed, Init, Plain(frames), ~raced, ~Failed
               PROVE  InStep(0) /\ Content(0)
    BY DEF LogInv, Done
  <1>1. SyncInv
    BY SyncInit
  <1>2. PICK n : InStep(n)
    BY <1>1, Zenon DEF SyncInv
  <1>3. n = 0
    <2>1. state = "CLIENT_PREFACE"
      BY DEF Init
    <2>2. state = StateAt(n)
      BY <1>2 DEF InStep
    <2> QED
      BY <2>1, <2>2 DEF StateAt
  <1>4. Content(0)
    <2>1. ~Open(0)
      BY DEF Open, Typed, NetTyped
    <2>2. /\ FirstParts(RequestParts(frames), 0) = << >>
          /\ \A s : Block(s, 0) = << >> /\ Body(s, 0) = << >>
      BY FirstPartsNone DEF Block, Body
    <2>3. << >> \o << >> = << >>
      BY EmptySeq, ConcatEmptySeq
    <2> QED
      BY <2>1, <2>2, <2>3 DEF Content, OpenFor, Init
  <1> QED
    BY <1>2, <1>3, <1>4

LEMMA ContentSame ==
  ASSUME NEW k, Content(k), UNCHANGED <<frames, handled, decoded, headers, data, request>>,
         \A w \in Worker : pc[w] = "request" => pc'[w] = "request"
  PROVE  Content(k)'
  <1>1. /\ FirstParts(RequestParts(frames), k)' = FirstParts(RequestParts(frames), k)
        /\ Open(k)' = Open(k)
        /\ \A s : /\ OpenFor(s, k)' = OpenFor(s, k) /\ Over(s, k)' = Over(s, k)
                  /\ Block(s, k)' = Block(s, k) /\ Body(s, k)' = Body(s, k)
    BY DEF Open, OpenFor, Over, Block, Body
  <1>2. /\ (handled \o request)' = handled \o request /\ decoded' = decoded
        /\ \A s : headers'[s] = headers[s] /\ data'[s] = data[s]
    OBVIOUS
  <1>3. request' # << >> => \E w \in Worker : pc'[w] = "request"
    BY DEF Content
  <1> QED
    BY <1>1, <1>2, <1>3 DEF Content

(* What frame n adds. *)
LEMMA PartsMore ==
  ASSUME Typed, NEW n \in DOMAIN frames, NEW s
  PROVE  /\ n \in 1 .. Len(frames) /\ n - 1 \in 0 .. Len(frames)
         /\ Block(s, n) = Block(s, n - 1) \o BlockParts(frames, s)[n]
         /\ Body(s, n) = Body(s, n - 1) \o BodyParts(frames, s)[n]
         /\ Block(s, n - 1) \in Seq(Nat) /\ Body(s, n - 1) \in Seq(UnitSet)
         /\ BlockParts(frames, s)[n] = << >> => Block(s, n) = Block(s, n - 1)
         /\ BodyParts(frames, s)[n] = << >> => Body(s, n) = Body(s, n - 1)
  <1>1. frames \in Seq(Frame) /\ n \in 1 .. Len(frames) /\ n - 1 \in 0 .. Len(frames)
    BY DEF Typed, NetTyped
  <1>2. PICK p, q : p = BlockParts(frames, s) /\ q = BodyParts(frames, s)
    OBVIOUS
  <1>3. /\ p \in Seq(Seq(Nat)) /\ Len(p) = Len(frames)
        /\ q \in Seq(Seq(UnitSet)) /\ Len(q) = Len(frames)
    BY <1>1, <1>2, PartsTypes
  <1>4. FirstParts(p, n) = FirstParts(p, n - 1) \o p[n] /\ FirstParts(p, n - 1) \in Seq(Nat)
    BY <1>1, <1>3, FirstPartsMore, FirstPartsType
  <1>5. FirstParts(q, n) = FirstParts(q, n - 1) \o q[n] /\ FirstParts(q, n - 1) \in Seq(UnitSet)
    BY <1>1, <1>3, FirstPartsMore, FirstPartsType
  <1>6. /\ p[n] = << >> => FirstParts(p, n) = FirstParts(p, n - 1)
        /\ q[n] = << >> => FirstParts(q, n) = FirstParts(q, n - 1)
    BY <1>4, <1>5, ConcatEmptySeq
  <1> QED
    BY <1>1, <1>2, <1>4, <1>5, <1>6 DEF Block, Body

LEMMA RequestsMore ==
  ASSUME Typed, NEW n \in DOMAIN frames
  PROVE  /\ FirstParts(RequestParts(frames), n)
            = FirstParts(RequestParts(frames), n - 1) \o RequestParts(frames)[n]
         /\ FirstParts(RequestParts(frames), n - 1) \in Seq(Request)
         /\ ~Ends(frames[n]) =>
              FirstParts(RequestParts(frames), n) = FirstParts(RequestParts(frames), n - 1)
         /\ Ends(frames[n]) => RequestParts(frames)[n] = <<RequestAt(frames, n)>>
  <1>1. frames \in Seq(Frame) /\ n \in 1 .. Len(frames) /\ n - 1 \in 0 .. Len(frames)
    BY DEF Typed, NetTyped
  <1>2. PICK p : p = RequestParts(frames)
    OBVIOUS
  <1>3. p \in Seq(Seq(Request)) /\ Len(p) = Len(frames)
    BY <1>1, <1>2, PartsTypes
  <1>4. FirstParts(p, n) = FirstParts(p, n - 1) \o p[n] /\ FirstParts(p, n - 1) \in Seq(Request)
    BY <1>1, <1>3, FirstPartsMore, FirstPartsType
  <1>5. p[n] = << >> => FirstParts(p, n) = FirstParts(p, n - 1)
    BY <1>4, ConcatEmptySeq
  <1>6. p[n] = IF Ends(frames[n]) THEN <<RequestAt(frames, n)>> ELSE << >>
    BY <1>2 DEF RequestParts
  <1> QED
    BY <1>2, <1>4, <1>5, <1>6

(* Which blocks and streams are open, and which are over, after frame n.   *)
LEMMA OpenStep ==
  ASSUME Typed, Plain(frames), NEW n \in DOMAIN frames
  PROVE  /\ frames[n].type # "CONTINUATION" => ~Open(n - 1)
         /\ frames[n].type = "CONTINUATION" => OpenFor(frames[n].stream, n - 1)
         /\ ~IsBlock(frames[n]) => ~Open(n)
         /\ \A s : Over(s, n - 1) => Over(s, n)
         /\ Ends(frames[n]) => Over(frames[n].stream, n)
         /\ Speaks(frames[n]) => ~Over(frames[n].stream, n - 1)
         /\ \A s : OpenFor(s, n - 1) => frames[n].stream = s
         /\ \A s : OpenFor(s, n) => frames[n].stream = s
  <1>1. frames \in Seq(Frame) /\ n \in 1 .. Len(frames) /\ Len(frames) \in Nat
        /\ DOMAIN frames = 1 .. Len(frames)
    BY DEF Typed, NetTyped
  <1>2. PICK m : m = n - 1
    OBVIOUS
  <1>3. m + 1 = n
    BY <1>1, <1>2
  <1>4. ASSUME Open(m)
        PROVE  frames[n].type = "CONTINUATION" /\ frames[n].stream = frames[m].stream
    <2>1. m \in DOMAIN frames /\ IsBlock(frames[m]) /\ ~frames[m].endHeaders
      BY <1>4 DEF Open
    <2>2. /\ m + 1 \in DOMAIN frames /\ frames[m + 1].type = "CONTINUATION"
          /\ frames[m + 1].stream = frames[m].stream
      BY <1>1, <2>1, OpenFollows
    <2> QED
      BY <1>3, <2>2
  <1>5. frames[n].type = "CONTINUATION" => OpenFor(frames[n].stream, m)
    BY <1>1, <1>2, ContinuationFollows DEF Open, OpenFor
  <1>6. ~IsBlock(frames[n]) => ~Open(n)
    BY DEF Open
  <1>7. \A s : Over(s, n - 1) => Over(s, n)
    <2> SUFFICES ASSUME NEW s, NEW k \in 1 .. n - 1, frames[k].stream = s, Ends(frames[k])
                 PROVE  Over(s, n)
      BY DEF Over
    <2>1. k \in 1 .. n
      BY <1>1
    <2> QED
      BY <2>1 DEF Over
  <1>8. Ends(frames[n]) => Over(frames[n].stream, n)
    <2>1. n \in 1 .. n
      BY <1>1
    <2> QED
      BY <2>1 DEF Over
  <1>9. Speaks(frames[n]) => ~Over(frames[n].stream, n - 1)
    BY <1>1, SpeaksInOrder DEF Over
  <1>10. \A s : OpenFor(s, m) => frames[n].stream = s
    BY <1>4 DEF OpenFor
  <1>11. \A s : OpenFor(s, n) => frames[n].stream = s
    BY DEF OpenFor
  <1> QED
    BY <1>2, <1>4, <1>5, <1>6, <1>7, <1>8, <1>9, <1>10, <1>11

LEMMA ContentTo ==
  ASSUME NEW k, UNCHANGED frames,
         handled' \o request' = FirstParts(RequestParts(frames), k),
         \A s \in Stream : OpenFor(s, k) => decoded' = Block(s, k),
         ~Open(k) => decoded' = << >>,
         \A s \in Stream : ~OpenFor(s, k) => headers'[s] = Block(s, k),
         \A s \in Stream : ~Over(s, k) => data'[s] = Body(s, k),
         request' # << >> => \E w \in Worker : pc'[w] = "request"
  PROVE  Content(k)'
  <1>1. /\ FirstParts(RequestParts(frames), k)' = FirstParts(RequestParts(frames), k)
        /\ Open(k)' = Open(k)
        /\ \A s : /\ OpenFor(s, k)' = OpenFor(s, k) /\ Over(s, k)' = Over(s, k)
                  /\ Block(s, k)' = Block(s, k) /\ Body(s, k)' = Body(s, k)
    BY DEF Open, OpenFor, Over, Block, Body
  <1> QED
    BY <1>1 DEF Content

(* A frame that is not part of a request. *)
LEMMA SkipFrame ==
  ASSUME Typed, Plain(frames), NEW n \in DOMAIN frames, Content(n - 1),
         frames[n].type \in {"SETTINGS", "OTHER"}
  PROVE  Content(n)
  <1>1. ~IsBlock(frames[n]) /\ ~Ends(frames[n]) /\ frames[n].type # "DATA"
        /\ frames[n].type # "CONTINUATION"
    BY DEF IsBlock, Ends
  <1>2. \A s : BlockParts(frames, s)[n] = << >> /\ BodyParts(frames, s)[n] = << >>
    BY <1>1 DEF BlockParts, BodyParts
  <1>3. \A s : Block(s, n) = Block(s, n - 1) /\ Body(s, n) = Body(s, n - 1)
    BY <1>2, PartsMore
  <1>4. FirstParts(RequestParts(frames), n) = FirstParts(RequestParts(frames), n - 1)
    BY <1>1, RequestsMore
  <1>5. /\ ~Open(n) /\ ~Open(n - 1) /\ \A s : Over(s, n - 1) => Over(s, n)
    BY <1>1, OpenStep
  <1> QED
    BY <1>3, <1>4, <1>5 DEF Content, OpenFor

(* The request that frame n ends has all that its stream has had. *)
LEMMA RequestMade ==
  ASSUME Typed, Plain(frames), NEW n \in DOMAIN frames, Ends(frames[n])
  PROVE  /\ RequestAt(frames, n)
            = [stream |-> frames[n].stream, headers |-> Block(frames[n].stream, n),
               body |-> Body(frames[n].stream, n)]
         /\ FirstParts(RequestParts(frames), n)
            = FirstParts(RequestParts(frames), n - 1) \o <<RequestAt(frames, n)>>
         /\ Block(frames[n].stream, n) = FlattenSeq(BlockParts(frames, frames[n].stream))
  <1>1. frames \in Seq(Frame) /\ n \in 0 .. Len(frames)
    BY DEF Typed, NetTyped
  <1>2. PICK p, q : /\ p = BlockParts(frames, frames[n].stream)
                    /\ q = BodyParts(frames, frames[n].stream)
    OBVIOUS
  <1>3. /\ p \in Seq(Seq(Nat)) /\ Len(p) = Len(frames)
        /\ q \in Seq(Seq(UnitSet)) /\ Len(q) = Len(frames)
    BY <1>1, <1>2, PartsTypes
  <1>4. EmptyBetween(p, n, Len(p)) /\ EmptyBetween(q, n, Len(q))
    BY <1>1, <1>2, <1>3, NothingAfter
  <1>5. n \in 0 .. Len(p) /\ n \in 0 .. Len(q)
    BY <1>1, <1>3
  <1>6. FirstParts(p, n) = FlattenSeq(p)
    BY <1>3, <1>4, <1>5, FirstPartsWhole
  <1>7. FirstParts(q, n) = FlattenSeq(q)
    BY <1>3, <1>4, <1>5, FirstPartsWhole
  <1>8. RequestAt(frames, n)
        = [stream |-> frames[n].stream, headers |-> Block(frames[n].stream, n),
           body |-> Body(frames[n].stream, n)]
    BY <1>2, <1>6, <1>7 DEF RequestAt, Block, Body
  <1>9. Block(frames[n].stream, n) = FlattenSeq(BlockParts(frames, frames[n].stream))
    BY <1>2, <1>6 DEF Block
  <1> QED
    BY <1>8, <1>9, RequestsMore

LEMMA NoneHandedOver ==
  ASSUME Typed, NEW k, Content(k), request = << >>
  PROVE  handled = FirstParts(RequestParts(frames), k)
  <1>1. handled \in Seq(Request) /\ handled \o << >> = FirstParts(RequestParts(frames), k)
    BY DEF Typed, StreamTyped, Content
  <1> QED
    BY <1>1, ConcatEmptySeq

LEMMA HeadersContent ==
  ASSUME Typed, Plain(frames), NEW n \in DOMAIN frames, Content(n - 1), request = << >>,
         NEW w \in Worker, Headers(w), FrameNumber(w) = n
  PROVE  Content(n)'
  <1>1. PICK f, s0, blk : f = frames[n] /\ s0 = f.stream /\ blk = Append(decoded, n)
    OBVIOUS
  <1>2. /\ frames \in Seq(Frame) /\ n \in Nat /\ f \in Frame /\ s0 \in Stream
        /\ decoded \in Seq(Nat) /\ headers \in [Stream -> Seq(Nat)]
        /\ data \in [Stream -> Seq(UnitSet)] /\ pc \in [Worker -> {"read", "process", "request"}]
    <2>1. frames \in Seq(Frame) /\ n \in 1 .. Len(frames)
      BY DEF Typed, NetTyped
    <2>2. f \in Frame
      BY <1>1, <2>1, ElementOfSeq
    <2>3. s0 \in Stream
      BY <1>1, <2>2 DEF Frame
    <2>4. /\ decoded \in Seq(Nat) /\ headers \in [Stream -> Seq(Nat)]
          /\ data \in [Stream -> Seq(UnitSet)] /\ pc \in [Worker -> {"read", "process", "request"}]
      BY DEF Typed, ReadTyped, StreamTyped
    <2> QED
      BY <2>1, <2>2, <2>3, <2>4
  <1>3. /\ IsBlock(f) /\ f.type # "DATA" /\ frames' = frames /\ handled' = handled
    BY <1>1 DEF Headers, IsHeaders, IsBlock, netVars
  <1>4. /\ f.endStream => f.type = "HEADERS" /\ f.pseudo /\ f.endHeaders
        /\ Ends(f) <=> f.endStream
    <2>1. f.type = "CONTINUATION" => ~f.endStream
      BY <1>1, <1>2, ContinuationFollows
    <2>2. f.type = "HEADERS" => f.pseudo /\ (f.endStream => f.endHeaders)
      BY <1>1, <1>2, SpeaksInOrder DEF Speaks
    <2> QED
      BY <1>3, <2>1, <2>2 DEF IsBlock, Ends
  <1>5. /\ BlockParts(frames, s0)[n] = <<n>>
        /\ \A s : s # s0 => BlockParts(frames, s)[n] = << >>
        /\ \A s : BodyParts(frames, s)[n] = << >>
    BY <1>1, <1>3 DEF BlockParts, BodyParts
  <1>6. /\ Block(s0, n) = Block(s0, n - 1) \o <<n>>
        /\ \A s : s # s0 => Block(s, n) = Block(s, n - 1)
        /\ \A s : Body(s, n) = Body(s, n - 1)
    BY <1>5, PartsMore
  <1>7. decoded = Block(s0, n - 1)
    <2>1. CASE f.type = "CONTINUATION"
      BY <1>1, <1>2, <2>1, OpenStep DEF Content
    <2>2. CASE f.type = "HEADERS"
      <3>1. decoded = << >>
        BY <1>1, <2>2, OpenStep DEF Content
      <3>2. EmptyBetween(BlockParts(frames, s0), 0, n - 1)
        BY <1>1, <1>2, <2>2, NoBlockBefore
      <3>3. PICK p : p = BlockParts(frames, s0)
        OBVIOUS
      <3>4. p \in Seq(Seq(Nat)) /\ n - 1 \in 0 .. Len(p)
        BY <1>2, <3>3, PartsTypes
      <3>5. FirstParts(p, n - 1) = << >>
        BY <3>2, <3>3, <3>4, FirstPartsEmpty
      <3> QED
        BY <3>1, <3>3, <3>5 DEF Block
    <2> QED
      BY <1>3, <2>1, <2>2 DEF IsBlock
  <1>8. blk = Block(s0, n) /\ blk \in Seq(Nat) /\ Len(blk) \in DOMAIN blk /\ blk[Len(blk)] = n
    <2>1. blk = decoded \o <<n>>
      BY <1>1, <1>2, AppendIsConcat
    <2>2. blk \in Seq(Nat) /\ Len(blk) = Len(decoded) + 1 /\ blk[Len(decoded) + 1] = n
      BY <1>1, <1>2
    <2> QED
      BY <1>6, <1>7, <2>1, <2>2
  <1>9. /\ Open(n) <=> ~f.endHeaders
        /\ OpenFor(s0, n) <=> ~f.endHeaders
    BY <1>1, <1>3 DEF Open, OpenFor
  <1>10. \A s \in Stream : s # s0 => headers[s] = Block(s, n) /\ ~OpenFor(s, n)
    <2> SUFFICES ASSUME NEW s \in Stream, s # s0
                 PROVE  headers[s] = Block(s, n) /\ ~OpenFor(s, n)
      OBVIOUS
    <2>1. ~OpenFor(s, n) /\ ~OpenFor(s, n - 1)
      BY <1>1, OpenStep
    <2> QED
      BY <1>6, <2>1 DEF Content
  <1>11. \A s \in Stream : ~Over(s, n) => data[s] = Body(s, n)
    BY <1>6, OpenStep DEF Content
  <1>12. handled = FirstParts(RequestParts(frames), n - 1)
    BY NoneHandedOver
  <1>13. CASE ~f.endHeaders
    <2>1. decoded' = blk /\ UNCHANGED <<pc, headers, data, request>>
      BY <1>1, <1>4, <1>13 DEF Headers
    <2>2. handled' \o request' = FirstParts(RequestParts(frames), n)
      BY <1>1, <1>3, <1>4, <1>12, <1>13, <2>1, RequestsMore DEF Content
    <2>3. \A s \in Stream : OpenFor(s, n) => decoded' = Block(s, n)
      BY <1>8, <1>10, <2>1
    <2>4. \A s \in Stream : ~OpenFor(s, n) => headers'[s] = Block(s, n)
      BY <1>9, <1>10, <1>13, <2>1
    <2>5. \A s \in Stream : ~Over(s, n) => data'[s] = Body(s, n)
      BY <1>11, <2>1
    <2>6. request' = << >> /\ Open(n)
      BY <1>9, <1>13, <2>1
    <2> QED
      BY <1>3, <2>2, <2>3, <2>4, <2>5, <2>6, ContentTo
  <1>14. CASE f.endHeaders
    <2>1. decoded' = << >> /\ headers' = [headers EXCEPT ![s0] = blk]
      BY <1>1, <1>14 DEF Headers
    <2>2. ~Open(n) /\ \A s \in Stream : ~OpenFor(s, n)
      BY <1>9, <1>14 DEF OpenFor
    <2>3. \A s \in Stream : ~OpenFor(s, n) => headers'[s] = Block(s, n)
      BY <1>2, <1>8, <1>10, <2>1
    <2>4. CASE ~f.endStream
      <3>1. UNCHANGED <<pc, data, request>>
        BY <1>1, <1>14, <2>4 DEF Headers
      <3>2. handled' \o request' = FirstParts(RequestParts(frames), n)
        BY <1>1, <1>3, <1>4, <2>4, <3>1, RequestsMore DEF Content
      <3>3. \A s \in Stream : ~Over(s, n) => data'[s] = Body(s, n)
        BY <1>11, <3>1
      <3>4. request' = << >>
        BY <3>1
      <3> QED
        BY <1>3, <2>1, <2>2, <2>3, <3>2, <3>3, <3>4, ContentTo
    <2>5. CASE f.endStream
      <3>1. FinishStream(w, s0, blk, data[s0])
        BY <1>1, <1>14, <2>5 DEF Headers
      <3>2. \E i \in DOMAIN blk : frames[blk[i]].pseudo
        BY <1>1, <1>4, <1>8, <2>5
      <3>3. /\ request' = <<[stream |-> s0, headers |-> blk, body |-> data[s0]]>>
            /\ data' = [data EXCEPT ![s0] = << >>]
            /\ pc' = [pc EXCEPT ![w] = "request"]
        BY <3>1, <3>2 DEF FinishStream
      <3>4. data[s0] = Body(s0, n)
        <4>1. Speaks(f)
          BY <1>4, <2>5 DEF Speaks
        <4>2. ~Over(s0, n - 1)
          BY <1>1, <4>1, OpenStep
        <4> QED
          BY <1>2, <1>6, <4>2 DEF Content
      <3>5. handled' \o request' = FirstParts(RequestParts(frames), n)
        <4>1. request' = <<RequestAt(frames, n)>>
          BY <1>1, <1>4, <1>8, <2>5, <3>3, <3>4, RequestMade
        <4> QED
          BY <1>1, <1>3, <1>4, <1>12, <2>5, <4>1, RequestMade
      <3>6. \A s \in Stream : ~Over(s, n) => data'[s] = Body(s, n)
        <4>1. Over(s0, n)
          BY <1>1, <1>4, <2>5, OpenStep
        <4> QED
          BY <1>2, <1>11, <3>3, <4>1
      <3>7. \E v \in Worker : pc'[v] = "request"
        BY <1>2, <3>3
      <3> QED
        BY <1>3, <2>1, <2>2, <2>3, <3>5, <3>6, <3>7, ContentTo
    <2> QED
      BY <2>4, <2>5
  <1> QED
    BY <1>13, <1>14

LEMMA DataContent ==
  ASSUME Typed, Plain(frames), NEW n \in DOMAIN frames, Content(n - 1), request = << >>,
         NEW w \in Worker, Data(w), FrameNumber(w) = n,
         Accumulated(w) = Units(n, HeaderSize + 1, HeaderSize + frames[n].length)
  PROVE  Content(n)'
  <1>1. PICK f, s0, body : f = frames[n] /\ s0 = f.stream /\ body = data[s0] \o Accumulated(w)
    OBVIOUS
  <1>2. /\ frames \in Seq(Frame) /\ n \in Nat /\ f \in Frame /\ s0 \in Stream
        /\ decoded \in Seq(Nat) /\ headers \in [Stream -> Seq(Nat)]
        /\ data \in [Stream -> Seq(UnitSet)] /\ pc \in [Worker -> {"read", "process", "request"}]
    <2>1. frames \in Seq(Frame) /\ n \in 1 .. Len(frames)
      BY DEF Typed, NetTyped
    <2>2. f \in Frame
      BY <1>1, <2>1, ElementOfSeq
    <2>3. s0 \in Stream
      BY <1>1, <2>2 DEF Frame
    <2>4. /\ decoded \in Seq(Nat) /\ headers \in [Stream -> Seq(Nat)]
          /\ data \in [Stream -> Seq(UnitSet)] /\ pc \in [Worker -> {"read", "process", "request"}]
      BY DEF Typed, ReadTyped, StreamTyped
    <2> QED
      BY <2>1, <2>2, <2>3, <2>4
  <1>3. /\ f.type = "DATA" /\ ~IsBlock(f) /\ Speaks(f) /\ (Ends(f) <=> f.endStream)
        /\ UNCHANGED <<frames, handled, decoded, headers>>
    BY <1>1 DEF Data, IsBlock, Speaks, Ends, netVars
  <1>4. /\ \A s : BlockParts(frames, s)[n] = << >>
        /\ BodyParts(frames, s0)[n] = Accumulated(w)
        /\ \A s : s # s0 => BodyParts(frames, s)[n] = << >>
    BY <1>1, <1>3 DEF BlockParts, BodyParts
  <1>5. /\ \A s : Block(s, n) = Block(s, n - 1)
        /\ \A s : s # s0 => Body(s, n) = Body(s, n - 1)
        /\ Body(s0, n) = Body(s0, n - 1) \o Accumulated(w)
    BY <1>4, PartsMore
  <1>6. /\ ~Open(n) /\ ~Open(n - 1) /\ ~Over(s0, n - 1)
        /\ \A s : ~Over(s, n) => ~Over(s, n - 1)
    BY <1>1, <1>3, OpenStep
  <1>7. body = Body(s0, n)
    BY <1>1, <1>2, <1>5, <1>6 DEF Content
  <1>8. /\ \A s \in Stream : headers[s] = Block(s, n) /\ ~OpenFor(s, n)
        /\ \A s \in Stream : s # s0 /\ ~Over(s, n) => data[s] = Body(s, n)
        /\ decoded = << >>
    BY <1>5, <1>6 DEF Content, OpenFor
  <1>9. handled = FirstParts(RequestParts(frames), n - 1)
    BY NoneHandedOver
  <1>10. CASE ~f.endStream
    <2>1. data' = [data EXCEPT ![s0] = body] /\ UNCHANGED <<pc, request>>
      BY <1>1, <1>10 DEF Data
    <2>2. handled' \o request' = FirstParts(RequestParts(frames), n)
      BY <1>1, <1>3, <1>10, <2>1, RequestsMore DEF Content
    <2>3. \A s \in Stream : ~Over(s, n) => data'[s] = Body(s, n)
      BY <1>2, <1>7, <1>8, <2>1
    <2>4. request' = << >>
      BY <2>1
    <2> QED
      BY <1>3, <1>8, <2>2, <2>3, <2>4, ContentTo
  <1>11. CASE f.endStream
    <2>1. FinishStream(w, s0, headers[s0], body)
      BY <1>1, <1>11 DEF Data
    <2>2. headers[s0] = FlattenSeq(BlockParts(frames, s0)) /\ headers[s0] = Block(s0, n)
      BY <1>1, <1>2, <1>3, <1>8, <1>11, RequestMade
    <2>3. \E i \in DOMAIN headers[s0] : frames[headers[s0][i]].pseudo
      BY <1>1, <1>2, <1>3, <2>2, PseudoThere
    <2>4. /\ request' = <<[stream |-> s0, headers |-> headers[s0], body |-> body]>>
          /\ data' = [data EXCEPT ![s0] = << >>]
          /\ pc' = [pc EXCEPT ![w] = "request"]
      BY <2>1, <2>3 DEF FinishStream
    <2>5. handled' \o request' = FirstParts(RequestParts(frames), n)
      <3>1. request' = <<RequestAt(frames, n)>>
        BY <1>1, <1>3, <1>7, <1>11, <2>2, <2>4, RequestMade
      <3> QED
        BY <1>1, <1>3, <1>9, <1>11, <3>1, RequestMade
    <2>6. \A s \in Stream : ~Over(s, n) => data'[s] = Body(s, n)
      <3>1. Over(s0, n)
        BY <1>1, <1>3, <1>11, OpenStep
      <3> QED
        BY <1>2, <1>8, <2>4, <3>1
    <2>7. \E v \in Worker : pc'[v] = "request"
      BY <1>2, <2>4
    <2> QED
      BY <1>3, <1>8, <2>5, <2>6, <2>7, ContentTo
  <1> QED
    BY <1>10, <1>11

LEMMA MoveContent ==
  ASSUME Typed, NEW k, Content(k), NEW w \in Worker, MoveRequest(w)
  PROVE  Content(k)'
  <1>1. /\ UNCHANGED <<frames, decoded, headers, data>>
        /\ handled' = handled \o request /\ request' = << >>
    BY DEF MoveRequest, netVars
  <1>2. handled' \o request' = handled \o request
    <2>1. handled \o request \in Seq(Request)
      BY ConcatProperties DEF Typed, StreamTyped
    <2> QED
      BY <1>1, <2>1, ConcatEmptySeq
  <1>3. handled' \o request' = FirstParts(RequestParts(frames), k)
    BY <1>2 DEF Content
  <1>4. /\ \A s \in Stream : OpenFor(s, k) => decoded' = Block(s, k)
        /\ ~Open(k) => decoded' = << >>
        /\ \A s \in Stream : ~OpenFor(s, k) => headers'[s] = Block(s, k)
        /\ \A s \in Stream : ~Over(s, k) => data'[s] = Body(s, k)
    BY <1>1 DEF Content
  <1> QED
    BY <1>1, <1>3, <1>4, ContentTo

LEMMA Alone ==
  ASSUME NEW n, InStep(n), NEW k, Content(k), NEW w \in Worker, pc[w] = "process"
  PROVE  request = << >>
  <1>1. \A v \in Worker : pc[v] # "read" => v = w
    BY DEF InStep
  <1> QED
    BY <1>1 DEF Content

LEMMA LogInStep ==
  ASSUME Typed, Plain(frames), NEW n, InStep(n), Content(Done(n)), ~Failed,
         NEW w \in Worker, OnRead(w), ~raced', ~Failed'
  PROVE  \E m : InStep(m)' /\ Content(Done(m))'
  <1>0. n \in 0 .. Len(frames) + 1 /\ Len(frames) \in Nat /\ DOMAIN frames = 1 .. Len(frames)
    BY Standing DEF InStep
  <1>1. CASE InStep(n)' /\ (Receive(w) \/ PacketDone(w) \/ FrameIncomplete(w))
    <2>1. UNCHANGED <<frames, handled, decoded, headers, data, request>>
      BY <1>1 DEF Receive, PacketDone, FrameIncomplete, netVars, streamVars
    <2>2. \A v \in Worker : pc[v] = "request" => pc'[v] = "request"
      BY <1>1 DEF Receive, PacketDone, FrameIncomplete, Typed, ReadTyped
    <2>3. Content(Done(n))'
      BY <2>1, <2>2, ContentSame DEF Done
    <2> QED
      BY <1>1, <2>3
  <1>2. CASE InStep(n)' /\ MoveRequest(w)
    <2>1. Content(Done(n))'
      BY <1>2, MoveContent DEF Done
    <2> QED
      BY <1>2, <2>1
  <1>3. CASE n = 0 /\ InStep(1)' /\ Preface(w)
    <2>1. UNCHANGED <<frames, handled, decoded, headers, data, request, pc>>
      BY <1>3 DEF Preface, netVars, streamVars
    <2>2. Content(0)
      BY <1>3 DEF Done
    <2>3. Content(0)'
      BY <2>1, <2>2, ContentSame
    <2>4. Content(Done(1))'
      BY <2>3 DEF Done
    <2> QED
      BY <1>3, <2>4
  <1>4. CASE n = 1 /\ InStep(2)' /\ Settings(w)
    <2>1. UNCHANGED <<frames, handled, decoded, headers, data, request, pc>>
      BY <1>4 DEF Settings, netVars, streamVars
    <2>2. 1 \in DOMAIN frames /\ frames[1].type = "SETTINGS"
      <3>1. n \in 1 .. Len(frames)
        <4>1. FrameReadable(w, "WAIT_CLIENT_SETTINGS")
          BY <1>4 DEF Settings, FrameComplete
        <4> QED
          BY <4>1, ReadSync
      <3> QED
        BY <1>0, <1>4, <3>1, PlainFrame
    <2>3. Content(1 - 1)
      BY <1>4 DEF Done
    <2>4. Content(1)
      BY <2>2, <2>3, SkipFrame
    <2>5. Content(1)'
      BY <2>1, <2>4, ContentSame
    <2>6. Content(Done(2))'
      BY <2>5 DEF Done
    <2> QED
      BY <1>4, <2>6
  <1>5. CASE n > 1 /\ InStep(n + 1)' /\ (OtherFrame(w) \/ Headers(w) \/ Data(w))
    <2>1. FrameComplete(w, "IDLE") /\ FrameReadable(w, "IDLE")
      BY <1>5 DEF OtherFrame, Headers, Data, FrameComplete
    <2>2. /\ n \in DOMAIN frames /\ FrameNumber(w) = n
          /\ Accumulated(w) = Units(n, HeaderSize + 1, HeaderSize + frames[n].length)
      <3>1. /\ n \in 1 .. Len(frames) /\ FrameNumber(w) = n
            /\ Len(Accumulated(w)) \in Nat /\ Len(Accumulated(w)) <= frames[n].length
            /\ Accumulated(w) = Units(n, HeaderSize + 1, HeaderSize + Len(Accumulated(w)))
        BY <2>1, ReadSync
      <3>2. frames[n].length \in Nat
        BY <3>1, PlainFrame
      <3>3. Len(Accumulated(w)) >= frames[n].length
        BY <2>1, <3>1 DEF FrameComplete
      <3>4. Len(Accumulated(w)) = frames[n].length
        BY <3>1, <3>2, <3>3
      <3> QED
        BY <1>0, <3>1, <3>4
    <2>3. Content(n - 1)
      BY <1>0, <1>5 DEF Done
    <2>4. pc[w] = "process"
      BY <2>1 DEF FrameReadable, Processing
    <2>5. request = << >>
      BY <2>3, <2>4, Alone
    <2>6. Content(n)'
      <3>1. CASE OtherFrame(w)
        <4>1. UNCHANGED <<frames, handled, decoded, headers, data, request, pc>>
          BY <3>1 DEF OtherFrame, netVars, streamVars
        <4>2. frames[n].type \in {"SETTINGS", "OTHER"}
          BY <2>2, <3>1 DEF OtherFrame
        <4>3. Content(n)
          BY <2>2, <2>3, <4>2, SkipFrame
        <4> QED
          BY <4>1, <4>3, ContentSame
      <3>2. CASE Headers(w)
        BY <2>2, <2>3, <2>5, <3>2, HeadersContent
      <3>3. CASE Data(w)
        BY <2>2, <2>3, <2>5, <3>3, DataContent
      <3> QED
        BY <1>5, <3>1, <3>2, <3>3
    <2>7. Content(Done(n + 1))'
      <3>1. n + 1 # 0 /\ (n + 1) - 1 = n
        BY <1>0
      <3> QED
        BY <2>6, <3>1 DEF Done
    <2> QED
      BY <1>5, <2>7
  <1> QED
    BY <1>1, <1>2, <1>3, <1>4, <1>5, StepInStep

LEMMA LogInvStep == Typed /\ LogInv /\ [Next]_vars => LogInv'
  <1> SUFFICES ASSUME Typed, LogInv, [Next]_vars PROVE LogInv'
    OBVIOUS
  <1>1. ASSUME UNCHANGED vars PROVE LogInv'
    <2>1. /\ UNCHANGED <<frames, wire, cut, raced, pc, packet, state, unfinished, closed, lost>>
          /\ UNCHANGED <<handled, request, decoded, headers, data>>
      BY <1>1 DEF vars, netVars, streamVars
    <2>2. /\ AllRead' = AllRead /\ Received' = Received /\ Failed' = Failed
          /\ Continuing' = Continuing /\ \A n : At(n)' = At(n)
      BY <2>1 DEF AllRead, Received, Failed, Continuing, At
    <2>3. \A n : InStep(n)' <=> InStep(n)
      BY <2>1, <2>2 DEF InStep
    <2>4. ASSUME NEW k, Content(k) PROVE Content(k)'
      BY <2>1, <2>4, ContentSame
    <2>5. SUFFICES ASSUME NEW n, InStep(n), Content(Done(n))
                   PROVE  InStep(n)' /\ Content(Done(n))'
      BY <2>1, <2>2 DEF LogInv
    <2>6. Content(Done(n))'
      BY <2>4, <2>5 DEF Done
    <2> QED
      BY <2>3, <2>5, <2>6
  <1>2. ASSUME NEW w \in Worker, OnRead(w) PROVE LogInv'
    <2> SUFFICES ASSUME Plain(frames)', ~raced', ~Failed'
                 PROVE  \E m : InStep(m)' /\ Content(Done(m))'
      BY DEF LogInv
    <2>1. Plain(frames) /\ ~raced /\ ~Failed
      BY <1>2, Lasting
    <2>2. PICK n : InStep(n) /\ Content(Done(n))
      BY <2>1 DEF LogInv
    <2> QED
      BY <1>2, <2>1, <2>2, LogInStep
  <1> QED
    BY <1>1, <1>2 DEF Next, Quiet

LEMMA LogInvHolds == Spec => [](Typed /\ LogInv)
  <1>1. Init => Typed /\ LogInv
    BY TypedInit, LogInvInit
  <1>2. Typed /\ LogInv /\ [Next]_vars => Typed' /\ LogInv'
    BY TypedStep, LogInvStep
  <1> QED
    BY <1>1, <1>2, PTL DEF Spec

(* When all that was sent has been read, no frame is expected. *)
LEMMA AllUsedUp ==
  ASSUME Typed, NEW n, InStep(n), wire = << >>, AllRead
  PROVE  n = Len(frames) + 1 /\ ~Continuing
  <1>1. PICK S, b : S = Sent(frames) /\ b = Begin(frames)
    OBVIOUS
  <1>2. /\ frames \in Seq(Frame) /\ Len(frames) \in Nat /\ Len(S) \in Nat /\ b[n] \in Nat
        /\ Len(unfinished.data) \in Nat /\ Received \in Nat /\ At(n) = Received
        /\ Received = Len(S) /\ n \in 0 .. Len(frames) + 1
    <2>1. Len(wire) = 0
      OBVIOUS
    <2> QED
      BY <1>1, <2>1, Standing DEF InStep
  <1>3. ASSUME n \in 0 .. Len(frames) PROVE At(n) < Len(S)
    <2>1. Laid(frames, S, b)
      BY <1>1, Standing
    <2>2. b[n] + Size(frames, n) <= Len(S)
      <3>1. b[n + 1] = b[n] + Size(frames, n) /\ b[n + 1] <= Len(S)
        BY <1>3, <2>1 DEF Laid
      <3> QED
        BY <3>1
    <2>3. CASE Continuing
      <3>1. /\ n \in 1 .. Len(frames) /\ unfinished.frame = n
            /\ Len(unfinished.data) < frames[n].length
        BY <2>3 DEF InStep, Continuing, Typed, ReadTyped
      <3>2. frames[n] \in Frame
        BY <1>2, <3>1, ElementOfSeq
      <3>3. frames[n].length \in Nat
        BY <3>2 DEF Frame
      <3>4. Size(frames, n) = HeaderSize + frames[n].length
        BY <3>1 DEF Size
      <3>5. At(n) = b[n] + (HeaderSize + Len(unfinished.data))
        BY <1>1, <2>3 DEF At
      <3>6. PICK a, u, l, s : /\ a = b[n] /\ u = Len(unfinished.data)
                              /\ l = frames[n].length /\ s = Len(S)
        OBVIOUS
      <3>7. a \in Nat /\ u \in Nat /\ l \in Nat /\ s \in Nat /\ u < l
        BY <1>2, <3>1, <3>3, <3>6
      <3>8. a + (HeaderSize + l) <= s /\ At(n) = a + (HeaderSize + u)
        BY <2>2, <3>4, <3>5, <3>6
      <3>9. At(n) < s
        BY <3>7, <3>8
      <3> QED
        BY <3>6, <3>9
    <2>4. CASE ~Continuing
      <3>1. At(n) = b[n]
        BY <1>1, <1>2, <2>4 DEF At
      <3>2. Size(frames, n) \in Nat /\ Size(frames, n) > 0
        <4>1. CASE n = 0
          BY <4>1 DEF Size
        <4>2. CASE n # 0
          <5>1. n \in 1 .. Len(frames)
            BY <1>3, <4>2
          <5>2. frames[n] \in Frame
            BY <1>2, <5>1, ElementOfSeq
          <5>3. frames[n].length \in Nat
            BY <5>2 DEF Frame
          <5> QED
            BY <4>2, <5>3 DEF Size
        <4> QED
          BY <4>1, <4>2
      <3> QED
        BY <1>2, <2>2, <3>1, <3>2
    <2> QED
      BY <2>3, <2>4
  <1>4. n = Len(frames) + 1
    BY <1>2, <1>3
  <1>5. ~Continuing
    <2>1. n \notin 1 .. Len(frames)
      BY <1>2, <1>4
    <2> QED
      BY <2>1 DEF InStep
  <1> QED
    BY <1>4, <1>5

(* However the bytes are cut: when a Plain peer has been read to the end   *)
(* and nothing failed, the requests that its frames carry have been        *)
(* handled, all of them and in order, and no part of a frame is left.      *)
THEOREM NothingIsLeftBehind == Spec => []NothingIsLeft
  <1>1. Typed /\ LogInv => NothingIsLeft
    <2> SUFFICES ASSUME Typed, LogInv, Plain(frames), ~Failed, ~raced, wire = << >>, AllRead
                 PROVE  handled = RequestsOf(frames) /\ unfinished = NoFrame
      BY DEF NothingIsLeft, Failed
    <2>1. PICK n : InStep(n) /\ Content(Done(n))
      BY DEF LogInv
    <2>2. n = Len(frames) + 1 /\ ~Continuing
      BY <2>1, AllUsedUp
    <2>3. frames \in Seq(Frame) /\ Len(frames) \in Nat
      BY DEF Typed, NetTyped
    <2>4. Done(n) = Len(frames)
      <3>1. n # 0 /\ n - 1 = Len(frames)
        BY <2>2, <2>3
      <3> QED
        BY <3>1 DEF Done
    <2>5. Content(Len(frames))
      BY <2>1, <2>4
    <2>6. request = << >>
      BY <2>5 DEF Content, AllRead
    <2>7. handled = FirstParts(RequestParts(frames), Len(frames))
      BY <2>5, <2>6, NoneHandedOver
    <2>8. FirstParts(RequestParts(frames), Len(RequestParts(frames)))
          = FlattenSeq(RequestParts(frames))
      BY <2>3, PartsTypes, FirstPartsAll
    <2>9. handled = RequestsOf(frames)
      BY <2>3, <2>7, <2>8, PartsTypes DEF RequestParts, RequestsOf
    <2> QED
      BY <2>2, <2>9 DEF Continuing
  <1> QED
    BY <1>1, LogInvHolds, PTL

-----------------------------------------------------------------------------
(* The refinement.  Log has its own copies of what H2Frames defines.       *)
LEMMA LogPlain == Log!Plain(frames) <=> Plain(frames)
  BY DEF Log!Plain, Log!Conforming, Log!HasTrailers, Log!EndsEarly, Log!IsBlock,
         Log!BlocksAreWhole, Log!StreamsAreOrdered,
         Plain, Conforming, HasTrailers, EndsEarly, IsBlock, BlocksAreWhole, StreamsAreOrdered

LEMMA LogFlatten == ASSUME NEW x PROVE Log!FlattenSeq(x) = FlattenSeq(x)
  BY DEF Log!FlattenSeq, FlattenSeq

LEMMA LogRequests == Log!RequestsOf(frames) = RequestsOf(frames)
  BY LogFlatten DEF Log!RequestsOf, RequestsOf, Log!RequestAt, RequestAt, Log!Ends, Ends,
     Log!BlockParts, BlockParts, Log!BodyParts, BodyParts, Log!IsBlock, IsBlock,
     Log!Units, Units

(* The request that is moved is the next of the log. *)
LEMMA MovesNext ==
  ASSUME Typed, Plain(frames), NEW n, InStep(n), Content(Done(n)), NEW w \in Worker, MoveRequest(w)
  PROVE  /\ Len(handled) < Len(RequestsOf(frames))
         /\ handled' = Append(handled, RequestsOf(frames)[Len(handled) + 1])
  <1>1. PICK r \in Request : request = <<r>>
    <2>1. request \in Seq(Request) /\ Len(request) <= 1 /\ request # << >>
      BY DEF MoveRequest, Typed, StreamTyped
    <2>2. Len(request) = 1
      <3>1. Len(request) \in Nat /\ Len(request) # 0
        BY <2>1, EmptySeq
      <3> QED
        BY <2>1, <3>1
    <2>3. PICK r : r = request[1]
      OBVIOUS
    <2>4. r \in Request
      BY <2>1, <2>2, <2>3, ElementOfSeq
    <2>5. /\ <<r>> \in Seq(Request) /\ Len(request) = Len(<<r>>)
          /\ \A i \in 1 .. Len(request) : request[i] = <<r>>[i]
      BY <2>2, <2>3, <2>4
    <2>6. request = <<r>>
      BY <2>1, <2>5, SeqEqual
    <2> QED
      BY <2>4, <2>6
  <1>2. PICK p, q : p = RequestParts(frames) /\ q = FlattenSeq(p)
    OBVIOUS
  <1>3. /\ frames \in Seq(Frame) /\ Len(frames) \in Nat /\ Done(n) \in 0 .. Len(frames)
        /\ p \in Seq(Seq(Request)) /\ Len(p) = Len(frames)
    <2>1. frames \in Seq(Frame) /\ Len(frames) \in Nat /\ n \in 0 .. Len(frames) + 1
      BY DEF Typed, NetTyped, InStep
    <2>2. Done(n) \in 0 .. Len(frames)
      BY <2>1 DEF Done
    <2> QED
      BY <1>2, <2>1, <2>2, PartsTypes
  <1>4. q \in Seq(Request) /\ q = RequestsOf(frames)
    BY <1>2, <1>3, FlattenType DEF RequestParts, RequestsOf
  <1>5. HasAt(q, 0, FirstParts(p, Done(n)))
    BY <1>2, <1>3, FirstPartsBegin
  <1>6. handled \in Seq(Request) /\ HasAt(q, 0, handled \o <<r>>)
    BY <1>1, <1>2, <1>5 DEF Content, Typed, StreamTyped
  <1>7. PICK h : h = handled \o <<r>>
    OBVIOUS
  <1>8. Len(h) = Len(handled) + 1 /\ h[Len(handled) + 1] = r /\ Len(handled) \in Nat
    BY <1>6, <1>7
  <1>9. Len(handled) + 1 <= Len(q) /\ q[Len(handled) + 1] = r
    <2>1. 0 + Len(h) <= Len(q) /\ \A k \in 1 .. Len(h) : q[0 + k] = h[k]
      BY <1>6, <1>7 DEF HasAt
    <2>2. Len(handled) + 1 \in 1 .. Len(h) /\ 0 + (Len(handled) + 1) = Len(handled) + 1
      BY <1>8
    <2> QED
      BY <1>4, <1>8, <2>1, <2>2
  <1>10. handled' = Append(handled, r)
    BY <1>1, <1>6, AppendIsConcat DEF MoveRequest
  <1> QED
    BY <1>4, <1>8, <1>9, <1>10

(* Every step of the connection is a step of RequestLog or changes nothing *)
(* that it has.                                                            *)
LEMMA LogStep ==
  Typed /\ LogInv /\ [Next]_vars => [Log!HandleNext \/ Log!Fail \/ Log!NoPromise]_Log!logVars
  <1> SUFFICES ASSUME Typed, LogInv, [Next]_vars
               PROVE  \/ Log!HandleNext \/ Log!Fail \/ Log!NoPromise
                      \/ UNCHANGED Log!logVars
    OBVIOUS
  <1>1. ASSUME UNCHANGED vars PROVE UNCHANGED Log!logVars
    BY <1>1 DEF vars, netVars, Log!logVars
  <1>2. ASSUME NEW w \in Worker, OnRead(w)
        PROVE  \/ Log!HandleNext \/ Log!Fail \/ Log!NoPromise
               \/ UNCHANGED Log!logVars
    <2>1. frames' = frames
      BY <1>2, Lasting
    <2>2. CASE Failed \/ raced \/ ~Plain(frames)
      BY <2>1, <2>2, LogPlain DEF Failed, Log!NoPromise
    <2>3. CASE ~Failed /\ ~raced /\ Plain(frames) /\ raced'
      <3>1. handled' = handled
        BY <1>2, <2>3 DEF OnRead, Receive, PacketDone, MoveRequest, RequestGone, Preface,
           PrefaceInvalid, Settings, SettingsMissing, FrameIncomplete, Garbled, Exit, OtherFrame,
           Headers, HeadersInvalid, Data, Throw, netVars
      <3> QED
        BY <2>1, <2>3, <3>1 DEF Log!Fail
    <2>4. CASE ~Failed /\ ~raced /\ Plain(frames) /\ ~raced'
      <3>1. PICK n : InStep(n) /\ Content(Done(n))
        BY <2>4 DEF LogInv
      <3>2. CASE Failed'
        <4>1. handled' = handled
          BY <1>2, <2>4, <3>1, <3>2, StepInStep
        <4> QED
          BY <2>1, <3>2, <4>1 DEF Log!Fail, Failed
      <3>3. CASE ~Failed' /\ MoveRequest(w)
        <4>1. /\ Len(handled) < Len(RequestsOf(frames))
              /\ handled' = Append(handled, RequestsOf(frames)[Len(handled) + 1])
          BY <2>4, <3>1, <3>3, MovesNext
        <4> QED
          BY <2>1, <2>4, <3>3, <4>1, LogRequests DEF Log!HandleNext, Failed
      <3>4. CASE ~Failed' /\ ~MoveRequest(w)
        <4>1. \/ Receive(w) \/ PacketDone(w) \/ FrameIncomplete(w) \/ Preface(w) \/ Settings(w)
              \/ OtherFrame(w) \/ Headers(w) \/ Data(w)
          BY <1>2, <2>4, <3>1, <3>4, StepInStep
        <4>2. handled' = handled
          BY <4>1 DEF Receive, PacketDone, Preface, Settings, FrameIncomplete, OtherFrame,
             Headers, Data
        <4>3. (closed \/ lost # "no" \/ raced)' = (closed \/ lost # "no" \/ raced)
          BY <2>4, <3>4 DEF Failed
        <4> QED
          BY <2>1, <4>2, <4>3 DEF Log!logVars
      <3> QED
        BY <3>2, <3>3, <3>4
    <2> QED
      BY <2>2, <2>3, <2>4
  <1> QED
    BY <1>1, <1>2 DEF Next, Quiet

(* The connection implements RequestLog: whatever the packets, the         *)
(* requests of a Plain peer are handled each once, in the order in which   *)
(* their streams end, with their own headers and whole bodies, until the   *)
(* connection fails.                                                       *)
THEOREM LogImplemented == Spec => ImplementsLog
  <1>1. Init => Log!LogInit
    BY DEF Init, Log!LogInit
  <1> QED
    BY <1>1, LogInvHolds, LogStep, PTL DEF Spec, ImplementsLog, Log!LogSpec

=============================================================================
