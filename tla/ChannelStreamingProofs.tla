----------------------- MODULE ChannelStreamingProofs -----------------------
(***************************************************************************)
(* For any number of chunks, however often the session is driven and        *)
(* whenever it is cancelled or dropped: the consumer gets the chunks in     *)
(* order, and at most one of them is sent after a cancel.                   *)
(*                                                                         *)
(* The order rests on what is in the channel: up to the first end it holds  *)
(* the chunks behind those received, and as long as there is no end in it   *)
(* the producer is at the chunk behind them.  A second call of drive starts *)
(* over at the first chunk, but then an end is in the channel, behind which *)
(* the receiver does not read.                                              *)
(***************************************************************************)
EXTENDS ChannelStreaming, FiniteSetTheorems, FunctionTheorems, TLAPS

Working == {"synthesize", "check", "count", "send"}

Typed ==
  /\ pc \in Working \union {"idle", "finish", "fail"}
  /\ chunk \in Nat /\ late \in Nat
  /\ channel \in Seq({"audio", "done", "error"} \X Nat)
  /\ received \in Seq(Nat)
  /\ cancelled \in BOOLEAN /\ session \in BOOLEAN
  /\ receiver \in BOOLEAN /\ done \in BOOLEAN

AudioOnly(n) == \A i \in 1..n : channel[i][1] = "audio"

\* The chunks up to the first end follow on those received.
InSequence ==
  receiver /\ ~done =>
    \A i \in DOMAIN channel :
      AudioOnly(i) => channel[i] = Audio(Len(received) + i)

\* As long as no end was sent, the producer is at the next chunk, or has not
\* begun.
AtNextChunk ==
  receiver /\ ~done /\ AudioOnly(Len(channel)) =>
    /\ pc \in Working => chunk = Len(received) + Len(channel) + 1
    /\ pc = "idle" => received = <<>> /\ channel = <<>>

IInv == Typed /\ InSequence /\ AtNextChunk /\ InOrder

LEMMA InitIInv == Init => IInv
<1> SUFFICES ASSUME Init PROVE IInv
  OBVIOUS
<1>1. /\ cancelled \in BOOLEAN /\ session \in BOOLEAN
      /\ receiver \in BOOLEAN /\ done \in BOOLEAN
  BY Zenon DEF Init
<1>2. /\ pc = "idle" /\ chunk = 1 /\ late = 0
      /\ channel = <<>> /\ received = <<>>
  BY DEF Init
<1>3. Typed
  BY <1>1, <1>2 DEF Typed
<1> QED BY <1>2, <1>3 DEF IInv, InSequence, AtNextChunk, InOrder, Working

-----------------------------------------------------------------------------
\* A message is put behind those in the channel.
LEMMA AppendFacts ==
  ASSUME Typed, NEW message \in {"audio", "done", "error"} \X Nat,
         channel' = Append(channel, message)
  PROVE  /\ channel' \in Seq({"audio", "done", "error"} \X Nat)
         /\ Len(channel) \in Nat /\ DOMAIN channel = 1..Len(channel)
         /\ Len(channel') = Len(channel) + 1
         /\ DOMAIN channel' = 1..(Len(channel) + 1)
         /\ \A i \in 1..Len(channel) : channel'[i] = channel[i]
         /\ channel'[Len(channel) + 1] = message
BY DEF Typed

\* Sending an end: nothing behind it counts.
LEMMA EndSent ==
  ASSUME IInv, NEW e \in Ends, Send(End(e)), UNCHANGED <<receiver, done, received>>
  PROVE  /\ channel' \in Seq({"audio", "done", "error"} \X Nat)
         /\ InSequence' /\ AtNextChunk'
<1>1. CASE ~receiver
  BY <1>1 DEF Send, IInv, Typed, InSequence, AtNextChunk
<1>2. CASE receiver
  <2>1. End(e) \in {"audio", "done", "error"} \X Nat /\ End(e)[1] # "audio"
    BY DEF Ends, End
  <2>2. channel' = Append(channel, End(e))
    BY <1>2 DEF Send
  <2>3. /\ channel' \in Seq({"audio", "done", "error"} \X Nat)
        /\ Len(channel) \in Nat /\ DOMAIN channel = 1..Len(channel)
        /\ Len(channel') = Len(channel) + 1
        /\ DOMAIN channel' = 1..(Len(channel) + 1)
        /\ \A i \in 1..Len(channel) : channel'[i] = channel[i]
        /\ channel'[Len(channel) + 1] = End(e)
    BY <2>1, <2>2, AppendFacts DEF IInv
  <2>4. ASSUME NEW i \in DOMAIN channel', AudioOnly(i)'
        PROVE  i \in DOMAIN channel /\ AudioOnly(i) /\ channel'[i] = channel[i]
    <3>1. i # Len(channel) + 1
      BY <2>1, <2>3, <2>4 DEF AudioOnly
    <3> QED BY <2>3, <2>4, <3>1 DEF AudioOnly
  <2>5. InSequence'
    BY <2>4 DEF IInv, InSequence
  <2>6. \A n : n = Len(channel) + 1 => ~AudioOnly(n)'
    BY <2>1, <2>3 DEF AudioOnly
  <2>7. ~AudioOnly(Len(channel))'
    BY <2>3, <2>6
  <2> QED BY <2>3, <2>5, <2>7 DEF AtNextChunk
<1> QED BY <1>1, <1>2 DEF IInv, Typed

\* Sending a chunk.
LEMMA SendAudioIInv == ASSUME IInv, SendAudio PROVE IInv'
<1>1. /\ pc = "send" /\ Send(Audio(chunk)) /\ AfterSend
      /\ UNCHANGED <<cancelled, session, receiver, done, received>>
      /\ late' = IF cancelled /\ receiver THEN late + 1 ELSE late
  BY DEF SendAudio
<1>2. /\ pc' \in {"synthesize", "finish"} /\ chunk' \in Nat /\ late' \in Nat
      /\ pc' = "synthesize" => chunk' = chunk + 1
  BY <1>1 DEF AfterSend, IInv, Typed
<1>3. InOrder'
  BY <1>1 DEF IInv, InOrder
<1>4. CASE ~receiver
  BY <1>1, <1>2, <1>3, <1>4
     DEF Send, IInv, Typed, InSequence, AtNextChunk, Working
<1>5. CASE receiver
  <2>1. Audio(chunk) \in {"audio", "done", "error"} \X Nat /\ Audio(chunk)[1] = "audio"
    BY DEF Audio, IInv, Typed
  <2>2. channel' = Append(channel, Audio(chunk))
    BY <1>1, <1>5 DEF Send
  <2>3. /\ channel' \in Seq({"audio", "done", "error"} \X Nat)
        /\ Len(channel) \in Nat /\ DOMAIN channel = 1..Len(channel)
        /\ Len(channel') = Len(channel) + 1
        /\ DOMAIN channel' = 1..(Len(channel) + 1)
        /\ \A i \in 1..Len(channel) : channel'[i] = channel[i]
        /\ channel'[Len(channel) + 1] = Audio(chunk)
    BY <2>1, <2>2, AppendFacts DEF IInv
  <2>4. ASSUME NEW n \in Nat, n >= Len(channel), AudioOnly(n)'
        PROVE  AudioOnly(Len(channel))
    BY <2>3, <2>4 DEF AudioOnly
  <2>5. ~done /\ AudioOnly(Len(channel)) =>
          chunk = Len(received) + Len(channel) + 1
    BY <1>1, <1>5 DEF IInv, AtNextChunk, Working
  <2>6. InSequence'
    <3> SUFFICES ASSUME ~done, NEW i \in DOMAIN channel', AudioOnly(i)'
                 PROVE  channel'[i] = Audio(Len(received) + i)
      BY <1>1 DEF InSequence, Audio
    <3>1. CASE i = Len(channel) + 1
      <4>1. AudioOnly(Len(channel))
        BY <2>3, <2>4, <3>1
      <4>2. Len(received) \in Nat
        BY DEF IInv, Typed
      <4>3. chunk = Len(received) + i
        BY <2>3, <2>5, <3>1, <4>1, <4>2
      <4> QED BY <2>3, <3>1, <4>3
    <3>2. CASE i # Len(channel) + 1
      <4>1. i \in DOMAIN channel /\ AudioOnly(i) /\ channel'[i] = channel[i]
        BY <2>3, <3>2 DEF AudioOnly
      <4> QED BY <1>5, <4>1 DEF IInv, InSequence
    <3> QED BY <3>1, <3>2
  <2>7. AtNextChunk'
    <3>1. Len(received) \in Nat /\ chunk \in Nat
      BY DEF IInv, Typed
    <3>2. AudioOnly(Len(channel))' => AudioOnly(Len(channel))
      BY <2>3, <2>4
    <3> QED BY <1>1, <1>2, <2>3, <2>5, <3>1, <3>2 DEF AtNextChunk, Working
  <2> QED BY <1>1, <1>2, <1>3, <2>3, <2>6, <2>7 DEF IInv, Typed, Working
<1> QED BY <1>4, <1>5 DEF IInv, Typed

\* Receiving the first message of the channel.
LEMMA RecvIInv == ASSUME IInv, Recv PROVE IInv'
<1> DEFINE message == Head(channel)
<1>1. /\ receiver /\ ~done /\ channel # <<>>
      /\ done' = (message[1] \in Ends)
      /\ received' = IF message[1] = "audio" THEN Append(received, message[2]) ELSE received
      /\ channel' = Tail(channel)
      /\ UNCHANGED <<pc, chunk, drives, cancelled, delivered, session, receiver, late>>
  BY DEF Recv, producer
<1>2. /\ message \in {"audio", "done", "error"} \X Nat /\ message = channel[1]
      /\ Len(channel) \in Nat \ {0} /\ DOMAIN channel = 1..Len(channel)
      /\ Len(channel') = Len(channel) - 1
      /\ DOMAIN channel' = 1..(Len(channel) - 1)
      /\ channel' \in Seq({"audio", "done", "error"} \X Nat)
      /\ \A i \in 1..(Len(channel) - 1) : channel'[i] = channel[i + 1]
  BY <1>1 DEF IInv, Typed
<1>3. message[1] \in {"audio", "done", "error"} /\ message[2] \in Nat
  BY <1>2
<1>4. received \in Seq(Nat) /\ Len(received) \in Nat
  BY DEF IInv, Typed
<1>5. received' \in Seq(Nat) /\ done' \in BOOLEAN
  BY <1>1, <1>3, <1>4
<1> HIDE DEF message
<1>6. CASE message[1] = "audio"
  <2>1. AudioOnly(1)
    BY <1>2, <1>6 DEF AudioOnly
  <2>2. message = Audio(Len(received) + 1)
    BY <1>1, <1>2, <2>1 DEF IInv, InSequence
  <2>3. /\ received' = Append(received, Len(received) + 1)
        /\ Len(received') = Len(received) + 1
    BY <1>1, <1>4, <1>6, <2>2 DEF Audio
  <2>4. \A n \in Nat : n <= Len(channel) - 1 /\ AudioOnly(n)' => AudioOnly(n + 1)
    <3> SUFFICES ASSUME NEW n \in Nat, n <= Len(channel) - 1, AudioOnly(n)',
                        NEW i \in 1..(n + 1)
                 PROVE  channel[i][1] = "audio"
      BY DEF AudioOnly
    <3>1. CASE i = 1
      BY <1>2, <1>6, <3>1
    <3>2. CASE i # 1
      <4>1. i - 1 \in 1..n /\ i - 1 \in 1..(Len(channel) - 1) /\ (i - 1) + 1 = i
        BY <1>2, <3>2
      <4>2. channel'[i - 1] = channel[i]
        BY <1>2, <4>1
      <4> QED BY <4>1, <4>2 DEF AudioOnly
    <3> QED BY <3>1, <3>2
  <2>5. InSequence'
    <3> SUFFICES ASSUME NEW i \in 1..(Len(channel) - 1), AudioOnly(i)'
                 PROVE  channel'[i] = Audio(Len(received') + i)
      BY <1>2 DEF InSequence, Audio
    <3>1. AudioOnly(i + 1) /\ i + 1 \in DOMAIN channel
      BY <1>2, <2>4
    <3>2. channel[i + 1] = Audio(Len(received) + (i + 1))
      BY <1>1, <3>1 DEF IInv, InSequence
    <3>3. Len(received) + (i + 1) = Len(received') + i
      BY <1>4, <2>3
    <3> QED BY <1>2, <3>2, <3>3
  <2>6. AtNextChunk'
    <3>1. AudioOnly(Len(channel))' => AudioOnly(Len(channel))
      <4>1. Len(channel) - 1 \in Nat /\ (Len(channel) - 1) + 1 = Len(channel)
        BY <1>2
      <4> QED BY <1>2, <2>4, <4>1
    <3> QED BY <1>1, <1>2, <1>4, <2>3, <3>1 DEF IInv, Typed, AtNextChunk
  <2>7. InOrder'
    <3> DEFINE new == received'
    <3>1. \A k \in 1..Len(new) : new[k] = k
      BY <1>4, <2>3 DEF IInv, InOrder
    <3>2. DOMAIN new = 1..Len(new) /\ new = [k \in DOMAIN new |-> new[k]]
      BY <1>5
    <3> HIDE DEF new
    <3>3. new = [k \in 1..Len(new) |-> k]
      BY <3>1, <3>2
    <3> QED BY <3>3 DEF InOrder, new
  <2> QED BY <1>1, <1>2, <1>5, <2>5, <2>6, <2>7 DEF IInv, Typed
<1>7. CASE message[1] # "audio"
  <2>1. done' /\ received' = received
    BY <1>1, <1>3, <1>7 DEF Ends
  <2> QED BY <1>1, <1>2, <1>5, <2>1 DEF IInv, Typed, InSequence, AtNextChunk, InOrder
<1> QED BY <1>6, <1>7

LEMMA StepIInv == IInv /\ [Next]_vars => IInv'
<1> SUFFICES ASSUME IInv, [Next]_vars PROVE IInv'
  OBVIOUS
<1> USE DEF IInv, Typed, Working
<1>1. CASE UNCHANGED vars
  BY <1>1 DEF vars, producer, shared, InSequence, AtNextChunk, InOrder, AudioOnly
<1>2. CASE Drive
  <2>1. /\ pc = "idle" /\ chunk' = 1
        /\ UNCHANGED <<cancelled, session, receiver, done, received, late>>
    BY <1>2 DEF Drive
  <2>2. CASE TotalChunks = 0
    <3>1. Send(End("done")) /\ "done" \in Ends /\ pc' = pc
      BY <1>2, <2>2 DEF Drive, Ends
    <3>2. /\ channel' \in Seq({"audio", "done", "error"} \X Nat)
          /\ InSequence' /\ AtNextChunk'
      BY <2>1, <3>1, EndSent
    <3> QED BY <2>1, <3>1, <3>2 DEF InOrder
  <2>3. CASE TotalChunks # 0
    <3>1. pc' = "synthesize" /\ channel' = channel
      BY <1>2, <2>3 DEF Drive
    <3>2. InSequence'
      BY <2>1, <3>1 DEF InSequence, AudioOnly
    <3>3. AtNextChunk'
      BY <2>1, <3>1 DEF AtNextChunk, AudioOnly
    <3> QED BY <2>1, <3>1, <3>2, <3>3 DEF InOrder
  <2> QED BY <2>2, <2>3
<1>3. CASE Synthesize \/ CheckCancel \/ Count
  <2>1. /\ pc \in Working /\ pc' \in {"check", "count", "send", "finish", "fail"}
        /\ UNCHANGED <<chunk, channel, cancelled, session, receiver, done, received, late>>
    BY <1>3 DEF Synthesize, CheckCancel, Count, shared
  <2> QED BY <2>1 DEF InSequence, AtNextChunk, InOrder, AudioOnly
<1>4. CASE SendAudio
  BY <1>4, SendAudioIInv
<1>5. CASE Finish
  <2>1. /\ pc' = "idle"
        /\ UNCHANGED <<chunk, cancelled, session, receiver, done, received, late>>
        /\ \E e \in Ends : Send(End(e))
    BY <1>5 DEF Finish, FinishWith, Ends
  <2>2. /\ channel' \in Seq({"audio", "done", "error"} \X Nat)
        /\ InSequence' /\ AtNextChunk'
    BY <2>1, EndSent
  <2> QED BY <2>1, <2>2 DEF InOrder
<1>6. CASE Recv
  BY <1>6, RecvIInv
<1>7. CASE Disconnected
  BY <1>7 DEF Disconnected, producer, shared, InSequence, AtNextChunk, InOrder
<1>8. CASE Cancel \/ DropSession
  <2>1. /\ UNCHANGED <<producer, channel, receiver, done, received, late>>
        /\ cancelled' \in BOOLEAN /\ session' \in BOOLEAN
    BY <1>8 DEF Cancel, DropSession, shared
  <2> QED BY <2>1 DEF producer, InSequence, AtNextChunk, InOrder, AudioOnly
<1>9. CASE DropReceiver
  <2>1. receiver' \in BOOLEAN /\ ~receiver'
    BY <1>9 DEF DropReceiver
  <2>2. /\ channel' = <<>>
        /\ UNCHANGED <<pc, chunk, cancelled, session, done, received, late>>
    BY <1>9 DEF DropReceiver, producer
  <2> QED BY <2>1, <2>2 DEF InSequence, AtNextChunk, InOrder
<1> QED
  BY <1>1, <1>2, <1>3, <1>4, <1>5, <1>6, <1>7, <1>8, <1>9 DEF Next, Produce, Consume

\* For any number of chunks and calls: the consumer gets the chunks in order,
\* without gaps or repetitions.
THEOREM ChunksInOrder == Spec => []InOrder
<1>1. IInv => InOrder
  BY DEF IInv
<1> QED BY <1>1, InitIInv, StepIInv, PTL DEF Spec

-----------------------------------------------------------------------------
\* The chunk sent after a cancel is the one whose check had passed: before it
\* none was sent, behind it the next check ends the drive, also a later one,
\* for the flag is never reset.
LateInv ==
  /\ late \in {0, 1}
  /\ late = 1 => cancelled /\ pc \notin {"count", "send"}
  /\ cancelled \in BOOLEAN

\* For any number of chunks and calls of drive: at most one chunk is sent
\* after the session was cancelled.
THEOREM CancelStops == Spec => []OneChunkAfterCancel
<1>1. Init => LateInv
  <2> SUFFICES ASSUME Init PROVE LateInv
    OBVIOUS
  <2>1. cancelled \in BOOLEAN
    BY Zenon DEF Init
  <2> QED BY <2>1 DEF Init, LateInv
<1>2. LateInv /\ [Next]_vars => LateInv'
  <2> SUFFICES ASSUME LateInv, [Next]_vars PROVE LateInv'
    OBVIOUS
  <2> USE DEF LateInv
  <2>1. CASE UNCHANGED vars \/ Consume \/ Cancel \/ DropSession \/ DropReceiver
    BY <2>1 DEF vars, producer, shared, Consume, Recv, Disconnected, Cancel,
       DropSession, DropReceiver
  <2>2. CASE Drive \/ Synthesize \/ CheckCancel \/ Count \/ Finish
    BY <2>2 DEF Drive, Synthesize, CheckCancel, Count, Finish, shared
  <2>3. CASE SendAudio
    BY <2>3 DEF SendAudio, AfterSend
  <2> QED BY <2>1, <2>2, <2>3 DEF Next, Produce
<1>3. LateInv => OneChunkAfterCancel
  BY DEF LateInv, OneChunkAfterCancel
<1> QED BY <1>1, <1>2, <1>3, PTL DEF Spec

-----------------------------------------------------------------------------
\* The positions of the chunks in the channel; InChannel is their number.
AudioAt(c) == {i \in DOMAIN c : c[i][1] = "audio"}

\* A message behind the others counts when it is a chunk.
LEMMA AppendCounts ==
  ASSUME NEW c \in Seq({"audio", "done", "error"} \X Nat),
         NEW m \in {"audio", "done", "error"} \X Nat
  PROVE  /\ Cardinality(AudioAt(c)) \in Nat
         /\ Cardinality(AudioAt(Append(c, m))) =
              Cardinality(AudioAt(c)) + (IF m[1] = "audio" THEN 1 ELSE 0)
<1>1. Len(c) \in Nat /\ DOMAIN c = 1..Len(c) /\ IsFiniteSet(1..Len(c))
  BY FS_Interval
<1>2. IsFiniteSet(AudioAt(c))
  BY <1>1, FS_Subset DEF AudioAt
<1>3. Cardinality(AudioAt(c)) \in Nat
  BY <1>2, FS_CardinalityType
<1>4. /\ DOMAIN Append(c, m) = 1..(Len(c) + 1)
      /\ \A i \in 1..Len(c) : Append(c, m)[i] = c[i]
      /\ Append(c, m)[Len(c) + 1] = m
  OBVIOUS
<1>5. CASE m[1] = "audio"
  <2>1. AudioAt(Append(c, m)) = AudioAt(c) \cup {Len(c) + 1}
    BY <1>1, <1>4, <1>5 DEF AudioAt
  <2>2. Len(c) + 1 \notin AudioAt(c)
    BY <1>1 DEF AudioAt
  <2> QED BY <1>2, <1>3, <1>5, <2>1, <2>2, FS_AddElement
<1>6. CASE m[1] # "audio"
  <2>1. AudioAt(Append(c, m)) = AudioAt(c)
    BY <1>1, <1>4, <1>6 DEF AudioAt
  <2> QED BY <1>3, <1>6, <2>1
<1> QED BY <1>5, <1>6

\* Taking the first message takes it from the count.
LEMMA TailCounts ==
  ASSUME NEW c \in Seq({"audio", "done", "error"} \X Nat), c # <<>>
  PROVE  /\ Cardinality(AudioAt(Tail(c))) \in Nat
         /\ Cardinality(AudioAt(c)) =
              Cardinality(AudioAt(Tail(c))) + (IF Head(c)[1] = "audio" THEN 1 ELSE 0)
<1> DEFINE S == AudioAt(c) \ {1}
           T == AudioAt(Tail(c))
           down == [i \in S |-> i - 1]
<1>1. /\ Len(c) \in Nat \ {0} /\ DOMAIN c = 1..Len(c) /\ IsFiniteSet(1..Len(c))
      /\ Head(c) = c[1]
  BY FS_Interval
<1>2. /\ DOMAIN Tail(c) = 1..(Len(c) - 1)
      /\ \A i \in 1..(Len(c) - 1) : Tail(c)[i] = c[i + 1]
  BY <1>1
<1>3. IsFiniteSet(AudioAt(c)) /\ Cardinality(AudioAt(c)) \in Nat
  BY <1>1, FS_Subset, FS_CardinalityType DEF AudioAt
<1>4. /\ \A i \in S : i \in 2..Len(c) /\ i - 1 \in T
      /\ \A j \in T : j \in Nat /\ j + 1 \in S
  <2>1. ASSUME NEW i \in S PROVE i \in 2..Len(c) /\ i - 1 \in T
    <3>1. i \in 2..Len(c) /\ c[i][1] = "audio"
      BY <1>1 DEF AudioAt
    <3>2. i - 1 \in 1..(Len(c) - 1) /\ (i - 1) + 1 = i
      BY <1>1, <3>1
    <3>3. Tail(c)[i - 1] = c[i]
      BY <1>2, <3>2
    <3> QED BY <1>2, <3>1, <3>2, <3>3 DEF AudioAt
  <2>2. ASSUME NEW j \in T PROVE j \in Nat /\ j + 1 \in S
    <3>1. j \in 1..(Len(c) - 1) /\ Tail(c)[j][1] = "audio"
      BY <1>2 DEF AudioAt
    <3> QED BY <1>1, <1>2, <3>1 DEF AudioAt
  <2> QED BY <2>1, <2>2
<1>5. ExistsBijection(S, T)
  <2> HIDE DEF S, T
  <2>1. \A i \in S : i \in Nat /\ i - 1 \in T
    BY <1>4
  <2>2. \A j \in T : (j + 1) - 1 = j
    BY <1>4
  <2>3. down \in [S -> T]
    BY <2>1
  <2>4. \A a, b \in S : down[a] = down[b] => a = b
    BY <2>1
  <2>5. \A j \in T : \E i \in S : down[i] = j
    <3> TAKE j \in T
    <3>1. j + 1 \in S /\ down[j + 1] = j
      BY <1>4, <2>2
    <3> QED BY <3>1
  <2>6. down \in Bijection(S, T)
    BY <2>3, <2>4, <2>5 DEF Bijection, Injection, Surjection, IsInjective
  <2> QED BY <2>6 DEF ExistsBijection
<1>6. IsFiniteSet(S) /\ Cardinality(S) \in Nat
  BY <1>3, FS_RemoveElement, FS_CardinalityType
<1>7. Cardinality(T) = Cardinality(S)
  <2> HIDE DEF S, T
  <2> QED BY <1>5, <1>6, FS_Bijection
<1>8. 1 \in AudioAt(c) <=> Head(c)[1] = "audio"
  BY <1>1 DEF AudioAt
<1>9. Cardinality(S) = IF 1 \in AudioAt(c) THEN Cardinality(AudioAt(c)) - 1
                       ELSE Cardinality(AudioAt(c))
  BY <1>3, FS_RemoveElement
<1> HIDE DEF S, T
<1> QED BY <1>3, <1>6, <1>7, <1>8, <1>9 DEF T

CountInv ==
  /\ delivered \in Nat
  /\ Len(received) + Cardinality(AudioAt(channel)) + (IF pc = "send" THEN 1 ELSE 0)
       <= delivered
  /\ receiver =>
       delivered <= Len(received) + Cardinality(AudioAt(channel))
                      + (IF pc = "send" THEN 1 ELSE 0)

\* The numbers that the invariant adds up.
LEMMA CountTypes ==
  ASSUME Typed
  PROVE  Len(received) \in Nat /\ Cardinality(AudioAt(channel)) \in Nat
<1>1. channel \in Seq({"audio", "done", "error"} \X Nat) /\ received \in Seq(Nat)
  BY DEF Typed
<1>2. Cardinality(AudioAt(channel)) \in Nat
  <2>1. End("done") \in {"audio", "done", "error"} \X Nat
    BY DEF End
  <2> QED BY <1>1, <2>1, AppendCounts
<1> QED BY <1>1, <1>2

\* What a send leaves in the channel.
LEMMA SendCounts ==
  ASSUME Typed, NEW m \in {"audio", "done", "error"} \X Nat, Send(m)
  PROVE  Cardinality(AudioAt(channel')) =
           Cardinality(AudioAt(channel))
             + (IF receiver /\ m[1] = "audio" THEN 1 ELSE 0)
<1>1. channel \in Seq({"audio", "done", "error"} \X Nat) /\ receiver \in BOOLEAN
  BY DEF Typed
<1>2. CASE receiver
  <2>1. channel' = Append(channel, m)
    BY <1>2 DEF Send
  <2> QED BY <1>1, <1>2, <2>1, AppendCounts
<1>3. CASE ~receiver
  <2>1. channel' = channel
    BY <1>3 DEF Send
  <2> QED BY <1>3, <2>1, CountTypes
<1> QED BY <1>1, <1>2, <1>3

LEMMA StepCountInv == IInv /\ CountInv /\ [Next]_vars => CountInv'
<1> SUFFICES ASSUME IInv, CountInv, [Next]_vars PROVE CountInv'
  OBVIOUS
<1>1. /\ Typed /\ Len(received) \in Nat /\ Cardinality(AudioAt(channel)) \in Nat
      /\ delivered \in Nat /\ receiver \in BOOLEAN
      /\ channel \in Seq({"audio", "done", "error"} \X Nat) /\ received \in Seq(Nat)
  BY CountTypes DEF IInv, Typed, CountInv
<1>2. CASE UNCHANGED <<channel, delivered, received>> /\ (receiver' => receiver)
           /\ (pc = "send" <=> pc' = "send")
  BY <1>1, <1>2 DEF CountInv
<1>3. CASE UNCHANGED vars \/ Synthesize \/ CheckCancel \/ Disconnected \/ Cancel \/ DropSession
  <2>1. /\ UNCHANGED <<channel, delivered, received, receiver>>
        /\ pc = "send" <=> pc' = "send"
    BY <1>3 DEF vars, producer, shared, Synthesize, CheckCancel, Disconnected, Cancel,
       DropSession
  <2> QED BY <1>2, <2>1
<1>4. CASE Drive
  <2>1. pc # "send" /\ pc' # "send" /\ UNCHANGED <<delivered, receiver, received>>
    BY <1>4 DEF Drive
  <2>2. CASE TotalChunks = 0
    <3>1. /\ Send(End("done")) /\ End("done")[1] = "done"
          /\ End("done") \in {"audio", "done", "error"} \X Nat
      BY <1>4, <2>2 DEF Drive, End
    <3>2. Cardinality(AudioAt(channel')) = Cardinality(AudioAt(channel))
      BY <1>1, <3>1, SendCounts
    <3> QED BY <1>1, <2>1, <3>2 DEF CountInv
  <2>3. CASE TotalChunks # 0
    <3>1. channel' = channel
      BY <1>4, <2>3 DEF Drive
    <3> QED BY <1>2, <2>1, <3>1
  <2> QED BY <2>2, <2>3
<1>5. CASE Count
  <2>1. /\ pc = "count" /\ pc' = "send" /\ delivered' = delivered + 1
        /\ UNCHANGED <<channel, received, receiver>>
    BY <1>5 DEF Count
  <2> QED BY <1>1, <2>1 DEF CountInv
<1>6. CASE SendAudio
  <2>1. /\ pc = "send" /\ pc' # "send" /\ Send(Audio(chunk))
        /\ UNCHANGED <<delivered, received, receiver>>
    BY <1>6 DEF SendAudio, AfterSend
  <2>2. Audio(chunk) \in {"audio", "done", "error"} \X Nat /\ Audio(chunk)[1] = "audio"
    BY DEF Audio, IInv, Typed
  <2>3. Cardinality(AudioAt(channel')) =
          Cardinality(AudioAt(channel)) + (IF receiver THEN 1 ELSE 0)
    BY <1>1, <2>1, <2>2, SendCounts
  <2> QED BY <1>1, <2>1, <2>3 DEF CountInv
<1>7. CASE Finish
  <2>1. /\ pc # "send" /\ pc' # "send" /\ UNCHANGED <<delivered, received, receiver>>
        /\ \E e \in Ends : Send(End(e))
    BY <1>7 DEF Finish, FinishWith, Ends
  <2>2. PICK m \in {"audio", "done", "error"} \X Nat : Send(m) /\ m[1] # "audio"
    BY <2>1 DEF End, Ends
  <2>4. Cardinality(AudioAt(channel')) = Cardinality(AudioAt(channel))
    BY <1>1, <2>2, SendCounts
  <2> QED BY <1>1, <2>1, <2>4 DEF CountInv
<1>8. CASE Recv
  <2>1. /\ channel # <<>> /\ channel' = Tail(channel)
        /\ received' = IF Head(channel)[1] = "audio"
                       THEN Append(received, Head(channel)[2]) ELSE received
        /\ UNCHANGED <<pc, delivered, receiver>>
    BY <1>8 DEF Recv, producer
  <2>2. /\ Cardinality(AudioAt(channel')) \in Nat
        /\ Cardinality(AudioAt(channel)) = Cardinality(AudioAt(channel'))
             + (IF Head(channel)[1] = "audio" THEN 1 ELSE 0)
    BY <1>1, <2>1, TailCounts
  <2>3. Head(channel)[2] \in Nat
    BY <1>1, <2>1
  <2>4. Len(received') = Len(received) + (IF Head(channel)[1] = "audio" THEN 1 ELSE 0)
    BY <1>1, <2>1, <2>3
  <2>5. Len(received') + Cardinality(AudioAt(channel')) =
          Len(received) + Cardinality(AudioAt(channel))
    BY <1>1, <2>2, <2>4
  <2>6. pc' = pc /\ delivered' = delivered /\ receiver' = receiver
    BY <2>1
  <2> QED BY <2>5, <2>6 DEF CountInv
<1>9. CASE DropReceiver
  <2>1. /\ channel' = <<>> /\ ~receiver' /\ UNCHANGED <<pc, delivered, received>>
    BY <1>9 DEF DropReceiver, producer
  <2>2. Cardinality(AudioAt(channel')) = 0
    <3>1. AudioAt(channel') = {}
      BY <2>1 DEF AudioAt
    <3> QED BY <3>1, FS_EmptySet
  <2>3. Len(received) + (IF pc = "send" THEN 1 ELSE 0) <= delivered
    BY <1>1 DEF CountInv
  <2>4. Len(received') + 0 + (IF pc' = "send" THEN 1 ELSE 0) <= delivered'
    BY <1>1, <2>1, <2>3
  <2>5. delivered' \in Nat
    BY <1>1, <2>1
  <2> QED BY <2>1, <2>2, <2>4, <2>5 DEF CountInv
<1> QED
  BY <1>3, <1>4, <1>5, <1>6, <1>7, <1>8, <1>9 DEF Next, Produce, Consume

\* For any number of chunks and calls of drive: the delivered count is never
\* behind what the consumer was given, and ahead of it only by the chunks in
\* the channel and the one between count and send.
THEOREM CountKeepsUp == Spec => []CountNotBehind
<1>1. Init => CountInv
  <2> SUFFICES ASSUME Init PROVE CountInv
    OBVIOUS
  <2>1. AudioAt(channel) = {} /\ received = <<>> /\ delivered = 0 /\ pc = "idle"
    BY DEF Init, AudioAt
  <2> QED BY <2>1, FS_EmptySet DEF CountInv
<1>2. IInv /\ CountInv => CountNotBehind
  <2> SUFFICES ASSUME IInv, CountInv PROVE CountNotBehind
    OBVIOUS
  <2>1. InChannel = Cardinality(AudioAt(channel))
    BY DEF InChannel, AudioAt
  <2>2. Len(received) \in Nat /\ Cardinality(AudioAt(channel)) \in Nat
    BY CountTypes DEF IInv
  <2> QED BY <2>1, <2>2 DEF CountInv, CountNotBehind
<1> QED BY <1>1, <1>2, InitIInv, StepIInv, StepCountInv, PTL DEF Spec
=============================================================================
