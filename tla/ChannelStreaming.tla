-------------------------- MODULE ChannelStreaming --------------------------
(***************************************************************************)
(* A channel streaming session (compiled_kokoro_channel_streaming.rs): a    *)
(* producer thread in drive synthesizes chunks and sends them over a        *)
(* channel, a consumer thread pulls them, and either side, or any other     *)
(* thread, may cancel.  One action is one access to shared state.           *)
(***************************************************************************)
EXTENDS Naturals, Sequences, FiniteSets

CONSTANTS TotalChunks,   \* total_chunks
          MaxDrives      \* calls of drive considered

ASSUME StreamingAssumption == TotalChunks \in Nat /\ MaxDrives \in Nat

VARIABLES pc,         \* producer: idle, synthesize, check, count, send, finish, fail
          chunk,      \* the chunk being synthesized or sent
          drives,     \* calls of drive begun
          channel,    \* messages sent and not yet received
          cancelled,  \* cancel_flag
          delivered,  \* chunks_delivered
          session,    \* the session, which keeps a sender, is alive
          receiver,   \* the receiver is alive
          done,       \* the receiver has seen the end
          received,   \* audio chunks the consumer has pulled, in order
          late        \* ghost: chunks sent since the flag was set

producer == <<pc, chunk, drives>>
shared == <<channel, cancelled, delivered>>
vars == <<producer, shared, session, receiver, done, received, late>>

Chunks == 1..TotalChunks
Ends == {"done", "error"}
Audio(k) == <<"audio", k>>
End(e) == <<e, 0>>

Init ==
  /\ pc = "idle" /\ chunk = 1 /\ drives = 0
  /\ channel = <<>>
  /\ cancelled = FALSE
  /\ delivered = 0
  /\ session = TRUE /\ receiver = TRUE
  /\ done = FALSE
  /\ received = <<>>
  /\ late = 0

\* A send fails when the receiver is gone.
Send(message) == channel' = IF receiver THEN Append(channel, message) ELSE channel

\* drive: with no chunks the end is sent at once.
Drive ==
  /\ pc = "idle" /\ session /\ drives < MaxDrives
  /\ drives' = drives + 1
  /\ chunk' = 1
  /\ IF TotalChunks = 0 THEN Send(End("done")) /\ UNCHANGED pc
     ELSE pc' = "synthesize" /\ UNCHANGED channel
  /\ UNCHANGED <<cancelled, delivered, session, receiver, done, received, late>>

\* synthesize_streaming_callback: the next chunk, or an error.
Synthesize ==
  /\ pc = "synthesize"
  /\ pc' \in {"check", "fail"}
  /\ UNCHANGED <<chunk, drives, shared, session, receiver, done, received, late>>

IgnoreCancel ==
  /\ pc = "check"
  /\ pc' = "count"
  /\ UNCHANGED <<chunk, drives, shared, session, receiver, done, received, late>>

\* The callback: look at the flag, count, send.
CheckCancel ==
  /\ pc = "check"
  /\ pc' = IF cancelled THEN "finish" ELSE "count"
  /\ UNCHANGED <<chunk, drives, shared, session, receiver, done, received, late>>

CountTwice ==
  /\ pc = "count"
  /\ delivered' = delivered + 2
  /\ pc' = "send"
  /\ UNCHANGED <<chunk, drives, channel, cancelled, session, receiver, done,
                 received, late>>

Count ==
  /\ pc = "count"
  /\ delivered' = delivered + 1
  /\ pc' = "send"
  /\ UNCHANGED <<chunk, drives, channel, cancelled, session, receiver, done,
                 received, late>>

AfterSend ==
  IF receiver /\ chunk < TotalChunks
  THEN pc' = "synthesize" /\ chunk' = chunk + 1
  ELSE pc' = "finish" /\ UNCHANGED chunk

SendAudio ==
  /\ pc = "send"
  /\ Send(Audio(chunk))
  /\ late' = IF cancelled /\ receiver THEN late + 1 ELSE late
  /\ AfterSend
  /\ UNCHANGED <<drives, cancelled, delivered, session, receiver, done, received>>

\* drive ends: Done, also after a cancel, or Error.
SendNothing(message) == UNCHANGED channel

FinishWith(message) == Send(message)

Finish ==
  /\ pc \in {"finish", "fail"}
  /\ FinishWith(End(IF pc = "finish" THEN "done" ELSE "error"))
  /\ pc' = "idle"
  /\ UNCHANGED <<chunk, drives, cancelled, delivered, session, receiver, done,
                 received, late>>

\* cancel, through the session or through the receiver.
Cancel ==
  /\ session \/ receiver
  /\ cancelled' = TRUE
  /\ UNCHANGED <<producer, channel, delivered, session, receiver, done, received, late>>

\* drive borrows the session, so it is not dropped meanwhile.
DropSession ==
  /\ session /\ pc = "idle"
  /\ session' = FALSE
  /\ UNCHANGED <<producer, shared, receiver, done, received, late>>

DropReceiver ==
  /\ receiver
  /\ receiver' = FALSE /\ channel' = <<>>
  /\ UNCHANGED <<producer, cancelled, delivered, session, done, received, late>>

RecvPastEnd ==
  /\ receiver /\ channel # <<>>
  /\ LET message == Head(channel)
     IN  /\ done' = (message[1] \in Ends)
         /\ received' = IF message[1] = "audio" THEN Append(received, message[2])
                        ELSE received
  /\ channel' = Tail(channel)
  /\ UNCHANGED <<producer, cancelled, delivered, session, receiver, late>>

\* next_chunk and try_next_chunk on a message; the blocking call waits
\* without one, the other returns.
Recv ==
  /\ receiver /\ ~done /\ channel # <<>>
  /\ LET message == Head(channel)
     IN  /\ done' = (message[1] \in Ends)
         /\ received' = IF message[1] = "audio" THEN Append(received, message[2])
                        ELSE received
  /\ channel' = Tail(channel)
  /\ UNCHANGED <<producer, cancelled, delivered, session, receiver, late>>

\* The channel is empty and no sender is left.
Disconnected ==
  /\ receiver /\ ~done /\ channel = <<>> /\ ~session
  /\ done' = TRUE
  /\ UNCHANGED <<producer, shared, session, receiver, received, late>>

Produce == Synthesize \/ CheckCancel \/ Count \/ SendAudio \/ Finish
Consume == Recv \/ Disconnected

Next == Drive \/ Produce \/ Consume \/ Cancel \/ DropSession \/ DropReceiver

Spec == Init /\ [][Next]_vars

\* Synthesis of a chunk returns, and the consumer goes on pulling.
FairSpec == Spec /\ WF_vars(Produce) /\ WF_vars(Consume)
-----------------------------------------------------------------------------
\* However often the session is driven and whenever it is cancelled or fails,
\* the consumer gets the chunks in order, without gaps or repetitions.
InOrder == received = [k \in 1..Len(received) |-> k]

\* After a cancel at most the chunk whose check had already passed is sent.
OneChunkAfterCancel == late <= 1

\* delivered_count runs ahead of what the consumer was given, by the messages
\* in the channel and the chunk between count and send, and never behind.
InChannel == Cardinality({i \in DOMAIN channel : channel[i][1] = "audio"})

CountNotBehind ==
  /\ Len(received) + InChannel <= delivered
  /\ receiver =>
       delivered <= Len(received) + InChannel + (IF pc = "send" THEN 1 ELSE 0)

\* A consumer that keeps pulling comes to the end of every stream that was
\* driven, cancelled or not, although the session is still alive.
StreamEnds == drives > 0 ~> done \/ ~receiver
=============================================================================
