---------------------------- MODULE ZigbeeProofs ----------------------------
(***************************************************************************)
(* Machine-checked proofs about the Zigbee driver and the RF application   *)
(* on it, for every queue length, timeout and number of requests.          *)
(***************************************************************************)
EXTENDS RfApp, SequenceTheorems, TLAPS

USE ZigbeeAssumption

(* The fields of a queue, and of a queue after a send and after a receive. *)
LEMMA QueueFields ==
  ASSUME NEW q \in Q!Queues
  PROVE  /\ q.buff \in [0..QueueLen - 1 -> Kinds \cup {"none"}]
         /\ q.head \in Nat /\ q.head < QueueLen
         /\ q.tail \in Nat /\ q.tail < QueueLen
         /\ q.count \in Nat /\ q.count <= QueueLen
BY DEF Q!Queues

LEMMA QueueSent ==
  ASSUME NEW q \in Q!Queues, NEW kind \in Kinds, ~Q!IsFull(q)
  PROVE  /\ Q!Sent(q, kind) \in Q!Queues
         /\ Q!Sent(q, kind).tail = q.tail
         /\ Q!Sent(q, kind).count = q.count + 1
<1>1. (q.head + 1) % QueueLen \in 0..QueueLen - 1
  BY QueueFields
<1>2. q.count + 1 \in 0..QueueLen
  BY QueueFields DEF Q!IsFull
<1>3. [q.buff EXCEPT ![q.head] = kind] \in [0..QueueLen - 1 -> Kinds \cup {"none"}]
  BY QueueFields
<1> QED BY <1>1, <1>2, <1>3 DEF Q!Sent, Q!Queues

LEMMA QueueReceived ==
  ASSUME NEW q \in Q!Queues, ~Q!IsEmpty(q)
  PROVE  /\ Q!Received(q) \in Q!Queues
         /\ Q!Received(q).tail = (q.tail + 1) % QueueLen
         /\ Q!Received(q).count = q.count - 1
<1>1. (q.tail + 1) % QueueLen \in 0..QueueLen - 1
  BY QueueFields
<1>2. q.count - 1 \in 0..QueueLen
  BY QueueFields DEF Q!IsEmpty
<1> QED BY <1>1, <1>2 DEF Q!Received, Q!Queues

(* The requests, served, being served and waiting, are of known kinds.     *)
RequestsOK ==
  /\ event \in Kinds \cup {"none"} /\ served \in Kinds \cup {"none"}
  /\ event_queue \in Q!Queues

LineOK == line \in Seq(Frames)

(* What waits in the UART, and what buff holds, was sent by the module.    *)
FramesSent ==
  /\ \A i \in 1..Len(line) : line[i].header \in Headers => line[i].header \in answered
  /\ buff \in Headers => buff \in answered

(* The requests keep their kinds: a poll takes the front of the queue.     *)
LEMMA RequestsKept ==
  ASSUME RequestsOK, [Next]_vars
  PROVE  RequestsOK'
<1> USE DEF RequestsOK
<1>1. ASSUME NEW kind \in Kinds, Request(kind)
      PROVE  RequestsOK'
  BY <1>1, QueueSent DEF Request
<1>2. CASE PollIdle \/ PollWait
  BY <1>2 DEF PollIdle, PollWait
<1>3. CASE PollBegin
  <2>1. event_queue' \in Q!Queues
    BY <1>3, QueueReceived DEF PollBegin
  <2>2. Q!Front(event_queue) \in Kinds \cup {"none"}
    BY QueueFields DEF Q!Front
  <2> QED BY <1>3, <2>1, <2>2 DEF PollBegin
<1>4. CASE PollAnswered \/ PollTimedOut
  BY <1>4 DEF PollAnswered, PollTimedOut, Finish
<1>5. ASSUME NEW header \in Headers, ModuleAnswers(header) \/ ModuleSilent(header)
      PROVE  RequestsOK'
  BY <1>5 DEF ModuleAnswers, ModuleSilent
<1>6. CASE Noise \/ UNCHANGED vars
  BY <1>6 DEF Noise, vars
<1> QED BY <1>1, <1>2, <1>3, <1>4, <1>5, <1>6 DEF Next, Poll

(* Only the module adds headers to the line, and says so in answered.      *)
LEMMA FramesKept ==
  ASSUME LineOK, FramesSent, [Next]_vars
  PROVE  LineOK' /\ FramesSent' /\ answered \subseteq answered'
<1> USE DEF LineOK, FramesSent
<1>1. ASSUME NEW frame \in Frames, line' = Append(line, frame), UNCHANGED buff,
             frame.header \in Headers => frame.header \in answered',
             answered \subseteq answered'
      PROVE  LineOK' /\ FramesSent' /\ answered \subseteq answered'
  <2>1. /\ LineOK' /\ Len(line) \in Nat /\ Len(line') = Len(line) + 1
        /\ \A i \in 1..Len(line) : line'[i] = line[i]
        /\ line'[Len(line) + 1] = frame
    BY <1>1, AppendProperties, LenProperties
  <2>2. ASSUME NEW i \in 1..Len(line'), line'[i].header \in Headers
        PROVE  line'[i].header \in answered'
    <3>1. CASE i \in 1..Len(line)
      BY <1>1, <2>1, <2>2, <3>1
    <3>2. CASE i = Len(line) + 1
      BY <1>1, <2>1, <2>2, <3>2
    <3>3. i \in 1..Len(line) \/ i = Len(line) + 1
      BY <2>1
    <3> QED BY <3>1, <3>2, <3>3
  <2> QED BY <1>1, <2>1, <2>2
<1>2. CASE PollAnswered
  <2>1. line' = <<>> /\ LineOK' /\ answered' = answered /\ Len(line') = 0
    BY <1>2, EmptySeq DEF PollAnswered, Finish
  <2>2. buff' \in Headers => buff' \in answered
    <3>1. Head(line) = line[1] /\ 1 \in 1..Len(line)
      BY <1>2, EmptySeq, HeadTailProperties DEF PollAnswered
    <3>2. buff' = line[1].header \/ buff' = buff
      BY <1>2, <3>1 DEF PollAnswered
    <3> QED BY <3>1, <3>2
  <2> QED BY <2>1, <2>2
<1>3. CASE UNCHANGED <<line, buff, answered>>
  BY <1>3
<1>4. ASSUME NEW kind \in Kinds, Request(kind)
      PROVE  UNCHANGED <<line, buff, answered>>
  BY <1>4 DEF Request
<1>5. ASSUME NEW header \in Headers, ModuleSilent(header)
      PROVE  UNCHANGED <<line, buff, answered>>
  BY <1>5 DEF ModuleSilent
<1>6. CASE PollIdle \/ PollBegin \/ PollWait \/ PollTimedOut
  <2>1. UNCHANGED <<line, buff, answered>>
    BY <1>6 DEF PollIdle, PollBegin, PollWait, PollTimedOut, Finish
  <2> QED BY <2>1, <1>3
<1>7. CASE UNCHANGED vars
  <2>1. UNCHANGED <<line, buff, answered>>
    BY <1>7 DEF vars
  <2> QED BY <2>1, <1>3
<1>8. CASE \E kind \in Kinds : Request(kind)
  BY <1>8, <1>3, <1>4
<1>9. ASSUME NEW header \in Headers, ModuleAnswers(header)
      PROVE  LineOK' /\ FramesSent' /\ answered \subseteq answered'
  <2>1. PICK whole \in BOOLEAN : line' = Append(line, [header |-> header, whole |-> whole])
    BY <1>9 DEF ModuleAnswers
  <2>2. [header |-> header, whole |-> whole] \in Frames
    BY DEF Frames
  <2>3. UNCHANGED buff /\ answered' = answered \cup {header}
    BY <1>9 DEF ModuleAnswers
  <2> QED BY <1>1, <2>1, <2>2, <2>3
<1>10. CASE Noise
  <2>1. [header |-> "none", whole |-> FALSE] \in Frames /\ "none" \notin Headers
    BY DEF Frames, Headers
  <2>2. UNCHANGED <<buff, answered>> /\ line' = Append(line, [header |-> "none", whole |-> FALSE])
    BY <1>10 DEF Noise
  <2> QED BY <1>1, <2>1, <2>2
<1>11. CASE \E header \in Headers : ModuleSilent(header)
  BY <1>11, <1>3, <1>5
<1> HIDE DEF LineOK, FramesSent
<1> QED BY <1>2, <1>6, <1>7, <1>8, <1>9, <1>10, <1>11 DEF Next, Poll

(* What Judged says is a success, or nothing.                              *)
LEMMA JudgedSuccess ==
  ASSUME NEW kind \in Kinds, NEW header, NEW sumRight
  PROVE  \/ Judged(kind, header, sumRight) = <<>>
         \/ /\ Judged(kind, header, sumRight) = <<"success">>
            /\ kind = "query" \/ header = HeaderOf[kind]
BY DEF Judged

(* A request that expects a particular answer is reported a success only   *)
(* if the module has, at some time, sent a frame with that answer's        *)
(* header, whole or garbled (zigbee.c 332-378).                            *)
THEOREM SuccessWasAnswered == Spec => []SuccessAnswered
<1> DEFINE IInv == RequestsOK /\ LineOK /\ FramesSent /\ SuccessAnswered
<1>1. Init => IInv
  <2> SUFFICES ASSUME Init PROVE IInv
    OBVIOUS
  <2>1. Q!Fresh \in Q!Queues
    BY DEF Q!Fresh, Q!Queues
  <2>2. RequestsOK /\ SuccessAnswered
    BY <2>1 DEF Init, RequestsOK, SuccessAnswered
  <2>3. LineOK /\ FramesSent
    BY EmptySeq DEF Init, LineOK, FramesSent, Headers
  <2> QED BY <2>2, <2>3
<1>2. IInv /\ [Next]_vars => IInv'
  <2> SUFFICES ASSUME IInv, [Next]_vars PROVE IInv'
    OBVIOUS
  <2>1. RequestsOK' /\ LineOK' /\ FramesSent' /\ answered \subseteq answered'
    BY RequestsKept, FramesKept
  <2>2. ASSUME event \in Kinds, served' = event, NEW sumRight,
               \/ told' = Judged(event, buff', sumRight)
               \/ told' = <<"timeout">> \o Judged(event, buff', sumRight)
        PROVE  SuccessAnswered'
    <3> SUFFICES ASSUME told' # <<>>, told'[Len(told')] = "success", event # "query"
                 PROVE  HeaderOf[event] \in answered'
      BY <2>2 DEF SuccessAnswered
    <3>1. Judged(event, buff', sumRight) = <<"success">> /\ buff' = HeaderOf[event]
      <4>1. CASE Judged(event, buff', sumRight) = <<>>
        <5>1. told' = <<>> \/ told' = <<"timeout">>
          BY <2>2, <4>1
        <5> QED BY <5>1
      <4> QED BY <2>2, <4>1, JudgedSuccess
    <3>2. HeaderOf[event] \in Headers
      BY <2>2 DEF HeaderOf, Kinds, Headers
    <3> QED BY <2>1, <3>1, <3>2 DEF FramesSent
  <2>3. CASE PollAnswered \/ PollTimedOut
    <3>1. event \in Kinds
      BY <2>3 DEF PollAnswered, PollTimedOut, Finish, RequestsOK
    <3>2. served' = event
      BY <2>3 DEF PollAnswered, PollTimedOut, Finish
    <3>3. PICK sumRight \in BOOLEAN :
            \/ told' = Judged(event, buff', sumRight)
            \/ told' = <<"timeout">> \o Judged(event, buff', sumRight)
      <4>1. CASE PollTimedOut
        BY <4>1 DEF PollTimedOut
      <4>2. CASE PollAnswered
        <5>1. PICK sumRight \in (IF Len(line) > 1 THEN BOOLEAN ELSE {Head(line).whole}) :
                told' = Judged(event, buff', sumRight)
          BY <4>2 DEF PollAnswered
        <5>2. Head(line) \in Frames
          BY <4>2, HeadTailProperties DEF PollAnswered, LineOK
        <5>3. Head(line).whole \in BOOLEAN
          BY <5>2 DEF Frames
        <5>4. sumRight \in BOOLEAN
          BY <5>1, <5>3
        <5> QED BY <5>1, <5>4
      <4> QED BY <2>3, <4>1, <4>2
    <3>4. SuccessAnswered'
      BY <2>2, <3>1, <3>2, <3>3
    <3> QED BY <2>1, <3>4
  <2>4. CASE UNCHANGED <<told, served>>
    BY <2>1, <2>4 DEF SuccessAnswered
  <2>5. CASE \E kind \in Kinds : Request(kind)
    <3>1. UNCHANGED <<told, served>>
      BY <2>5 DEF Request
    <3> QED BY <2>4, <3>1
  <2>6. CASE \E header \in Headers : ModuleAnswers(header) \/ ModuleSilent(header)
    <3>1. UNCHANGED <<told, served>>
      BY <2>6 DEF ModuleSilent, ModuleAnswers
    <3> QED BY <2>4, <3>1
  <2>7. CASE PollIdle \/ PollBegin \/ PollWait \/ Noise \/ UNCHANGED vars
    <3>1. UNCHANGED <<told, served>>
      BY <2>7 DEF PollIdle, PollBegin, PollWait, Noise, vars
    <3> QED BY <2>4, <3>1
  <2> QED BY <2>3, <2>5, <2>6, <2>7 DEF Next, Poll
<1> QED BY <1>1, <1>2, PTL DEF Spec

-----------------------------------------------------------------------------
(* What waits in the queue, by the queue's own theorems.                   *)
QP == INSTANCE CQueueProofs
        WITH Item <- Kinds, Length <- QueueLen, NoItem <- "none",
             queue <- event_queue, answer <- "ignored"

LEMMA WaitingSent ==
  ASSUME NEW q \in Q!Queues, NEW kind \in Kinds, Q!Agree(q), ~Q!IsFull(q)
  PROVE  /\ Q!Agree(Q!Sent(q, kind))
         /\ Q!Contents(Q!Sent(q, kind)) = Append(Q!Contents(q), kind)
<1>1. QP!LengthAssumption
  BY DEF QP!LengthAssumption
<1>2. q \in QP!Queues /\ QP!Agree(q) /\ ~QP!IsFull(q)
  BY DEF Q!Queues, QP!Queues, Q!Agree, QP!Agree, Q!IsFull, QP!IsFull
<1>3. /\ QP!Agree(QP!Sent(q, kind))
      /\ QP!Contents(QP!Sent(q, kind)) = Append(QP!Contents(q), kind)
  BY <1>1, <1>2, QP!SentKeeps, QP!SentAppends
<1> QED BY <1>3 DEF Q!Sent, QP!Sent, Q!Agree, QP!Agree, Q!Contents, QP!Contents

LEMMA WaitingReceived ==
  ASSUME NEW q \in Q!Queues, Q!Agree(q), ~Q!IsEmpty(q)
  PROVE  /\ Q!Agree(Q!Received(q))
         /\ Q!Contents(q) # <<>> /\ Q!Front(q) = Head(Q!Contents(q))
         /\ Q!Contents(Q!Received(q)) = Tail(Q!Contents(q))
<1>1. QP!LengthAssumption
  BY DEF QP!LengthAssumption
<1>2. q \in QP!Queues /\ QP!Agree(q) /\ ~QP!IsEmpty(q)
  BY DEF Q!Queues, QP!Queues, Q!Agree, QP!Agree, Q!IsEmpty, QP!IsEmpty
<1>3. /\ QP!Agree(QP!Received(q))
      /\ QP!Contents(q) # <<>> /\ QP!Front(q) = Head(QP!Contents(q))
      /\ QP!Contents(QP!Received(q)) = Tail(QP!Contents(q))
  BY <1>1, <1>2, QP!ReceivedKeeps, QP!ReceivedTails
<1> QED BY <1>3
        DEF Q!Received, QP!Received, Q!Front, QP!Front, Q!Agree, QP!Agree, Q!Contents, QP!Contents

(* An idle poll counts up to the restart.                                  *)
LEMMA IdleCounts ==
  ASSUME time_reset \in 0..RestartAfter - 1, PollIdle
  PROVE  restarts' \in BOOLEAN /\ time_reset' \in 0..RestartAfter - 1
<1>1. Silence \in Nat /\ RestartAfter \in Nat
  BY DEF Silence
<1>2. restarts' = TRUE \/ restarts' = FALSE
  BY DEF PollIdle
<1>3. time_reset' = 0 \/ (Silence < RestartAfter /\ time_reset' = Silence)
  <2>1. CASE restarts' = TRUE
    BY <2>1 DEF PollIdle
  <2>2. CASE restarts' = FALSE
    <3>1. time_reset' = Silence
      BY <2>2 DEF PollIdle
    <3>2. ~(Silence >= RestartAfter)
      BY <2>2 DEF PollIdle
    <3> QED BY <1>1, <3>1, <3>2
  <2> QED BY <1>2, <2>1, <2>2
<1>4. time_reset' \in 0..RestartAfter - 1
  BY <1>1, <1>3
<1> QED BY <1>2, <1>4

(* What a request that times out can be told.                              *)
LEMMA SuccessLate ==
  <<"timeout">> \o <<>> = <<"timeout">>
  /\ <<"timeout">> \o <<"success">> = <<"timeout", "success">>
<1> DEFINE S == {"timeout", "success"}  both == <<"timeout">> \o <<"success">>
<1>1. <<"timeout">> \in Seq(S) /\ <<"success">> \in Seq(S) /\ <<"timeout", "success">> \in Seq(S)
  OBVIOUS
<1>2. both \in Seq(S) /\ Len(both) = 2 /\ both[1] = "timeout" /\ both[2] = "success"
  BY <1>1, ConcatProperties
<1>3. <<"timeout">> \o <<>> = <<"timeout">>
  BY <1>1, ConcatEmptySeq
<1> HIDE DEF both
<1>4. both = <<"timeout", "success">>
  BY <1>1, <1>2, SeqEqual
<1> QED BY <1>3, <1>4 DEF both

(* Only requests wait, never the content of an element not written: a poll *)
(* that finds the queue not empty begins a request.                        *)
WaitingKnown == Q!Agree(event_queue) /\ Q!Contents(event_queue) \in Seq(Kinds)

LEMMA TypeKept ==
  ASSUME TypeOK, WaitingKnown, [Next]_vars
  PROVE  TypeOK' /\ WaitingKnown'
<1> USE DEF TypeOK, WaitingKnown
<1>1. ASSUME NEW kind \in Kinds, Request(kind)
      PROVE  TypeOK' /\ WaitingKnown'
  <2>1. event_queue' \in Q!Queues
    BY <1>1, QueueSent DEF Request
  <2>2. WaitingKnown'
    <3>1. CASE Q!IsFull(event_queue)
      BY <1>1, <3>1 DEF Request
    <3>2. CASE ~Q!IsFull(event_queue)
      <4>1. event_queue' = Q!Sent(event_queue, kind)
        BY <1>1, <3>2 DEF Request
      <4>2. Append(Q!Contents(event_queue), kind) \in Seq(Kinds)
        BY AppendProperties
      <4> QED BY <3>2, <4>1, <4>2, WaitingSent
    <3> QED BY <3>1, <3>2
  <2>3. requests' \in 0..MaxRequests
    BY <1>1 DEF Request
  <2> HIDE DEF WaitingKnown
  <2> QED BY <1>1, <2>1, <2>2, <2>3 DEF Request
<1>2. CASE UNCHANGED event_queue
  <2>1. WaitingKnown'
    BY <1>2
  <2> HIDE DEF WaitingKnown
  <2>2. CASE PollIdle
    <3>2. restarts' \in BOOLEAN /\ time_reset' \in 0..RestartAfter - 1
      BY <2>2, IdleCounts
    <3>3. owed' \subseteq Headers
      BY <2>2 DEF PollIdle, Headers
    <3> QED BY <2>1, <2>2, <3>2, <3>3 DEF PollIdle
  <2>3. CASE PollWait
    <3>1. tick' \in Nat /\ event' = event /\ (event # "none" => tick' < Timeout[event])
      BY <2>3 DEF PollWait
    <3> QED BY <2>1, <2>3, <3>1 DEF PollWait
  <2>4. ASSUME event \in Kinds, NEW header, NEW sumRight
        PROVE  /\ Judged(event, header, sumRight) \in {<<>>, <<"success">>}
               /\ <<"timeout">> \o Judged(event, header, sumRight)
                    \in {<<"timeout">>, <<"timeout", "success">>}
    BY SuccessLate DEF Judged
  <2>5. CASE PollAnswered
    <3>1. Head(line) \in Frames
      BY <2>5, HeadTailProperties DEF PollAnswered
    <3>2. buff' \in Headers \cup {"none"}
      BY <2>5, <3>1 DEF PollAnswered, Frames
    <3>3. line' = <<>> /\ line' \in Seq(Frames) /\ Len(line') <= MaxLine
      BY <2>5, EmptySeq DEF PollAnswered
    <3>4. told' \in {<<>>, <<"success">>, <<"timeout">>, <<"timeout", "success">>}
      BY <2>4, <2>5 DEF PollAnswered, Finish
    <3> QED BY <2>1, <2>5, <3>2, <3>3, <3>4 DEF PollAnswered, Finish
  <2>6. CASE PollTimedOut
    <3>1. told' \in {<<>>, <<"success">>, <<"timeout">>, <<"timeout", "success">>}
      BY <2>4, <2>6 DEF PollTimedOut, Finish
    <3> QED BY <2>1, <2>6, <3>1 DEF PollTimedOut, Finish
  <2>7. ASSUME NEW frame \in Frames, Len(line) < MaxLine, line' = Append(line, frame)
        PROVE  line' \in Seq(Frames) /\ Len(line') <= MaxLine
    <3>1. Len(line) \in Nat
      BY LenProperties
    <3> QED BY <2>7, <3>1, AppendProperties
  <2>11. ASSUME NEW header \in Headers, ModuleAnswers(header)
        PROVE  TypeOK'
    <3>1. PICK whole \in BOOLEAN : line' = Append(line, [header |-> header, whole |-> whole])
      BY <2>11 DEF ModuleAnswers
    <3>2. [header |-> header, whole |-> whole] \in Frames
      BY DEF Frames
    <3>3. line' \in Seq(Frames) /\ Len(line') <= MaxLine
      BY <2>7, <2>11, <3>1, <3>2 DEF ModuleAnswers
    <3>4. answered' \subseteq Headers /\ owed' \subseteq Headers
      BY <2>11 DEF ModuleAnswers
    <3> QED BY <2>1, <2>11, <3>3, <3>4 DEF ModuleAnswers
  <2>12. CASE Noise
    <3>1. [header |-> "none", whole |-> FALSE] \in Frames
      BY DEF Frames
    <3>2. line' \in Seq(Frames) /\ Len(line') <= MaxLine
      BY <2>7, <2>12, <3>1 DEF Noise
    <3> QED BY <2>1, <2>12, <3>2 DEF Noise
  <2>8. ASSUME NEW header \in Headers, ModuleSilent(header)
        PROVE  TypeOK'
    BY <2>8 DEF ModuleSilent
  <2>9. CASE UNCHANGED vars
    <3>1. restarts' \in BOOLEAN
      BY <2>9, Zenon DEF vars
    <3> QED BY <2>1, <2>9, <3>1 DEF vars
  <2>10. CASE PollBegin
    <3>1. event_queue.count # 0 /\ event_queue'.count = event_queue.count - 1
      BY <2>10, QueueReceived DEF PollBegin, Q!IsEmpty
    <3> QED BY <1>2, <3>1, QueueFields
  <2> QED BY <1>1, <2>1, <2>2, <2>3, <2>5, <2>6, <2>8, <2>9, <2>10, <2>11, <2>12 DEF Next, Poll
<1>3. CASE PollBegin
  <2>1. ~Q!IsEmpty(event_queue) /\ event_queue' = Q!Received(event_queue)
    BY <1>3 DEF PollBegin
  <2>2. event_queue' \in Q!Queues
    BY <2>1, QueueReceived
  <2>3. event' \in Kinds
    <3>1. event' = Head(Q!Contents(event_queue)) /\ Q!Contents(event_queue) # <<>>
      BY <1>3, <2>1, WaitingReceived DEF PollBegin
    <3> QED BY <3>1, HeadTailProperties
  <2>4. WaitingKnown'
    <3>1. Tail(Q!Contents(event_queue)) \in Seq(Kinds)
      BY <2>1, WaitingReceived, HeadTailProperties
    <3> QED BY <2>1, <3>1, WaitingReceived
  <2>5. tick' = 1 /\ tick' < Timeout[event']
    BY <1>3, <2>3 DEF PollBegin
  <2>6. owed' \subseteq Headers
    <3>1. HeaderOf[event'] \in Headers
      BY <2>3 DEF HeaderOf, Kinds, Headers
    <3>2. owed' = owed \cup {HeaderOf[event']}
      BY <1>3 DEF PollBegin
    <3> QED BY <3>1, <3>2
  <2> HIDE DEF WaitingKnown
  <2>7. restarts' \in BOOLEAN
    BY <1>3 DEF PollBegin
  <2>8. UNCHANGED <<time_reset, buff, line, told, served, requests, answered>>
    BY <1>3 DEF PollBegin
  <2>9. tick' \in Nat /\ (event' # "none" => tick' < Timeout[event'])
    BY <2>5
  <2> QED BY <2>2, <2>3, <2>4, <2>6, <2>7, <2>8, <2>9
<1> HIDE DEF TypeOK, WaitingKnown
<1>4. CASE PollIdle \/ PollWait \/ PollAnswered \/ PollTimedOut \/ Noise \/ UNCHANGED vars
  <2>1. UNCHANGED event_queue
    BY <1>4 DEF PollIdle, PollWait, PollAnswered, PollTimedOut, Noise, vars
  <2> QED BY <1>2, <2>1
<1>5. ASSUME NEW header \in Headers, ModuleAnswers(header) \/ ModuleSilent(header)
      PROVE  TypeOK' /\ WaitingKnown'
  <2>1. UNCHANGED event_queue
    BY <1>5 DEF ModuleAnswers, ModuleSilent
  <2> QED BY <1>2, <2>1
<1> QED BY <1>1, <1>3, <1>4, <1>5 DEF Next, Poll

(* Every reachable state has the types TypeOK gives: the queue's elements  *)
(* that were never written are never served (zigbee.c 264-383).            *)
THEOREM TypeCorrect == Spec => []TypeOK
<1>1. Init => TypeOK /\ WaitingKnown
  <2> SUFFICES ASSUME Init PROVE TypeOK /\ WaitingKnown
    OBVIOUS
  <2>1. Q!Fresh \in Q!Queues /\ Q!Agree(Q!Fresh)
    <3>1. /\ Q!Fresh.head = 0 /\ Q!Fresh.tail = 0 /\ Q!Fresh.count = 0
          /\ 0 + 0 = 0 /\ 0 % QueueLen = 0
      BY DEF Q!Fresh
    <3> QED BY <3>1 DEF Q!Fresh, Q!Queues, Q!Agree
  <2>2. Q!Contents(Q!Fresh) = <<>>
    BY DEF Q!Contents, Q!Fresh
  <2>3. WaitingKnown
    BY <2>1, <2>2, EmptySeq DEF Init, WaitingKnown
  <2>4. line \in Seq(Frames) /\ Len(line) <= MaxLine
    BY EmptySeq DEF Init
  <2>5. time_reset \in 0..RestartAfter - 1 /\ requests \in 0..MaxRequests
    BY DEF Init
  <2> QED BY <2>1, <2>3, <2>4, <2>5 DEF Init, TypeOK
<1>2. TypeOK /\ WaitingKnown /\ [Next]_vars => (TypeOK /\ WaitingKnown)'
  BY TypeKept
<1> QED BY <1>1, <1>2, PTL DEF Spec

-----------------------------------------------------------------------------
(* The RF application uses the driver as the driver is specified: what is  *)
(* proved of the driver holds of the application.  The LED is tied to the  *)
(* module's answers by the queue's order: as long as a callback of the     *)
(* application is to run, the next request served is one of its own.       *)

(* The application's steps are the driver's, or leave it alone.            *)
LEMMA RfStep ==
  ASSUME setup \in 0..3, [RfNext]_rfVars
  PROVE  [Next]_vars /\ setup' \in 0..3
<1>1. CASE RfAppInit
  <2>1. setup \in {0, 1, 2} /\ Request(Asked[setup + 1]) /\ setup' = setup + 1
    BY <1>1 DEF RfAppInit
  <2>2. Asked[setup + 1] \in Kinds
    BY <2>1 DEF Asked, Kinds
  <2> QED BY <2>1, <2>2 DEF Next
<1>2. CASE RfAppPoll
  BY <1>2 DEF RfAppPoll, Next
<1>3. CASE Others
  BY <1>3 DEF Others, Next
<1>4. CASE UNCHANGED rfVars
  BY <1>4 DEF rfVars, vars
<1> QED BY <1>1, <1>2, <1>3, <1>4 DEF RfNext

(* The application implements the driver: rf_app_init's three requests and *)
(* every poll are steps the driver's specification allows (rf_app.c        *)
(* 117-143, zigbee.c 274-464).                                             *)
THEOREM RfAppUsesDriver == RfSpec => Spec
<1>1. RfInit => Init /\ setup \in 0..3
  BY DEF RfInit
<1>2. setup \in 0..3 /\ [RfNext]_rfVars => (setup \in 0..3)' /\ [Next]_vars
  BY RfStep
<1> QED BY <1>1, <1>2, PTL DEF RfSpec, Spec

(* No success is reported to the application unless the module has sent a  *)
(* frame with the header of the answer it expects, whole or garbled        *)
(* (rf_app.c 34-84, zigbee.c 332-378).                                     *)
THEOREM RfSuccessWasAnswered == RfSpec => []SuccessAnswered
BY RfAppUsesDriver, SuccessWasAnswered, PTL
-----------------------------------------------------------------------------
(* The driver's queue holds the application's requests before all others.  *)

Own == {"link", "read", "reset"}

(* The application's requests that wait in the queue.                      *)
Waiting == own - (IF event = "none" THEN 0 ELSE 1)

(* The queue's head follows its tail at the distance of its count.         *)
Ring ==
  \/ event_queue.head = event_queue.tail + event_queue.count
  \/ event_queue.head = event_queue.tail + event_queue.count - QueueLen

SettingUp ==
  /\ setup \in 0..3 /\ own \in 0..setup
  /\ setup < 3 => /\ event = "none" /\ own = setup
                  /\ event_queue.tail = 0 /\ event_queue.head = setup
                  /\ event_queue.count = setup

OwnServed == own > 0 /\ event # "none" => event \in Own

OwnFirst ==
  Waiting > 0 =>
    /\ event_queue.tail = setup - Waiting /\ event_queue.count >= Waiting
    /\ \A k \in 0..2 : k >= event_queue.tail /\ k < setup => event_queue.buff[k] \in Own

OwnOrder == RequestsOK /\ Ring /\ SettingUp /\ OwnServed /\ OwnFirst

(* One more request, by the application or by another.                     *)
LEMMA RequestEffect ==
  ASSUME RequestsOK, Ring, NEW kind \in Kinds, Request(kind)
  PROVE  /\ Ring' /\ event' = event
         /\ event_queue'.tail = event_queue.tail
         /\ event_queue'.count >= event_queue.count
         /\ event_queue.count < QueueLen =>
              /\ event_queue'.count = event_queue.count + 1
              /\ event_queue'.head = (event_queue.head + 1) % QueueLen
              /\ event_queue'.buff = [event_queue.buff EXCEPT ![event_queue.head] = kind]
         /\ event_queue.count >= QueueLen => event_queue' = event_queue
<1> DEFINE q == event_queue
<1>1. q \in Q!Queues /\ event' = event
  BY DEF RequestsOK, Request
<1>2. /\ q.head \in Nat /\ q.head < QueueLen /\ q.tail \in Nat /\ q.tail < QueueLen
      /\ q.count \in Nat /\ q.count <= QueueLen
  BY <1>1, QueueFields
<1>3. CASE Q!IsFull(q)
  <2>1. event_queue' = q /\ q.count >= QueueLen
    BY <1>2, <1>3 DEF Request, Q!IsFull
  <2> QED BY <1>1, <1>2, <2>1 DEF Ring
<1>4. CASE ~Q!IsFull(q)
  <2>1. event_queue' = Q!Sent(q, kind) /\ q.count < QueueLen
    BY <1>2, <1>4 DEF Request, Q!IsFull
  <2>2. /\ event_queue'.tail = q.tail /\ event_queue'.count = q.count + 1
        /\ event_queue'.head = (q.head + 1) % QueueLen
        /\ event_queue'.buff = [q.buff EXCEPT ![q.head] = kind]
    BY <2>1, <1>1 DEF Q!Sent, Q!Queues
  <2>3. (q.head + 1) % QueueLen = q.head + 1 \/ (q.head + 1) % QueueLen = q.head + 1 - QueueLen
    <3>1. CASE q.head + 1 < QueueLen
      BY <1>2, <3>1
    <3>2. CASE q.head + 1 = QueueLen
      BY <1>2, <3>2
    <3> QED BY <1>2, <3>1, <3>2
  <2>4. (q.head + 1) % QueueLen >= 0 /\ (q.head + 1) % QueueLen < QueueLen
    BY <1>2
  <2>5. Ring'
    BY <1>2, <2>1, <2>2, <2>3, <2>4 DEF Ring
  <2> QED BY <1>1, <1>2, <2>1, <2>2, <2>5
<1> QED BY <1>3, <1>4

(* rf_app_init's requests fill the queue from its start.                   *)
LEMMA InitKeepsOrder ==
  ASSUME OwnOrder, RfAppInit
  PROVE  OwnOrder'
<1>1. /\ setup \in {0, 1, 2} /\ Request(Asked[setup + 1])
      /\ setup' = setup + 1 /\ own' = own + 1
  BY DEF RfAppInit, OwnOrder, SettingUp
<1>2. Asked[setup + 1] \in Own /\ Asked[setup + 1] \in Kinds
  BY <1>1 DEF Asked, Own, Kinds
<1>3. /\ event = "none" /\ own = setup /\ event_queue.tail = 0
      /\ event_queue.head = setup /\ event_queue.count = setup
  BY <1>1 DEF OwnOrder, SettingUp
<1>4. QueueLen >= 3 /\ event_queue.count < QueueLen
  BY <1>1, <1>3, RfAppAssumption
<1>5. /\ Ring' /\ event' = event /\ event_queue'.tail = 0
      /\ event_queue'.count = setup + 1 /\ event_queue'.head = (setup + 1) % QueueLen
      /\ event_queue'.buff = [event_queue.buff EXCEPT ![setup] = Asked[setup + 1]]
  BY <1>1, <1>2, <1>3, <1>4, RequestEffect DEF OwnOrder
<1>6. RequestsOK'
  BY <1>1, <1>2, RequestsKept DEF OwnOrder, Next
<1>7. SettingUp'
  <2>1. setup + 1 < 3 => (setup + 1) % QueueLen = setup + 1
    BY <1>1, <1>4
  <2> QED BY <1>1, <1>3, <1>5, <2>1 DEF SettingUp
<1>8. OwnServed'
  BY <1>3, <1>5 DEF OwnServed
<1>9. OwnFirst'
  <2>1. Waiting' = setup + 1 /\ Waiting = setup
    BY <1>1, <1>3, <1>5 DEF Waiting
  <2>2. ASSUME NEW k \in 0..2, k < setup + 1
        PROVE  event_queue'.buff[k] \in Own
    <3>1. event_queue.buff \in [0..QueueLen - 1 -> Kinds \cup {"none"}] /\ k \in 0..QueueLen - 1
      BY <1>4, QueueFields DEF OwnOrder, RequestsOK
    <3>2. CASE k = setup
      BY <1>2, <1>5, <3>1, <3>2
    <3>3. CASE k < setup
      <4>1. event_queue.buff[k] \in Own
        BY <1>1, <1>3, <2>1, <3>3 DEF OwnOrder, OwnFirst
      <4> QED BY <1>1, <1>5, <3>1, <3>3, <4>1
    <3> QED BY <1>1, <2>2, <3>2, <3>3
  <2> QED BY <1>1, <1>5, <2>1, <2>2 DEF OwnFirst
<1> QED BY <1>5, <1>6, <1>7, <1>8, <1>9 DEF OwnOrder

(* A request of another caller goes behind the application's.              *)
LEMMA OthersKeepOrder ==
  ASSUME OwnOrder, Others
  PROVE  OwnOrder'
<1>1. UNCHANGED <<setup, own>>
  BY DEF Others
<1>2. RequestsOK'
  BY RequestsKept DEF Others, OwnOrder, Next
<1>3. ASSUME NEW kind \in Kinds, setup = 3, Request(kind)
      PROVE  OwnOrder'
  <2>1. /\ Ring' /\ event' = event /\ event_queue'.tail = event_queue.tail
        /\ event_queue'.count >= event_queue.count
        /\ event_queue.count < QueueLen =>
             event_queue'.buff = [event_queue.buff EXCEPT ![event_queue.head] = kind]
        /\ event_queue.count >= QueueLen => event_queue' = event_queue
    BY <1>3, RequestEffect DEF OwnOrder
  <2>2. /\ event_queue.head \in Nat /\ event_queue.tail \in Nat /\ event_queue.count \in Nat
        /\ event_queue.count <= QueueLen
        /\ event_queue.buff \in [0..QueueLen - 1 -> Kinds \cup {"none"}]
    BY QueueFields DEF OwnOrder, RequestsOK
  <2>3. SettingUp' /\ OwnServed'
    BY <1>1, <1>3, <2>1 DEF OwnOrder, SettingUp, OwnServed
  <2>4. Waiting' = Waiting /\ Waiting \in Int
    BY <1>1, <2>1 DEF Waiting, OwnOrder, SettingUp
  <2>5. ASSUME Waiting > 0, NEW k \in 0..2, k >= event_queue.tail
        PROVE  event_queue'.buff[k] \in Own
    <3>1. event_queue.tail = 3 - Waiting /\ event_queue.count >= Waiting
          /\ event_queue.buff[k] \in Own
      BY <1>3, <2>5 DEF OwnOrder, OwnFirst
    <3>2. CASE event_queue.count >= QueueLen
      BY <2>1, <3>1, <3>2
    <3>3. CASE event_queue.count < QueueLen
      <4>1. event_queue.head # k
        <5>1. CASE event_queue.head = event_queue.tail + event_queue.count
          BY <2>2, <2>4, <3>1, <5>1
        <5>2. CASE event_queue.head = event_queue.tail + event_queue.count - QueueLen
          BY <2>2, <2>5, <3>3, <5>2
        <5> QED BY <5>1, <5>2 DEF OwnOrder, Ring
      <4>2. event_queue'.buff[k] = event_queue.buff[k]
        BY <2>1, <2>2, <3>3, <4>1, RfAppAssumption
      <4> QED BY <3>1, <4>2
    <3> QED BY <2>2, <3>2, <3>3
  <2>6. OwnFirst'
    <3> SUFFICES ASSUME Waiting > 0
                 PROVE  /\ event_queue'.tail = setup - Waiting /\ event_queue'.count >= Waiting
                        /\ \A k \in 0..2 : k >= event_queue.tail => event_queue'.buff[k] \in Own
      BY <1>1, <2>1, <2>4 DEF OwnFirst
    <3>1. event_queue.tail = setup - Waiting /\ event_queue.count >= Waiting
      BY DEF OwnOrder, OwnFirst
    <3>2. event_queue'.count \in Nat
      BY <1>2, QueueFields DEF RequestsOK
    <3> QED BY <2>1, <2>2, <2>4, <2>5, <3>1, <3>2
  <2> QED BY <1>2, <2>1, <2>3, <2>6 DEF OwnOrder
<1>4. CASE UNCHANGED <<event, event_queue>>
  BY <1>1, <1>2, <1>4 DEF OwnOrder, Ring, SettingUp, OwnServed, OwnFirst, Waiting
<1>5. ASSUME NEW header \in Headers, ModuleAnswers(header) \/ ModuleSilent(header) \/ Noise
      PROVE  UNCHANGED <<event, event_queue>>
  BY <1>5 DEF ModuleAnswers, ModuleSilent, Noise
<1>6. CASE Noise
  BY <1>4, <1>6 DEF Noise
<1> QED BY <1>3, <1>4, <1>5, <1>6 DEF Others

(* A poll takes the front of the queue, or ends the request taken last.    *)
LEMMA PollKeepsOrder ==
  ASSUME OwnOrder, RfAppPoll
  PROVE  OwnOrder'
<1>1. setup = 3 /\ setup' = 3 /\ Poll /\ Callback
  BY DEF RfAppPoll
<1>2. RequestsOK' /\ own \in 0..3
  BY <1>1, RequestsKept DEF OwnOrder, SettingUp, Next
<1> DEFINE q == event_queue
<1>3. /\ q.head \in Nat /\ q.tail \in Nat /\ q.tail < QueueLen /\ q.count \in Nat
  BY QueueFields DEF OwnOrder, RequestsOK
<1>4. CASE UNCHANGED <<event, event_queue>>
  <2>1. own' = own
    BY <1>1, <1>4 DEF Callback
  <2> QED BY <1>1, <1>2, <1>4, <2>1
          DEF OwnOrder, Ring, SettingUp, OwnServed, OwnFirst, Waiting
<1>5. CASE PollBegin
  <2>1. /\ event = "none" /\ q.count # 0 /\ event' = q.buff[q.tail]
        /\ event_queue' = Q!Received(q)
    BY <1>5 DEF PollBegin, Q!IsEmpty, Q!Front
  <2>2. /\ event_queue'.tail = (q.tail + 1) % QueueLen /\ event_queue'.count = q.count - 1
        /\ event_queue'.head = q.head /\ event_queue'.buff = q.buff
    BY <2>1 DEF OwnOrder, RequestsOK, Q!Received, Q!Queues
  <2>3. own' = own
    BY <1>1, <2>1 DEF Callback
  <2>4. \/ q.tail + 1 < QueueLen /\ event_queue'.tail = q.tail + 1
        \/ q.tail + 1 = QueueLen /\ event_queue'.tail = 0
    <3>1. CASE q.tail + 1 < QueueLen
      BY <1>3, <2>2, <3>1
    <3>2. CASE q.tail + 1 = QueueLen
      BY <1>3, <2>2, <3>2
    <3> QED BY <1>3, <3>1, <3>2
  <2>5. Ring'
    <3>1. q.head < QueueLen
      BY QueueFields DEF OwnOrder, RequestsOK
    <3>2. q.count >= 1 /\ event_queue'.count = q.count - 1 /\ event_queue'.head = q.head
      BY <1>3, <2>1, <2>2
    <3>3. q.head = q.tail + q.count \/ q.head = q.tail + q.count - QueueLen
      BY DEF OwnOrder, Ring
    <3>4. CASE q.tail + 1 < QueueLen /\ event_queue'.tail = q.tail + 1
      BY <1>3, <3>2, <3>3, <3>4 DEF Ring
    <3>5. CASE q.tail + 1 = QueueLen /\ event_queue'.tail = 0
      <4>1. q.head = q.tail + q.count - QueueLen
        BY <1>3, <3>1, <3>2, <3>3, <3>5
      <4> QED BY <1>3, <3>2, <3>5, <4>1 DEF Ring
    <3> QED BY <2>4, <3>4, <3>5
  <2>6. own > 0 => /\ q.tail = 3 - own /\ q.count >= own /\ event' \in Own
                   /\ \A k \in 0..2 : k >= q.tail => q.buff[k] \in Own
    <3>1. Waiting = own
      BY <1>2, <2>1 DEF Waiting
    <3>2. own > 0 => q.tail = 3 - own /\ q.tail \in 0..2
      BY <1>1, <1>2, <3>1 DEF OwnOrder, OwnFirst
    <3> QED BY <1>1, <1>2, <1>3, <2>1, <3>1, <3>2 DEF OwnOrder, OwnFirst
  <2>7. SettingUp' /\ OwnServed'
    BY <1>1, <1>2, <2>3, <2>6 DEF SettingUp, OwnServed
  <2>8. OwnFirst'
    <3>1. Waiting' > 0 => own > 0 /\ Waiting' = own - 1
      <4>1. own > 0 => event' # "none"
        BY <2>6 DEF Own
      <4> QED BY <1>2, <2>3, <4>1 DEF Waiting
    <3>2. Waiting' > 0 => event_queue'.tail = q.tail + 1
      BY <1>2, <1>3, <2>4, <2>6, <3>1, RfAppAssumption
    <3> QED BY <1>1, <1>2, <1>3, <2>2, <2>6, <3>1, <3>2 DEF OwnFirst
  <2> QED BY <1>2, <2>5, <2>7, <2>8 DEF OwnOrder
<1>6. CASE PollAnswered \/ PollTimedOut
  <2>1. event # "none" /\ event' = "none" /\ event_queue' = q
    BY <1>6 DEF PollAnswered, PollTimedOut, Finish
  <2>2. \/ own > 0 /\ own' = own - 1
        \/ own = 0 /\ own' = 0
    BY <1>1, <1>2, <2>1 DEF Callback
  <2>3. own > 0 => Waiting' = Waiting
    BY <1>2, <2>1, <2>2 DEF Waiting
  <2>4. OwnFirst'
    <3>1. Waiting' > 0 => own > 0
      BY <1>2, <2>1, <2>2 DEF Waiting
    <3> QED BY <1>1, <2>1, <2>3, <3>1 DEF OwnOrder, OwnFirst
  <2>5. SettingUp' /\ OwnServed' /\ Ring'
    BY <1>1, <1>2, <2>1, <2>2 DEF OwnOrder, SettingUp, OwnServed, Ring
  <2> QED BY <1>2, <2>4, <2>5 DEF OwnOrder
<1>7. PollIdle \/ PollWait => UNCHANGED <<event, event_queue>>
  BY DEF PollIdle, PollWait
<1> QED BY <1>1, <1>4, <1>5, <1>6, <1>7 DEF Poll

-----------------------------------------------------------------------------
(* What the module has sent stays sent.                                    *)
LEMMA AnsweredGrows ==
  ASSUME [Next]_vars
  PROVE  answered \subseteq answered'
<1>1. Poll => answered' = answered
  BY DEF Poll, PollIdle, PollBegin, PollWait, PollAnswered, PollTimedOut, Finish
<1>2. \A kind \in Kinds : Request(kind) => answered' = answered
  BY DEF Request
<1>3. \A header \in Headers : ModuleAnswers(header) \/ ModuleSilent(header) =>
        answered \subseteq answered'
  BY DEF ModuleAnswers, ModuleSilent
<1> QED BY <1>1, <1>2, <1>3 DEF Next, Noise, vars

(* The callback shows a connection after a success alone.                  *)
LEMMA CallbackTold ==
  ASSUME OwnOrder, SuccessAnswered', RfAppPoll, net' # net, net' = "connected"
  PROVE  answered' \cap {"ack", "param"} # {}
<1>1. event # "none" /\ event' = "none" /\ own > 0 /\ Poll
  BY DEF RfAppPoll, Callback
<1>2. event \in Own
  BY <1>1 DEF OwnOrder, OwnServed, SettingUp
<1>3. PollAnswered \/ PollTimedOut
  BY <1>1 DEF Poll, PollIdle, PollBegin, PollWait
<1>4. served' = event
  BY <1>3 DEF PollAnswered, PollTimedOut, Finish
<1>5. told' # <<>> /\ told' # <<"timeout">>
  BY <1>1 DEF RfAppPoll, Callback
<1>6. told' = <<"success">> \/ told' = <<"timeout">> \o <<"success">>
  <2>1. /\ event \in Kinds
        /\ \E sumRight : \/ told' = Judged(event, buff', sumRight)
                         \/ told' = <<"timeout">> \o Judged(event, buff', sumRight)
    BY <1>2, <1>3 DEF PollAnswered, PollTimedOut, Own, Kinds
  <2>2. \A sumRight : Judged(event, buff', sumRight) \in {<<>>, <<"success">>}
    BY DEF Judged
  <2>3. <<"timeout">> \o <<>> = <<"timeout">>
    OBVIOUS
  <2> QED BY <1>5, <2>1, <2>2, <2>3
<1>7. told'[Len(told')] = "success"
  BY <1>6
<1>8. HeaderOf[event] \in answered'
  BY <1>2, <1>4, <1>5, <1>7 DEF SuccessAnswered, Own
<1>9. HeaderOf[event] \in {"ack", "param"}
  BY <1>2 DEF HeaderOf, Own, Kinds
<1> QED BY <1>8, <1>9

(* The NET LED shows a connection only if the module has sent a frame with *)
(* the header of an answer that rf_app_init asks for, whole or garbled     *)
(* (rf_app.c 34-84, zigbee.c 332-378).                                     *)
THEOREM ConnectionWasAnswered == RfSpec => []ConnectedAnswered
<1> DEFINE IInv == OwnOrder /\ ConnectedAnswered
<1>1. RfInit => IInv
  <2> SUFFICES ASSUME RfInit PROVE IInv
    OBVIOUS
  <2>1. /\ event_queue \in Q!Queues
        /\ event_queue.head = 0 /\ event_queue.tail = 0 /\ event_queue.count = 0
    BY DEF RfInit, Init, Q!Fresh, Q!Queues
  <2>2. event = "none" /\ served = "none" /\ setup = 0 /\ own = 0 /\ net = "disconnected"
    BY DEF RfInit, Init
  <2> QED BY <2>1, <2>2 DEF OwnOrder, RequestsOK, Ring, SettingUp, OwnServed, OwnFirst, Waiting,
                            ConnectedAnswered
<1>2. IInv /\ SuccessAnswered' /\ [RfNext]_rfVars => IInv'
  <2> SUFFICES ASSUME IInv, SuccessAnswered', [RfNext]_rfVars PROVE IInv'
    OBVIOUS
  <2>1. OwnOrder'
    <3>1. CASE UNCHANGED rfVars
      BY <3>1 DEF rfVars, OwnOrder, RequestsOK, Ring, SettingUp, OwnServed, OwnFirst, Waiting
    <3> QED BY <3>1, InitKeepsOrder, OthersKeepOrder, PollKeepsOrder DEF RfNext
  <2>2. answered \subseteq answered'
    <3>1. setup \in 0..3
      BY DEF OwnOrder, SettingUp
    <3> QED BY <3>1, RfStep, AnsweredGrows
  <2>3. ConnectedAnswered'
    <3>1. CASE net' = net
      BY <2>2, <3>1 DEF ConnectedAnswered
    <3>2. CASE net' # net
      <4>1. RfAppPoll
        BY <3>2 DEF RfNext, RfAppInit, Others, rfVars
      <4> QED BY <3>2, <4>1, CallbackTold DEF ConnectedAnswered
    <3> QED BY <3>1, <3>2
  <2> QED BY <2>1, <2>3
<1>3. IInv => ConnectedAnswered
  OBVIOUS
<1> QED BY <1>1, <1>2, <1>3, RfSuccessWasAnswered, PTL DEF RfSpec
=============================================================================
