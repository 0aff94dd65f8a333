------------------------------- MODULE Zigbee -------------------------------
(***************************************************************************)
(* The Zigbee module's driver (zigbee.c): requests are queued, one at a    *)
(* time is written to the module, and after that request's timeout, never  *)
(* before, whatever has arrived is taken as its answer.  An idle driver    *)
(* restarts a module that stays silent.  The queue is CQueue.              *)
(*                                                                         *)
(* A frame from the module is a header, the same for a link and a reset,   *)
(* and whether its checksum is right.  The UART behind ZigbeeDriver_t, and *)
(* the module, are the environment: answers may be late, garbled or lost,  *)
(* but garbling does not turn one header into another.                     *)
(***************************************************************************)
EXTENDS Naturals, Sequences

CONSTANTS
  QueueLen,     (* the length zigbee_init gives event_queue                *)
  Slots,        (* the events event_list has room for                      *)
  Timeout,      (* polls that each kind of request waits for its answer    *)
  RestartAfter, (* idle polls without a byte before the module's restart   *)
  MaxRequests,  (* bound: requests made                                    *)
  MaxLine       (* bound: frames waiting in the UART                       *)

Kinds == {"link", "read", "write", "reset", "signal", "query"}

ASSUME ZigbeeAssumption ==
  /\ QueueLen \in Nat \ {0} /\ Slots \in 1..QueueLen
  /\ Timeout \in [Kinds -> Nat \ {0, 1}]
  /\ RestartAfter \in Nat \ {0, 1} /\ MaxRequests \in Nat /\ MaxLine \in Nat \ {0}

VARIABLES
  event,        (* kind of the request being served, or "none"             *)
  tick,         (* event.tick                                              *)
  event_queue,  (* requests waiting                                        *)
  time_reset,
  buff,         (* the header buff's first bytes hold, or "none"           *)
  line,         (* frames waiting in the UART                              *)
  owed,         (* headers of the answers the module has yet to send       *)
  told,         (* what the last request's callback was told               *)
  served,       (* kind of that request                                    *)
  requests,     (* requests made                                           *)
  answered,     (* history: headers the module has sent, garbled or not    *)
  restarts      (* whether the last poll restarted the module              *)

vars == <<event, tick, event_queue, time_reset, buff, line, owed, told, served,
          requests, answered, restarts>>

Q == INSTANCE CQueue
       WITH Item <- Kinds, Length <- QueueLen, NoItem <- "none",
            queue <- event_queue, answer <- "ignored"

Headers == {"ack", "param", "write", "signal"}

(* Bytes in the UART that are read together: an answer, whole or with a    *)
(* wrong checksum, or bytes that make no header of their own.              *)
Frames == [header : Headers \cup {"none"}, whole : BOOLEAN]

(* The header each kind of request is answered with.  A query for an end   *)
(* device's position accepts anything.                                     *)
HeaderOf ==
  [link |-> "ack", reset |-> "ack", read |-> "param", write |-> "write",
   signal |-> "signal", query |-> "signal"]

-----------------------------------------------------------------------------
(* zigbee_connect, zigbee_read_module and the other requests.  A full      *)
(* queue drops the request; nobody is told.  A query is queued for a       *)
(* coordinator only, which the node may be or not.                         *)
Request(kind) ==
  /\ requests < MaxRequests /\ requests' = requests + 1
  /\ event_queue' = IF Q!IsFull(event_queue) THEN event_queue ELSE Q!Sent(event_queue, kind)
  /\ UNCHANGED <<event, tick, time_reset, buff, line, owed, told, served, answered, restarts>>

(* zigbee_poll with nothing to do.                                         *)
Silence == (IF line # <<>> THEN 0 ELSE time_reset) + 1

(* Mutant: the count starts again without a restart.                       *)
PollIdleNeverRestarts ==
  /\ event = "none" /\ Q!IsEmpty(event_queue)
  /\ restarts' = FALSE
  /\ time_reset' = IF Silence >= RestartAfter THEN 0 ELSE Silence
  /\ UNCHANGED <<event, tick, event_queue, buff, line, owed, told, served, requests, answered>>

(* Mutant: the restart is one poll late.                                   *)
PollIdleLate ==
  /\ event = "none" /\ Q!IsEmpty(event_queue)
  /\ restarts' = (Silence > RestartAfter)
  /\ time_reset' = IF restarts' THEN 0 ELSE Silence
  /\ owed' = IF restarts' THEN owed \cup {"ack"} ELSE owed
  /\ UNCHANGED <<event, tick, event_queue, buff, line, told, served, requests, answered>>

PollIdle ==
  /\ event = "none" /\ Q!IsEmpty(event_queue)
  /\ restarts' = (Silence >= RestartAfter)
  /\ time_reset' = IF restarts' THEN 0 ELSE Silence
  /\ owed' = IF restarts' THEN owed \cup {"ack"} ELSE owed
  /\ UNCHANGED <<event, tick, event_queue, buff, line, told, served, requests, answered>>

(* The next request is taken and its command written; the same call counts *)
(* its first tick.  The UART is not emptied before.                        *)
PollBegin ==
  /\ event = "none" /\ ~Q!IsEmpty(event_queue)
  /\ event' = Q!Front(event_queue) /\ event_queue' = Q!Received(event_queue)
  /\ tick' = 1 /\ owed' = owed \cup {HeaderOf[event']}
  /\ restarts' = FALSE
  /\ UNCHANGED <<time_reset, buff, line, told, served, requests, answered>>

PollWait ==
  /\ event # "none" /\ tick + 1 < Timeout[event]
  /\ tick' = tick + 1 /\ restarts' = FALSE
  /\ UNCHANGED <<event, event_queue, time_reset, buff, line, owed, told, served,
                 requests, answered>>

(* Mutant: the header is not compared.                                     *)
JudgedAny(kind, header, sumRight) ==
  IF kind = "query" \/ sumRight THEN <<"success">> ELSE <<>>

(* What the processing of an answer tells the callback: a success, if any. *)
Judged(kind, header, sumRight) ==
  IF kind = "query" \/ (sumRight /\ header = HeaderOf[kind]) THEN <<"success">> ELSE <<>>

(* Mutant: the event is not cleared.                                       *)
FinishKeepsEvent ==
  /\ event # "none" /\ tick + 1 >= Timeout[event]
  /\ tick' = 0 /\ served' = event /\ restarts' = FALSE
  /\ UNCHANGED <<event, time_reset, owed, requests, answered>>

(* The timeout is over.                                                    *)
Finish ==
  /\ event # "none" /\ tick + 1 >= Timeout[event]
  /\ event' = "none" /\ tick' = 0 /\ served' = event /\ restarts' = FALSE
  /\ UNCHANGED <<time_reset, owed, requests, answered>>

(* What has arrived is read and processed together: with several frames the *)
(* checksum is taken over all of them, and may be right or wrong.  A single *)
(* byte leaves the rest of an old header in buff.                          *)
PollAnswered ==
  /\ Finish /\ line # <<>>
  /\ buff' \in {Head(line).header} \cup (IF Head(line).header = "none" THEN {buff} ELSE {})
  /\ \E sumRight \in (IF Len(line) > 1 THEN BOOLEAN ELSE {Head(line).whole}) :
       told' = Judged(event, buff', sumRight)
  /\ line' = <<>>
  /\ UNCHANGED event_queue

(* Nothing has arrived.  The callback is told so, and what buff holds, an  *)
(* answer already processed or found garbled, is then processed all the    *)
(* same with a length of 0.  Its checksum, a sum over no byte, is compared *)
(* with buff[-1]: fw_version[1], which nothing sets, so that it is right.  *)
PollTimedOut ==
  /\ Finish /\ line = <<>>
  /\ told' = <<"timeout">> \o Judged(event, buff, TRUE)
  /\ UNCHANGED <<event_queue, buff, line>>

Poll == PollIdle \/ PollBegin \/ PollWait \/ PollAnswered \/ PollTimedOut

-----------------------------------------------------------------------------
(* The module sends an answer; its checksum may come out wrong.            *)
ModuleAnswers(header) ==
  /\ header \in owed /\ owed' = owed \ {header}
  /\ Len(line) < MaxLine
  /\ \E whole \in BOOLEAN : line' = Append(line, [header |-> header, whole |-> whole])
  /\ answered' = answered \cup {header}
  /\ UNCHANGED <<event, tick, event_queue, time_reset, buff, told, served, requests, restarts>>

(* Noise, an answer without its first bytes, or the rest of one that was   *)
(* read too early.                                                         *)
Noise ==
  /\ Len(line) < MaxLine
  /\ line' = Append(line, [header |-> "none", whole |-> FALSE])
  /\ UNCHANGED <<event, tick, event_queue, time_reset, buff, owed, told, served, requests,
                 answered, restarts>>

ModuleSilent(header) ==
  /\ header \in owed /\ owed' = owed \ {header}
  /\ UNCHANGED <<event, tick, event_queue, time_reset, buff, line, told, served, requests,
                 answered, restarts>>

-----------------------------------------------------------------------------
Init ==
  /\ event = "none" /\ tick = 0 /\ event_queue = Q!Fresh /\ time_reset = 0
  /\ buff = "none" /\ line = <<>> /\ owed = {} /\ told = <<>> /\ served = "none"
  /\ requests = 0 /\ answered = {} /\ restarts = FALSE

Next ==
  \/ Poll
  \/ \E kind \in Kinds : Request(kind)
  \/ \E header \in Headers : ModuleAnswers(header) \/ ModuleSilent(header)
  \/ Noise

Spec == Init /\ [][Next]_vars

(* rf_app_poll polls every millisecond.                                    *)
FairSpec == Spec /\ WF_vars(Poll)

-----------------------------------------------------------------------------
(* Properties.                                                             *)

(* Every variable has its type.                                            *)
TypeOK ==
  /\ event \in Kinds \cup {"none"} /\ served \in Kinds \cup {"none"}
  /\ event_queue \in Q!Queues
  /\ tick \in Nat /\ time_reset \in 0..RestartAfter - 1 /\ requests \in 0..MaxRequests
  /\ event # "none" => tick < Timeout[event]
  /\ buff \in Headers \cup {"none"}
  /\ line \in Seq(Frames) /\ Len(line) <= MaxLine
  /\ owed \subseteq Headers /\ answered \subseteq Headers
  /\ told \in {<<>>, <<"success">>, <<"timeout">>, <<"timeout", "success">>}
  /\ restarts \in BOOLEAN

(* A request that expects a particular answer is reported a success only   *)
(* if the module has, at some time, sent a frame with that answer's header. *)
(* The code ensures no more: an answer to an earlier request passes when it *)
(* is late, and a late or garbled one when nothing follows it, as it stays *)
(* in buff (zigbee.c 332-378).                                             *)
SuccessAnswered ==
  told # <<>> /\ told[Len(told)] = "success" /\ served # "query" =>
    HeaderOf[served] \in answered

(* Every request is served, whatever the module does (zigbee.c 276-382).   *)
RequestsServed ==
  event # "none" \/ ~Q!IsEmpty(event_queue) ~> event = "none" /\ Q!IsEmpty(event_queue)

(* A module that sends nothing while the driver idles is restarted again   *)
(* and again (zigbee.c 284-295).                                           *)
SilentModuleRestarted == <>[](event = "none" /\ line = <<>>) => []<>restarts
=============================================================================
