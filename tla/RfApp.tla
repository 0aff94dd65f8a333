-------------------------------- MODULE RfApp --------------------------------
(***************************************************************************)
(* The RF application (rf_app.c) on the Zigbee driver: rf_app_init makes   *)
(* three requests, whose callbacks set what the NET LED shows, and every   *)
(* rf_app_poll polls the driver and then the indicator (indicator.c), which *)
(* toggles the LED slowly while connected and fast while not.              *)
(*                                                                         *)
(* The requests of the driver's other callers have callbacks of their own. *)
(* The POW LED, always on, and the STATUS LED, toggled by a timer that     *)
(* nothing disturbs, are left out.                                         *)
(***************************************************************************)
EXTENDS Zigbee

CONSTANT NetPeriod (* polls between toggles of the NET LED                 *)

ASSUME RfAppAssumption ==
  /\ NetPeriod \in [{"connected", "disconnected"} -> Nat \ {0}]
  /\ QueueLen >= 3 /\ MaxRequests >= 3

VARIABLES
  setup,        (* requests rf_app_init has made                           *)
  own,          (* those whose callbacks have not run                      *)
  net,          (* indicator.net_connect                                   *)
  timer_net,    (* indicator.timer_net                                     *)
  lit           (* the NET LED                                             *)

rfVars == <<event, tick, event_queue, time_reset, buff, line, owed, told, served,
            requests, answered, restarts, setup, own, net, timer_net, lit>>

-----------------------------------------------------------------------------
(* The requests rf_app_init makes, in this order, before any poll.         *)
Asked == <<"link", "read", "reset">>

RfAppInit ==
  /\ setup < 3 /\ Request(Asked[setup + 1])
  /\ setup' = setup + 1 /\ own' = own + 1
  /\ UNCHANGED <<net, timer_net, lit>>

(* Mutant: every callback shows a connection.                              *)
CallbackAlwaysConnects ==
  IF event # "none" /\ event' = "none" /\ own > 0
  THEN own' = own - 1 /\ net' = "connected"
  ELSE UNCHANGED <<own, net>>

(* zigbee_connect_cb, zigbee_read_cb and zigbee_reset_cb.  A garbled answer *)
(* ends the request without a call.                                        *)
Callback ==
  IF event # "none" /\ event' = "none" /\ own > 0
  THEN /\ own' = own - 1
       /\ net' = CASE told' = <<>>                      -> net
                   [] told' = <<"timeout">>             -> "disconnected"
                   [] OTHER                             -> "connected"
  ELSE UNCHANGED <<own, net>>

(* Mutant: the timer is compared for equality (and saturates).             *)
IndicatorPollEqual ==
  IF timer_net + 1 = NetPeriod[net']
  THEN timer_net' = 0 /\ lit' = ~lit
  ELSE timer_net' = (IF timer_net < 10 THEN timer_net + 1 ELSE 10) /\ UNCHANGED lit

(* indicator_poll.                                                         *)
IndicatorPoll ==
  IF timer_net + 1 >= NetPeriod[net']
  THEN timer_net' = 0 /\ lit' = ~lit
  ELSE timer_net' = timer_net + 1 /\ UNCHANGED lit

RfAppPoll == setup = 3 /\ Poll /\ Callback /\ IndicatorPoll /\ UNCHANGED setup

(* A request of another caller, or the module's part.                      *)
Others ==
  /\ \/ \E kind \in Kinds : setup = 3 /\ Request(kind)
     \/ \E header \in Headers : ModuleAnswers(header) \/ ModuleSilent(header)
     \/ Noise
  /\ UNCHANGED <<setup, own, net, timer_net, lit>>

-----------------------------------------------------------------------------
RfInit ==
  /\ Init
  /\ setup = 0 /\ own = 0 /\ net = "disconnected" /\ timer_net = 0 /\ lit = FALSE

RfNext == RfAppInit \/ RfAppPoll \/ Others

RfSpec == RfInit /\ [][RfNext]_rfVars

(* rf_app_poll polls every millisecond.                                    *)
FairRfSpec == RfSpec /\ WF_rfVars(RfAppInit) /\ WF_rfVars(RfAppPoll)

-----------------------------------------------------------------------------
(* Properties.                                                             *)

(* The NET LED shows a connection only if the module has ever sent a frame *)
(* with the header of an answer that rf_app_init asks for, whichever       *)
(* callbacks ran in whichever order: noise and timeouts alone do not light *)
(* it.  A garbled answer may: its header is in buff when the next request  *)
(* times out (rf_app.c 34-84, zigbee.c 332-378).                           *)
ConnectedAnswered == net = "connected" => answered \cap {"ack", "param"} # {}

(* The NET LED never stops blinking: a timer that has run past the fast    *)
(* period when the connection is lost still reaches a toggle               *)
(* (indicator.c 44-60, rf_app.c 42-82).                                    *)
NetLedBlinks == []<>lit /\ []<>~lit
=============================================================================
