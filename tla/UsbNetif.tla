------------------------------ MODULE UsbNetif ------------------------------
(***************************************************************************)
(* The network interface over USB: the task of netif/usbif/usb_netif.c,    *)
(* lwIP's thread when it sends, and the receive logic of TinyUSB's NCM     *)
(* class, as this build configures it (one receive buffer, an NTB; it      *)
(* holds several datagrams).                                               *)
(*                                                                         *)
(* Not one thing happens after another.  lwIP, given a datagram, may send, *)
(* and linkoutput_fn calls tud_task() while the class cannot take another  *)
(* packet: any event of the bus may be handled in the middle of            *)
(* tud_network_recv_cb, a bus reset included.  And lwIP's thread sends     *)
(* too: then it is the one that runs tud_task(), above the USB task.  That *)
(* goes well while the USB task waits in its own tud_task().  It may also  *)
(* find the USB task in mid-work: the two then cut into each other, and no *)
(* lock keeps them apart.                                                  *)
(*                                                                         *)
(* stack holds the activations of tud_network_recv_renew, innermost first, *)
(* each with its task and the place it has reached (names of C functions   *)
(* shortened):                                                             *)
(*   "loop"    at the loop's test                                          *)
(*   "begin"   process_again is cleared, active not yet set                *)
(*   "alloc"   in recv_cb, before pbuf_alloc                               *)
(*   "input"   in netif->input, perhaps in linkoutput_fn                   *)
(*   "renew"   about to call recv_renew                                    *)
(*   "done"    back from it: the callback returns true                     *)
(*   "take"    in try_to_start_new_reception, its tests passed             *)
(* A cut in between two of these places is followed as far as Beyond says; *)
(* one in the middle of a step is not in the model.  The properties end    *)
(* with the first cut of either kind.                                      *)
(***************************************************************************)
EXTENDS Naturals, Sequences

CONSTANTS
  PoolSize,   (* PBUF_POOL_SIZE                                            *)
  MaxFrames,  (* bound: datagrams the host sends                           *)
  MaxPerNtb,  (* bound: datagrams in an NTB                                *)
  MaxDepth,   (* bound: activations on the stack                           *)
  Beyond      (* bound: whether the system is followed beyond a cut        *)

ASSUME UsbNetifAssumption ==
  /\ PoolSize \in Nat /\ MaxFrames \in Nat /\ MaxPerNtb \in Nat \ {0}
  /\ MaxDepth \in Nat \ {0} /\ Beyond \in BOOLEAN

VARIABLES
  u_pc,       (* the USB task's place, outside tud_task                    *)
  output,     (* lwIP's thread is in linkoutput_fn                         *)
  cut,        (* history: the two tasks have cut into each other           *)
  mounted, suspended, blink,
  added,      (* netif_add has been called                                 *)
  link,       (* NETIF_FLAG_LINK_UP of netif_data                          *)
  alt,        (* ncm_interface.itf_data_alt = 1: the host uses the data    *)
              (* interface                                                 *)
  ncm_link,   (* ncm_interface.link_is_up                                  *)
  busy,       (* the OUT endpoint has a transfer                           *)
  ntb,        (* what the receive buffer holds: the datagrams' numbers     *)
  held,       (* which of ncm_interface's pointers hold that buffer        *)
  ndx,        (* recv_glue_ntb_datagram_ndx, counted from 1                *)
  active, again, (* tud_network_recv_renew_active and _process_again       *)
  stack,
  pool,       (* pbufs left in the pool                                    *)
  sent,       (* datagrams the host has sent                               *)
  handed,     (* history: the datagrams given to lwIP, in order            *)
  refused     (* history: pbuf_alloc has failed since the last reset       *)

taskVars == <<u_pc, output>>
usbVars == <<mounted, suspended, blink>>
netVars == <<added, link>>
renewVars == <<active, again, stack>>
ncmVars == <<alt, ncm_link, held, ndx, busy>>
lwipVars == <<pool, handed, refused>>
netifVars ==
  <<taskVars, cut, usbVars, netVars, ncmVars, ntb, renewVars, lwipVars, sent>>

-----------------------------------------------------------------------------
(* The two tasks and their activations.                                    *)
Threads == {"usb", "lwip"}

(* Activation i is the innermost of its task.                              *)
Innermost(i) == \A j \in 1..i - 1 : stack[j].task # stack[i].task

Has(t) == \E i \in 1..Len(stack) : stack[i].task = t

(* The task has nothing to do but wait for an event, or for its delay.     *)
Waits(t) ==
  \A i \in 1..Len(stack) :
    stack[i].task = t /\ Innermost(i) => stack[i].place = "input"

(* A step of activation i, at a place.  lwIP's thread outranks the USB     *)
(* task.  The two cut into each other when an activation goes on that      *)
(* another has begun on top of.                                            *)
At(i, place) ==
  /\ Innermost(i) /\ stack[i].place = place
  /\ stack[i].task = "usb" => Waits("lwip")
  /\ cut' = (cut \/ i # 1)

MoveTo(i, place) == stack' = [stack EXCEPT ![i].place = place]

Leave(i) ==
  stack' = [j \in 1..Len(stack) - 1 |-> IF j < i THEN stack[j] ELSE stack[j + 1]]

-----------------------------------------------------------------------------
(* The receive logic (ncm_device.c).                                       *)

(* tud_network_recv_renew, called by task t with the stack below: an       *)
(* activation that is already in the transfer will go round again.         *)
Renew(t, below) ==
  /\ again' = TRUE
  /\ active \/ Len(below) < MaxDepth
  /\ stack' = IF active THEN below ELSE <<[task |-> t, place |-> "loop"]>> \o below
  /\ UNCHANGED active

Again(i) ==
  /\ At(i, "loop") /\ again
  /\ again' = FALSE /\ MoveTo(i, "begin")
  /\ UNCHANGED <<taskVars, usbVars, netVars, ncmVars, ntb, active, lwipVars, sent>>

(* The loop's body, up to tud_network_recv_cb: the NTB in hand, or the one *)
(* that is ready.  An NTB without a (further) datagram stays in hand.      *)
Transfer(i) ==
  /\ At(i, "begin")
  /\ LET first == "glue" \notin held
         next == "glue" \in held \/ "ready" \in held
         deliver == next /\ (IF first THEN 1 ELSE ndx) <= Len(ntb)
     IN /\ active' = deliver
        /\ MoveTo(i, IF deliver THEN "alloc" ELSE "loop")
        /\ held' = IF first /\ next THEN (held \ {"ready"}) \cup {"glue"} ELSE held
        /\ ndx' = IF first THEN 1 ELSE ndx
  /\ UNCHANGED <<taskVars, usbVars, netVars, alt, ncm_link, busy, ntb, again, lwipVars, sent>>

(* recv_try_to_start_new_reception, up to its tests.                       *)
LoopExit(i) ==
  /\ At(i, "loop") /\ ~again
  /\ IF alt /\ "usb" \notin held /\ ~busy THEN MoveTo(i, "take") ELSE Leave(i)
  /\ UNCHANGED <<taskVars, usbVars, netVars, ncmVars, ntb, active, again, lwipVars, sent>>

(* Mutant: the buffer is handed to the endpoint while a datagram of it is  *)
(* still to be delivered.                                                  *)
TakeBufferEarly(i) ==
  /\ At(i, "take") /\ Leave(i)
  /\ held' = held \cup {"usb"} /\ busy' = mounted
  /\ UNCHANGED <<taskVars, usbVars, netVars, alt, ncm_link, ndx, ntb, active, again, lwipVars, sent>>

(* The rest of it.  recv_tinyusb_ntb becomes the free buffer, or NULL;     *)
(* usbd_edpt_xfer refuses a busy endpoint, and the buffer is put back.     *)
(* After a reset there is no such endpoint.                                *)
TakeBuffer(i) ==
  /\ At(i, "take") /\ Leave(i)
  /\ IF "free" \in held /\ ~busy
     THEN held' = (held \ {"free"}) \cup {"usb"} /\ busy' = mounted
     ELSE held' = held \ {"usb"} /\ UNCHANGED busy
  /\ UNCHANGED <<taskVars, usbVars, netVars, alt, ncm_link, ndx, ntb, active, again, lwipVars, sent>>

-----------------------------------------------------------------------------
(* tud_network_recv_cb.                                                    *)

(* No pbuf: the callback returns false and the datagram stays where it is. *)
CbRefuse(i) ==
  /\ At(i, "alloc") /\ pool = 0
  /\ refused' = TRUE /\ active' = FALSE /\ MoveTo(i, "loop")
  /\ UNCHANGED <<taskVars, usbVars, netVars, ncmVars, ntb, again, pool, handed, sent>>

(* Before netif_add netif->input is NULL: the call is a hard fault.        *)
CbNoNetif(i) ==
  /\ At(i, "alloc") /\ pool > 0 /\ ~added
  /\ u_pc' = "fault"
  /\ UNCHANGED <<output, usbVars, netVars, ncmVars, ntb, renewVars, lwipVars, sent>>

(* What the buffer holds in its n-th place: 0 is no datagram.              *)
Content(n) == IF n \in 1..Len(ntb) THEN ntb[n] ELSE 0

CbInput(i) ==
  /\ At(i, "alloc") /\ pool > 0 /\ added
  /\ pool' = pool - 1 /\ handed' = Append(handed, Content(ndx)) /\ MoveTo(i, "input")
  /\ UNCHANGED <<taskVars, usbVars, netVars, ncmVars, ntb, active, again, refused, sent>>

(* Mutant: the pbuf is freed although lwIP has taken it.                   *)
CbInputReturnsFrees(i) ==
  /\ At(i, "input") /\ MoveTo(i, "renew") /\ pool' = pool + 1
  /\ UNCHANGED <<taskVars, usbVars, netVars, ncmVars, ntb, active, again, handed, refused, sent>>

(* ethernet_input returns ERR_OK, whatever linkoutput_fn answered.         *)
CbInputReturns(i) ==
  /\ At(i, "input") /\ MoveTo(i, "renew")
  /\ UNCHANGED <<taskVars, usbVars, netVars, ncmVars, ntb, active, again, lwipVars, sent>>

(* Mutant: netif->input is taken to have failed, and false returned, after *)
(* lwIP has kept the pbuf.                                                 *)
CbRenewFails(i) ==
  /\ At(i, "renew")
  /\ again' = TRUE /\ active' = FALSE /\ MoveTo(i, "loop")
  /\ UNCHANGED <<taskVars, usbVars, netVars, ncmVars, ntb, lwipVars, sent>>

CbRenew(i) ==
  /\ At(i, "renew") /\ Renew(stack[i].task, [stack EXCEPT ![i].place = "done"])
  /\ UNCHANGED <<taskVars, usbVars, netVars, ncmVars, ntb, lwipVars, sent>>

(* The callback has returned true: on to the next datagram, or the buffer  *)
(* is free.  After a reset inside the callback recv_glue_ntb may be NULL,  *)
(* or hold the buffer for the new session's sake.                          *)
CbDone(i) ==
  /\ At(i, "done")
  /\ IF ndx < Len(ntb) THEN ndx' = ndx + 1 /\ UNCHANGED held
     ELSE /\ held' = IF "glue" \in held THEN (held \ {"glue"}) \cup {"free"} ELSE held
          /\ UNCHANGED ndx
  /\ active' = FALSE /\ MoveTo(i, "loop")
  /\ UNCHANGED <<taskVars, usbVars, netVars, alt, ncm_link, busy, ntb, again, lwipVars, sent>>

(* lwIP, or an application, is done with a datagram.                       *)
FreePbuf ==
  /\ pool < PoolSize /\ pool' = pool + 1
  /\ UNCHANGED <<taskVars, cut, usbVars, netVars, ncmVars, ntb, renewVars, handed, refused, sent>>
-----------------------------------------------------------------------------
(* The events of the bus, handled by tud_task (usbd.c): from the USB       *)
(* task's own loops, or from linkoutput_fn, inside a callback or at the    *)
(* bottom of lwIP's thread.  While lwIP's thread waits for an event, it is *)
(* the one that gets it.                                                   *)
InTudTask(t) ==
  /\ u_pc # "fault" /\ Len(stack) < MaxDepth /\ Waits(t)
  /\ IF t = "lwip" THEN output
     ELSE ~output /\ (u_pc \in {"wait", "run"} \/ Has("usb"))

(* configuration_reset, with netd_reset: the class driver starts afresh,   *)
(* its activations on the stack included.                                  *)
Reset ==
  /\ mounted' = FALSE /\ suspended' = FALSE
  /\ alt' = FALSE /\ held' = {"free"} /\ ndx' = 1 /\ busy' = FALSE
  /\ active' = FALSE /\ again' = FALSE
  /\ refused' = FALSE
  /\ UNCHANGED <<taskVars, added, ntb, stack, pool, handed, sent>>

(* The bus is reset: no callback is called.                                *)
BusReset == Reset /\ ncm_link' = TRUE /\ UNCHANGED <<blink, link>>

(* netif_set_link_up and netif_set_link_down, with the class reporting was *)
(* before: the callback is set with netif_add, and called on a change.     *)
SetLink(up, was) ==
  /\ link' = up
  /\ ncm_link' = IF added /\ link # up THEN up ELSE was

(* The cable is pulled, or the host deconfigures the device: a reset, then *)
(* tud_umount_cb.                                                          *)
Unmount == mounted /\ Reset /\ blink' = "not_mounted" /\ SetLink(FALSE, TRUE)

(* Mutant: tud_mount_cb leaves the link as the last unmounting left it.    *)
ConfigureNoLink ==
  /\ ~mounted /\ ~suspended
  /\ mounted' = TRUE /\ blink' = "mounted"
  /\ UNCHANGED <<taskVars, suspended, netVars, ncmVars, ntb, renewVars, lwipVars, sent>>

(* SET_CONFIGURATION, with tud_mount_cb.                                   *)
Configure ==
  /\ ~mounted /\ ~suspended
  /\ mounted' = TRUE /\ blink' = "mounted" /\ SetLink(TRUE, ncm_link)
  /\ UNCHANGED <<taskVars, suspended, added, alt, held, ndx, busy, ntb, renewVars, lwipVars, sent>>

(* At most while the host has sent a first SETUP packet (connected): when  *)
(* it has is its own choice here.                                          *)
Suspend ==
  /\ ~suspended
  /\ suspended' = TRUE /\ blink' = "suspended"
  /\ UNCHANGED <<taskVars, mounted, netVars, ncmVars, ntb, renewVars, lwipVars, sent>>

Resume ==
  /\ suspended
  /\ suspended' = FALSE /\ blink' = IF mounted THEN "mounted" ELSE "not_mounted"
  /\ UNCHANGED <<taskVars, mounted, netVars, ncmVars, ntb, renewVars, lwipVars, sent>>

(* SET_INTERFACE on the data interface.                                    *)
SetInterface(t, on) ==
  /\ mounted /\ ~suspended
  /\ alt' = on
  /\ IF on THEN Renew(t, stack) ELSE UNCHANGED renewVars
  /\ UNCHANGED <<taskVars, usbVars, netVars, ncm_link, held, ndx, busy, ntb, lwipVars, sent>>

(* netd_xfer_cb: the transfer is over, and the buffer that is now in ntb   *)
(* goes to another place.  After a cut recv_tinyusb_ntb may be NULL, which *)
(* is no valid NTB and goes nowhere.                                       *)
TransferOver(place) ==
  /\ alt /\ ~suspended /\ busy /\ busy' = FALSE
  /\ held' = IF "usb" \in held THEN (held \ {"usb"}) \cup {place} ELSE held

(* Mutant: an invalid NTB is dropped and the receive logic not called.     *)
NtbInvalidIgnored(t) ==
  /\ TransferOver("free") /\ ntb' = <<>>
  /\ UNCHANGED <<taskVars, usbVars, netVars, alt, ncm_link, ndx, renewVars, lwipVars, sent>>

(* An NTB of k datagrams: recv_validate_datagram accepts one without any.  *)
NtbReceived(t, k) ==
  /\ TransferOver("ready")
  /\ sent + k <= MaxFrames /\ sent' = sent + k
  /\ ntb' = [n \in 1..k |-> sent + n]
  /\ Renew(t, stack)
  /\ UNCHANGED <<taskVars, usbVars, netVars, alt, ncm_link, ndx, lwipVars>>

(* One that recv_validate_datagram rejects.                                *)
NtbInvalid(t) ==
  /\ TransferOver("free") /\ ntb' = <<>>
  /\ Renew(t, stack)
  /\ UNCHANGED <<taskVars, usbVars, netVars, alt, ncm_link, ndx, lwipVars, sent>>

(* lwIP's thread cuts in when it handles an event although the USB task is *)
(* in mid-work.                                                            *)
Events(t) ==
  /\ InTudTask(t)
  /\ cut' = (cut \/ (Len(stack) > 0 /\ stack[1].place # "input"))
  /\ \/ BusReset \/ Unmount \/ Configure \/ Suspend \/ Resume \/ NtbInvalid(t)
     \/ \E on \in BOOLEAN : SetInterface(t, on)
     \/ \E k \in 0..MaxPerNtb : NtbReceived(t, k)

-----------------------------------------------------------------------------
(* lwIP's thread: a timer or an application's message makes it send.       *)

(* The device is ready, and the class cannot take the packet.              *)
OutputWaits ==
  /\ added /\ mounted /\ ~suspended /\ ~output /\ output' = TRUE
  /\ UNCHANGED <<u_pc, cut, usbVars, netVars, ncmVars, ntb, renewVars, lwipVars, sent>>

(* It can, or the device is no longer ready.                               *)
OutputReturns ==
  /\ output /\ ~Has("lwip") /\ output' = FALSE
  /\ UNCHANGED <<u_pc, cut, usbVars, netVars, ncmVars, ntb, renewVars, lwipVars, sent>>

-----------------------------------------------------------------------------
(* usb_netif_task.                                                         *)

(* tusb_init, which initialises the class driver.                          *)
TusbInit ==
  /\ u_pc = "start" /\ u_pc' = "wait"
  /\ UNCHANGED <<output, cut, usbVars, netVars, ncmVars, ntb, renewVars, lwipVars, sent>>

(* The loop finds the device ready, between two calls of tud_task (events  *)
(* already queued come first): init_lwip.  netif_init_cb sets the flag, so *)
(* that netif_set_link_up has nothing left to report.                      *)
NetifAdd ==
  /\ u_pc = "wait" /\ stack = <<>> /\ mounted /\ ~suspended
  /\ u_pc' = "serve" /\ added' = TRUE /\ link' = TRUE
  /\ UNCHANGED <<output, cut, usbVars, ncmVars, ntb, renewVars, lwipVars, sent>>

(* The DHCP and DNS servers have started.                                  *)
ServersStarted ==
  /\ u_pc = "serve" /\ Waits("lwip") /\ u_pc' = "run"
  /\ UNCHANGED <<output, cut, usbVars, netVars, ncmVars, ntb, renewVars, lwipVars, sent>>

-----------------------------------------------------------------------------
NetifInit ==
  /\ u_pc = "start" /\ output = FALSE /\ cut = FALSE
  /\ mounted = FALSE /\ suspended = FALSE /\ blink = "not_mounted"
  /\ added = FALSE /\ link = FALSE /\ alt = FALSE /\ ncm_link = TRUE
  /\ busy = FALSE /\ ntb = <<>> /\ held = {"free"} /\ ndx = 1
  /\ active = FALSE /\ again = FALSE /\ stack = <<>>
  /\ pool = PoolSize /\ sent = 0 /\ handed = <<>> /\ refused = FALSE

(* HardFault_Handler never returns; beyond a cut the system need not be    *)
(* followed.                                                               *)
Ended == u_pc = "fault" \/ (cut /\ ~Beyond)

Advance(i) ==
  \/ Again(i) \/ Transfer(i) \/ LoopExit(i) \/ TakeBuffer(i)
  \/ CbRefuse(i) \/ CbNoNetif(i) \/ CbInput(i) \/ CbRenew(i) \/ CbDone(i)

ReceiveLogic(t) ==
  \E i \in 1..Len(stack) : stack[i].task = t /\ (Advance(i) \/ CbInputReturns(i))

UsbTask ==
  ~Ended /\ (ReceiveLogic("usb") \/ Events("usb") \/ TusbInit \/ NetifAdd \/ ServersStarted)

LwipThread ==
  ~Ended /\ (ReceiveLogic("lwip") \/ Events("lwip") \/ OutputWaits \/ OutputReturns)

LwipFreesPbuf == ~Ended /\ FreePbuf

NetifNext ==
  UsbTask \/ LwipThread \/ LwipFreesPbuf \/ (Ended /\ UNCHANGED netifVars)

(* Neither task is kept from running for ever.  linkoutput_fn may handle   *)
(* events first, but the host takes what the device sends, or leaves; and  *)
(* pbufs are used and freed.                                               *)
NetifFairness ==
  /\ WF_netifVars(~Ended /\ \E i \in 1..Len(stack) : Advance(i))
  /\ SF_netifVars(~Ended /\ \E i \in 1..Len(stack) : CbInputReturns(i))
  /\ WF_netifVars(LwipFreesPbuf)

NetifSpec == NetifInit /\ [][NetifNext]_netifVars

-----------------------------------------------------------------------------
(* Properties.                                                             *)

Places == {"loop", "begin", "alloc", "input", "renew", "done", "take"}

(* Every variable has its type.                                            *)
TypeOK ==
  /\ u_pc \in {"start", "wait", "serve", "run", "fault"}
  /\ blink \in {"not_mounted", "mounted", "suspended"}
  /\ {output, cut, mounted, suspended, added, link, alt, ncm_link, busy, active, again, refused}
       \subseteq BOOLEAN
  /\ held \subseteq {"free", "usb", "ready", "glue"}
  /\ ntb \in Seq(1..MaxFrames) /\ Len(ntb) <= MaxPerNtb
  /\ ndx \in 1..MaxPerNtb
  /\ stack \in Seq([task : Threads, place : Places]) /\ Len(stack) <= MaxDepth
  /\ pool \in 0..PoolSize /\ sent \in 0..MaxFrames /\ handed \in Seq(0..MaxFrames)

(* The receive buffer is in exactly one place, free, with the endpoint,    *)
(* ready or with the callback: the host never writes into a buffer lwIP is *)
(* still being given, even if a reset, a new configuration and new         *)
(* datagrams are handled inside a callback, by either task, until the two  *)
(* cut into each other (ncm_device.c 481-581, usb_netif.c 119-136).        *)
BufferInOnePlace ==
  ~cut => /\ \E place \in {"free", "usb", "ready", "glue"} : held = {place}
          /\ busy <=> "usb" \in held

(* lwIP is given every datagram at most once, and in the order the host    *)
(* sent them, until the two tasks cut into each other (ncm_device.c        *)
(* 673-711 and 774-795, usb_netif.c 119-136 and 223-250).                  *)
InOrderOnce ==
  ~cut => \A i, j \in 1..Len(handed) : i < j => handed[i] < handed[j]

(* Whenever the device is mounted, inside a callback or not, lwIP's        *)
(* link flag, the link state the class reports and the LED agree with the  *)
(* bus, after any sequence of resets, unplugging and suspension, handled   *)
(* by either task, until the two cut into each other (usb_netif.c 119-136, *)
(* 166-175 and 328-352, ncm_device.c 810-831).                             *)
LinkAgrees ==
  ~cut /\ mounted =>
    /\ link
    /\ added => ncm_link
    /\ blink = IF suspended THEN "suspended" ELSE "mounted"

(* An NTB without a datagram is in hand, and nothing gives it back.        *)
EmptyInHand == "glue" \in held /\ ntb = <<>>

(* While the host uses the data interface, reception is started again      *)
(* after every NTB, valid or not, whatever happened inside the callbacks.  *)
(* There are three exceptions, each lasting until the next reset: lwIP has *)
(* had no pbuf for a datagram, and nobody asks again; the NTB had no       *)
(* datagram; or the two tasks have cut into each other (ncm_device.c       *)
(* 556-581, 673-694 and 774-795, usb_netif.c 119-136 and 229-232).         *)
ReceptionGoesOn ==
  u_pc = "run" /\ alt ~> "usb" \in held \/ ~alt \/ refused \/ EmptyInHand \/ cut

(* "TinyUSB is completely thread-safe by pushing all Interrupt Service     *)
(* Request (ISR) events into a central queue" (libs/tinyusb/README.rst     *)
(* 168): also with two tasks that take from it, a transfer always has its  *)
(* buffer.                                                                 *)
TransferHasBuffer == busy => "usb" \in held
=============================================================================
