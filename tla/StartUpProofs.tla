---------------------------- MODULE StartUpProofs ----------------------------
(***************************************************************************)
(* Machine-checked proofs about the network interface over USB, for every  *)
(* number of pbufs, datagrams and nested activations, and about start-up,  *)
(* whose steps are the interface's or leave it alone.  What is proved of   *)
(* the receive logic holds until lwIP's thread and the USB task cut into   *)
(* each other; the types hold beyond.                                      *)
(***************************************************************************)
EXTENDS StartUp, SequenceTheorems, TLAPS

USE UsbNetifAssumption

Activations == [task : Threads, place : Places]

Stacks == {s \in Seq(Activations) : Len(s) \in Nat}

-----------------------------------------------------------------------------
(* An activation moved to another place, begun, and left.                  *)
LEMMA Moved ==
  ASSUME NEW s \in Stacks, NEW i \in 1..Len(s), NEW place \in Places
  PROVE  LET t == [s EXCEPT ![i].place = place] IN
           /\ t \in Stacks /\ Len(t) = Len(s) /\ t[i].place = place
           /\ \A j \in 1..Len(s) : j # i => t[j] = s[j]
<1> DEFINE t == [s EXCEPT ![i].place = place]
<1>1. s \in [1..Len(s) -> Activations] /\ Len(s) \in Nat
  BY DEF Stacks
<1>2. s[i] \in Activations
  BY <1>1
<1>3. [s[i] EXCEPT !.place = place] \in Activations
  BY <1>2 DEF Activations
<1>4. t \in [1..Len(s) -> Activations]
  BY <1>1, <1>3
<1>5. t \in Seq(Activations) /\ Len(t) = Len(s)
  BY <1>1, <1>4
<1>6. t[i] = [s[i] EXCEPT !.place = place]
  BY <1>1
<1>7. t[i].place = place
  BY <1>2, <1>6 DEF Activations
<1> QED BY <1>1, <1>5, <1>7 DEF Stacks

LEMMA Pushed ==
  ASSUME NEW s \in Stacks, NEW thread \in Threads
  PROVE  LET t == <<[task |-> thread, place |-> "loop"]>> \o s IN
           /\ t \in Stacks /\ Len(t) = Len(s) + 1 /\ t[1].place = "loop"
           /\ \A j \in 2..Len(s) + 1 : t[j] = s[j - 1]
<1> DEFINE a == [task |-> thread, place |-> "loop"]
<1>1. a \in Activations /\ a.place = "loop"
  BY DEF Activations, Places
<1>2. s \in Seq(Activations) /\ Len(s) \in Nat
  BY DEF Stacks
<1> HIDE DEF a
<1>3. <<a>> \in Seq(Activations) /\ Len(<<a>>) = 1 /\ <<a>>[1] = a
  BY <1>1
<1>4. /\ <<a>> \o s \in Seq(Activations)
      /\ Len(<<a>> \o s) = Len(s) + 1
      /\ (<<a>> \o s)[1] = a
      /\ \A j \in 2..Len(s) + 1 : (<<a>> \o s)[j] = s[j - 1]
  BY <1>2, <1>3, ConcatProperties
<1> QED BY <1>1, <1>2, <1>4 DEF Stacks, a

LEMMA Left ==
  ASSUME stack \in Stacks, NEW i \in 1..Len(stack), Leave(i)
  PROVE  /\ stack' \in Stacks /\ Len(stack') = Len(stack) - 1
         /\ \A j \in 1..Len(stack) - 1 :
              stack'[j] = IF j < i THEN stack[j] ELSE stack[j + 1]
<1> DEFINE n == Len(stack) - 1
<1>1. stack \in [1..Len(stack) -> Activations] /\ Len(stack) \in Nat /\ n \in Nat
  BY DEF Stacks
<1>2. stack' = [j \in 1..n |-> IF j < i THEN stack[j] ELSE stack[j + 1]]
  BY DEF Leave
<1>3. stack' \in [1..n -> Activations]
  BY <1>1, <1>2
<1>4. n \in Nat /\ \A j \in 1..n : stack'[j] = IF j < i THEN stack[j] ELSE stack[j + 1]
  BY <1>1, <1>2
<1> HIDE DEF n
<1>5. stack' \in Seq(Activations) /\ Len(stack') = n
  BY <1>3, <1>4
<1> QED BY <1>4, <1>5 DEF Stacks, n

(* A call of the receive logic.                                            *)
LEMMA Renewed ==
  ASSUME NEW below \in Stacks, Len(below) <= MaxDepth, active \in BOOLEAN,
         NEW thread \in Threads, Renew(thread, below)
  PROVE  /\ active' = active /\ again' = TRUE
         /\ stack' \in Stacks /\ Len(stack') <= MaxDepth
         /\ active => stack' = below
         /\ ~active => /\ Len(stack') = Len(below) + 1 /\ stack'[1].place = "loop"
                       /\ \A j \in 2..Len(below) + 1 : stack'[j] = below[j - 1]
<1>1. active' = active /\ again' = TRUE
  BY DEF Renew
<1>2. CASE active
  BY <1>1, <1>2 DEF Renew
<1>3. CASE ~active
  <2>1. Len(below) < MaxDepth /\ Len(below) \in Nat
    BY <1>3 DEF Renew, Stacks
  <2>2. stack' = <<[task |-> thread, place |-> "loop"]>> \o below
    BY <1>3 DEF Renew
  <2> QED BY <1>1, <1>3, <2>1, <2>2, Pushed
<1> QED BY <1>2, <1>3

-----------------------------------------------------------------------------
(* The types, also beyond a cut.                                           *)
StackTyped == stack \in Stacks /\ Len(stack) <= MaxDepth /\ active \in BOOLEAN

LEMMA StackTypedKept ==
  ASSUME StackTyped, [NetifNext]_netifVars
  PROVE  StackTyped'
<1>1. ASSUME NEW i \in 1..Len(stack), NEW place \in Places, MoveTo(i, place),
             active' \in BOOLEAN
      PROVE  StackTyped'
  BY <1>1, Moved DEF StackTyped, MoveTo
<1>2. ASSUME NEW i \in 1..Len(stack), Leave(i), active' = active
      PROVE  StackTyped'
  <2>1. stack' \in Stacks /\ Len(stack') = Len(stack) - 1 /\ Len(stack) \in Nat
    BY <1>2, Left DEF StackTyped, Stacks
  <2> QED BY <1>2, <2>1 DEF StackTyped
<1>3. ASSUME NEW i \in 1..Len(stack), Advance(i) \/ CbInputReturns(i)
      PROVE  StackTyped'
  <2>1. CASE Again(i)
    BY <1>1, <2>1 DEF Again, StackTyped, Places
  <2>2. CASE Transfer(i)
    BY <1>1, <2>2 DEF Transfer, Places
  <2>3. CASE LoopExit(i)
    BY <1>1, <1>2, <2>3 DEF LoopExit, StackTyped, Places
  <2>4. CASE TakeBuffer(i)
    BY <1>2, <2>4 DEF TakeBuffer
  <2>5. CASE CbRefuse(i) \/ CbDone(i)
    BY <1>1, <2>5 DEF CbRefuse, CbDone, Places
  <2>6. CASE CbNoNetif(i)
    BY <2>6 DEF CbNoNetif, StackTyped, renewVars
  <2>7. CASE CbInput(i) \/ CbInputReturns(i)
    BY <1>1, <2>7 DEF CbInput, CbInputReturns, StackTyped, Places
  <2>8. CASE CbRenew(i)
    <3> DEFINE below == [stack EXCEPT ![i].place = "done"]
    <3>1. below \in Stacks /\ Len(below) = Len(stack)
      <4>1. "done" \in Places /\ stack \in Stacks
        BY DEF StackTyped, Places
      <4> QED BY <4>1, Moved
    <3>2. stack[i].task \in Threads
      <4>1. stack[i] \in Activations
        BY DEF StackTyped, Stacks
      <4> QED BY <4>1 DEF Activations
    <3>3. Renew(stack[i].task, below)
      BY <2>8 DEF CbRenew
    <3> HIDE DEF below
    <3> QED BY <3>1, <3>2, <3>3, Renewed DEF StackTyped
  <2> QED BY <1>3, <2>1, <2>2, <2>3, <2>4, <2>5, <2>6, <2>7, <2>8 DEF Advance
<1>4. ASSUME NEW t \in Threads, Events(t)
      PROVE  StackTyped'
  <2>1. CASE Renew(t, stack)
    BY <2>1, Renewed DEF StackTyped
  <2>2. CASE stack' = stack /\ active' \in BOOLEAN
    BY <2>2 DEF StackTyped
  <2>3. BusReset \/ Unmount \/ Configure \/ Suspend \/ Resume => stack' = stack /\ active' \in BOOLEAN
    BY DEF BusReset, Unmount, Reset, Configure, Suspend, Resume, renewVars, StackTyped
  <2>4. ASSUME NEW on \in BOOLEAN, SetInterface(t, on)
        PROVE  Renew(t, stack) \/ (stack' = stack /\ active' \in BOOLEAN)
    BY <2>4 DEF SetInterface, renewVars, StackTyped
  <2>5. NtbInvalid(t) \/ (\E k \in 0..MaxPerNtb : NtbReceived(t, k)) => Renew(t, stack)
    BY DEF NtbInvalid, NtbReceived
  <2> QED BY <1>4, <2>1, <2>2, <2>3, <2>4, <2>5 DEF Events
<1>5. CASE TusbInit \/ NetifAdd \/ ServersStarted \/ OutputWaits \/ OutputReturns \/ FreePbuf
             \/ UNCHANGED netifVars
  BY <1>5 DEF TusbInit, NetifAdd, ServersStarted, OutputWaits, OutputReturns, FreePbuf,
              netifVars, renewVars, StackTyped
<1> QED BY <1>3, <1>4, <1>5
        DEF NetifNext, UsbTask, LwipThread, LwipFreesPbuf, ReceiveLogic, Threads

Plain ==
  /\ u_pc \in {"start", "wait", "serve", "run", "fault"}
  /\ blink \in {"not_mounted", "mounted", "suspended"}
  /\ output \in BOOLEAN /\ cut \in BOOLEAN
  /\ mounted \in BOOLEAN /\ suspended \in BOOLEAN /\ added \in BOOLEAN /\ link \in BOOLEAN
  /\ alt \in BOOLEAN /\ ncm_link \in BOOLEAN /\ busy \in BOOLEAN
  /\ again \in BOOLEAN /\ refused \in BOOLEAN

LEMMA PlainKept ==
  ASSUME Plain, [NetifNext]_netifVars
  PROVE  Plain'
<1> USE DEF Plain, taskVars, usbVars, netVars, ncmVars, renewVars, lwipVars
<1>1. ASSUME NEW i \in 1..Len(stack), Advance(i) \/ CbInputReturns(i)
      PROVE  Plain'
  <2>5. cut' \in BOOLEAN
    <3>1. PICK place \in Places : At(i, place)
      BY <1>1 DEF Advance, Again, Transfer, LoopExit, TakeBuffer, CbRefuse, CbNoNetif, CbInput,
                  CbInputReturns, CbRenew, CbDone, Places
    <3> QED BY <3>1 DEF At
  <2>1. CASE Again(i)
    BY <2>1, <2>5 DEF Again
  <2>6. CASE Transfer(i)
    BY <2>5, <2>6 DEF Transfer
  <2>7. CASE LoopExit(i)
    BY <2>5, <2>7 DEF LoopExit
  <2>8. CASE TakeBuffer(i)
    <3>1. busy' \in {busy, mounted}
      BY <2>8 DEF TakeBuffer
    <3> QED BY <2>5, <2>8, <3>1 DEF TakeBuffer
  <2>2. CASE CbRefuse(i)
    BY <2>2, <2>5 DEF CbRefuse
  <2>9. CASE CbNoNetif(i)
    BY <2>5, <2>9 DEF CbNoNetif
  <2>10. CASE CbInput(i) \/ CbInputReturns(i)
    BY <2>5, <2>10 DEF CbInput, CbInputReturns
  <2>3. CASE CbRenew(i)
    BY <2>3, <2>5 DEF CbRenew, Renew
  <2>4. CASE CbDone(i)
    BY <2>4, <2>5 DEF CbDone
  <2> QED BY <1>1, <2>1, <2>2, <2>3, <2>4, <2>6, <2>7, <2>8, <2>9, <2>10 DEF Advance
<1>2. ASSUME NEW t \in Threads, Events(t)
      PROVE  Plain'
  <2>1. cut' \in BOOLEAN
    BY <1>2 DEF Events
  <2>2. CASE BusReset
    BY <2>1, <2>2 DEF BusReset, Reset
  <2>3. CASE Unmount
    <3>1. ncm_link' \in BOOLEAN /\ link' \in BOOLEAN /\ blink' = "not_mounted"
      BY <2>3 DEF Unmount, SetLink
    <3> QED BY <2>1, <2>3, <3>1 DEF Unmount, Reset
  <2>4. CASE Configure
    <3>1. ncm_link' \in BOOLEAN /\ link' \in BOOLEAN
      BY <2>4 DEF Configure, SetLink
    <3> QED BY <2>1, <2>4, <3>1 DEF Configure
  <2>5. CASE Suspend
    BY <2>1, <2>5 DEF Suspend
  <2>9. CASE Resume
    BY <2>1, <2>9 DEF Resume
  <2>6. CASE NtbInvalid(t)
    BY <2>1, <2>6 DEF NtbInvalid, TransferOver, Renew
  <2>7. ASSUME NEW on \in BOOLEAN, SetInterface(t, on)
        PROVE  Plain'
    BY <2>1, <2>7 DEF SetInterface, Renew
  <2>8. ASSUME NEW k \in 0..MaxPerNtb, NtbReceived(t, k)
        PROVE  Plain'
    BY <2>1, <2>8 DEF NtbReceived, TransferOver, Renew
  <2> QED BY <1>2, <2>2, <2>3, <2>4, <2>5, <2>6, <2>7, <2>8, <2>9 DEF Events
<1>3. CASE TusbInit \/ ServersStarted
  BY <1>3 DEF TusbInit, ServersStarted
<1>6. CASE OutputWaits \/ OutputReturns
  <2>1. output' \in BOOLEAN /\ UNCHANGED <<u_pc, cut, usbVars, netVars, ncmVars, again, refused>>
    BY <1>6 DEF OutputWaits, OutputReturns
  <2> QED BY <2>1
<1>4. CASE NetifAdd
  BY <1>4 DEF NetifAdd
<1>5. CASE FreePbuf \/ UNCHANGED netifVars
  BY <1>5 DEF FreePbuf, netifVars
<1> HIDE DEF Plain
<1> QED BY <1>1, <1>2, <1>3, <1>4, <1>5, <1>6
        DEF NetifNext, UsbTask, LwipThread, LwipFreesPbuf, ReceiveLogic, Threads

Buffer ==
  /\ held \subseteq {"free", "usb", "ready", "glue"}
  /\ ntb \in Seq(1..MaxFrames) /\ Len(ntb) \in Nat /\ Len(ntb) <= MaxPerNtb
  /\ ndx \in 1..MaxPerNtb
  /\ sent \in 0..MaxFrames /\ handed \in Seq(0..MaxFrames)

LEMMA BufferKept ==
  ASSUME Buffer, [NetifNext]_netifVars
  PROVE  Buffer'
<1> DEFINE same == UNCHANGED <<ntb, sent, handed>>
<1>1. ASSUME same, held' \subseteq {"free", "usb", "ready", "glue"}, ndx' \in 1..MaxPerNtb
      PROVE  Buffer'
  BY <1>1 DEF Buffer
<1>2. ASSUME NEW i \in 1..Len(stack), Advance(i) \/ CbInputReturns(i)
      PROVE  Buffer'
  <2>1. CASE Again(i) \/ CbRefuse(i) \/ CbNoNetif(i) \/ CbInputReturns(i) \/ CbRenew(i)
             \/ LoopExit(i)
    BY <1>1, <2>1 DEF Again, CbRefuse, CbNoNetif, CbInputReturns, CbRenew, LoopExit, ncmVars,
                      lwipVars, Buffer
  <2>2. CASE Transfer(i)
    <3>1. same /\ ndx' \in 1..MaxPerNtb
      BY <2>2 DEF Transfer, lwipVars, Buffer
    <3>2. held' \subseteq {"free", "usb", "ready", "glue"}
      BY <2>2 DEF Transfer, Buffer
    <3> QED BY <1>1, <3>1, <3>2
  <2>3. CASE TakeBuffer(i)
    <3>1. same /\ ndx' = ndx /\ held' \subseteq {"free", "usb", "ready", "glue"}
      BY <2>3 DEF TakeBuffer, lwipVars, Buffer
    <3> QED BY <1>1, <3>1 DEF Buffer
  <2>4. CASE CbInput(i)
    <3>1. Content(ndx) \in 0..MaxFrames
      BY DEF Content, Buffer
    <3>2. handed' \in Seq(0..MaxFrames)
      BY <2>4, <3>1, AppendProperties DEF CbInput, Buffer
    <3> QED BY <2>4, <3>2 DEF CbInput, ncmVars, Buffer
  <2>5. CASE CbDone(i)
    <3>1. same /\ ndx' \in 1..MaxPerNtb
      BY <2>5 DEF CbDone, lwipVars, Buffer
    <3>2. held' \subseteq {"free", "usb", "ready", "glue"}
      BY <2>5 DEF CbDone, Buffer
    <3> QED BY <1>1, <3>1, <3>2
  <2> QED BY <1>2, <2>1, <2>2, <2>3, <2>4, <2>5 DEF Advance
<1>3. ASSUME NEW place \in {"free", "ready"}, TransferOver(place)
      PROVE  held' \subseteq {"free", "usb", "ready", "glue"}
  BY <1>3 DEF TransferOver, Buffer
<1>4. ASSUME NEW t \in Threads, Events(t)
      PROVE  Buffer'
  <2>1. CASE BusReset \/ Unmount
    <3>1. same /\ ndx' = 1 /\ held' = {"free"}
      BY <2>1 DEF BusReset, Unmount, Reset
    <3> QED BY <1>1, <3>1
  <2>2. CASE Configure \/ Suspend \/ Resume
    <3>1. same /\ UNCHANGED <<ndx, held>>
      BY <2>2 DEF Configure, Suspend, Resume, ncmVars, lwipVars
    <3> QED BY <1>1, <3>1 DEF Buffer
  <2>3. ASSUME NEW on \in BOOLEAN, SetInterface(t, on)
        PROVE  Buffer'
    BY <1>1, <2>3 DEF SetInterface, lwipVars, Buffer
  <2>4. CASE NtbInvalid(t)
    <3>1. ntb' = <<>> /\ UNCHANGED <<ndx, sent, handed>>
      BY <2>4 DEF NtbInvalid, lwipVars
    <3>2. held' \subseteq {"free", "usb", "ready", "glue"}
      BY <1>3, <2>4 DEF NtbInvalid
    <3>3. <<>> \in Seq(1..MaxFrames) /\ Len(<<>>) = 0
      OBVIOUS
    <3> QED BY <3>1, <3>2, <3>3 DEF Buffer
  <2>5. ASSUME NEW k \in 0..MaxPerNtb, NtbReceived(t, k)
        PROVE  Buffer'
    <3>1. /\ ntb' = [n \in 1..k |-> sent + n] /\ sent' = sent + k /\ sent + k <= MaxFrames
          /\ UNCHANGED <<ndx, handed>>
      BY <2>5 DEF NtbReceived, lwipVars
    <3>2. held' \subseteq {"free", "usb", "ready", "glue"}
      BY <1>3, <2>5 DEF NtbReceived
    <3>3. \A n \in 1..k : sent + n \in 1..MaxFrames
      BY <3>1 DEF Buffer
    <3>4. ntb' \in Seq(1..MaxFrames) /\ Len(ntb') = k /\ k \in Nat /\ k <= MaxPerNtb
      BY <3>1, <3>3
    <3> QED BY <3>1, <3>2, <3>4 DEF Buffer
  <2> QED BY <1>4, <2>1, <2>2, <2>3, <2>4, <2>5 DEF Events
<1>5. CASE TusbInit \/ NetifAdd \/ ServersStarted \/ OutputWaits \/ OutputReturns \/ FreePbuf
             \/ UNCHANGED netifVars
  BY <1>1, <1>5 DEF TusbInit, NetifAdd, ServersStarted, OutputWaits, OutputReturns, FreePbuf,
                    netifVars, ncmVars, lwipVars, Buffer
<1> HIDE DEF same
<1> QED BY <1>2, <1>4, <1>5
        DEF NetifNext, UsbTask, LwipThread, LwipFreesPbuf, ReceiveLogic, Threads

Pool == pool \in 0..PoolSize

LEMMA PoolKept ==
  ASSUME Pool, [NetifNext]_netifVars
  PROVE  Pool'
<1>1. ASSUME NEW i \in 1..Len(stack), Advance(i) \/ CbInputReturns(i)
      PROVE  pool' = pool \/ (pool' = pool - 1 /\ pool > 0)
  BY <1>1 DEF Advance, Again, Transfer, LoopExit, TakeBuffer, CbRefuse, CbNoNetif, CbInput,
              CbInputReturns, CbRenew, CbDone, lwipVars
<1>2. ASSUME NEW t \in Threads, Events(t)
      PROVE  pool' = pool
  BY <1>2 DEF Events, BusReset, Unmount, Reset, Configure, Suspend, Resume, NtbInvalid,
              SetInterface, NtbReceived, lwipVars
<1>3. CASE TusbInit \/ NetifAdd \/ ServersStarted \/ OutputWaits \/ OutputReturns
             \/ UNCHANGED netifVars
  BY <1>3 DEF TusbInit, NetifAdd, ServersStarted, OutputWaits, OutputReturns, netifVars,
              lwipVars, Pool
<1>4. CASE FreePbuf
  BY <1>4 DEF FreePbuf, Pool
<1>5. \/ pool' = pool \/ (pool' = pool - 1 /\ pool > 0)
      \/ TusbInit \/ NetifAdd \/ ServersStarted \/ OutputWaits \/ OutputReturns \/ FreePbuf
      \/ UNCHANGED netifVars
  BY <1>1, <1>2 DEF NetifNext, UsbTask, LwipThread, LwipFreesPbuf, ReceiveLogic, Threads
<1> QED BY <1>3, <1>4, <1>5 DEF Pool

Types == StackTyped /\ Plain /\ Buffer /\ Pool

LEMMA TypesHold == NetifSpec => []Types
<1>1. NetifInit => Types
  <2> SUFFICES ASSUME NetifInit PROVE Types
    OBVIOUS
  <2>1. <<>> \in Seq(Activations) /\ <<>> \in Seq(1..MaxFrames) /\ <<>> \in Seq(0..MaxFrames)
        /\ Len(<<>>) = 0
    OBVIOUS
  <2>2. StackTyped
    <3>1. stack = <<>> /\ active = FALSE
      BY DEF NetifInit
    <3>2. stack \in Stacks /\ Len(stack) <= MaxDepth
      BY <2>1, <3>1 DEF Stacks
    <3> QED BY <3>1, <3>2 DEF StackTyped
  <2>3. Plain
    BY DEF NetifInit, Plain
  <2>4. Buffer
    BY <2>1 DEF NetifInit, Buffer
  <2> QED BY <2>2, <2>3, <2>4 DEF NetifInit, Types, Pool
<1>2. Types /\ [NetifNext]_netifVars => Types'
  BY StackTypedKept, PlainKept, BufferKept, PoolKept DEF Types
<1> QED BY <1>1, <1>2, PTL DEF NetifSpec

(* The types, for every number of pbufs, datagrams and activations, beyond *)
(* a cut as well.                                                          *)
THEOREM NetifTypeCorrect == NetifSpec => []TypeOK
<1>1. ASSUME Types PROVE TypeOK
  <2>1. {output, cut, mounted, suspended, added, link, alt, ncm_link, busy, active, again, refused}
          \subseteq BOOLEAN
    BY <1>1 DEF Types, Plain, StackTyped
  <2>2. stack \in Seq([task : Threads, place : Places]) /\ Len(stack) <= MaxDepth
    BY <1>1 DEF Types, StackTyped, Stacks, Activations
  <2>3. pool \in 0..PoolSize
    BY <1>1 DEF Types, Pool
  <2> QED BY <1>1, <2>1, <2>2, <2>3 DEF TypeOK, Types, Plain, Buffer
<1> QED BY <1>1, TypesHold, PTL

-----------------------------------------------------------------------------
(* Until the first cut every step is one of the innermost activation, and  *)
(* an event finds it waiting.                                              *)
Top(place) == Len(stack) >= 1 /\ stack[1].place = place

LEMMA FirstOnly ==
  ASSUME Types, NEW i \in 1..Len(stack), Advance(i) \/ CbInputReturns(i), ~cut'
  PROVE  ~cut /\ i = 1 /\ Len(stack) >= 1
<1>1. PICK place \in Places : At(i, place)
  BY DEF Advance, Again, Transfer, LoopExit, TakeBuffer, CbRefuse, CbNoNetif, CbInput,
         CbInputReturns, CbRenew, CbDone, Places
<1>2. Len(stack) \in Nat
  BY DEF Types, StackTyped, Stacks
<1>3. cut' = (cut \/ i # 1)
  BY <1>1 DEF At
<1>4. ~cut /\ i = 1
  BY <1>3, Zenon
<1> QED BY <1>2, <1>4

LEMMA EventWaited ==
  ASSUME Types, NEW t \in Threads, Events(t), ~cut'
  PROVE  ~cut /\ (Len(stack) = 0 \/ stack[1].place = "input")
<1>1. Len(stack) \in Nat
  BY DEF Types, StackTyped, Stacks
<1>2. cut' = (cut \/ (Len(stack) > 0 /\ stack[1].place # "input"))
  BY DEF Events
<1>3. ~cut /\ (~(Len(stack) > 0) \/ stack[1].place = "input")
  BY <1>2, Zenon
<1> QED BY <1>1, <1>3

LEMMA CutLasts ==
  ASSUME Types, [NetifNext]_netifVars, ~cut'
  PROVE  ~cut
<1>1. CASE TusbInit \/ NetifAdd \/ ServersStarted \/ OutputWaits \/ OutputReturns \/ FreePbuf
             \/ UNCHANGED netifVars
  BY <1>1 DEF TusbInit, NetifAdd, ServersStarted, OutputWaits, OutputReturns, FreePbuf, netifVars
<1> QED BY <1>1, FirstOnly, EventWaited
        DEF NetifNext, UsbTask, LwipThread, LwipFreesPbuf, ReceiveLogic, Threads

(* The activations under the innermost one are all inside a call.          *)
Nested == \A j \in 2..Len(stack) : stack[j].place \in {"input", "done"}

LEMMA TopMoved ==
  ASSUME Types, Nested, Len(stack) >= 1, NEW place \in Places, MoveTo(1, place)
  PROVE  Nested' /\ Len(stack') = Len(stack) /\ Len(stack') >= 1 /\ stack'[1].place = place
<1>1. stack \in Stacks /\ 1 \in 1..Len(stack) /\ Len(stack) \in Nat
  BY DEF Types, StackTyped, Stacks
<1>2. /\ Len(stack') = Len(stack) /\ stack'[1].place = place
      /\ \A j \in 1..Len(stack) : j # 1 => stack'[j] = stack[j]
  BY <1>1, Moved DEF MoveTo
<1> QED BY <1>1, <1>2 DEF Nested

LEMMA TopLeft ==
  ASSUME Types, Nested, Len(stack) >= 1, Leave(1)
  PROVE  Nested' /\ (Len(stack') = 0 \/ stack'[1].place \in {"input", "done"})
<1>1. stack \in Stacks /\ 1 \in 1..Len(stack) /\ Len(stack) \in Nat
  BY DEF Types, StackTyped, Stacks
<1>2. /\ Len(stack') = Len(stack) - 1
      /\ \A j \in 1..Len(stack) - 1 : stack'[j] = IF j < 1 THEN stack[j] ELSE stack[j + 1]
  BY <1>1, Left
<1>3. \A j \in 1..Len(stack') : stack'[j].place \in {"input", "done"}
  <2> SUFFICES ASSUME NEW j \in 1..Len(stack') PROVE stack'[j].place \in {"input", "done"}
    OBVIOUS
  <2>1. j \in 1..Len(stack) - 1 /\ ~(j < 1) /\ j + 1 \in 2..Len(stack)
    BY <1>1, <1>2
  <2> QED BY <1>2, <2>1 DEF Nested
<1> QED BY <1>1, <1>2, <1>3 DEF Nested

LEMMA Below ==
  ASSUME Types, Nested, NEW below \in Stacks, Len(below) <= MaxDepth,
         \A j \in 1..Len(below) : below[j].place \in {"input", "done"},
         NEW thread \in Threads, Renew(thread, below)
  PROVE  /\ Nested' /\ active' = active
         /\ active => stack' = below
         /\ ~active => Len(stack') >= 1 /\ stack'[1].place = "loop"
<1>1. active \in BOOLEAN /\ Len(below) \in Nat
  BY DEF Types, StackTyped, Stacks
<1>2. /\ active' = active
      /\ active => stack' = below
      /\ ~active => /\ Len(stack') = Len(below) + 1 /\ stack'[1].place = "loop"
                    /\ \A j \in 2..Len(below) + 1 : stack'[j] = below[j - 1]
  BY <1>1, Renewed
<1>3. Nested'
  <2>1. CASE active
    BY <1>1, <1>2, <2>1 DEF Nested
  <2>2. CASE ~active
    <3> SUFFICES ASSUME NEW j \in 2..Len(stack')
                 PROVE  stack'[j].place \in {"input", "done"}
      BY DEF Nested
    <3>1. stack'[j] = below[j - 1] /\ j - 1 \in 1..Len(below)
      BY <1>1, <1>2, <2>2
    <3> QED BY <3>1
  <2> QED BY <2>1, <2>2
<1> QED BY <1>1, <1>2, <1>3

(* A call from an event, which finds the innermost activation waiting.     *)
LEMMA EventRenews ==
  ASSUME Types, Nested, Len(stack) = 0 \/ stack[1].place = "input",
         NEW thread \in Threads, Renew(thread, stack)
  PROVE  /\ Nested' /\ active' = active
         /\ active => stack' = stack
         /\ ~active => Len(stack') >= 1 /\ stack'[1].place = "loop"
<1>1. stack \in Stacks /\ Len(stack) <= MaxDepth /\ Len(stack) \in Nat
  BY DEF Types, StackTyped, Stacks
<1>2. \A j \in 1..Len(stack) : stack[j].place \in {"input", "done"}
  BY <1>1 DEF Nested
<1> QED BY <1>1, <1>2, Below

-----------------------------------------------------------------------------
(* The stack, and where the buffer is while a datagram is being delivered, *)
(* or while a new transfer is about to be started.                         *)
OnePlace ==
  /\ \E place \in {"free", "usb", "ready", "glue"} : held = {place}
  /\ busy <=> "usb" \in held

Shape ==
  /\ Nested
  /\ active => Len(stack) >= 1 /\ stack[1].place \notin {"loop", "begin", "take"}
               /\ held = {"glue"}
  /\ Top("alloc") => active
  /\ Top("take") => alt /\ "usb" \notin held
  /\ alt => mounted
  /\ OnePlace

(* Until the first cut, the receive logic keeps the shape.                 *)
LEMMA TopKeepsShape ==
  ASSUME Types, Shape, Len(stack) >= 1, ~cut', Advance(1) \/ CbInputReturns(1)
  PROVE  Shape'
<1> USE DEF At, Top
<1>0. Nested /\ active \in BOOLEAN /\ busy \in BOOLEAN /\ alt \in BOOLEAN /\ mounted \in BOOLEAN
  BY DEF Shape, Types, StackTyped, Plain
<1>1. CASE Again(1)
  <2>1. /\ stack[1].place = "loop" /\ MoveTo(1, "begin")
        /\ UNCHANGED <<active, held, busy, alt, mounted>>
    BY <1>1 DEF Again, ncmVars, usbVars
  <2> QED BY <1>0, <2>1, TopMoved DEF Shape, OnePlace, Places
<1>2. CASE Transfer(1)
  <2>1. ~active /\ stack[1].place = "begin" /\ UNCHANGED <<busy, alt, mounted>>
    BY <1>2 DEF Transfer, Shape, usbVars
  <2>2. held' = IF "ready" \in held THEN {"glue"} ELSE held
    BY <1>2 DEF Transfer, Shape, OnePlace
  <2>3. OnePlace'
    BY <2>1, <2>2 DEF Shape, OnePlace
  <2>4. CASE active' = TRUE /\ MoveTo(1, "alloc") /\ ("glue" \in held \/ "ready" \in held)
    <3>1. held' = {"glue"}
      BY <2>2, <2>4 DEF Shape, OnePlace
    <3> QED BY <1>0, <2>1, <2>3, <2>4, <3>1, TopMoved DEF Shape, Places
  <2>5. CASE active' = FALSE /\ MoveTo(1, "loop")
    BY <1>0, <2>1, <2>3, <2>5, TopMoved DEF Shape, Places
  <2> QED BY <1>2, <2>4, <2>5 DEF Transfer
<1>3. CASE LoopExit(1)
  <2>1. /\ ~active /\ UNCHANGED <<active, held, busy, alt, mounted>>
    BY <1>3 DEF LoopExit, Shape, ncmVars, usbVars
  <2>2. CASE alt /\ "usb" \notin held /\ MoveTo(1, "take")
    BY <1>0, <2>1, <2>2, TopMoved DEF Shape, OnePlace, Places
  <2>3. CASE Leave(1)
    BY <1>0, <2>1, <2>3, TopLeft DEF Shape, OnePlace
  <2> QED BY <1>3, <2>2, <2>3 DEF LoopExit
<1>4. CASE TakeBuffer(1)
  <2>1. ~active /\ alt /\ mounted /\ ~busy /\ "usb" \notin held
    BY <1>4 DEF TakeBuffer, Shape, OnePlace
  <2>2. Leave(1) /\ UNCHANGED <<active, alt, mounted>>
    BY <1>4 DEF TakeBuffer, usbVars
  <2>3. OnePlace'
    BY <1>4, <2>1 DEF TakeBuffer, Shape, OnePlace
  <2> QED BY <1>0, <2>1, <2>2, <2>3, TopLeft DEF Shape
<1>5. CASE CbRefuse(1)
  <2>1. active' = FALSE /\ MoveTo(1, "loop") /\ UNCHANGED <<held, busy, alt, mounted>>
    BY <1>5 DEF CbRefuse, ncmVars, usbVars
  <2> QED BY <1>0, <2>1, TopMoved DEF Shape, OnePlace, Places
<1>6. CASE CbNoNetif(1)
  <2>1. UNCHANGED <<active, stack, held, busy, alt, mounted>>
    BY <1>6 DEF CbNoNetif, renewVars, ncmVars, usbVars
  <2> QED BY <2>1 DEF Shape, OnePlace, Nested
<1>7. CASE CbInput(1)
  <2>1. active /\ MoveTo(1, "input") /\ UNCHANGED <<active, held, busy, alt, mounted>>
    BY <1>7 DEF CbInput, Shape, ncmVars, usbVars
  <2> QED BY <1>0, <2>1, TopMoved DEF Shape, OnePlace, Places
<1>8. CASE CbInputReturns(1)
  <2>1. MoveTo(1, "renew") /\ UNCHANGED <<active, held, busy, alt, mounted>>
    BY <1>8 DEF CbInputReturns, ncmVars, usbVars
  <2> QED BY <1>0, <2>1, TopMoved DEF Shape, OnePlace, Places
<1>9. CASE CbRenew(1)
  <2> DEFINE below == [stack EXCEPT ![1].place = "done"]
  <2>1. stack \in Stacks /\ 1 \in 1..Len(stack) /\ Len(stack) <= MaxDepth /\ Len(stack) \in Nat
    BY DEF Types, StackTyped, Stacks
  <2>2. /\ below \in Stacks /\ Len(below) = Len(stack) /\ below[1].place = "done"
        /\ \A j \in 1..Len(stack) : j # 1 => below[j] = stack[j]
    <3>1. "done" \in Places
      BY DEF Places
    <3> QED BY <2>1, <3>1, Moved
  <2>3. Renew(stack[1].task, below) /\ UNCHANGED <<held, busy, alt, mounted>>
    BY <1>9 DEF CbRenew, ncmVars, usbVars
  <2>4. stack[1].task \in Threads
    <3>1. stack[1] \in Activations
      BY <2>1 DEF Stacks
    <3> QED BY <3>1 DEF Activations
  <2> HIDE DEF below
  <2>5. \A j \in 1..Len(below) : below[j].place \in {"input", "done"}
    BY <1>0, <2>1, <2>2 DEF Nested
  <2>6. /\ Nested' /\ active' = active
        /\ active => stack' = below
        /\ ~active => Len(stack') >= 1 /\ stack'[1].place = "loop"
    BY <1>0, <2>1, <2>2, <2>3, <2>4, <2>5, Below
  <2>7. ~Top("alloc")' /\ ~Top("take")'
    BY <1>0, <2>2, <2>6
  <2>8. active => Len(stack') >= 1 /\ stack'[1].place = "done"
    BY <2>1, <2>2, <2>6
  <2> QED BY <2>3, <2>6, <2>7, <2>8 DEF Shape, OnePlace
<1>10. CASE CbDone(1)
  <2>1. active' = FALSE /\ MoveTo(1, "loop") /\ UNCHANGED <<busy, alt, mounted>>
    BY <1>10 DEF CbDone, usbVars
  <2>2. held' = held \/ ("glue" \in held /\ held' = (held \ {"glue"}) \cup {"free"})
    BY <1>10 DEF CbDone
  <2>3. OnePlace'
    BY <2>1, <2>2 DEF Shape, OnePlace
  <2> QED BY <1>0, <2>1, <2>3, TopMoved DEF Shape, Places
<1> QED BY <1>1, <1>2, <1>3, <1>4, <1>5, <1>6, <1>7, <1>8, <1>9, <1>10 DEF Advance

(* So do the events of the bus, handled in the middle of it.               *)
LEMMA EventsKeepShape ==
  ASSUME Types, Shape, NEW t \in Threads, Events(t), ~cut'
  PROVE  Shape'
<1> USE DEF Top
<1>0. /\ Nested /\ (Len(stack) = 0 \/ stack[1].place = "input") /\ Len(stack) \in Nat
      /\ active \in BOOLEAN /\ busy \in BOOLEAN /\ alt \in BOOLEAN /\ mounted \in BOOLEAN
  BY EventWaited DEF Shape, Types, StackTyped, Stacks, Plain
<1>1. CASE BusReset \/ Unmount
  <2>1. active' = FALSE /\ stack' = stack /\ held' = {"free"} /\ alt' = FALSE /\ busy' = FALSE
    BY <1>1 DEF BusReset, Unmount, Reset
  <2>2. OnePlace'
    BY <2>1 DEF OnePlace
  <2> QED BY <1>0, <2>1, <2>2 DEF Shape, Nested
<1>2. CASE Configure \/ Suspend \/ Resume
  <2>1. /\ UNCHANGED <<active, stack, held, busy, alt>>
        /\ mounted' = mounted \/ mounted' = TRUE
    BY <1>2 DEF Configure, Suspend, Resume, renewVars, ncmVars
  <2> QED BY <2>1 DEF Shape, OnePlace, Nested
<1>3. ASSUME NEW on \in BOOLEAN, SetInterface(t, on)
      PROVE  Shape'
  <2>1. /\ UNCHANGED <<held, busy, mounted>> /\ mounted
        /\ Renew(t, stack) \/ UNCHANGED <<active, stack>>
    BY <1>3 DEF SetInterface, renewVars, usbVars
  <2>2. CASE UNCHANGED <<active, stack>>
    BY <1>0, <2>1, <2>2 DEF Shape, OnePlace, Nested
  <2>3. CASE Renew(t, stack)
    <3>1. /\ Nested' /\ active' = active
          /\ active => stack' = stack
          /\ ~active => Len(stack') >= 1 /\ stack'[1].place = "loop"
      BY <1>0, <2>3, EventRenews
    <3> QED BY <1>0, <2>1, <3>1 DEF Shape, OnePlace
  <2> QED BY <2>1, <2>2, <2>3
<1>4. ASSUME NEW place \in {"free", "ready"}, TransferOver(place), Renew(t, stack),
             UNCHANGED <<alt, mounted>>
      PROVE  Shape'
  <2>1. held = {"usb"} /\ held' = {place} /\ busy' = FALSE
    BY <1>4 DEF TransferOver, Shape, OnePlace
  <2>2. ~active /\ OnePlace'
    BY <2>1 DEF Shape, OnePlace
  <2>3. Nested' /\ active' = active /\ Len(stack') >= 1 /\ stack'[1].place = "loop"
    BY <1>0, <1>4, <2>2, EventRenews
  <2> QED BY <1>4, <2>2, <2>3 DEF Shape
<1>5. CASE NtbInvalid(t)
  BY <1>4, <1>5 DEF NtbInvalid, usbVars
<1>6. ASSUME NEW k \in 0..MaxPerNtb, NtbReceived(t, k)
      PROVE  Shape'
  BY <1>4, <1>6 DEF NtbReceived, usbVars
<1> QED BY <1>1, <1>2, <1>3, <1>5, <1>6 DEF Events

LEMMA ShapeKept ==
  ASSUME Types, Shape, [NetifNext]_netifVars, ~cut'
  PROVE  Shape'
<1>1. CASE TusbInit \/ NetifAdd \/ ServersStarted \/ OutputWaits \/ OutputReturns \/ FreePbuf
             \/ UNCHANGED netifVars
  <2>1. UNCHANGED <<active, stack, held, busy, alt, mounted>>
    BY <1>1 DEF TusbInit, NetifAdd, ServersStarted, OutputWaits, OutputReturns, FreePbuf,
                netifVars, renewVars, ncmVars, usbVars
  <2> QED BY <2>1 DEF Shape, OnePlace, Nested, Top
<1>2. ASSUME NEW i \in 1..Len(stack), Advance(i) \/ CbInputReturns(i)
      PROVE  Shape'
  <2>1. i = 1 /\ Len(stack) >= 1
    BY <1>2, FirstOnly
  <2> QED BY <1>2, <2>1, TopKeepsShape
<1> QED BY <1>1, <1>2, EventsKeepShape
        DEF NetifNext, UsbTask, LwipThread, LwipFreesPbuf, ReceiveLogic, Threads

-----------------------------------------------------------------------------
(* The datagrams: those in the buffer, and those given to lwIP, are in the *)
(* host's order, and those the buffer still has to deliver come after all  *)
(* that have been given.                                                   *)
Rising(s) ==
  /\ s \in Seq(Nat) /\ Len(s) \in Nat
  /\ \A i \in 1..Len(s) : s[i] >= 1 /\ s[i] <= sent
  /\ \A i, j \in 1..Len(s) : i < j => s[i] < s[j]

Pending(j) == j >= ndx /\ (active /\ ~Top("alloc") => j > ndx)

Order ==
  /\ Rising(ntb) /\ Rising(handed)
  /\ Top("alloc") => ndx <= Len(ntb)
  /\ held = {"ready"} =>
       \A i \in 1..Len(handed), j \in 1..Len(ntb) : handed[i] < ntb[j]
  /\ held = {"glue"} =>
       \A i \in 1..Len(handed), j \in 1..Len(ntb) : Pending(j) => handed[i] < ntb[j]

(* A step that moves no datagram, and leaves the callback where it is or   *)
(* before the same datagram.                                               *)
LEMMA OrderFrame ==
  ASSUME Order, Types, UNCHANGED <<ntb, handed, sent>>, ndx' \in Nat,
         Top("alloc")' => ndx' <= Len(ntb),
         held' = {"ready"} => held = {"ready"},
         held' = {"glue"} => \/ held = {"ready"}
                             \/ held = {"glue"} /\ \A j \in Nat : Pending(j)' => Pending(j)
  PROVE  Order'
<1>1. Rising(ntb)' /\ Rising(handed)'
  BY DEF Order, Rising
<1>2. Len(ntb) \in Nat /\ \A j \in 1..Len(ntb) : j \in Nat
  BY DEF Order, Rising
<1>3. held' = {"ready"} =>
        \A i \in 1..Len(handed'), j \in 1..Len(ntb') : handed'[i] < ntb'[j]
  BY DEF Order
<1>4. held' = {"glue"} =>
        \A i \in 1..Len(handed'), j \in 1..Len(ntb') : Pending(j)' => handed'[i] < ntb'[j]
  <2>1. CASE held = {"ready"}
    BY <2>1 DEF Order
  <2>2. CASE held = {"glue"} /\ \A j \in Nat : Pending(j)' => Pending(j)
    BY <1>2, <2>2 DEF Order
  <2> QED BY <2>1, <2>2
<1>5. Top("alloc")' => ndx' <= Len(ntb')
  OBVIOUS
<1> HIDE DEF Top, Pending, Rising
<1> QED BY <1>1, <1>3, <1>4, <1>5 DEF Order

LEMMA TopKeepsOrder ==
  ASSUME Types, Shape, Order, Len(stack) >= 1, ~cut', Advance(1) \/ CbInputReturns(1)
  PROVE  Order'
<1> USE DEF Top
<1>0. /\ Nested /\ active \in BOOLEAN /\ ndx \in Nat /\ ndx >= 1
      /\ (active => held = {"glue"}) /\ OnePlace
  BY DEF Shape, Types, StackTyped, Buffer
<1>1. CASE Again(1)
  <2>1. /\ ~active /\ ~active' /\ MoveTo(1, "begin")
        /\ UNCHANGED <<ntb, handed, sent, ndx, held>>
    BY <1>1 DEF Again, At, Shape, ncmVars, lwipVars
  <2>2. ~Top("alloc")'
    BY <1>0, <2>1, TopMoved DEF Places
  <2> QED BY <1>0, <2>1, <2>2, OrderFrame DEF Pending
<1>2. CASE Transfer(1)
  <2>1. ~active /\ stack[1].place = "begin" /\ UNCHANGED <<ntb, handed, sent>>
    BY <1>2 DEF Transfer, At, Shape, lwipVars
  <2>2. /\ held' = IF "ready" \in held THEN {"glue"} ELSE held
        /\ "glue" \in held => ndx' = ndx
        /\ ndx' \in {1, ndx}
    BY <1>2 DEF Transfer, Shape, OnePlace
  <2>3. held' = {"ready"} => held = {"ready"}
    BY <2>2
  <2>4. Top("alloc")' => ndx' <= Len(ntb)
    <3>1. CASE MoveTo(1, "loop")
      BY <1>0, <3>1, TopMoved DEF Places
    <3>2. CASE (IF "glue" \notin held THEN 1 ELSE ndx) <= Len(ntb)
      BY <1>2, <3>2 DEF Transfer
    <3> QED BY <1>2, <3>1, <3>2 DEF Transfer
  <2>5. held' = {"glue"} => held = {"ready"} \/ held = {"glue"}
    BY <1>0, <2>2 DEF OnePlace
  <2>6. held = {"glue"} => \A j \in Nat : Pending(j)' => Pending(j)
    BY <2>1, <2>2 DEF Pending
  <2> QED BY <1>0, <2>1, <2>2, <2>3, <2>4, <2>5, <2>6, OrderFrame
<1>3. CASE LoopExit(1)
  <2>1. ~active /\ ~active' /\ UNCHANGED <<ntb, handed, sent, ndx, held>>
    BY <1>3 DEF LoopExit, At, Shape, ncmVars, lwipVars
  <2>2. ~Top("alloc")'
    <3>1. CASE MoveTo(1, "take")
      BY <1>0, <3>1, TopMoved DEF Places
    <3>2. CASE Leave(1)
      BY <1>0, <3>2, TopLeft
    <3> QED BY <1>3, <3>1, <3>2 DEF LoopExit
  <2> QED BY <1>0, <2>1, <2>2, OrderFrame DEF Pending
<1>4. CASE TakeBuffer(1)
  <2>1. /\ ~active /\ ~active' /\ Leave(1) /\ UNCHANGED <<ntb, handed, sent, ndx>>
        /\ held' = held \/ held' = {"usb"}
    BY <1>4 DEF TakeBuffer, At, Shape, OnePlace, lwipVars
  <2>2. ~Top("alloc")'
    BY <1>0, <2>1, TopLeft
  <2> QED BY <1>0, <2>1, <2>2, OrderFrame DEF Pending
<1>5. CASE CbRefuse(1)
  <2>1. /\ UNCHANGED <<ntb, handed, sent, ndx, held>> /\ Top("alloc") /\ ~active'
        /\ MoveTo(1, "loop")
    BY <1>5 DEF CbRefuse, At, ncmVars
  <2>2. ~Top("alloc")'
    BY <1>0, <2>1, TopMoved DEF Places
  <2>3. \A j \in Nat : Pending(j)' => Pending(j)
    BY <2>1 DEF Pending
  <2> QED BY <1>0, <2>1, <2>2, <2>3, OrderFrame
<1>6. CASE CbNoNetif(1)
  <2>1. UNCHANGED <<ntb, handed, sent, ndx, held, active, stack>>
    BY <1>6 DEF CbNoNetif, renewVars, ncmVars, lwipVars
  <2> QED BY <1>0, <2>1, OrderFrame DEF Pending, Order
<1>7. CASE CbInput(1)
  <2>1. /\ Top("alloc") /\ active /\ active' = active /\ MoveTo(1, "input") /\ held = {"glue"}
        /\ UNCHANGED <<ntb, sent, ndx, held>> /\ handed' = Append(handed, Content(ndx))
    BY <1>7 DEF CbInput, At, Shape, ncmVars
  <2>2. ~Top("alloc")'
    BY <1>0, <2>1, TopMoved DEF Places
  <2>3. /\ ntb[ndx] \in Nat /\ ntb[ndx] >= 1 /\ ntb[ndx] <= sent
        /\ \A i \in 1..Len(handed) : handed[i] < ntb[ndx]
        /\ ndx \in 1..Len(ntb) /\ Content(ndx) = ntb[ndx]
    <3>1. ndx \in 1..Len(ntb) /\ Pending(ndx)
      BY <1>0, <2>1 DEF Order, Pending, Rising
    <3> QED BY <2>1, <3>1 DEF Order, Rising, Content
  <2>4. /\ handed' \in Seq(Nat) /\ Len(handed') = Len(handed) + 1 /\ Len(handed) \in Nat
        /\ \A i \in 1..Len(handed) : handed'[i] = handed[i]
        /\ handed'[Len(handed) + 1] = ntb[ndx]
    BY <2>1, <2>3, AppendProperties DEF Order, Rising
  <2>5. Rising(ntb)' /\ Rising(handed)'
    <3>1. Rising(ntb)'
      BY <2>1 DEF Order, Rising
    <3>2. \A i \in 1..Len(handed') : i \in 1..Len(handed) \/ i = Len(handed) + 1
      BY <2>4
    <3>3. \A i \in 1..Len(handed') : handed'[i] >= 1 /\ handed'[i] <= sent'
      BY <2>1, <2>3, <2>4, <3>2 DEF Order, Rising
    <3>4. \A i, j \in 1..Len(handed') : i < j => handed'[i] < handed'[j]
      <4> SUFFICES ASSUME NEW i \in 1..Len(handed'), NEW j \in 1..Len(handed'), i < j
                   PROVE  handed'[i] < handed'[j]
        OBVIOUS
      <4>1. i \in 1..Len(handed)
        BY <2>4
      <4>2. CASE j \in 1..Len(handed)
        BY <2>4, <4>1, <4>2 DEF Order, Rising
      <4>3. CASE j = Len(handed) + 1
        BY <2>3, <2>4, <4>1, <4>3
      <4> QED BY <3>2, <4>2, <4>3
    <3> QED BY <2>4, <3>1, <3>3, <3>4 DEF Rising
  <2>6. ASSUME NEW i \in 1..Len(handed'), NEW j \in 1..Len(ntb), Pending(j)'
        PROVE  handed'[i] < ntb[j]
    <3>1. j > ndx /\ j \in Nat /\ Len(ntb) \in Nat
      BY <2>1, <2>2, <2>6 DEF Pending, Order, Rising
    <3>2. ntb[ndx] < ntb[j] /\ Pending(j)
      BY <1>0, <2>1, <2>3, <3>1 DEF Order, Rising, Pending
    <3>3. CASE i \in 1..Len(handed)
      BY <2>1, <2>4, <3>2, <3>3 DEF Order
    <3>4. CASE i = Len(handed) + 1
      BY <2>4, <3>2, <3>4
    <3> QED BY <2>4, <3>3, <3>4
  <2>7. held' # {"ready"}
    BY <2>1
  <2> QED BY <2>1, <2>2, <2>5, <2>6, <2>7 DEF Order
<1>8. CASE CbInputReturns(1)
  <2>1. /\ UNCHANGED <<ntb, handed, sent, ndx, held>> /\ active' = active
        /\ ~Top("alloc") /\ MoveTo(1, "renew")
    BY <1>8 DEF CbInputReturns, At, ncmVars, lwipVars
  <2>2. ~Top("alloc")'
    BY <1>0, <2>1, TopMoved DEF Places
  <2> QED BY <1>0, <2>1, <2>2, OrderFrame DEF Pending
<1>9. CASE CbRenew(1)
  <2>1. /\ UNCHANGED <<ntb, handed, sent, ndx, held>> /\ active' = active
        /\ ~Top("alloc") /\ (active => MoveTo(1, "done"))
    BY <1>9 DEF CbRenew, Renew, MoveTo, At, ncmVars, lwipVars
  <2>2. Shape'
    BY <1>9, TopKeepsShape DEF Advance
  <2>3. ~Top("alloc")'
    <3>1. CASE active
      BY <1>0, <2>1, <3>1, TopMoved DEF Places
    <3>2. CASE ~active
      BY <2>1, <2>2, <3>2 DEF Shape
    <3> QED BY <3>1, <3>2
  <2> QED BY <1>0, <2>1, <2>3, OrderFrame DEF Pending
<1>10. CASE CbDone(1)
  <2>1. UNCHANGED <<ntb, handed, sent>> /\ ~active' /\ MoveTo(1, "loop") /\ ~Top("alloc")
    BY <1>10 DEF CbDone, At, lwipVars
  <2>2. ~Top("alloc")'
    BY <1>0, <2>1, TopMoved DEF Places
  <2>3. CASE ndx < Len(ntb)
    <3>1. ndx' = ndx + 1 /\ held' = held
      BY <1>10, <2>3 DEF CbDone
    <3>2. \A j \in Nat : Pending(j)' => Pending(j)
      BY <1>0, <2>1, <3>1 DEF Pending
    <3>3. ndx' \in Nat
      BY <1>0, <3>1
    <3> QED BY <1>0, <2>1, <2>2, <3>1, <3>2, <3>3, OrderFrame
  <2>4. CASE ~(ndx < Len(ntb))
    <3>1. ndx' = ndx /\ held' # {"glue"} /\ (held' = {"ready"} => held = {"ready"})
      BY <1>0, <1>10, <2>4 DEF CbDone, OnePlace
    <3> QED BY <1>0, <2>1, <2>2, <3>1, OrderFrame
  <2> QED BY <2>3, <2>4
<1> QED BY <1>1, <1>2, <1>3, <1>4, <1>5, <1>6, <1>7, <1>8, <1>9, <1>10 DEF Advance

LEMMA EventsKeepOrder ==
  ASSUME Types, Shape, Order, NEW t \in Threads, Events(t), ~cut'
  PROVE  Order'
<1>0. /\ Nested /\ (Len(stack) = 0 \/ stack[1].place = "input") /\ active \in BOOLEAN
      /\ ndx \in Nat /\ OnePlace
  BY EventWaited DEF Shape, Types, StackTyped, Buffer
<1>1. CASE BusReset \/ Unmount
  <2>1. UNCHANGED <<ntb, handed, sent, stack>> /\ ndx' = 1 /\ held' = {"free"}
    BY <1>1 DEF BusReset, Unmount, Reset
  <2>2. held' # {"ready"} /\ held' # {"glue"} /\ ~Top("alloc")' /\ ndx' \in Nat
    BY <1>0, <2>1 DEF Top
  <2> QED BY <1>0, <2>1, <2>2, OrderFrame
<1>2. CASE Configure \/ Suspend \/ Resume
  <2>1. UNCHANGED <<ntb, handed, sent, ndx, held, active, stack>>
    BY <1>2 DEF Configure, Suspend, Resume, renewVars, ncmVars, lwipVars
  <2> QED BY <1>0, <2>1, OrderFrame DEF Pending, Order, Top
<1>3. ASSUME NEW on \in BOOLEAN, SetInterface(t, on)
      PROVE  Order'
  <2>1. /\ UNCHANGED <<ntb, handed, sent, ndx, held>> /\ ~Top("alloc")
        /\ Renew(t, stack) \/ UNCHANGED <<active, stack>>
    BY <1>0, <1>3 DEF SetInterface, renewVars, lwipVars, Top
  <2>2. active' = active /\ ~Top("alloc")'
    <3>1. CASE Renew(t, stack)
      BY <1>0, <2>1, <3>1, EventRenews DEF Top
    <3> QED BY <2>1, <3>1 DEF Top
  <2> QED BY <1>0, <2>1, <2>2, OrderFrame DEF Pending
<1>4. CASE NtbInvalid(t)
  <2>1. UNCHANGED <<handed, sent, ndx>> /\ ntb' = <<>> /\ held' = {"free"} /\ Renew(t, stack)
    BY <1>0, <1>4 DEF NtbInvalid, TransferOver, lwipVars, OnePlace
  <2>2. Rising(handed)' /\ held' # {"ready"} /\ held' # {"glue"}
    BY <2>1 DEF Order, Rising
  <2>3. Rising(ntb)' /\ Len(ntb') = 0
    BY <2>1, EmptySeq DEF Rising
  <2>4. ~Top("alloc")'
    <3>1. held = {"usb"}
      BY <1>0, <1>4 DEF NtbInvalid, TransferOver, OnePlace
    <3>2. ~active
      BY <3>1 DEF Shape
    <3> QED BY <1>0, <2>1, <3>2, EventRenews DEF Top
  <2> QED BY <2>1, <2>2, <2>3, <2>4 DEF Order
<1>5. ASSUME NEW k \in 0..MaxPerNtb, NtbReceived(t, k)
      PROVE  Order'
  <2>1. /\ UNCHANGED <<handed, ndx>> /\ ntb' = [i \in 1..k |-> sent + i] /\ held' = {"ready"}
        /\ sent' = sent + k /\ Renew(t, stack) /\ held = {"usb"}
    BY <1>0, <1>5 DEF NtbReceived, TransferOver, lwipVars, OnePlace
  <2>2. k \in Nat /\ sent \in Nat
    BY DEF Types, Buffer
  <2>3. ntb' \in Seq(Nat) /\ Len(ntb') = k
    BY <2>1, <2>2
  <2>4. \A i \in 1..k : ntb'[i] = sent + i
    BY <2>1
  <2>5. Rising(ntb)'
    BY <2>1, <2>2, <2>3, <2>4 DEF Rising
  <2>6. Rising(handed)'
    BY <2>1, <2>2 DEF Order, Rising
  <2>7. \A i \in 1..Len(handed), j \in 1..k : handed[i] < ntb'[j]
    BY <2>2, <2>4 DEF Order, Rising
  <2>8. ~Top("alloc")'
    <3>1. ~active
      BY <2>1 DEF Shape
    <3> QED BY <1>0, <2>1, <3>1, EventRenews DEF Top
  <2> QED BY <2>1, <2>3, <2>5, <2>6, <2>7, <2>8 DEF Order
<1> QED BY <1>1, <1>2, <1>3, <1>4, <1>5 DEF Events

LEMMA OrderKept ==
  ASSUME Types, Shape, Order, [NetifNext]_netifVars, ~cut'
  PROVE  Order'
<1>1. CASE TusbInit \/ NetifAdd \/ ServersStarted \/ OutputWaits \/ OutputReturns \/ FreePbuf
             \/ UNCHANGED netifVars
  <2>1. UNCHANGED <<ntb, handed, sent, ndx, held, active, stack>>
    BY <1>1 DEF TusbInit, NetifAdd, ServersStarted, OutputWaits, OutputReturns, FreePbuf,
                netifVars, renewVars, ncmVars, lwipVars
  <2>2. ndx \in Nat
    BY DEF Types, Buffer
  <2> QED BY <2>1, <2>2, OrderFrame DEF Pending, Order, Top
<1>2. ASSUME NEW i \in 1..Len(stack), Advance(i) \/ CbInputReturns(i)
      PROVE  Order'
  <2>1. i = 1 /\ Len(stack) >= 1
    BY <1>2, FirstOnly
  <2> QED BY <1>2, <2>1, TopKeepsOrder
<1> QED BY <1>1, <1>2, EventsKeepOrder
        DEF NetifNext, UsbTask, LwipThread, LwipFreesPbuf, ReceiveLogic, Threads

LEMMA ShapeAndOrder == NetifSpec => [](~cut => Shape /\ Order)
<1>1. NetifInit => (~cut => Shape /\ Order)
  <2> SUFFICES ASSUME NetifInit PROVE Shape /\ Order
    OBVIOUS
  <2>1. <<>> \in Seq(Nat) /\ Len(<<>>) = 0
    OBVIOUS
  <2>2. /\ stack = <<>> /\ active = FALSE /\ held = {"free"} /\ alt = FALSE /\ busy = FALSE
        /\ ntb = <<>> /\ handed = <<>>
    BY DEF NetifInit
  <2>3. OnePlace
    BY <2>2 DEF OnePlace
  <2>4. Shape
    BY <2>1, <2>2, <2>3 DEF Shape, Nested, Top
  <2>5. Rising(ntb) /\ Rising(handed)
    BY <2>1, <2>2 DEF Rising
  <2>6. held # {"ready"} /\ held # {"glue"} /\ ~Top("alloc")
    BY <2>1, <2>2 DEF Top
  <2>7. Order
    BY <2>5, <2>6 DEF Order
  <2> QED BY <2>4, <2>7
<1>2. Types /\ (~cut => Shape /\ Order) /\ [NetifNext]_netifVars => (~cut => Shape /\ Order)'
  BY CutLasts, ShapeKept, OrderKept
<1> QED BY <1>1, <1>2, TypesHold, PTL DEF NetifSpec

(* The receive buffer is in exactly one place at a time, however the       *)
(* events of the bus nest inside the receive callback and whichever task   *)
(* handles them, until the two cut into each other (ncm_device.c 481-581,  *)
(* usb_netif.c 119-136).                                                   *)
THEOREM BufferIsInOnePlace == NetifSpec => []BufferInOnePlace
<1>1. (~cut => Shape /\ Order) => BufferInOnePlace
  BY DEF Shape, OnePlace, BufferInOnePlace
<1> QED BY <1>1, ShapeAndOrder, PTL

(* lwIP is given every datagram at most once and in the host's order,      *)
(* until the two tasks cut into each other (ncm_device.c 673-711 and       *)
(* 774-795, usb_netif.c 119-136 and 223-250).                              *)
THEOREM DatagramsInOrder == NetifSpec => []InOrderOnce
<1>1. (~cut => Shape /\ Order) => InOrderOnce
  BY DEF Order, Rising, InOrderOnce
<1> QED BY <1>1, ShapeAndOrder, PTL

-----------------------------------------------------------------------------
(* Until the interface is added, and while lwIP has the link up, the class *)
(* reports it up.                                                          *)
Links ==
  /\ mounted => /\ link /\ (added => ncm_link)
                /\ blink = IF suspended THEN "suspended" ELSE "mounted"
  /\ ~added \/ link => ncm_link

LEMMA LinksKept ==
  ASSUME Links, Plain, [NetifNext]_netifVars
  PROVE  Links'
<1> USE DEF Links
<1> DEFINE same == UNCHANGED <<mounted, suspended, blink, added, link, ncm_link>>
<1>1. CASE same
  BY <1>1
<1>2. ASSUME NEW i \in 1..Len(stack), Advance(i) \/ CbInputReturns(i)
      PROVE  same
  BY <1>2 DEF Advance, Again, Transfer, LoopExit, TakeBuffer, CbRefuse, CbNoNetif, CbInput,
              CbInputReturns, CbRenew, CbDone, usbVars, netVars, ncmVars
<1>3. ASSUME NEW t \in Threads, Events(t)
      PROVE  same \/ BusReset \/ Unmount \/ Configure \/ Suspend \/ Resume
  BY <1>3 DEF Events, NtbInvalid, SetInterface, NtbReceived, usbVars, netVars
<1>4. CASE BusReset
  BY <1>4 DEF BusReset, Reset
<1>5. CASE Unmount
  BY <1>5 DEF Unmount, Reset, SetLink
<1>6. CASE Configure
  <2>1. ncm_link'
    BY <1>6 DEF Configure, SetLink, Plain
  <2> QED BY <1>6, <2>1 DEF Configure, SetLink
<1>7. CASE Suspend \/ Resume
  BY <1>7 DEF Suspend, Resume, netVars, ncmVars
<1>8. CASE NetifAdd
  BY <1>8 DEF NetifAdd, usbVars, ncmVars
<1>9. TusbInit \/ ServersStarted \/ OutputWaits \/ OutputReturns \/ FreePbuf
        \/ UNCHANGED netifVars => same
  BY DEF TusbInit, ServersStarted, OutputWaits, OutputReturns, FreePbuf, netifVars, usbVars,
         netVars, ncmVars
<1> HIDE DEF Links, same
<1> QED BY <1>1, <1>2, <1>3, <1>4, <1>5, <1>6, <1>7, <1>8, <1>9
        DEF NetifNext, UsbTask, LwipThread, LwipFreesPbuf, ReceiveLogic, Threads

(* While the device is mounted, lwIP's link flag, the class's link state   *)
(* and the LED agree with the bus, until the two tasks cut into each other *)
(* (usb_netif.c 119-136, 166-175 and 328-352, ncm_device.c 810-831).       *)
THEOREM LinkAgreesWithBus == NetifSpec => []LinkAgrees
<1>1. NetifInit => Links
  BY DEF NetifInit, Links
<1>2. Types /\ Links /\ [NetifNext]_netifVars => Links'
  BY LinksKept DEF Types
<1>3. Links => LinkAgrees
  BY DEF Links, LinkAgrees
<1> QED BY <1>1, <1>2, <1>3, TypesHold, PTL DEF NetifSpec

-----------------------------------------------------------------------------
(* A step of the system is a step of the interface, or leaves it alone.    *)
LEMMA SystemStep == [Next]_vars => [NetifNext]_netifVars
<1>1. DefaultStep \/ DefaultSleeps \/ ShellStep \/ ModbusStep \/ AppStep \/ BridgeStep
        \/ LineState => UNCHANGED netifVars
  BY DEF DefaultStep, DefaultSleeps, ShellStep, ModbusStep, AppStep, BridgeStep, LineState
<1>2. UsbStep \/ LwipStep => NetifNext
  BY DEF UsbStep, LwipStep, NetifNext
<1>3. LwipFrees => NetifNext
  BY DEF LwipFrees, NetifNext
<1>4. Halted => UNCHANGED netifVars
  BY DEF Halted, vars
<1>5. UNCHANGED vars => UNCHANGED netifVars
  BY DEF vars
<1> QED BY <1>1, <1>2, <1>3, <1>4, <1>5 DEF Next

(* The start-up's specification, with its priorities and the other tasks,  *)
(* implements the interface's: what is proved of the interface holds there *)
(* too, with the same exceptions.                                          *)
THEOREM SystemHasNetif == Spec => NetifSpec
<1>1. Init => NetifInit
  BY DEF Init
<1> QED BY <1>1, SystemStep, PTL DEF Spec, NetifSpec

-----------------------------------------------------------------------------
(* What has been made by the time the default task has come to a line, and *)
(* how far it has come when another task first runs.                       *)
TasksOK ==
  /\ task \in [Tasks -> {"absent", "ready", "blocked", "deleted"}]
  /\ task["default"] = "ready" \/ line = 9
  /\ task["shell"] # "absent" => line >= 4
  /\ task["modbus"] # "absent" => line >= 6
  /\ task["app"] # "absent" => line = 9

(* The USB task has run, or something has followed from it.                *)
Begun == u_pc # "start" \/ mounted \/ added \/ output \/ Len(stack) >= 1

MadeOK ==
  /\ line \in 1..9
  /\ line >= 3 => "logger" \in made
  /\ line >= 5 => "rs485" \in made
  /\ line >= 7 => "modbus_handle" \in made
  /\ line >= 8 => "bridge_handle" \in made
  /\ Begun => line = 9 /\ "usb" \in made

Booted == TasksOK /\ MadeOK /\ NothingEarly

(* The default task outranks the bridge's and the USB task.                *)
LEMMA LowWaits ==
  ASSUME Booted, NEW t \in {"usb", "bridge"}, MayRun(t)
  PROVE  line = 9
<1>1. Priority["default"] = 24 /\ (Priority[t] = 10 \/ Priority[t] = 2)
  BY DEF Priority
<1>2. ~(Priority["default"] <= Priority[t])
  BY <1>1
<1>3. ~Ready("default")
  BY <1>2 DEF MayRun, Foremost, Tasks
<1>4. task["default"] # "ready"
  BY <1>3 DEF Ready
<1> QED BY <1>4 DEF Booted, TasksOK

(* A task uses only what has been made by then.                            *)
LEMMA UsesMade ==
  ASSUME NothingEarly, NEW things, Uses(things), things \subseteq made \cup {"usb"}
  PROVE  NothingEarly'
BY DEF NothingEarly, Uses

(* A task that comes to its next delay, or its end, was there before.      *)
LEMMA TaskBecomes ==
  ASSUME TasksOK, NEW t \in Tasks \ {"default"}, NEW state \in {"blocked", "deleted"},
         task[t] # "absent", Becomes(t, state), line' = line
  PROVE  TasksOK'
BY DEF TasksOK, Becomes, Tasks

LEMMA BootLines ==
  /\ Len(Boot) = 8
  /\ \A n \in 1..8 : Boot[n].uses = IF n >= 7 THEN {"logger"} ELSE {}
  /\ \A n \in 1..8 : "default" \notin Boot[n].starts
  /\ \A n \in 1..8 : "shell" \in Boot[n].starts => n = 3
  /\ \A n \in 1..8 : "modbus" \in Boot[n].starts => n = 5
  /\ \A n \in 1..8 : "app" \in Boot[n].starts => n = 8
  /\ "logger" \in Boot[2].makes /\ "rs485" \in Boot[4].makes
  /\ "modbus_handle" \in Boot[6].makes /\ "bridge_handle" \in Boot[7].makes
BY DEF Boot, BootStep

(* Each step of start-up makes what the later ones use.                    *)
LEMMA DefaultBoots ==
  ASSUME Booted, DefaultStep
  PROVE  Booted'
<1>1. line \in 1..8 /\ line' = line + 1 /\ made' = made \cup Boot[line].makes
  BY BootLines DEF DefaultStep, Booted, MadeOK
<1>2. NothingEarly'
  <2>1. Boot[line].uses \subseteq made
    BY <1>1, BootLines DEF Booted, MadeOK
  <2> QED BY <2>1, UsesMade DEF DefaultStep, Booted
<1>3. UNCHANGED Begun
  BY DEF DefaultStep, netifVars, taskVars, usbVars, netVars, renewVars, Begun
<1>4. MadeOK'
  BY <1>1, <1>3, BootLines DEF Booted, MadeOK
<1>5. TasksOK'
  <2>1. task' = [t \in Tasks |-> IF t \in Boot[line].starts THEN "ready" ELSE task[t]]
    BY DEF DefaultStep
  <2>2. task["default"] = "ready"
    BY <1>1 DEF Booted, TasksOK
  <2> QED BY <1>1, <2>1, <2>2, BootLines DEF Booted, TasksOK, Tasks
<1> QED BY <1>2, <1>4, <1>5 DEF Booted

(* The other tasks run when what they use has been made.                   *)
LEMMA TasksKeepBooted ==
  ASSUME Booted, ShellStep \/ ModbusStep \/ AppStep \/ BridgeStep
  PROVE  Booted'
<1>1. UNCHANGED <<line, made, netifVars>>
  BY DEF ShellStep, ModbusStep, AppStep, BridgeStep
<1>2. MadeOK'
  BY <1>1 DEF Booted, MadeOK, Begun, netifVars, taskVars, usbVars, netVars, renewVars
<1>3. CASE ShellStep
  <2>1. line >= 4 /\ task["shell"] # "absent"
    BY <1>3 DEF ShellStep, MayRun, Booted, TasksOK
  <2>2. TasksOK'
    BY <1>1, <1>3, <2>1, TaskBecomes DEF ShellStep, Booted, Tasks
  <2>3. CASE Uses({"logger", "usb"})
    <3>1. {"logger", "usb"} \subseteq made \cup {"usb"}
      BY <2>1 DEF Booted, MadeOK
    <3>2. NothingEarly'
      BY <2>3, <3>1, UsesMade DEF Booted
    <3> QED BY <1>2, <2>2, <3>2 DEF Booted
  <2>4. CASE mounted /\ Uses({"usb", "logger", "modbus_handle", "bridge_handle"})
    <3>1. {"usb", "logger", "modbus_handle", "bridge_handle"} \subseteq made \cup {"usb"}
      BY <2>4 DEF Booted, MadeOK, Begun
    <3>2. NothingEarly'
      BY <2>4, <3>1, UsesMade DEF Booted
    <3> QED BY <1>2, <2>2, <3>2 DEF Booted
  <2> QED BY <1>3, <2>3, <2>4 DEF ShellStep
<1>4. CASE ModbusStep
  <2>1. line >= 6 /\ task["modbus"] # "absent"
    BY <1>4 DEF ModbusStep, MayRun, Booted, TasksOK
  <2>2. NothingEarly'
    BY <1>4, <2>1, UsesMade DEF ModbusStep, Booted, MadeOK
  <2>3. TasksOK'
    BY <1>1, <1>4, <2>1, TaskBecomes DEF ModbusStep, Booted, Tasks
  <2> QED BY <1>2, <2>2, <2>3 DEF Booted
<1>5. CASE AppStep
  <2>1. line = 9 /\ task["app"] # "absent"
    BY <1>5 DEF AppStep, MayRun, Booted, TasksOK
  <2>2. NothingEarly'
    BY <1>5, <2>1, UsesMade DEF AppStep, Booted, MadeOK
  <2>3. TasksOK'
    BY <1>1, <1>5, <2>1, TaskBecomes DEF AppStep, Booted, Tasks
  <2> QED BY <1>2, <2>2, <2>3 DEF Booted
<1>6. CASE BridgeStep
  <2>1. line = 9 /\ task["bridge"] # "absent"
    BY <1>6, LowWaits DEF BridgeStep, MayRun
  <2>2. {"logger", "usb", "rs485"} \subseteq made \cup {"usb"}
    BY <2>1 DEF Booted, MadeOK
  <2>3. NothingEarly'
    <3>1. PICK things \in SUBSET {"logger", "usb", "rs485"} : Uses(things)
      BY <1>6 DEF BridgeStep
    <3> QED BY <2>2, <3>1, UsesMade DEF Booted
  <2>4. TasksOK'
    BY <1>1, <1>6, <2>1, TaskBecomes DEF BridgeStep, Booted, Tasks
  <2> QED BY <1>2, <2>3, <2>4 DEF Booted
<1> QED BY <1>3, <1>4, <1>5, <1>6

LEMMA BootedKept ==
  ASSUME Types, Booted, [Next]_vars
  PROVE  Booted'
<1> USE DEF netifVars, taskVars, usbVars, netVars, renewVars
<1>1. CASE DefaultSleeps
  <2>1. UNCHANGED <<line, made, early, netifVars>> /\ line = 9
    BY <1>1, BootLines DEF DefaultSleeps, Booted, MadeOK
  <2>2. task' = [task EXCEPT !["default"] = "blocked"]
    BY <1>1 DEF DefaultSleeps, Becomes
  <2>3. TasksOK'
    BY <2>1, <2>2 DEF Booted, TasksOK, Tasks
  <2> QED BY <2>1, <2>3 DEF Booted, MadeOK, NothingEarly, Begun
<1>2. CASE UsbStep
  <2>1. line = 9 /\ UNCHANGED <<task, line>>
    BY <1>2, LowWaits DEF UsbStep
  <2>2. made \subseteq made' /\ "usb" \in made'
    BY <1>2 DEF UsbStep, Booted, MadeOK, Begun
  <2>3. NothingEarly'
    BY <1>2, <2>1, UsesMade DEF UsbStep, Booted, MadeOK
  <2> QED BY <2>1, <2>2, <2>3 DEF Booted, MadeOK, TasksOK
<1>3. CASE LwipStep
  <2>1. UNCHANGED <<task, line, made>> /\ LwipThread
    BY <1>3 DEF LwipStep
  <2>2. Begun
    <3>1. CASE ReceiveLogic("lwip")
      <4>1. PICK i \in 1..Len(stack) : TRUE
        BY <3>1 DEF ReceiveLogic
      <4>2. Len(stack) \in Nat
        BY DEF Types, StackTyped, Stacks
      <4> QED BY <4>1, <4>2 DEF Begun
    <3>2. CASE Events("lwip")
      BY <3>2 DEF Events, InTudTask, Begun
    <3>3. CASE OutputWaits \/ OutputReturns
      BY <3>3 DEF OutputWaits, OutputReturns, Begun
    <3> QED BY <2>1, <3>1, <3>2, <3>3 DEF LwipThread
  <2>3. line = 9 /\ "usb" \in made
    BY <2>2 DEF Booted, MadeOK
  <2>4. NothingEarly'
    BY <1>3, <2>3, UsesMade DEF LwipStep, Booted, MadeOK
  <2> QED BY <2>1, <2>3, <2>4 DEF Booted, MadeOK, TasksOK
<1>4. CASE LineState
  <2>1. UNCHANGED <<task, line, made, netifVars>> /\ mounted
    BY <1>4 DEF LineState
  <2>2. line = 9
    BY <2>1 DEF Booted, MadeOK, Begun
  <2>3. NothingEarly'
    BY <1>4, <2>2, UsesMade DEF LineState, Booted, MadeOK
  <2> QED BY <2>1, <2>3 DEF Booted, MadeOK, TasksOK, Begun
<1>5. CASE LwipFrees \/ Halted \/ UNCHANGED vars
  <2>1. /\ UNCHANGED <<task, line, made, early, u_pc, output, mounted, added, stack>>
    BY <1>5 DEF LwipFrees, LwipFreesPbuf, Halted, FreePbuf, vars, startVars
  <2> QED BY <2>1 DEF Booted, MadeOK, TasksOK, NothingEarly, Begun
<1> QED BY <1>1, <1>2, <1>3, <1>4, <1>5, DefaultBoots, TasksKeepBooted DEF Next

(* Whatever the host does while the system starts, no task uses what has   *)
(* not been initialised, except that the shell asks TinyUSB for a host     *)
(* before tusb_init (app_freertos.c 148-170, app.c 32-47, shell_app.c 57). *)
THEOREM NothingUsedEarly == Spec => []NothingEarly
<1>1. Init => Booted
  <2> SUFFICES ASSUME Init PROVE Booted
    OBVIOUS
  <2>1. TasksOK
    BY DEF Init, TasksOK, Tasks
  <2>2. MadeOK
    BY DEF Init, NetifInit, MadeOK, Begun
  <2> QED BY <2>1, <2>2 DEF Booted, Init, NothingEarly
<1>2. Types /\ Booted /\ [Next]_vars => Booted'
  BY BootedKept
<1>3. Booted => NothingEarly
  BY DEF Booted
<1> QED BY <1>1, <1>2, <1>3, SystemHasNetif, TypesHold, PTL DEF Spec
=============================================================================
