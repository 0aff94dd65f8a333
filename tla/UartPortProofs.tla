--------------------------- MODULE UartPortProofs ---------------------------
(***************************************************************************)
(* Machine-checked proofs about the receive queue and its two readers, for *)
(* every queue length and number of bytes.                                 *)
(***************************************************************************)
EXTENDS UartPort, SequenceTheorems, TLAPS

USE UartPortAssumption

(* The bytes in a sequence, each there once.                               *)
Bytes(s) == {s[i] : i \in 1..Len(s)}

Distinct(s) ==
  /\ s \in Seq(Nat) /\ Len(s) \in Nat
  /\ \A i, j \in 1..Len(s) : i # j => s[i] # s[j]

Rising(s) == \A i, j \in 1..Len(s) : i < j => s[i] < s[j]

Before(A, B) == \A a \in A, b \in B : a < b

LEMMA EmptyBytes ==
  Bytes(<<>>) = {} /\ Distinct(<<>>) /\ Rising(<<>>) /\ Len(<<>>) = 0
<1>1. Len(<<>>) = 0 /\ <<>> \in Seq(Nat)
  BY EmptySeq
<1> QED BY <1>1 DEF Bytes, Distinct, Rising

LEMMA TailBytes ==
  ASSUME NEW s, Distinct(s), s # <<>>
  PROVE  /\ Distinct(Tail(s)) /\ Len(Tail(s)) = Len(s) - 1 /\ Len(s) >= 1
         /\ Head(s) \in Nat /\ Head(s) \in Bytes(s)
         /\ Bytes(Tail(s)) = Bytes(s) \ {Head(s)}
<1>1. s \in Seq(Nat) /\ Len(s) \in Nat \ {0}
  BY EmptySeq DEF Distinct
<1>2. /\ Tail(s) \in Seq(Nat) /\ Len(Tail(s)) = Len(s) - 1
      /\ \A i \in 1..Len(s) - 1 : Tail(s)[i] = s[i + 1]
      /\ Head(s) = s[1] /\ Head(s) \in Nat
  BY <1>1, HeadTailProperties
<1>3. Distinct(Tail(s))
  BY <1>1, <1>2 DEF Distinct
<1>4. Bytes(Tail(s)) \subseteq Bytes(s) \ {Head(s)}
  BY <1>1, <1>2 DEF Bytes, Distinct
<1>5. ASSUME NEW i \in 1..Len(s), s[i] # s[1]
      PROVE  s[i] \in Bytes(Tail(s))
  <2>1. i - 1 \in 1..Len(Tail(s)) /\ Tail(s)[i - 1] = s[i]
    BY <1>1, <1>2, <1>5
  <2> QED BY <2>1 DEF Bytes
<1>6. Head(s) \in Bytes(s)
  BY <1>1, <1>2 DEF Bytes
<1>7. ASSUME NEW x \in Bytes(s), x # Head(s)
      PROVE  x \in Bytes(Tail(s))
  <2>1. PICK i \in 1..Len(s) : x = s[i]
    BY DEF Bytes
  <2> QED BY <1>2, <1>5, <1>7, <2>1
<1> QED BY <1>1, <1>2, <1>3, <1>4, <1>6, <1>7

LEMMA AppendBytes ==
  ASSUME NEW s, Distinct(s), NEW x \in Nat, x \notin Bytes(s)
  PROVE  /\ Distinct(Append(s, x)) /\ Len(Append(s, x)) = Len(s) + 1
         /\ Bytes(Append(s, x)) = Bytes(s) \cup {x}
         /\ Rising(s) /\ Before(Bytes(s), {x}) => Rising(Append(s, x))
<1>1. /\ Append(s, x) \in Seq(Nat) /\ Len(Append(s, x)) = Len(s) + 1 /\ Len(s) \in Nat
      /\ \A i \in 1..Len(s) : Append(s, x)[i] = s[i]
      /\ Append(s, x)[Len(s) + 1] = x
  BY AppendProperties DEF Distinct
<1>2. \A i \in 1..Len(s) : s[i] \in Bytes(s) /\ s[i] # x
  BY DEF Bytes
<1>3. \A i \in 1..Len(s) + 1 : i \in 1..Len(s) \/ i = Len(s) + 1
  BY <1>1
<1>4. Distinct(Append(s, x))
  BY <1>1, <1>2, <1>3 DEF Distinct
<1>5. Bytes(Append(s, x)) = Bytes(s) \cup {x}
  BY <1>1, <1>3 DEF Bytes
<1>6. ASSUME Rising(s), Before(Bytes(s), {x})
      PROVE  Rising(Append(s, x))
  <2> SUFFICES ASSUME NEW i \in 1..Len(s) + 1, NEW j \in 1..Len(s) + 1, i < j
               PROVE  Append(s, x)[i] < Append(s, x)[j]
    BY <1>1 DEF Rising
  <2>1. i \in 1..Len(s)
    BY <1>1
  <2>2. CASE j \in 1..Len(s)
    BY <1>1, <1>6, <2>1, <2>2 DEF Rising
  <2>3. CASE j = Len(s) + 1
    BY <1>1, <1>2, <1>6, <2>1, <2>3 DEF Before
  <2> QED BY <1>3, <2>2, <2>3
<1> QED BY <1>1, <1>4, <1>5, <1>6

LEMMA ConcatBytes ==
  ASSUME NEW s, Distinct(s), NEW t, Distinct(t), Bytes(s) \cap Bytes(t) = {}
  PROVE  /\ Distinct(s \o t) /\ Len(s \o t) = Len(s) + Len(t)
         /\ Bytes(s \o t) = Bytes(s) \cup Bytes(t)
         /\ Rising(s) /\ Rising(t) /\ Before(Bytes(s), Bytes(t)) => Rising(s \o t)
<1>1. /\ s \o t \in Seq(Nat) /\ Len(s \o t) = Len(s) + Len(t) /\ Len(s) \in Nat /\ Len(t) \in Nat
      /\ \A i \in 1..Len(s) + Len(t) :
           (s \o t)[i] = IF i <= Len(s) THEN s[i] ELSE t[i - Len(s)]
  BY ConcatProperties DEF Distinct
<1>2. /\ \A i \in 1..Len(s) : (s \o t)[i] = s[i] /\ s[i] \in Bytes(s)
      /\ \A i \in 1..Len(t) : (s \o t)[i + Len(s)] = t[i] /\ t[i] \in Bytes(t)
  BY <1>1 DEF Bytes
<1>3. \A i \in 1..Len(s) + Len(t) : i \in 1..Len(s) \/ i - Len(s) \in 1..Len(t)
  BY <1>1
<1>4. \A i \in 1..Len(s) + Len(t) : i - Len(s) \in 1..Len(t) => (s \o t)[i] = t[i - Len(s)]
  BY <1>1
<1>5. Distinct(s \o t)
  <2> SUFFICES ASSUME NEW i \in 1..Len(s) + Len(t), NEW j \in 1..Len(s) + Len(t), i # j
               PROVE  (s \o t)[i] # (s \o t)[j]
    BY <1>1 DEF Distinct
  <2>1. CASE i \in 1..Len(s) /\ j \in 1..Len(s)
    BY <1>2, <2>1 DEF Distinct
  <2>2. CASE i - Len(s) \in 1..Len(t) /\ j - Len(s) \in 1..Len(t)
    <3>1. i - Len(s) # j - Len(s)
      BY <1>1
    <3> QED BY <1>4, <2>2, <3>1 DEF Distinct
  <2>3. CASE i \in 1..Len(s) /\ j - Len(s) \in 1..Len(t)
    BY <1>2, <1>4, <2>3
  <2>4. CASE j \in 1..Len(s) /\ i - Len(s) \in 1..Len(t)
    BY <1>2, <1>4, <2>4
  <2> QED BY <1>3, <2>1, <2>2, <2>3, <2>4
<1>6. Bytes(s \o t) = Bytes(s) \cup Bytes(t)
  <2>1. ASSUME NEW i \in 1..Len(s) + Len(t)
        PROVE  (s \o t)[i] \in Bytes(s) \cup Bytes(t)
    BY <1>2, <1>3, <1>4
  <2>2. ASSUME NEW i \in 1..Len(s)
        PROVE  s[i] \in Bytes(s \o t)
    <3>1. i \in 1..Len(s \o t) /\ (s \o t)[i] = s[i]
      BY <1>1, <1>2
    <3> QED BY <3>1 DEF Bytes
  <2>3. ASSUME NEW i \in 1..Len(t)
        PROVE  t[i] \in Bytes(s \o t)
    <3>1. i + Len(s) \in 1..Len(s \o t) /\ (s \o t)[i + Len(s)] = t[i]
      BY <1>1, <1>2
    <3> QED BY <3>1 DEF Bytes
  <2> QED BY <1>1, <2>1, <2>2, <2>3 DEF Bytes
<1>7. ASSUME Rising(s), Rising(t), Before(Bytes(s), Bytes(t))
      PROVE  Rising(s \o t)
  <2> SUFFICES ASSUME NEW i \in 1..Len(s) + Len(t), NEW j \in 1..Len(s) + Len(t), i < j
               PROVE  (s \o t)[i] < (s \o t)[j]
    BY <1>1 DEF Rising
  <2>1. CASE i \in 1..Len(s) /\ j \in 1..Len(s)
    BY <1>2, <1>7, <2>1 DEF Rising
  <2>2. CASE i - Len(s) \in 1..Len(t) /\ j - Len(s) \in 1..Len(t)
    <3>1. i - Len(s) < j - Len(s)
      BY <1>1
    <3> QED BY <1>4, <1>7, <2>2, <3>1 DEF Rising
  <2>3. CASE i \in 1..Len(s) /\ j - Len(s) \in 1..Len(t)
    BY <1>2, <1>4, <1>7, <2>3 DEF Before
  <2> QED BY <1>1, <1>3, <2>1, <2>2, <2>3
<1> QED BY <1>1, <1>5, <1>6, <1>7

LEMMA OneByte ==
  ASSUME NEW x \in Nat
  PROVE  /\ Distinct(<<x>>) /\ Bytes(<<x>>) = {x} /\ Len(<<x>>) = 1
         /\ \A s : Distinct(s) /\ x \notin Bytes(s) =>
              /\ Distinct(<<x>> \o s) /\ Bytes(<<x>> \o s) = {x} \cup Bytes(s)
              /\ Len(<<x>> \o s) = Len(s) + 1
<1>1. <<x>> \in Seq(Nat) /\ Len(<<x>>) = 1 /\ <<x>>[1] = x
  OBVIOUS
<1>2. Distinct(<<x>>) /\ Bytes(<<x>>) = {x}
  BY <1>1 DEF Distinct, Bytes
<1>3. ASSUME NEW s, Distinct(s), x \notin Bytes(s)
      PROVE  /\ Distinct(<<x>> \o s) /\ Bytes(<<x>> \o s) = {x} \cup Bytes(s)
             /\ Len(<<x>> \o s) = Len(s) + 1
  <2>1. Len(s) \in Nat /\ Bytes(<<x>>) \cap Bytes(s) = {}
    BY <1>2, <1>3 DEF Distinct
  <2> QED BY <1>1, <1>2, <1>3, <2>1, ConcatBytes
<1> QED BY <1>1, <1>2, <1>3

-----------------------------------------------------------------------------
(* Every byte is in one place.                                             *)
Placed ==
  /\ arrived \in Nat
  /\ Distinct(queue) /\ Distinct(frame) /\ Distinct(host) /\ Distinct(got)
  /\ Bytes(queue) \cup Bytes(frame) \cup Bytes(host) \cup Bytes(got) \subseteq 1..arrived
  /\ Bytes(queue) \cap Bytes(frame) = {} /\ Bytes(queue) \cap Bytes(host) = {}
  /\ Bytes(queue) \cap Bytes(got) = {} /\ Bytes(frame) \cap Bytes(host) = {}
  /\ Bytes(frame) \cap Bytes(got) = {} /\ Bytes(host) \cap Bytes(got) = {}

(* As long as no two bytes have waited at once, those given to either      *)
(* reader came before the one that waits.                                  *)
InLineOrder ==
  /\ Len(queue) <= 1
  /\ Rising(frame) /\ Rising(host) /\ Rising(got)
  /\ Before(Bytes(host), Bytes(got))
  /\ Before(Bytes(frame), Bytes(queue)) /\ Before(Bytes(host), Bytes(queue))
  /\ Before(Bytes(got), Bytes(queue))

Kept == Placed /\ (~piled => InLineOrder)

LEMMA LineByteKeeps ==
  ASSUME Kept, LineByte
  PROVE  Kept'
<1>1. UNCHANGED <<frame, host, got>> /\ arrived' = arrived + 1 /\ arrived \in Nat
  BY DEF LineByte, modbus, bridge, Kept, Placed
<1>2. arrived + 1 \in Nat /\ arrived + 1 \notin 1..arrived
  BY <1>1
<1>3. CASE queue' = queue
  <2>1. Placed'
    BY <1>1, <1>3 DEF Kept, Placed
  <2>2. ~piled' => ~piled
    BY DEF LineByte
  <2> QED BY <1>1, <1>3, <2>1, <2>2 DEF Kept, InLineOrder
<1>4. CASE queue' = <<arrived + 1>> \o queue
  <2>1. /\ Distinct(queue') /\ Bytes(queue') = {arrived + 1} \cup Bytes(queue)
        /\ Len(queue') = Len(queue) + 1
    BY <1>2, <1>4, OneByte DEF Kept, Placed
  <2>2. Placed'
    BY <1>1, <1>2, <2>1 DEF Kept, Placed
  <2>3. ASSUME ~piled'
        PROVE  InLineOrder'
    <3>1. queue = <<>> /\ ~piled
      BY <2>3 DEF LineByte
    <3>2. Bytes(queue') = {arrived + 1} /\ Len(queue') = 1
      BY <2>1, <3>1, EmptyBytes
    <3>3. \A x \in 1..arrived : x < arrived + 1
      BY <1>1
    <3>4. /\ Before(Bytes(frame), Bytes(queue')) /\ Before(Bytes(host), Bytes(queue'))
          /\ Before(Bytes(got), Bytes(queue'))
      BY <3>2, <3>3 DEF Before, Kept, Placed
    <3> QED BY <1>1, <3>1, <3>2, <3>4 DEF Kept, InLineOrder
  <2> QED BY <2>2, <2>3 DEF Kept
<1> QED BY <1>3, <1>4 DEF LineByte

(* A byte passes from the queue to a reader.                               *)
LEMMA Taken ==
  ASSUME Kept, queue # <<>>
  PROVE  /\ Distinct(Tail(queue)) /\ Bytes(Tail(queue)) = Bytes(queue) \ {Head(queue)}
         /\ Head(queue) \in Nat /\ Head(queue) \in Bytes(queue)
         /\ ~piled => Tail(queue) = <<>> /\ Bytes(Tail(queue)) = {}
<1>1. Distinct(queue)
  BY DEF Kept, Placed
<1>2. ASSUME ~piled
      PROVE  Tail(queue) = <<>> /\ Bytes(Tail(queue)) = {}
  <2>1. Len(queue) <= 1
    BY <1>2 DEF Kept, InLineOrder
  <2>2. /\ Len(Tail(queue)) = Len(queue) - 1 /\ Len(queue) >= 1 /\ Len(queue) \in Nat
        /\ Tail(queue) \in Seq(Nat)
    BY <1>1, TailBytes DEF Distinct
  <2>3. Len(Tail(queue)) = 0
    BY <2>1, <2>2
  <2> QED BY <2>2, <2>3, EmptySeq, EmptyBytes
<1> QED BY <1>1, <1>2, TailBytes

LEMMA ModbusByteKeeps ==
  ASSUME Kept, ModbusByte
  PROVE  Kept'
<1>1. /\ UNCHANGED <<arrived, host, got, piled>> /\ queue # <<>> /\ queue' = Tail(queue)
      /\ frame' = Append(frame, Head(queue))
  BY DEF ModbusByte, bridge
<1>2. /\ Distinct(queue') /\ Bytes(queue') = Bytes(queue) \ {Head(queue)}
      /\ Head(queue) \in Nat /\ Head(queue) \in Bytes(queue)
  BY <1>1, Taken
<1>3. /\ Distinct(frame') /\ Bytes(frame') = Bytes(frame) \cup {Head(queue)}
      /\ Rising(frame) /\ Before(Bytes(frame), {Head(queue)}) => Rising(frame')
  <2>1. Distinct(frame) /\ Head(queue) \notin Bytes(frame)
    BY <1>2 DEF Kept, Placed
  <2> QED BY <1>1, <1>2, <2>1, AppendBytes
<1>4. Placed'
  BY <1>1, <1>2, <1>3 DEF Kept, Placed
<1>5. ASSUME ~piled
      PROVE  InLineOrder'
  <2>1. queue' = <<>> /\ Bytes(queue') = {} /\ Len(queue') = 0
    BY <1>1, <1>5, Taken, EmptyBytes
  <2>2. Rising(frame')
    BY <1>2, <1>3, <1>5 DEF Kept, InLineOrder, Before
  <2> QED BY <1>1, <1>5, <2>1, <2>2 DEF Kept, InLineOrder, Before
<1> QED BY <1>1, <1>4, <1>5 DEF Kept

LEMMA BridgeByteKeeps ==
  ASSUME Kept, BridgeByte
  PROVE  Kept'
<1>1. /\ UNCHANGED <<arrived, frame, host, piled>> /\ queue # <<>> /\ queue' = Tail(queue)
      /\ got' = Append(got, Head(queue))
  BY DEF BridgeByte, modbus
<1>2. /\ Distinct(queue') /\ Bytes(queue') = Bytes(queue) \ {Head(queue)}
      /\ Head(queue) \in Nat /\ Head(queue) \in Bytes(queue)
  BY <1>1, Taken
<1>3. /\ Distinct(got') /\ Bytes(got') = Bytes(got) \cup {Head(queue)}
      /\ Rising(got) /\ Before(Bytes(got), {Head(queue)}) => Rising(got')
  <2>1. Distinct(got) /\ Head(queue) \notin Bytes(got)
    BY <1>2 DEF Kept, Placed
  <2> QED BY <1>1, <1>2, <2>1, AppendBytes
<1>4. Placed'
  BY <1>1, <1>2, <1>3 DEF Kept, Placed
<1>5. ASSUME ~piled
      PROVE  InLineOrder'
  <2>1. queue' = <<>> /\ Bytes(queue') = {} /\ Len(queue') = 0
    BY <1>1, <1>5, Taken, EmptyBytes
  <2>2. Rising(got') /\ Before(Bytes(host), Bytes(got'))
    BY <1>2, <1>3, <1>5 DEF Kept, InLineOrder, Before
  <2> QED BY <1>1, <1>5, <2>1, <2>2 DEF Kept, InLineOrder, Before
<1> QED BY <1>1, <1>4, <1>5 DEF Kept

(* The bridge's bytes go to the host, or are dropped.                      *)
LEMMA BridgeSendKeeps ==
  ASSUME Kept, BridgeSend \/ BridgeCount
  PROVE  Kept'
<1>1. /\ UNCHANGED <<arrived, frame, queue, piled>> /\ got' = <<>>
      /\ host' = host \/ host' = host \o got
  BY DEF BridgeSend, BridgeCount, modbus
<1>2. Distinct(got') /\ Bytes(got') = {} /\ Rising(got')
  BY <1>1, EmptyBytes
<1>3. CASE host' = host
  <2>1. Placed'
    BY <1>1, <1>2, <1>3 DEF Kept, Placed
  <2>2. ~piled => InLineOrder'
    BY <1>1, <1>2, <1>3 DEF Kept, InLineOrder, Before
  <2> QED BY <1>1, <2>1, <2>2 DEF Kept
<1>4. CASE host' = host \o got
  <2>1. /\ Distinct(host') /\ Bytes(host') = Bytes(host) \cup Bytes(got)
        /\ Rising(host) /\ Rising(got) /\ Before(Bytes(host), Bytes(got)) => Rising(host')
    BY <1>4, ConcatBytes DEF Kept, Placed
  <2>2. Placed'
    BY <1>1, <1>2, <2>1 DEF Kept, Placed
  <2>3. ~piled => InLineOrder'
    BY <1>1, <1>2, <2>1 DEF Kept, InLineOrder, Before
  <2> QED BY <1>1, <2>2, <2>3 DEF Kept
<1> QED BY <1>1, <1>3, <1>4

LEMMA KeptKept ==
  ASSUME Kept, [Next]_vars
  PROVE  Kept'
<1>1. CASE \/ BridgeOn \/ BridgeOff \/ ModbusCount \/ ModbusNoByte \/ ModbusTooLate
           \/ BridgeTimeout \/ UNCHANGED vars
  <2>1. UNCHANGED <<queue, arrived, frame, host, got, piled>>
    BY <1>1 DEF BridgeOn, BridgeOff, ModbusCount, ModbusNoByte, ModbusTooLate, BridgeTimeout,
                vars, modbus, bridge
  <2> QED BY <2>1 DEF Kept, Placed, InLineOrder
<1> QED BY <1>1, LineByteKeeps, ModbusByteKeeps, BridgeByteKeeps, BridgeSendKeeps DEF Next

LEMMA AlwaysKept == Spec => []Kept
<1>1. Init => Kept
  <2> SUFFICES ASSUME Init PROVE Kept
    OBVIOUS
  <2>1. queue = <<>> /\ frame = <<>> /\ host = <<>> /\ got = <<>> /\ arrived = 0
    BY DEF Init
  <2> QED BY <2>1, EmptyBytes DEF Kept, Placed, InLineOrder, Before
<1> QED BY <1>1, KeptKept, PTL DEF Spec

(* Every byte has one reader, and each reader has its bytes in the line's  *)
(* order unless two have waited at once (board.c 114-156, portserial.c     *)
(* 32-42, usb_rs485.c 60-69).                                              *)
THEOREM BytesReadOnce == Spec => []EachByteOnce
<1>1. Kept => EachByteOnce
  <2> SUFFICES ASSUME Kept PROVE EachByteOnce
    OBVIOUS
  <2>1. Distinct(frame \o host) /\ Bytes(frame \o host) = Bytes(frame) \cup Bytes(host)
    BY ConcatBytes DEF Kept, Placed
  <2>2. Distinct((frame \o host) \o got)
    <3>1. Distinct(got) /\ Bytes(frame \o host) \cap Bytes(got) = {}
      BY <2>1 DEF Kept, Placed
    <3> QED BY <2>1, <3>1, ConcatBytes
  <2>3. ~piled => Rising(frame) /\ Rising(host)
    BY DEF Kept, InLineOrder
  <2> QED BY <2>2, <2>3 DEF EachByteOnce, Distinct, Rising
<1> QED BY <1>1, AlwaysKept, PTL

-----------------------------------------------------------------------------
(* While nothing has cut into Modbus' reads, the bridge is off and the     *)
(* queue holds at least the bytes Modbus has counted.                      *)
Counted ==
  /\ left \in Nat /\ enabled \in BOOLEAN
  /\ m_pc = "read" => left >= 1
  /\ m_pc = "read" /\ ~cut => ~enabled /\ left <= Len(queue)

(* The queue's length, after a byte arrives and after one is taken.        *)
LEMMA QueueLengths ==
  ASSUME Kept
  PROVE  /\ Len(queue) \in Nat /\ (queue = <<>> <=> Len(queue) = 0)
         /\ LineByte => Len(queue') = Len(queue) \/ Len(queue') = Len(queue) + 1
         /\ queue # <<>> => Len(Tail(queue)) = Len(queue) - 1
<1>1. Distinct(queue) /\ queue \in Seq(Nat) /\ Len(queue) \in Nat
  BY DEF Kept, Placed, Distinct
<1>2. queue = <<>> <=> Len(queue) = 0
  BY <1>1, EmptySeq
<1>3. ASSUME LineByte
      PROVE  Len(queue') = Len(queue) \/ Len(queue') = Len(queue) + 1
  <2>1. arrived + 1 \in Nat /\ arrived + 1 \notin Bytes(queue)
    BY DEF Kept, Placed
  <2>2. Len(<<arrived + 1>> \o queue) = Len(queue) + 1
    BY <1>1, <2>1, OneByte
  <2> QED BY <1>3, <2>2 DEF LineByte
<1> QED BY <1>1, <1>2, <1>3, TailBytes

LEMMA CountedKept ==
  ASSUME Kept, Counted, [Next]_vars
  PROVE  Counted' /\ (undefined' => undefined \/ cut')
<1> USE DEF control, modbus, bridge
<1>1. CASE LineByte
  <2>1. UNCHANGED <<left, enabled, m_pc, cut, undefined>>
    BY <1>1 DEF LineByte
  <2>2. Len(queue) \in Nat /\ Len(queue') >= Len(queue) /\ Len(queue') \in Nat
    BY <1>1, QueueLengths
  <2> QED BY <2>1, <2>2 DEF Counted
<1>2. CASE BridgeOn
  <2>1. /\ UNCHANGED <<left, m_pc, queue, undefined>> /\ enabled' = TRUE
        /\ m_pc = "read" => cut'
    BY <1>2 DEF BridgeOn
  <2> QED BY <2>1 DEF Counted
<1>3. CASE BridgeOff
  <2>1. UNCHANGED <<left, m_pc, queue, cut, undefined>> /\ enabled /\ enabled' = FALSE
    BY <1>3 DEF BridgeOff
  <2> QED BY <2>1 DEF Counted
<1>4. CASE ModbusCount
  <2>1. /\ UNCHANGED <<queue, cut, enabled, undefined>> /\ ~enabled
        /\ left' = Len(queue) /\ queue # <<>>
    BY <1>4 DEF ModbusCount
  <2>2. Len(queue) \in Nat /\ Len(queue) >= 1
    BY <2>1, QueueLengths
  <2> QED BY <2>1, <2>2 DEF Counted
<1>5. CASE ModbusByte \/ ModbusNoByte \/ ModbusTooLate
  <2>1. /\ UNCHANGED enabled /\ ~enabled /\ m_pc = "read" /\ left' = left - 1
        /\ m_pc' = IF left = 1 THEN "asleep" ELSE "read"
    BY <1>5 DEF ModbusByte, ModbusNoByte, ModbusTooLate, ModbusReads, NextRead
  <2>2. left' \in Nat /\ (m_pc' = "read" => left' >= 1)
    BY <2>1 DEF Counted
  <2>3. CASE ModbusByte
    <3>1. /\ queue # <<>> /\ queue' = Tail(queue) /\ UNCHANGED <<cut, undefined>>
      BY <2>3 DEF ModbusByte
    <3>2. Len(queue') = Len(queue) - 1 /\ Len(queue) \in Nat
      BY <3>1, QueueLengths
    <3> QED BY <2>1, <2>2, <3>1, <3>2 DEF Counted
  <2>4. CASE ModbusNoByte
    <3>1. queue = <<>> /\ UNCHANGED <<queue, cut>>
      BY <2>4 DEF ModbusNoByte
    <3>2. ~cut => left >= 1 /\ left <= Len(queue) /\ Len(queue) = 0
      BY <2>1, <3>1, QueueLengths DEF Counted
    <3>3. cut
      BY <3>2 DEF Counted
    <3> QED BY <2>1, <2>2, <3>1, <3>3 DEF Counted
  <2>5. CASE ModbusTooLate
    <3>1. cut' = TRUE
      BY <2>5 DEF ModbusTooLate
    <3> QED BY <2>1, <2>2, <3>1 DEF Counted
  <2> QED BY <1>5, <2>3, <2>4, <2>5
<1>6. CASE BridgeByte
  <2>1. /\ UNCHANGED <<left, enabled, m_pc, cut, undefined>> /\ queue # <<>>
        /\ ~(~enabled /\ m_pc = "read")
    BY <1>6 DEF BridgeByte, BridgeMayRun, ModbusReads
  <2> QED BY <2>1 DEF Counted
<1>7. CASE BridgeCount \/ BridgeTimeout \/ BridgeSend \/ UNCHANGED vars
  <2>1. UNCHANGED <<queue, left, enabled, m_pc, cut, undefined>>
    BY <1>7 DEF BridgeCount, BridgeTimeout, BridgeSend, vars
  <2> QED BY <2>1 DEF Counted
<1> QED BY <1>1, <1>2, <1>3, <1>4, <1>5, <1>6, <1>7 DEF Next

LEMMA InitCounted == Init => Counted
<1> SUFFICES ASSUME Init PROVE Counted
  OBVIOUS
<1>1. left = 0 /\ enabled = FALSE /\ m_pc # "read"
  BY DEF Init
<1> QED BY <1>1 DEF Counted

(* Nothing takes away that the shell has cut in.                           *)
LEMMA CutStays == [Next]_vars => (cut => cut')
BY DEF Next, LineByte, BridgeOn, BridgeOff, ModbusCount, ModbusByte, ModbusNoByte, ModbusTooLate,
       BridgeCount, BridgeByte, BridgeTimeout, BridgeSend, vars

(* Modbus uses a byte it has not received only if the shell has suspended  *)
(* it among its reads or kept the processor for 10 ms (mbrtu.c 241,        *)
(* portserial.c 32-42 and 76-80, board.c 114-128, usb_rs485.c 60-69).      *)
THEOREM UndefinedMeansCut == Spec => []UndefinedOnlyIfCut
<1> DEFINE IInv == Counted /\ UndefinedOnlyIfCut
<1>1. Init => IInv
  <2>1. Init => ~undefined
    BY DEF Init
  <2> QED BY <2>1, InitCounted DEF UndefinedOnlyIfCut
<1>2. Kept /\ IInv /\ [Next]_vars => IInv'
  <2> SUFFICES ASSUME Kept, IInv, [Next]_vars PROVE IInv'
    OBVIOUS
  <2>1. Counted' /\ (undefined' => undefined \/ cut')
    BY CountedKept
  <2> QED BY <2>1, CutStays DEF UndefinedOnlyIfCut
<1> QED BY <1>1, <1>2, AlwaysKept, PTL DEF Spec

-----------------------------------------------------------------------------
(* The counters stay within the queue's length.                            *)
Bounds ==
  /\ arrived <= MaxBytes
  /\ Len(queue) <= QueueLen /\ left <= QueueLen
  /\ want \in Nat /\ want <= QueueLen /\ Len(got) <= want
  /\ b_pc = "read" => Len(got) < want

Flags ==
  /\ enabled \in BOOLEAN /\ notified \in BOOLEAN
  /\ m_pc \in {"asleep", "read"} /\ b_pc \in {"gate", "read", "send"}
  /\ undefined \in BOOLEAN /\ piled \in BOOLEAN /\ cut \in BOOLEAN

LEMMA FlagsKept ==
  ASSUME Flags, [Next]_vars
  PROVE  Flags'
<1> USE DEF Flags, control, modbus, bridge
<1>1. CASE LineByte \/ BridgeOn \/ BridgeOff
  BY <1>1 DEF LineByte, BridgeOn, BridgeOff
<1>2. CASE ModbusCount
  BY <1>2 DEF ModbusCount
<1>3. CASE ModbusByte \/ ModbusNoByte \/ ModbusTooLate
  BY <1>3 DEF ModbusByte, ModbusNoByte, ModbusTooLate, NextRead
<1>4. CASE BridgeCount
  BY <1>4 DEF BridgeCount
<1>5. CASE BridgeByte \/ BridgeTimeout \/ BridgeSend
  BY <1>5 DEF BridgeByte, BridgeTimeout, BridgeSend
<1>6. CASE UNCHANGED vars
  BY <1>6 DEF vars
<1> QED BY <1>1, <1>2, <1>3, <1>4, <1>5, <1>6 DEF Next

LEMMA BoundsKept ==
  ASSUME Kept, Counted, Bounds, [Next]_vars
  PROVE  Bounds'
<1> USE DEF control, modbus, bridge
<1>1. Len(got) \in Nat /\ Len(queue) \in Nat /\ arrived \in Nat /\ left \in Nat
  BY DEF Kept, Placed, Distinct, Counted
<1>2. CASE LineByte
  <2>1. /\ UNCHANGED <<left, want, got, b_pc>>
        /\ arrived' = arrived + 1 /\ arrived < MaxBytes
    BY <1>2 DEF LineByte
  <2>2. Len(queue') <= QueueLen
    <3>1. CASE Len(queue) < QueueLen
      BY <1>1, <1>2, <3>1, QueueLengths DEF Bounds
    <3>2. CASE ~(Len(queue) < QueueLen)
      BY <1>2, <3>2 DEF LineByte, Bounds
    <3> QED BY <3>1, <3>2
  <2> QED BY <1>1, <2>1, <2>2 DEF Bounds
<1>3. CASE ModbusCount
  <2>1. UNCHANGED <<queue, arrived, want, got, b_pc>> /\ left' = Len(queue)
    BY <1>3 DEF ModbusCount
  <2> QED BY <2>1 DEF Bounds
<1>4. CASE ModbusByte \/ ModbusNoByte \/ ModbusTooLate
  <2>1. UNCHANGED <<arrived, want, got, b_pc>> /\ left' = left - 1
    BY <1>4 DEF ModbusByte, ModbusNoByte, ModbusTooLate, NextRead
  <2>2. queue' = queue \/ (queue # <<>> /\ queue' = Tail(queue))
    <3>1. ModbusByte => queue # <<>> /\ queue' = Tail(queue)
      BY DEF ModbusByte
    <3>2. ModbusNoByte \/ ModbusTooLate => queue' = queue
      BY DEF ModbusNoByte, ModbusTooLate
    <3> QED BY <1>4, <3>1, <3>2
  <2>3. Len(queue') <= Len(queue) /\ Len(queue') \in Int
    <3>1. queue # <<>> => Len(Tail(queue)) = Len(queue) - 1
      BY QueueLengths
    <3> QED BY <1>1, <2>2, <3>1
  <2> QED BY <1>1, <2>1, <2>3 DEF Bounds
<1>5. CASE BridgeCount
  <2>1. /\ UNCHANGED <<queue, arrived, left>> /\ queue # <<>>
        /\ want' = Len(queue) /\ got' = <<>>
    BY <1>5 DEF BridgeCount
  <2>2. Len(queue) >= 1
    BY <1>1, <2>1, QueueLengths
  <2> QED BY <1>1, <2>1, <2>2, EmptyBytes DEF Bounds
<1>6. CASE BridgeByte
  <2>1. /\ UNCHANGED <<arrived, left, want>> /\ queue # <<>> /\ queue' = Tail(queue)
        /\ b_pc = "read" /\ got' = Append(got, Head(queue))
        /\ b_pc' = IF Len(got') = want THEN "send" ELSE "read"
    BY <1>6 DEF BridgeByte
  <2>2. Len(queue') <= Len(queue) /\ Len(queue') \in Int
    <3>1. Len(Tail(queue)) = Len(queue) - 1
      BY <2>1, QueueLengths
    <3> QED BY <1>1, <2>1, <3>1
  <2>3. Len(got') = Len(got) + 1
    <3>1. Head(queue) \in Nat /\ Head(queue) \notin Bytes(got) /\ Distinct(got)
      BY <2>1, Taken DEF Kept, Placed
    <3> QED BY <2>1, <3>1, AppendBytes
  <2>4. Len(got) < want /\ want \in Nat
    BY <2>1 DEF Bounds
  <2> QED BY <1>1, <2>1, <2>2, <2>3, <2>4 DEF Bounds
<1>7. CASE BridgeTimeout
  <2>1. UNCHANGED <<queue, arrived, left, want, got>> /\ b_pc' = "send"
    BY <1>7 DEF BridgeTimeout
  <2> QED BY <2>1 DEF Bounds
<1>8. CASE BridgeSend
  <2>1. UNCHANGED <<queue, arrived, left, want>> /\ b_pc' = "gate" /\ got' = <<>>
    BY <1>8 DEF BridgeSend
  <2> QED BY <2>1, EmptyBytes DEF Bounds
<1>9. CASE BridgeOn \/ BridgeOff \/ UNCHANGED vars
  <2>1. UNCHANGED <<queue, arrived, left, want, got, b_pc>>
    BY <1>9 DEF BridgeOn, BridgeOff, vars
  <2> QED BY <2>1 DEF Bounds
<1> QED BY <1>2, <1>3, <1>4, <1>5, <1>6, <1>7, <1>8, <1>9 DEF Next

(* The types, for every queue length and number of bytes.                  *)
THEOREM UartTypeCorrect == Spec => []TypeOK
<1>1. Init => Counted /\ Bounds /\ Flags
  <2> SUFFICES ASSUME Init PROVE Counted /\ Bounds /\ Flags
    OBVIOUS
  <2>1. Flags
    BY DEF Init, Flags
  <2>2. Counted
    BY InitCounted
  <2>3. Bounds
    BY EmptyBytes DEF Init, Bounds
  <2> QED BY <2>1, <2>2, <2>3
<1>2. Kept /\ (Counted /\ Bounds /\ Flags) /\ [Next]_vars => (Counted /\ Bounds /\ Flags)'
  BY CountedKept, BoundsKept, FlagsKept
<1>3. Kept /\ Counted /\ Bounds /\ Flags => TypeOK
  <2> SUFFICES ASSUME Kept, Counted, Bounds, Flags PROVE TypeOK
    OBVIOUS
  <2>1. ASSUME NEW s, Distinct(s), Bytes(s) \subseteq 1..arrived
        PROVE  s \in Seq(1..MaxBytes)
    <3>1. s \in Seq(Nat) /\ \A i \in 1..Len(s) : s[i] \in 1..arrived
      BY <2>1 DEF Distinct, Bytes
    <3>2. 1..arrived \subseteq 1..MaxBytes
      BY DEF Kept, Placed, Bounds
    <3>3. \A i \in 1..Len(s) : s[i] \in 1..MaxBytes
      BY <3>1, <3>2
    <3> QED BY <3>1, <3>3
  <2>2. /\ queue \in Seq(1..MaxBytes) /\ frame \in Seq(1..MaxBytes)
        /\ host \in Seq(1..MaxBytes) /\ got \in Seq(1..MaxBytes)
    BY <2>1 DEF Kept, Placed
  <2>3. /\ left \in 0..QueueLen /\ want \in 0..QueueLen /\ arrived \in 0..MaxBytes
        /\ Len(queue) <= QueueLen /\ Len(got) <= want
    BY DEF Kept, Placed, Counted, Bounds
  <2> QED BY <2>2, <2>3 DEF TypeOK, Flags
<1> QED BY <1>1, <1>2, <1>3, AlwaysKept, PTL DEF Spec
=============================================================================
