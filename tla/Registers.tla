------------------------------ MODULE Registers ------------------------------
(***************************************************************************)
(* The Modbus function handlers (functions/mbfunc*.c) and the register     *)
(* callbacks behind them (user_mb_app.c): coils packed into bytes that are *)
(* read and written through 16-bit windows, and 16-bit holding registers   *)
(* that travel high byte first.  A request is what eMBPoll executes, its   *)
(* fields decoded; discrete inputs and input registers are written by      *)
(* nothing in this program and are zero.                                   *)
(***************************************************************************)
EXTENDS Integers

CONSTANTS
  BITS_UCHAR,       (* bits of a byte; a register has two bytes            *)
  NCoils,           (* S_COIL_NCOILS and S_DISCRETE_INPUT_NDISCRETES       *)
  NRegs,            (* S_REG_HOLDING_NREGS and S_REG_INPUT_NREGS           *)
  READ_COILCNT_MAX, READ_REGCNT_MAX, WRITE_COILCNT_MAX, WRITE_REGCNT_MAX,
  Addresses,        (* the addresses and counts that requests carry        *)
  Counts,
  HoldingCounts,    (* the counts that reads of holding registers carry    *)
  Padding,          (* the bits a master fills the last byte of coils with *)
  Words,            (* the register values that writes carry               *)
  NoRequest, NoReply

ASSUME SizesAssumption ==
  /\ BITS_UCHAR \in Nat \ {0} /\ NRegs \in Nat \ {0}
  /\ NCoils \in Nat \ {0} /\ NCoils % BITS_UCHAR = 0
  /\ READ_COILCNT_MAX \in Nat /\ READ_REGCNT_MAX \in Nat
  /\ WRITE_COILCNT_MAX \in Nat /\ WRITE_REGCNT_MAX \in Nat

VARIABLES
  ucSCoilBuf,       (* the coil buffer bit by bit, and the memory behind   *)
  usSRegHoldBuf,    (* the holding registers                               *)
  request,          (* ucMBFrame, from EV_FRAME_RECEIVED to EV_EXECUTE     *)
  reply             (* what the handler left in ucMBFrame, until sent      *)

memory == <<ucSCoilBuf, usSRegHoldBuf>>
vars == <<memory, request, reply>>

Byte == 2^BITS_UCHAR
Behind == NCoils..NCoils + 2 * BITS_UCHAR - 1
Bit == {0, 1}

(* What a frame can carry: 16-bit addresses and counts, registers of two   *)
(* bytes.  That a byte has values at all is arithmetic the provers lack.   *)
ASSUME FrameAssumption ==
  /\ Byte \in Nat \ {0}
  /\ Addresses \subseteq 0..Byte * Byte - 1 /\ Counts \subseteq 0..Byte * Byte - 1
  /\ HoldingCounts \subseteq 0..Byte * Byte - 1 /\ Padding \subseteq Bit
  /\ Words \subseteq (0..Byte - 1) \X (0..Byte - 1)

-----------------------------------------------------------------------------
(* The callbacks' arithmetic.                                              *)

(* The handlers add one to the 16-bit address, the callbacks take it off.  *)
CallbackAddress(at) ==
  LET usRegAddress == (at + 1) % (Byte * Byte)
  IN (usRegAddress - 1) % (Byte * Byte)

InMap(at, n, size) == CallbackAddress(at) + n <= size

(* Mutant: the bits are not cleared before the value is put in.            *)
SetBitsAdds(buf, at, n, value) ==
  [i \in DOMAIN buf |->
     IF i < at \/ i >= at + BITS_UCHAR THEN buf[i] ELSE buf[i] + value[i - at]]

(* xMBUtilSetBits: n bits from bit at on are cleared and the whole byte    *)
(* value is or-ed in, also above its n-th bit.                             *)
SetBits(buf, at, n, value) ==
  [i \in DOMAIN buf |->
     IF i < at \/ i >= at + BITS_UCHAR THEN buf[i]
     ELSE IF i < at + n \/ value[i - at] = 1 THEN value[i - at] ELSE buf[i]]

(* The byte number k of a sequence of bits, least significant bit first.   *)
ByteOf(bits, k) == [j \in 0..BITS_UCHAR - 1 |-> bits[k * BITS_UCHAR + j]]

(* Mutant: the last byte is written whole.                                 *)
WrittenWholeBytes(buf, at, n, bits) ==
  LET bytes == IF n % BITS_UCHAR = 0 THEN n \div BITS_UCHAR ELSE n \div BITS_UCHAR + 1
      written[k \in 0..bytes] ==
        IF k = 0 THEN buf
        ELSE SetBits(written[k - 1], at + (k - 1) * BITS_UCHAR, BITS_UCHAR, ByteOf(bits, k - 1))
  IN written[bytes]

(* eMBRegCoilsCB, MB_REG_WRITE: byte by byte, then the bits that remain.   *)
Written(buf, at, n, bits) ==
  LET full == n \div BITS_UCHAR
      rest == n % BITS_UCHAR
      written[k \in 0..full] ==
        IF k = 0 THEN buf
        ELSE SetBits(written[k - 1], at + (k - 1) * BITS_UCHAR, BITS_UCHAR, ByteOf(bits, k - 1))
  IN IF rest = 0 THEN written[full]
     ELSE SetBits(written[full], at + full * BITS_UCHAR, rest, ByteOf(bits, full))

(* The bytes a reply with n coils has.                                     *)
NBytes(n) == IF n % BITS_UCHAR # 0 THEN n \div BITS_UCHAR + 1 ELSE n \div BITS_UCHAR

(* xMBUtilGetBits, one byte from bit at on.                                *)
GetBits(buf, at) == [j \in 0..BITS_UCHAR - 1 |-> buf[at + j]]

(* Mutant: the bits above the last coil are not masked.                    *)
ReadBitsUnmasked(buf, at, n) == [j \in 0..NBytes(n) * BITS_UCHAR - 1 |-> buf[at + j]]

(* eMBRegCoilsCB, MB_REG_READ: n/8 + 1 bytes are read, the last one is     *)
(* shifted left and right until only n%8 bits are left of it; the reply    *)
(* takes the first NBytes(n) of them.                                      *)
ReadBits(buf, at, n) ==
  LET read(k) == GetBits(buf, at + k * BITS_UCHAR)
      last == [j \in 0..BITS_UCHAR - 1 |->
                 IF j < n % BITS_UCHAR THEN read(n \div BITS_UCHAR)[j] ELSE 0]
      bytes == [k \in 0..n \div BITS_UCHAR |-> IF k = n \div BITS_UCHAR THEN last ELSE read(k)]
  IN [j \in 0..NBytes(n) * BITS_UCHAR - 1 |-> bytes[j \div BITS_UCHAR][j % BITS_UCHAR]]

(* A register's value on the line and back.                                *)
Sent(value) == <<value \div Byte, value % Byte>>

Received(word) == ((word[1] * Byte) % (Byte * Byte)) + word[2]

-----------------------------------------------------------------------------
(* The handlers.  Refused is prveMBError2Exception's answer or the         *)
(* handler's own; Echo is a reply made of the request's own fields.        *)

Refused(why) == reply' = [refused |-> why] /\ UNCHANGED memory
Told(data) == reply' = [data |-> data] /\ UNCHANGED memory
Echo == reply' = [data |-> "echo"]

(* eMBRegHoldingCB, MB_REG_READ and MB_REG_WRITE.                          *)
RegistersFrom(hold, at, n) == [i \in 0..n - 1 |-> Sent(hold[CallbackAddress(at) + i])]

Stored(at, n, words) ==
  [i \in DOMAIN usSRegHoldBuf |->
     IF CallbackAddress(at) <= i /\ i < CallbackAddress(at) + n
     THEN Received(words[i - CallbackAddress(at)]) ELSE usSRegHoldBuf[i]]

ReadCoils(r) ==
  /\ r.fc = "FC01"
  /\ IF ~(r.n >= 1 /\ r.n < READ_COILCNT_MAX) THEN Refused("value")
     ELSE IF ~InMap(r.at, r.n, NCoils) THEN Refused("address")
     ELSE Told(ReadBits(ucSCoilBuf, CallbackAddress(r.at), r.n))

(* The same over ucSDiscInBuf, which is zero.                              *)
ReadDiscreteInputs(r) ==
  /\ r.fc = "FC02"
  /\ IF ~(r.n >= 1 /\ r.n < READ_COILCNT_MAX) THEN Refused("value")
     ELSE IF ~InMap(r.at, r.n, NCoils) THEN Refused("address")
     ELSE Told([j \in 0..NBytes(r.n) * BITS_UCHAR - 1 |-> 0])

(* Only the low byte of the count is kept.                                 *)
ReadHoldingRegister(r) ==
  LET count == r.n % Byte
  IN /\ r.fc = "FC03"
     /\ IF ~(count >= 1 /\ count <= READ_REGCNT_MAX) THEN Refused("value")
        ELSE IF ~InMap(r.at, count, NRegs) THEN Refused("address")
        ELSE Told(RegistersFrom(usSRegHoldBuf, r.at, count))

(* usSRegInBuf is zero.                                                    *)
ReadInputRegister(r) ==
  /\ r.fc = "FC04"
  /\ IF ~(r.n >= 1 /\ r.n < READ_REGCNT_MAX) THEN Refused("value")
     ELSE IF ~InMap(r.at, r.n, NRegs) THEN Refused("address")
     ELSE Told([i \in 0..r.n - 1 |-> Sent(0)])

(* eMBRegCoilsCB and eMBRegHoldingCB with MB_REG_WRITE, for the handlers   *)
(* that answer with an echo.                                               *)
StoreCoils(r, n, bits) ==
  IF ~InMap(r.at, n, NCoils) THEN Refused("address")
  ELSE /\ ucSCoilBuf' = Written(ucSCoilBuf, CallbackAddress(r.at), n, bits)
       /\ Echo /\ UNCHANGED usSRegHoldBuf

StoreRegisters(r, n, words) ==
  IF ~InMap(r.at, n, NRegs) THEN Refused("address")
  ELSE /\ usSRegHoldBuf' = Stored(r.at, n, words)
       /\ Echo /\ UNCHANGED ucSCoilBuf

(* value is 1 for 0xFF00, 0 for 0x0000 and 2 for anything else.            *)
WriteCoil(r) ==
  /\ r.fc = "FC05"
  /\ IF r.value \notin Bit THEN Refused("value")
     ELSE StoreCoils(r, 1, [j \in 0..2 * BITS_UCHAR - 1 |-> IF j = 0 THEN r.value ELSE 0])

WriteHoldingRegister(r) ==
  r.fc = "FC06" /\ StoreRegisters(r, 1, [i \in {0} |-> r.word])

(* fits: the byte count agrees with the count.                             *)
WriteMultipleCoils(r) ==
  /\ r.fc = "FC15"
  /\ IF ~(r.n >= 1 /\ r.n <= WRITE_COILCNT_MAX /\ r.fits) THEN Refused("value")
     ELSE StoreCoils(r, r.n, r.bits)

WriteMultipleHoldingRegister(r) ==
  /\ r.fc = "FC16"
  /\ IF ~(r.n >= 1 /\ r.n <= WRITE_REGCNT_MAX /\ r.fits) THEN Refused("value")
     ELSE StoreRegisters(r, r.n, r.words)

(* The limit on the count written is one above FC16's.  The read sees what *)
(* the write stored, and its failure does not undo it.                     *)
ReadWriteMultipleHoldingRegister(r) ==
  /\ r.fc = "FC23"
  /\ IF ~(r.rn >= 1 /\ r.rn <= READ_REGCNT_MAX /\ r.n >= 1 /\ r.n <= WRITE_REGCNT_MAX + 1 /\ r.fits)
     THEN Refused("value")
     ELSE IF ~InMap(r.at, r.n, NRegs) THEN Refused("address")
     ELSE /\ usSRegHoldBuf' = Stored(r.at, r.n, r.words) /\ UNCHANGED ucSCoilBuf
          /\ IF InMap(r.rat, r.rn, NRegs)
             THEN reply' = [data |-> RegistersFrom(usSRegHoldBuf', r.rat, r.rn)]
             ELSE reply' = [refused |-> "address"]

(* eMBFuncReportSlaveID: nothing has called eMBSetSlaveID, so there is no  *)
(* identification to copy.                                                 *)
ReportSlaveID(r) == r.fc = "FC17" /\ Told(<<>>)

(* A function code that is not in xFuncHandlers.                           *)
IllegalFunction(r) == r.fc = "none" /\ Refused("function")

(* A request whose length is wrong: the handlers refuse it before anything *)
(* else, FC23's returns MB_EX_NONE and the request goes back as it came.   *)
WrongLength(r) ==
  /\ r.fc = "short"
  /\ IF r.of = "FC23" THEN Echo /\ UNCHANGED memory ELSE Refused("value")

-----------------------------------------------------------------------------
(* The requests a master sends.  The protocol demands that the last byte   *)
(* of coils is filled up with zeros; nothing in the handlers checks it.    *)
CoilBits(n) ==
  {bits \in [0..NCoils - 1 -> Bit] : \A j \in DOMAIN bits : j >= n => bits[j] \in Padding}
RegWords == [0..NRegs - 1 -> Words]

Reads ==
  [fc : {"FC01", "FC02", "FC04"}, at : Addresses, n : Counts]
  \cup [fc : {"FC03"}, at : Addresses, n : HoldingCounts]

OneWrites == [fc : {"FC05"}, at : Addresses, value : 0..2] \cup [fc : {"FC06"}, at : Addresses, word : Words]

CoilWrites ==
  UNION {[fc : {"FC15"}, at : Addresses, n : {n}, fits : BOOLEAN, bits : CoilBits(n)] : n \in Counts}

RegisterWrites ==
  [fc : {"FC16"}, at : Addresses, n : Counts, fits : BOOLEAN, words : RegWords]
  \cup [fc : {"FC23"}, at : Addresses, n : Counts, rat : Addresses, rn : Counts,
        fits : BOOLEAN, words : RegWords]

OtherRequests == [fc : {"short"}, of : {"FC01", "FC23"}] \cup [fc : {"FC17", "none"}]

Requests == Reads \cup OneWrites \cup CoilWrites \cup RegisterWrites \cup OtherRequests

ASSUME NoRequestAssumption == NoRequest \notin Requests

(* EV_FRAME_RECEIVED: a request for this slave is accepted.                *)
Arrive ==
  /\ request = NoRequest /\ reply = NoReply
  /\ \E r \in Requests : request' = r
  /\ UNCHANGED <<memory, reply>>

(* EV_EXECUTE: the handler registered for the function code.               *)
Execute ==
  /\ request # NoRequest /\ request' = NoRequest
  /\ \/ ReadCoils(request) \/ ReadDiscreteInputs(request)
     \/ ReadHoldingRegister(request) \/ ReadInputRegister(request)
     \/ WriteCoil(request) \/ WriteHoldingRegister(request)
     \/ WriteMultipleCoils(request) \/ WriteMultipleHoldingRegister(request)
     \/ ReadWriteMultipleHoldingRegister(request) \/ ReportSlaveID(request)
     \/ IllegalFunction(request) \/ WrongLength(request)

(* peMBFrameSendCur, or nothing after a broadcast.                         *)
Reply == reply # NoReply /\ reply' = NoReply /\ UNCHANGED <<memory, request>>

(* The memory behind the coils belongs to others and holds anything.       *)
Init ==
  /\ \E other \in Bit :
       ucSCoilBuf = [i \in 0..NCoils + 2 * BITS_UCHAR - 1 |-> IF i < NCoils THEN 0 ELSE other]
  /\ usSRegHoldBuf = [i \in 0..NRegs - 1 |-> 0]
  /\ request = NoRequest /\ reply = NoReply

Next == Arrive \/ Execute \/ Reply

Spec == Init /\ [][Next]_vars

-----------------------------------------------------------------------------
(* Properties.                                                             *)

(* Every bit is a bit, and a register stays within its two bytes.          *)
TypeOK ==
  /\ ucSCoilBuf \in [0..NCoils + 2 * BITS_UCHAR - 1 -> Bit]
  /\ usSRegHoldBuf \in [0..NRegs - 1 -> 0..Byte * Byte - 1]
  /\ request \in Requests \cup {NoRequest}

(* A coil write through the 16-bit windows leaves the memory behind the    *)
(* coil buffer alone, although the last window reaches into it, for a      *)
(* master that fills up with zeros (mbutils.c 74-81, user_mb_app.c         *)
(* 152-166).                                                               *)
BehindKept == [][\A i \in Behind : ucSCoilBuf'[i] = ucSCoilBuf[i]]_vars

(* The packed coils and the registers implement the map a master sees:     *)
(* every request inside it is served exactly, at any bit offset, and the   *)
(* padding and the memory behind never show (user_mb_app.c 57-211), for a  *)
(* master that fills up with zeros and whose reads of holding registers    *)
(* ask for no more than a byte can count.                                  *)
Map ==
  INSTANCE RegisterMap WITH
    coil <- [i \in 0..NCoils - 1 |-> ucSCoilBuf[i]],
    reg <- [i \in 0..NRegs - 1 |-> Sent(usSRegHoldBuf[i])],
    Bits <- BITS_UCHAR,
    MaxReadCoils <- READ_COILCNT_MAX - 1, MaxReadHolding <- READ_REGCNT_MAX,
    MaxReadInput <- READ_REGCNT_MAX - 1, MaxWriteCoils <- WRITE_COILCNT_MAX,
    MaxWriteRegs <- WRITE_REGCNT_MAX, MaxReadWriteRegs <- WRITE_REGCNT_MAX + 1

IsRegisterMap == Map!Spec

=============================================================================
