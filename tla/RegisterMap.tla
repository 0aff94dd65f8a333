---------------------------- MODULE RegisterMap ----------------------------
(***************************************************************************)
(* What a Modbus master is promised of the device's register map: coils    *)
(* and holding registers that it reads and writes by number.  A request    *)
(* inside the map and its limits is served exactly, any other is refused   *)
(* and changes nothing.  One exception is promised too: a write and read   *)
(* in one (FC23) whose read alone falls outside the map is refused after   *)
(* its write is done.                                                      *)
(***************************************************************************)
EXTENDS Integers

CONSTANTS
  NCoils, NRegs,    (* the sizes of the map                                *)
  Bits,             (* of a byte: replies with coils are whole bytes       *)
  MaxReadCoils, MaxReadHolding, MaxReadInput,
  MaxWriteCoils, MaxWriteRegs, MaxReadWriteRegs,
  NoRequest, NoReply

VARIABLES
  coil,     (* the coils, 0 or 1                                           *)
  reg,      (* the holding registers, each <<high byte, low byte>>         *)
  request,  (* the request being served                                    *)
  reply     (* its answer, until it is sent                                *)

map == <<coil, reg>>

Refuse(why) == reply' = [refused |-> why] /\ UNCHANGED map
Tell(data) == reply' = [data |-> data] /\ UNCHANGED map
Done == reply' = [data |-> "echo"]

Within(at, n, size) == at + n <= size

(* A read of n of size things.                                             *)
Read(n, max, size, data) ==
  \/ ~(1 <= n /\ n <= max) /\ Refuse("value")
  \/ 1 <= n /\ n <= max /\ ~Within(request.at, n, size) /\ Refuse("address")
  \/ 1 <= n /\ n <= max /\ Within(request.at, n, size) /\ Tell(data)

(* Coils of a reply: n of them, filled up with zeros to whole bytes.       *)
Padded(n, f(_)) ==
  [j \in 0..((n + Bits - 1) \div Bits) * Bits - 1 |-> IF j < n THEN f(j) ELSE 0]

ReadRequest ==
  LET at == request.at n == request.n
      Coil(j) == coil[at + j]
      Zero(j) == 0
  IN \/ /\ request.fc = "FC01"
        /\ Read(n, MaxReadCoils, NCoils, Padded(n, Coil))
     \/ /\ request.fc = "FC02"
        /\ Read(n, MaxReadCoils, NCoils, Padded(n, Zero))
     \/ /\ request.fc = "FC03"
        /\ Read(n, MaxReadHolding, NRegs, [i \in 0..n - 1 |-> reg[at + i]])
     \/ /\ request.fc = "FC04"
        /\ Read(n, MaxReadInput, NRegs, [i \in 0..n - 1 |-> <<0, 0>>])

(* n things of old, from at on, replaced by those of new.                  *)
Replaced(old, at, n, new) ==
  [i \in DOMAIN old |-> IF at <= i /\ i < at + n THEN new[i - at] ELSE old[i]]

WriteCoils(n, new) ==
  \/ ~Within(request.at, n, NCoils) /\ Refuse("address")
  \/ /\ Within(request.at, n, NCoils)
     /\ coil' = Replaced(coil, request.at, n, new)
     /\ Done /\ UNCHANGED reg

WriteRegs(n, new) ==
  \/ ~Within(request.at, n, NRegs) /\ Refuse("address")
  \/ /\ Within(request.at, n, NRegs)
     /\ reg' = Replaced(reg, request.at, n, new)
     /\ Done /\ UNCHANGED coil

WriteRequest ==
  \/ /\ request.fc = "FC05"
     /\ \/ request.value \notin {0, 1} /\ Refuse("value")
        \/ request.value \in {0, 1} /\ WriteCoils(1, [j \in {0} |-> request.value])
  \/ /\ request.fc = "FC06"
     /\ WriteRegs(1, [j \in {0} |-> request.word])
  \/ /\ request.fc \in {"FC15", "FC16"}
     /\ LET max == IF request.fc = "FC15" THEN MaxWriteCoils ELSE MaxWriteRegs
            valid == request.fits /\ 1 <= request.n /\ request.n <= max
        IN \/ ~valid /\ Refuse("value")
           \/ valid /\ request.fc = "FC15" /\ WriteCoils(request.n, request.bits)
           \/ valid /\ request.fc = "FC16" /\ WriteRegs(request.n, request.words)

(* The write comes first and stands even when the read is refused.         *)
ReadWriteRequest ==
  LET valid == /\ request.fits /\ 1 <= request.rn /\ request.rn <= MaxReadHolding
               /\ 1 <= request.n /\ request.n <= MaxReadWriteRegs
      lands == Within(request.at, request.n, NRegs)
  IN /\ request.fc = "FC23"
     /\ \/ ~valid /\ Refuse("value")
        \/ valid /\ ~lands /\ Refuse("address")
        \/ /\ valid /\ lands
           /\ reg' = Replaced(reg, request.at, request.n, request.words)
           /\ UNCHANGED coil
           /\ IF Within(request.rat, request.rn, NRegs)
              THEN reply' = [data |-> [i \in 0..request.rn - 1 |-> reg'[request.rat + i]]]
              ELSE reply' = [refused |-> "address"]

(* A request of the wrong length changes nothing; FC23 alone may have it   *)
(* echoed.  The device has no identification and no further functions.     *)
OtherRequest ==
  /\ UNCHANGED map
  /\ \/ request.fc = "short" /\ reply' = [refused |-> "value"]
     \/ request.fc = "short" /\ request.of = "FC23" /\ Done
     \/ request.fc = "FC17" /\ reply' = [data |-> <<>>]
     \/ request.fc = "none" /\ reply' = [refused |-> "function"]

-----------------------------------------------------------------------------
Init ==
  /\ coil = [i \in 0..NCoils - 1 |-> 0] /\ reg = [i \in 0..NRegs - 1 |-> <<0, 0>>]
  /\ request = NoRequest /\ reply = NoReply

Arrive == request = NoRequest /\ reply = NoReply /\ request' # NoRequest /\ UNCHANGED <<map, reply>>

Serve ==
  /\ request # NoRequest /\ request' = NoRequest
  /\ ReadRequest \/ WriteRequest \/ ReadWriteRequest \/ OtherRequest

Send == reply # NoReply /\ reply' = NoReply /\ UNCHANGED <<map, request>>

Next == Arrive \/ Serve \/ Send

Spec == Init /\ [][Next]_<<map, request, reply>>
=============================================================================
