--------------------------- MODULE RegistersProofs ---------------------------
(***************************************************************************)
(* Machine-checked proofs about the register handlers, for every size of a *)
(* byte, of the map and of a request.                                      *)
(***************************************************************************)
EXTENDS Registers, WellFoundedInduction, TLAPS

USE SizesAssumption

(* Induction over the naturals, for a set: a set that is not all of them   *)
(* would lack a least one.                                                 *)
LEMMA NatSetInduction ==
  ASSUME NEW T, 0 \in T, \A n \in Nat : n \in T => n + 1 \in T
  PROVE  \A n \in Nat : n \in T
<1> DEFINE Missing == {n \in Nat : n \notin T}
<1> SUFFICES ASSUME Missing # {}
             PROVE  FALSE
  OBVIOUS
<1>1. \E m \in Missing : \A k \in Missing : ~(<<k, m>> \in OpToRel(<, Nat))
  <2>1. Missing \subseteq Nat
    OBVIOUS
  <2> HIDE DEF Missing
  <2> QED BY <2>1, NatLessThanWellFounded, WFMin, Zenon
<1>2. \A k, m \in Missing : k < m => <<k, m>> \in OpToRel(<, Nat)
  BY DEF OpToRel
<1>3. \E m \in Missing : \A k \in Missing : ~(k < m)
  <2> HIDE DEF Missing
  <2> QED BY <1>1, <1>2, Zenon
<1>4. PICK m \in Missing : \A k \in Missing : ~(k < m)
  BY <1>3
<1>5. m # 0 /\ m - 1 \in Nat /\ m - 1 \notin Missing
  BY <1>4
<1>6. m - 1 \in T
  BY <1>5
<1>7. (m - 1) + 1 \in T
  BY <1>5, <1>6
<1> QED BY <1>4, <1>7

(* Whole bytes and what is left over.                                      *)
LEMMA Division ==
  ASSUME NEW n \in Nat, NEW b \in Nat \ {0}
  PROVE  /\ n \div b \in Nat /\ n % b \in 0..b - 1
         /\ n = (n \div b) * b + (n % b)
OBVIOUS

LEMMA DivisionUnique ==
  ASSUME NEW q \in Nat, NEW b \in Nat \ {0}, NEW r \in 0..b - 1
  PROVE  (q * b + r) \div b = q /\ (q * b + r) % b = r
OBVIOUS

LEMMA NextByte ==
  ASSUME NEW k \in Nat, NEW b \in Nat
  PROVE  k * b \in Nat /\ (k + 1) * b = k * b + b
OBVIOUS

(* Products grow with their factor.                                        *)
LEMMA MoreBytes ==
  ASSUME NEW p \in Nat, NEW q \in Nat, NEW b \in Nat \ {0}, p < q
  PROVE  p * b + b <= q * b
<1>1. PICK d \in Nat : q = p + 1 + d
  <2>1. q - p - 1 \in Nat /\ q = p + 1 + (q - p - 1)
    OBVIOUS
  <2> QED BY <2>1
<1>2. q * b = p * b + b + d * b
  BY <1>1
<1>3. d * b >= 0
  OBVIOUS
<1> QED BY <1>2, <1>3

(* The 16-bit address survives the detour over a number counted from one.  *)
LEMMA AddressExact ==
  ASSUME NEW at \in Addresses
  PROVE  at \in Nat /\ CallbackAddress(at) = at
<1> DEFINE M == Byte * Byte
<1>1. Byte \in Nat \ {0} /\ at \in 0..M - 1
  BY FrameAssumption
<1>2. M \in Nat \ {0}
  BY <1>1
<1>3. CallbackAddress(at) = (((at + 1) % M) - 1) % M
  BY DEF CallbackAddress
<1> HIDE DEF M
<1>4. CASE at + 1 < M
  <2>1. (at + 1) % M = at + 1 /\ at % M = at
    BY <1>1, <1>2, <1>4
  <2> QED BY <1>1, <1>3, <2>1
<1>5. CASE at + 1 = M
  <2>1. (at + 1) % M = 0
    BY <1>2, <1>5
  <2>2. (0 - 1) % M = M - 1
    BY <1>2
  <2> QED BY <1>1, <1>3, <1>5, <2>1, <2>2
<1> QED BY <1>1, <1>2, <1>4, <1>5

(* A register's value survives the way over the line.                      *)
LEMMA ValueExact ==
  ASSUME NEW word \in (0..Byte - 1) \X (0..Byte - 1)
  PROVE  Received(word) \in 0..Byte * Byte - 1 /\ Sent(Received(word)) = word
<1>1. Byte \in Nat \ {0}
  BY FrameAssumption
<1> DEFINE h == word[1]  l == word[2]  B == Byte
<1>2. h \in 0..B - 1 /\ l \in 0..B - 1 /\ word = <<h, l>>
  OBVIOUS
<1>3. Received(word) = ((h * B) % (B * B)) + l
  BY DEF Received
<1>4. Sent(Received(word)) = <<Received(word) \div B, Received(word) % B>>
  BY DEF Sent
<1> HIDE DEF h, l, B
<1>5. B \in Nat \ {0}
  BY <1>1 DEF B
<1>6. h * B + B <= B * B
  BY <1>2, <1>5, MoreBytes
<1>7. h * B \in Nat /\ B * B \in Nat \ {0}
  BY <1>2, <1>5
<1>8. (h * B) % (B * B) = h * B
  <2>1. \A x \in Nat, m \in Nat \ {0} : x < m => x % m = x
    OBVIOUS
  <2>2. h * B < B * B
    BY <1>5, <1>6, <1>7
  <2> QED BY <1>7, <2>1, <2>2
<1>9. (h * B + l) \div B = h /\ (h * B + l) % B = l
  <2>1. B \in Nat \ {0} /\ l \in 0..B - 1 /\ h \in Nat
    BY <1>2, <1>5
  <2>2. (h * B + l) \div B = h
    BY <2>1
  <2>3. (h * B + l) % B = l
    BY <2>1, <2>2
  <2> QED BY <2>2, <2>3
<1> QED
  <2>1. h * B + l \in 0..B * B - 1
    BY <1>2, <1>5, <1>6, <1>7
  <2> QED BY <1>2, <1>3, <1>4, <1>8, <1>9, <2>1 DEF B

-----------------------------------------------------------------------------
(* The coil buffer.                                                        *)

IsBuffer(buf) == DOMAIN buf \subseteq Nat /\ buf = [i \in DOMAIN buf |-> buf[i]]

(* What a write of the first m of bits from bit at on leaves.              *)
Patched(buf, at, m, bits) ==
  [i \in DOMAIN buf |-> IF at <= i /\ i < at + m THEN bits[i - at] ELSE buf[i]]

(* One call of xMBUtilSetBits adds its n bits, if the rest of its byte is  *)
(* zero: or-ing it in then changes nothing.                                *)
LEMMA WindowPatches ==
  ASSUME NEW buf, DOMAIN buf \subseteq Nat, NEW at \in Nat, NEW m \in Nat, NEW bits,
         NEW n \in 0..BITS_UCHAR, NEW value,
         \A j \in 0..n - 1 : value[j] = bits[m + j],
         \A j \in n..BITS_UCHAR - 1 : value[j] = 0
  PROVE  SetBits(Patched(buf, at, m, bits), at + m, n, value) = Patched(buf, at, m + n, bits)
<1> DEFINE old == Patched(buf, at, m, bits)
           new == Patched(buf, at, m + n, bits)
           set == SetBits(old, at + m, n, value)
<1>1. /\ DOMAIN old = DOMAIN buf /\ DOMAIN new = DOMAIN buf
      /\ \A i \in DOMAIN buf : /\ old[i] = IF at <= i /\ i < at + m THEN bits[i - at] ELSE buf[i]
                               /\ new[i] = IF at <= i /\ i < at + (m + n) THEN bits[i - at] ELSE buf[i]
  BY DEF Patched
<1>2. set = [i \in DOMAIN buf |->
               IF i < at + m \/ i >= at + m + BITS_UCHAR THEN old[i]
               ELSE IF i < at + m + n \/ value[i - (at + m)] = 1 THEN value[i - (at + m)]
               ELSE old[i]]
  BY <1>1 DEF SetBits
<1>3. new = [i \in DOMAIN buf |-> new[i]]
  BY <1>1 DEF Patched
<1> HIDE DEF old, new, set
<1> SUFFICES ASSUME NEW i \in DOMAIN buf
             PROVE  set[i] = new[i]
  <2>1. \A i \in DOMAIN buf : set[i] = new[i]
    OBVIOUS
  <2> QED BY <1>2, <1>3, <2>1 DEF set, new, old
<1>4. i \in Nat
  OBVIOUS
<1>5. CASE i < at + m \/ i >= at + m + BITS_UCHAR
  BY <1>1, <1>2, <1>4, <1>5
<1>6. CASE at + m <= i /\ i < at + m + n
  <2>1. i - (at + m) \in 0..n - 1
    BY <1>4, <1>6
  <2>2. value[i - (at + m)] = bits[m + (i - (at + m))]
    BY <2>1
  <2>3. m + (i - (at + m)) = i - at
    BY <1>4
  <2>4. new[i] = bits[i - at]
    BY <1>1, <1>4, <1>6
  <2>5. set[i] = value[i - (at + m)]
    BY <1>2, <1>4, <1>6
  <2> QED BY <2>2, <2>3, <2>4, <2>5
<1>7. CASE at + m + n <= i /\ i < at + m + BITS_UCHAR
  <2>1. i - (at + m) \in n..BITS_UCHAR - 1
    BY <1>4, <1>7
  <2>2. value[i - (at + m)] = 0
    BY <2>1
  <2>3. set[i] = old[i]
    BY <1>2, <1>4, <1>7, <2>2
  <2> QED BY <1>1, <1>4, <1>7, <2>3
<1> QED BY <1>4, <1>5, <1>6, <1>7

(* The buffer after k whole bytes, as the loop computes it.                *)
Loop(buf, at, bits, full, f) ==
  f = [k \in 0..full |->
         IF k = 0 THEN buf
         ELSE SetBits(f[k - 1], at + (k - 1) * BITS_UCHAR, BITS_UCHAR, ByteOf(bits, k - 1))]

LEMMA LoopExists ==
  ASSUME NEW buf, NEW at \in Nat, NEW bits
  PROVE  \A full \in Nat : \E f : Loop(buf, at, bits, full, f)
<1> DEFINE Step(b, k) == SetBits(b, at + (k - 1) * BITS_UCHAR, BITS_UCHAR, ByteOf(bits, k - 1))
           IsLoop(full, f) == f = [k \in 0..full |-> IF k = 0 THEN buf ELSE Step(f[k - 1], k)]
           T == {full \in Nat : \E f : IsLoop(full, f)}
<1> HIDE DEF Step
<1>1. 0 \in T
  <2> DEFINE f == [k \in 0..0 |-> buf]
  <2>1. f = [k \in 0..0 |-> IF k = 0 THEN buf ELSE Step(f[k - 1], k)]
    OBVIOUS
  <2> QED BY <2>1
<1>2. ASSUME NEW n \in Nat, n \in T
      PROVE  n + 1 \in T
  <2>1. PICK f : f = [k \in 0..n |-> IF k = 0 THEN buf ELSE Step(f[k - 1], k)]
    BY <1>2
  <2> DEFINE g == [k \in 0..n + 1 |-> IF k = n + 1 THEN Step(f[n], n + 1) ELSE f[k]]
  <2>2. g = [k \in 0..n + 1 |-> IF k = 0 THEN buf ELSE Step(g[k - 1], k)]
    BY <2>1
  <2>3. IsLoop(n + 1, g)
    BY <2>2
  <2> HIDE DEF g, IsLoop
  <2> QED BY <2>3
<1>3. \A full \in Nat : full \in T
  <2> HIDE DEF T
  <2> QED BY <1>1, <1>2, NatSetInduction
<1> QED BY <1>3 DEF Step, Loop

(* Each turn of the loop patches one byte more.                            *)
LEMMA LoopPatches ==
  ASSUME NEW buf, IsBuffer(buf), NEW at \in Nat, NEW bits, NEW full \in Nat, NEW f,
         Loop(buf, at, bits, full, f)
  PROVE  \A k \in 0..full : f[k] = Patched(buf, at, k * BITS_UCHAR, bits)
<1> DEFINE T == {k \in Nat : k <= full => f[k] = Patched(buf, at, k * BITS_UCHAR, bits)}
<1>1. 0 \in T
  <2>1. f[0] = buf
    BY DEF Loop
  <2>2. 0 * BITS_UCHAR = 0
    OBVIOUS
  <2>3. Patched(buf, at, 0, bits) = [i \in DOMAIN buf |-> buf[i]]
    BY DEF Patched, IsBuffer
  <2>4. f[0] = Patched(buf, at, 0 * BITS_UCHAR, bits)
    BY <2>1, <2>2, <2>3 DEF IsBuffer
  <2> QED BY <2>4
<1>2. ASSUME NEW k \in Nat, k \in T
      PROVE  k + 1 \in T
  <2> SUFFICES ASSUME k + 1 <= full
               PROVE  f[k + 1] = Patched(buf, at, (k + 1) * BITS_UCHAR, bits)
    OBVIOUS
  <2> DEFINE m == k * BITS_UCHAR
             value == ByteOf(bits, k)
  <2>1. k + 1 \in 0..full /\ k + 1 # 0 /\ (k + 1) - 1 = k /\ k <= full
    OBVIOUS
  <2>2. f[k + 1] = SetBits(f[k], at + m, BITS_UCHAR, value)
    BY <2>1 DEF Loop
  <2>3. f[k] = Patched(buf, at, m, bits)
    BY <1>2, <2>1
  <2>4. m \in Nat /\ (k + 1) * BITS_UCHAR = m + BITS_UCHAR
    BY NextByte, Zenon
  <2>5. \A j \in 0..BITS_UCHAR - 1 : value[j] = bits[m + j]
    BY DEF ByteOf
  <2>6. /\ BITS_UCHAR \in 0..BITS_UCHAR
        /\ \A j \in BITS_UCHAR..BITS_UCHAR - 1 : value[j] = 0
    OBVIOUS
  <2> HIDE DEF m, value
  <2> QED BY <2>2, <2>3, <2>4, <2>5, <2>6, WindowPatches DEF IsBuffer
<1>3. \A k \in Nat : k \in T
  <2> HIDE DEF T
  <2> QED BY <1>1, <1>2, NatSetInduction
<1> QED BY <1>3

(* The last byte of a master's coils is filled up with zeros.              *)
ZeroFilled(n, bits) ==
  \A j \in n..(n \div BITS_UCHAR) * BITS_UCHAR + BITS_UCHAR - 1 :
    n % BITS_UCHAR # 0 => bits[j] = 0

(* A write of coils whose last byte is filled up with zeros changes those  *)
(* coils and nothing else (user_mb_app.c 152-166).                         *)
LEMMA WritesExactly ==
  ASSUME NEW buf, IsBuffer(buf), NEW at \in Nat, NEW n \in Nat, NEW bits, ZeroFilled(n, bits)
  PROVE  Written(buf, at, n, bits) = Patched(buf, at, n, bits)
<1> DEFINE full == n \div BITS_UCHAR
           rest == n % BITS_UCHAR
           value == ByteOf(bits, full)
           m == full * BITS_UCHAR
           f == CHOOSE f : Loop(buf, at, bits, full, f)
<1>1. /\ full \in Nat /\ rest \in 0..BITS_UCHAR - 1 /\ n = m + rest /\ m \in Nat
  <2>1. full \in Nat /\ rest \in 0..BITS_UCHAR - 1 /\ n = m + rest
    BY Division, Zenon
  <2> QED BY <2>1, NextByte, Zenon
<1>2. Loop(buf, at, bits, full, f)
  <2> HIDE DEF full
  <2> QED BY <1>1, LoopExists
<1>3. Written(buf, at, n, bits) =
        IF rest = 0 THEN f[full] ELSE SetBits(f[full], at + m, rest, value)
  BY DEF Written, Loop
<1>4. \A j \in 0..rest - 1 : value[j] = bits[m + j]
  BY <1>1 DEF ByteOf
<1>5. ASSUME rest # 0, NEW j \in rest..BITS_UCHAR - 1
      PROVE  value[j] = 0
  <2>1. value[j] = bits[m + j]
    BY <1>1 DEF ByteOf
  <2>2. m + j \in n..m + BITS_UCHAR - 1
    <3> HIDE DEF m, rest
    <3> QED BY <1>1
  <2> QED BY <1>5, <2>1, <2>2 DEF ZeroFilled
<1> HIDE DEF full, rest, value, m, f
<1>6. f[full] = Patched(buf, at, m, bits)
  <2>1. full \in 0..full
    BY <1>1
  <2>2. \A k \in 0..full : f[k] = Patched(buf, at, k * BITS_UCHAR, bits)
    BY <1>1, <1>2, LoopPatches
  <2> QED BY <2>1, <2>2, Zenon DEF m
<1>7. CASE rest = 0
  BY <1>1, <1>3, <1>6, <1>7
<1>8. CASE rest # 0
  <2>1. rest \in 0..BITS_UCHAR
    BY <1>1
  <2>2. SetBits(Patched(buf, at, m, bits), at + m, rest, value) = Patched(buf, at, m + rest, bits)
    BY <1>1, <1>4, <1>5, <1>8, <2>1, WindowPatches DEF IsBuffer
  <2> QED BY <1>1, <1>3, <1>6, <1>8, <2>2
<1> QED BY <1>7, <1>8

(* The bytes of a reply are as many as hold n bits.                        *)
LEMMA BytesOfReply ==
  ASSUME NEW n \in Nat
  PROVE  NBytes(n) = (n + BITS_UCHAR - 1) \div BITS_UCHAR
<1> DEFINE q == n \div BITS_UCHAR
           r == n % BITS_UCHAR
           B == BITS_UCHAR
<1>1. q \in Nat /\ r \in 0..B - 1 /\ n = q * B + r /\ B \in Nat \ {0}
  BY Division, Zenon
<1>2. NBytes(n) = IF r # 0 THEN q + 1 ELSE q
  BY DEF NBytes
<1>3. \A p \in Nat, s \in 0..B - 1 : (p * B + s) \div B = p
  BY DivisionUnique, Zenon
<1>4. (q + 1) * B = q * B + B /\ q * B \in Nat
  BY <1>1, NextByte, Zenon
<1> SUFFICES NBytes(n) = (n + B - 1) \div B
  OBVIOUS
<1> HIDE DEF q, r, B
<1>5. CASE r = 0
  <2>1. n + B - 1 = q * B + (B - 1) /\ B - 1 \in 0..B - 1
    BY <1>1, <1>4, <1>5
  <2> QED BY <1>1, <1>2, <1>3, <1>5, <2>1
<1>6. CASE r # 0
  <2>1. n + B - 1 = (q + 1) * B + (r - 1) /\ r - 1 \in 0..B - 1 /\ q + 1 \in Nat
    BY <1>1, <1>4, <1>6
  <2>2. ((q + 1) * B + (r - 1)) \div B = q + 1
    BY <1>3, <2>1
  <2> QED BY <1>2, <1>6, <2>1, <2>2
<1> QED BY <1>5, <1>6

(* What a reply with n coils from bit at on should hold.                   *)
CoilsFrom(buf, at, n) ==
  [j \in 0..((n + BITS_UCHAR - 1) \div BITS_UCHAR) * BITS_UCHAR - 1 |->
     IF j < n THEN buf[at + j] ELSE 0]

(* A read of coils delivers those coils, and zeros up to a whole byte: the *)
(* shifts leave nothing else of the last window (user_mb_app.c 134-151).   *)
LEMMA ReadsExactly ==
  ASSUME NEW buf, NEW at \in Nat, NEW n \in Nat
  PROVE  ReadBits(buf, at, n) = CoilsFrom(buf, at, n)
<1> DEFINE q == n \div BITS_UCHAR
           r == n % BITS_UCHAR
           B == BITS_UCHAR
           read(k) == GetBits(buf, at + k * B)
           last == [j \in 0..B - 1 |-> IF j < r THEN read(q)[j] ELSE 0]
           bytes == [k \in 0..q |-> IF k = q THEN last ELSE read(k)]
<1>1. q \in Nat /\ r \in 0..B - 1 /\ n = q * B + r /\ B \in Nat \ {0}
  BY Division, Zenon
<1>2. NBytes(n) = IF r # 0 THEN q + 1 ELSE q
  BY DEF NBytes
<1>3. ReadBits(buf, at, n) = [j \in 0..NBytes(n) * B - 1 |-> bytes[j \div B][j % B]]
  BY DEF ReadBits
<1>4. \A p \in Nat, s \in 0..B - 1 : read(p)[s] = buf[at + p * B + s]
  BY DEF GetBits
<1>5. NBytes(n) \in Nat /\ NBytes(n) * B \in Nat /\ q * B \in Nat
  <2>1. NBytes(n) \in Nat
    BY <1>1, <1>2
  <2> QED BY <1>1, <2>1, NextByte, Zenon
<1>6. /\ \A k \in 0..q : bytes[k] = IF k = q THEN last ELSE read(k)
      /\ \A i \in 0..B - 1 : last[i] = IF i < r THEN read(q)[i] ELSE 0
  OBVIOUS
<1> DEFINE length == NBytes(n)
<1> HIDE DEF q, r, B, read, last, bytes, length
<1>7. ASSUME NEW j \in 0..length * B - 1
      PROVE  bytes[j \div B][j % B] = IF j < n THEN buf[at + j] ELSE 0
  <2> DEFINE k == j \div B
             i == j % B
  <2>1. j \in Nat /\ j < length * B /\ length \in Nat
    BY <1>5 DEF length
  <2>2. k \in Nat /\ i \in 0..B - 1 /\ j = k * B + i
    BY <1>1, <2>1, Division, Zenon
  <2>3. \A p, t \in Nat : p < t => p * B + B <= t * B
    BY <1>1, MoreBytes, Zenon
  <2>4. k * B \in Nat
    BY <1>1, <2>2, NextByte, Zenon
  <2> HIDE DEF k, i
  <2>5. k < length
    BY <1>1, <2>1, <2>2, <2>3, <2>4
  <2>6. CASE k = q
    <3>1. r # 0 /\ bytes[k] = last
      BY <1>1, <1>2, <1>6, <2>5, <2>6 DEF length
    <3>2. j < n <=> i < r
      BY <1>1, <1>5, <2>2, <2>6
    <3>3. last[i] = IF i < r THEN read(q)[i] ELSE 0
      BY <1>6, <2>2
    <3>4. read(q)[i] = buf[at + q * B + i]
      BY <1>1, <1>4, <2>2
    <3>5. at + q * B + i = at + j
      BY <1>1, <1>5, <2>2, <2>6
    <3> QED BY <3>1, <3>2, <3>3, <3>4, <3>5 DEF k, i
  <2>7. CASE k # q
    <3>1. k < q
      BY <1>1, <1>2, <2>2, <2>5, <2>7 DEF length
    <3>2. bytes[k] = read(k)
      BY <1>1, <1>6, <2>2, <3>1
    <3>3. j < n
      BY <1>1, <1>5, <2>2, <2>3, <2>4, <3>1
    <3>4. read(k)[i] = buf[at + k * B + i] /\ at + k * B + i = at + j
      BY <1>4, <2>1, <2>2, <2>4
    <3> QED BY <3>2, <3>3, <3>4 DEF k, i
  <2> QED BY <2>6, <2>7
<1>8. ReadBits(buf, at, n) = [j \in 0..length * B - 1 |-> IF j < n THEN buf[at + j] ELSE 0]
  BY <1>3, <1>7 DEF length
<1> QED BY <1>8, BytesOfReply DEF length, B, CoilsFrom

-----------------------------------------------------------------------------
(* The requests.                                                           *)

(* The masters that the proofs are about: the ones that fill the last byte *)
(* of coils up with zeros, and the ones that read no more holding          *)
(* registers than a byte can count.                                        *)
ZeroPadding == Padding \subseteq {0}
ByteCounts == HoldingCounts \subseteq 0..Byte - 1

(* The fields of each kind of request.                                     *)
LEMMA RequestFields ==
  ASSUME NEW r \in Requests
  PROVE  /\ r.fc \in {"FC01", "FC02", "FC03", "FC04", "FC05", "FC06", "FC15", "FC16",
                      "FC23", "short", "FC17", "none"}
         /\ r.fc \notin {"short", "FC17", "none"} => r.at \in Addresses
         /\ r.fc \in {"FC01", "FC02", "FC04", "FC15", "FC16", "FC23"} => r.n \in Counts
         /\ r.fc = "FC03" => r.n \in HoldingCounts
         /\ r.fc = "FC06" => r.word \in Words
         /\ r.fc \in {"FC15", "FC16", "FC23"} => r.fits \in BOOLEAN
         /\ r.fc = "FC15" => r.bits \in CoilBits(r.n)
         /\ r.fc \in {"FC16", "FC23"} => r.words \in RegWords
         /\ r.fc = "FC23" => r.rat \in Addresses /\ r.rn \in Counts
<1>1. CASE r \in Reads
  BY <1>1 DEF Reads
<1>2. CASE r \in OneWrites
  BY <1>2 DEF OneWrites
<1>3. CASE r \in CoilWrites
  <2>1. PICK n \in Counts :
          r \in [fc : {"FC15"}, at : Addresses, n : {n}, fits : BOOLEAN, bits : CoilBits(n)]
    BY <1>3 DEF CoilWrites
  <2> QED BY <2>1
<1>4. CASE r \in RegisterWrites
  BY <1>4 DEF RegisterWrites
<1>5. CASE r \in OtherRequests
  BY <1>5 DEF OtherRequests
<1> QED BY <1>1, <1>2, <1>3, <1>4, <1>5, Zenon DEF Requests

(* Addresses and counts are numbers, and the words of a write have bytes.  *)
LEMMA FieldsTyped ==
  /\ Addresses \subseteq Nat /\ Counts \subseteq Nat /\ HoldingCounts \subseteq Nat
  /\ Byte \in Nat \ {0}
  /\ Words \subseteq (0..Byte - 1) \X (0..Byte - 1)
BY FrameAssumption

(* The two buffers have their types; in terms of indices and values.       *)
LEMMA BuffersTyped ==
  ASSUME TypeOK
  PROVE  /\ DOMAIN ucSCoilBuf = 0..NCoils + 2 * BITS_UCHAR - 1
         /\ IsBuffer(ucSCoilBuf)
         /\ \A i \in DOMAIN ucSCoilBuf : ucSCoilBuf[i] \in Bit
         /\ DOMAIN usSRegHoldBuf = 0..NRegs - 1
         /\ \A i \in DOMAIN usSRegHoldBuf : usSRegHoldBuf[i] \in 0..Byte * Byte - 1
BY DEF TypeOK, IsBuffer

(* A write of coils inside the map patches the buffer, any other is        *)
(* refused.                                                                *)
LEMMA StoreCoilsEffect ==
  ASSUME TypeOK, NEW r, r.at \in Addresses, NEW n \in Nat, NEW bits,
         r.at + n <= NCoils => ZeroFilled(n, bits),
         StoreCoils(r, n, bits)
  PROVE  \/ ~(r.at + n <= NCoils) /\ Refused("address")
         \/ /\ r.at + n <= NCoils
            /\ ucSCoilBuf' = Patched(ucSCoilBuf, r.at, n, bits)
            /\ Echo /\ UNCHANGED usSRegHoldBuf
<1>1. r.at \in Nat /\ CallbackAddress(r.at) = r.at
  BY AddressExact
<1>2. InMap(r.at, n, NCoils) <=> r.at + n <= NCoils
  BY <1>1 DEF InMap
<1>3. CASE ~(r.at + n <= NCoils)
  BY <1>2, <1>3 DEF StoreCoils
<1>4. CASE r.at + n <= NCoils
  <2>1. IsBuffer(ucSCoilBuf)
    BY BuffersTyped
  <2>2. Written(ucSCoilBuf, r.at, n, bits) = Patched(ucSCoilBuf, r.at, n, bits)
    BY <1>1, <1>4, <2>1, WritesExactly
  <2> QED BY <1>1, <1>2, <1>4, <2>2 DEF StoreCoils
<1> QED BY <1>3, <1>4

(* The coils of FC05 and of FC15 are filled up with zeros as far as the    *)
(* write looks at them.                                                    *)
LEMMA OneCoilFilled ==
  ASSUME NEW value
  PROVE  ZeroFilled(1, [j \in 0..2 * BITS_UCHAR - 1 |-> IF j = 0 THEN value ELSE 0])
<1>1. CASE BITS_UCHAR = 1
  BY <1>1 DEF ZeroFilled
<1>2. CASE BITS_UCHAR > 1
  <2>1. 1 \div BITS_UCHAR = 0 /\ 0 * BITS_UCHAR = 0
    BY <1>2
  <2> QED BY <1>2, <2>1 DEF ZeroFilled
<1> QED BY <1>1, <1>2

LEMMA CoilsFilled ==
  ASSUME ZeroPadding, NEW n \in Counts, NEW bits \in CoilBits(n), n <= NCoils
  PROVE  /\ ZeroFilled(n, bits)
         /\ \A j \in 0..n - 1 : bits[j] \in Bit
<1> DEFINE q == n \div BITS_UCHAR
           r == n % BITS_UCHAR
           c == NCoils \div BITS_UCHAR
<1>1. n \in Nat
  BY FieldsTyped
<1>2. q \in Nat /\ r \in 0..BITS_UCHAR - 1 /\ n = q * BITS_UCHAR + r
  BY <1>1, Division, Zenon
<1>3. c \in Nat /\ NCoils = c * BITS_UCHAR + (NCoils % BITS_UCHAR)
  BY Division, Zenon
<1>4. \A p, t \in Nat : p < t => p * BITS_UCHAR + BITS_UCHAR <= t * BITS_UCHAR
  BY MoreBytes, Zenon
<1>5. q * BITS_UCHAR \in Nat /\ c * BITS_UCHAR \in Nat
  BY <1>2, <1>3, NextByte, Zenon
<1>6. bits \in [0..NCoils - 1 -> Bit] /\ \A j \in DOMAIN bits : j >= n => bits[j] = 0
  BY DEF CoilBits, ZeroPadding
<1>7. ZeroFilled(n, bits) <=> \A j \in n..q * BITS_UCHAR + BITS_UCHAR - 1 : r # 0 => bits[j] = 0
  BY DEF ZeroFilled
<1> HIDE DEF q, r, c
<1>8. ASSUME r # 0
      PROVE  q * BITS_UCHAR + BITS_UCHAR <= NCoils
  <2>1. q < c
    <3> SUFFICES ASSUME c <= q
                 PROVE  FALSE
      BY <1>2, <1>3
    <3>1. c * BITS_UCHAR <= q * BITS_UCHAR
      BY <1>2, <1>3, <1>4, <1>5
    <3> QED BY <1>2, <1>3, <1>5, <1>8, <3>1
  <2> QED BY <1>2, <1>3, <1>4, <1>5, <2>1
<1>9. ASSUME NEW j \in n..q * BITS_UCHAR + BITS_UCHAR - 1, r # 0
      PROVE  bits[j] = 0
  <2>1. j \in 0..NCoils - 1 /\ j >= n
    BY <1>1, <1>5, <1>8, <1>9
  <2> QED BY <1>6, <2>1
<1> QED BY <1>1, <1>6, <1>7, <1>9

(* A write of registers inside the map stores the words it carries.        *)
LEMMA StoredExactly ==
  ASSUME TypeOK, NEW at \in Addresses, NEW n \in Nat, NEW words,
         \A i \in 0..n - 1 : words[i] \in (0..Byte - 1) \X (0..Byte - 1)
  PROVE  /\ Stored(at, n, words) \in [0..NRegs - 1 -> 0..Byte * Byte - 1]
         /\ \A i \in 0..NRegs - 1 :
              Sent(Stored(at, n, words)[i]) =
                IF at <= i /\ i < at + n THEN words[i - at] ELSE Sent(usSRegHoldBuf[i])
<1> DEFINE new == Stored(at, n, words)
<1>1. at \in Nat /\ CallbackAddress(at) = at
  BY AddressExact
<1>2. DOMAIN usSRegHoldBuf = 0..NRegs - 1
  BY BuffersTyped
<1>3. new = [i \in 0..NRegs - 1 |->
               IF at <= i /\ i < at + n THEN Received(words[i - at]) ELSE usSRegHoldBuf[i]]
  BY <1>1, <1>2 DEF Stored
<1> SUFFICES ASSUME NEW i \in 0..NRegs - 1
             PROVE  /\ new[i] \in 0..Byte * Byte - 1
                    /\ Sent(new[i]) = IF at <= i /\ i < at + n THEN words[i - at]
                                      ELSE Sent(usSRegHoldBuf[i])
  <2>1. \A i \in 0..NRegs - 1 :
          /\ new[i] \in 0..Byte * Byte - 1
          /\ Sent(new[i]) = IF at <= i /\ i < at + n THEN words[i - at] ELSE Sent(usSRegHoldBuf[i])
    OBVIOUS
  <2> QED BY <1>3, <2>1
<1> HIDE DEF new
<1>4. CASE at <= i /\ i < at + n
  <2>1. i - at \in 0..n - 1 /\ new[i] = Received(words[i - at])
    BY <1>1, <1>3, <1>4
  <2>2. words[i - at] \in (0..Byte - 1) \X (0..Byte - 1)
    BY <2>1
  <2>3. Received(words[i - at]) \in 0..Byte * Byte - 1 /\ Sent(Received(words[i - at])) = words[i - at]
    BY <2>2, ValueExact
  <2> QED BY <1>4, <2>1, <2>3
<1>5. CASE ~(at <= i /\ i < at + n)
  <2>1. usSRegHoldBuf[i] \in 0..Byte * Byte - 1
    BY <1>2, BuffersTyped
  <2> QED BY <1>3, <1>5, <2>1
<1> QED BY <1>4, <1>5

-----------------------------------------------------------------------------
(* What a request can change.                                              *)

CoilsChange ==
  /\ UNCHANGED usSRegHoldBuf
  /\ \E at, n \in Nat : \E bits :
       /\ at + n <= NCoils /\ \A j \in 0..n - 1 : bits[j] \in Bit
       /\ ucSCoilBuf' = Patched(ucSCoilBuf, at, n, bits)

RegistersChange ==
  UNCHANGED ucSCoilBuf /\ usSRegHoldBuf' \in [0..NRegs - 1 -> 0..Byte * Byte - 1]

(* A request changes nothing, coils inside the map, or registers.          *)
LEMMA ExecuteEffect ==
  ASSUME ZeroPadding, TypeOK, Execute
  PROVE  UNCHANGED memory \/ CoilsChange \/ RegistersChange
<1>0. request \in Requests
  BY DEF Execute, TypeOK
<1>1. \A why : Refused(why) => UNCHANGED memory
  BY DEF Refused
<1>2. \A data : Told(data) => UNCHANGED memory
  BY DEF Told
<1>3. ASSUME request.fc \in {"FC05", "FC15"}, NEW n \in Nat, NEW bits,
             request.at + n <= NCoils => ZeroFilled(n, bits) /\ \A j \in 0..n - 1 : bits[j] \in Bit,
             StoreCoils(request, n, bits)
      PROVE  UNCHANGED memory \/ CoilsChange
  <2>1. request.at \in Addresses /\ request.at \in Nat
    BY <1>0, <1>3, RequestFields, FieldsTyped
  <2>2. \/ Refused("address")
        \/ /\ request.at + n <= NCoils
           /\ ucSCoilBuf' = Patched(ucSCoilBuf, request.at, n, bits)
           /\ UNCHANGED usSRegHoldBuf
    BY <1>3, <2>1, StoreCoilsEffect
  <2> QED BY <1>1, <1>3, <2>1, <2>2 DEF CoilsChange
<1>4. ASSUME NEW n \in Nat, NEW words, request.at \in Addresses,
             \A i \in 0..n - 1 : words[i] \in (0..Byte - 1) \X (0..Byte - 1)
      PROVE  Stored(request.at, n, words) \in [0..NRegs - 1 -> 0..Byte * Byte - 1]
  BY <1>4, StoredExactly
<1>5. ASSUME NEW n \in Nat, NEW words, request.at \in Addresses,
             request.at + n <= NRegs =>
               \A i \in 0..n - 1 : words[i] \in (0..Byte - 1) \X (0..Byte - 1)
      PROVE  /\ InMap(request.at, n, NRegs) <=> request.at + n <= NRegs
             /\ StoreRegisters(request, n, words) => UNCHANGED memory \/ RegistersChange
  <2>1. InMap(request.at, n, NRegs) <=> request.at + n <= NRegs
    BY <1>5, AddressExact DEF InMap
  <2> QED BY <1>1, <1>4, <1>5, <2>1 DEF StoreRegisters, RegistersChange
<1>6. CASE WriteCoil(request)
  <2>1. request.fc = "FC05"
    BY <1>6 DEF WriteCoil
  <2>2. CASE request.value \notin Bit
    BY <1>1, <1>6, <2>2 DEF WriteCoil
  <2>3. CASE request.value \in Bit
    <3> DEFINE bits == [j \in 0..2 * BITS_UCHAR - 1 |-> IF j = 0 THEN request.value ELSE 0]
    <3>1. StoreCoils(request, 1, bits)
      BY <1>6, <2>3 DEF WriteCoil
    <3>2. ZeroFilled(1, bits)
      BY OneCoilFilled
    <3>3. \A j \in 0..1 - 1 : bits[j] \in Bit
      BY <2>3
    <3> HIDE DEF bits
    <3> QED BY <1>3, <2>1, <3>1, <3>2, <3>3
  <2> QED BY <2>2, <2>3
<1>7. CASE WriteMultipleCoils(request)
  <2>1. request.fc = "FC15" /\ (Refused("value") \/ StoreCoils(request, request.n, request.bits))
    BY <1>7 DEF WriteMultipleCoils
  <2>2. /\ request.n \in Counts /\ request.n \in Nat /\ request.bits \in CoilBits(request.n)
        /\ request.at \in Nat
    BY <1>0, <2>1, RequestFields, FieldsTyped
  <2>3. request.at + request.n <= NCoils =>
          /\ ZeroFilled(request.n, request.bits)
          /\ \A j \in 0..request.n - 1 : request.bits[j] \in Bit
    <3>1. request.at + request.n <= NCoils => request.n <= NCoils
      BY <2>2
    <3> QED BY <2>2, <3>1, CoilsFilled
  <2> QED BY <1>1, <1>3, <2>1, <2>2, <2>3
<1>8. CASE WriteHoldingRegister(request)
  <2> DEFINE words == [i \in {0} |-> request.word]
  <2>1. request.fc = "FC06" /\ StoreRegisters(request, 1, words)
    BY <1>8 DEF WriteHoldingRegister
  <2>2. request.at \in Addresses /\ request.word \in (0..Byte - 1) \X (0..Byte - 1)
    BY <1>0, <2>1, RequestFields, FieldsTyped
  <2>3. \A i \in 0..1 - 1 : words[i] \in (0..Byte - 1) \X (0..Byte - 1)
    BY <2>2
  <2> HIDE DEF words
  <2> QED BY <1>5, <2>1, <2>2, <2>3
<1>9. ASSUME request.fc \in {"FC16", "FC23"}
      PROVE  /\ request.at \in Addresses /\ request.n \in Nat
             /\ request.at + request.n <= NRegs =>
                  \A i \in 0..request.n - 1 : request.words[i] \in (0..Byte - 1) \X (0..Byte - 1)
  <2>1. /\ request.at \in Addresses /\ request.at \in Nat /\ request.n \in Nat
        /\ request.words \in [0..NRegs - 1 -> Words]
    BY <1>0, <1>9, RequestFields, FieldsTyped DEF RegWords
  <2>2. Words \subseteq (0..Byte - 1) \X (0..Byte - 1)
    BY FieldsTyped
  <2> QED BY <2>1, <2>2
<1>10. CASE WriteMultipleHoldingRegister(request)
  <2>1. request.fc = "FC16" /\ (Refused("value") \/ StoreRegisters(request, request.n, request.words))
    BY <1>10 DEF WriteMultipleHoldingRegister
  <2> QED BY <1>1, <1>5, <1>9, <2>1
<1>11. CASE ReadWriteMultipleHoldingRegister(request)
  <2>1. /\ request.fc = "FC23"
        /\ \/ Refused("value") \/ Refused("address")
           \/ /\ InMap(request.at, request.n, NRegs) /\ UNCHANGED ucSCoilBuf
              /\ usSRegHoldBuf' = Stored(request.at, request.n, request.words)
    BY <1>11 DEF ReadWriteMultipleHoldingRegister
  <2> QED BY <1>1, <1>4, <1>5, <1>9, <2>1 DEF RegistersChange
<1>12. CASE \/ ReadCoils(request) \/ ReadDiscreteInputs(request)
            \/ ReadHoldingRegister(request) \/ ReadInputRegister(request)
            \/ ReportSlaveID(request) \/ IllegalFunction(request) \/ WrongLength(request)
  BY <1>1, <1>2, <1>12
  DEF ReadCoils, ReadDiscreteInputs, ReadHoldingRegister, ReadInputRegister, ReportSlaveID,
      IllegalFunction, WrongLength
<1> QED BY <1>6, <1>7, <1>8, <1>10, <1>11, <1>12 DEF Execute

(* Patched coils are bits, and only those inside the map have changed.     *)
LEMMA CoilsChangeEffect ==
  ASSUME TypeOK, CoilsChange
  PROVE  /\ ucSCoilBuf' \in [0..NCoils + 2 * BITS_UCHAR - 1 -> Bit]
         /\ \A i \in Behind : ucSCoilBuf'[i] = ucSCoilBuf[i]
<1>0. PICK at \in Nat, n \in Nat :
        \E bits : /\ at + n <= NCoils /\ \A j \in 0..n - 1 : bits[j] \in Bit
                 /\ ucSCoilBuf' = Patched(ucSCoilBuf, at, n, bits)
  BY DEF CoilsChange
<1>1. PICK bits : /\ at + n <= NCoils /\ \A j \in 0..n - 1 : bits[j] \in Bit
                  /\ ucSCoilBuf' = Patched(ucSCoilBuf, at, n, bits)
  BY <1>0
<1>2. ucSCoilBuf' = [i \in 0..NCoils + 2 * BITS_UCHAR - 1 |->
                       IF at <= i /\ i < at + n THEN bits[i - at] ELSE ucSCoilBuf[i]]
  BY <1>1, BuffersTyped DEF Patched
<1>3. ASSUME NEW i \in 0..NCoils + 2 * BITS_UCHAR - 1
      PROVE  (IF at <= i /\ i < at + n THEN bits[i - at] ELSE ucSCoilBuf[i]) \in Bit
  <2>1. CASE at <= i /\ i < at + n
    <3>1. i - at \in 0..n - 1
      BY <2>1
    <3> QED BY <1>1, <2>1, <3>1
  <2>2. CASE ~(at <= i /\ i < at + n)
    BY <2>2, BuffersTyped
  <2> QED BY <2>1, <2>2
<1>4. ASSUME NEW i \in Behind
      PROVE  ucSCoilBuf'[i] = ucSCoilBuf[i]
  <2>1. i \in 0..NCoils + 2 * BITS_UCHAR - 1 /\ ~(i < at + n)
    BY <1>1 DEF Behind
  <2> QED BY <1>2, <2>1
<1> QED BY <1>2, <1>3, <1>4

(* Every bit is a bit and a register stays within its two bytes, whatever  *)
(* is written where (user_mb_app.c 57-211), for masters that fill up with  *)
(* zeros.                                                                  *)
THEOREM TypeCorrect ==
  ASSUME ZeroPadding
  PROVE  Spec => []TypeOK
<1>1. Init => TypeOK
  <2>1. 0 \in 0..Byte * Byte - 1
    <3>1. \A b \in Nat \ {0} : b * b \in Nat \ {0}
      OBVIOUS
    <3> QED BY <3>1, FrameAssumption
  <2> QED BY <2>1 DEF Init, TypeOK, Bit
<1>2. TypeOK /\ [Next]_vars => TypeOK'
  <2> SUFFICES ASSUME TypeOK, [Next]_vars
               PROVE  TypeOK'
    OBVIOUS
  <2>1. CASE Arrive
    BY <2>1 DEF Arrive, TypeOK, memory
  <2>2. CASE Execute
    <3>1. request' = NoRequest
      BY <2>2 DEF Execute
    <3>2. CASE UNCHANGED memory
      BY <3>1, <3>2 DEF TypeOK, memory
    <3>3. CASE CoilsChange
      BY <3>1, <3>3, CoilsChangeEffect DEF TypeOK, CoilsChange
    <3>4. CASE RegistersChange
      BY <3>1, <3>4 DEF TypeOK, RegistersChange
    <3> QED BY <2>2, <3>2, <3>3, <3>4, ExecuteEffect
  <2>3. CASE Reply
    BY <2>3 DEF Reply, TypeOK, memory
  <2>4. CASE UNCHANGED vars
    BY <2>4 DEF vars, TypeOK, memory
  <2> QED BY <2>1, <2>2, <2>3, <2>4 DEF Next
<1> QED BY <1>1, <1>2, PTL DEF Spec

(* No write of coils changes the memory behind the coil buffer, although   *)
(* the last 16-bit window reaches into it (mbutils.c 74-81), for masters   *)
(* that fill up with zeros.                                                *)
THEOREM MemoryBehindKept ==
  ASSUME ZeroPadding
  PROVE  Spec => BehindKept
<1>1. TypeOK /\ [Next]_vars => [\A i \in Behind : ucSCoilBuf'[i] = ucSCoilBuf[i]]_vars
  <2> SUFFICES ASSUME TypeOK, Next
               PROVE  \A i \in Behind : ucSCoilBuf'[i] = ucSCoilBuf[i]
    OBVIOUS
  <2>1. CASE UNCHANGED ucSCoilBuf
    BY <2>1
  <2>2. CASE Execute
    BY <2>1, <2>2, ExecuteEffect, CoilsChangeEffect DEF memory, RegistersChange
  <2> QED BY <2>1, <2>2 DEF Next, Arrive, Reply, memory
<1> QED BY <1>1, TypeCorrect, PTL DEF Spec, BehindKept

-----------------------------------------------------------------------------
(* The register map: every handler does what the map promises.             *)

(* What the map sees of the two buffers.                                   *)
Coil == [i \in 0..NCoils - 1 |-> ucSCoilBuf[i]]
RegOf(hold) == [i \in 0..NRegs - 1 |-> Sent(hold[i])]
Reg == RegOf(usSRegHoldBuf)

LEMMA AnswersMapped ==
  /\ \A why : Refused(why) => Map!Refuse(why)
  /\ \A data : Told(data) => Map!Tell(data)
  /\ Echo => Map!Done
  /\ UNCHANGED ucSCoilBuf => Coil' = Coil
  /\ UNCHANGED usSRegHoldBuf => Reg' = Reg
BY DEF Refused, Told, Echo, memory, Coil, Reg, RegOf, Map!Refuse, Map!Tell, Map!Done, Map!map

(* The addresses and counts of a request are numbers, and the callbacks    *)
(* look at the addresses the map looks at.                                 *)
LEMMA AddressesMapped ==
  ASSUME NEW r \in Requests, r.fc \notin {"short", "FC17", "none"}
  PROVE  /\ r.at \in Nat /\ CallbackAddress(r.at) = r.at
         /\ \A size : \A n \in Nat : InMap(r.at, n, size) <=> r.at + n <= size
BY RequestFields, AddressExact DEF InMap

LEMMA ReadCoilsMapped ==
  ASSUME TypeOK, request \in Requests, ReadCoils(request)
  PROVE  Map!ReadRequest
<1> DEFINE n == request.n
           at == request.at
<1>1. request.fc = "FC01"
  BY DEF ReadCoils
<1>2. /\ n \in Nat /\ at \in Nat /\ CallbackAddress(at) = at
      /\ InMap(at, n, NCoils) <=> at + n <= NCoils
  BY <1>1, RequestFields, FieldsTyped, AddressesMapped
<1>3. Map!ReadRequest <=> Map!Read(n, READ_COILCNT_MAX - 1, NCoils, CoilsFrom(Coil, at, n))
  BY <1>1 DEF Map!ReadRequest, Map!Padded, Coil, CoilsFrom
<1>4. \/ ~(n >= 1 /\ n < READ_COILCNT_MAX) /\ Refused("value")
      \/ n >= 1 /\ n < READ_COILCNT_MAX /\ ~(at + n <= NCoils) /\ Refused("address")
      \/ /\ n >= 1 /\ n < READ_COILCNT_MAX /\ at + n <= NCoils
         /\ Told(ReadBits(ucSCoilBuf, at, n))
  BY <1>2 DEF ReadCoils
<1> HIDE DEF n, at
<1>5. ReadBits(ucSCoilBuf, at, n) = CoilsFrom(ucSCoilBuf, at, n)
  BY <1>2, ReadsExactly
<1>6. at + n <= NCoils => CoilsFrom(ucSCoilBuf, at, n) = CoilsFrom(Coil, at, n)
  <2> SUFFICES ASSUME at + n <= NCoils
               PROVE  CoilsFrom(ucSCoilBuf, at, n) = CoilsFrom(Coil, at, n)
    OBVIOUS
  <2>1. \A j \in Nat : j < n => Coil[at + j] = ucSCoilBuf[at + j]
    BY <1>2 DEF Coil
  <2> DEFINE bytes == ((n + BITS_UCHAR - 1) \div BITS_UCHAR) * BITS_UCHAR - 1
  <2>2. \A buf : CoilsFrom(buf, at, n) = [j \in 0..bytes |-> IF j < n THEN buf[at + j] ELSE 0]
    BY DEF CoilsFrom
  <2>3. \A j \in 0..bytes : j \in Nat
    OBVIOUS
  <2> HIDE DEF bytes
  <2>4. \A j \in 0..bytes : (IF j < n THEN ucSCoilBuf[at + j] ELSE 0)
                           = (IF j < n THEN Coil[at + j] ELSE 0)
    BY <2>1, <2>3
  <2>5. /\ CoilsFrom(ucSCoilBuf, at, n) = [j \in 0..bytes |-> IF j < n THEN ucSCoilBuf[at + j] ELSE 0]
        /\ CoilsFrom(Coil, at, n) = [j \in 0..bytes |-> IF j < n THEN Coil[at + j] ELSE 0]
    BY <2>2
  <2> QED BY <2>4, <2>5
<1> QED BY <1>2, <1>3, <1>4, <1>5, <1>6, AnswersMapped DEF Map!Read, Map!Within, n, at

LEMMA ReadDiscreteInputsMapped ==
  ASSUME request \in Requests, ReadDiscreteInputs(request)
  PROVE  Map!ReadRequest
<1> DEFINE n == request.n
           zeros(length) == [j \in 0..length * BITS_UCHAR - 1 |-> 0]
<1>1. request.fc = "FC02"
  BY DEF ReadDiscreteInputs
<1>2. n \in Nat /\ (InMap(request.at, n, NCoils) <=> request.at + n <= NCoils)
  BY <1>1, RequestFields, FieldsTyped, AddressesMapped
<1>3. Map!ReadRequest <=>
        Map!Read(n, READ_COILCNT_MAX - 1, NCoils, zeros((n + BITS_UCHAR - 1) \div BITS_UCHAR))
  BY <1>1 DEF Map!ReadRequest, Map!Padded
<1>4. \/ ~(n >= 1 /\ n < READ_COILCNT_MAX) /\ Refused("value")
      \/ n >= 1 /\ n < READ_COILCNT_MAX /\ ~(request.at + n <= NCoils) /\ Refused("address")
      \/ /\ n >= 1 /\ n < READ_COILCNT_MAX /\ request.at + n <= NCoils
         /\ Told(zeros(NBytes(n)))
  BY <1>2 DEF ReadDiscreteInputs
<1>5. NBytes(n) = (n + BITS_UCHAR - 1) \div BITS_UCHAR
  BY <1>2, BytesOfReply
<1> HIDE DEF zeros
<1> QED BY <1>2, <1>3, <1>4, <1>5, AnswersMapped DEF Map!Read, Map!Within

WordsFrom(reg, at, n) == [i \in 0..n - 1 |-> reg[at + i]]

(* Registers that are read inside the map are those of the map.            *)
LEMMA RegistersMapped ==
  ASSUME NEW hold, NEW at \in Addresses, NEW n \in Nat, at + n <= NRegs
  PROVE  RegistersFrom(hold, at, n) = WordsFrom(RegOf(hold), at, n)
<1>1. at \in Nat /\ CallbackAddress(at) = at
  BY AddressExact
<1>2. \A i \in 0..n - 1 : at + i \in 0..NRegs - 1
  BY <1>1
<1> QED BY <1>1, <1>2 DEF RegistersFrom, RegOf, WordsFrom

LEMMA ReadHoldingRegisterMapped ==
  ASSUME ByteCounts, request \in Requests, ReadHoldingRegister(request)
  PROVE  Map!ReadRequest
<1> DEFINE n == request.n
           data == WordsFrom(Reg, request.at, n)
<1>1. request.fc = "FC03"
  BY DEF ReadHoldingRegister
<1>2. /\ request.n \in 0..Byte - 1 /\ request.at \in Addresses /\ Byte \in Nat \ {0}
  BY <1>1, RequestFields, FieldsTyped DEF ByteCounts
<1>3. n \in Nat /\ request.n % Byte = n
  BY <1>2
<1>4. InMap(request.at, n, NRegs) <=> request.at + n <= NRegs
  BY <1>1, <1>3, AddressesMapped
<1>5. Map!ReadRequest <=> Map!Read(n, READ_REGCNT_MAX, NRegs, data)
  BY <1>1 DEF Map!ReadRequest, Reg, RegOf, WordsFrom
<1>6. \/ ~(n >= 1 /\ n <= READ_REGCNT_MAX) /\ Refused("value")
      \/ n >= 1 /\ n <= READ_REGCNT_MAX /\ ~(request.at + n <= NRegs) /\ Refused("address")
      \/ /\ n >= 1 /\ n <= READ_REGCNT_MAX /\ request.at + n <= NRegs
         /\ Told(RegistersFrom(usSRegHoldBuf, request.at, n))
  BY <1>3, <1>4 DEF ReadHoldingRegister
<1>7. request.at + n <= NRegs => RegistersFrom(usSRegHoldBuf, request.at, n) = data
  <2> HIDE DEF n
  <2> QED BY <1>2, <1>3, RegistersMapped DEF Reg
<1> HIDE DEF n, data
<1> QED BY <1>3, <1>5, <1>6, <1>7, AnswersMapped DEF Map!Read, Map!Within

LEMMA ReadInputRegisterMapped ==
  ASSUME request \in Requests, ReadInputRegister(request)
  PROVE  Map!ReadRequest
<1> DEFINE n == request.n
           zeros == [i \in 0..n - 1 |-> <<0, 0>>]
<1>1. request.fc = "FC04"
  BY DEF ReadInputRegister
<1>2. n \in Nat /\ (InMap(request.at, n, NRegs) <=> request.at + n <= NRegs)
  BY <1>1, RequestFields, FieldsTyped, AddressesMapped
<1>3. Map!ReadRequest <=> Map!Read(n, READ_REGCNT_MAX - 1, NRegs, zeros)
  BY <1>1 DEF Map!ReadRequest
<1>4. Sent(0) = <<0, 0>>
  <2>1. \A b \in Nat \ {0} : 0 \div b = 0 /\ 0 % b = 0
    OBVIOUS
  <2> QED BY <2>1, FrameAssumption DEF Sent
<1>5. \/ ~(n >= 1 /\ n < READ_REGCNT_MAX) /\ Refused("value")
      \/ n >= 1 /\ n < READ_REGCNT_MAX /\ ~(request.at + n <= NRegs) /\ Refused("address")
      \/ n >= 1 /\ n < READ_REGCNT_MAX /\ request.at + n <= NRegs /\ Told(zeros)
  BY <1>2, <1>4 DEF ReadInputRegister
<1> HIDE DEF zeros
<1> QED BY <1>2, <1>3, <1>5, AnswersMapped DEF Map!Read, Map!Within

(* A map's values with n of them, from at on, replaced by new ones.        *)
Changed(old, at, n, new) ==
  [i \in DOMAIN old |-> IF at <= i /\ i < at + n THEN new[i - at] ELSE old[i]]

(* A patched buffer is the map with its coils replaced, as far as the new  *)
(* coils agree.                                                            *)
LEMMA CoilsReplaced ==
  ASSUME TypeOK, NEW at \in Nat, NEW n \in Nat, at + n <= NCoils,
         NEW bits, NEW new, \A j \in 0..n - 1 : new[j] = bits[j],
         ucSCoilBuf' = Patched(ucSCoilBuf, at, n, bits)
  PROVE  Coil' = Changed(Coil, at, n, new)
<1>1. \A i \in 0..NCoils - 1 :
        ucSCoilBuf'[i] = IF at <= i /\ i < at + n THEN bits[i - at] ELSE ucSCoilBuf[i]
  <2>1. \A i \in 0..NCoils - 1 : i \in DOMAIN ucSCoilBuf
    BY BuffersTyped
  <2> QED BY <2>1 DEF Patched
<1>2. \A i \in 0..NCoils - 1 : at <= i /\ i < at + n => bits[i - at] = new[i - at]
  <2> TAKE i \in 0..NCoils - 1
  <2> HAVE at <= i /\ i < at + n
  <2>1. i - at \in 0..n - 1
    OBVIOUS
  <2> QED BY <2>1
<1>3. Changed(Coil, at, n, new) =
        [i \in 0..NCoils - 1 |-> IF at <= i /\ i < at + n THEN new[i - at] ELSE ucSCoilBuf[i]]
  BY DEF Changed, Coil
<1> QED BY <1>1, <1>2, <1>3 DEF Coil

(* What the map promises of a write of coils, and of one of registers.     *)
CoilsServed(n, new) ==
  \/ ~(request.at + n <= NCoils) /\ Map!Refuse("address")
  \/ /\ request.at + n <= NCoils
     /\ Coil' = Changed(Coil, request.at, n, new)
     /\ Map!Done /\ Reg' = Reg

RegistersServed(n, new) ==
  \/ ~(request.at + n <= NRegs) /\ Map!Refuse("address")
  \/ /\ request.at + n <= NRegs
     /\ Reg' = Changed(Reg, request.at, n, new)
     /\ Map!Done /\ Coil' = Coil

LEMMA StoreCoilsMapped ==
  ASSUME TypeOK, request.at \in Addresses, NEW n \in Nat, NEW bits, NEW new,
         request.at + n <= NCoils => ZeroFilled(n, bits),
         \A j \in 0..n - 1 : new[j] = bits[j],
         StoreCoils(request, n, bits)
  PROVE  CoilsServed(n, new)
<1>1. request.at \in Nat
  BY FieldsTyped
<1>2. CASE ~(request.at + n <= NCoils) /\ Refused("address")
  BY <1>2, AnswersMapped DEF CoilsServed
<1>3. CASE /\ request.at + n <= NCoils
           /\ ucSCoilBuf' = Patched(ucSCoilBuf, request.at, n, bits)
           /\ Echo /\ UNCHANGED usSRegHoldBuf
  <2>1. Coil' = Changed(Coil, request.at, n, new)
    BY <1>1, <1>3, CoilsReplaced
  <2> QED BY <1>3, <2>1, AnswersMapped DEF CoilsServed
<1> QED BY <1>2, <1>3, StoreCoilsEffect

LEMMA WriteCoilsMapped ==
  ASSUME ZeroPadding, TypeOK, request \in Requests,
         WriteCoil(request) \/ WriteMultipleCoils(request)
  PROVE  Map!WriteRequest
<1>1. CASE WriteCoil(request)
  <2> DEFINE bits == [j \in 0..2 * BITS_UCHAR - 1 |-> IF j = 0 THEN request.value ELSE 0]
             new == [j \in {0} |-> request.value]
  <2>1. request.fc = "FC05"
    BY <1>1 DEF WriteCoil
  <2>2. Map!WriteRequest <=> \/ request.value \notin {0, 1} /\ Map!Refuse("value")
                             \/ request.value \in {0, 1} /\ CoilsServed(1, new)
    BY <2>1 DEF Map!WriteRequest, Map!WriteCoils, Map!Within, Map!Replaced, CoilsServed, Changed,
                Coil, Reg, RegOf
  <2>3. \/ request.value \notin {0, 1} /\ Refused("value")
        \/ request.value \in {0, 1} /\ StoreCoils(request, 1, bits)
    BY <1>1 DEF WriteCoil, Bit
  <2>4. ZeroFilled(1, bits)
    BY OneCoilFilled
  <2>5. \A j \in 0..1 - 1 : new[j] = bits[j]
    OBVIOUS
  <2>6. request.at \in Addresses
    BY <2>1, RequestFields
  <2> HIDE DEF bits, new
  <2>7. StoreCoils(request, 1, bits) => CoilsServed(1, new)
    BY <2>4, <2>5, <2>6, StoreCoilsMapped
  <2> QED BY <2>2, <2>3, <2>7, AnswersMapped
<1>2. CASE WriteMultipleCoils(request)
  <2> DEFINE valid == request.fits /\ 1 <= request.n /\ request.n <= WRITE_COILCNT_MAX
  <2>1. request.fc = "FC15"
    BY <1>2 DEF WriteMultipleCoils
  <2>2. /\ request.at \in Addresses /\ request.at \in Nat
        /\ request.n \in Counts /\ request.n \in Nat
        /\ request.bits \in CoilBits(request.n)
    BY <2>1, RequestFields, FieldsTyped
  <2>3. Map!WriteRequest <=> \/ ~valid /\ Map!Refuse("value")
                             \/ valid /\ CoilsServed(request.n, request.bits)
    BY <2>1 DEF Map!WriteRequest, Map!WriteCoils, Map!Within, Map!Replaced, CoilsServed, Changed,
                Coil, Reg, RegOf
  <2>4. \/ ~valid /\ Refused("value")
        \/ valid /\ StoreCoils(request, request.n, request.bits)
    BY <1>2, <2>2 DEF WriteMultipleCoils
  <2>5. request.at + request.n <= NCoils => ZeroFilled(request.n, request.bits)
    <3>1. request.at + request.n <= NCoils => request.n <= NCoils
      BY <2>2
    <3> QED BY <2>2, <3>1, CoilsFilled
  <2> HIDE DEF valid
  <2>6. StoreCoils(request, request.n, request.bits) => CoilsServed(request.n, request.bits)
    BY <2>2, <2>5, StoreCoilsMapped
  <2> QED BY <2>3, <2>4, <2>6, AnswersMapped
<1> QED BY <1>1, <1>2

(* Stored words are the map with those registers replaced.                 *)
LEMMA RegistersReplaced ==
  ASSUME TypeOK, NEW at \in Addresses, NEW n \in Nat, NEW words,
         \A i \in 0..n - 1 : words[i] \in (0..Byte - 1) \X (0..Byte - 1),
         usSRegHoldBuf' = Stored(at, n, words)
  PROVE  Reg' = Changed(Reg, at, n, words)
<1>1. \A i \in 0..NRegs - 1 :
        Sent(usSRegHoldBuf'[i]) =
          IF at <= i /\ i < at + n THEN words[i - at] ELSE Sent(usSRegHoldBuf[i])
  BY StoredExactly
<1>2. Changed(Reg, at, n, words) =
        [i \in 0..NRegs - 1 |-> IF at <= i /\ i < at + n THEN words[i - at]
                                ELSE Sent(usSRegHoldBuf[i])]
  BY DEF Changed, Reg, RegOf
<1>3. Reg' = [i \in 0..NRegs - 1 |-> Sent(usSRegHoldBuf'[i])]
  BY DEF Reg, RegOf
<1> QED BY <1>1, <1>2, <1>3

LEMMA StoreRegistersMapped ==
  ASSUME TypeOK, request.at \in Addresses, NEW n \in Nat, NEW words,
         request.at + n <= NRegs =>
           \A i \in 0..n - 1 : words[i] \in (0..Byte - 1) \X (0..Byte - 1),
         StoreRegisters(request, n, words)
  PROVE  RegistersServed(n, words)
<1>1. InMap(request.at, n, NRegs) <=> request.at + n <= NRegs
  BY AddressExact DEF InMap
<1>2. CASE ~(request.at + n <= NRegs)
  BY <1>1, <1>2, AnswersMapped DEF StoreRegisters, RegistersServed
<1>3. CASE request.at + n <= NRegs
  <2>1. usSRegHoldBuf' = Stored(request.at, n, words) /\ Echo /\ UNCHANGED ucSCoilBuf
    BY <1>1, <1>3 DEF StoreRegisters
  <2>2. Reg' = Changed(Reg, request.at, n, words)
    BY <1>3, <2>1, RegistersReplaced
  <2> QED BY <1>3, <2>1, <2>2, AnswersMapped DEF RegistersServed
<1> QED BY <1>2, <1>3

(* The words of a write inside the map.                                    *)
LEMMA WordsTyped ==
  ASSUME NEW r \in Requests, r.fc \in {"FC16", "FC23"}, r.at + r.n <= NRegs
  PROVE  \A i \in 0..r.n - 1 : r.words[i] \in (0..Byte - 1) \X (0..Byte - 1)
<1>1. /\ r.fc \notin {"short", "FC17", "none"}
      /\ r.fc \in {"FC01", "FC02", "FC04", "FC15", "FC16", "FC23"}
  OBVIOUS
<1>2. r.words \in RegWords /\ r.at \in Addresses /\ r.n \in Counts
  <2>1. r.fc \in {"FC16", "FC23"} => r.words \in RegWords
    BY RequestFields, Zenon
  <2>2. r.fc \in {"FC01", "FC02", "FC04", "FC15", "FC16", "FC23"} => r.n \in Counts
    BY RequestFields, Zenon
  <2>3. r.fc \notin {"short", "FC17", "none"} => r.at \in Addresses
    BY RequestFields, Zenon
  <2> QED BY <1>1, <2>1, <2>2, <2>3, Zenon
<1>3. r.at \in Nat /\ r.n \in Nat
  BY <1>2, FieldsTyped
<1>4. SUFFICES ASSUME NEW i \in 0..r.n - 1
               PROVE  r.words[i] \in (0..Byte - 1) \X (0..Byte - 1)
  OBVIOUS
<1>5. i \in 0..NRegs - 1
  BY <1>3
<1>6. r.words[i] \in Words
  BY <1>2, <1>5 DEF RegWords
<1> QED BY <1>6, FieldsTyped

LEMMA WriteRegistersMapped ==
  ASSUME TypeOK, request \in Requests,
         WriteHoldingRegister(request) \/ WriteMultipleHoldingRegister(request)
  PROVE  Map!WriteRequest
<1>1. CASE WriteHoldingRegister(request)
  <2> DEFINE words == [i \in {0} |-> request.word]
  <2>1. request.fc = "FC06" /\ StoreRegisters(request, 1, words)
    BY <1>1 DEF WriteHoldingRegister
  <2>2. Map!WriteRequest <=> RegistersServed(1, words)
    BY <2>1 DEF Map!WriteRequest, Map!WriteRegs, Map!Within, Map!Replaced, RegistersServed,
                Changed, Coil, Reg, RegOf
  <2>3. request.at \in Addresses /\ request.word \in (0..Byte - 1) \X (0..Byte - 1)
    BY <2>1, RequestFields, FieldsTyped
  <2>4. \A i \in 0..1 - 1 : words[i] \in (0..Byte - 1) \X (0..Byte - 1)
    BY <2>3
  <2> HIDE DEF words
  <2> QED BY <2>1, <2>2, <2>3, <2>4, StoreRegistersMapped
<1>2. CASE WriteMultipleHoldingRegister(request)
  <2> DEFINE valid == request.fits /\ 1 <= request.n /\ request.n <= WRITE_REGCNT_MAX
  <2>1. request.fc = "FC16"
    BY <1>2 DEF WriteMultipleHoldingRegister
  <2>2. request.at \in Addresses /\ request.n \in Nat
    BY <2>1, RequestFields, FieldsTyped
  <2>3. Map!WriteRequest <=> \/ ~valid /\ Map!Refuse("value")
                             \/ valid /\ RegistersServed(request.n, request.words)
    BY <2>1 DEF Map!WriteRequest, Map!WriteRegs, Map!Within, Map!Replaced, RegistersServed,
                Changed, Coil, Reg, RegOf
  <2>4. \/ ~valid /\ Refused("value")
        \/ valid /\ StoreRegisters(request, request.n, request.words)
    BY <1>2, <2>2 DEF WriteMultipleHoldingRegister
  <2> HIDE DEF valid
  <2>5. StoreRegisters(request, request.n, request.words) =>
          RegistersServed(request.n, request.words)
    BY <2>1, <2>2, WordsTyped, StoreRegistersMapped
  <2> QED BY <2>3, <2>4, <2>5, AnswersMapped
<1> QED BY <1>1, <1>2

(* The read of FC23 sees the registers its write has left.                 *)
LEMMA ReadWriteMapped ==
  ASSUME TypeOK, request \in Requests, ReadWriteMultipleHoldingRegister(request)
  PROVE  Map!ReadWriteRequest
<1> DEFINE valid == /\ request.fits /\ 1 <= request.rn /\ request.rn <= READ_REGCNT_MAX
                    /\ 1 <= request.n /\ request.n <= WRITE_REGCNT_MAX + 1
           lands == request.at + request.n <= NRegs
           reads == request.rat + request.rn <= NRegs
<1>1. request.fc = "FC23"
  BY DEF ReadWriteMultipleHoldingRegister
<1>2. /\ request.at \in Addresses /\ request.n \in Nat
      /\ request.rat \in Addresses /\ request.rn \in Nat
  BY <1>1, RequestFields, FieldsTyped
<1>3. /\ InMap(request.at, request.n, NRegs) <=> lands
      /\ InMap(request.rat, request.rn, NRegs) <=> reads
  BY <1>2, AddressExact DEF InMap
<1>4. \/ ~valid /\ Refused("value")
      \/ valid /\ ~lands /\ Refused("address")
      \/ /\ valid /\ lands
         /\ usSRegHoldBuf' = Stored(request.at, request.n, request.words) /\ UNCHANGED ucSCoilBuf
         /\ IF reads THEN reply' = [data |-> RegistersFrom(usSRegHoldBuf', request.rat, request.rn)]
            ELSE reply' = [refused |-> "address"]
  BY <1>2, <1>3 DEF ReadWriteMultipleHoldingRegister
<1>5. Map!ReadWriteRequest <=>
        \/ ~valid /\ Map!Refuse("value")
        \/ valid /\ ~lands /\ Map!Refuse("address")
        \/ /\ valid /\ lands
           /\ Reg' = Changed(Reg, request.at, request.n, request.words) /\ Coil' = Coil
           /\ IF reads THEN reply' = [data |-> WordsFrom(Reg', request.rat, request.rn)]
              ELSE reply' = [refused |-> "address"]
  BY <1>1 DEF Map!ReadWriteRequest, Map!Within, Map!Replaced, Changed, WordsFrom, Coil, Reg, RegOf
<1> HIDE DEF valid
<1>6. ASSUME lands, usSRegHoldBuf' = Stored(request.at, request.n, request.words)
      PROVE  Reg' = Changed(Reg, request.at, request.n, request.words)
  BY <1>1, <1>2, <1>6, WordsTyped, RegistersReplaced
<1>7. reads => RegistersFrom(usSRegHoldBuf', request.rat, request.rn)
               = WordsFrom(Reg', request.rat, request.rn)
  BY <1>2, RegistersMapped DEF Reg
<1> HIDE DEF lands, reads
<1> QED BY <1>4, <1>5, <1>6, <1>7, AnswersMapped

LEMMA OthersMapped ==
  ASSUME request \in Requests,
         ReportSlaveID(request) \/ IllegalFunction(request) \/ WrongLength(request)
  PROVE  Map!OtherRequest
BY AnswersMapped
DEF ReportSlaveID, IllegalFunction, WrongLength, Refused, Told, Echo, memory, Coil, Reg, RegOf,
    Map!OtherRequest, Map!map, Map!Done

(* The packed coils and the registers are the map a master is promised:    *)
(* for every size of a byte, at every bit offset and for every count, each *)
(* function code answers and changes exactly what the map says             *)
(* (user_mb_app.c 57-211, mbfunccoils.c, mbfuncholding.c), for masters     *)
(* that fill up with zeros and read no more holding registers than a byte  *)
(* can count.                                                              *)
THEOREM RegistersAreMap ==
  ASSUME ZeroPadding, ByteCounts
  PROVE  Spec => IsRegisterMap
<1>1. Init => Map!Init
  <2> SUFFICES ASSUME Init PROVE Map!Init
    OBVIOUS
  <2>1. PICK other \in Bit :
          ucSCoilBuf = [i \in 0..NCoils + 2 * BITS_UCHAR - 1 |-> IF i < NCoils THEN 0 ELSE other]
    BY DEF Init
  <2>2. \A i \in 0..NCoils - 1 : ucSCoilBuf[i] = 0
    BY <2>1, SizesAssumption
  <2>3. \A b \in Nat \ {0} : 0 \div b = 0 /\ 0 % b = 0
    OBVIOUS
  <2>4. Sent(0) = <<0, 0>>
    BY <2>3, FrameAssumption DEF Sent
  <2>5. \A i \in 0..NRegs - 1 : Sent(usSRegHoldBuf[i]) = <<0, 0>>
    BY <2>4 DEF Init
  <2>6. [i \in 0..NCoils - 1 |-> ucSCoilBuf[i]] = [i \in 0..NCoils - 1 |-> 0]
    BY <2>2
  <2>7. [i \in 0..NRegs - 1 |-> Sent(usSRegHoldBuf[i])] = [i \in 0..NRegs - 1 |-> <<0, 0>>]
    BY <2>5
  <2> QED BY <2>6, <2>7 DEF Init, Map!Init
<1>2. TypeOK /\ [Next]_vars => [Map!Next]_<<Coil, Reg, request, reply>>
  <2> SUFFICES ASSUME TypeOK, [Next]_vars
               PROVE  Map!Next \/ UNCHANGED <<Coil, Reg, request, reply>>
    OBVIOUS
  <2>1. CASE Arrive
    BY <2>1, AnswersMapped, NoRequestAssumption
    DEF Arrive, memory, Map!Next, Map!Arrive, Map!map, Coil, Reg, RegOf
  <2>2. CASE Execute
    <3>1. request \in Requests /\ request # NoRequest /\ request' = NoRequest
      BY <2>2 DEF Execute, TypeOK
    <3>2. Map!ReadRequest \/ Map!WriteRequest \/ Map!ReadWriteRequest \/ Map!OtherRequest
      BY <2>2, <3>1, ReadCoilsMapped, ReadDiscreteInputsMapped, ReadHoldingRegisterMapped,
         ReadInputRegisterMapped, WriteCoilsMapped, WriteRegistersMapped, ReadWriteMapped,
         OthersMapped
      DEF Execute
    <3> QED BY <3>1, <3>2 DEF Map!Next, Map!Serve
  <2>3. CASE Reply
    BY <2>3, AnswersMapped DEF Reply, memory, Map!Next, Map!Send, Map!map, Coil, Reg, RegOf
  <2>4. CASE UNCHANGED vars
    BY <2>4, AnswersMapped DEF vars, memory
  <2> QED BY <2>1, <2>2, <2>3, <2>4 DEF Next
<1>3. [Map!Next]_<<Coil, Reg, request, reply>> <=>
        [Map!Next]_<<<<[i \in 0..NCoils - 1 |-> ucSCoilBuf[i]],
                       [i \in 0..NRegs - 1 |-> Sent(usSRegHoldBuf[i])]>>, request, reply>>
  BY DEF Coil, Reg, RegOf
<1> QED BY <1>1, <1>2, <1>3, TypeCorrect, PTL DEF Spec, IsRegisterMap, Map!Spec, Map!map
=============================================================================
