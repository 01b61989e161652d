---------------------------- MODULE SessionProofs ----------------------------
(***************************************************************************)
(* A node's connections to its trackers and the buffers that their bytes   *)
(* wait in, in two parts.                                                  *)
(*                                                                         *)
(* The buffer: what its operations do to the bytes not handled yet, for    *)
(* every buffer and every number of bytes, and that a buffer under any     *)
(* sequence of its operations is a queue of bytes (module ByteQueue).      *)
(*                                                                         *)
(* The session: SessionSound of TrackerSession, for any trackers, workers, *)
(* rooms and cuts.                                                         *)
(***************************************************************************)
EXTENDS TrackerSession, FiniteSetTheorems, SequenceTheorems, TLAPS


-----------------------------------------------------------------------------
(* The buffer.                                                             *)

Bytes == Seq(Byte)

-----------------------------------------------------------------------------
(* A part of a sequence, byte by byte.                                     *)
LEMMA PartOfSeq ==
  ASSUME NEW s \in Bytes, NEW l \in Nat, NEW r \in Nat, l <= r, r <= Len(s)
  PROVE  /\ SubSeq(s, l + 1, r) \in Bytes
         /\ Len(SubSeq(s, l + 1, r)) = r - l
         /\ \A i \in 1..(r - l) : SubSeq(s, l + 1, r)[i] = s[l + i]
<1>1. \A i \in (l + 1)..r : s[i] \in Byte
  BY ElementOfSeq, LenProperties DEF Bytes
<1>2. /\ SubSeq(s, l + 1, r) \in Seq(Byte)
      /\ Len(SubSeq(s, l + 1, r)) = IF l + 1 <= r THEN r - (l + 1) + 1 ELSE 0
      /\ \A i \in 1..(r - (l + 1) + 1) : SubSeq(s, l + 1, r)[i] = s[(l + 1) + i - 1]
  <2>1. l + 1 \in Int /\ r \in Int
    OBVIOUS
  <2> HIDE DEF Bytes
  <2> QED BY <1>1, <2>1, SubSeqProperties
<1>3. r - (l + 1) + 1 = r - l /\ (l + 1 <= r \/ r - l = 0)
  OBVIOUS
<1>4. ASSUME NEW i \in 1..(r - l) PROVE (l + 1) + i - 1 = l + i
  OBVIOUS
<1> QED BY <1>2, <1>3, <1>4 DEF Bytes

(* The same for the beginning of a sequence.                               *)
LEMMA PrefixOfSeq ==
  ASSUME NEW s \in Bytes, NEW r \in Nat, r <= Len(s)
  PROVE  /\ SubSeq(s, 1, r) \in Bytes
         /\ Len(SubSeq(s, 1, r)) = r
         /\ \A i \in 1..r : SubSeq(s, 1, r)[i] = s[i]
<1>1. /\ SubSeq(s, 0 + 1, r) \in Bytes
      /\ Len(SubSeq(s, 0 + 1, r)) = r - 0
      /\ \A i \in 1..(r - 0) : SubSeq(s, 0 + 1, r)[i] = s[0 + i]
  <2>1. 0 \in Nat /\ 0 <= r
    OBVIOUS
  <2> HIDE DEF Bytes
  <2> QED BY <2>1, PartOfSeq
<1>2. 0 + 1 = 1 /\ r - 0 = r /\ \A i \in 1..r : 0 + i = i
  OBVIOUS
<1> QED BY <1>1, <1>2

(* A buffer's positions, in order.                                         *)
LEMMA BufferParts ==
  ASSUME NEW b, IsBuffer(b)
  PROVE  /\ b.cells \in Bytes /\ Len(b.cells) \in Nat
         /\ b.LPos \in Nat /\ b.RPos \in Nat
         /\ b.LPos <= b.RPos /\ b.RPos <= Len(b.cells)
         /\ UnHandleBytes(b) = b.RPos - b.LPos /\ UnHandleBytes(b) \in Nat
         /\ FreeBytes(b) = Len(b.cells) - b.RPos /\ FreeBytes(b) \in Nat
<1>1. b.cells \in Bytes /\ b.LPos \in Nat /\ b.RPos \in Nat
      /\ b.LPos <= b.RPos /\ b.RPos <= Len(b.cells)
  BY DEF IsBuffer, Bytes
<1>2. Len(b.cells) \in Nat
  BY <1>1, LenProperties DEF Bytes
<1> QED BY <1>1, <1>2 DEF UnHandleBytes, FreeBytes

(* The bytes not handled yet, one by one.                                  *)
LEMMA UnhandledBytes ==
  ASSUME NEW b, IsBuffer(b)
  PROVE  /\ Unhandled(b) \in Bytes
         /\ Len(Unhandled(b)) = UnHandleBytes(b)
         /\ \A i \in 1..UnHandleBytes(b) : Unhandled(b)[i] = b.cells[b.LPos + i]
<1>1. /\ b.cells \in Bytes /\ b.LPos \in Nat /\ b.RPos \in Nat
      /\ b.LPos <= b.RPos /\ b.RPos <= Len(b.cells)
      /\ UnHandleBytes(b) = b.RPos - b.LPos
  BY BufferParts
<1>2. /\ Unhandled(b) \in Bytes
      /\ Len(Unhandled(b)) = b.RPos - b.LPos
      /\ \A i \in 1..(b.RPos - b.LPos) : Unhandled(b)[i] = b.cells[b.LPos + i]
  <2> HIDE DEF Bytes
  <2> QED BY <1>1, PartOfSeq DEF Unhandled
<1> QED BY <1>1, <1>2

-----------------------------------------------------------------------------
(* AddHandled takes bytes off the front.                                   *)
LEMMA AddHandledTakes ==
  ASSUME NEW b, IsBuffer(b), NEW len \in 0..UnHandleBytes(b)
  PROVE  /\ IsBuffer(AddHandled(b, len))
         /\ Unhandled(AddHandled(b, len))
              = SubSeq(Unhandled(b), len + 1, Len(Unhandled(b)))
<1> DEFINE a == AddHandled(b, len)
<1>1. /\ len \in Nat /\ b.LPos + len \in Nat /\ b.LPos + len <= b.RPos
      /\ a.cells = b.cells /\ a.LPos = b.LPos + len /\ a.RPos = b.RPos
      /\ a \in [cells : Bytes, LPos : Nat, RPos : Nat]
  BY BufferParts DEF AddHandled, IsBuffer, Bytes
<1>2. IsBuffer(a)
  BY <1>1, BufferParts DEF IsBuffer, Bytes
<1> DEFINE n == UnHandleBytes(b) - len
           rest == SubSeq(Unhandled(b), len + 1, Len(Unhandled(b)))
<1>3. UnHandleBytes(a) = n /\ n \in Nat
  <2>1. UnHandleBytes(a) = b.RPos - (b.LPos + len)
    BY <1>1 DEF UnHandleBytes
  <2>2. /\ b.LPos \in Nat /\ b.RPos \in Nat
        /\ UnHandleBytes(b) = b.RPos - b.LPos
    BY BufferParts
  <2>3. b.RPos - (b.LPos + len) = (b.RPos - b.LPos) - len
    BY <1>1, <2>2
  <2>4. (b.RPos - b.LPos) - len \in Nat
    BY <1>1, <2>2
  <2> HIDE DEF a
  <2> QED BY <2>1, <2>2, <2>3, <2>4
<1>4. /\ rest \in Bytes /\ Len(rest) = n
      /\ \A i \in 1..n : rest[i] = Unhandled(b)[len + i]
  <2> DEFINE u == Unhandled(b)
  <2>1. u \in Bytes /\ Len(u) = UnHandleBytes(b) /\ Len(u) \in Nat
    BY UnhandledBytes, BufferParts
  <2> HIDE DEF u
  <2>2. len \in Nat /\ len <= Len(u) /\ Len(u) - len = n
    BY <2>1, BufferParts
  <2>3. /\ SubSeq(u, len + 1, Len(u)) \in Bytes
        /\ Len(SubSeq(u, len + 1, Len(u))) = Len(u) - len
        /\ \A i \in 1..(Len(u) - len) : SubSeq(u, len + 1, Len(u))[i] = u[len + i]
    BY <2>1, <2>2, PartOfSeq
  <2>4. rest = SubSeq(u, len + 1, Len(u))
    BY DEF u
  <2> HIDE DEF rest, n
  <2> QED BY <2>2, <2>3, <2>4 DEF u
<1>5. /\ Unhandled(a) \in Bytes /\ Len(Unhandled(a)) = n
      /\ \A i \in 1..n : Unhandled(a)[i] = b.cells[b.LPos + len + i]
  <2> HIDE DEF a, n
  <2>1. /\ Unhandled(a) \in Bytes /\ Len(Unhandled(a)) = UnHandleBytes(a)
        /\ \A i \in 1..UnHandleBytes(a) : Unhandled(a)[i] = a.cells[a.LPos + i]
    BY <1>2, UnhandledBytes
  <2> QED BY <1>1, <1>3, <2>1
<1>6. \A i \in 1..n : Unhandled(b)[len + i] = b.cells[b.LPos + len + i]
  <2> SUFFICES ASSUME NEW i \in 1..n PROVE Unhandled(b)[len + i] = b.cells[b.LPos + len + i]
    OBVIOUS
  <2>1. len + i \in 1..UnHandleBytes(b) /\ b.LPos + (len + i) = b.LPos + len + i
    BY BufferParts
  <2> QED BY <2>1, UnhandledBytes
<1> HIDE DEF a, rest, n
<1>7. Unhandled(a) = rest
  BY <1>3, <1>4, <1>5, <1>6, SeqEqual DEF Bytes
<1> QED BY <1>2, <1>7 DEF a, rest

-----------------------------------------------------------------------------
(* HasWritten: what fits into the free cells is queued behind the rest.    *)
LEMMA HasWrittenPuts ==
  ASSUME NEW b, IsBuffer(b), NEW bytes \in Bytes, Len(bytes) <= FreeBytes(b)
  PROVE  /\ IsBuffer(HasWritten(b, bytes))
         /\ Unhandled(HasWritten(b, bytes)) = Unhandled(b) \o bytes
<1> DEFINE h == HasWritten(b, bytes)
           l == SubSeq(b.cells, 1, b.RPos)
           r == SubSeq(b.cells, b.RPos + Len(bytes) + 1, Len(b.cells))
           k == Len(bytes)
<1>1. k \in Nat /\ b.RPos + k \in Nat /\ b.RPos + k <= Len(b.cells)
  BY BufferParts, LenProperties DEF Bytes
<1>2. /\ l \in Bytes /\ Len(l) = b.RPos
      /\ \A i \in 1..b.RPos : l[i] = b.cells[i]
  BY BufferParts, PrefixOfSeq
<1>3. r \in Bytes /\ Len(r) = Len(b.cells) - (b.RPos + k)
  <2>1. b.cells \in Bytes /\ Len(b.cells) \in Nat
    BY BufferParts
  <2> DEFINE m == b.RPos + k
  <2> HIDE DEF m
  <2>2. m \in Nat /\ m <= Len(b.cells)
    BY <1>1 DEF m
  <2>3. /\ SubSeq(b.cells, m + 1, Len(b.cells)) \in Bytes
        /\ Len(SubSeq(b.cells, m + 1, Len(b.cells))) = Len(b.cells) - m
    BY <2>1, <2>2, PartOfSeq
  <2> QED BY <2>3 DEF m
<1>4. /\ l \o bytes \in Bytes /\ Len(l \o bytes) = b.RPos + k
      /\ \A i \in 1..(b.RPos + k) :
           (l \o bytes)[i] = IF i <= b.RPos THEN l[i] ELSE bytes[i - b.RPos]
  <2> HIDE DEF l, k
  <2>1. /\ l \o bytes \in Seq(Byte) /\ Len(l \o bytes) = Len(l) + Len(bytes)
        /\ \A i \in 1..(Len(l) + Len(bytes)) :
             (l \o bytes)[i] = IF i <= Len(l) THEN l[i] ELSE bytes[i - Len(l)]
    BY <1>2, ConcatProperties DEF Bytes
  <2>2. Len(l) = b.RPos /\ Len(bytes) = k
    BY <1>2 DEF k
  <2> QED BY <2>1, <2>2 DEF Bytes
<1>5. /\ Filled(b, bytes) \in Bytes /\ Len(Filled(b, bytes)) = Len(b.cells)
      /\ \A i \in 1..(b.RPos + k) :
           Filled(b, bytes)[i] = IF i <= b.RPos THEN b.cells[i] ELSE bytes[i - b.RPos]
  <2>1. Filled(b, bytes) = (l \o bytes) \o r
    BY DEF Filled
  <2> HIDE DEF l, r, k
  <2>2. /\ (l \o bytes) \o r \in Bytes
        /\ Len((l \o bytes) \o r) = Len(l \o bytes) + Len(r)
        /\ \A i \in 1..(Len(l \o bytes) + Len(r)) :
             ((l \o bytes) \o r)[i] = IF i <= Len(l \o bytes) THEN (l \o bytes)[i]
                                       ELSE r[i - Len(l \o bytes)]
    BY <1>3, <1>4, ConcatProperties DEF Bytes
  <2>3. Len(l \o bytes) + Len(r) = Len(b.cells)
    <3>1. Len(b.cells) \in Nat
      BY BufferParts
    <3>2. Len(l \o bytes) = b.RPos + k /\ Len(r) = Len(b.cells) - (b.RPos + k)
      BY <1>3, <1>4
    <3>3. ASSUME NEW m \in Nat, NEW n \in Nat PROVE m + (n - m) = n
      OBVIOUS
    <3> HIDE DEF k
    <3> QED BY <1>1, <3>1, <3>2, <3>3
  <2>4. ASSUME NEW i \in 1..(b.RPos + k)
        PROVE ((l \o bytes) \o r)[i] = IF i <= b.RPos THEN b.cells[i] ELSE bytes[i - b.RPos]
    <3>1. i \in 1..(Len(l \o bytes) + Len(r)) /\ i <= Len(l \o bytes)
      BY <1>1, <1>4, <2>3, BufferParts
    <3>2. ((l \o bytes) \o r)[i] = IF i <= b.RPos THEN l[i] ELSE bytes[i - b.RPos]
      BY <1>4, <2>2, <3>1
    <3>3. i <= b.RPos => i \in 1..b.RPos
      BY BufferParts
    <3> QED BY <1>2, <3>2, <3>3
  <2>5. \A i \in 1..(b.RPos + k) :
          ((l \o bytes) \o r)[i] = IF i <= b.RPos THEN b.cells[i] ELSE bytes[i - b.RPos]
    BY <2>4
  <2>6. Filled(b, bytes) \in Bytes /\ Len(Filled(b, bytes)) = Len(b.cells)
    BY <2>1, <2>2, <2>3
  <2>7. \A i \in 1..(b.RPos + k) :
          Filled(b, bytes)[i] = IF i <= b.RPos THEN b.cells[i] ELSE bytes[i - b.RPos]
    BY <1>1, <2>1, <2>5, BufferParts
  <2> QED BY <2>6, <2>7
<1>6. /\ h.cells = Filled(b, bytes) /\ h.LPos = b.LPos /\ h.RPos = b.RPos + k
      /\ h \in [cells : Bytes, LPos : Nat, RPos : Nat]
  BY <1>1, <1>5, BufferParts DEF HasWritten, IsBuffer, Bytes
<1>7. IsBuffer(h)
  BY <1>1, <1>5, <1>6, BufferParts DEF IsBuffer, Bytes
<1> DEFINE n == UnHandleBytes(b)
<1>8. n \in Nat /\ n = b.RPos - b.LPos /\ UnHandleBytes(h) = n + k
  BY <1>1, <1>6, BufferParts DEF UnHandleBytes
<1>9. /\ Unhandled(b) \o bytes \in Bytes /\ Len(Unhandled(b) \o bytes) = n + k
      /\ \A i \in 1..(n + k) :
           (Unhandled(b) \o bytes)[i] = IF i <= n THEN Unhandled(b)[i] ELSE bytes[i - n]
  <2>1. Unhandled(b) \in Bytes /\ Len(Unhandled(b)) = n
    BY UnhandledBytes
  <2> HIDE DEF n
  <2> QED BY <2>1, ConcatProperties DEF Bytes
<1>10. /\ Unhandled(h) \in Bytes /\ Len(Unhandled(h)) = n + k
       /\ \A i \in 1..(n + k) : Unhandled(h)[i] = Filled(b, bytes)[b.LPos + i]
  BY <1>6, <1>7, <1>8, UnhandledBytes
<1>11. ASSUME NEW i \in 1..(n + k)
       PROVE Filled(b, bytes)[b.LPos + i] = (Unhandled(b) \o bytes)[i]
  <2> HIDE DEF k, n
  <2>1. b.LPos \in Nat /\ b.RPos \in Nat /\ b.LPos <= b.RPos
        /\ n = b.RPos - b.LPos /\ k \in Nat /\ n \in Nat /\ i \in 1..(n + k)
    BY <1>1, <1>8, BufferParts
  <2>2. b.LPos + i \in 1..(b.RPos + k)
        /\ (i <= n => b.LPos + i <= b.RPos /\ i \in 1..n)
        /\ (~(i <= n) => ~(b.LPos + i <= b.RPos) /\ b.LPos + i - b.RPos = i - n)
    <3>1. i \in Nat /\ 1 <= i /\ i <= n + k /\ b.RPos = n + b.LPos
      BY <2>1
    <3>2. b.LPos + i \in 1..(b.RPos + k)
      BY <2>1, <3>1
    <3>3. i <= n => b.LPos + i <= b.RPos /\ i \in 1..n
      BY <2>1, <3>1
    <3>4. ~(i <= n) => ~(b.LPos + i <= b.RPos)
      BY <2>1, <3>1
    <3>5. b.LPos + i - b.RPos = i - n
      BY <2>1, <3>1
    <3> QED BY <3>2, <3>3, <3>4, <3>5
  <2> DEFINE j == b.LPos + i
  <2>4. /\ j <= b.RPos => Filled(b, bytes)[j] = b.cells[j]
        /\ ~(j <= b.RPos) => Filled(b, bytes)[j] = bytes[j - b.RPos]
    <3>1. j \in 1..(b.RPos + k)
      BY <2>2
    <3> HIDE DEF j
    <3> QED BY <1>5, <2>1, <3>1
  <2>3. i <= n => Unhandled(b)[i] = b.cells[b.LPos + i]
    BY <2>2, UnhandledBytes DEF n
  <2>5. (Unhandled(b) \o bytes)[i] = IF i <= n THEN Unhandled(b)[i] ELSE bytes[i - n]
    BY <1>9
  <2>6. CASE i <= n
    BY <2>1, <2>2, <2>3, <2>4, <2>5, <2>6
  <2>7. CASE ~(i <= n)
    <3>1. Filled(b, bytes)[j] = bytes[j - b.RPos]
      BY <2>2, <2>4, <2>7, Zenon
    <3>2. (Unhandled(b) \o bytes)[i] = bytes[i - n]
      BY <2>5, <2>7, Zenon
    <3>3. j - b.RPos = i - n
      BY <2>1
    <3> QED BY <3>1, <3>2, <3>3, Zenon
  <2> QED BY <2>6, <2>7
<1> HIDE DEF h, k, n
<1>12. Unhandled(h) = Unhandled(b) \o bytes
  BY <1>1, <1>8, <1>9, <1>10, <1>11, SeqEqual DEF Bytes
<1> QED BY <1>7, <1>12 DEF h

-----------------------------------------------------------------------------
(* MakeSpace_.                                                             *)

(* New cells hold bytes.                                                   *)
LEMMA ZerosAreBytes ==
  ASSUME NEW n \in Nat
  PROVE  Zeros(n) \in Bytes /\ Len(Zeros(n)) = n
<1>1. Zeros(n) \in [1..n -> Byte]
  BY ByteAssumption DEF Zeros
<1>2. Zeros(n) \in Bytes
  BY <1>1, SeqDef DEF Bytes
<1>3. Len(Zeros(n)) \in Nat /\ DOMAIN Zeros(n) = 1..Len(Zeros(n))
  BY <1>2, LenProperties DEF Bytes
<1>4. 1..n = 1..Len(Zeros(n))
  BY <1>1, <1>3
<1>5. Len(Zeros(n)) = n
  <2> DEFINE m == Len(Zeros(n))
  <2>1. m \in Nat /\ 1..n = 1..m
    BY <1>3, <1>4
  <2> HIDE DEF m
  <2>2. (m \in 1..n \/ m = 0) /\ (n \in 1..m \/ n = 0)
    BY <2>1
  <2>3. m = n
    BY <2>1, <2>2
  <2> QED BY <2>3 DEF m
<1> QED BY <1>2, <1>5

(* Growing keeps what is queued.                                           *)
LEMMA ResizedKeeps ==
  ASSUME NEW b, IsBuffer(b), NEW size \in Nat, size >= Len(b.cells)
  PROVE  /\ IsBuffer(Resized(b, size))
         /\ Unhandled(Resized(b, size)) = Unhandled(b)
         /\ FreeBytes(Resized(b, size)) = size - b.RPos
<1> DEFINE a == Resized(b, size)
           z == Zeros(size - Len(b.cells))
<1>1. z \in Bytes /\ Len(z) = size - Len(b.cells)
  <2>1. size - Len(b.cells) \in Nat
    BY BufferParts
  <2> QED BY <2>1, ZerosAreBytes, Zenon
<1>2. /\ b.cells \o z \in Bytes /\ Len(b.cells \o z) = size
      /\ \A i \in 1..Len(b.cells) : (b.cells \o z)[i] = b.cells[i]
  <2> HIDE DEF z
  <2>1. /\ b.cells \o z \in Bytes
        /\ Len(b.cells \o z) = Len(b.cells) + Len(z)
        /\ \A i \in 1..(Len(b.cells) + Len(z)) :
             (b.cells \o z)[i] = IF i <= Len(b.cells) THEN b.cells[i] ELSE z[i - Len(b.cells)]
    BY <1>1, BufferParts, ConcatProperties DEF Bytes
  <2>2. Len(b.cells) + Len(z) = size
    BY <1>1, BufferParts
  <2> QED BY <1>1, <2>1, <2>2, BufferParts
<1>3. /\ a.cells = b.cells \o z /\ a.LPos = b.LPos /\ a.RPos = b.RPos
      /\ a \in [cells : Bytes, LPos : Nat, RPos : Nat]
  BY <1>2, BufferParts DEF Resized, IsBuffer, Bytes
<1>4. IsBuffer(a)
  BY <1>2, <1>3, BufferParts DEF IsBuffer, Bytes
<1>5. UnHandleBytes(a) = UnHandleBytes(b) /\ FreeBytes(a) = size - b.RPos
  BY <1>2, <1>3 DEF UnHandleBytes, FreeBytes
<1> DEFINE n == UnHandleBytes(b)
<1>6. ASSUME NEW i \in 1..n
      PROVE Unhandled(a)[i] = Unhandled(b)[i]
  <2>1. b.LPos + i \in 1..Len(b.cells)
    BY BufferParts
  <2>2. Unhandled(a)[i] = (b.cells \o z)[b.LPos + i]
    <3> HIDE DEF a, z, n
    <3>1. \A j \in 1..UnHandleBytes(a) : Unhandled(a)[j] = a.cells[a.LPos + j]
      BY <1>4, UnhandledBytes
    <3>2. UnHandleBytes(a) = n
      BY <1>5 DEF n
    <3> QED BY <1>3, <3>1, <3>2
  <2>3. (b.cells \o z)[b.LPos + i] = b.cells[b.LPos + i]
    BY <1>2, <2>1
  <2>4. Unhandled(b)[i] = b.cells[b.LPos + i]
    BY UnhandledBytes
  <2> QED BY <2>2, <2>3, <2>4
<1>7. Unhandled(a) = Unhandled(b)
  <2>1. /\ Unhandled(a) \in Bytes /\ Len(Unhandled(a)) = n
        /\ Unhandled(b) \in Bytes /\ Len(Unhandled(b)) = n
    BY <1>4, <1>5, UnhandledBytes
  <2> HIDE DEF a, n
  <2> QED BY <1>6, <2>1, SeqEqual DEF Bytes
<1> QED BY <1>4, <1>5, <1>7

(* Moving to the front keeps what is queued, and frees the handled cells.  *)
LEMMA MovedToFrontKeeps ==
  ASSUME NEW b, IsBuffer(b)
  PROVE  /\ IsBuffer(MovedToFront(b))
         /\ Unhandled(MovedToFront(b)) = Unhandled(b)
         /\ FreeBytes(MovedToFront(b)) = FreeBytes(b) + b.LPos
<1> DEFINE a == MovedToFront(b)
           n == UnHandleBytes(b)
           r == SubSeq(b.cells, n + 1, Len(b.cells))
<1>1. n \in Nat /\ n = b.RPos - b.LPos /\ n <= Len(b.cells)
  BY BufferParts
<1>2. r \in Bytes /\ Len(r) = Len(b.cells) - n
  BY <1>1, BufferParts, PartOfSeq
<1> HIDE DEF r, n
<1>3. /\ Unhandled(b) \o r \in Bytes /\ Len(Unhandled(b) \o r) = Len(b.cells)
      /\ \A i \in 1..n : (Unhandled(b) \o r)[i] = Unhandled(b)[i]
  <2>1. Unhandled(b) \in Bytes /\ Len(Unhandled(b)) = n
    BY UnhandledBytes DEF n
  <2>2. /\ Unhandled(b) \o r \in Bytes
        /\ Len(Unhandled(b) \o r) = n + Len(r)
        /\ \A i \in 1..(n + Len(r)) :
             (Unhandled(b) \o r)[i] = IF i <= n THEN Unhandled(b)[i] ELSE r[i - n]
    BY <1>2, <2>1, ConcatProperties DEF Bytes
  <2>3. n + Len(r) = Len(b.cells)
    BY <1>1, <1>2, BufferParts
  <2>4. ASSUME NEW i \in 1..n PROVE (Unhandled(b) \o r)[i] = Unhandled(b)[i]
    <3>1. i \in 1..(n + Len(r)) /\ i <= n
      BY <1>1, <2>3, BufferParts
    <3> QED BY <2>2, <3>1
  <2> QED BY <2>2, <2>3, <2>4
<1>4. /\ a.cells = Unhandled(b) \o r /\ a.LPos = 0 /\ a.RPos = n
      /\ a \in [cells : Bytes, LPos : Nat, RPos : Nat]
  BY <1>1, <1>3 DEF MovedToFront, r, n
<1>5. IsBuffer(a)
  BY <1>1, <1>3, <1>4, BufferParts DEF IsBuffer, Bytes
<1>6. UnHandleBytes(a) = n /\ FreeBytes(a) = FreeBytes(b) + b.LPos
  BY <1>1, <1>3, <1>4, BufferParts DEF UnHandleBytes, FreeBytes
<1>7. ASSUME NEW i \in 1..n PROVE Unhandled(a)[i] = Unhandled(b)[i]
  <2>1. Unhandled(a)[i] = a.cells[a.LPos + i]
    BY <1>5, <1>6, UnhandledBytes
  <2>2. a.LPos + i = i
    BY <1>1, <1>4
  <2> QED BY <1>3, <1>4, <2>1, <2>2
<1>8. Unhandled(a) = Unhandled(b)
  <2>1. /\ Unhandled(a) \in Bytes /\ Len(Unhandled(a)) = n
        /\ Unhandled(b) \in Bytes /\ Len(Unhandled(b)) = n
    BY <1>5, <1>6, UnhandledBytes DEF n
  <2> HIDE DEF a
  <2> QED BY <1>7, <2>1, SeqEqual DEF Bytes
<1> QED BY <1>5, <1>6, <1>8

-----------------------------------------------------------------------------
(* After EnsureFreeBytes there is room, which the code asserts, and what   *)
(* is queued is as it was.                                                 *)
THEOREM RoomIsMade ==
  ASSUME NEW b, IsBuffer(b), NEW len \in Nat
  PROVE  /\ IsBuffer(EnsureFreeBytes(b, len))
         /\ FreeBytes(EnsureFreeBytes(b, len)) >= len
         /\ Unhandled(EnsureFreeBytes(b, len)) = Unhandled(b)
<1>1. CASE FreeBytes(b) >= len
  BY <1>1, BufferParts DEF EnsureFreeBytes
<1>2. CASE FreeBytes(b) < len /\ FreeBytes(b) + b.LPos >= len
  <2>1. EnsureFreeBytes(b, len) = MovedToFront(b)
    BY <1>2, BufferParts DEF EnsureFreeBytes, MakeSpace
  <2>2. FreeBytes(b) + b.LPos >= len
    BY <1>2
  <2> QED BY <2>1, <2>2, MovedToFrontKeeps
<1>3. CASE FreeBytes(b) < len /\ FreeBytes(b) + b.LPos < len
  <2> DEFINE size == b.RPos + len + 1
  <2>1. EnsureFreeBytes(b, len) = Resized(b, size)
    BY <1>3, BufferParts DEF EnsureFreeBytes, MakeSpace
  <2>2. size \in Nat /\ size >= Len(b.cells) /\ size - b.RPos >= len
    BY <1>3, BufferParts
  <2> HIDE DEF size
  <2> QED BY <2>1, <2>2, ResizedKeeps
<1> QED BY <1>1, <1>2, <1>3, BufferParts

(* Append puts its bytes behind what is queued.                            *)
THEOREM AppendPuts ==
  ASSUME NEW b, IsBuffer(b), NEW bytes \in Bytes
  PROVE  /\ IsBuffer(AppendBytes(b, bytes))
         /\ Unhandled(AppendBytes(b, bytes)) = Unhandled(b) \o bytes
<1> DEFINE e == EnsureFreeBytes(b, Len(bytes))
<1>1. Len(bytes) \in Nat
  BY LenProperties DEF Bytes
<1>2. IsBuffer(e) /\ FreeBytes(e) >= Len(bytes) /\ Unhandled(e) = Unhandled(b)
  BY <1>1, RoomIsMade
<1>3. Len(bytes) <= FreeBytes(e)
  BY <1>1, <1>2, BufferParts
<1>4. AppendBytes(b, bytes) = HasWritten(e, bytes)
  BY DEF AppendBytes
<1> HIDE DEF e
<1> QED BY <1>2, <1>3, <1>4, HasWrittenPuts

(* So does ReadFd, wherever its bytes were split between the free cells    *)
(* and the array on the stack.                                             *)
THEOREM ReadFdPuts ==
  ASSUME NEW b, IsBuffer(b), NEW bytes \in Bytes
  PROVE  /\ IsBuffer(ReadFd(b, bytes))
         /\ Unhandled(ReadFd(b, bytes)) = Unhandled(b) \o bytes
<1> DEFINE w == FreeBytes(b)
<1>1. Len(bytes) \in Nat /\ w \in Nat
  BY BufferParts, LenProperties DEF Bytes
<1>2. CASE Len(bytes) <= w
  <2>1. ReadFd(b, bytes) = HasWritten(b, bytes)
    BY <1>2 DEF ReadFd
  <2> QED BY <1>2, <2>1, HasWrittenPuts
<1>3. CASE ~(Len(bytes) <= w)
  <2> DEFINE l == SubSeq(bytes, 1, w)
             r == SubSeq(bytes, w + 1, Len(bytes))
             h == HasWritten(b, l)
  <2>1. ReadFd(b, bytes) = AppendBytes(h, r)
    BY <1>3 DEF ReadFd
  <2>2. w <= Len(bytes)
    BY <1>1, <1>3
  <2> HIDE DEF w
  <2>3. l \in Bytes /\ Len(l) = w /\ r \in Bytes
    <3> DEFINE n == Len(bytes)
    <3>1. n \in Nat /\ w \in Nat /\ w <= n /\ n <= Len(bytes)
      BY <1>1, <2>2
    <3> HIDE DEF n, Bytes
    <3>2. l \in Bytes /\ Len(l) = w
      BY <3>1, PrefixOfSeq DEF n
    <3>3. SubSeq(bytes, w + 1, n) \in Bytes
      BY <3>1, PartOfSeq
    <3> QED BY <3>2, <3>3 DEF n
  <2>4. l \o r = bytes
    <3>1. /\ 1 \in 1..(Len(bytes) + 1) /\ w \in (1 - 1)..Len(bytes)
          /\ Len(bytes) \in w..Len(bytes)
      BY <1>1, <2>2
    <3>2. l \o r = SubSeq(bytes, 1, Len(bytes))
      BY <3>1, ConcatAdjacentSubSeq DEF Bytes
    <3> QED BY <3>2, SubSeqFull DEF Bytes
  <2>5. Len(l) <= FreeBytes(b)
    BY <1>1, <2>3 DEF w
  <2>6. IsBuffer(h) /\ Unhandled(h) = Unhandled(b) \o l
    <3> HIDE DEF l
    <3> QED BY <2>3, <2>5, HasWrittenPuts
  <2> HIDE DEF l, r, h
  <2>7. IsBuffer(AppendBytes(h, r)) /\ Unhandled(AppendBytes(h, r)) = Unhandled(h) \o r
    BY <2>3, <2>6, AppendPuts
  <2>8. (Unhandled(b) \o l) \o r = Unhandled(b) \o (l \o r)
    <3> DEFINE u == Unhandled(b)
    <3>1. u \in Seq(Byte) /\ l \in Seq(Byte) /\ r \in Seq(Byte)
      BY <2>3, UnhandledBytes DEF Bytes
    <3> HIDE DEF u
    <3>2. (u \o l) \o r = u \o (l \o r)
      BY <3>1, ConcatAssociative
    <3> QED BY <3>2 DEF u
  <2> QED BY <2>1, <2>4, <2>6, <2>7, <2>8
<1> QED BY <1>2, <1>3

-----------------------------------------------------------------------------
(* A buffer under any sequence of its operations.                          *)

VARIABLE buffer

BufferInit == \E initBufferSize \in Nat : buffer = NewBuffer(initBufferSize)

BufferAppends == \E bytes \in Bytes : buffer' = AppendBytes(buffer, bytes)
BufferReads == \E bytes \in Bytes : buffer' = ReadFd(buffer, bytes)
BufferHandles == \E len \in 0..UnHandleBytes(buffer) : buffer' = AddHandled(buffer, len)
BufferHandlesAll == buffer' = AddHandledAll(buffer)

BufferNext == BufferAppends \/ BufferReads \/ BufferHandles \/ BufferHandlesAll

BufferSpec == BufferInit /\ [][BufferNext]_buffer

Queue == INSTANCE ByteQueue WITH queue <- Unhandled(buffer)

(* The positions of a buffer stay in order and in its cells.               *)
BufferOK == IsBuffer(buffer)

(* A new buffer holds nothing.                                             *)
LEMMA NewBufferEmpty ==
  ASSUME NEW size \in Nat
  PROVE  IsBuffer(NewBuffer(size)) /\ Unhandled(NewBuffer(size)) = <<>>
<1> DEFINE b == NewBuffer(size)
<1>1. b.cells \in Bytes /\ b.LPos = 0 /\ b.RPos = 0 /\ Len(b.cells) = size
      /\ b \in [cells : Bytes, LPos : Nat, RPos : Nat]
  BY ZerosAreBytes DEF NewBuffer
<1>2. IsBuffer(b)
  BY <1>1 DEF IsBuffer, Bytes
<1>3. Unhandled(b) = <<>>
  <2>1. Unhandled(b) = SubSeq(b.cells, 0 + 1, 0)
    BY <1>1 DEF Unhandled
  <2>2. 0 + 1 \in Int /\ 0 \in Int /\ 0 < 0 + 1
    OBVIOUS
  <2> QED BY <2>1, <2>2, SubSeqEmpty
<1> QED BY <1>2, <1>3

(* The positions of a buffer stay in order and in its cells, whatever the  *)
(* code does with it: no operation reads or writes outside.                *)
THEOREM BufferSound == BufferSpec => []BufferOK
<1>1. BufferInit => BufferOK
  BY NewBufferEmpty DEF BufferInit, BufferOK
<1>2. BufferOK /\ [BufferNext]_buffer => BufferOK'
  <2> SUFFICES ASSUME BufferOK, [BufferNext]_buffer PROVE IsBuffer(buffer')
    BY DEF BufferOK
  <2>1. CASE BufferAppends
    BY <2>1, AppendPuts DEF BufferAppends, BufferOK
  <2>2. CASE BufferReads
    BY <2>2, ReadFdPuts DEF BufferReads, BufferOK
  <2>3. CASE BufferHandles
    BY <2>3, AddHandledTakes DEF BufferHandles, BufferOK
  <2>4. CASE BufferHandlesAll
    BY <2>4, BufferParts, NewBufferEmpty DEF BufferHandlesAll, AddHandledAll, BufferOK
  <2>5. CASE UNCHANGED buffer
    BY <2>5 DEF BufferOK
  <2> QED BY <2>1, <2>2, <2>3, <2>4, <2>5 DEF BufferNext
<1> QED BY <1>1, <1>2, PTL DEF BufferSpec

(* What is queued gains bytes at its end and loses them at its front.      *)
THEOREM BufferIsQueue == BufferSpec => Queue!Spec
<1>1. BufferInit => Queue!Init
  BY NewBufferEmpty, EmptySeq DEF BufferInit, Queue!Init
<1>2. BufferOK /\ [BufferNext]_buffer => [Queue!Next]_(Unhandled(buffer))
  <2> SUFFICES ASSUME BufferOK, [BufferNext]_buffer
      PROVE Queue!Next \/ Unhandled(buffer') = Unhandled(buffer)
    OBVIOUS
  <2> DEFINE q == Unhandled(buffer)
  <2>0. q \in Bytes
    BY UnhandledBytes DEF BufferOK
  <2>1. ASSUME NEW bytes \in Bytes, Unhandled(buffer') = q \o bytes PROVE Queue!Put
    <3>1. Len(q) \in Nat /\ Len(bytes) \in Nat
      BY <2>0, LenProperties DEF Bytes
    <3>2. /\ q \o bytes \in Bytes /\ Len(q \o bytes) = Len(q) + Len(bytes)
          /\ \A i \in 1..(Len(q) + Len(bytes)) :
               (q \o bytes)[i] = IF i <= Len(q) THEN q[i] ELSE bytes[i - Len(q)]
      <4> HIDE DEF q
      <4> QED BY <2>0, ConcatProperties DEF Bytes
    <3> DEFINE p == SubSeq(q \o bytes, 1, Len(q))
    <3> HIDE DEF q
    <3>3. /\ p \in Bytes /\ Len(p) = Len(q)
          /\ \A i \in 1..Len(q) : p[i] = (q \o bytes)[i]
      <4>1. Len(q) <= Len(q \o bytes)
        BY <3>1, <3>2
      <4> HIDE DEF Bytes
      <4> QED BY <3>1, <3>2, <4>1, PrefixOfSeq
    <3>4. ASSUME NEW i \in 1..Len(q) PROVE p[i] = q[i]
      <4>1. i \in 1..(Len(q) + Len(bytes)) /\ i <= Len(q)
        BY <3>1
      <4> QED BY <3>2, <3>3, <4>1
    <3>5. p = q
      <4> HIDE DEF p
      <4> QED BY <2>0, <3>3, <3>4, SeqEqual DEF Bytes
    <3>6. Len(Unhandled(buffer')) >= Len(q) /\ SubSeq(Unhandled(buffer'), 1, Len(q)) = q
      BY <2>1, <3>1, <3>2, <3>5
    <3> QED BY <3>6 DEF Queue!Put, q
  <2>2. ASSUME NEW n \in 0..Len(q), Unhandled(buffer') = SubSeq(q, n + 1, Len(q))
        PROVE Queue!Take
    BY <2>2 DEF Queue!Take
  <2>3. CASE BufferAppends
    <3>1. PICK bytes \in Bytes : buffer' = AppendBytes(buffer, bytes)
      BY <2>3 DEF BufferAppends
    <3> QED BY <2>1, <3>1, AppendPuts DEF BufferOK, Queue!Next
  <2>4. CASE BufferReads
    <3>1. PICK bytes \in Bytes : buffer' = ReadFd(buffer, bytes)
      BY <2>4 DEF BufferReads
    <3> QED BY <2>1, <3>1, ReadFdPuts DEF BufferOK, Queue!Next
  <2>5. CASE BufferHandles
    <3>1. PICK len \in 0..UnHandleBytes(buffer) : buffer' = AddHandled(buffer, len)
      BY <2>5 DEF BufferHandles
    <3>2. Unhandled(buffer') = SubSeq(q, len + 1, Len(q)) /\ len \in 0..Len(q)
      BY <3>1, AddHandledTakes, UnhandledBytes DEF BufferOK
    <3> QED BY <2>2, <3>2 DEF Queue!Next
  <2>6. CASE BufferHandlesAll
    <3>1. Unhandled(buffer') = <<>>
      BY <2>6, BufferParts, NewBufferEmpty DEF BufferHandlesAll, AddHandledAll, BufferOK
    <3>2. Len(q) \in Nat
      BY <2>0, LenProperties DEF Bytes
    <3>3. SubSeq(q, Len(q) + 1, Len(q)) = <<>>
      <4> DEFINE m == Len(q)
      <4>1. m + 1 \in Int /\ m \in Int /\ m < m + 1
        BY <3>2
      <4> HIDE DEF m
      <4>2. SubSeq(q, m + 1, m) = <<>>
        BY <4>1, SubSeqEmpty
      <4> QED BY <4>2 DEF m
    <3>4. Len(q) \in 0..Len(q)
      BY <3>2
    <3> QED BY <2>2, <3>1, <3>3, <3>4 DEF Queue!Next
  <2>7. CASE UNCHANGED buffer
    BY <2>7
  <2> QED BY <2>3, <2>4, <2>5, <2>6, <2>7 DEF BufferNext
<1> QED BY <1>1, <1>2, BufferSound, PTL DEF BufferSpec, Queue!Spec

-----------------------------------------------------------------------------
(* The session.                                                            *)

(* Below doubled, one worker at a time has written to a tracker and not    *)
(* moved LPos_ yet, and what it wrote is still in the buffer.              *)
OneWrites ==
  ~doubled => \A t \in Trackers, v, w \in Workers : Wrote(v, t) /\ Wrote(w, t) => v = w

TakenThere ==
  ~doubled => \A t \in Trackers : \A n \in Taken(t) : n \in 0..UnHandleBytes(sendBuff[t])

(* Below crossed, one worker at a time handles a connection; while it      *)
(* sends, nobody has armed or is about to arm the connection for output.   *)
OneEach == \A t \in Trackers, v, w \in Workers : Handles(v, t) /\ Handles(w, t) => v = w

Sends(w, t) == Handles(w, t) /\ worker[w].at \in {"write", "wrote"}

Reserved ==
  \A t \in Trackers, w \in Workers :
    Sends(w, t) => armed[t] # "out" /\ \A v \in Workers : ~Arms(v, t)

(* A connection is to be written to when it is armed for output, when a    *)
(* loop is about to arm it or has passed it on behalf of its own handler,  *)
(* and when its handler is at the write or returns to one.                 *)
Passed(w, t) ==
  /\ Handles(w, t) /\ worker[w].at \in {"append", "arm"}
  /\ \E p \in DOMAIN tracker : tracker[p] = t /\ p < worker[w].i

WillWrite(w, t) ==
  /\ Handles(w, t)
  /\ worker[w].at = "write" \/ (worker[w].at = "ret0" /\ worker[w].after = "out")

Due(w, t) == Arms(w, t) \/ Passed(w, t) \/ WillWrite(w, t)

(* There is something to send then, so no handler is sent away.            *)
SomethingToSend ==
  \A t \in Trackers :
    armed[t] = "out" \/ (\E w \in Workers : Due(w, t)) => UnHandleBytes(sendBuff[t]) > 0

Kept == (\A t \in Trackers : Open(t)) /\ \A w \in Workers : worker[w].at # "ret2"

InOrder == ~crossed => Kept /\ OneEach /\ Reserved /\ SomethingToSend

IInv == TypeOK /\ OneWrites /\ TakenThere /\ StreamIntact /\ InOrder

-----------------------------------------------------------------------------
(* Places and positions.                                                   *)

(* What a worker has at hand where it is.                                  *)
LEMMA PlaceFacts ==
  ASSUME NEW p \in Places
  PROVE  /\ p = Idle <=> p.at = "idle"
         /\ p # Idle => p.node \in Trackers
         /\ p.at \in {"append", "arm"} => p.i \in Nat \ {0}
         /\ p.at = "wrote" => p.len \in Nat
         /\ p.at = "ret0" => p.after \in {"in", "out"}
         /\ p.at \in {"idle", "read", "write", "ret2", "append", "arm", "wrote", "ret0"}
<1>1. CASE p = Idle
  BY <1>1 DEF Idle
<1>2. CASE p \in [at : {"read", "write", "ret2"}, node : Trackers]
  BY <1>2 DEF Idle
<1>3. CASE p \in [at : {"append", "arm"}, node : Trackers, i : Nat \ {0}]
  BY <1>3 DEF Idle
<1>4. CASE p \in [at : {"wrote"}, node : Trackers, len : Nat]
  BY <1>4 DEF Idle
<1>5. CASE p \in [at : {"ret0"}, node : Trackers, after : {"in", "out"}]
  BY <1>5 DEF Idle
<1>. QED
  BY <1>1, <1>2, <1>3, <1>4, <1>5 DEF Places

(* Places that the handlers go to.                                         *)
LEMMA PlacesMade ==
  ASSUME NEW t \in Trackers
  PROVE  /\ Idle \in Places
         /\ \A a \in {"read", "write", "ret2"} : [at |-> a, node |-> t] \in Places
         /\ \A a \in {"append", "arm"}, n \in Nat \ {0} :
              [at |-> a, node |-> t, i |-> n] \in Places
         /\ \A n \in Nat : [at |-> "wrote", node |-> t, len |-> n] \in Places
         /\ \A e \in {"in", "out"} : [at |-> "ret0", node |-> t, after |-> e] \in Places
BY DEF Places

(* A worker that goes somewhere, and the others.                           *)
LEMMA Gone ==
  ASSUME TypeOK, NEW w \in Workers, NEW p \in Places, Goes(w, p)
  PROVE  /\ worker' \in [Workers -> Places] /\ worker'[w] = p
         /\ \A v \in Workers : v # w => worker'[v] = worker[v]
BY DEF TypeOK, Goes

(* A place in a handler.                                                   *)
LEMMA AtPlace ==
  ASSUME TypeOK, NEW w \in Workers, NEW a, In(w, a), a # "idle"
  PROVE  /\ worker[w] \in Places /\ worker[w] # Idle /\ worker[w].at = a
         /\ worker[w].node \in Trackers /\ Open(worker[w].node) /\ ~doubled
         /\ Handles(w, worker[w].node)
         /\ \A t : Handles(w, t) => t = worker[w].node
<1>1. worker[w] \in Places
  BY DEF TypeOK
<1>2. worker[w] # Idle /\ worker[w].node \in Trackers
  BY <1>1, PlaceFacts DEF In
<1>. QED
  BY <1>1, <1>2 DEF In, Handles

(* The trackers in their order.                                            *)
LEMMA TrackerSeq ==
  ASSUME TypeOK
  PROVE  /\ Len(tracker) \in Nat /\ DOMAIN tracker = 1..Len(tracker)
         /\ \A i \in DOMAIN tracker : tracker[i] \in Trackers
BY LenProperties, ElementOfSeq DEF TypeOK

LEMMA MessagesAreBytes ==
  Message("NEW") \in Bytes /\ Message("CHG") \in Bytes
    /\ Len(Message("NEW")) = 2 /\ Len(Message("CHG")) = 2
BY SessionAssumption DEF Message, Bytes

-----------------------------------------------------------------------------
(* The stream.                                                             *)

(* A buffer without the first of its bytes.                                *)
LEMMA RestZero ==
  ASSUME NEW b, IsBuffer(b)
  PROVE  AddHandled(b, 0) = b /\ 0 \in 0..UnHandleBytes(b)
<1>1. b \in [cells : Seq(Byte), LPos : Nat, RPos : Nat]
  BY DEF IsBuffer
<1>2. b.LPos + 0 = b.LPos /\ UnHandleBytes(b) \in Nat
  BY BufferParts
<1>. QED
  BY <1>1, <1>2 DEF AddHandled

LEMMA RestAll ==
  ASSUME NEW b, IsBuffer(b)
  PROVE  /\ UnHandleBytes(b) \in 0..UnHandleBytes(b)
         /\ Unhandled(AddHandled(b, UnHandleBytes(b))) = <<>>
<1> DEFINE u == Unhandled(b)
           n == Len(u)
<1>1. n = UnHandleBytes(b) /\ n \in Nat
  BY UnhandledBytes, BufferParts
<1>2. n \in 0..UnHandleBytes(b)
  BY <1>1
<1>3. Unhandled(AddHandled(b, n)) = SubSeq(u, n + 1, n)
  BY <1>2, AddHandledTakes
<1>4. n + 1 \in Int /\ n \in Int /\ n < n + 1
  BY <1>1
<1> HIDE DEF n, u
<1>5. SubSeq(u, n + 1, n) = <<>>
  BY <1>4, SubSeqEmpty
<1>. QED
  BY <1>1, <1>2, <1>3, <1>5

LEMMA RestAgain ==
  ASSUME NEW b, IsBuffer(b), NEW n \in 0..UnHandleBytes(b)
  PROVE  AddHandled(AddHandled(b, n), 0) = AddHandled(b, n)
BY AddHandledTakes, RestZero

LEMMA RestAppended ==
  ASSUME NEW b, IsBuffer(b), NEW n \in 0..UnHandleBytes(b), NEW m \in Bytes
  PROVE  /\ n \in 0..UnHandleBytes(AppendBytes(b, m))
         /\ UnHandleBytes(AppendBytes(b, m)) = UnHandleBytes(b) + Len(m)
         /\ Unhandled(AddHandled(AppendBytes(b, m), n)) = Unhandled(AddHandled(b, n)) \o m
<1> DEFINE a == AppendBytes(b, m)
           u == Unhandled(b)
<1>1. IsBuffer(a) /\ Unhandled(a) = u \o m
  BY AppendPuts
<1>2. u \in Bytes /\ Len(u) \in Nat /\ Len(u) = UnHandleBytes(b) /\ Len(m) \in Nat
  BY UnhandledBytes, BufferParts, LenProperties DEF Bytes
<1>3. Len(Unhandled(a)) = UnHandleBytes(a)
  <2> HIDE DEF a
  <2> QED BY <1>1, UnhandledBytes
<1> HIDE DEF a, u
<1>4. /\ u \o m \in Bytes /\ Len(u \o m) = Len(u) + Len(m)
      /\ \A i \in 1..(Len(u) + Len(m)) :
           (u \o m)[i] = IF i <= Len(u) THEN u[i] ELSE m[i - Len(u)]
  BY <1>2, ConcatProperties DEF Bytes
<1>5. UnHandleBytes(a) = UnHandleBytes(b) + Len(m) /\ n \in 0..UnHandleBytes(a)
  BY <1>1, <1>2, <1>3, <1>4
<1> DEFINE r == SubSeq(u, n + 1, Len(u))
           s == SubSeq(u \o m, n + 1, Len(u \o m))
           k == Len(u) - n
<1>6. /\ n \in Nat /\ k \in Nat /\ n <= Len(u) /\ n <= Len(u \o m)
      /\ Len(u \o m) \in Nat /\ Len(u \o m) - n = k + Len(m)
  BY <1>2, <1>4
<1>7. r \in Bytes /\ Len(r) = k /\ \A i \in 1..k : r[i] = u[n + i]
  <2> HIDE DEF Bytes
  <2>. QED
    BY <1>2, <1>6, PartOfSeq
<1>8. /\ s \in Bytes /\ Len(s) = k + Len(m)
      /\ \A i \in 1..(k + Len(m)) : s[i] = (u \o m)[n + i]
  <2>1. /\ s \in Bytes /\ Len(s) = Len(u \o m) - n
        /\ \A i \in 1..(Len(u \o m) - n) : s[i] = (u \o m)[n + i]
    <3> DEFINE c == u \o m
               l == Len(c)
    <3>1. c \in Bytes /\ l \in Nat /\ n \in Nat /\ n <= l /\ l <= Len(c)
      BY <1>4, <1>6
    <3> HIDE DEF Bytes, c, l
    <3>2. /\ SubSeq(c, n + 1, l) \in Bytes /\ Len(SubSeq(c, n + 1, l)) = l - n
          /\ \A i \in 1..(l - n) : SubSeq(c, n + 1, l)[i] = c[n + i]
      BY <3>1, PartOfSeq
    <3>. QED
      BY <3>2 DEF c, l
  <2>. QED
    BY <2>1, <1>6
<1> HIDE DEF r, s
<1>9. /\ r \o m \in Bytes /\ Len(r \o m) = k + Len(m)
      /\ \A i \in 1..(k + Len(m)) : (r \o m)[i] = IF i <= k THEN r[i] ELSE m[i - k]
  <2>1. r \in Seq(Byte) /\ m \in Seq(Byte) /\ Len(r) = k
    BY <1>7 DEF Bytes
  <2> HIDE DEF k
  <2>. QED
    BY <2>1, ConcatProperties DEF Bytes
<1>10. ASSUME NEW i \in 1..(k + Len(m)) PROVE s[i] = (r \o m)[i]
  <2>1. n + i \in 1..(Len(u) + Len(m)) /\ i \in Nat /\ (n + i) - Len(u) = i - k
    BY <1>2, <1>6
  <2>2. CASE i <= k
    <3>1. i \in 1..k /\ n + i <= Len(u)
      BY <2>1, <2>2, <1>6, <1>2
    <3>. QED
      BY <2>1, <2>2, <3>1, <1>4, <1>7, <1>8, <1>9
  <2>3. CASE ~(i <= k)
    <3>1. ~(n + i <= Len(u))
      BY <2>1, <2>3, <1>6, <1>2
    <3>. QED
      BY <2>1, <2>3, <3>1, <1>4, <1>8, <1>9
  <2>. QED
    BY <2>2, <2>3
<1>11. s = r \o m
  BY <1>8, <1>9, <1>10, SeqEqual DEF Bytes
<1>12. Unhandled(AddHandled(b, n)) = r
  BY AddHandledTakes DEF r, u
<1>13. Unhandled(AddHandled(a, n)) = s
  BY <1>1, <1>5, AddHandledTakes DEF s
<1>. QED
  BY <1>5, <1>11, <1>12, <1>13 DEF a

(* A sequence cut in two.                                                  *)
LEMMA CutInTwo ==
  ASSUME NEW s \in Bytes, NEW n \in 0..Len(s)
  PROVE  /\ SubSeq(s, 1, n) \in Bytes /\ SubSeq(s, n + 1, Len(s)) \in Bytes
         /\ SubSeq(s, 1, n) \o SubSeq(s, n + 1, Len(s)) = s
<1>1. Len(s) \in Nat
  BY LenProperties DEF Bytes
<1>2. SubSeq(s, 1, n) \in Bytes
  <2> HIDE DEF Bytes
  <2>. QED
    BY <1>1, PrefixOfSeq
<1>3. SubSeq(s, n + 1, Len(s)) \in Bytes
  <2> DEFINE l == Len(s)
  <2>1. l \in Nat /\ n \in Nat /\ n <= l /\ l <= Len(s)
    BY <1>1
  <2> HIDE DEF Bytes, l
  <2>2. SubSeq(s, n + 1, l) \in Bytes
    BY <2>1, PartOfSeq
  <2>. QED
    BY <2>2 DEF l
<1>4. 1 \in 1..(Len(s) + 1) /\ n \in (1 - 1)..Len(s) /\ Len(s) \in n..Len(s)
  BY <1>1
<1>5. SubSeq(s, 1, n) \o SubSeq(s, n + 1, Len(s)) = SubSeq(s, 1, Len(s))
  BY <1>4, ConcatAdjacentSubSeq DEF Bytes
<1>6. SubSeq(s, 1, Len(s)) = s
  BY SubSeqFull DEF Bytes
<1>. QED
  BY <1>2, <1>3, <1>5, <1>6

(* What a system call has taken, while one worker at a time writes.        *)
LEMMA TakenNone ==
  ASSUME NEW t, \A w \in Workers : ~Wrote(w, t)
  PROVE  Taken(t) = {0}
BY DEF Taken

LEMMA TakenOne ==
  ASSUME OneWrites, ~doubled, NEW t \in Trackers, NEW w \in Workers, Wrote(w, t)
  PROVE  Taken(t) = {worker[w].len}
<1>1. {v \in Workers : Wrote(v, t)} = {w}
  BY DEF OneWrites
<1>. QED
  BY <1>1 DEF Taken

(* The buffers and the bytes of a session.                                 *)
LEMMA SessionBytes ==
  ASSUME TypeOK, NEW t \in Trackers
  PROVE  /\ IsBuffer(sendBuff[t]) /\ IsBuffer(recvBuff[t])
         /\ said[t] \in Bytes /\ handled[t] \in Bytes /\ link[t] \in Bytes
         /\ Unhandled(sendBuff[t]) \in Bytes /\ Unhandled(recvBuff[t]) \in Bytes
BY UnhandledBytes DEF TypeOK, Bytes

(* Most steps leave the bytes where they are.                              *)
LEMMA StreamKept ==
  ASSUME OneWrites, TakenThere, StreamIntact,
         UNCHANGED <<sendBuff, said, link, recvBuff, handled, doubled>>,
         \A w \in Workers, t \in Trackers :
           /\ Wrote(w, t)' <=> Wrote(w, t)
           /\ Wrote(w, t) => worker'[w].len = worker[w].len
  PROVE  OneWrites' /\ TakenThere' /\ StreamIntact'
<1>1. ASSUME NEW t \in Trackers PROVE Taken(t)' = Taken(t)
  <2>1. {v \in Workers : Wrote(v, t)'} = {v \in Workers : Wrote(v, t)}
    OBVIOUS
  <2>2. {worker'[w].len : w \in {v \in Workers : Wrote(v, t)'}}
          = {worker[w].len : w \in {v \in Workers : Wrote(v, t)}}
    BY <2>1
  <2>. QED
    BY <2>1, <2>2 DEF Taken
<1>2. OneWrites'
  BY DEF OneWrites
<1>3. TakenThere'
  BY <1>1 DEF TakenThere
<1>4. StreamIntact'
  BY <1>1 DEF StreamIntact
<1>. QED
  BY <1>2, <1>3, <1>4

-----------------------------------------------------------------------------
(* Steps of a worker.                                                      *)

(* What a worker that goes somewhere means to the connections.             *)
LEMMA Moves ==
  ASSUME TypeOK, NEW w \in Workers, NEW p \in Places, Goes(w, p), tracker' = tracker,
         NEW t \in Trackers
  PROVE  /\ \A v \in Workers \ {w} :
              /\ Handles(v, t)' <=> Handles(v, t)
              /\ Arms(v, t)' <=> Arms(v, t)
              /\ Sends(v, t)' <=> Sends(v, t)
              /\ Due(v, t)' <=> Due(v, t)
         /\ Handles(w, t)' <=> p # Idle /\ p.node = t
         /\ Arms(w, t)' <=> p.at = "arm" /\ p.i \in DOMAIN tracker /\ tracker[p.i] = t
         /\ Sends(w, t)' <=> p # Idle /\ p.node = t /\ p.at \in {"write", "wrote"}
         /\ Passed(w, t)' <=>
              /\ p # Idle /\ p.node = t /\ p.at \in {"append", "arm"}
              /\ \E q \in DOMAIN tracker : tracker[q] = t /\ q < p.i
         /\ WillWrite(w, t)' <=>
              /\ p # Idle /\ p.node = t
              /\ p.at = "write" \/ (p.at = "ret0" /\ p.after = "out")
<1>1. worker'[w] = p /\ \A v \in Workers : v # w => worker'[v] = worker[v]
  BY Gone
<1>2. ASSUME NEW v \in Workers \ {w}
      PROVE  /\ Handles(v, t)' <=> Handles(v, t)
             /\ Arms(v, t)' <=> Arms(v, t)
             /\ Sends(v, t)' <=> Sends(v, t)
             /\ Due(v, t)' <=> Due(v, t)
  <2>1. worker'[v] = worker[v]
    BY <1>1
  <2>2. Handles(v, t)' <=> Handles(v, t)
    BY <2>1 DEF Handles
  <2>3. Arms(v, t)' <=> Arms(v, t)
    BY <2>1 DEF Arms
  <2>4. Passed(v, t)' <=> Passed(v, t)
    BY <2>1, <2>2 DEF Passed
  <2>5. WillWrite(v, t)' <=> WillWrite(v, t)
    BY <2>1, <2>2 DEF WillWrite
  <2>. QED
    BY <2>1, <2>2, <2>3, <2>4, <2>5 DEF Sends, Due
<1>3. Handles(w, t)' <=> p # Idle /\ p.node = t
  BY <1>1 DEF Handles
<1>4. Arms(w, t)' <=> p.at = "arm" /\ p.i \in DOMAIN tracker /\ tracker[p.i] = t
  BY <1>1 DEF Arms
<1>5. Sends(w, t)' <=> p # Idle /\ p.node = t /\ p.at \in {"write", "wrote"}
  BY <1>1, <1>3 DEF Sends
<1>6. Passed(w, t)' <=>
        /\ p # Idle /\ p.node = t /\ p.at \in {"append", "arm"}
        /\ \E q \in DOMAIN tracker : tracker[q] = t /\ q < p.i
  BY <1>1, <1>3 DEF Passed
<1>7. WillWrite(w, t)' <=>
        /\ p # Idle /\ p.node = t
        /\ p.at = "write" \/ (p.at = "ret0" /\ p.after = "out")
  BY <1>1, <1>3 DEF WillWrite
<1>. QED
  BY <1>2, <1>3, <1>4, <1>5, <1>6, <1>7

(* A worker that comes from no system call and goes to none leaves what is *)
(* written and what is under way alone.                                    *)
LEMMA QuietMove ==
  ASSUME IInv, NEW w \in Workers, NEW p \in Places, Goes(w, p),
         worker[w].at # "wrote", p.at # "wrote",
         UNCHANGED <<sendBuff, said, link, recvBuff, handled, doubled>>
  PROVE  OneWrites' /\ TakenThere' /\ StreamIntact'
<1>1. /\ worker'[w] = p
      /\ \A v \in Workers : v # w => worker'[v] = worker[v]
  BY Gone DEF IInv
<1>2. ASSUME NEW v \in Workers, NEW t \in Trackers
      PROVE  /\ Wrote(v, t)' <=> Wrote(v, t)
             /\ Wrote(v, t) => worker'[v].len = worker[v].len
  BY <1>1 DEF Wrote, Handles
<1>. QED
  BY <1>2, StreamKept DEF IInv

(* While nobody else handles a connection, the handler is the only one.    *)
LEMMA HandlerAlone ==
  ASSUME OneEach, NEW t \in Trackers, NEW w \in Workers, Handles(w, t)
  PROVE  \A v \in Workers \ {w} : ~Handles(v, t) /\ ~Sends(v, t) /\ ~Passed(v, t)
                                  /\ ~WillWrite(v, t)
BY DEF OneEach, Sends, Passed, WillWrite

(* A step that leaves the node's side alone.                               *)
LEMMA NodeKept ==
  ASSUME IInv, UNCHANGED <<storage, crossed>>
  PROVE  InOrder'
<1>1. UNCHANGED <<tracker, sendBuff, armed, worker, crossed>>
  BY DEF storage
<1>2. (Kept' <=> Kept) /\ (OneEach' <=> OneEach)
  BY <1>1 DEF Kept, OneEach, Open, Handles
<1>3. Reserved' <=> Reserved
  BY <1>1 DEF Reserved, Sends, Handles, Arms
<1>4. \A v \in Workers, t \in Trackers : Due(v, t)' <=> Due(v, t)
  BY <1>1 DEF Due, Arms, Passed, WillWrite, Handles
<1>5. SomethingToSend' <=> SomethingToSend
  BY <1>1, <1>4 DEF SomethingToSend
<1>. QED
  BY <1>1, <1>2, <1>3, <1>5 DEF IInv, InOrder

LEMMA WritesKept ==
  ASSUME IInv, UNCHANGED <<storage, doubled>>
  PROVE  OneWrites' /\ TakenThere' /\ \A t \in Trackers : Taken(t)' = Taken(t)
<1>1. UNCHANGED <<sendBuff, worker, doubled>>
  BY DEF storage
<1>2. \A v \in Workers, t \in Trackers : Wrote(v, t)' <=> Wrote(v, t)
  BY <1>1 DEF Wrote, Handles
<1>3. ASSUME NEW t \in Trackers PROVE Taken(t)' = Taken(t)
  BY <1>1 DEF Taken, Wrote, Handles
<1>4. OneWrites'
  BY <1>1, <1>2 DEF IInv, OneWrites
<1>5. TakenThere'
  BY <1>1, <1>3 DEF IInv, TakenThere
<1>. QED
  BY <1>3, <1>4, <1>5

-----------------------------------------------------------------------------
LEMMA DispatchIInv ==
  ASSUME IInv, NEW t \in Trackers, NEW event \in {"in", "out"}, Dispatch(t, event)
  PROVE  IInv'
<1> DEFINE p == [at |-> IF event = "in" THEN "read" ELSE "write", node |-> t]
<1>1. PICK w \in Workers : worker[w] = Idle /\ Goes(w, p)
  BY DEF Dispatch, IdleWorkers
<1>2. /\ armed[t] = event /\ armed' = [armed EXCEPT ![t] = "none"]
      /\ crossed' = (crossed \/ \E v \in Workers : Handles(v, t) \/ Arms(v, t))
      /\ UNCHANGED <<tracker, sendBuff, said, link, answers, left, aborted, trackers, doubled>>
  BY DEF Dispatch
<1>3. /\ p \in Places /\ p # Idle /\ p.node = t /\ p.at = (IF event = "in" THEN "read" ELSE "write")
  BY DEF Places, Idle
<1> HIDE DEF p
<1>4. TypeOK
  BY DEF IInv
<1>5. worker' \in [Workers -> Places]
  BY <1>1, <1>3, <1>4, Gone
<1>6. TypeOK'
  BY <1>2, <1>4, <1>5 DEF TypeOK, trackers
<1>7. OneWrites' /\ TakenThere' /\ StreamIntact'
  BY <1>1, <1>2, <1>3, QuietMove DEF Idle, trackers
<1>8. InOrder'
  <2> SUFFICES ASSUME ~crossed' PROVE (Kept /\ OneEach /\ Reserved /\ SomethingToSend)'
    BY DEF InOrder
  <2>1. ~crossed /\ \A v \in Workers : ~Handles(v, t) /\ ~Arms(v, t)
    BY <1>2, <1>4 DEF TypeOK
  <2>2. Kept /\ OneEach /\ Reserved /\ SomethingToSend
    BY <2>1 DEF IInv, InOrder
  <2>3. Kept'
    BY <1>1, <1>2, <1>3, <1>4, <2>2, Gone DEF Kept, Open
  <2>4. OneEach'
    BY <1>1, <1>2, <1>3, <1>4, <2>1, <2>2, Moves DEF OneEach
  <2>5. ASSUME NEW u \in Trackers, NEW v \in Workers, Sends(v, u)'
        PROVE  (armed[u] # "out" /\ \A x \in Workers : ~Arms(x, u))'
    <3>1. \A x \in Workers : Arms(x, u)' => Arms(x, u)
      BY <1>1, <1>2, <1>3, <1>4, Moves
    <3>2. CASE u = t
      BY <1>2, <1>4, <2>1, <3>1, <3>2 DEF TypeOK
    <3>3. CASE u # t
      <4>1. Sends(v, u)
        BY <1>1, <1>2, <1>3, <1>4, <2>5, <3>3, Moves
      <4>. QED
        BY <1>2, <1>4, <2>2, <3>1, <3>3, <4>1 DEF Reserved, TypeOK
    <3>. QED
      BY <3>2, <3>3
  <2>6. ASSUME NEW u \in Trackers, (armed[u] = "out" \/ \E v \in Workers : Due(v, u))'
        PROVE  UnHandleBytes(sendBuff[u])' > 0
    <3>1. CASE (armed[u] = "out")'
      BY <1>2, <1>4, <2>2, <3>1 DEF SomethingToSend, TypeOK
    <3>2. CASE (\E v \in Workers : Due(v, u))'
      <4>1. PICK v \in Workers : Due(v, u)'
        BY <3>2
      <4>2. CASE v = w
        <5>1. u = t /\ event = "out"
          BY <1>1, <1>2, <1>3, <1>4, <4>1, <4>2, Moves DEF Due
        <5>. QED
          BY <1>2, <2>2, <5>1 DEF SomethingToSend
      <4>3. CASE v # w
        BY <1>1, <1>2, <1>3, <1>4, <2>2, <4>1, <4>3, Moves DEF SomethingToSend
      <4>. QED
        BY <4>2, <4>3
    <3>. QED
      BY <2>6, <3>1, <3>2
  <2>. QED
    BY <2>3, <2>4, <2>5, <2>6 DEF Reserved, SomethingToSend
<1>. QED
  BY <1>6, <1>7, <1>8 DEF IInv

(* A read ends the node, has the loop of SyncSelf begin or drops a verb.   *)
AfterRead(w, p) ==
  LET t == worker[w].node
  IN  \/ p = [at |-> "append", node |-> t, i |-> 1]
      \/ p = [at |-> "ret0", node |-> t, after |-> "in"] /\ ~Begins(t)

LEMMA ReadGoes ==
  ASSUME TypeOK, NEW w \in Workers, Read(w)
  PROVE  /\ answers' \in [Trackers -> Nat] /\ left' \in [Trackers -> Nat]
         /\ aborted' \in BOOLEAN
         /\ \A x \in Trackers : x # worker[w].node => answers'[x] = answers[x]
         /\ \/ worker' = worker /\ aborted'
            \/ \E p \in Places : Goes(w, p) /\ AfterRead(w, p) /\ aborted' = aborted
<1> DEFINE t == worker[w].node
<1>1. In(w, "read") /\ t \in Trackers
  <2>1. In(w, "read")
    BY DEF Read
  <2>. QED
    BY <2>1, AtPlace
<1>2. PICK n \in Arrived(t) :
        /\ Aborts(t, n) \/ TakesAnswer(w, t, n) \/ DropsVerb(w, t, n)
        /\ answers' = [answers EXCEPT ![t] = @ - n]
  BY DEF Read
<1> HIDE DEF t
<1>3. answers[t] \in Nat /\ left[t] \in Nat /\ n \in 1..answers[t]
  BY <1>1, <1>2 DEF TypeOK, Arrived
<1>4. answers' \in [Trackers -> Nat] /\ \A x \in Trackers : x # t => answers'[x] = answers[x]
  BY <1>1, <1>2, <1>3 DEF TypeOK
<1>5. CASE Aborts(t, n)
  BY <1>4, <1>5 DEF Aborts, TypeOK, t
<1>6. CASE TakesAnswer(w, t, n)
  <2>1. left' \in [Trackers -> Nat] /\ aborted' = aborted
    BY <1>1, <1>6 DEF TakesAnswer, TypeOK
  <2>2. Goes(w, [at |-> "append", node |-> t, i |-> 1])
    BY <1>6 DEF TakesAnswer
  <2>3. [at |-> "append", node |-> t, i |-> 1] \in Places
    <3>1. 1 \in Nat \ {0}
      OBVIOUS
    <3>. QED
      BY <1>1, <3>1, PlacesMade
  <2>. QED
    BY <1>4, <2>1, <2>2, <2>3 DEF AfterRead, TypeOK, t
<1>7. CASE DropsVerb(w, t, n)
  <2>1. left' \in [Trackers -> Nat] /\ aborted' = aborted
    BY <1>1, <1>3, <1>7 DEF DropsVerb, VerbLen, TypeOK
  <2>2. Goes(w, [at |-> "ret0", node |-> t, after |-> "in"]) /\ ~Begins(t)
    BY <1>7 DEF DropsVerb
  <2>3. [at |-> "ret0", node |-> t, after |-> "in"] \in Places
    BY <1>1, PlacesMade
  <2>. QED
    BY <1>4, <2>1, <2>2, <2>3 DEF AfterRead, TypeOK, t
<1>. QED
  BY <1>2, <1>5, <1>6, <1>7

LEMMA ReadIInv ==
  ASSUME IInv, NEW w \in Workers, Read(w)
  PROVE  IInv'
<1> DEFINE t == worker[w].node
<1>1. TypeOK /\ In(w, "read")
  BY DEF IInv, Read
<1>2. /\ worker[w] # Idle /\ worker[w].at = "read" /\ t \in Trackers
      /\ Handles(w, t) /\ \A u : Handles(w, u) => u = t
  BY <1>1, AtPlace
<1>3. UNCHANGED <<tracker, sendBuff, said, armed, link, trackers, crossed, doubled>>
  BY DEF Read
<1>4. /\ answers' \in [Trackers -> Nat] /\ left' \in [Trackers -> Nat] /\ aborted' \in BOOLEAN
      /\ worker' = worker \/ \E p \in Places : Goes(w, p) /\ AfterRead(w, p)
  BY <1>1, ReadGoes
<1> HIDE DEF t
<1>5. ASSUME worker' = worker PROVE IInv'
  <2>1. TypeOK'
    BY <1>1, <1>3, <1>4, <1>5 DEF TypeOK, trackers
  <2>2. UNCHANGED <<storage, link, recvBuff, handled, crossed, doubled>>
    BY <1>3, <1>5 DEF storage, trackers
  <2>3. OneWrites' /\ TakenThere' /\ \A x \in Trackers : Taken(x)' = Taken(x)
    BY <2>2, WritesKept
  <2>4. StreamIntact'
    BY <2>2, <2>3 DEF IInv, StreamIntact, storage
  <2>. QED
    BY <2>1, <2>2, <2>3, <2>4, NodeKept DEF IInv
<1> SUFFICES ASSUME NEW p \in Places, Goes(w, p), AfterRead(w, p)
             PROVE  IInv'
  BY <1>4, <1>5
<1>9. p # Idle /\ p.node = t /\ p.at \in {"append", "ret0"}
      /\ (p.at = "append" => p.i = 1) /\ (p.at = "ret0" => p.after = "in")
  BY DEF AfterRead, t, Idle
<1>6. TypeOK'
  <2>1. worker' \in [Workers -> Places]
    BY <1>1, Gone
  <2>. QED
    BY <1>1, <1>3, <1>4, <2>1 DEF TypeOK, trackers
<1>7. OneWrites' /\ TakenThere' /\ StreamIntact'
  BY <1>2, <1>3, <1>9, QuietMove DEF trackers
<1>8. InOrder'
  <2> SUFFICES ASSUME ~crossed' PROVE (Kept /\ OneEach /\ Reserved /\ SomethingToSend)'
    BY DEF InOrder
  <2>2. Kept /\ OneEach /\ Reserved /\ SomethingToSend
    BY <1>3 DEF IInv, InOrder
  <2>3. Kept'
    BY <1>1, <1>3, <1>9, <2>2, Gone DEF Kept, Open
  <2>4. OneEach'
    BY <1>1, <1>2, <1>3, <1>9, <2>2, Moves DEF OneEach
  <2>5. Reserved'
    BY <1>1, <1>3, <1>9, <2>2, Moves DEF Reserved
  <2>6. ASSUME NEW u \in Trackers, NEW v \in Workers, Due(v, u)' PROVE Due(v, u)
    <3>1. \A q \in DOMAIN tracker : ~(q < 1)
      BY <1>1, TrackerSeq
    <3>. QED
      BY <1>1, <1>3, <1>9, <2>6, <3>1, Moves DEF Due
  <2>7. SomethingToSend'
    BY <1>3, <2>2, <2>6 DEF SomethingToSend
  <2>. QED
    BY <2>3, <2>4, <2>5, <2>7
<1>. QED
  BY <1>6, <1>7, <1>8 DEF IInv

(* The loop of SyncSelf says CHG.                                          *)
LEMMA ReadySynSelfIInv ==
  ASSUME IInv, NEW w \in Workers, ReadySynSelf(w)
  PROVE  IInv'
<1> DEFINE t == worker[w].node
           i == worker[w].i
<1>1. TypeOK /\ In(w, "append")
  BY DEF IInv, ReadySynSelf
<1>2. /\ worker[w] \in Places /\ worker[w] # Idle /\ worker[w].at = "append"
      /\ t \in Trackers /\ ~doubled
      /\ Handles(w, t) /\ \A u : Handles(w, u) => u = t
  BY <1>1, AtPlace
<1>3. i \in Nat \ {0}
  BY <1>2, PlaceFacts
<1>4. UNCHANGED <<tracker, armed, link, answers, left, aborted, trackers, doubled>>
  BY DEF ReadySynSelf
<1>5. CASE i \in DOMAIN tracker
  <2> DEFINE u == tracker[i]
             p == [at |-> "arm", node |-> t, i |-> i]
             m == Message("CHG")
             b == AppendBytes(sendBuff[u], m)
  <2>1. /\ sendBuff' = [sendBuff EXCEPT ![u] = b]
        /\ said' = [said EXCEPT ![u] = @ \o m]
        /\ crossed' = (crossed \/ Crosses(w, u))
        /\ Goes(w, p)
    BY <1>5 DEF ReadySynSelf
  <2>2. u \in Trackers
    BY <1>1, <1>5, TrackerSeq
  <2>3. p \in Places /\ p # Idle /\ p.node = t /\ p.at = "arm" /\ p.i = i
    BY <1>2, <1>3 DEF Places, Idle
  <2>4. m \in Bytes /\ Len(m) = 2 /\ IsBuffer(sendBuff[u]) /\ IsBuffer(b)
    BY <1>1, <2>2, MessagesAreBytes, SessionBytes, AppendPuts
  <2>5. UnHandleBytes(b) = UnHandleBytes(sendBuff[u]) + 2 /\ UnHandleBytes(sendBuff[u]) \in Nat
    <3>1. UnHandleBytes(sendBuff[u]) \in Nat /\ 0 \in 0..UnHandleBytes(sendBuff[u])
      BY <2>4, BufferParts
    <3>. QED
      BY <2>4, <3>1, RestAppended
  <2>6. /\ DOMAIN sendBuff = Trackers /\ DOMAIN sendBuff' = Trackers
        /\ sendBuff'[u] = b /\ \A v \in Trackers : v # u => sendBuff'[v] = sendBuff[v]
    BY <1>1, <2>1, <2>2 DEF TypeOK
  <2>7. /\ said'[u] = said[u] \o m /\ \A v \in Trackers : v # u => said'[v] = said[v]
        /\ said' \in [Trackers -> Seq(Byte)]
    <3>1. said[u] \o m \in Seq(Byte)
      BY <1>1, <2>2, <2>4, SessionBytes, ConcatProperties DEF Bytes
    <3>. QED
      BY <1>1, <2>1, <2>2, <3>1 DEF TypeOK
  <2> HIDE DEF p, m, b, u, t, i
  <2>8. worker' \in [Workers -> Places]
    BY <1>1, <2>1, <2>3, Gone
  <2>9. TypeOK'
    <3>1. \A v \in Trackers : IsBuffer(sendBuff'[v])
      BY <1>1, <2>4, <2>6 DEF TypeOK
    <3>2. crossed' \in BOOLEAN
      BY <1>1, <2>1 DEF TypeOK, Crosses
    <3>. QED
      BY <1>1, <1>4, <2>6, <2>7, <2>8, <3>1, <3>2 DEF TypeOK, trackers
  <2>10. ASSUME NEW v \in Workers, NEW x \in Trackers
         PROVE  /\ Wrote(v, x)' <=> Wrote(v, x)
                /\ Wrote(v, x) => worker'[v].len = worker[v].len
    BY <1>1, <1>2, <2>1, <2>3, Gone DEF Wrote, Handles
  <2>11. ASSUME NEW x \in Trackers PROVE Taken(x)' = Taken(x)
    <3>1. {v \in Workers : Wrote(v, x)'} = {v \in Workers : Wrote(v, x)}
      BY <2>10
    <3>2. {worker'[v].len : v \in {y \in Workers : Wrote(y, x)'}}
            = {worker[v].len : v \in {y \in Workers : Wrote(y, x)}}
      BY <2>10, <3>1
    <3>. QED
      BY <3>1, <3>2 DEF Taken
  <2>12. OneWrites'
    BY <1>4, <2>10 DEF IInv, OneWrites
  <2>13. ASSUME NEW x \in Trackers, NEW n \in Taken(x)
         PROVE  /\ n \in 0..UnHandleBytes(sendBuff[x])
                /\ n \in 0..UnHandleBytes(sendBuff'[x])
                /\ said'[x] = handled[x] \o Unhandled(recvBuff[x]) \o link[x]
                                \o Unhandled(AddHandled(sendBuff'[x], n))
    <3>1. /\ n \in 0..UnHandleBytes(sendBuff[x])
          /\ said[x] = handled[x] \o Unhandled(recvBuff[x]) \o link[x]
                         \o Unhandled(AddHandled(sendBuff[x], n))
      BY <1>2, <2>13 DEF IInv, TakenThere, StreamIntact
    <3>2. CASE x # u
      BY <2>6, <2>7, <3>1, <3>2
    <3>3. CASE x = u
      <4> DEFINE way == handled[u] \o Unhandled(recvBuff[u]) \o link[u]
                 rest == Unhandled(AddHandled(sendBuff[u], n))
      <4>1. /\ n \in 0..UnHandleBytes(b)
            /\ Unhandled(AddHandled(b, n)) = rest \o m
        BY <2>4, <3>1, <3>3, RestAppended DEF b
      <4>2. way \in Bytes
        BY <1>1, <2>2, SessionBytes, ConcatProperties DEF Bytes
      <4>3. rest \in Bytes
        BY <2>4, <3>1, <3>3, AddHandledTakes, UnhandledBytes
      <4>4. said'[u] = (way \o rest) \o m
        BY <2>7, <3>1, <3>3
      <4> HIDE DEF way, rest
      <4>5. (way \o rest) \o m = way \o (rest \o m)
        BY <2>4, <4>2, <4>3, ConcatAssociative DEF Bytes
      <4>. QED
        BY <2>6, <3>1, <3>3, <4>1, <4>4, <4>5 DEF way, rest
    <3>. QED
      BY <3>2, <3>3
  <2>14. TakenThere'
    BY <1>4, <2>11, <2>13 DEF TakenThere
  <2>15. StreamIntact'
    BY <1>4, <2>11, <2>13 DEF StreamIntact, trackers
  <2>16. InOrder'
    <3> SUFFICES ASSUME ~crossed' PROVE (Kept /\ OneEach /\ Reserved /\ SomethingToSend)'
      BY DEF InOrder
    <3>1. ~crossed /\ \A v \in Workers \ {w} : ~Handles(v, u)
      BY <1>1, <2>1 DEF TypeOK, Crosses
    <3>2. Kept /\ OneEach /\ Reserved /\ SomethingToSend
      BY <3>1 DEF IInv, InOrder
    <3>3. Kept'
      BY <1>1, <1>4, <2>1, <2>3, <3>2, Gone DEF Kept, Open
    <3>4. OneEach'
      BY <1>1, <1>2, <1>4, <2>1, <2>3, <3>2, Moves DEF OneEach
    <3>5. ASSUME NEW x \in Trackers, NEW v \in Workers, Sends(v, x)'
          PROVE  (armed[x] # "out" /\ \A y \in Workers : ~Arms(y, x))'
      <4>1. v # w /\ Sends(v, x)
        BY <1>1, <1>4, <2>1, <2>3, <3>5, Moves
      <4>2. x # u
        BY <3>1, <4>1 DEF Sends
      <4>3. ASSUME NEW y \in Workers, Arms(y, x)' PROVE Arms(y, x)
        BY <1>1, <1>4, <2>1, <2>3, <4>2, <4>3, Moves DEF u
      <4>. QED
        BY <1>4, <3>2, <4>1, <4>3 DEF Reserved
    <3>6. ASSUME NEW x \in Trackers, (armed[x] = "out" \/ \E v \in Workers : Due(v, x))'
          PROVE  UnHandleBytes(sendBuff'[x]) > 0
      <4>1. CASE x = u
        BY <2>5, <2>6, <4>1
      <4>2. CASE x # u
        <5>1. ASSUME NEW v \in Workers, Due(v, x)' PROVE Due(v, x)
          <6>1. CASE v # w
            BY <1>1, <1>4, <2>1, <2>3, <5>1, <6>1, Moves
          <6>2. CASE v = w
            <7>1. Passed(w, x)'
              BY <1>1, <1>4, <2>1, <2>3, <4>2, <5>1, <6>2, Moves DEF Due, u
            <7>2. t = x /\ \E q \in DOMAIN tracker : tracker[q] = x /\ q < i
              BY <1>1, <1>4, <2>1, <2>3, <7>1, Moves
            <7>. QED
              BY <1>2, <6>2, <7>2 DEF Due, Passed, i
          <6>. QED
            BY <6>1, <6>2
        <5>. QED
          BY <1>4, <2>6, <3>2, <3>6, <4>2, <5>1 DEF SomethingToSend
      <4>. QED
        BY <4>1, <4>2
    <3>7. SomethingToSend'
      BY <3>6 DEF SomethingToSend
    <3>. QED
      BY <3>3, <3>4, <3>5, <3>7 DEF Reserved
  <2>. QED
    BY <2>9, <2>12, <2>14, <2>15, <2>16 DEF IInv
<1>6. CASE i \notin DOMAIN tracker
  <2> DEFINE p == [at |-> "ret0", node |-> t, after |-> "out"]
  <2>1. Goes(w, p) /\ UNCHANGED <<sendBuff, said, crossed>>
    BY <1>6 DEF ReadySynSelf, AfterTranew
  <2>2. p \in Places /\ p # Idle /\ p.node = t /\ p.at = "ret0" /\ p.after = "out"
    BY <1>2 DEF Places, Idle
  <2> HIDE DEF p, t, i
  <2>3. worker' \in [Workers -> Places]
    BY <1>1, <2>1, <2>2, Gone
  <2>4. TypeOK'
    BY <1>1, <1>4, <2>1, <2>3 DEF TypeOK, trackers
  <2>5. OneWrites' /\ TakenThere' /\ StreamIntact'
    BY <1>2, <1>4, <2>1, <2>2, QuietMove DEF trackers
  <2>6. InOrder'
    <3> SUFFICES ASSUME ~crossed' PROVE (Kept /\ OneEach /\ Reserved /\ SomethingToSend)'
      BY DEF InOrder
    <3>2. Kept /\ OneEach /\ Reserved /\ SomethingToSend
      BY <2>1 DEF IInv, InOrder
    <3>3. Kept'
      BY <1>1, <1>4, <2>1, <2>2, <3>2, Gone DEF Kept, Open
    <3>4. OneEach'
      BY <1>1, <1>2, <1>4, <2>1, <2>2, <3>2, Moves DEF OneEach
    <3>5. Reserved'
      BY <1>1, <1>4, <2>1, <2>2, <3>2, Moves DEF Reserved
    <3>6. Passed(w, t)
      <4>1. PICK q \in DOMAIN tracker : tracker[q] = t
        BY <1>2, <3>2 DEF Kept, Open
      <4>2. q < i
        BY <1>1, <1>3, <1>6, <4>1, TrackerSeq
      <4>. QED
        BY <1>2, <4>1, <4>2 DEF Passed, i
    <3>7. ASSUME NEW x \in Trackers, NEW v \in Workers, Due(v, x)' PROVE Due(v, x)
      <4>1. CASE v = w
        BY <1>1, <1>4, <2>1, <2>2, <3>6, <3>7, <4>1, Moves DEF Due
      <4>2. CASE v # w
        BY <1>1, <1>4, <2>1, <2>2, <3>7, <4>2, Moves
      <4>. QED
        BY <4>1, <4>2
    <3>8. SomethingToSend'
      BY <1>4, <2>1, <3>2, <3>7 DEF SomethingToSend
    <3>. QED
      BY <3>3, <3>4, <3>5, <3>8
  <2>. QED
    BY <2>4, <2>5, <2>6 DEF IInv
<1>. QED
  BY <1>5, <1>6

(* The loop of SyncSelf arms the connection.                               *)
LEMMA ModFdIInv ==
  ASSUME IInv, NEW w \in Workers, ModFd(w)
  PROVE  IInv'
<1> DEFINE t == worker[w].node
           i == worker[w].i
           p == [at |-> "append", node |-> t, i |-> i + 1]
<1>1. TypeOK /\ In(w, "arm")
  BY DEF IInv, ModFd
<1>2. /\ worker[w] \in Places /\ worker[w] # Idle /\ worker[w].at = "arm"
      /\ t \in Trackers
      /\ Handles(w, t) /\ \A u : Handles(w, u) => u = t
  BY <1>1, AtPlace
<1>3. i \in Nat \ {0} /\ i + 1 \in Nat \ {0}
  <2>1. i \in Nat \ {0}
    BY <1>2, PlaceFacts
  <2>. QED
    BY <2>1
<1>4. /\ armed' = IF i \in DOMAIN tracker THEN [armed EXCEPT ![tracker[i]] = "out"] ELSE armed
      /\ crossed' = (crossed \/ (i \in DOMAIN tracker /\ Crosses(w, tracker[i])))
      /\ Goes(w, p)
      /\ UNCHANGED <<tracker, sendBuff, said, link, answers, left, aborted, trackers, doubled>>
  BY DEF ModFd
<1>5. p \in Places /\ p # Idle /\ p.node = t /\ p.at = "append" /\ p.i = i + 1
  BY <1>2, <1>3 DEF Places, Idle
<1> HIDE DEF p, t, i
<1>6. worker' \in [Workers -> Places]
  BY <1>1, <1>4, <1>5, Gone
<1>7. i \in DOMAIN tracker => tracker[i] \in Trackers
  BY <1>1, TrackerSeq
<1>8. \A x \in Trackers : armed'[x] = IF i \in DOMAIN tracker /\ tracker[i] = x THEN "out"
                                      ELSE armed[x]
  BY <1>1, <1>4, <1>7 DEF TypeOK
<1>9. TypeOK'
  <2>1. armed' \in [Trackers -> {"none", "in", "out"}]
    BY <1>1, <1>4, <1>7 DEF TypeOK
  <2>2. crossed' \in BOOLEAN
    BY <1>1, <1>4 DEF TypeOK, Crosses
  <2>. QED
    BY <1>1, <1>4, <1>6, <2>1, <2>2 DEF TypeOK, trackers
<1>10. OneWrites' /\ TakenThere' /\ StreamIntact'
  BY <1>2, <1>4, <1>5, QuietMove DEF trackers
<1>11. InOrder'
  <2> SUFFICES ASSUME ~crossed' PROVE (Kept /\ OneEach /\ Reserved /\ SomethingToSend)'
    BY DEF InOrder
  <2>1. ~crossed /\ (i \in DOMAIN tracker => \A v \in Workers \ {w} : ~Handles(v, tracker[i]))
    BY <1>1, <1>4 DEF TypeOK, Crosses
  <2>2. Kept /\ OneEach /\ Reserved /\ SomethingToSend
    BY <2>1 DEF IInv, InOrder
  <2>3. Kept'
    BY <1>1, <1>4, <1>5, <2>2, Gone DEF Kept, Open
  <2>4. OneEach'
    BY <1>1, <1>2, <1>4, <1>5, <2>2, Moves DEF OneEach
  <2>5. ASSUME NEW x \in Trackers, NEW v \in Workers, Sends(v, x)'
        PROVE  (armed[x] # "out" /\ \A y \in Workers : ~Arms(y, x))'
    <3>1. v # w /\ Sends(v, x)
      BY <1>1, <1>4, <1>5, <2>5, Moves
    <3>2. ~(i \in DOMAIN tracker /\ tracker[i] = x)
      BY <2>1, <3>1 DEF Sends
    <3>3. ASSUME NEW y \in Workers, Arms(y, x)' PROVE Arms(y, x)
      BY <1>1, <1>4, <1>5, <3>3, Moves
    <3>. QED
      BY <1>8, <2>2, <3>1, <3>2, <3>3 DEF Reserved
  <2>6. i \in DOMAIN tracker => Arms(w, tracker[i])
    BY <1>2 DEF Arms, i
  <2>7. ASSUME NEW x \in Trackers, (armed[x] = "out" \/ \E v \in Workers : Due(v, x))'
        PROVE  armed[x] = "out" \/ \E v \in Workers : Due(v, x)
    <3>1. CASE (armed[x] = "out")'
      BY <1>8, <2>6, <3>1 DEF Due
    <3>2. ASSUME NEW v \in Workers, Due(v, x)' PROVE Due(v, x)
      <4>1. CASE v # w
        BY <1>1, <1>4, <1>5, <3>2, <4>1, Moves
      <4>2. CASE v = w
        <5>1. Passed(w, x)'
          BY <1>1, <1>4, <1>5, <3>2, <4>2, Moves DEF Due
        <5>2. t = x /\ \E q \in DOMAIN tracker : tracker[q] = x /\ q < i + 1
          BY <1>1, <1>4, <1>5, <5>1, Moves
        <5>3. PICK q \in DOMAIN tracker : tracker[q] = x /\ q < i + 1
          BY <5>2
        <5>4. q = i \/ q < i
          BY <1>1, <1>3, <5>3, TrackerSeq
        <5>5. CASE q = i
          BY <2>6, <4>2, <5>3, <5>5 DEF Due
        <5>6. CASE q < i
          BY <1>2, <4>2, <5>2, <5>3, <5>6 DEF Due, Passed, i
        <5>. QED
          BY <5>4, <5>5, <5>6
      <4>. QED
        BY <4>1, <4>2
    <3>. QED
      BY <2>7, <3>1, <3>2
  <2>8. SomethingToSend'
    BY <1>4, <2>2, <2>7 DEF SomethingToSend
  <2>. QED
    BY <2>3, <2>4, <2>5, <2>8 DEF Reserved
<1>. QED
  BY <1>9, <1>10, <1>11 DEF IInv

(* The system call: the bytes are under way, LPos_ does not know yet.      *)
LEMMA WriteIInv ==
  ASSUME IInv, NEW w \in Workers, Write(w), NEW t, t = worker[w].node
  PROVE  IInv'
<1> DEFINE b == sendBuff[t]
           len == UnHandleBytes(b)
           full == b.LPos < b.RPos
           p == IF full THEN [at |-> "wrote", node |-> t, len |-> len]
                ELSE [at |-> "ret2", node |-> t]
<1>1. TypeOK /\ In(w, "write")
  BY DEF IInv, Write
<1>2. /\ worker[w] \in Places /\ worker[w] # Idle /\ worker[w].at = "write"
      /\ t \in Trackers /\ ~doubled
      /\ Handles(w, t) /\ \A u : Handles(w, u) => u = t
  BY <1>1, AtPlace
<1>3. IsBuffer(b) /\ len \in Nat /\ (full <=> len > 0)
  <2>1. IsBuffer(b)
    BY <1>1, <1>2, SessionBytes
  <2> HIDE DEF b
  <2>. QED
    BY <2>1, BufferParts
<1>4. /\ Goes(w, p)
      /\ doubled' = (doubled \/ \E v \in Workers \ {w} : Handles(v, t) /\ worker[v].at = "wrote")
      /\ UNCHANGED <<tracker, sendBuff, said, armed, answers, left, aborted, trackers, crossed>>
  BY DEF Write
<1>5. full => link' = [link EXCEPT ![t] = @ \o Unhandled(b)]
  BY DEF Write
<1>6. ~full => UNCHANGED link
  BY DEF Write
<1>7. /\ p \in Places /\ p # Idle /\ p.node = t
      /\ full => p.at = "wrote" /\ p.len = len
      /\ ~full => p.at = "ret2"
  <2> HIDE DEF full, len, b
  <2>. QED
    BY <1>2, <1>3 DEF Places, Idle
<1> HIDE DEF p, full, len, b
<1>8. worker' \in [Workers -> Places]
  BY <1>1, <1>4, <1>7, Gone
<1>9. TypeOK'
  <2>1. link' \in [Trackers -> Seq(Byte)]
    <3>1. link[t] \o Unhandled(b) \in Seq(Byte)
      BY <1>1, <1>2, SessionBytes, ConcatProperties DEF Bytes, b
    <3>. QED
      BY <1>1, <1>2, <1>5, <1>6, <3>1 DEF TypeOK
  <2>2. doubled' \in BOOLEAN
    BY <1>1, <1>4 DEF TypeOK
  <2>. QED
    BY <1>1, <1>4, <1>8, <2>1, <2>2 DEF TypeOK, trackers
<1>10. OneWrites' /\ TakenThere' /\ StreamIntact'
  <2>1. CASE doubled'
    BY <2>1 DEF OneWrites, TakenThere, StreamIntact
  <2>2. CASE ~doubled' /\ ~full
    <3>1. UNCHANGED <<sendBuff, said, link, recvBuff, handled, doubled>>
      BY <1>1, <1>2, <1>4, <1>6, <2>2 DEF trackers, TypeOK
    <3>. QED
      BY <1>2, <1>4, <1>7, <2>2, <3>1, QuietMove
  <2>3. CASE ~doubled' /\ full
    <3>1. \A v \in Workers \ {w} : ~Wrote(v, t)
      BY <1>4, <2>3 DEF Wrote
    <3>2. \A v \in Workers \ {w}, x \in Trackers : Wrote(v, x)' <=> Wrote(v, x)
      BY <1>1, <1>4, <1>7, Gone DEF Wrote, Handles
    <3>3. \A x \in Trackers : Wrote(w, x)' <=> x = t
      BY <1>1, <1>4, <1>7, <2>3, Gone DEF Wrote, Handles
    <3>4. \A x \in Trackers : ~Wrote(w, x)
      BY <1>2 DEF Wrote
    <3>5. OneWrites'
      BY <1>2, <3>1, <3>2, <3>3 DEF IInv, OneWrites
    <3>6. ASSUME NEW x \in Trackers, x # t PROVE Taken(x)' = Taken(x)
      <4>1. \A v \in Workers : Wrote(v, x)' <=> Wrote(v, x)
        BY <3>2, <3>3, <3>4, <3>6
      <4>2. \A v \in Workers : Wrote(v, x) => worker'[v] = worker[v]
        BY <1>1, <1>4, <1>7, <3>4, Gone
      <4>3. {v \in Workers : Wrote(v, x)'} = {v \in Workers : Wrote(v, x)}
        BY <4>1
      <4>4. {worker'[v].len : v \in {y \in Workers : Wrote(y, x)'}}
              = {worker[v].len : v \in {y \in Workers : Wrote(y, x)}}
        BY <4>2, <4>3
      <4>. QED
        BY <4>1, <4>4 DEF Taken
    <3>7. Taken(t) = {0}
      BY <3>1, <3>4, <1>2, TakenNone
    <3>8. Taken(t)' = {len}
      <4>1. worker'[w].len = len
        BY <1>1, <1>4, <1>7, <2>3, Gone
      <4>2. {v \in Workers : Wrote(v, t)'} = {w}
        BY <1>2, <3>1, <3>2, <3>3
      <4>. QED
        BY <4>1, <4>2 DEF Taken
    <3>9. TakenThere'
      <4>1. len \in 0..UnHandleBytes(sendBuff[t])
        BY <1>3, RestAll DEF len, b
      <4>. QED
        BY <1>2, <1>4, <3>6, <3>8, <4>1 DEF IInv, TakenThere
    <3>10. ASSUME NEW x \in Trackers, NEW n \in Taken(x)'
           PROVE said[x] = handled[x] \o Unhandled(recvBuff[x]) \o link'[x]
                             \o Unhandled(AddHandled(sendBuff[x], n))
      <4>1. CASE x # t
        <5>1. link'[x] = link[x]
          BY <1>1, <1>2, <1>5, <2>3, <4>1 DEF TypeOK
        <5>2. n \in Taken(x)
          BY <3>6, <3>10, <4>1
        <5>. QED
          BY <1>2, <5>1, <5>2 DEF IInv, StreamIntact
      <4>2. CASE x = t
        <5> DEFINE before == handled[t] \o Unhandled(recvBuff[t])
                   l == link[t]
                   u == Unhandled(b)
        <5>1. said[t] = (before \o l) \o u
          <6>1. 0 \in Taken(t) /\ AddHandled(b, 0) = b
            BY <1>3, <3>7, RestZero
          <6>. QED
            BY <1>2, <6>1 DEF IInv, StreamIntact, b
        <5>2. link'[t] = l \o u
          BY <1>1, <1>2, <1>5, <2>3 DEF TypeOK
        <5>3. n = len /\ Unhandled(AddHandled(b, n)) = <<>>
          BY <1>3, <3>8, <3>10, <4>2, RestAll DEF len
        <5>4. before \in Bytes /\ l \in Bytes /\ u \in Bytes
          BY <1>1, <1>2, SessionBytes, ConcatProperties DEF Bytes, b
        <5> HIDE DEF before, l, u
        <5>5. (before \o l) \o u = before \o (l \o u)
          BY <5>4, ConcatAssociative DEF Bytes
        <5>6. before \o (l \o u) \in Bytes
          <6>1. l \o u \in Bytes
            BY <5>4, ConcatProperties DEF Bytes
          <6>. QED
            BY <5>4, <6>1, ConcatProperties DEF Bytes
        <5>7. (before \o (l \o u)) \o <<>> = before \o (l \o u)
          BY <5>6, ConcatEmptySeq DEF Bytes
        <5>. QED
          BY <4>2, <5>1, <5>2, <5>3, <5>5, <5>7 DEF before, l, b
      <4>. QED
        BY <4>1, <4>2
    <3>11. StreamIntact'
      BY <1>4, <3>10 DEF StreamIntact, trackers
    <3>. QED
      BY <3>5, <3>9, <3>11
  <2>. QED
    BY <2>1, <2>2, <2>3
<1>11. InOrder'
  <2> SUFFICES ASSUME ~crossed' PROVE (Kept /\ OneEach /\ Reserved /\ SomethingToSend)'
    BY DEF InOrder
  <2>1. Kept /\ OneEach /\ Reserved /\ SomethingToSend
    BY <1>4 DEF IInv, InOrder
  <2>2. full
    <3>1. Due(w, t)
      BY <1>2 DEF Due, WillWrite
    <3>. QED
      BY <1>2, <1>3, <2>1, <3>1 DEF SomethingToSend, len, b
  <2>3. Kept'
    BY <1>1, <1>4, <1>7, <2>1, <2>2, Gone DEF Kept, Open
  <2>4. OneEach'
    BY <1>1, <1>2, <1>4, <1>7, <2>1, Moves DEF OneEach
  <2>5. ASSUME NEW x \in Trackers, NEW v \in Workers
        PROVE  /\ Sends(v, x)' => Sends(v, x)
               /\ Arms(v, x)' => Arms(v, x)
               /\ Due(v, x)' => Due(v, x)
    <3>1. CASE v # w
      BY <1>1, <1>4, <1>7, <3>1, Moves
    <3>2. CASE v = w
      <4>1. Sends(w, t)
        BY <1>2 DEF Sends
      <4>. QED
        BY <1>1, <1>4, <1>7, <2>2, <3>2, <4>1, Moves DEF Due
    <3>. QED
      BY <3>1, <3>2
  <2>6. Reserved' /\ SomethingToSend'
    BY <1>4, <2>1, <2>5 DEF Reserved, SomethingToSend
  <2>. QED
    BY <2>3, <2>4, <2>6
<1>. QED
  BY <1>9, <1>10, <1>11 DEF IInv

(* LPos_ moves past what was written.                                      *)
LEMMA AccountIInv ==
  ASSUME IInv, NEW w \in Workers, Account(w), NEW t, t = worker[w].node
  PROVE  IInv'
<1> DEFINE b == sendBuff[t]
           len == worker[w].len
           a == AddHandled(b, len)
           after == IF a.LPos = b.RPos THEN AfterAllWritten ELSE "out"
           p == [at |-> "ret0", node |-> t, after |-> after]
<1>1. TypeOK /\ In(w, "wrote")
  BY DEF IInv, Account
<1>2. /\ worker[w] \in Places /\ worker[w] # Idle /\ worker[w].at = "wrote"
      /\ t \in Trackers /\ ~doubled
      /\ Handles(w, t) /\ \A u : Handles(w, u) => u = t
  BY <1>1, AtPlace
<1>3. Wrote(w, t) /\ Taken(t) = {len}
  BY <1>2, TakenOne DEF Wrote, IInv
<1>4. IsBuffer(b) /\ len \in 0..UnHandleBytes(b)
  BY <1>1, <1>2, <1>3, SessionBytes DEF IInv, TakenThere
<1>5. IsBuffer(a) /\ a.LPos = b.LPos + len /\ a.RPos = b.RPos
  <2>1. IsBuffer(a)
    <3> HIDE DEF b, len
    <3>. QED
      BY <1>4, AddHandledTakes
  <2>2. b \in [cells : Seq(Byte), LPos : Nat, RPos : Nat]
    BY <1>4 DEF IsBuffer
  <2>. QED
    BY <2>1, <2>2 DEF AddHandled
<1>6. after = "out" => UnHandleBytes(a) > 0
  <2> HIDE DEF a, b
  <2>. QED
    BY <1>5, BufferParts DEF AfterAllWritten
<1>7. sendBuff' = [sendBuff EXCEPT ![t] = a]
  BY DEF Account
<1>8. /\ DOMAIN sendBuff' = Trackers
      /\ sendBuff'[t] = a /\ \A x \in Trackers : x # t => sendBuff'[x] = sendBuff[x]
  BY <1>1, <1>2, <1>7 DEF TypeOK
<1>9. /\ Goes(w, p)
      /\ UNCHANGED <<tracker, said, armed, link, answers, left, aborted, trackers, crossed, doubled>>
  BY <1>8 DEF Account
<1>10. p \in Places /\ p # Idle /\ p.node = t /\ p.at = "ret0" /\ p.after = after
  <2>1. after \in {"in", "out"}
    BY DEF AfterAllWritten
  <2> HIDE DEF after
  <2>. QED
    BY <1>2, <2>1 DEF Places, Idle
<1> HIDE DEF p, after, a, len, b
<1>11. worker' \in [Workers -> Places] /\ worker'[w] = p
       /\ \A v \in Workers : v # w => worker'[v] = worker[v]
  BY <1>1, <1>9, <1>10, Gone
<1>12. TypeOK'
  <2>1. \A x \in Trackers : IsBuffer(sendBuff'[x])
    BY <1>1, <1>5, <1>8 DEF TypeOK
  <2>. QED
    BY <1>1, <1>8, <1>9, <1>11, <2>1 DEF TypeOK, trackers
<1>13. /\ \A v \in Workers : ~Wrote(v, t)'
       /\ \A v \in Workers, x \in Trackers : x # t => (Wrote(v, x)' <=> Wrote(v, x))
       /\ \A v \in Workers, x \in Trackers : Wrote(v, x)' => v # w /\ Wrote(v, x)
  <2>1. \A v \in Workers \ {w}, x \in Trackers : Wrote(v, x)' <=> Wrote(v, x)
    BY <1>11 DEF Wrote, Handles
  <2>2. \A x \in Trackers : ~Wrote(w, x)'
    BY <1>10, <1>11 DEF Wrote
  <2>3. \A v \in Workers \ {w} : ~Wrote(v, t)
    BY <1>2, <1>3 DEF IInv, OneWrites
  <2>4. \A x \in Trackers : Wrote(w, x) => x = t
    BY <1>2 DEF Wrote
  <2>. QED
    BY <1>2, <2>1, <2>2, <2>3, <2>4
<1>14. OneWrites'
  BY <1>2, <1>13 DEF IInv, OneWrites
<1>15. Taken(t)' = {0}
  BY <1>13 DEF Taken
<1>16. ASSUME NEW x \in Trackers, x # t PROVE Taken(x)' = Taken(x)
  <2>1. {v \in Workers : Wrote(v, x)'} = {v \in Workers : Wrote(v, x)}
    BY <1>13, <1>16
  <2>2. \A v \in Workers : Wrote(v, x)' => worker'[v].len = worker[v].len
    BY <1>11, <1>13
  <2>3. {worker'[v].len : v \in {y \in Workers : Wrote(y, x)'}}
          = {worker[v].len : v \in {y \in Workers : Wrote(y, x)}}
    BY <2>1, <2>2
  <2>. QED
    BY <1>13, <1>16, <2>3 DEF Taken
<1>17. TakenThere'
  <2>1. 0 \in 0..UnHandleBytes(a)
    BY <1>5, RestZero
  <2>. QED
    BY <1>2, <1>8, <1>15, <1>16, <2>1 DEF IInv, TakenThere
<1>18. ASSUME NEW x \in Trackers, NEW n \in Taken(x)'
       PROVE  said[x] = handled[x] \o Unhandled(recvBuff[x]) \o link[x]
                          \o Unhandled(AddHandled(sendBuff'[x], n))
  <2>1. CASE x # t
    BY <1>2, <1>8, <1>16, <1>18, <2>1 DEF IInv, StreamIntact
  <2>2. CASE x = t
    <3>1. n = 0 /\ AddHandled(a, 0) = a
      BY <1>5, <1>15, <1>18, <2>2, RestZero
    <3>2. said[t] = handled[t] \o Unhandled(recvBuff[t]) \o link[t]
                      \o Unhandled(AddHandled(sendBuff[t], len))
      BY <1>2, <1>3 DEF IInv, StreamIntact
    <3>. QED
      BY <1>8, <2>2, <3>1, <3>2 DEF a, b
  <2>. QED
    BY <2>1, <2>2
<1>19. StreamIntact'
  BY <1>9, <1>18 DEF StreamIntact, trackers
<1>20. InOrder'
  <2> SUFFICES ASSUME ~crossed' PROVE (Kept /\ OneEach /\ Reserved /\ SomethingToSend)'
    BY DEF InOrder
  <2>1. Kept /\ OneEach /\ Reserved /\ SomethingToSend
    BY <1>9 DEF IInv, InOrder
  <2>2. Kept'
    BY <1>1, <1>9, <1>10, <2>1, Gone DEF Kept, Open
  <2>3. OneEach'
    BY <1>1, <1>2, <1>9, <1>10, <2>1, Moves DEF OneEach
  <2>4. ASSUME NEW x \in Trackers, NEW v \in Workers
        PROVE  /\ Sends(v, x)' => Sends(v, x)
               /\ Arms(v, x)' => Arms(v, x)
               /\ Due(v, x)' => (v # w /\ Due(v, x)) \/ (x = t /\ v = w /\ after = "out")
    <3>1. CASE v # w
      BY <1>1, <1>9, <1>10, <3>1, Moves
    <3>2. CASE v = w
      BY <1>1, <1>9, <1>10, <3>2, Moves DEF Due
    <3>. QED
      BY <3>1, <3>2
  <2>5. Reserved'
    BY <1>9, <2>1, <2>4 DEF Reserved
  <2>6. armed[t] # "out" /\ \A v \in Workers \ {w} : ~Due(v, t)
    <3>1. Sends(w, t)
      BY <1>2 DEF Sends
    <3>. QED
      BY <1>2, <2>1, <3>1, HandlerAlone DEF Reserved, Due
  <2>7. ASSUME NEW x \in Trackers, (armed[x] = "out" \/ \E v \in Workers : Due(v, x))'
        PROVE  UnHandleBytes(sendBuff'[x]) > 0
    <3>1. CASE x = t
      BY <1>2, <1>6, <1>8, <1>9, <2>4, <2>6, <2>7, <3>1
    <3>2. CASE x # t
      BY <1>8, <1>9, <2>1, <2>4, <2>7, <3>2 DEF SomethingToSend
    <3>. QED
      BY <3>1, <3>2
  <2>8. SomethingToSend'
    BY <2>7 DEF SomethingToSend
  <2>. QED
    BY <2>2, <2>3, <2>5, <2>8
<1>. QED
  BY <1>12, <1>14, <1>17, <1>19, <1>20 DEF IInv

(* The handler has returned.                                               *)
LEMMA RearmIInv ==
  ASSUME IInv, NEW w \in Workers, Rearm(w), NEW t, t = worker[w].node
  PROVE  IInv'
<1>1. TypeOK /\ In(w, "ret0")
  BY DEF IInv, Rearm
<1>2. /\ worker[w] \in Places /\ worker[w] # Idle /\ worker[w].at = "ret0"
      /\ t \in Trackers
      /\ Handles(w, t) /\ \A u : Handles(w, u) => u = t
  BY <1>1, AtPlace
<1>3. /\ armed' = [armed EXCEPT ![t] = worker[w].after] /\ Goes(w, Idle)
      /\ UNCHANGED <<tracker, sendBuff, said, link, answers, left, aborted, trackers, crossed, doubled>>
  BY DEF Rearm, Ends
<1>4. Idle \in Places /\ Idle.at = "idle"
  BY DEF Places, Idle
<1>5. worker[w].after \in {"in", "out"}
  BY <1>2, PlaceFacts
<1>6. worker' \in [Workers -> Places]
  BY <1>1, <1>3, <1>4, Gone
<1>7. TypeOK'
  BY <1>1, <1>3, <1>5, <1>6 DEF TypeOK, trackers
<1>8. OneWrites' /\ TakenThere' /\ StreamIntact'
  BY <1>2, <1>3, <1>4, QuietMove DEF trackers
<1>9. InOrder'
  <2> SUFFICES ASSUME ~crossed' PROVE (Kept /\ OneEach /\ Reserved /\ SomethingToSend)'
    BY DEF InOrder
  <2>1. Kept /\ OneEach /\ Reserved /\ SomethingToSend
    BY <1>3 DEF IInv, InOrder
  <2>2. Kept'
    BY <1>1, <1>3, <1>4, <2>1, Gone DEF Kept, Open
  <2>3. OneEach'
    BY <1>1, <1>2, <1>3, <1>4, <2>1, Moves DEF OneEach
  <2>4. ASSUME NEW x \in Trackers, NEW v \in Workers
        PROVE  /\ Sends(v, x)' => v # w /\ Sends(v, x)
               /\ Arms(v, x)' => Arms(v, x)
               /\ Due(v, x)' => Due(v, x)
    <3>1. CASE v # w
      BY <1>1, <1>3, <1>4, <3>1, Moves
    <3>2. CASE v = w
      BY <1>1, <1>3, <1>4, <3>2, Moves DEF Due
    <3>. QED
      BY <3>1, <3>2
  <2>5. \A x \in Trackers : x # t => armed'[x] = armed[x]
    BY <1>1, <1>3 DEF TypeOK
  <2>6. ASSUME NEW x \in Trackers, NEW v \in Workers, Sends(v, x)' PROVE x # t
    BY <1>2, <2>1, <2>4, <2>6, HandlerAlone
  <2>7. Reserved'
    BY <2>1, <2>4, <2>5, <2>6 DEF Reserved
  <2>8. armed'[t] = "out" => Due(w, t)
    BY <1>1, <1>2, <1>3 DEF TypeOK, Due, WillWrite
  <2>9. SomethingToSend'
    BY <1>3, <2>1, <2>4, <2>5, <2>8 DEF SomethingToSend
  <2>. QED
    BY <2>2, <2>3, <2>7, <2>9
<1>. QED
  BY <1>7, <1>8, <1>9 DEF IInv

(* A sequence without one of its elements.                                 *)
LEMMA RemovedOne ==
  ASSUME NEW S, NEW s \in Seq(S), IsInjective(s), NEW i \in DOMAIN s
  PROVE  RemoveAt(s, i) \in Seq(S) /\ IsInjective(RemoveAt(s, i))
<1> DEFINE n == Len(s)
           l == SubSeq(s, 1, i - 1)
           r == SubSeq(s, i + 1, n)
<1>1. n \in Nat /\ DOMAIN s = 1..n /\ i \in 1..n /\ \A j \in 1..n : s[j] \in S
  BY LenProperties, ElementOfSeq
<1> HIDE DEF n
<1>2. l \in Seq(S) /\ Len(l) = i - 1 /\ \A j \in 1..(i - 1) : l[j] = s[j]
  <2>1. 1 \in Int /\ i - 1 \in Int /\ (\A j \in 1..(i - 1) : s[j] \in S)
        /\ (i - 1) - 1 + 1 = i - 1 /\ \A j \in 1..(i - 1) : 1 + j - 1 = j
    BY <1>1
  <2>2. /\ l \in Seq(S) /\ Len(l) = IF 1 <= i - 1 THEN (i - 1) - 1 + 1 ELSE 0
        /\ \A j \in 1..((i - 1) - 1 + 1) : l[j] = s[1 + j - 1]
    BY <2>1, SubSeqProperties
  <2>. QED
    BY <1>1, <2>1, <2>2
<1>3. r \in Seq(S) /\ Len(r) = n - i /\ \A j \in 1..(n - i) : r[j] = s[i + j]
  <2>1. i + 1 \in Int /\ n \in Int /\ (\A j \in (i + 1)..n : s[j] \in S)
        /\ n - (i + 1) + 1 = n - i /\ \A j \in 1..(n - i) : (i + 1) + j - 1 = i + j
    BY <1>1
  <2>2. /\ r \in Seq(S) /\ Len(r) = IF i + 1 <= n THEN n - (i + 1) + 1 ELSE 0
        /\ \A j \in 1..(n - (i + 1) + 1) : r[j] = s[(i + 1) + j - 1]
    BY <2>1, SubSeqProperties
  <2>. QED
    BY <1>1, <2>1, <2>2
<1>4. RemoveAt(s, i) = l \o r
  BY DEF RemoveAt, n
<1> HIDE DEF l, r
<1>5. /\ l \o r \in Seq(S) /\ Len(l \o r) = (i - 1) + (n - i)
      /\ \A j \in 1..((i - 1) + (n - i)) :
           (l \o r)[j] = IF j <= i - 1 THEN l[j] ELSE r[j - (i - 1)]
  <2>1. /\ l \o r \in Seq(S) /\ Len(l \o r) = Len(l) + Len(r)
        /\ \A j \in 1..(Len(l) + Len(r)) :
             (l \o r)[j] = IF j <= Len(l) THEN l[j] ELSE r[j - Len(l)]
    BY <1>2, <1>3, ConcatProperties
  <2>. QED
    BY <1>2, <1>3, <2>1
<1>6. DOMAIN (l \o r) = 1..(n - 1) /\ (i - 1) + (n - i) = n - 1
  BY <1>1, <1>5, LenProperties
<1>7. ASSUME NEW j \in 1..(n - 1)
      PROVE  (l \o r)[j] = s[IF j <= i - 1 THEN j ELSE j + 1]
  <2>1. CASE j <= i - 1
    BY <1>1, <1>2, <1>5, <1>6, <2>1
  <2>2. CASE ~(j <= i - 1)
    <3>1. j - (i - 1) \in 1..(n - i) /\ i + (j - (i - 1)) = j + 1
      BY <1>1, <2>2
    <3>. QED
      BY <1>3, <1>5, <1>6, <2>2, <3>1
  <2>. QED
    BY <2>1, <2>2
<1>8. ASSUME NEW j \in 1..(n - 1), NEW k \in 1..(n - 1), (l \o r)[j] = (l \o r)[k]
      PROVE  j = k
  <2> DEFINE jj == IF j <= i - 1 THEN j ELSE j + 1
             kk == IF k <= i - 1 THEN k ELSE k + 1
  <2>1. jj \in 1..n /\ kk \in 1..n /\ (jj = kk => j = k)
    BY <1>1
  <2>2. s[jj] = s[kk]
    BY <1>7, <1>8
  <2> HIDE DEF jj, kk
  <2>. QED
    BY <1>1, <2>1, <2>2 DEF IsInjective
<1>. QED
  BY <1>4, <1>5, <1>6, <1>8 DEF IsInjective

(* The node hangs up, which a connection in order does not come to.        *)
LEMMA DealCloseIInv ==
  ASSUME IInv, NEW w \in Workers, DealClose(w), NEW t, t = worker[w].node
  PROVE  IInv'
<1>1. TypeOK /\ In(w, "ret2")
  BY DEF IInv, DealClose
<1>2. worker[w].at = "ret2" /\ t \in Trackers
  BY <1>1, AtPlace
<1>3. PICK i \in DOMAIN tracker : tracker' = RemoveAt(tracker, i)
  BY DEF DealClose
<1>4. /\ armed' = [armed EXCEPT ![t] = "none"] /\ Goes(w, Idle)
      /\ UNCHANGED <<sendBuff, said, link, answers, left, aborted, trackers, crossed, doubled>>
  BY DEF DealClose, Ends
<1>5. Idle \in Places /\ Idle.at = "idle"
  BY DEF Places, Idle
<1>6. worker' \in [Workers -> Places]
  BY <1>1, <1>4, <1>5, Gone
<1>7. TypeOK'
  <2>1. tracker' \in Seq(Trackers) /\ IsInjective(tracker')
    BY <1>1, <1>3, RemovedOne DEF TypeOK
  <2>. QED
    BY <1>1, <1>4, <1>6, <2>1 DEF TypeOK, trackers
<1>8. OneWrites' /\ TakenThere' /\ StreamIntact'
  BY <1>2, <1>4, <1>5, QuietMove DEF trackers
<1>9. InOrder'
  BY <1>2, <1>4 DEF IInv, InOrder, Kept
<1>. QED
  BY <1>7, <1>8, <1>9 DEF IInv

-----------------------------------------------------------------------------
(* Steps of a tracker.                                                     *)

(* They leave the node's side alone.                                       *)
LEMMA FourParts ==
  ASSUME NEW a \in Bytes, NEW b \in Bytes, NEW c \in Bytes, NEW d \in Bytes
  PROVE  (a \o b) \o (c \o d) = (a \o (b \o c)) \o d
<1> DEFINE ab == a \o b
<1>1. ab \in Seq(Byte) /\ c \in Seq(Byte) /\ d \in Seq(Byte)
  BY ConcatProperties DEF Bytes
<1>2. ab \o c = a \o (b \o c)
  BY ConcatAssociative DEF Bytes
<1> HIDE DEF ab
<1>3. (ab \o c) \o d = ab \o (c \o d)
  BY <1>1, ConcatAssociative
<1>. QED
  BY <1>2, <1>3 DEF ab

(* FourParts under a name.                                                 *)
Regroups(a, b, c, d) == (a \o b) \o (c \o d) = (a \o (b \o c)) \o d

LEMMA PartsRegroup ==
  ASSUME NEW a \in Bytes, NEW b \in Bytes, NEW c \in Bytes, NEW d \in Bytes
  PROVE  Regroups(a, b, c, d)
BY FourParts DEF Regroups

(* A read takes the front of what is under way; a line that has ended is   *)
(* taken off the buffer.                                                   *)
LEMMA TrackerReadsIInv ==
  ASSUME IInv, NEW t \in Trackers, TrackerReads(t)
  PROVE  IInv'
<1>1. TypeOK /\ ~doubled
  BY DEF IInv, TrackerReads
<1>2. PICK n \in Received(t) :
        /\ Deal(t, ReadFd(recvBuff[t], SubSeq(link[t], 1, n)))
        /\ link' = [link EXCEPT ![t] = SubSeq(@, n + 1, Len(@))]
  BY DEF TrackerReads
<1>3. UNCHANGED <<storage, answers, left, aborted, crossed, doubled>>
  BY DEF TrackerReads
<1> DEFINE new == SubSeq(link[t], 1, n)
           rest == SubSeq(link[t], n + 1, Len(link[t]))
           buff == ReadFd(recvBuff[t], new)
           old == Unhandled(recvBuff[t])
           bytes == Unhandled(buff)
           way == handled[t] \o old \o link[t]
<1>4. link[t] \in Bytes /\ handled[t] \in Bytes /\ old \in Bytes /\ IsBuffer(recvBuff[t])
  BY <1>1, SessionBytes
<1>5. n \in 0..Len(link[t])
  BY <1>4, LenProperties DEF Received, Bytes
<1>6. new \in Bytes /\ rest \in Bytes /\ new \o rest = link[t]
  BY <1>4, <1>5, CutInTwo
<1>7. link'[t] = rest /\ link' \in [Trackers -> Seq(Byte)]
      /\ \A x \in Trackers : x # t => link'[x] = link[x]
  BY <1>1, <1>2, <1>6 DEF TypeOK, Bytes
<1> HIDE DEF new, rest
<1>8. IsBuffer(buff) /\ bytes = old \o new
  BY <1>4, <1>6, ReadFdPuts
<1>9. bytes \in Bytes /\ Len(bytes) = UnHandleBytes(buff)
  <2> HIDE DEF buff
  <2>. QED
    BY <1>8, UnhandledBytes
<1>10. Deal(t, buff)
  BY <1>2 DEF new
<1>11. way = (handled[t] \o bytes) \o rest
  <2> DEFINE h == handled[t]
  <2>0. h \in Bytes /\ old \in Bytes /\ new \in Bytes /\ rest \in Bytes
    BY <1>4, <1>6
  <2>1. way = (h \o old) \o (new \o rest) /\ bytes = old \o new
    BY <1>6, <1>8
  <2> HIDE DEF h, old, way, bytes
  <2>2. (h \o old) \o (new \o rest) = (h \o (old \o new)) \o rest
    <3>1. Regroups(h, old, new, rest)
      BY <2>0, PartsRegroup
    <3>. QED
      BY <3>1 DEF Regroups
  <2>. QED
    BY <2>1, <2>2 DEF h
<1>12. /\ IsBuffer(recvBuff'[t]) /\ handled'[t] \in Bytes
       /\ DOMAIN recvBuff' = Trackers /\ handled' \in [Trackers -> Seq(Byte)]
       /\ \A x \in Trackers : x # t => handled'[x] = handled[x] /\ recvBuff'[x] = recvBuff[x]
       /\ serving' \in [Trackers -> {"in", "out", "closed"}]
       /\ Status' \in [Trackers -> {"unknown", "wait", "active", "gone"}]
       /\ handled'[t] \o Unhandled(recvBuff'[t]) = handled[t] \o bytes
  <2> HIDE DEF buff
  <2>1. CASE LineEnds(bytes) = {}
    <3>1. recvBuff' = [recvBuff EXCEPT ![t] = buff] /\ UNCHANGED <<serving, Status, handled>>
      BY <1>10, <2>1 DEF Deal
    <3>. QED
      BY <1>1, <1>4, <1>8, <3>1 DEF TypeOK
  <2>2. CASE LineEnds(bytes) # {}
    <3>1. PICK len \in LineEnds(bytes) :
            /\ recvBuff' = [recvBuff EXCEPT ![t] = AddHandled(buff, len)]
            /\ handled' = [handled EXCEPT ![t] = @ \o SubSeq(bytes, 1, len)]
            /\ Status' = [Status EXCEPT ![t] = StatusAfter(bytes[1])]
            /\ serving' = [serving EXCEPT ![t] = WaitsAfter(bytes[1])]
      BY <1>10, <2>2 DEF Deal
    <3>2. len \in 0..Len(bytes) /\ len \in 0..UnHandleBytes(buff)
      BY <1>9, LenProperties DEF LineEnds, Bytes
    <3> DEFINE line == SubSeq(bytes, 1, len)
               more == SubSeq(bytes, len + 1, Len(bytes))
               h == handled[t]
    <3>3. IsBuffer(AddHandled(buff, len)) /\ Unhandled(AddHandled(buff, len)) = more
      BY <1>8, <3>2, AddHandledTakes
    <3> HIDE DEF bytes
    <3>4. line \in Bytes /\ more \in Bytes /\ line \o more = bytes
      BY <1>9, <3>2, CutInTwo
    <3> HIDE DEF line, more, h
    <3>5. h \o line \in Bytes /\ (h \o line) \o more = h \o (line \o more)
      <4>1. h \in Seq(Byte) /\ line \in Seq(Byte) /\ more \in Seq(Byte)
        BY <1>4, <3>4 DEF h, Bytes
      <4>2. h \o line \in Bytes
        BY <4>1, ConcatProperties DEF Bytes
      <4>3. (h \o line) \o more = h \o (line \o more)
        BY <4>1, ConcatAssociative
      <4>. QED
        BY <4>2, <4>3
    <3>6. /\ DOMAIN recvBuff' = Trackers /\ recvBuff'[t] = AddHandled(buff, len)
          /\ \A x \in Trackers : x # t => recvBuff'[x] = recvBuff[x]
      BY <1>1, <3>1 DEF TypeOK
    <3>7. /\ handled' \in [Trackers -> Seq(Byte)] /\ handled'[t] = h \o line
          /\ \A x \in Trackers : x # t => handled'[x] = handled[x]
      BY <1>1, <3>1, <3>5 DEF TypeOK, line, h, Bytes
    <3>8. /\ serving' \in [Trackers -> {"in", "out", "closed"}]
          /\ Status' \in [Trackers -> {"unknown", "wait", "active", "gone"}]
      BY <1>1, <3>1 DEF TypeOK, StatusAfter, WaitsAfter
    <3>. QED
      BY <3>3, <3>4, <3>5, <3>6, <3>7, <3>8 DEF h
  <2>. QED
    BY <2>1, <2>2
<1> HIDE DEF buff, bytes
<1>13. TypeOK'
  BY <1>1, <1>3, <1>7, <1>12 DEF TypeOK, storage
<1>14. OneWrites' /\ TakenThere' /\ \A x \in Trackers : Taken(x)' = Taken(x)
  BY <1>3, WritesKept
<1>15. ASSUME NEW x \in Trackers
       PROVE  handled'[x] \o Unhandled(recvBuff'[x]) \o link'[x]
                = handled[x] \o Unhandled(recvBuff[x]) \o link[x]
  <2>1. CASE x # t
    BY <1>7, <1>12, <2>1
  <2>2. CASE x = t
    BY <1>7, <1>11, <1>12, <2>2
  <2>. QED
    BY <2>1, <2>2
<1>16. StreamIntact'
  BY <1>3, <1>14, <1>15 DEF IInv, StreamIntact, storage
<1>17. InOrder'
  BY <1>3, NodeKept
<1>. QED
  BY <1>13, <1>14, <1>16, <1>17 DEF IInv

(* The other steps leave the bytes alone.                                  *)
LEMMA TrackerSpeaksIInv ==
  ASSUME IInv, NEW t \in Trackers, TrackerWrites(t) \/ TrackerCloses(t)
  PROVE  IInv'
<1>1. UNCHANGED <<storage, link, left, aborted, recvBuff, handled, crossed, doubled>>
  BY DEF TrackerWrites, TrackerCloses
<1>2. TypeOK
  BY DEF IInv
<1>3. /\ answers' \in [Trackers -> Nat]
      /\ serving' \in [Trackers -> {"in", "out", "closed"}]
      /\ Status' \in [Trackers -> {"unknown", "wait", "active", "gone"}]
  <2>1. CASE TrackerWrites(t)
    BY <1>2, <2>1, SessionAssumption DEF TrackerWrites, TypeOK
  <2>2. CASE TrackerCloses(t)
    BY <1>2, <2>2 DEF TrackerCloses, TypeOK
  <2>. QED
    BY <2>1, <2>2
<1>4. TypeOK'
  BY <1>1, <1>2, <1>3 DEF TypeOK, storage
<1>5. OneWrites' /\ TakenThere' /\ \A x \in Trackers : Taken(x)' = Taken(x)
  BY <1>1, WritesKept
<1>6. StreamIntact'
  BY <1>1, <1>5 DEF IInv, StreamIntact, storage
<1>7. InOrder'
  BY <1>1, NodeKept
<1>. QED
  BY <1>4, <1>5, <1>6, <1>7 DEF IInv

-----------------------------------------------------------------------------
(* The configured order lists every tracker once.                          *)
LEMMA AllListed ==
  LET s == SetToSeq(Trackers)
  IN  /\ s \in Seq(Trackers) /\ IsInjective(s)
      /\ \A t \in Trackers : \E i \in DOMAIN s : s[i] = t
<1> DEFINE n == Cardinality(Trackers)
           s == SetToSeq(Trackers)
<1>1. IsFiniteSet(Trackers) /\ n \in Nat /\ ExistsBijection(1..n, Trackers)
  BY SessionAssumption, FS_CardinalityType
<1>2. \E f \in [1..n -> Trackers] : IsInjective(f)
  BY <1>1 DEF ExistsBijection, Bijection, Injection
<1>3. s \in [1..n -> Trackers] /\ IsInjective(s)
  BY <1>2 DEF SetToSeq
<1> HIDE DEF s
<1>4. s \in Injection(1..n, Trackers)
  BY <1>3 DEF Injection
<1>5. Cardinality(1..n) = n
  <2> HIDE DEF n
  <2>1. 1 \in Int /\ n \in Int
    BY <1>1
  <2>2. Cardinality(1..n) = IF 1 > n THEN 0 ELSE n - 1 + 1
    BY <2>1, FS_Interval
  <2>. QED
    BY <1>1, <2>2
<1>6. s \in Surjection(1..n, Trackers)
  BY <1>1, <1>4, <1>5, FS_Injection
<1>7. \A t \in Trackers : \E i \in DOMAIN s : s[i] = t
  BY <1>3, <1>6 DEF Surjection
<1>8. s \in Seq(Trackers)
  <2> HIDE DEF n
  <2>. QED
    BY <1>1, <1>3
<1>. QED
  BY <1>3, <1>7, <1>8 DEF s

LEMMA InitIInv == Init => IInv
<1> SUFFICES ASSUME Init PROVE IInv
  OBVIOUS
<1> DEFINE m == Message("NEW")
           b == AppendBytes(NewBuffer(SendRoom), m)
<1>1. /\ tracker \in Seq(Trackers) /\ IsInjective(tracker)
      /\ \A t \in Trackers : Open(t)
  BY AllListed DEF Init, Open
<1>2. m \in Bytes /\ Len(m) = 2
  BY MessagesAreBytes
<1>3. IsBuffer(NewBuffer(SendRoom)) /\ Unhandled(NewBuffer(SendRoom)) = <<>>
      /\ IsBuffer(NewBuffer(Room)) /\ Unhandled(NewBuffer(Room)) = <<>>
  BY SessionAssumption, NewBufferEmpty
<1>4. IsBuffer(b) /\ Unhandled(b) = m
  <2>1. IsBuffer(b) /\ Unhandled(b) = <<>> \o m
    BY <1>2, <1>3, AppendPuts
  <2> HIDE DEF m
  <2>. QED
    BY <1>2, <2>1, ConcatEmptySeq DEF Bytes
<1>5. UnHandleBytes(b) = 2 /\ AddHandled(b, 0) = b
  BY <1>2, <1>4, UnhandledBytes, RestZero
<1> HIDE DEF m, b
<1>6. ASSUME NEW t \in Trackers
      PROVE  /\ sendBuff[t] = b /\ said[t] = m /\ armed[t] = "out" /\ link[t] = <<>>
             /\ Unhandled(recvBuff[t]) = <<>> /\ IsBuffer(recvBuff[t]) /\ handled[t] = <<>>
  BY <1>3 DEF Init, m, b
<1>7. ASSUME NEW w \in Workers PROVE worker[w] = Idle /\ worker[w].at = "idle"
  BY DEF Init, Idle
<1>8. TypeOK
  <2>1. worker \in [Workers -> Places]
    BY DEF Init, Places
  <2>2. said \in [Trackers -> Seq(Byte)]
    BY <1>2 DEF Init, m, Bytes
  <2>3. \A t \in Trackers : IsBuffer(sendBuff[t]) /\ IsBuffer(recvBuff[t])
    BY <1>4, <1>6
  <2>4. DOMAIN sendBuff = Trackers /\ DOMAIN recvBuff = Trackers
    BY DEF Init
  <2>5. /\ handled \in [Trackers -> Seq(Byte)] /\ link \in [Trackers -> Seq(Byte)]
        /\ answers \in [Trackers -> Nat] /\ left \in [Trackers -> Nat]
        /\ aborted \in BOOLEAN
    BY EmptySeq DEF Init
  <2>6. /\ armed \in [Trackers -> {"none", "in", "out"}]
        /\ serving \in [Trackers -> {"in", "out", "closed"}]
        /\ Status \in [Trackers -> {"unknown", "wait", "active", "gone"}]
        /\ crossed \in BOOLEAN /\ doubled \in BOOLEAN
    BY DEF Init
  <2>. QED
    BY <1>1, <2>1, <2>2, <2>3, <2>4, <2>5, <2>6 DEF TypeOK
<1>9. OneWrites /\ \A t \in Trackers : Taken(t) = {0}
  BY <1>7 DEF OneWrites, Wrote, Taken
<1>10. TakenThere
  BY <1>5, <1>6, <1>9 DEF TakenThere
<1>11. StreamIntact
  <2>1. <<>> \o <<>> \o <<>> \o m = m
    <3>1. <<>> \in Seq(Byte) /\ m \in Seq(Byte)
      BY <1>2 DEF Bytes
    <3>2. <<>> \o <<>> = <<>> /\ <<>> \o m = m
      BY <3>1, ConcatEmptySeq
    <3>. QED
      BY <3>2
  <2>. QED
    BY <1>4, <1>5, <1>6, <1>9, <2>1 DEF StreamIntact
<1>12. InOrder
  <2>1. Kept
    BY <1>1, <1>7 DEF Kept
  <2>2. OneEach /\ Reserved
    BY <1>7 DEF OneEach, Reserved, Sends, Handles
  <2>3. SomethingToSend
    BY <1>5, <1>6 DEF SomethingToSend
  <2>. QED
    BY <2>1, <2>2, <2>3 DEF InOrder
<1>. QED
  BY <1>8, <1>9, <1>10, <1>11, <1>12 DEF IInv

LEMMA NextIInv == IInv /\ [Next]_vars => IInv'
<1> SUFFICES ASSUME IInv, [Next]_vars PROVE IInv'
  OBVIOUS
<1>1. CASE \E t \in Trackers, event \in {"in", "out"} : Dispatch(t, event)
  BY <1>1, DispatchIInv
<1>2. ASSUME NEW w \in Workers, Handler(w) PROVE IInv'
  BY <1>2, ReadIInv, ReadySynSelfIInv, ModFdIInv, WriteIInv, AccountIInv, RearmIInv,
     DealCloseIInv DEF Handler
<1>3. ASSUME NEW t \in Trackers, TrackerSteps(t) PROVE IInv'
  BY <1>3, TrackerReadsIInv, TrackerSpeaksIInv DEF TrackerSteps
<1>4. CASE UNCHANGED vars
  <2>1. UNCHANGED <<storage, link, recvBuff, handled, answers, left, aborted, serving, Status, crossed, doubled>>
    BY <1>4 DEF vars, trackers
  <2>2. TypeOK'
    BY <2>1 DEF IInv, TypeOK, storage
  <2>3. OneWrites' /\ TakenThere' /\ \A x \in Trackers : Taken(x)' = Taken(x)
    BY <2>1, WritesKept
  <2>4. StreamIntact'
    BY <2>1, <2>3 DEF IInv, StreamIntact, storage
  <2>. QED
    BY <2>1, <2>2, <2>3, <2>4, NodeKept DEF IInv
<1>. QED
  BY <1>1, <1>2, <1>3, <1>4 DEF Next, NodeNext, TrackersNext

-----------------------------------------------------------------------------
(* The end of the conversation.                                            *)

Even(n) == \E j \in 0..n : n = 2 * j

(* What is said to a tracker is whole lines, the first of them NEW.        *)
Letter(k) == IF Even(k) THEN CRLF ELSE IF k = 1 THEN "NEW" ELSE "CHG"

Lines ==
  \A t \in Trackers :
    /\ Even(Len(said[t])) /\ Len(said[t]) >= 2
    /\ \A k \in 1..Len(said[t]) : said[t][k] = Letter(k)

(* A tracker handles whole lines, and holds less than one before the first.*)
Whole(t) ==
  /\ Even(Len(handled[t]))
  /\ Len(handled[t]) = 0 => UnHandleBytes(recvBuff[t]) < 2
  /\ Len(handled[t]) >= 4 => Status[t] = "active"

(* A connection is armed for something or handled by somebody.             *)
Registered(t) == armed[t] = "none" => \E w \in Workers : Handles(w, t)

(* While there is something to send, somebody will send it or has just     *)
(* done so.                                                                *)
Remembered(t) ==
  UnHandleBytes(sendBuff[t]) > 0 =>
    armed[t] = "out" \/ \E w \in Workers : Due(w, t) \/ Wrote(w, t)

(* Who reads or returns for input has sent everything.                     *)
Listens(w, t) ==
  /\ Handles(w, t)
  /\ worker[w].at = "read" \/ (worker[w].at = "ret0" /\ worker[w].after = "in")

Drained(t) == \A w \in Workers : Listens(w, t) => UnHandleBytes(sendBuff[t]) = 0

(* After NEW the tracker is about to answer, its answer is whole under way *)
(* or being handled by the loop of SyncSelf, or there is a line it has yet *)
(* to read.                                                                *)
WillSay(w, t) ==
  /\ Handles(w, t) /\ worker[w].at \in {"append", "arm"}
  /\ \E p \in DOMAIN tracker :
       tracker[p] = t /\ (p > worker[w].i \/ (p = worker[w].i /\ worker[w].at = "append"))

Unread(t) == Len(handled[t]) + UnHandleBytes(recvBuff[t]) < Len(said[t])

Replied(t) ==
  Len(handled[t]) = 2 =>
    serving[t] = "out" \/ Begins(t) \/ Unread(t) \/ \E w \in Workers : WillSay(w, t)

Going ==
  ~crossed =>
    ~doubled /\ \A t \in Trackers :
                  Whole(t) /\ Registered(t) /\ Remembered(t) /\ Drained(t) /\ Replied(t)

GInv == IInv /\ Lines /\ (~aborted => Going)

-----------------------------------------------------------------------------
LEMMA EvenNumbers ==
  /\ Even(0) /\ Even(2) /\ ~Even(1)
  /\ \A n \in Nat : Even(n) => ~Even(n + 1) /\ Even(n + 2)
<1>1. Even(0)
  <2>1. 0 \in 0..0 /\ 0 = 2 * 0
    OBVIOUS
  <2>. QED
    BY <2>1 DEF Even
<1>2. Even(2)
  <2>1. 1 \in 0..2 /\ 2 = 2 * 1
    OBVIOUS
  <2>. QED
    BY <2>1 DEF Even
<1>3. ~Even(1)
  BY DEF Even
<1>4. ASSUME NEW n \in Nat, Even(n) PROVE ~Even(n + 1) /\ Even(n + 2)
  <2>1. PICK j \in 0..n : n = 2 * j
    BY <1>4 DEF Even
  <2>2. j + 1 \in 0..(n + 2) /\ n + 2 = 2 * (j + 1)
    BY <2>1
  <2>3. \A k \in 0..(n + 1) : n + 1 # 2 * k
    BY <2>1
  <2>. QED
    BY <2>2, <2>3 DEF Even
<1>. QED
  BY <1>1, <1>2, <1>3, <1>4

(* The places of the parts of a sequence.                                  *)
LEMMA Between ==
  ASSUME NEW a \in Bytes, NEW b \in Bytes, NEW c \in Bytes
  PROVE  /\ Len((a \o b) \o c) = Len(a) + Len(b) + Len(c)
         /\ \A k \in 1..Len(b) : ((a \o b) \o c)[Len(a) + k] = b[k]
<1> DEFINE ab == a \o b
<1>1. /\ ab \in Bytes /\ Len(ab) = Len(a) + Len(b)
      /\ \A i \in 1..(Len(a) + Len(b)) : ab[i] = IF i <= Len(a) THEN a[i] ELSE b[i - Len(a)]
  BY ConcatProperties DEF Bytes
<1>2. Len(a) \in Nat /\ Len(b) \in Nat /\ Len(c) \in Nat
  BY LenProperties DEF Bytes
<1> HIDE DEF ab
<1>3. /\ Len(ab \o c) = Len(ab) + Len(c)
      /\ \A i \in 1..(Len(ab) + Len(c)) : (ab \o c)[i] = IF i <= Len(ab) THEN ab[i] ELSE c[i - Len(ab)]
  <2>1. ab \in Seq(Byte) /\ c \in Seq(Byte)
    BY <1>1 DEF Bytes
  <2>. QED
    BY <2>1, ConcatProperties
<1>4. ASSUME NEW k \in 1..Len(b) PROVE (ab \o c)[Len(a) + k] = b[k]
  <2>1. /\ Len(a) + k \in 1..(Len(ab) + Len(c)) /\ Len(a) + k <= Len(ab)
        /\ Len(a) + k \in 1..(Len(a) + Len(b)) /\ ~(Len(a) + k <= Len(a))
        /\ (Len(a) + k) - Len(a) = k
    BY <1>1, <1>2
  <2>. QED
    BY <2>1, <1>1, <1>3
<1>. QED
  BY <1>1, <1>2, <1>3, <1>4 DEF ab

(* What a tracker has after a read is a part of what was said to it.       *)
Has(t, n) == Unhandled(recvBuff[t]) \o SubSeq(link[t], 1, n)

LEMMA ReadLetters ==
  ASSUME TypeOK, TakenThere, StreamIntact, ~doubled, Lines,
         NEW t \in Trackers, NEW n \in 0..Len(link[t])
  PROVE  /\ Has(t, n) \in Bytes /\ Len(Has(t, n)) = UnHandleBytes(recvBuff[t]) + n
         /\ Len(handled[t]) + Len(Has(t, n)) <= Len(said[t])
         /\ \A k \in 1..Len(Has(t, n)) : Has(t, n)[k] = Letter(Len(handled[t]) + k)
<1> DEFINE bytes == Has(t, n)
           h == handled[t]
           old == Unhandled(recvBuff[t])
           new == SubSeq(link[t], 1, n)
           coming == SubSeq(link[t], n + 1, Len(link[t]))
<1>1. /\ h \in Bytes /\ old \in Bytes /\ link[t] \in Bytes /\ said[t] \in Bytes
      /\ IsBuffer(recvBuff[t]) /\ IsBuffer(sendBuff[t]) /\ Len(old) = UnHandleBytes(recvBuff[t])
  BY SessionBytes, UnhandledBytes
<1>2. new \in Bytes /\ coming \in Bytes /\ new \o coming = link[t]
  BY <1>1, CutInTwo
<1>3. Len(new) = n
  <2>1. n \in Nat /\ n <= Len(link[t])
    BY <1>1, LenProperties DEF Bytes
  <2> HIDE DEF Bytes
  <2>. QED
    BY <1>1, <2>1, PrefixOfSeq
<1>4. PICK m \in Taken(t) : TRUE
  BY DEF Taken
<1> DEFINE rest == Unhandled(AddHandled(sendBuff[t], m))
<1>5. said[t] = h \o old \o link[t] \o rest
  BY <1>4 DEF StreamIntact
<1>6. rest \in Bytes
  <2>1. m \in 0..UnHandleBytes(sendBuff[t])
    BY <1>4 DEF TakenThere
  <2>. QED
    BY <1>1, <2>1, AddHandledTakes, UnhandledBytes
<1>7. bytes = old \o new
  BY DEF Has
<1> HIDE DEF bytes, h, old, new, coming, rest
<1>8. bytes \in Bytes /\ Len(bytes) = Len(old) + Len(new)
  BY <1>1, <1>2, <1>7, ConcatProperties DEF Bytes
<1>9. coming \o rest \in Bytes
  BY <1>2, <1>6, ConcatProperties DEF Bytes
<1>10. said[t] = (h \o bytes) \o (coming \o rest)
  <2>1. h \in Bytes /\ old \in Bytes /\ new \in Bytes /\ coming \in Bytes
    BY <1>1, <1>2
  <2>2. (h \o old) \o (new \o coming) = (h \o (old \o new)) \o coming
    <3>1. Regroups(h, old, new, coming)
      BY <2>1, PartsRegroup
    <3>. QED
      BY <3>1 DEF Regroups
  <2> DEFINE p == h \o (old \o new)
  <2>3. said[t] = (p \o coming) \o rest
    BY <1>2, <1>5, <2>2
  <2>4. p \in Seq(Byte) /\ coming \in Seq(Byte) /\ rest \in Seq(Byte)
    BY <1>1, <1>2, <1>6, <1>7, <1>8, ConcatProperties DEF Bytes
  <2> HIDE DEF p
  <2>5. (p \o coming) \o rest = p \o (coming \o rest)
    BY <2>4, ConcatAssociative
  <2>. QED
    BY <1>7, <2>3, <2>5 DEF p
<1> DEFINE c == coming \o rest
<1>11. /\ Len((h \o bytes) \o c) = Len(h) + Len(bytes) + Len(c)
       /\ \A k \in 1..Len(bytes) : ((h \o bytes) \o c)[Len(h) + k] = bytes[k]
  <2>1. c \in Bytes
    BY <1>9
  <2> HIDE DEF c
  <2>. QED
    BY <1>1, <1>8, <2>1, Between
<1>12. Len(h) \in Nat /\ Len(bytes) \in Nat /\ Len(c) \in Nat /\ Len(said[t]) \in Nat
  BY <1>1, <1>8, <1>9, LenProperties DEF Bytes
<1>13. said[t] = (h \o bytes) \o c
  BY <1>10
<1> HIDE DEF c
<1>14. Len(h) + Len(bytes) <= Len(said[t])
  BY <1>11, <1>12, <1>13
<1>15. ASSUME NEW k \in 1..Len(bytes) PROVE bytes[k] = Letter(Len(h) + k)
  <2>1. Len(h) + k \in 1..Len(said[t])
    BY <1>12, <1>14
  <2>2. said[t][Len(h) + k] = Letter(Len(h) + k)
    BY <2>1 DEF Lines
  <2>3. said[t][Len(h) + k] = bytes[k]
    BY <1>11, <1>13
  <2>. QED
    BY <2>2, <2>3
<1>. QED
  BY <1>1, <1>3, <1>8, <1>14, <1>15 DEF h, bytes, old

(* So the first line in it, if any, is two bytes long, and says NEW only   *)
(* at the very beginning.                                                  *)
LEMMA FirstLine ==
  ASSUME NEW h \in Nat, Even(h), NEW bytes \in Bytes,
         \A k \in 1..Len(bytes) : bytes[k] = Letter(h + k)
  PROVE  /\ Len(bytes) \in Nat
         /\ Len(bytes) < 2 => LineEnds(bytes) = {}
         /\ Len(bytes) >= 2 => LineEnds(bytes) = {2} /\ (bytes[1] = "NEW" <=> h = 0)
<1>1. Len(bytes) \in Nat /\ DOMAIN bytes = 1..Len(bytes)
  BY LenProperties DEF Bytes
<1>2. Letter(h + 1) = (IF h = 0 THEN "NEW" ELSE "CHG") /\ Letter(h + 1) # CRLF
  BY EvenNumbers, SessionAssumption DEF Letter
<1>3. Letter(h + 2) = CRLF
  BY EvenNumbers DEF Letter
<1>4. CASE Len(bytes) < 2
  <2>1. ASSUME NEW i \in DOMAIN bytes PROVE bytes[i] # CRLF
    <3>1. i = 1 /\ i \in 1..Len(bytes)
      BY <1>1, <1>4
    <3>. QED
      BY <1>2, <3>1
  <2>. QED
    BY <1>1, <1>4, <2>1 DEF LineEnds
<1>5. CASE Len(bytes) >= 2
  <2>1. 1 \in 1..Len(bytes) /\ 2 \in 1..Len(bytes)
    BY <1>1, <1>5
  <2>2. bytes[1] = Letter(h + 1) /\ bytes[2] = CRLF
    BY <1>3, <2>1
  <2>3. 2 \in LineEnds(bytes)
    <3>1. \A j \in 1..(2 - 1) : j = 1
      OBVIOUS
    <3>. QED
      BY <1>1, <1>2, <2>1, <2>2, <3>1 DEF LineEnds
  <2>4. ASSUME NEW i \in LineEnds(bytes) PROVE i = 2
    <3>1. i \in 1..Len(bytes) /\ bytes[i] = CRLF /\ \A j \in 1..(i - 1) : bytes[j] # CRLF
      BY <1>1 DEF LineEnds
    <3>2. i # 1
      BY <1>2, <2>2, <3>1
    <3>3. ~(i > 2)
      BY <2>2, <3>1, <1>1
    <3>. QED
      BY <1>1, <3>1, <3>2, <3>3
  <2>. QED
    BY <1>1, <1>2, <1>5, <2>2, <2>3, <2>4
<1>. QED
  BY <1>1, <1>4, <1>5

-----------------------------------------------------------------------------
(* Steps of a tracker.                                                     *)

LEMMA NodeGoes ==
  ASSUME UNCHANGED storage, NEW t \in Trackers
  PROVE  /\ Registered(t)' <=> Registered(t)
         /\ Remembered(t)' <=> Remembered(t)
         /\ Drained(t)' <=> Drained(t)
         /\ \A w \in Workers : WillSay(w, t)' <=> WillSay(w, t)
         /\ Lines' <=> Lines
<1>1. UNCHANGED <<tracker, sendBuff, said, armed, worker>>
  BY DEF storage
<1>2. Registered(t)' <=> Registered(t)
  BY <1>1 DEF Registered, Handles
<1>3. Remembered(t)' <=> Remembered(t)
  BY <1>1 DEF Remembered, Due, Arms, Passed, WillWrite, Wrote, Handles
<1>4. Drained(t)' <=> Drained(t)
  BY <1>1 DEF Drained, Listens, Handles
<1>5. \A w \in Workers : WillSay(w, t)' <=> WillSay(w, t)
  BY <1>1 DEF WillSay, Handles
<1>6. Lines' <=> Lines
  BY <1>1 DEF Lines
<1>. QED
  BY <1>2, <1>3, <1>4, <1>5, <1>6

LEMMA TrackerReadsGoing ==
  ASSUME GInv, ~aborted, NEW t \in Trackers, TrackerReads(t)
  PROVE  Lines' /\ Going'
<1>1. TypeOK /\ TakenThere /\ StreamIntact /\ Lines /\ ~doubled
  BY DEF GInv, IInv, TrackerReads
<1>2. PICK n \in Received(t) : Deal(t, ReadFd(recvBuff[t], SubSeq(link[t], 1, n)))
  BY DEF TrackerReads
<1>3. UNCHANGED <<storage, answers, left, aborted, crossed, doubled>>
  BY DEF TrackerReads
<1>4. Lines'
  BY <1>1, <1>3, NodeGoes
<1>5. SUFFICES ASSUME ~crossed', NEW x \in Trackers PROVE Whole(x)' /\ Replied(x)'
  <2>1. \A x \in Trackers : ~crossed' => Registered(x)' /\ Remembered(x)' /\ Drained(x)'
    BY <1>3, NodeGoes DEF GInv, Going
  <2>. QED
    BY <1>1, <1>3, <1>4, <1>5, <2>1 DEF Going
<1>6. Whole(x) /\ Replied(x) /\ Whole(t) /\ Replied(t)
  BY <1>3, <1>5 DEF GInv, Going
<1> DEFINE new == SubSeq(link[t], 1, n)
           buff == ReadFd(recvBuff[t], new)
           bytes == Unhandled(buff)
           h == Len(handled[t])
<1>7. /\ IsBuffer(recvBuff[t]) /\ link[t] \in Bytes /\ handled[t] \in Bytes /\ said[t] \in Bytes
      /\ h \in Nat /\ Len(link[t]) \in Nat /\ Len(said[t]) \in Nat
  BY <1>1, SessionBytes, LenProperties DEF Bytes
<1>8. n \in 0..Len(link[t]) /\ n >= 1
  BY <1>7 DEF Received
<1>9. new \in Bytes
  BY <1>7, <1>8, CutInTwo
<1>10. IsBuffer(buff) /\ bytes = Unhandled(recvBuff[t]) \o new
  <2> HIDE DEF new
  <2>. QED
    BY <1>7, <1>9, ReadFdPuts
<1> HIDE DEF bytes, buff, h
<1>11. /\ bytes \in Bytes /\ Len(bytes) = UnHandleBytes(recvBuff[t]) + n
       /\ h + Len(bytes) <= Len(said[t])
       /\ \A k \in 1..Len(bytes) : bytes[k] = Letter(h + k)
  <2> DEFINE all == Has(t, n)
  <2>1. bytes = all
    BY <1>10 DEF new, Has
  <2>2. /\ all \in Bytes /\ Len(all) = UnHandleBytes(recvBuff[t]) + n
        /\ Len(handled[t]) + Len(all) <= Len(said[t])
        /\ \A k \in 1..Len(all) : all[k] = Letter(Len(handled[t]) + k)
    BY <1>1, <1>8, ReadLetters
  <2> HIDE DEF all
  <2>. QED
    BY <2>1, <2>2 DEF h
<1>12. /\ Len(bytes) \in Nat /\ UnHandleBytes(buff) = Len(bytes) /\ Len(bytes) >= 1
       /\ Even(h)
       /\ Len(bytes) < 2 => LineEnds(bytes) = {}
       /\ Len(bytes) >= 2 => LineEnds(bytes) = {2} /\ (bytes[1] = "NEW" <=> h = 0)
  <2>1. Even(h) /\ UnHandleBytes(recvBuff[t]) \in Nat
    BY <1>6, <1>7, BufferParts DEF Whole, h
  <2>2. UnHandleBytes(buff) = Len(bytes)
    BY <1>10, UnhandledBytes DEF bytes
  <2>. QED
    BY <1>7, <1>8, <1>11, <2>1, <2>2, FirstLine
<1>13. Deal(t, buff)
  BY <1>2 DEF buff
<1>14. CASE Len(bytes) < 2
  <2>1. recvBuff' = [recvBuff EXCEPT ![t] = buff] /\ UNCHANGED <<serving, Status, handled>>
    BY <1>12, <1>13, <1>14 DEF Deal, bytes
  <2>2. recvBuff'[t] = buff /\ \A y \in Trackers : y # t => recvBuff'[y] = recvBuff[y]
    BY <1>1, <2>1 DEF TypeOK
  <2>3. Whole(x)'
    BY <1>6, <1>12, <1>14, <2>1, <2>2 DEF Whole
  <2>4. CASE x = t
    <3>1. Even(Len(said[t])) /\ ~Even(h + 1)
      BY <1>1, <1>7, <1>12, EvenNumbers DEF Lines
    <3>2. Len(bytes) = 1 /\ h + 1 # Len(said[t])
      BY <1>12, <1>14, <3>1
    <3>3. h + UnHandleBytes(buff) < Len(said[t])
      <4>1. h + 1 <= Len(said[t]) /\ UnHandleBytes(buff) = 1
        BY <1>11, <1>12, <3>2
      <4>. QED
        BY <1>7, <3>2, <4>1
    <3>4. Unread(t)'
      BY <1>3, <2>1, <2>2, <3>3 DEF Unread, h, storage
    <3>. QED
      BY <2>3, <2>4, <3>4 DEF Replied
  <2>5. CASE x # t
    <3>1. Unread(x)' <=> Unread(x)
      BY <1>3, <2>1, <2>2, <2>5 DEF Unread, storage
    <3>2. Replied(x)'
      BY <1>3, <1>6, <2>1, <3>1, NodeGoes DEF Replied, Begins
    <3>. QED
      BY <2>3, <3>2
  <2>. QED
    BY <2>4, <2>5
<1>15. CASE Len(bytes) >= 2
  <2> DEFINE line == SubSeq(bytes, 1, 2)
  <2>1. /\ recvBuff' = [recvBuff EXCEPT ![t] = AddHandled(buff, 2)]
        /\ handled' = [handled EXCEPT ![t] = @ \o line]
        /\ Status' = [Status EXCEPT ![t] = StatusAfter(bytes[1])]
        /\ serving' = [serving EXCEPT ![t] = WaitsAfter(bytes[1])]
    BY <1>12, <1>13, <1>15 DEF Deal, bytes
  <2>2. line \in Bytes /\ Len(line) = 2
    <3>1. 2 \in Nat /\ 2 <= Len(bytes)
      BY <1>12, <1>15
    <3> HIDE DEF Bytes
    <3>. QED
      BY <1>11, <3>1, PrefixOfSeq
  <2> HIDE DEF line
  <2>3. Len(handled[t] \o line) = h + 2
    <3>1. Len(handled[t] \o line) = Len(handled[t]) + Len(line)
      BY <1>7, <2>2, ConcatProperties DEF Bytes
    <3>. QED
      BY <2>2, <3>1 DEF h
  <2>4. CASE x # t
    <3>1. recvBuff'[x] = recvBuff[x] /\ handled'[x] = handled[x] /\ Status'[x] = Status[x]
          /\ serving'[x] = serving[x]
      BY <1>1, <2>1, <2>4 DEF TypeOK
    <3>2. Whole(x)'
      BY <1>6, <3>1 DEF Whole
    <3>3. Unread(x)' <=> Unread(x)
      BY <1>3, <3>1 DEF Unread, storage
    <3>4. Replied(x)'
      BY <1>3, <1>6, <3>1, <3>3, NodeGoes DEF Replied, Begins
    <3>. QED
      BY <3>2, <3>4
  <2>5. CASE x = t
    <3>1. /\ Len(handled'[t]) = h + 2
          /\ Status'[t] = (IF h = 0 THEN "wait" ELSE "active")
          /\ serving'[t] = (IF h = 0 THEN "out" ELSE "in")
      BY <1>1, <1>12, <1>15, <2>1, <2>3 DEF TypeOK, StatusAfter, WaitsAfter
    <3>2. Even(h + 2) /\ h + 2 # 0 /\ (h + 2 = 2 <=> h = 0) /\ (h + 2 >= 4 => h # 0)
      BY <1>7, <1>12, EvenNumbers
    <3>3. Whole(t)'
      BY <3>1, <3>2 DEF Whole
    <3>4. Replied(t)'
      BY <3>1, <3>2 DEF Replied
    <3>. QED
      BY <2>5, <3>3, <3>4
  <2>. QED
    BY <2>4, <2>5
<1>. QED
  BY <1>12, <1>14, <1>15

LEMMA TrackerSpeaksGoing ==
  ASSUME GInv, ~aborted, NEW t \in Trackers, TrackerWrites(t) \/ TrackerCloses(t)
  PROVE  Lines' /\ Going'
<1>1. TypeOK /\ Lines /\ UNCHANGED <<storage, link, recvBuff, handled, crossed, doubled>>
  BY DEF GInv, IInv, TrackerWrites, TrackerCloses
<1>2. Lines'
  BY <1>1, NodeGoes
<1>3. SUFFICES ASSUME ~crossed', NEW x \in Trackers PROVE Whole(x)' /\ Replied(x)'
  <2>1. \A x \in Trackers : ~crossed' => Registered(x)' /\ Remembered(x)' /\ Drained(x)'
    BY <1>1, NodeGoes DEF GInv, Going
  <2>2. ~crossed' => ~doubled'
    BY <1>1 DEF GInv, Going
  <2>. QED
    BY <1>2, <1>3, <2>1, <2>2 DEF Going
<1>4. Whole(x) /\ Replied(x) /\ Kept
  BY <1>1, <1>3 DEF GInv, Going, IInv, InOrder
<1>5. TrackerWrites(t)
  BY <1>4 DEF Kept, TrackerCloses
<1>6. /\ Status' = Status /\ \A y \in Trackers : y # t => answers'[y] = answers[y] /\ serving'[y] = serving[y]
      /\ answers'[t] = Answer
  BY <1>1, <1>5 DEF TrackerWrites, TypeOK
<1>7. Whole(x)'
  BY <1>1, <1>4, <1>6 DEF Whole
<1>8. Unread(x)' <=> Unread(x)
  BY <1>1 DEF Unread, storage
<1>9. Replied(x)'
  BY <1>1, <1>4, <1>6, <1>8, NodeGoes DEF Replied, Begins
<1>. QED
  BY <1>7, <1>9

-----------------------------------------------------------------------------
(* Steps of a worker.                                                      *)

LEMMA MovesOn ==
  ASSUME TypeOK, NEW w \in Workers, NEW p \in Places, Goes(w, p), tracker' = tracker,
         NEW t \in Trackers
  PROVE  /\ \A v \in Workers \ {w} :
              /\ Wrote(v, t)' <=> Wrote(v, t)
              /\ Listens(v, t)' <=> Listens(v, t)
              /\ WillSay(v, t)' <=> WillSay(v, t)
         /\ Wrote(w, t)' <=> p # Idle /\ p.node = t /\ p.at = "wrote"
         /\ Listens(w, t)' <=>
              /\ p # Idle /\ p.node = t
              /\ p.at = "read" \/ (p.at = "ret0" /\ p.after = "in")
         /\ WillSay(w, t)' <=>
              /\ p # Idle /\ p.node = t /\ p.at \in {"append", "arm"}
              /\ \E q \in DOMAIN tracker :
                   tracker[q] = t /\ (q > p.i \/ (q = p.i /\ p.at = "append"))
<1>1. worker'[w] = p /\ \A v \in Workers : v # w => worker'[v] = worker[v]
  BY Gone
<1>2. ASSUME NEW v \in Workers \ {w}
      PROVE  /\ Wrote(v, t)' <=> Wrote(v, t)
             /\ Listens(v, t)' <=> Listens(v, t)
             /\ WillSay(v, t)' <=> WillSay(v, t)
  <2>1. worker'[v] = worker[v]
    BY <1>1
  <2>. QED
    BY <2>1 DEF Wrote, Listens, WillSay, Handles
<1>3. Wrote(w, t)' <=> p # Idle /\ p.node = t /\ p.at = "wrote"
  BY <1>1 DEF Wrote, Handles
<1>4. Listens(w, t)' <=>
        /\ p # Idle /\ p.node = t
        /\ p.at = "read" \/ (p.at = "ret0" /\ p.after = "in")
  BY <1>1 DEF Listens, Handles
<1>5. WillSay(w, t)' <=>
        /\ p # Idle /\ p.node = t /\ p.at \in {"append", "arm"}
        /\ \E q \in DOMAIN tracker :
             tracker[q] = t /\ (q > p.i \/ (q = p.i /\ p.at = "append"))
  BY <1>1 DEF WillSay, Handles
<1>. QED
  BY <1>2, <1>3, <1>4, <1>5

(* The tracker's side is as it was.                                        *)
LEMMA TrackersSame ==
  ASSUME UNCHANGED trackers, NEW t \in Trackers
  PROVE  /\ Whole(t)' <=> Whole(t)
         /\ said' = said => (Lines' <=> Lines) /\ (Unread(t)' <=> Unread(t))
BY DEF trackers, Whole, Lines, Unread

(* What holds until events cross.                                          *)
LEMMA InOrderMeans ==
  ASSUME GInv, ~aborted, ~crossed
  PROVE  /\ TypeOK /\ Lines /\ ~doubled
         /\ Kept /\ OneEach /\ Reserved /\ SomethingToSend
         /\ \A t \in Trackers :
              Whole(t) /\ Registered(t) /\ Remembered(t) /\ Drained(t) /\ Replied(t)
BY DEF GInv, IInv, InOrder, Going

LEMMA DispatchGoing ==
  ASSUME GInv, ~aborted, NEW t \in Trackers, NEW event \in {"in", "out"}, Dispatch(t, event)
  PROVE  Lines' /\ Going'
<1> DEFINE p == [at |-> IF event = "in" THEN "read" ELSE "write", node |-> t]
<1>1. PICK w \in Workers : worker[w] = Idle /\ Goes(w, p)
  BY DEF Dispatch, IdleWorkers
<1>2. /\ armed[t] = event /\ armed' = [armed EXCEPT ![t] = "none"]
      /\ crossed' = (crossed \/ \E v \in Workers : Handles(v, t) \/ Arms(v, t))
      /\ UNCHANGED <<tracker, sendBuff, said, link, answers, left, aborted, trackers, doubled>>
  BY DEF Dispatch
<1>3. /\ p \in Places /\ p # Idle /\ p.node = t /\ p.at = (IF event = "in" THEN "read" ELSE "write")
  BY DEF Places, Idle
<1> HIDE DEF p
<1>4. TypeOK /\ Lines
  BY DEF GInv, IInv
<1>5. Lines'
  BY <1>2, <1>4, TrackersSame
<1>6. SUFFICES ASSUME ~crossed'
      PROVE  ~doubled' /\ \A x \in Trackers :
               Whole(x)' /\ Registered(x)' /\ Remembered(x)' /\ Drained(x)' /\ Replied(x)'
  BY <1>5 DEF Going
<1>7. ~crossed
  BY <1>2, <1>4, <1>6 DEF TypeOK
<1>8. ~doubled'
  BY <1>2, <1>7, InOrderMeans
<1>9. ASSUME NEW x \in Trackers
      PROVE  Whole(x)' /\ Registered(x)' /\ Remembered(x)' /\ Drained(x)' /\ Replied(x)'
  <2>1. Whole(x) /\ Registered(x) /\ Remembered(x) /\ Drained(x) /\ Replied(x)
    BY <1>7, InOrderMeans
  <2>2. armed'[x] = IF x = t THEN "none" ELSE armed[x]
    BY <1>2, <1>4 DEF TypeOK
  <2>3. ASSUME NEW v \in Workers
        PROVE  /\ Handles(v, x) => Handles(v, x)'
               /\ Due(v, x) \/ Wrote(v, x) => Due(v, x)' \/ Wrote(v, x)'
               /\ Listens(v, x)' => Listens(v, x) \/ (x = t /\ event = "in")
               /\ WillSay(v, x) => WillSay(v, x)'
    <3>1. CASE v = w
      <4>1. ~Handles(w, x) /\ ~Arms(w, x)
        BY <1>1 DEF Handles, Arms, Idle
      <4>2. ~Due(w, x) /\ ~Wrote(w, x) /\ ~WillSay(w, x)
        BY <4>1 DEF Due, Passed, WillWrite, Wrote, WillSay
      <4>3. Listens(w, x)' => x = t /\ event = "in"
        BY <1>1, <1>2, <1>3, <1>4, MovesOn
      <4>. QED
        BY <3>1, <4>1, <4>2, <4>3
    <3>2. CASE v # w
      BY <1>1, <1>2, <1>3, <1>4, <3>2, Moves, MovesOn
    <3>. QED
      BY <3>1, <3>2
  <2>4. x = t => Handles(w, x)'
    BY <1>1, <1>2, <1>3, <1>4, Moves
  <2>5. Whole(x)' /\ (Unread(x)' <=> Unread(x))
    BY <1>2, <2>1, TrackersSame
  <2>6. Registered(x)'
    BY <2>1, <2>2, <2>3, <2>4 DEF Registered
  <2>7. x = t /\ event = "out" => Due(w, x)'
    BY <1>1, <1>2, <1>3, <1>4, Moves DEF Due
  <2>8. Remembered(x)'
    BY <1>2, <2>1, <2>2, <2>3, <2>7 DEF Remembered
  <2>9. Drained(x)'
    <3>1. ASSUME x = t, event = "in" PROVE UnHandleBytes(sendBuff[x]) = 0
      <4>1. \A v \in Workers : ~Handles(v, t) /\ ~Arms(v, t)
        BY <1>2, <1>4, <1>6 DEF TypeOK
      <4>2. \A v \in Workers : ~Due(v, t) /\ ~Wrote(v, t)
        BY <4>1 DEF Due, Passed, WillWrite, Wrote
      <4>3. UnHandleBytes(sendBuff[x]) \in Nat
        BY <1>4, SessionBytes, BufferParts
      <4>. QED
        BY <1>2, <2>1, <3>1, <4>2, <4>3 DEF Remembered
    <3>. QED
      BY <1>2, <2>1, <2>3, <3>1 DEF Drained
  <2>10. Replied(x)'
    BY <1>2, <2>1, <2>3, <2>5 DEF Replied, Begins, trackers
  <2>. QED
    BY <2>5, <2>6, <2>8, <2>9, <2>10
<1>. QED
  BY <1>8, <1>9

LEMMA ReadGoing ==
  ASSUME GInv, ~aborted, NEW w \in Workers, Read(w)
  PROVE  Lines' /\ (~aborted' => Going')
<1> DEFINE t == worker[w].node
<1>1. TypeOK /\ In(w, "read") /\ Lines
  BY DEF GInv, IInv, Read
<1>2. /\ worker[w] # Idle /\ worker[w].at = "read" /\ t \in Trackers /\ Open(t)
      /\ Handles(w, t) /\ \A u : Handles(w, u) => u = t
  BY <1>1, AtPlace
<1>3. UNCHANGED <<tracker, sendBuff, said, armed, link, trackers, crossed, doubled>>
  BY DEF Read
<1>5. Lines'
  BY <1>1, <1>2, <1>3, TrackersSame
<1>6. SUFFICES ASSUME ~aborted', ~crossed'
      PROVE  ~doubled' /\ \A x \in Trackers :
               Whole(x)' /\ Registered(x)' /\ Remembered(x)' /\ Drained(x)' /\ Replied(x)'
  BY <1>5 DEF Going
<1>4. PICK p \in Places : Goes(w, p) /\ AfterRead(w, p)
  BY <1>1, <1>6, ReadGoes
<1>10. \A x \in Trackers : x # t => answers'[x] = answers[x]
  BY <1>1, ReadGoes
<1>11. /\ p # Idle /\ p.node = t /\ p.at \in {"append", "ret0"}
       /\ p.at = "append" => p.i = 1
       /\ p.at = "ret0" => ~Begins(t)
  BY <1>4 DEF AfterRead, Idle
<1> HIDE DEF t
<1>7. ~crossed
  BY <1>3, <1>6
<1>8. ~doubled'
  BY <1>3, <1>7, InOrderMeans
<1>9. ASSUME NEW x \in Trackers
      PROVE  Whole(x)' /\ Registered(x)' /\ Remembered(x)' /\ Drained(x)' /\ Replied(x)'
  <2>1. Whole(x) /\ Registered(x) /\ Remembered(x) /\ Drained(x) /\ Replied(x)
    BY <1>7, InOrderMeans
  <2>2. ASSUME NEW v \in Workers
        PROVE  /\ Handles(v, x) => Handles(v, x)'
               /\ Due(v, x) \/ Wrote(v, x) => Due(v, x)' \/ Wrote(v, x)'
               /\ Listens(v, x)' => Listens(v, x)
               /\ WillSay(v, x) => WillSay(v, x)'
    <3>1. CASE v = w
      <4>1. ~Due(w, x) /\ ~Wrote(w, x) /\ ~WillSay(w, x) /\ (x = t => Listens(w, x))
        BY <1>2 DEF Due, Arms, Passed, WillWrite, Wrote, WillSay, Listens
      <4>2. (Listens(w, x)' => x = t) /\ (Handles(w, x)' <=> x = t)
        BY <1>1, <1>3, <1>4, <1>11, MovesOn, Moves
      <4>. QED
        BY <1>2, <3>1, <4>1, <4>2
    <3>2. CASE v # w
      BY <1>1, <1>3, <1>4, <3>2, Moves, MovesOn
    <3>. QED
      BY <3>1, <3>2
  <2>3. Whole(x)' /\ (Unread(x)' <=> Unread(x))
    BY <1>3, <2>1, TrackersSame
  <2>4. Registered(x)'
    BY <1>3, <2>1, <2>2 DEF Registered
  <2>5. Remembered(x)'
    BY <1>3, <2>1, <2>2 DEF Remembered
  <2>6. Drained(x)'
    BY <1>3, <2>1, <2>2 DEF Drained
  <2>7. CASE x = t /\ p.at = "append"
    <3>1. PICK q \in DOMAIN tracker : tracker[q] = t
      BY <1>2 DEF Open
    <3>2. q > 1 \/ q = 1
      BY <1>1, TrackerSeq
    <3>3. WillSay(w, x)'
      BY <1>1, <1>3, <1>4, <1>11, <2>7, <3>1, <3>2, MovesOn
    <3>. QED
      BY <2>3, <2>4, <2>5, <2>6, <3>3 DEF Replied
  <2>8. CASE x # t \/ p.at = "ret0"
    <3>1. Begins(x) => Begins(x)'
      BY <1>10, <1>11, <2>8 DEF Begins
    <3>2. Replied(x)'
      BY <1>3, <2>1, <2>2, <2>3, <3>1 DEF Replied, trackers
    <3>. QED
      BY <2>3, <2>4, <2>5, <2>6, <3>2
  <2>. QED
    BY <1>11, <2>7, <2>8
<1>. QED
  BY <1>8, <1>9

LEMMA WriteGoing ==
  ASSUME GInv, ~aborted, NEW w \in Workers, Write(w), NEW t, t = worker[w].node
  PROVE  Lines' /\ Going'
<1> DEFINE len == UnHandleBytes(sendBuff[t])
           p == [at |-> "wrote", node |-> t, len |-> len]
<1>1. TypeOK /\ In(w, "write") /\ Lines
  BY DEF GInv, IInv, Write
<1>2. /\ worker[w] # Idle /\ worker[w].at = "write" /\ t \in Trackers
      /\ Handles(w, t) /\ \A u : Handles(w, u) => u = t
  BY <1>1, AtPlace
<1>3. /\ doubled' = (doubled \/ \E v \in Workers \ {w} : Handles(v, t) /\ worker[v].at = "wrote")
      /\ UNCHANGED <<tracker, sendBuff, said, armed, answers, left, aborted, trackers, crossed>>
  BY DEF Write
<1>4. Lines'
  BY <1>1, <1>2, <1>3, TrackersSame
<1>5. SUFFICES ASSUME ~crossed'
      PROVE  ~doubled' /\ \A x \in Trackers :
               Whole(x)' /\ Registered(x)' /\ Remembered(x)' /\ Drained(x)' /\ Replied(x)'
  BY <1>4 DEF Going
<1>6. ~crossed
  BY <1>3, <1>5
<1>7. ~doubled'
  BY <1>2, <1>3, <1>6, InOrderMeans, HandlerAlone
<1>8. Goes(w, p) /\ len \in Nat
  <2>1. IsBuffer(sendBuff[t])
    BY <1>1, <1>2, SessionBytes
  <2>2. Due(w, t)
    BY <1>2 DEF Due, WillWrite
  <2>3. len > 0
    BY <1>2, <1>6, <2>2, InOrderMeans DEF SomethingToSend
  <2>4. sendBuff[t].LPos < sendBuff[t].RPos /\ len \in Nat
    BY <2>1, <2>3, BufferParts
  <2>. QED
    BY <2>4 DEF Write
<1>9. p \in Places /\ p # Idle /\ p.node = t /\ p.at = "wrote"
  BY <1>2, <1>8 DEF Places, Idle
<1> HIDE DEF p
<1>10. ASSUME NEW x \in Trackers
       PROVE  Whole(x)' /\ Registered(x)' /\ Remembered(x)' /\ Drained(x)' /\ Replied(x)'
  <2>1. Whole(x) /\ Registered(x) /\ Remembered(x) /\ Drained(x) /\ Replied(x)
    BY <1>6, InOrderMeans
  <2>2. ASSUME NEW v \in Workers
        PROVE  /\ Handles(v, x) => Handles(v, x)'
               /\ Due(v, x) \/ Wrote(v, x) => Due(v, x)' \/ Wrote(v, x)'
               /\ Listens(v, x)' => Listens(v, x)
               /\ WillSay(v, x) => WillSay(v, x)'
    <3>1. CASE v = w
      <4>1. (Due(w, x) => x = t) /\ ~Wrote(w, x) /\ ~WillSay(w, x)
        BY <1>2 DEF Due, Arms, Passed, WillWrite, Wrote, WillSay
      <4>2. ~Listens(w, x)' /\ (Handles(w, x)' <=> x = t) /\ (Wrote(w, x)' <=> x = t)
        BY <1>1, <1>3, <1>8, <1>9, MovesOn, Moves
      <4>. QED
        BY <1>2, <3>1, <4>1, <4>2
    <3>2. CASE v # w
      BY <1>1, <1>3, <1>8, <1>9, <3>2, Moves, MovesOn
    <3>. QED
      BY <3>1, <3>2
  <2>3. Whole(x)' /\ (Unread(x)' <=> Unread(x))
    BY <1>3, <2>1, TrackersSame
  <2>4. Registered(x)'
    BY <1>3, <2>1, <2>2 DEF Registered
  <2>5. Remembered(x)'
    BY <1>3, <2>1, <2>2 DEF Remembered
  <2>6. Drained(x)'
    BY <1>3, <2>1, <2>2 DEF Drained
  <2>7. Replied(x)'
    BY <1>3, <2>1, <2>2, <2>3 DEF Replied, Begins, trackers
  <2>. QED
    BY <2>3, <2>4, <2>5, <2>6, <2>7
<1>. QED
  BY <1>7, <1>10

(* A tracker has no more than was said to it.                              *)
LEMMA HeardAtMost ==
  ASSUME GInv, ~doubled, NEW t \in Trackers
  PROVE  /\ Len(handled[t]) + UnHandleBytes(recvBuff[t]) <= Len(said[t])
         /\ Len(handled[t]) \in Nat /\ UnHandleBytes(recvBuff[t]) \in Nat /\ Len(said[t]) \in Nat
<1>1. TypeOK /\ TakenThere /\ StreamIntact /\ Lines
  BY DEF GInv, IInv
<1>2. /\ Len(handled[t]) \in Nat /\ Len(said[t]) \in Nat /\ Len(link[t]) \in Nat
      /\ UnHandleBytes(recvBuff[t]) \in Nat
  BY <1>1, SessionBytes, BufferParts, LenProperties DEF Bytes
<1>3. 0 \in 0..Len(link[t])
  BY <1>2
<1>4. /\ Len(Has(t, 0)) = UnHandleBytes(recvBuff[t]) + 0
      /\ Len(handled[t]) + Len(Has(t, 0)) <= Len(said[t])
  BY <1>1, <1>3, ReadLetters
<1>. QED
  BY <1>2, <1>4

(* A line more is said.                                                    *)
LEMMA LineMore ==
  ASSUME NEW s \in Bytes, Even(Len(s)), Len(s) >= 2, \A k \in 1..Len(s) : s[k] = Letter(k)
  PROVE  LET a == s \o Message("CHG")
         IN  /\ Len(a) = Len(s) + 2 /\ Even(Len(a))
             /\ \A k \in 1..Len(a) : a[k] = Letter(k)
<1> DEFINE m == Message("CHG")
<1>1. m \in Bytes /\ Len(m) = 2 /\ m[1] = "CHG" /\ m[2] = CRLF
  BY MessagesAreBytes DEF Message
<1> HIDE DEF m
<1>2. Len(s) \in Nat
  BY LenProperties DEF Bytes
<1>3. /\ Len(s \o m) = Len(s) + 2
      /\ \A i \in 1..(Len(s) + 2) : (s \o m)[i] = IF i <= Len(s) THEN s[i] ELSE m[i - Len(s)]
  <2>1. s \in Seq(Byte) /\ m \in Seq(Byte)
    BY <1>1 DEF Bytes
  <2>2. /\ Len(s \o m) = Len(s) + Len(m)
        /\ \A i \in 1..(Len(s) + Len(m)) : (s \o m)[i] = IF i <= Len(s) THEN s[i] ELSE m[i - Len(s)]
    BY <2>1, ConcatProperties
  <2>. QED
    BY <1>1, <2>2
<1>4. ~Even(Len(s) + 1) /\ Even(Len(s) + 2)
  BY <1>2, EvenNumbers
<1>5. ASSUME NEW k \in 1..(Len(s) + 2) PROVE (s \o m)[k] = Letter(k)
  <2>1. CASE k <= Len(s)
    BY <1>2, <1>3, <2>1
  <2>2. CASE k = Len(s) + 1
    <3>1. k - Len(s) = 1 /\ ~(k <= Len(s)) /\ k # 1
      BY <1>2, <2>2
    <3>. QED
      BY <1>1, <1>3, <1>4, <2>2, <3>1 DEF Letter
  <2>3. CASE k = Len(s) + 2
    <3>1. k - Len(s) = 2 /\ ~(k <= Len(s))
      BY <1>2, <2>3
    <3>. QED
      BY <1>1, <1>3, <1>4, <2>3, <3>1 DEF Letter
  <2>4. k <= Len(s) \/ k = Len(s) + 1 \/ k = Len(s) + 2
    BY <1>2
  <2>. QED
    BY <2>1, <2>2, <2>3, <2>4
<1>. QED
  BY <1>3, <1>4, <1>5 DEF m

LEMMA ReadySynSelfGoing ==
  ASSUME GInv, ~aborted, NEW w \in Workers, ReadySynSelf(w)
  PROVE  Lines' /\ Going'
<1> DEFINE t == worker[w].node
           i == worker[w].i
<1>1. TypeOK /\ In(w, "append") /\ Lines
  BY DEF GInv, IInv, ReadySynSelf
<1>2. /\ worker[w] \in Places /\ worker[w] # Idle /\ worker[w].at = "append"
      /\ t \in Trackers /\ Handles(w, t) /\ \A u : Handles(w, u) => u = t
  BY <1>1, AtPlace
<1>3. i \in Nat \ {0}
  BY <1>2, PlaceFacts
<1>4. UNCHANGED <<tracker, armed, link, answers, left, aborted, trackers, doubled>>
  BY DEF ReadySynSelf
<1>5. CASE i \in DOMAIN tracker
  <2> DEFINE u == tracker[i]
             p == [at |-> "arm", node |-> t, i |-> i]
             m == Message("CHG")
             b == AppendBytes(sendBuff[u], m)
  <2>1. /\ sendBuff' = [sendBuff EXCEPT ![u] = b]
        /\ said' = [said EXCEPT ![u] = @ \o m]
        /\ crossed' = (crossed \/ Crosses(w, u))
        /\ Goes(w, p)
    BY <1>5 DEF ReadySynSelf
  <2>2. u \in Trackers
    BY <1>1, <1>5, TrackerSeq
  <2>3. p \in Places /\ p # Idle /\ p.node = t /\ p.at = "arm" /\ p.i = i
    BY <1>2, <1>3 DEF Places, Idle
  <2>4. /\ Len(said[u] \o m) = Len(said[u]) + 2 /\ Even(Len(said[u] \o m)) /\ Len(said[u]) >= 2
        /\ \A k \in 1..Len(said[u] \o m) : (said[u] \o m)[k] = Letter(k)
    <3>1. said[u] \in Bytes
      BY <1>1, <2>2, SessionBytes
    <3>2. Even(Len(said[u])) /\ Len(said[u]) >= 2 /\ \A k \in 1..Len(said[u]) : said[u][k] = Letter(k)
      BY <1>1, <2>2 DEF Lines
    <3>. QED
      BY <3>1, <3>2, LineMore
  <2>5. Len(said[u]) \in Nat
    BY <1>1, <2>2, SessionBytes, LenProperties DEF Bytes
  <2>6. \A x \in Trackers : x # u => said'[x] = said[x] /\ sendBuff'[x] = sendBuff[x]
    BY <1>1, <2>1 DEF TypeOK
  <2>7. said'[u] = said[u] \o m
    BY <1>1, <2>1, <2>2 DEF TypeOK
  <2> HIDE DEF p, m, b, u, t, i
  <2>8. Lines'
    <3>1. Len(said'[u]) >= 2
      BY <2>4, <2>5, <2>7
    <3>. QED
      BY <1>1, <2>4, <2>6, <2>7, <3>1 DEF Lines
  <2>9. SUFFICES ASSUME ~crossed'
        PROVE  ~doubled' /\ \A x \in Trackers :
                 Whole(x)' /\ Registered(x)' /\ Remembered(x)' /\ Drained(x)' /\ Replied(x)'
    BY <2>8 DEF Going
  <2>10. ~crossed /\ \A v \in Workers \ {w} : ~Handles(v, u)
    BY <1>1, <2>1, <2>9 DEF TypeOK, Crosses
  <2>11. ~doubled'
    BY <1>4, <2>10, InOrderMeans
  <2>12. ASSUME NEW x \in Trackers
         PROVE  Whole(x)' /\ Registered(x)' /\ Remembered(x)' /\ Drained(x)' /\ Replied(x)'
    <3>1. Whole(x) /\ Registered(x) /\ Remembered(x) /\ Drained(x) /\ Replied(x)
      BY <2>10, InOrderMeans
    <3>2. /\ Handles(w, x)' <=> x = t
          /\ Arms(w, x)' <=> i \in DOMAIN tracker /\ u = x
          /\ ~Listens(w, x)'
      BY <1>1, <1>4, <2>1, <2>3, Moves, MovesOn DEF u
    <3>3. ASSUME NEW v \in Workers
          PROVE  /\ Handles(v, x) => Handles(v, x)'
                 /\ Due(v, x) \/ Wrote(v, x) => Due(v, x)' \/ Wrote(v, x)'
                 /\ Listens(v, x)' => v # w /\ Listens(v, x)
                 /\ x # u /\ WillSay(v, x) => WillSay(v, x)'
      <4>1. CASE v = w
        <5>1. Due(w, x) => Passed(w, x)
          BY <1>2 DEF Due, Arms, WillWrite
        <5>2. Passed(w, x) => Passed(w, x)'
          <6>1. ASSUME Passed(w, x)
                PROVE  x = t /\ \E q \in DOMAIN tracker : tracker[q] = x /\ q < i
            BY <1>2, <6>1 DEF Passed, i
          <6>. QED
            BY <1>1, <1>4, <2>1, <2>3, <6>1, Moves
        <5>3. ~Wrote(w, x)
          BY <1>2 DEF Wrote
        <5>4. ASSUME x # u, WillSay(w, x) PROVE WillSay(w, x)'
          <6>1. x = t /\ \E q \in DOMAIN tracker : tracker[q] = x /\ (q > i \/ q = i)
            BY <1>2, <5>4 DEF WillSay, i
          <6>2. \E q \in DOMAIN tracker : tracker[q] = x /\ q > i
            BY <5>4, <6>1 DEF u
          <6>. QED
            BY <1>1, <1>4, <2>1, <2>3, <6>1, <6>2, MovesOn
        <5>. QED
          BY <1>2, <3>2, <4>1, <5>1, <5>2, <5>3, <5>4 DEF Due
      <4>2. CASE v # w
        BY <1>1, <1>4, <2>1, <2>3, <4>2, Moves, MovesOn
      <4>. QED
        BY <4>1, <4>2
    <3>4. Whole(x)'
      BY <1>4, <3>1, TrackersSame
    <3>5. Registered(x)'
      BY <1>4, <3>1, <3>3 DEF Registered
    <3>6. CASE x = u
      <4>1. Remembered(x)'
        BY <1>5, <3>2, <3>6 DEF Remembered, Due
      <4>2. Drained(x)'
        BY <2>10, <3>3, <3>6 DEF Drained, Listens
      <4>3. Unread(x)'
        <5>1. Len(handled[u]) + UnHandleBytes(recvBuff[u]) <= Len(said[u])
              /\ Len(handled[u]) \in Nat /\ UnHandleBytes(recvBuff[u]) \in Nat
          BY <2>2, <2>10, HeardAtMost, InOrderMeans
        <5>2. Len(handled[u]) + UnHandleBytes(recvBuff[u]) < Len(said'[u])
          BY <2>4, <2>5, <2>7, <5>1
        <5>. QED
          BY <1>4, <3>6, <5>2 DEF Unread, trackers
      <4>. QED
        BY <3>4, <3>5, <4>1, <4>2, <4>3 DEF Replied
    <3>7. CASE x # u
      <4>1. Remembered(x)'
        BY <1>4, <2>6, <3>1, <3>3, <3>7 DEF Remembered
      <4>2. Drained(x)'
        BY <2>6, <3>1, <3>3, <3>7 DEF Drained
      <4>3. Unread(x)' <=> Unread(x)
        BY <1>4, <2>6, <3>7 DEF Unread, trackers
      <4>4. Replied(x)'
        BY <1>4, <3>1, <3>3, <3>7, <4>3 DEF Replied, Begins, trackers
      <4>. QED
        BY <3>4, <3>5, <4>1, <4>2, <4>4
    <3>. QED
      BY <3>6, <3>7
  <2>. QED
    BY <2>11, <2>12
<1>6. CASE i \notin DOMAIN tracker
  <2> DEFINE p == [at |-> "ret0", node |-> t, after |-> "out"]
  <2>1. Goes(w, p) /\ UNCHANGED <<sendBuff, said, crossed>>
    BY <1>6 DEF ReadySynSelf, AfterTranew
  <2>2. p \in Places /\ p # Idle /\ p.node = t /\ p.at = "ret0" /\ p.after = "out"
    BY <1>2 DEF Places, Idle
  <2> HIDE DEF p, t, i
  <2>3. Lines'
    BY <1>1, <1>2, <1>4, <2>1, TrackersSame
  <2>4. SUFFICES ASSUME ~crossed'
        PROVE  ~doubled' /\ \A x \in Trackers :
                 Whole(x)' /\ Registered(x)' /\ Remembered(x)' /\ Drained(x)' /\ Replied(x)'
    BY <2>3 DEF Going
  <2>5. ~crossed
    BY <2>1, <2>4
  <2>6. ~doubled'
    BY <1>4, <2>5, InOrderMeans
  <2>7. ASSUME NEW x \in Trackers
        PROVE  Whole(x)' /\ Registered(x)' /\ Remembered(x)' /\ Drained(x)' /\ Replied(x)'
    <3>1. Whole(x) /\ Registered(x) /\ Remembered(x) /\ Drained(x) /\ Replied(x)
      BY <2>5, InOrderMeans
    <3>2. ASSUME NEW v \in Workers
          PROVE  /\ Handles(v, x) => Handles(v, x)'
                 /\ Due(v, x) \/ Wrote(v, x) => Due(v, x)' \/ Wrote(v, x)'
                 /\ Listens(v, x)' => Listens(v, x)
                 /\ WillSay(v, x) => WillSay(v, x)'
      <4>1. CASE v = w
        <5>1. (Due(w, x) => x = t) /\ ~Wrote(w, x)
          BY <1>2 DEF Due, Arms, Passed, WillWrite, Wrote
        <5>2. ~WillSay(w, x)
          <6>1. \A q \in DOMAIN tracker : ~(q > i) /\ q # i
            BY <1>1, <1>3, <1>6, TrackerSeq
          <6>. QED
            BY <6>1 DEF WillSay, i
        <5>3. /\ ~Listens(w, x)' /\ (Handles(w, x)' <=> x = t)
              /\ WillWrite(w, x)' <=> x = t
          BY <1>1, <1>4, <2>1, <2>2, Moves, MovesOn
        <5>. QED
          BY <1>2, <4>1, <5>1, <5>2, <5>3 DEF Due
      <4>2. CASE v # w
        BY <1>1, <1>4, <2>1, <2>2, <4>2, Moves, MovesOn
      <4>. QED
        BY <4>1, <4>2
    <3>3. Whole(x)' /\ (Unread(x)' <=> Unread(x))
      BY <1>4, <2>1, <3>1, TrackersSame
    <3>4. Registered(x)'
      BY <1>4, <3>1, <3>2 DEF Registered
    <3>5. Remembered(x)'
      BY <1>4, <2>1, <3>1, <3>2 DEF Remembered
    <3>6. Drained(x)'
      BY <2>1, <3>1, <3>2 DEF Drained
    <3>7. Replied(x)'
      BY <1>4, <3>1, <3>2, <3>3 DEF Replied, Begins, trackers
    <3>. QED
      BY <3>3, <3>4, <3>5, <3>6, <3>7
  <2>. QED
    BY <2>6, <2>7
<1>. QED
  BY <1>5, <1>6

LEMMA ModFdGoing ==
  ASSUME GInv, ~aborted, NEW w \in Workers, ModFd(w)
  PROVE  Lines' /\ Going'
<1> DEFINE t == worker[w].node
           i == worker[w].i
           p == [at |-> "append", node |-> t, i |-> i + 1]
<1>1. TypeOK /\ In(w, "arm") /\ Lines
  BY DEF GInv, IInv, ModFd
<1>2. /\ worker[w] \in Places /\ worker[w] # Idle /\ worker[w].at = "arm"
      /\ t \in Trackers /\ Handles(w, t) /\ \A u : Handles(w, u) => u = t
  BY <1>1, AtPlace
<1>3. i \in Nat \ {0} /\ i + 1 \in Nat \ {0}
  <2>1. i \in Nat \ {0}
    BY <1>2, PlaceFacts
  <2>. QED
    BY <2>1
<1>4. /\ armed' = IF i \in DOMAIN tracker THEN [armed EXCEPT ![tracker[i]] = "out"] ELSE armed
      /\ crossed' = (crossed \/ (i \in DOMAIN tracker /\ Crosses(w, tracker[i])))
      /\ Goes(w, p)
      /\ UNCHANGED <<tracker, sendBuff, said, link, answers, left, aborted, trackers, doubled>>
  BY DEF ModFd
<1>5. p \in Places /\ p # Idle /\ p.node = t /\ p.at = "append" /\ p.i = i + 1
  BY <1>2, <1>3 DEF Places, Idle
<1> HIDE DEF p, t, i
<1>6. \A x \in Trackers : armed'[x] = IF i \in DOMAIN tracker /\ tracker[i] = x THEN "out"
                                      ELSE armed[x]
  BY <1>1, <1>4, TrackerSeq DEF TypeOK
<1>7. Lines'
  BY <1>1, <1>2, <1>4, TrackersSame
<1>8. SUFFICES ASSUME ~crossed'
      PROVE  ~doubled' /\ \A x \in Trackers :
               Whole(x)' /\ Registered(x)' /\ Remembered(x)' /\ Drained(x)' /\ Replied(x)'
  BY <1>7 DEF Going
<1>9. ~crossed
  BY <1>1, <1>4, <1>8 DEF TypeOK
<1>10. ~doubled'
  BY <1>4, <1>9, InOrderMeans
<1>11. ASSUME NEW x \in Trackers
       PROVE  Whole(x)' /\ Registered(x)' /\ Remembered(x)' /\ Drained(x)' /\ Replied(x)'
  <2>1. Whole(x) /\ Registered(x) /\ Remembered(x) /\ Drained(x) /\ Replied(x)
    BY <1>9, InOrderMeans
  <2>2. Arms(w, x) => armed'[x] = "out"
    BY <1>6 DEF Arms, i
  <2>3. ASSUME NEW v \in Workers
        PROVE  /\ Handles(v, x) => Handles(v, x)'
               /\ Due(v, x) \/ Wrote(v, x) => armed'[x] = "out" \/ Due(v, x)' \/ Wrote(v, x)'
               /\ Listens(v, x)' => Listens(v, x)
               /\ WillSay(v, x) => WillSay(v, x)'
    <3>1. CASE v = w
      <4>1. (Due(w, x) => Arms(w, x) \/ Passed(w, x)) /\ ~Wrote(w, x)
        BY <1>2 DEF Due, WillWrite, Wrote
      <4>2. Passed(w, x) => Passed(w, x)'
        <5>1. ASSUME Passed(w, x)
              PROVE  x = t /\ \E q \in DOMAIN tracker : tracker[q] = x /\ q < i + 1
          <6>1. PICK q \in DOMAIN tracker : tracker[q] = x /\ q < i
            BY <5>1 DEF Passed, i
          <6>2. q < i + 1
            BY <1>1, <1>3, <6>1, TrackerSeq
          <6>. QED
            BY <1>2, <5>1, <6>1, <6>2 DEF Passed
        <5>. QED
          BY <1>1, <1>4, <1>5, <5>1, Moves
      <4>3. WillSay(w, x) => WillSay(w, x)'
        <5>1. ASSUME WillSay(w, x)
              PROVE  x = t /\ \E q \in DOMAIN tracker : tracker[q] = x /\ (q > i + 1 \/ q = i + 1)
          <6>1. PICK q \in DOMAIN tracker : tracker[q] = x /\ q > i
            BY <1>2, <5>1 DEF WillSay, i
          <6>2. q > i + 1 \/ q = i + 1
            BY <1>1, <1>3, <6>1, TrackerSeq
          <6>. QED
            BY <1>2, <5>1, <6>1, <6>2 DEF WillSay
        <5>. QED
          BY <1>1, <1>4, <1>5, <5>1, MovesOn
      <4>4. ~Listens(w, x)' /\ (Handles(w, x)' <=> x = t)
        BY <1>1, <1>4, <1>5, MovesOn, Moves
      <4>. QED
        BY <1>2, <2>2, <3>1, <4>1, <4>2, <4>3, <4>4 DEF Due
    <3>2. CASE v # w
      BY <1>1, <1>4, <1>5, <3>2, Moves, MovesOn
    <3>. QED
      BY <3>1, <3>2
  <2>4. Whole(x)' /\ (Unread(x)' <=> Unread(x))
    BY <1>4, <2>1, TrackersSame
  <2>5. Registered(x)'
    BY <1>6, <2>1, <2>3 DEF Registered
  <2>6. Remembered(x)'
    BY <1>4, <1>6, <2>1, <2>3 DEF Remembered
  <2>7. Drained(x)'
    BY <1>4, <2>1, <2>3 DEF Drained
  <2>8. Replied(x)'
    BY <1>4, <2>1, <2>3, <2>4 DEF Replied, Begins, trackers
  <2>. QED
    BY <2>4, <2>5, <2>6, <2>7, <2>8
<1>. QED
  BY <1>10, <1>11

LEMMA AccountGoing ==
  ASSUME GInv, ~aborted, NEW w \in Workers, Account(w), NEW t, t = worker[w].node
  PROVE  Lines' /\ Going'
<1> DEFINE b == sendBuff[t]
           len == worker[w].len
           a == AddHandled(b, len)
           after == IF a.LPos = b.RPos THEN AfterAllWritten ELSE "out"
           p == [at |-> "ret0", node |-> t, after |-> after]
<1>1. TypeOK /\ In(w, "wrote") /\ Lines /\ OneWrites /\ TakenThere
  BY DEF GInv, IInv, Account
<1>2. /\ worker[w] \in Places /\ worker[w] # Idle /\ worker[w].at = "wrote"
      /\ t \in Trackers /\ ~doubled
      /\ Handles(w, t) /\ \A u : Handles(w, u) => u = t
  BY <1>1, AtPlace
<1>3. IsBuffer(b) /\ len \in 0..UnHandleBytes(b)
  <2>1. Wrote(w, t) /\ Taken(t) = {len}
    BY <1>1, <1>2, TakenOne DEF Wrote
  <2>. QED
    BY <1>1, <1>2, <2>1, SessionBytes DEF TakenThere
<1>4. a.LPos = a.RPos <=> after = "in"
  <2>1. b \in [cells : Seq(Byte), LPos : Nat, RPos : Nat]
    BY <1>3 DEF IsBuffer
  <2>2. a.RPos = b.RPos
    BY <2>1 DEF AddHandled
  <2> HIDE DEF a, b
  <2>. QED
    BY <2>2 DEF AfterAllWritten
<1>5. after \in {"in", "out"} /\ (UnHandleBytes(a) = 0 <=> after = "in")
      /\ (UnHandleBytes(a) > 0 => after = "out")
  <2>1. IsBuffer(a)
    <3> HIDE DEF b, len
    <3>. QED
      BY <1>3, AddHandledTakes
  <2>2. after \in {"in", "out"}
    BY DEF AfterAllWritten
  <2> HIDE DEF a, after
  <2>. QED
    BY <1>4, <2>1, <2>2, BufferParts
<1>6. sendBuff' = [sendBuff EXCEPT ![t] = a]
  BY DEF Account
<1>7. sendBuff'[t] = a /\ \A x \in Trackers : x # t => sendBuff'[x] = sendBuff[x]
  BY <1>1, <1>2, <1>6 DEF TypeOK
<1>8. /\ Goes(w, p)
      /\ UNCHANGED <<tracker, said, armed, link, answers, left, aborted, trackers, crossed, doubled>>
  BY <1>7 DEF Account
<1>9. p \in Places /\ p # Idle /\ p.node = t /\ p.at = "ret0" /\ p.after = after
  <2> HIDE DEF after
  <2>. QED
    BY <1>2, <1>5 DEF Places, Idle
<1> HIDE DEF p, after, a, len, b
<1>10. Lines'
  BY <1>1, <1>2, <1>8, TrackersSame
<1>11. SUFFICES ASSUME ~crossed'
       PROVE  ~doubled' /\ \A x \in Trackers :
                Whole(x)' /\ Registered(x)' /\ Remembered(x)' /\ Drained(x)' /\ Replied(x)'
  BY <1>10 DEF Going
<1>12. ~crossed
  BY <1>8, <1>11
<1>13. ~doubled'
  BY <1>8, <1>12, InOrderMeans
<1>14. ASSUME NEW x \in Trackers
       PROVE  Whole(x)' /\ Registered(x)' /\ Remembered(x)' /\ Drained(x)' /\ Replied(x)'
  <2>1. Whole(x) /\ Registered(x) /\ Remembered(x) /\ Drained(x) /\ Replied(x)
    BY <1>12, InOrderMeans
  <2>2. /\ Handles(w, x)' <=> x = t
        /\ Listens(w, x)' <=> x = t /\ after = "in"
        /\ WillWrite(w, x)' <=> x = t /\ after = "out"
    BY <1>1, <1>8, <1>9, Moves, MovesOn
  <2>3. ASSUME NEW v \in Workers
        PROVE  /\ Handles(v, x) => Handles(v, x)'
               /\ x # t /\ (Due(v, x) \/ Wrote(v, x)) => Due(v, x)' \/ Wrote(v, x)'
               /\ v # w /\ Listens(v, x)' => Listens(v, x)
               /\ WillSay(v, x) => WillSay(v, x)'
    <3>1. CASE v = w
      <4>1. ~Due(w, x) /\ (Wrote(w, x) => x = t) /\ ~WillSay(w, x)
        BY <1>2 DEF Due, Arms, Passed, WillWrite, Wrote, WillSay
      <4>. QED
        BY <1>2, <2>2, <3>1, <4>1
    <3>2. CASE v # w
      BY <1>1, <1>8, <1>9, <3>2, Moves, MovesOn
    <3>. QED
      BY <3>1, <3>2
  <2>4. Whole(x)' /\ (Unread(x)' <=> Unread(x))
    BY <1>8, <2>1, TrackersSame
  <2>5. Registered(x)'
    BY <1>8, <2>1, <2>3 DEF Registered
  <2>6. Replied(x)'
    BY <1>8, <2>1, <2>3, <2>4 DEF Replied, Begins, trackers
  <2>7. CASE x = t
    <3>1. Remembered(x)'
      BY <1>5, <1>7, <2>2, <2>7 DEF Remembered, Due
    <3>2. \A v \in Workers \ {w} : ~Listens(v, x)
      BY <1>2, <1>12, <2>7, HandlerAlone, InOrderMeans DEF Listens
    <3>3. Drained(x)'
      BY <1>5, <1>7, <2>2, <2>3, <2>7, <3>2 DEF Drained
    <3>. QED
      BY <2>4, <2>5, <2>6, <3>1, <3>3
  <2>8. CASE x # t
    <3>1. Remembered(x)'
      BY <1>7, <1>8, <2>1, <2>3, <2>8 DEF Remembered
    <3>2. Drained(x)'
      BY <1>7, <2>1, <2>2, <2>3, <2>8 DEF Drained
    <3>. QED
      BY <2>4, <2>5, <2>6, <3>1, <3>2
  <2>. QED
    BY <2>7, <2>8
<1>. QED
  BY <1>13, <1>14

LEMMA RearmGoing ==
  ASSUME GInv, ~aborted, NEW w \in Workers, Rearm(w), NEW t, t = worker[w].node
  PROVE  Lines' /\ Going'
<1>1. TypeOK /\ In(w, "ret0") /\ Lines
  BY DEF GInv, IInv, Rearm
<1>2. /\ worker[w] \in Places /\ worker[w] # Idle /\ worker[w].at = "ret0"
      /\ t \in Trackers
      /\ Handles(w, t) /\ \A u : Handles(w, u) => u = t
  BY <1>1, AtPlace
<1>3. /\ armed' = [armed EXCEPT ![t] = worker[w].after] /\ Goes(w, Idle)
      /\ UNCHANGED <<tracker, sendBuff, said, link, answers, left, aborted, trackers, crossed, doubled>>
  BY DEF Rearm, Ends
<1>4. Idle \in Places /\ Idle.at = "idle"
  BY DEF Places, Idle
<1>5. worker[w].after \in {"in", "out"}
  BY <1>2, PlaceFacts
<1>6. armed'[t] = worker[w].after /\ \A x \in Trackers : x # t => armed'[x] = armed[x]
  BY <1>1, <1>2, <1>3 DEF TypeOK
<1>7. Lines'
  BY <1>1, <1>2, <1>3, TrackersSame
<1>8. SUFFICES ASSUME ~crossed'
      PROVE  ~doubled' /\ \A x \in Trackers :
               Whole(x)' /\ Registered(x)' /\ Remembered(x)' /\ Drained(x)' /\ Replied(x)'
  BY <1>7 DEF Going
<1>9. ~crossed
  BY <1>3, <1>8
<1>10. ~doubled'
  BY <1>3, <1>9, InOrderMeans
<1>11. ASSUME NEW x \in Trackers
       PROVE  Whole(x)' /\ Registered(x)' /\ Remembered(x)' /\ Drained(x)' /\ Replied(x)'
  <2>1. Whole(x) /\ Registered(x) /\ Remembered(x) /\ Drained(x) /\ Replied(x)
    BY <1>9, InOrderMeans
  <2>2. ASSUME NEW v \in Workers
        PROVE  /\ x # t /\ Handles(v, x) => Handles(v, x)'
               /\ x # t /\ (Due(v, x) \/ Wrote(v, x)) => Due(v, x)' \/ Wrote(v, x)'
               /\ Listens(v, x)' => Listens(v, x)
               /\ WillSay(v, x) => WillSay(v, x)'
    <3>1. CASE v = w
      <4>1. (Handles(w, x) => x = t) /\ (Due(w, x) \/ Wrote(w, x) => x = t) /\ ~WillSay(w, x)
        BY <1>2 DEF Due, Arms, Passed, WillWrite, Wrote, WillSay
      <4>2. ~Listens(w, x)'
        BY <1>1, <1>3, <1>4, MovesOn
      <4>. QED
        BY <3>1, <4>1, <4>2
    <3>2. CASE v # w
      BY <1>1, <1>3, <1>4, <3>2, Moves, MovesOn
    <3>. QED
      BY <3>1, <3>2
  <2>3. Whole(x)' /\ (Unread(x)' <=> Unread(x))
    BY <1>3, <2>1, TrackersSame
  <2>4. Drained(x)'
    BY <1>3, <2>1, <2>2 DEF Drained
  <2>5. Replied(x)'
    BY <1>3, <2>1, <2>2, <2>3 DEF Replied, Begins, trackers
  <2>6. CASE x = t
    <3>1. Registered(x)'
      BY <1>5, <1>6, <2>6 DEF Registered
    <3>2. worker[w].after = "in" => UnHandleBytes(sendBuff[t]) = 0
      BY <1>2, <2>1, <2>6 DEF Drained, Listens
    <3>3. Remembered(x)'
      BY <1>3, <1>5, <1>6, <2>6, <3>2 DEF Remembered
    <3>. QED
      BY <2>3, <2>4, <2>5, <3>1, <3>3
  <2>7. CASE x # t
    BY <1>3, <1>6, <2>1, <2>2, <2>3, <2>4, <2>5, <2>7 DEF Registered, Remembered
  <2>. QED
    BY <2>6, <2>7
<1>. QED
  BY <1>10, <1>11

LEMMA DealCloseGoing ==
  ASSUME GInv, ~aborted, NEW w \in Workers, DealClose(w)
  PROVE  Lines' /\ Going'
<1>1. In(w, "ret2") /\ UNCHANGED <<said, crossed>> /\ Lines
  BY DEF GInv, DealClose
<1>2. crossed
  BY <1>1, InOrderMeans DEF In, Kept
<1>. QED
  BY <1>1, <1>2 DEF Lines, Going

-----------------------------------------------------------------------------
LEMMA InitGInv == Init => GInv
<1> SUFFICES ASSUME Init PROVE GInv
  OBVIOUS
<1>1. IInv
  BY InitIInv
<1>2. ASSUME NEW t \in Trackers
      PROVE  /\ said[t] = <<"NEW", CRLF>> /\ handled[t] = <<>> /\ armed[t] = "out"
             /\ recvBuff[t] = NewBuffer(Room)
  BY DEF Init, Message
<1>3. Lines
  <2>1. Letter(1) = "NEW" /\ Letter(2) = CRLF
    BY EvenNumbers DEF Letter
  <2> DEFINE m == <<"NEW", CRLF>>
  <2>2. Len(m) = 2 /\ m[1] = "NEW" /\ m[2] = CRLF
    OBVIOUS
  <2>3. \A k \in 1..2 : k = 1 \/ k = 2
    OBVIOUS
  <2> HIDE DEF m
  <2>4. \A k \in 1..Len(m) : m[k] = Letter(k)
    BY <2>1, <2>2, <2>3
  <2>5. Even(Len(m)) /\ Len(m) >= 2
    BY <2>2, EvenNumbers
  <2>. QED
    BY <1>2, <2>4, <2>5 DEF Lines, m
<1>4. ASSUME NEW t \in Trackers
      PROVE  Whole(t) /\ Registered(t) /\ Remembered(t) /\ Drained(t) /\ Replied(t)
  <2>1. Len(handled[t]) = 0
    BY <1>2
  <2>2. UnHandleBytes(recvBuff[t]) = 0
    <3>1. IsBuffer(NewBuffer(Room)) /\ Unhandled(NewBuffer(Room)) = <<>>
      BY SessionAssumption, NewBufferEmpty
    <3>2. UnHandleBytes(NewBuffer(Room)) = Len(Unhandled(NewBuffer(Room)))
      BY <3>1, UnhandledBytes
    <3>. QED
      BY <1>2, <3>1, <3>2
  <2>3. Whole(t) /\ Replied(t)
    BY <2>1, <2>2, EvenNumbers DEF Whole, Replied
  <2>4. Registered(t) /\ Remembered(t)
    BY <1>2 DEF Registered, Remembered
  <2>5. Drained(t)
    BY DEF Init, Drained, Listens, Handles, Idle
  <2>. QED
    BY <2>3, <2>4, <2>5
<1>5. ~doubled
  BY DEF Init
<1>. QED
  BY <1>1, <1>3, <1>4, <1>5 DEF GInv, Going

LEMMA NextGInv == GInv /\ [Next]_vars => GInv'
<1> SUFFICES ASSUME GInv, [Next]_vars PROVE GInv'
  OBVIOUS
<1>1. IInv'
  BY NextIInv DEF GInv
<1>2. ASSUME ~aborted, \E t \in Trackers, event \in {"in", "out"} : Dispatch(t, event)
      PROVE  GInv'
  BY <1>1, <1>2, DispatchGoing DEF GInv
<1>3. ASSUME ~aborted, NEW w \in Workers, Handler(w) PROVE GInv'
  BY <1>1, <1>3, ReadGoing, ReadySynSelfGoing, ModFdGoing, WriteGoing, AccountGoing,
     RearmGoing, DealCloseGoing DEF Handler, GInv
<1>4. ASSUME ~aborted, NEW t \in Trackers, TrackerSteps(t) PROVE GInv'
  BY <1>1, <1>4, TrackerReadsGoing, TrackerSpeaksGoing DEF TrackerSteps, GInv
<1>5. CASE UNCHANGED vars
  <2>1. UNCHANGED <<storage, trackers, answers, left, aborted, crossed, doubled>>
    BY <1>5 DEF vars
  <2>2. Lines'
    BY <2>1 DEF GInv, Lines, storage
  <2>3. SUFFICES ASSUME ~aborted', ~crossed', NEW x \in Trackers
                 PROVE  Whole(x)' /\ Replied(x)'
    <3>1. \A y \in Trackers : ~aborted' /\ ~crossed' =>
            Registered(y)' /\ Remembered(y)' /\ Drained(y)'
      BY <2>1, NodeGoes DEF GInv, Going
    <3>2. ~aborted' /\ ~crossed' => ~doubled'
      BY <2>1 DEF GInv, Going
    <3>. QED
      BY <1>1, <2>2, <2>3, <3>1, <3>2 DEF GInv, Going
  <2>4. Whole(x) /\ Replied(x)
    BY <2>1, <2>3 DEF GInv, Going
  <2>5. Whole(x)'
    BY <2>1, <2>4, TrackersSame
  <2>6. Unread(x)' <=> Unread(x)
    BY <2>1 DEF Unread, storage, trackers
  <2>7. Replied(x)'
    BY <2>1, <2>4, <2>6, NodeGoes DEF Replied, Begins, trackers
  <2>. QED
    BY <2>5, <2>7
<1>. QED
  BY <1>2, <1>3, <1>4, <1>5 DEF Next, NodeNext, TrackersNext

(* When nothing more will happen, every tracker has been told that the     *)
(* node is active: what is said to it was sent, read and handled, down to  *)
(* a second line, unless events for one connection crossed.                *)
LEMMA RestsWhenActive == GInv => EndsActive
<1> SUFFICES ASSUME GInv, Settled, ~crossed, ~aborted, NEW t \in Trackers
             PROVE  Status[t] = "active"
  BY DEF EndsActive
<1>1. /\ TypeOK /\ ~doubled
      /\ Whole(t) /\ Registered(t) /\ Remembered(t) /\ Replied(t)
  BY InOrderMeans
<1>2. ASSUME NEW w \in Workers
      PROVE  ~Handles(w, t) /\ ~Wrote(w, t) /\ ~Due(w, t) /\ ~WillSay(w, t)
  <2>1. worker[w] = Idle
    BY DEF Settled
  <2>. QED
    BY <2>1 DEF Idle, Handles, Wrote, Due, Arms, Passed, WillWrite, WillSay
<1>3. armed[t] = "in" /\ answers[t] = 0 /\ serving[t] # "out" /\ link[t] = <<>>
  BY <1>1, <1>2 DEF Settled, Registered, TypeOK
<1>4. UnHandleBytes(sendBuff[t]) = 0
  <2>1. UnHandleBytes(sendBuff[t]) \in Nat
    BY <1>1, SessionBytes, BufferParts
  <2>. QED
    BY <1>1, <1>2, <1>3, <2>1 DEF Remembered
<1>5. Len(said[t]) = Len(handled[t]) + UnHandleBytes(recvBuff[t])
  <2>1. Taken(t) = {0}
    BY <1>2, TakenNone
  <2>2. IsBuffer(sendBuff[t]) /\ IsBuffer(recvBuff[t]) /\ handled[t] \in Bytes
        /\ Unhandled(recvBuff[t]) \in Bytes
        /\ Len(Unhandled(recvBuff[t])) = UnHandleBytes(recvBuff[t])
    BY <1>1, SessionBytes, UnhandledBytes
  <2>3. Unhandled(AddHandled(sendBuff[t], 0)) = <<>>
    BY <1>4, <2>2, RestAll
  <2>4. said[t] = handled[t] \o Unhandled(recvBuff[t]) \o <<>> \o <<>>
    BY <1>1, <1>3, <2>1, <2>3 DEF GInv, IInv, StreamIntact
  <2> DEFINE hr == handled[t] \o Unhandled(recvBuff[t])
  <2>5. hr \in Seq(Byte) /\ Len(hr) = Len(handled[t]) + Len(Unhandled(recvBuff[t]))
    BY <2>2, ConcatProperties DEF Bytes
  <2>6. said[t] = (hr \o <<>>) \o <<>>
    BY <2>4
  <2> HIDE DEF hr
  <2>7. hr \o <<>> = hr
    BY <2>5, ConcatEmptySeq
  <2>. QED
    BY <2>2, <2>5, <2>6, <2>7
<1>6. /\ Len(handled[t]) \in Nat /\ UnHandleBytes(recvBuff[t]) \in Nat
      /\ Len(said[t]) \in Nat /\ Len(said[t]) >= 2
  BY <1>1, HeardAtMost DEF GInv, Lines
<1>7. Len(handled[t]) # 0
  BY <1>1, <1>5, <1>6 DEF Whole
<1>8. Len(handled[t]) # 2
  BY <1>1, <1>2, <1>3, <1>5, <1>6, SessionAssumption DEF Replied, Unread, Begins
<1>9. Len(handled[t]) # 1 /\ Len(handled[t]) # 3
  <2>1. ~Even(1) /\ ~Even(3)
    <3>1. 2 \in Nat /\ Even(2) /\ ~Even(1) /\ 2 + 1 = 3
      BY EvenNumbers
    <3>. QED
      BY <3>1, EvenNumbers
  <2>. QED
    BY <1>1, <2>1 DEF Whole
<1>10. Len(handled[t]) >= 4
  <2> DEFINE n == Len(handled[t])
  <2>1. n \in Nat /\ n # 0 /\ n # 1 /\ n # 2 /\ n # 3
    BY <1>6, <1>7, <1>8, <1>9
  <2> HIDE DEF n
  <2>2. n >= 4
    BY <2>1
  <2>. QED
    BY <2>2 DEF n
<1>. QED
  BY <1>1, <1>10 DEF Whole

(* The bytes said to a tracker reach it once and in order, however reads   *)
(* cut them and buffers move them, unless two workers write at once.       *)
(* While one worker at a time serves and arms a connection, no tracker is  *)
(* cut off, and the session comes to rest only when every tracker has the  *)
(* node as active.                                                         *)
THEOREM SessionIsSound == Spec => []SessionSound
<1>1. GInv => SessionSound
  BY RestsWhenActive DEF GInv, IInv, SessionSound, NeverCutOff, InOrder, Kept
<1>. QED
  BY <1>1, InitGInv, NextGInv, PTL DEF Spec

=============================================================================
