---------------------------- MODULE BufferProofs ----------------------------
(***************************************************************************)
(* Proofs about Buffer, SharedOverflow and HttpResponse, for any initial   *)
(* size, prefix, enlargement and number of threads, any texts of           *)
(* responses, and any chunks that are not larger than the vector was at    *)
(* first.  Without that condition ensureCapacity does not ensure the       *)
(* capacity.                                                               *)
(***************************************************************************)
EXTENDS Buffer, SharedOverflow, HttpResponse, SequenceTheorems, FiniteSetTheorems,
        WellFoundedInduction, TLAPS

ChunksFit == \A str \in Chunks : Len(str) <= InitSize

IsBuffer(b) ==
  /\ b.size \in Nat /\ b.r \in Nat /\ b.w \in Nat
  /\ b.cells \in [0 .. b.size - 1 -> Byte]
  /\ Prepend <= b.r /\ b.r <= b.w /\ b.w <= b.size

(* b holds the bytes of s, and nothing else is unread.                     *)
Holds(b, s) ==
  /\ Len(s) = b.w - b.r
  /\ \A i \in 1 .. Len(s) : b.cells[b.r + i - 1] = s[i]

-----------------------------------------------------------------------------
(* The methods.                                                            *)

(* The indices that the methods compute lie where they should.             *)
LEMMA ShiftedIndex ==
  ASSUME NEW size \in Nat, NEW r \in Nat, NEW w \in Nat, NEW p \in Nat,
         p <= r, r <= w, w <= size
  PROVE  /\ \A i \in p .. p + (w - r) - 1 : r + (i - p) \in 0 .. size - 1
         /\ \A i \in 1 .. w - r : /\ p + i - 1 \in p .. p + (w - r) - 1
                                 /\ p + i - 1 \in 0 .. size - 1
                                 /\ r + ((p + i - 1) - p) = r + i - 1
                                 /\ r + i - 1 \in 0 .. size - 1
                                 /\ r + i - 1 < w
OBVIOUS

LEMMA CopiedIndex ==
  ASSUME NEW size \in Nat, NEW r \in Nat, NEW w \in Nat, NEW n \in Nat,
         r <= w, w + n <= size
  PROVE  /\ \A i \in w .. w + n - 1 : i - w + 1 \in 1 .. n
         /\ \A i \in 1 .. (w - r) + n :
              /\ r + i - 1 \in 0 .. size - 1
              /\ i <= w - r => i \in 1 .. w - r /\ r + i - 1 \notin w .. w + n - 1
              /\ i > w - r => /\ r + i - 1 \in w .. w + n - 1
                             /\ (r + i - 1) - w + 1 = i - (w - r)
                             /\ i - (w - r) \in 1 .. n
OBVIOUS

LEMMA Distributes ==
  ASSUME NEW m \in Nat, NEW k \in Nat
  PROVE  m * (2 + k) = m + m + m * k
OBVIOUS

LEMMA ReformingBufferKeeps ==
  ASSUME NEW b, IsBuffer(b), NEW s \in Seq(Byte), Holds(b, s)
  PROVE  /\ IsBuffer(ReformingBuffer(b))
         /\ Holds(ReformingBuffer(b), s)
         /\ ReformingBuffer(b).size = b.size
         /\ ReformingBuffer(b).r = Prepend
         /\ ReformingBuffer(b).w = Prepend + Len(s)
<1> DEFINE c == ReformingBuffer(b)
<1>1. /\ b.size \in Nat /\ b.r \in Nat /\ b.w \in Nat /\ Prepend \in Nat /\ Len(s) \in Nat
      /\ Prepend <= b.r /\ b.r <= b.w /\ b.w <= b.size /\ Len(s) = b.w - b.r
  BY BufferMethodsAssumption DEF IsBuffer, Holds
<1>2. c = [size |-> b.size,
           cells |-> [i \in 0 .. b.size - 1 |->
                        IF i \in Prepend .. Prepend + Len(s) - 1
                        THEN b.cells[b.r + (i - Prepend)] ELSE b.cells[i]],
           r |-> Prepend, w |-> Prepend + Len(s)]
  BY <1>1 DEF ReformingBuffer, ReadableSize
<1>3. ASSUME NEW i \in 0 .. b.size - 1
      PROVE  (IF i \in Prepend .. Prepend + Len(s) - 1
              THEN b.cells[b.r + (i - Prepend)] ELSE b.cells[i]) \in Byte
  <2>1. i \in Prepend .. Prepend + Len(s) - 1 => b.r + (i - Prepend) \in 0 .. b.size - 1
    BY <1>1, ShiftedIndex
  <2> QED
    BY <2>1 DEF IsBuffer
<1>4. IsBuffer(c)
  <2>1. c.cells \in [0 .. b.size - 1 -> Byte]
    BY <1>2, <1>3
  <2> QED
    BY <1>1, <1>2, <2>1 DEF IsBuffer
<1>5. ASSUME NEW i \in 1 .. Len(s) PROVE c.cells[c.r + i - 1] = s[i]
  <2>1. /\ Prepend + i - 1 \in Prepend .. Prepend + Len(s) - 1
        /\ Prepend + i - 1 \in 0 .. b.size - 1
        /\ b.r + ((Prepend + i - 1) - Prepend) = b.r + i - 1
    BY <1>1, ShiftedIndex, SMTT(30)
  <2>2. c.cells[Prepend + i - 1] = b.cells[b.r + ((Prepend + i - 1) - Prepend)]
    BY <1>2, <2>1
  <2> QED
    BY <1>2, <2>1, <2>2 DEF Holds
<1>6. Len(s) = c.w - c.r
  <2>1. c.w = Prepend + Len(s) /\ c.r = Prepend
    BY <1>2
  <2> QED
    BY <1>1, <2>1
<1>7. Holds(c, s)
  BY <1>5, <1>6 DEF Holds
<1> QED
  BY <1>2, <1>4, <1>7

LEMMA ResizeKeeps ==
  ASSUME NEW b, IsBuffer(b), NEW s \in Seq(Byte), Holds(b, s),
         NEW n \in Nat, n >= b.size
  PROVE  /\ IsBuffer(Resize(b, n)) /\ Holds(Resize(b, n), s)
         /\ Resize(b, n).size = n
         /\ Resize(b, n).r = b.r /\ Resize(b, n).w = b.w
<1> DEFINE c == Resize(b, n)
<1>1. /\ b.size \in Nat /\ b.r \in Nat /\ b.w \in Nat /\ Prepend \in Nat /\ Len(s) \in Nat
      /\ Prepend <= b.r /\ b.r <= b.w /\ b.w <= b.size /\ Len(s) = b.w - b.r
  BY BufferMethodsAssumption DEF IsBuffer, Holds
<1>2. c = [size |-> n,
           cells |-> [i \in 0 .. n - 1 |-> IF i < b.size THEN b.cells[i] ELSE Nul],
           r |-> b.r, w |-> b.w]
  BY DEF Resize
<1>3. \A i \in 0 .. n - 1 : (IF i < b.size THEN b.cells[i] ELSE Nul) \in Byte
  <2>1. \A i \in 0 .. n - 1 : i < b.size => i \in 0 .. b.size - 1
    BY <1>1
  <2> QED
    BY <2>1, BufferMethodsAssumption DEF IsBuffer
<1>4. IsBuffer(c)
  BY <1>1, <1>2, <1>3 DEF IsBuffer
<1>5. ASSUME NEW i \in 1 .. Len(s) PROVE c.cells[c.r + i - 1] = s[i]
  <2>1. b.r + i - 1 \in 0 .. n - 1 /\ b.r + i - 1 < b.size
    BY <1>1, SMTT(30)
  <2> QED
    BY <1>2, <2>1 DEF Holds
<1> QED
  BY <1>1, <1>2, <1>4, <1>5 DEF Holds

(* ensureCapacity makes room for n bytes if the vector has n cells, keeps  *)
(* the unread bytes, and enlarges the vector only when they do not fit.    *)
LEMMA EnsureCapacityMakesRoom ==
  ASSUME NEW b, IsBuffer(b), NEW s \in Seq(Byte), Holds(b, s),
         NEW n \in Nat, n <= b.size
  PROVE  /\ IsBuffer(EnsureCapacity(b, n)) /\ Holds(EnsureCapacity(b, n), s)
         /\ n <= EnsureCapacity(b, n).size - EnsureCapacity(b, n).w
         /\ \/ EnsureCapacity(b, n).size = b.size
            \/ /\ EnsureCapacity(b, n).size = b.size * ExpandFactor
               /\ EnsureCapacity(b, n).size >= b.size
               /\ b.size < Prepend + Len(s) + n
<1>1. /\ b.size \in Nat /\ b.r \in Nat /\ b.w \in Nat /\ Prepend \in Nat /\ Len(s) \in Nat
      /\ Prepend <= b.r /\ b.r <= b.w /\ b.w <= b.size /\ Len(s) = b.w - b.r
  BY BufferMethodsAssumption DEF IsBuffer, Holds
<1>2. CASE CanWriteableDirection(b) >= n
  BY <1>1, <1>2 DEF EnsureCapacity, CanWriteableDirection
<1>3. CASE ~(CanWriteableDirection(b) >= n) /\ CanWriteableTroughtReforming(b) >= n
  <2>1. EnsureCapacity(b, n) = ReformingBuffer(b)
    BY <1>3 DEF EnsureCapacity
  <2>2. b.size - b.w + b.r - Prepend >= n
    BY <1>3 DEF CanWriteableTroughtReforming, CanWriteableDirection
  <2>3. n <= b.size - (Prepend + Len(s))
    BY <1>1, <2>2
  <2> QED
    BY <2>1, <2>3, ReformingBufferKeeps
<1>4. CASE ~(CanWriteableDirection(b) >= n) /\ ~(CanWriteableTroughtReforming(b) >= n)
  <2> DEFINE factor == b.size * ExpandFactor
  <2>1. PICK c : c = ReformingBuffer(b)
    OBVIOUS
  <2>2. IsBuffer(c) /\ Holds(c, s) /\ c.size = b.size /\ c.w = Prepend + Len(s)
    BY <2>1, ReformingBufferKeeps
  <2>3. b.size < Prepend + Len(s) + n
    BY <1>1, <1>4, SMTT(30) DEF CanWriteableTroughtReforming, CanWriteableDirection
  <2>4. factor \in Nat /\ factor >= b.size + b.size
    <3>1. ExpandFactor \in Nat /\ ExpandFactor >= 2
      BY BufferMethodsAssumption
    <3>2. PICK k \in Nat : ExpandFactor = 2 + k
      <4>1. ExpandFactor - 2 \in Nat /\ ExpandFactor = 2 + (ExpandFactor - 2)
        BY <3>1
      <4> QED
        BY <4>1
    <3>3. b.size * k \in Nat
      BY <1>1, <3>2
    <3>4. b.size * (2 + k) = b.size + b.size + b.size * k
      BY <1>1, <3>2, Distributes
    <3> QED
      BY <1>1, <3>2, <3>3, <3>4, SMTT(30)
  <2> HIDE DEF factor
  <2>5. c.w <= b.size
    BY <2>2 DEF IsBuffer
  <2>6. n - (c.size - c.w) <= factor
    BY <1>1, <2>2, <2>4, <2>5
  <2>7. Enlarge(c, n) = Resize(c, factor)
    BY <2>2, <2>6, <1>1, <2>4 DEF Enlarge, CanWriteableDirection, factor
  <2>8. EnsureCapacity(b, n) = Resize(c, factor)
    BY <1>4, <2>1, <2>7 DEF EnsureCapacity
  <2>9. factor >= c.size
    BY <1>1, <2>2, <2>4
  <2>10. /\ IsBuffer(Resize(c, factor)) /\ Holds(Resize(c, factor), s)
         /\ Resize(c, factor).size = factor /\ Resize(c, factor).w = c.w
    BY <2>2, <2>4, <2>9, ResizeKeeps
  <2>11. n <= factor - c.w
    BY <1>1, <2>2, <2>4, <2>5
  <2> QED
    BY <2>2, <2>3, <2>8, <2>9, <2>10, <2>11 DEF factor
<1> QED
  BY <1>2, <1>3, <1>4

LEMMA CopyInAppends ==
  ASSUME NEW b, IsBuffer(b), NEW s \in Seq(Byte), Holds(b, s),
         NEW str \in Seq(Byte), Len(str) <= b.size - b.w
  PROVE  /\ IsBuffer(CopyIn(b, str)) /\ Holds(CopyIn(b, str), s \o str)
         /\ CopyIn(b, str).size = b.size /\ CopyIn(b, str).w = b.w + Len(str)
<1> DEFINE c == CopyIn(b, str)
<1>1. /\ b.size \in Nat /\ b.r \in Nat /\ b.w \in Nat /\ Prepend \in Nat
      /\ Len(s) \in Nat /\ Len(str) \in Nat
      /\ Prepend <= b.r /\ b.r <= b.w /\ b.w <= b.size /\ Len(s) = b.w - b.r
      /\ b.w + Len(str) <= b.size
  BY BufferMethodsAssumption DEF IsBuffer, Holds
<1>2. c = [size |-> b.size,
           cells |-> [i \in 0 .. b.size - 1 |->
                        IF i \in b.w .. b.w + Len(str) - 1
                        THEN str[i - b.w + 1] ELSE b.cells[i]],
           r |-> b.r, w |-> b.w + Len(str)]
  BY DEF CopyIn
<1>3. ASSUME NEW i \in 0 .. b.size - 1
      PROVE  (IF i \in b.w .. b.w + Len(str) - 1 THEN str[i - b.w + 1] ELSE b.cells[i]) \in Byte
  <2>1. i \in b.w .. b.w + Len(str) - 1 => i - b.w + 1 \in 1 .. Len(str)
    BY <1>1, CopiedIndex
  <2>2. \A j \in 1 .. Len(str) : str[j] \in Byte
    BY ElementOfSeq
  <2> QED
    BY <2>1, <2>2 DEF IsBuffer
<1>4. IsBuffer(c)
  BY <1>1, <1>2, <1>3 DEF IsBuffer
<1>5. Len(s \o str) = Len(s) + Len(str)
  BY ConcatProperties
<1>6. ASSUME NEW i \in 1 .. Len(s) + Len(str) PROVE c.cells[c.r + i - 1] = (s \o str)[i]
  <2>0. i \in 1 .. (b.w - b.r) + Len(str) /\ i \in Nat
    BY <1>1, <1>6
  <2>1. b.r + i - 1 \in 0 .. b.size - 1
    BY <1>1, <2>0, CopiedIndex
  <2>2. CASE i <= Len(s)
    <3>1. b.r + i - 1 \notin b.w .. b.w + Len(str) - 1 /\ i \in 1 .. Len(s)
      BY <1>1, <2>0, <2>2, CopiedIndex, SMTT(30)
    <3>2. (s \o str)[i] = s[i]
      BY <3>1, ConcatProperties
    <3> QED
      BY <1>2, <2>1, <3>1, <3>2 DEF Holds
  <2>3. CASE i > Len(s)
    <3>1. /\ b.r + i - 1 \in b.w .. b.w + Len(str) - 1
          /\ (b.r + i - 1) - b.w + 1 = i - Len(s)
      <4>1. i > b.w - b.r
        BY <1>1, <2>3
      <4>2. /\ b.r + i - 1 \in b.w .. b.w + Len(str) - 1
            /\ (b.r + i - 1) - b.w + 1 = i - (b.w - b.r)
        BY <1>1, <2>0, <4>1, CopiedIndex
      <4> QED
        BY <1>1, <4>2
    <3>2. (s \o str)[i] = str[i - Len(s)]
      <4>1. i \in 1 .. Len(s) + Len(str) /\ ~(i <= Len(s))
        BY <1>1, <1>6, <2>0, <2>3
      <4> QED
        BY <4>1, ConcatProperties
    <3>3. c.cells[b.r + i - 1] = str[(b.r + i - 1) - b.w + 1]
      BY <1>2, <2>1, <3>1
    <3> QED
      BY <1>2, <3>1, <3>2, <3>3
  <2> QED
    BY <1>1, <2>0, <2>2, <2>3, SMTT(30)
<1>7. Len(s \o str) = c.w - c.r
  BY <1>1, <1>2, <1>5
<1>8. Holds(c, s \o str)
  BY <1>5, <1>6, <1>7 DEF Holds
<1> QED
  BY <1>2, <1>4, <1>8

LEMMA ConcatAssoc ==
  ASSUME NEW s \in Seq(Byte), NEW t \in Seq(Byte), NEW u \in Seq(Byte)
  PROVE  (s \o t) \o u = s \o (t \o u)
BY ConcatAssociative

(* Two adjacent pieces of a sequence.                                      *)
LEMMA Pieces ==
  ASSUME NEW s \in Seq(Byte), NEW n \in 0 .. Len(s)
  PROVE  /\ SubSeq(s, 1, n) \in Seq(Byte) /\ Len(SubSeq(s, 1, n)) = n
         /\ \A i \in 1 .. n : SubSeq(s, 1, n)[i] = s[i]
         /\ SubSeq(s, n + 1, Len(s)) \in Seq(Byte)
         /\ Len(SubSeq(s, n + 1, Len(s))) = Len(s) - n
         /\ \A i \in 1 .. Len(s) - n : SubSeq(s, n + 1, Len(s))[i] = s[n + i]
         /\ SubSeq(s, 1, n) \o SubSeq(s, n + 1, Len(s)) = s
<1>1. Len(s) \in Nat /\ n \in Nat /\ n <= Len(s)
  OBVIOUS
<1>2. \A i \in 1 .. Len(s) : s[i] \in Byte
  BY ElementOfSeq
<1>3. /\ SubSeq(s, 1, n) \in Seq(Byte) /\ Len(SubSeq(s, 1, n)) = n
      /\ \A i \in 1 .. n : SubSeq(s, 1, n)[i] = s[i]
  BY <1>1, <1>2
<1>4. /\ SubSeq(s, n + 1, Len(s)) \in Seq(Byte)
      /\ Len(SubSeq(s, n + 1, Len(s))) = Len(s) - n
  BY <1>1, <1>2
<1>5. \A i \in 1 .. Len(s) - n : SubSeq(s, n + 1, Len(s))[i] = s[n + i]
  BY <1>1, <1>2, <1>4
<1>6. SubSeq(s, 1, n) \o SubSeq(s, n + 1, Len(s)) = s
  <2>1. /\ 1 \in 1 .. Len(s) + 1 /\ n \in 1 - 1 .. Len(s) /\ Len(s) \in n .. Len(s)
    BY <1>1
  <2> QED
    BY <2>1, ConcatAdjacentSubSeq, SubSeqFull
<1> QED
  BY <1>3, <1>4, <1>5, <1>6

LEMMA AppendToAppends ==
  ASSUME NEW b, IsBuffer(b), NEW s \in Seq(Byte), Holds(b, s),
         NEW str \in Seq(Byte), Len(str) <= b.size
  PROVE  /\ IsBuffer(AppendTo(b, str)) /\ Holds(AppendTo(b, str), s \o str)
         /\ \/ AppendTo(b, str).size = b.size
            \/ /\ AppendTo(b, str).size = b.size * ExpandFactor
               /\ AppendTo(b, str).size >= b.size
               /\ b.size < Prepend + Len(s) + Len(str)
<1>1. PICK c : c = EnsureCapacity(b, Len(str))
  OBVIOUS
<1>2. Len(str) \in Nat
  OBVIOUS
<1>3. /\ IsBuffer(c) /\ Holds(c, s) /\ Len(str) <= c.size - c.w
      /\ \/ c.size = b.size
         \/ /\ c.size = b.size * ExpandFactor
            /\ c.size >= b.size
            /\ b.size < Prepend + Len(s) + Len(str)
  BY <1>1, <1>2, EnsureCapacityMakesRoom
<1>4. AppendTo(b, str) = CopyIn(c, str)
  BY <1>1 DEF AppendTo
<1> QED
  BY <1>3, <1>4, CopyInAppends

LEMMA ReceivedAppends ==
  ASSUME NEW b, IsBuffer(b), NEW s \in Seq(Byte), Holds(b, s),
         NEW str \in Seq(Byte), Len(str) <= b.size
  PROVE  /\ IsBuffer(Received(b, str)) /\ Holds(Received(b, str), s \o str)
         /\ \/ Received(b, str).size = b.size
            \/ /\ Received(b, str).size = b.size * ExpandFactor
               /\ Received(b, str).size >= b.size
               /\ b.size < Prepend + Len(s) + Len(str)
<1>1. PICK direct : direct = b.size - b.w
  OBVIOUS
<1>2. direct \in Nat /\ Len(str) \in Nat /\ Len(s) \in Nat /\ b.size \in Nat
  BY <1>1 DEF IsBuffer
<1>3. CASE ~(Len(str) > direct)
  <2>1. Received(b, str) = CopyIn(b, str) /\ Len(str) <= b.size - b.w
    BY <1>1, <1>2, <1>3 DEF Received, CanWriteableDirection
  <2> QED
    BY <2>1, CopyInAppends
<1>4. CASE Len(str) > direct
  <2>1. PICK x1 : x1 = SubSeq(str, 1, direct)
    OBVIOUS
  <2>2. PICK x2 : x2 = SubSeq(str, direct + 1, Len(str))
    OBVIOUS
  <2>3. direct \in 0 .. Len(str)
    BY <1>2, <1>4
  <2>4. /\ x1 \in Seq(Byte) /\ Len(x1) = direct
        /\ x2 \in Seq(Byte) /\ Len(x2) = Len(str) - direct
        /\ x1 \o x2 = str
    BY <2>1, <2>2, <2>3, Pieces
  <2>5. PICK c : c = CopyIn(b, x1)
    OBVIOUS
  <2>6. IsBuffer(c) /\ Holds(c, s \o x1) /\ c.size = b.size
    BY <1>1, <1>2, <2>4, <2>5, CopyInAppends
  <2>7. s \o x1 \in Seq(Byte) /\ Len(s \o x1) = Len(s) + direct
    BY <2>4, ConcatProperties
  <2>8. Len(x2) <= c.size
    BY <1>2, <1>4, <2>4, <2>6
  <2>9. Received(b, str) = AppendTo(c, x2)
    BY <1>1, <1>4, <2>1, <2>2, <2>5 DEF Received, CanWriteableDirection
  <2>10. /\ IsBuffer(AppendTo(c, x2)) /\ Holds(AppendTo(c, x2), (s \o x1) \o x2)
         /\ \/ AppendTo(c, x2).size = c.size
            \/ /\ AppendTo(c, x2).size = c.size * ExpandFactor
               /\ AppendTo(c, x2).size >= c.size
               /\ c.size < Prepend + Len(s \o x1) + Len(x2)
    BY <2>4, <2>6, <2>7, <2>8, AppendToAppends
  <2>11. (s \o x1) \o x2 = s \o str
    BY <2>4, ConcatAssoc
  <2>12. Prepend + Len(s \o x1) + Len(x2) = Prepend + Len(s) + Len(str)
    BY <1>2, <2>4, <2>7, BufferMethodsAssumption
  <2> QED
    BY <2>6, <2>9, <2>10, <2>11, <2>12
<1> QED
  BY <1>3, <1>4

(* What Peek shows and retrieve leaves are the two pieces of what was      *)
(* unread.                                                                 *)
LEMMA RetrieveSplits ==
  ASSUME NEW b, IsBuffer(b), NEW s \in Seq(Byte), Holds(b, s),
         NEW n \in Nat, n <= b.w - b.r
  PROVE  \E s1, s2 \in Seq(Byte) :
           /\ s = s1 \o s2 /\ Len(s1) = n
           /\ Peek(b, n) = s1
           /\ IsBuffer(RetrieveFrom(b, n)) /\ Holds(RetrieveFrom(b, n), s2)
<1>1. /\ b.size \in Nat /\ b.r \in Nat /\ b.w \in Nat /\ Len(s) = b.w - b.r
      /\ b.r <= b.w /\ b.w <= b.size /\ Prepend <= b.r /\ Prepend \in Nat
      /\ n <= Len(s) /\ Len(s) \in Nat
  BY BufferMethodsAssumption DEF IsBuffer, Holds
<1>2. PICK c : c = RetrieveFrom(b, n)
  OBVIOUS
<1>3. c = [size |-> b.size, cells |-> b.cells, r |-> b.r + n, w |-> b.w]
  BY <1>2 DEF RetrieveFrom
<1>4. PICK s1 : s1 = SubSeq(s, 1, n)
  OBVIOUS
<1>5. PICK s2 : s2 = SubSeq(s, n + 1, Len(s))
  OBVIOUS
<1>6. /\ s1 \in Seq(Byte) /\ Len(s1) = n /\ \A i \in 1 .. n : s1[i] = s[i]
      /\ s2 \in Seq(Byte) /\ Len(s2) = Len(s) - n
      /\ \A i \in 1 .. Len(s) - n : s2[i] = s[n + i]
      /\ s1 \o s2 = s
  <2>1. n \in 0 .. Len(s)
    BY <1>1
  <2> QED
    BY <1>4, <1>5, <2>1, Pieces
<1>7. Peek(b, n) = s1
  <2>1. \A i \in 1 .. n : b.cells[b.r + i - 1] = s1[i] /\ s1[i] \in Byte
    <3>1. \A i \in 1 .. n : i \in 1 .. Len(s)
      BY <1>1
    <3>2. \A i \in 1 .. n : s1[i] \in Byte
      BY <1>6, ElementOfSeq
    <3> QED
      BY <1>6, <3>1, <3>2 DEF Holds
  <2>2. Peek(b, n) \in Seq(Byte) /\ Len(Peek(b, n)) = n
    <3>1. Peek(b, n) = [i \in 1 .. n |-> s1[i]]
      BY <2>1 DEF Peek
    <3>2. [i \in 1 .. n |-> s1[i]] \in Seq(Byte)
      BY <2>1, IsASeq
    <3>3. Len([i \in 1 .. n |-> s1[i]]) = n
      OBVIOUS
    <3> QED
      BY <3>1, <3>2, <3>3
  <2>3. \A i \in 1 .. n : Peek(b, n)[i] = s1[i]
    BY <2>1 DEF Peek
  <2> QED
    BY <1>6, <2>2, <2>3, SeqEqual
<1>8. IsBuffer(c)
  BY <1>1, <1>3 DEF IsBuffer
<1>9. Holds(c, s2)
  <2>1. Len(s2) = c.w - c.r
    BY <1>1, <1>3, <1>6
  <2>2. ASSUME NEW i \in 1 .. Len(s2) PROVE c.cells[c.r + i - 1] = s2[i]
    <3>1. Len(s2) = Len(s) - n /\ i \in 1 .. Len(s) - n
      BY <1>6
    <3>2. n + i \in 1 .. Len(s) /\ b.r + n + i - 1 = b.r + (n + i) - 1
      BY <1>1, <3>1
    <3> QED
      BY <1>3, <1>6, <3>1, <3>2 DEF Holds
  <2> QED
    BY <2>1, <2>2 DEF Holds
<1> QED
  BY <1>2, <1>6, <1>7, <1>8, <1>9

-----------------------------------------------------------------------------
(* The steps.                                                              *)

LEMMA ScaledOrder ==
  ASSUME NEW m \in Nat, NEW n \in Nat, NEW k \in Nat, k >= 2, m < n
  PROVE  m * k < k * n
<1>1. PICK d \in Nat : n = m + d /\ d >= 1
  <2>1. n - m \in Nat /\ n = m + (n - m) /\ n - m >= 1
    OBVIOUS
  <2> QED
    BY <2>1
<1>2. k * (m + d) = m * k + k * d
  OBVIOUS
<1>3. PICK e \in Nat : d = 1 + e
  <2>1. d - 1 \in Nat /\ d = 1 + (d - 1)
    BY <1>1
  <2> QED
    BY <2>1
<1>4. k * (1 + e) = k + k * e /\ k * e \in Nat
  OBVIOUS
<1>5. m * k \in Nat
  OBVIOUS
<1> QED
  BY <1>1, <1>2, <1>3, <1>4, <1>5

LEMMA PrefixOfConcat ==
  ASSUME NEW s \in Seq(Byte), NEW t \in Seq(Byte)
  PROVE  s = SubSeq(s \o t, 1, Len(s))
<1>1. /\ s \o t \in Seq(Byte) /\ Len(s \o t) = Len(s) + Len(t)
      /\ \A i \in 1 .. Len(s) + Len(t) :
           (s \o t)[i] = IF i <= Len(s) THEN s[i] ELSE t[i - Len(s)]
  BY ConcatProperties
<1>2. Len(s) \in Nat /\ Len(t) \in Nat
  OBVIOUS
<1>3. \A i \in 1 .. Len(s) : (s \o t)[i] = s[i] /\ s[i] \in Byte
  BY <1>1, <1>2, ElementOfSeq
<1>4. /\ SubSeq(s \o t, 1, Len(s)) \in Seq(Byte)
      /\ Len(SubSeq(s \o t, 1, Len(s))) = Len(s)
      /\ \A i \in 1 .. Len(s) : SubSeq(s \o t, 1, Len(s))[i] = (s \o t)[i]
  BY <1>1, <1>2, <1>3
<1> QED
  BY <1>3, <1>4, SeqEqual

BufferInv ==
  /\ IsBuffer(buff)
  /\ InitSize <= buff.size
  /\ ReadableSize(buff) <= MaxUnread
  /\ BoundedSize
  /\ written \in Seq(Byte) /\ taken \in Seq(Byte)
  /\ \E s \in Seq(Byte) : Holds(buff, s) /\ written = taken \o s

LEMMA BufferInit == Init => BufferInv
<1> SUFFICES ASSUME Init PROVE BufferInv
  OBVIOUS
<1>1. /\ buff = [size |-> InitSize, cells |-> [i \in 0 .. InitSize - 1 |-> Nul],
                r |-> Prepend, w |-> Prepend]
      /\ written = <<>> /\ taken = <<>>
  BY DEF Init, NewBuffer
<1>2. IsBuffer(buff) /\ InitSize <= buff.size /\ BoundedSize
  BY <1>1, BufferMethodsAssumption DEF IsBuffer, BoundedSize
<1>3. ReadableSize(buff) <= MaxUnread
  BY <1>1, BufferAssumption, BufferMethodsAssumption DEF ReadableSize
<1>4. <<>> \in Seq(Byte) /\ Len(<<>>) = 0 /\ <<>> = <<>> \o <<>>
  OBVIOUS
<1>5. Holds(buff, <<>>)
  BY <1>1, <1>4, BufferMethodsAssumption DEF Holds
<1> QED
  BY <1>1, <1>2, <1>3, <1>4, <1>5 DEF BufferInv

(* Both ways of writing leave a buffer that holds what was unread followed *)
(* by what is new, no larger than it has to be.                            *)
LEMMA WriteStep ==
  ASSUME BufferInv, NEW str \in Seq(Byte), MayWrite(str),
         written' = written \o str, taken' = taken,
         IsBuffer(buff'),
         \A s \in Seq(Byte) : Holds(buff, s) => Holds(buff', s \o str),
         \/ buff'.size = buff.size
         \/ /\ buff'.size = buff.size * ExpandFactor
            /\ buff'.size >= buff.size
            /\ buff.size < Prepend + ReadableSize(buff) + Len(str)
  PROVE  BufferInv' /\ Stream!Write
<1>1. PICK s \in Seq(Byte) : Holds(buff, s) /\ written = taken \o s
  BY DEF BufferInv
<1>2. /\ s \o str \in Seq(Byte) /\ Len(s \o str) = Len(s) + Len(str)
      /\ written \o str \in Seq(Byte) /\ Len(written \o str) = Len(written) + Len(str)
  BY ConcatProperties DEF BufferInv
<1>3. Holds(buff', s \o str)
  BY <1>1
<1>4. written' = taken' \o (s \o str)
  BY <1>1, ConcatAssoc DEF BufferInv
<1>5. ReadableSize(buff') <= MaxUnread
  BY <1>1, <1>2, <1>3 DEF MayWrite, ReadableSize, Holds
<1>6. BoundedSize'
  <2>1. /\ buff.size \in Nat /\ Prepend + MaxUnread \in Nat
        /\ ReadableSize(buff) + Len(str) <= MaxUnread
        /\ ReadableSize(buff) \in Nat /\ Len(str) \in Nat
    <3>1. /\ buff.size \in Nat /\ buff.r \in Nat /\ buff.w \in Nat /\ buff.r <= buff.w
      BY DEF BufferInv, IsBuffer
    <3>2. ReadableSize(buff) \in Nat
      BY <3>1 DEF ReadableSize
    <3> QED
      BY <3>1, <3>2, BufferAssumption, BufferMethodsAssumption DEF MayWrite
  <2>2. CASE buff'.size = buff.size
    BY <2>2 DEF BufferInv, BoundedSize
  <2>3. CASE buff'.size = buff.size * ExpandFactor
             /\ buff.size < Prepend + ReadableSize(buff) + Len(str)
    <3>1. buff.size < Prepend + MaxUnread
      BY <2>1, <2>3, BufferAssumption, BufferMethodsAssumption
    <3>2. buff.size * ExpandFactor < ExpandFactor * (Prepend + MaxUnread)
      BY <2>1, <3>1, BufferMethodsAssumption, ScaledOrder
    <3> QED
      BY <2>3, <3>2 DEF BoundedSize
  <2> QED
    BY <2>2, <2>3
<1>7. InitSize <= buff'.size
  BY BufferMethodsAssumption DEF BufferInv, IsBuffer
<1>8. BufferInv'
  BY <1>2, <1>3, <1>4, <1>5, <1>6, <1>7 DEF BufferInv
<1>9. written = SubSeq(written', 1, Len(written))
  BY PrefixOfConcat DEF BufferInv
<1> QED
  BY <1>2, <1>8, <1>9 DEF Stream!Write

LEMMA RetrieveStep ==
  ASSUME BufferInv, NEW n \in Nat, Retrieve(n)
  PROVE  BufferInv' /\ Stream!Take
<1>1. PICK s \in Seq(Byte) : Holds(buff, s) /\ written = taken \o s
  BY DEF BufferInv
<1>2. /\ n <= buff.w - buff.r
      /\ taken' = taken \o Peek(buff, n)
      /\ buff' = RetrieveFrom(buff, n)
      /\ written' = written
  BY DEF Retrieve, ReadableSize
<1>3. /\ buff.size \in Nat /\ buff.r \in Nat /\ buff.w \in Nat
      /\ buff.r <= buff.w /\ MaxUnread \in Nat /\ buff.w - buff.r <= MaxUnread
  BY BufferAssumption DEF BufferInv, IsBuffer, ReadableSize
<1>4. PICK s1, s2 \in Seq(Byte) :
        /\ s = s1 \o s2 /\ Peek(buff, n) = s1
        /\ IsBuffer(buff') /\ Holds(buff', s2)
  <2>1. IsBuffer(buff) /\ n <= buff.w - buff.r
    BY <1>2 DEF BufferInv
  <2>2. PICK s1, s2 \in Seq(Byte) :
          /\ s = s1 \o s2 /\ Peek(buff, n) = s1
          /\ IsBuffer(RetrieveFrom(buff, n)) /\ Holds(RetrieveFrom(buff, n), s2)
    BY <1>1, <2>1, RetrieveSplits, ZenonT(60)
  <2> QED
    BY <1>2, <2>2
<1>5. buff'.size = buff.size /\ buff'.r = buff.r + n /\ buff'.w = buff.w
  BY <1>2 DEF RetrieveFrom
<1>6. InitSize <= buff'.size /\ ReadableSize(buff') <= MaxUnread /\ BoundedSize'
  BY <1>3, <1>5 DEF BufferInv, ReadableSize, BoundedSize
<1>7. taken \in Seq(Byte) /\ taken' = taken \o s1
  BY <1>2, <1>4 DEF BufferInv
<1>8. taken' \in Seq(Byte) /\ written = taken' \o s2
  <2>1. (taken \o s1) \o s2 = taken \o (s1 \o s2)
    BY <1>4, <1>7, ConcatAssoc
  <2> QED
    BY <1>1, <1>4, <1>7, <2>1, ConcatProperties
<1>9. BufferInv'
  BY <1>2, <1>4, <1>6, <1>8 DEF BufferInv
<1>10. Len(taken') >= Len(taken)
  <2>1. Len(taken \o s1) = Len(taken) + Len(s1) /\ Len(taken) \in Nat /\ Len(s1) \in Nat
    BY <1>4, <1>7, ConcatProperties
  <2> QED
    BY <1>7, <2>1
<1>11. taken = SubSeq(taken', 1, Len(taken))
  BY <1>4, <1>7, PrefixOfConcat
<1>12. taken' = SubSeq(written, 1, Len(taken'))
  BY <1>4, <1>8, PrefixOfConcat
<1> QED
  BY <1>2, <1>9, <1>10, <1>11, <1>12 DEF Stream!Take

LEMMA UnreadIsHeld ==
  ASSUME BufferInv, NEW s \in Seq(Byte), Holds(buff, s)
  PROVE  ReadableSize(buff) = Len(s)
BY DEF Holds, ReadableSize

LEMMA ChunkStep ==
  ASSUME BufferInv, ChunksFit, NEW str \in Chunks, AppendBytes(str) \/ ReadFromFD(str)
  PROVE  BufferInv' /\ Stream!Write
<1>1. str \in Seq(Byte) /\ Len(str) <= InitSize /\ Len(str) \in Nat
  BY BufferAssumption DEF ChunksFit
<1>2. /\ IsBuffer(buff) /\ buff.size \in Nat /\ InitSize <= buff.size
      /\ InitSize \in Nat
  BY BufferMethodsAssumption DEF BufferInv, IsBuffer
<1>3. Len(str) <= buff.size
  BY <1>1, <1>2
<1>4. PICK s \in Seq(Byte) : Holds(buff, s)
  BY DEF BufferInv
<1>5. ReadableSize(buff) = Len(s)
  BY <1>4, UnreadIsHeld
<1>6. MayWrite(str) /\ written' = written \o str /\ taken' = taken
  BY DEF AppendBytes, ReadFromFD
<1>7. CASE AppendBytes(str)
  <2>1. buff' = AppendTo(buff, str)
    BY <1>7 DEF AppendBytes
  <2>2. \A t \in Seq(Byte) : Holds(buff, t) => Holds(buff', t \o str)
    BY <1>1, <1>2, <1>3, <2>1, AppendToAppends
  <2>3. /\ IsBuffer(buff')
        /\ \/ buff'.size = buff.size
           \/ /\ buff'.size = buff.size * ExpandFactor
              /\ buff'.size >= buff.size
              /\ buff.size < Prepend + ReadableSize(buff) + Len(str)
    BY <1>1, <1>2, <1>3, <1>4, <1>5, <2>1, AppendToAppends
  <2> QED
    BY <1>1, <1>6, <2>2, <2>3, WriteStep
<1>8. CASE ReadFromFD(str)
  <2>1. buff' = Received(buff, str)
    BY <1>8 DEF ReadFromFD
  <2>2. \A t \in Seq(Byte) : Holds(buff, t) => Holds(buff', t \o str)
    BY <1>1, <1>2, <1>3, <2>1, ReceivedAppends
  <2>3. /\ IsBuffer(buff')
        /\ \/ buff'.size = buff.size
           \/ /\ buff'.size = buff.size * ExpandFactor
              /\ buff'.size >= buff.size
              /\ buff.size < Prepend + ReadableSize(buff) + Len(str)
    BY <1>1, <1>2, <1>3, <1>4, <1>5, <2>1, ReceivedAppends
  <2> QED
    BY <1>1, <1>6, <2>2, <2>3, WriteStep
<1> QED
  BY <1>7, <1>8

(* Every step keeps the invariant and is a step of the stream or a stutter.*)
LEMMA BufferNext ==
  ASSUME BufferInv, ChunksFit, [Next]_vars
  PROVE  BufferInv' /\ [Stream!Next]_(Stream!vars)
<1>1. ASSUME NEW str \in Chunks, AppendBytes(str) \/ ReadFromFD(str)
      PROVE  BufferInv' /\ Stream!Write
  BY <1>1, ChunkStep
<1>2. ASSUME NEW n \in 1 .. MaxUnread, Retrieve(n)
      PROVE  BufferInv' /\ Stream!Take
  <2>1. n \in Nat
    BY BufferAssumption
  <2> QED
    BY <1>2, <2>1, RetrieveStep
<1>3. ASSUME RetrieveUtilCRLF
      PROVE  BufferInv' /\ Stream!Take
  <2>1. PICK p \in FindCRLF(buff) : p > buff.r /\ Retrieve(p - buff.r)
    BY <1>3 DEF RetrieveUtilCRLF
  <2>2. p \in buff.r .. buff.w
    BY DEF FindCRLF, LineEnds
  <2>3. p - buff.r \in Nat
    BY <2>1, <2>2 DEF BufferInv, IsBuffer
  <2> QED
    BY <2>1, <2>3, RetrieveStep
<1>4. ASSUME UNCHANGED vars
      PROVE  BufferInv' /\ UNCHANGED Stream!vars
  <2>1. buff' = buff /\ written' = written /\ taken' = taken
    BY <1>4 DEF vars
  <2> QED
    BY <2>1 DEF BufferInv, BoundedSize, Stream!vars
<1> QED
  BY <1>1, <1>2, <1>3, <1>4 DEF Next, Stream!Next

LEMMA BufferInvConsequences ==
  ASSUME BufferInv
  PROVE  TypeOK /\ Layout /\ BoundedSize
BY DEF BufferInv, IsBuffer, TypeOK, Layout, PartsInOrder

-----------------------------------------------------------------------------
(* The theorems.                                                           *)

(* BufferInv is inductive.                                                 *)
THEOREM BufferInvariant == ChunksFit => (Spec => []BufferInv)
<1>1. Init => BufferInv
  BY BufferInit
<1>2. ChunksFit /\ BufferInv /\ [Next]_vars => BufferInv'
  BY BufferNext
<1>3. SUFFICES ASSUME ChunksFit PROVE Spec => []BufferInv
  OBVIOUS
<1>4. BufferInv /\ [Next]_vars => BufferInv'
  BY <1>2, <1>3
<1> QED
  BY <1>1, <1>4, PTL DEF Spec

(* The positions, the sizes and the streams have their types as long as no *)
(* chunk is larger than the vector was at first.                           *)
THEOREM BufferTypeCorrect == ChunksFit => (Spec => []TypeOK)
<1>1. BufferInv => TypeOK
  BY BufferInvConsequences
<1> QED
  BY <1>1, BufferInvariant, PTL

(* The picture in Buffer.hpp: prefix, read position, write position and    *)
(* the end of the vector come in that order.  Nothing is ever copied       *)
(* behind the end.                                                         *)
THEOREM LayoutHolds == ChunksFit => (Spec => []Layout)
<1>1. BufferInv => Layout
  BY BufferInvConsequences
<1> QED
  BY <1>1, BufferInvariant, PTL

(* The vector stays within a factor of what was ever unread at once,       *)
(* however long the stream.                                                *)
THEOREM BoundedSizeHolds == ChunksFit => (Spec => []BoundedSize)
<1>1. BufferInv => BoundedSize
  BY BufferInvConsequences
<1> QED
  BY <1>1, BufferInvariant, PTL

(* A Buffer delivers the stream that was written, in order and complete.   *)
THEOREM ImplementsByteStream == ChunksFit => (Spec => ByteStreamSpec)
<1>1. Init => Stream!Init
  BY DEF Init, Stream!Init
<1>2. SUFFICES ASSUME ChunksFit PROVE Spec => ByteStreamSpec
  OBVIOUS
<1>3. BufferInv /\ [Next]_vars => [Stream!Next]_(Stream!vars)
  BY <1>2, BufferNext
<1>4. Spec => []BufferInv
  BY <1>2, BufferInvariant
<1> QED
  BY <1>1, <1>3, <1>4, PTL DEF Spec, ByteStreamSpec, Stream!Spec

-----------------------------------------------------------------------------
(* Buffers that share the overflow array.                                  *)

(* No thread reads at once more than a vector has at first.                *)
ArrivalsFit == \A n \in Arrivals : n <= InitSize

(* x is what a thread has of its stream, o what is in tmpBuff for it, k    *)
(* where it was at risk, w all that its peer has sent.                     *)
Agrees(x, o, k, w) ==
  /\ Len(x) + Len(o) = Len(w)
  /\ k \subseteq 1 .. Len(x)
  /\ \A i \in 1 .. Len(x) : i \notin k => x[i] = w[i]
  /\ \A i \in 1 .. Len(o) : o[i] = w[Len(x) + i]

(* The positions that the cells shared with the racers r come to.          *)
Risks(o, r, w) == {Len(w) - Len(o) + i : i \in UNION {Shared(o, q) : q \in r}}

LEMMA NoBytes == <<>> \in Seq(Byte) /\ Len(<<>>) = 0
OBVIOUS

(* The cells of two sequences put together, by the lengths of the parts.   *)
LEMMA ConcatCells ==
  ASSUME NEW x \in Seq(Byte), NEW y \in Seq(Byte),
         NEW m \in Nat, NEW n \in Nat, Len(x) = m, Len(y) = n
  PROVE  /\ x \o y \in Seq(Byte) /\ Len(x \o y) = m + n
         /\ \A i \in 1 .. m + n : (x \o y)[i] = IF i <= m THEN x[i] ELSE y[i - m]
<1>1. /\ x \o y \in Seq(Byte) /\ Len(x \o y) = Len(x) + Len(y)
      /\ \A i \in 1 .. Len(x) + Len(y) :
           (x \o y)[i] = IF i <= Len(x) THEN x[i] ELSE y[i - Len(x)]
  BY ConcatProperties
<1>2. Len(x) + Len(y) = m + n
  OBVIOUS
<1>3. 1 .. Len(x) + Len(y) = 1 .. m + n
  BY <1>2
<1>4. ASSUME NEW i \in 1 .. m + n
      PROVE  (x \o y)[i] = IF i <= m THEN x[i] ELSE y[i - m]
  <2>1. i \in 1 .. Len(x) + Len(y)
    BY <1>3
  <2>2. PICK z : z = x \o y
    OBVIOUS
  <2>3. z[i] = IF i <= Len(x) THEN x[i] ELSE y[i - Len(x)]
    BY <1>1, <2>1, <2>2
  <2>4. z[i] = IF i <= m THEN x[i] ELSE y[i - m]
    BY <2>3
  <2> QED
    BY <2>2, <2>4
<1> QED
  BY <1>1, <1>2, <1>4

LEMMA AgreesDirect ==
  ASSUME NEW x \in Seq(Byte), NEW w \in Seq(Byte), NEW k, NEW str \in Seq(Byte),
         Agrees(x, <<>>, k, w)
  PROVE  Agrees(x \o str, <<>>, k, w \o str)
<1>1. Len(x) \in Nat /\ Len(w) = Len(x) /\ Len(str) \in Nat
  BY NoBytes DEF Agrees
<1>2. /\ Len(x \o str) = Len(x) + Len(str) /\ Len(w \o str) = Len(x) + Len(str)
      /\ \A i \in 1 .. Len(x) + Len(str) :
           /\ (x \o str)[i] = IF i <= Len(x) THEN x[i] ELSE str[i - Len(x)]
           /\ (w \o str)[i] = IF i <= Len(x) THEN w[i] ELSE str[i - Len(x)]
  BY <1>1, ConcatCells
<1>3. k \subseteq 1 .. Len(x) + Len(str)
  BY <1>1 DEF Agrees
<1>4. ASSUME NEW i \in 1 .. Len(x) + Len(str), i \notin k
      PROVE  (x \o str)[i] = (w \o str)[i]
  <2>1. i <= Len(x) => x[i] = w[i]
    BY <1>1, <1>4 DEF Agrees
  <2> QED
    BY <1>2, <2>1
<1> QED
  BY <1>1, <1>2, <1>3, <1>4, NoBytes DEF Agrees

LEMMA AgreesOver ==
  ASSUME NEW x \in Seq(Byte), NEW w \in Seq(Byte), NEW k,
         NEW s1 \in Seq(Byte), NEW s2 \in Seq(Byte),
         Agrees(x, <<>>, k, w)
  PROVE  Agrees(x \o s1, s2, k, w \o (s1 \o s2))
<1>1. Agrees(x \o s1, <<>>, k, w \o s1)
  BY AgreesDirect
<1>2. PICK y : y = x \o s1
  OBVIOUS
<1>3. PICK v : v = w \o s1
  OBVIOUS
<1>4. /\ y \in Seq(Byte) /\ v \in Seq(Byte) /\ Len(y) \in Nat /\ Len(v) = Len(y)
      /\ Len(s2) \in Nat
  BY <1>1, <1>2, <1>3, ConcatProperties, NoBytes DEF Agrees
<1>5. v \o s2 = w \o (s1 \o s2)
  BY <1>3, ConcatAssoc
<1>6. /\ Len(v \o s2) = Len(y) + Len(s2)
      /\ \A i \in 1 .. Len(y) + Len(s2) :
           (v \o s2)[i] = IF i <= Len(y) THEN v[i] ELSE s2[i - Len(y)]
  <2>0. v \in Seq(Byte)
    BY <1>4
  <2>1. PICK m \in Nat : m = Len(y) /\ m = Len(v)
    BY <1>4
  <2>2. PICK n \in Nat : n = Len(s2)
    BY <1>4
  <2>3. /\ Len(v \o s2) = m + n
        /\ \A i \in 1 .. m + n : (v \o s2)[i] = IF i <= m THEN v[i] ELSE s2[i - m]
    BY <2>0, <2>1, <2>2, ConcatCells
  <2> QED
    BY <2>1, <2>2, <2>3, Zenon
<1>7. ASSUME NEW i \in 1 .. Len(y), i \notin k PROVE y[i] = (v \o s2)[i]
  <2>1. y[i] = v[i]
    BY <1>1, <1>2, <1>3, <1>7 DEF Agrees
  <2>2. i \in 1 .. Len(y) + Len(s2) /\ i <= Len(y)
    BY <1>4
  <2> QED
    BY <1>6, <2>1, <2>2
<1>8. ASSUME NEW i \in 1 .. Len(s2) PROVE s2[i] = (v \o s2)[Len(y) + i]
  <2>1. /\ Len(y) + i \in 1 .. Len(y) + Len(s2) /\ ~(Len(y) + i <= Len(y))
        /\ (Len(y) + i) - Len(y) = i
    BY <1>4
  <2> QED
    BY <1>6, <2>1
<1>9. k \subseteq 1 .. Len(y)
  BY <1>1, <1>2 DEF Agrees
<1>10. Agrees(y, s2, k, v \o s2)
  BY <1>4, <1>6, <1>7, <1>8, <1>9 DEF Agrees
<1> QED
  BY <1>2, <1>5, <1>10

(* What is appended differs from what was put aside only in shared cells.  *)
LEMMA AgreesAppend ==
  ASSUME NEW x \in Seq(Byte), NEW w \in Seq(Byte), NEW k, NEW o \in Seq(Byte), NEW r,
         NEW str \in Seq(Byte), Len(str) = Len(o),
         \A q \in r : q \in Seq(Byte),
         \A i \in 1 .. Len(o) : str[i] = o[i] \/ \E q \in r : i \in Shared(o, q),
         Agrees(x, o, k, w)
  PROVE  Agrees(x \o str, <<>>, k \union Risks(o, r, w), w)
<1>1. /\ Len(x) \in Nat /\ Len(o) \in Nat /\ Len(w) = Len(x) + Len(o)
      /\ Len(w) - Len(o) = Len(x)
  BY DEF Agrees
<1>2. /\ Len(x \o str) = Len(x) + Len(o)
      /\ \A i \in 1 .. Len(x) + Len(o) :
           (x \o str)[i] = IF i <= Len(x) THEN x[i] ELSE str[i - Len(x)]
  <2>1. PICK m \in Nat : m = Len(x)
    BY <1>1
  <2>2. PICK n \in Nat : n = Len(o) /\ n = Len(str)
    BY <1>1
  <2>3. /\ Len(x \o str) = m + n
        /\ \A i \in 1 .. m + n : (x \o str)[i] = IF i <= m THEN x[i] ELSE str[i - m]
    BY <2>1, <2>2, ConcatCells, SMTT(30)
  <2> QED
    BY <2>1, <2>2, <2>3, Zenon
<1>3. Risks(o, r, w) \subseteq 1 .. Len(x) + Len(o)
  <2>1. \A q \in r : Shared(o, q) \subseteq 1 .. Len(o)
    BY <1>1 DEF Shared
  <2>2. \A i \in 1 .. Len(o) : Len(x) + i \in 1 .. Len(x) + Len(o)
    BY <1>1
  <2> QED
    BY <1>1, <2>1, <2>2 DEF Risks
<1>4. k \subseteq 1 .. Len(x) + Len(o)
  BY <1>1 DEF Agrees
<1>5. ASSUME NEW i \in 1 .. Len(x) + Len(o), i \notin k \union Risks(o, r, w)
      PROVE  (x \o str)[i] = w[i]
  <2>1. CASE i <= Len(x)
    <3>1. i \in 1 .. Len(x)
      BY <1>1, <2>1
    <3>2. x[i] = w[i]
      BY <1>5, <3>1 DEF Agrees
    <3> QED
      BY <1>2, <2>1, <3>2
  <2>2. CASE ~(i <= Len(x))
    <3>1. PICK j \in 1 .. Len(o) : i = Len(x) + j /\ i - Len(x) = j
      <4>1. i - Len(x) \in 1 .. Len(o) /\ i = Len(x) + (i - Len(x))
        BY <1>1, <2>2
      <4> QED
        BY <4>1
    <3>2. \A q \in r : j \notin Shared(o, q)
      BY <1>1, <1>5, <3>1 DEF Risks
    <3>3. str[j] = o[j] /\ o[j] = w[Len(x) + j]
      BY <3>1, <3>2 DEF Agrees
    <3> QED
      BY <1>2, <2>2, <3>1, <3>3
  <2> QED
    BY <2>1, <2>2
<1>6. PICK y : y = x \o str
  OBVIOUS
<1>7. PICK e \in Seq(Byte) : e = <<>> /\ Len(e) = 0
  BY NoBytes
<1>8. PICK j : j = k \union Risks(o, r, w)
  OBVIOUS
<1>9. /\ Len(y) = Len(x) + Len(o) /\ j \subseteq 1 .. Len(x) + Len(o)
      /\ \A i \in 1 .. Len(x) + Len(o) : i \notin j => y[i] = w[i]
  BY <1>2, <1>3, <1>4, <1>5, <1>6, <1>8
<1>10. /\ Len(y) + Len(e) = Len(w)
       /\ \A i \in 1 .. Len(e) : e[i] = w[Len(y) + i]
  BY <1>1, <1>7, <1>9
<1>11. /\ j \subseteq 1 .. Len(y)
       /\ \A i \in 1 .. Len(y) : i \notin j => y[i] = w[i]
  BY <1>9
<1>12. Agrees(y, e, j, w)
  BY <1>10, <1>11 DEF Agrees
<1> QED
  BY <1>6, <1>7, <1>8, <1>12

(* What is true of one thread: its buffer b is well formed, and with what  *)
(* was taken out of it (t), its unread bytes agree with what its peer sent *)
(* but for what is in tmpBuff (o) and what was at risk there (k).          *)
Sound(b, o, r, k, w, t) ==
  /\ IsBuffer(b) /\ InitSize <= b.size
  /\ o \in Seq(Byte) /\ w \in Seq(Byte) /\ t \in Seq(Byte)
  /\ Len(o) <= InitSize /\ Len(o) <= TmpSize
  /\ \A q \in r : q \in Seq(Byte) /\ Len(q) <= TmpSize
  /\ o = <<>> => r = {}
  /\ \E s \in Seq(Byte) : Holds(b, s) /\ Agrees(t \o s, o, k, w)

LEMMA CopyInKeepsSize ==
  ASSUME NEW b, NEW str
  PROVE  CopyIn(b, str).size = b.size
BY DEF CopyIn

LEMMA SoundDirect ==
  ASSUME NEW b, NEW r, NEW k, NEW w, NEW t, Sound(b, <<>>, r, k, w, t),
         NEW str \in Seq(Byte), Len(str) <= CanWriteableDirection(b)
  PROVE  Sound(CopyIn(b, str), <<>>, r, k, w \o str, t)
<1>1. /\ IsBuffer(b) /\ w \in Seq(Byte) /\ t \in Seq(Byte) /\ InitSize <= b.size
      /\ Len(str) <= b.size - b.w
  BY DEF Sound, CanWriteableDirection
<1>2. PICK s \in Seq(Byte) : Holds(b, s) /\ Agrees(t \o s, <<>>, k, w)
  BY DEF Sound
<1>3. IsBuffer(CopyIn(b, str)) /\ Holds(CopyIn(b, str), s \o str)
  BY <1>1, <1>2, CopyInAppends
<1>4. /\ t \o s \in Seq(Byte) /\ s \o str \in Seq(Byte) /\ w \o str \in Seq(Byte)
      /\ (t \o s) \o str = t \o (s \o str)
  BY <1>1, <1>2, ConcatAssoc, ConcatProperties
<1>5. Agrees((t \o s) \o str, <<>>, k, w \o str)
  BY <1>1, <1>2, <1>4, AgreesDirect
<1>6. Agrees(t \o (s \o str), <<>>, k, w \o str)
  BY <1>4, <1>5
<1> QED
  BY <1>1, <1>3, <1>4, <1>6, CopyInKeepsSize DEF Sound

LEMMA SoundOver ==
  ASSUME NEW b, NEW r, NEW k, NEW w, NEW t, Sound(b, <<>>, {}, k, w, t),
         NEW str \in Seq(Byte), NEW n, n = CanWriteableDirection(b),
         n < Len(str), Len(str) <= n + TmpSize, Len(str) <= InitSize,
         \A q \in r : q \in Seq(Byte) /\ Len(q) <= TmpSize
  PROVE  /\ SubSeq(str, n + 1, Len(str)) # <<>>
         /\ SubSeq(str, n + 1, Len(str)) \in Seq(Byte)
         /\ Len(SubSeq(str, n + 1, Len(str))) <= TmpSize
         /\ Sound(CopyIn(b, SubSeq(str, 1, n)), SubSeq(str, n + 1, Len(str)),
                  r, k, w \o str, t)
<1>1. /\ IsBuffer(b) /\ w \in Seq(Byte) /\ t \in Seq(Byte) /\ InitSize <= b.size
      /\ n = b.size - b.w
  BY DEF Sound, CanWriteableDirection
<1>2. PICK s \in Seq(Byte) : Holds(b, s) /\ Agrees(t \o s, <<>>, k, w)
  BY DEF Sound
<1>3. /\ Len(str) \in Nat /\ TmpSize \in Nat /\ InitSize \in Nat
      /\ n \in Nat /\ n \in 0 .. Len(str)
  BY <1>1, BufferMethodsAssumption, SMTT(30) DEF IsBuffer
<1>4. PICK s1, s2 \in Seq(Byte) :
        /\ s1 = SubSeq(str, 1, n) /\ s2 = SubSeq(str, n + 1, Len(str))
        /\ Len(s1) = n /\ Len(s2) = Len(str) - n /\ s1 \o s2 = str
  <2>1. /\ SubSeq(str, 1, n) \in Seq(Byte) /\ Len(SubSeq(str, 1, n)) = n
        /\ SubSeq(str, n + 1, Len(str)) \in Seq(Byte)
        /\ Len(SubSeq(str, n + 1, Len(str))) = Len(str) - n
        /\ SubSeq(str, 1, n) \o SubSeq(str, n + 1, Len(str)) = str
    BY <1>3, Pieces
  <2> QED
    BY <2>1, Zenon
<1>5. s2 # <<>> /\ Len(s2) <= TmpSize /\ Len(s2) <= InitSize
  <2>1. Len(str) - n > 0 /\ Len(str) - n <= TmpSize /\ Len(str) - n <= InitSize
    BY <1>3
  <2>2. PICK m : m = Len(str) - n
    OBVIOUS
  <2>3. Len(s2) = m /\ m > 0 /\ m <= TmpSize /\ m <= InitSize
    BY <1>4, <2>1, <2>2, Zenon
  <2> QED
    BY <2>3, NoBytes
<1>6. IsBuffer(CopyIn(b, s1)) /\ Holds(CopyIn(b, s1), s \o s1)
  <2>1. Len(s1) <= b.size - b.w
    BY <1>1, <1>3, <1>4
  <2> QED
    BY <1>1, <1>2, <1>4, <2>1, CopyInAppends
<1>7. /\ t \o s \in Seq(Byte) /\ s \o s1 \in Seq(Byte) /\ w \o str \in Seq(Byte)
      /\ (t \o s) \o s1 = t \o (s \o s1)
  <2>1. t \o s \in Seq(Byte)
    BY <1>1, <1>2, ConcatProperties
  <2>2. s \o s1 \in Seq(Byte)
    BY <1>2, <1>4, ConcatProperties
  <2>3. w \o str \in Seq(Byte)
    BY <1>1, ConcatProperties
  <2>4. (t \o s) \o s1 = t \o (s \o s1)
    <3>1. t \in Seq(Byte) /\ s \in Seq(Byte) /\ s1 \in Seq(Byte)
      BY <1>1, <1>2, <1>4
    <3> QED
      BY <3>1, ConcatAssoc, SMTT(30)
  <2> QED
    BY <2>1, <2>2, <2>3, <2>4
<1>8. Agrees((t \o s) \o s1, s2, k, w \o (s1 \o s2))
  BY <1>1, <1>2, <1>4, <1>7, AgreesOver
<1>9. Agrees(t \o (s \o s1), s2, k, w \o str)
  BY <1>4, <1>7, <1>8
<1>10. Sound(CopyIn(b, s1), s2, r, k, w \o str, t)
  BY <1>1, <1>5, <1>6, <1>7, <1>9, CopyInKeepsSize DEF Sound
<1> QED
  BY <1>4, <1>5, <1>10

LEMMA SoundAppend ==
  ASSUME NEW b, NEW o, NEW r, NEW k, NEW w, NEW t, Sound(b, o, r, k, w, t),
         NEW str \in Seq(Byte), Len(str) = Len(o),
         \A i \in 1 .. Len(o) : str[i] = o[i] \/ \E q \in r : i \in Shared(o, q)
  PROVE  Sound(AppendTo(b, str), <<>>, {}, k \union Risks(o, r, w), w, t)
<1>1. /\ IsBuffer(b) /\ o \in Seq(Byte) /\ w \in Seq(Byte) /\ t \in Seq(Byte)
      /\ InitSize <= b.size /\ Len(o) <= InitSize
      /\ \A q \in r : q \in Seq(Byte)
  BY DEF Sound
<1>2. PICK s \in Seq(Byte) : Holds(b, s) /\ Agrees(t \o s, o, k, w)
  BY DEF Sound
<1>3. Len(str) \in Nat /\ b.size \in Nat /\ Len(str) <= b.size
  BY <1>1, BufferMethodsAssumption DEF IsBuffer
<1>4. /\ IsBuffer(AppendTo(b, str)) /\ Holds(AppendTo(b, str), s \o str)
      /\ AppendTo(b, str).size = b.size \/ AppendTo(b, str).size >= b.size
  BY <1>1, <1>2, <1>3, AppendToAppends
<1>5. InitSize <= AppendTo(b, str).size
  BY <1>1, <1>3, <1>4, BufferMethodsAssumption DEF IsBuffer
<1>6. /\ t \o s \in Seq(Byte) /\ s \o str \in Seq(Byte)
      /\ (t \o s) \o str = t \o (s \o str)
  BY <1>1, <1>2, ConcatAssoc, ConcatProperties, SMTT(30)
<1>7. Agrees((t \o s) \o str, <<>>, k \union Risks(o, r, w), w)
  BY <1>1, <1>2, <1>6, AgreesAppend
<1>8. Len(<<>>) <= InitSize /\ Len(<<>>) <= TmpSize /\ <<>> \in Seq(Byte)
  BY NoBytes, BufferMethodsAssumption
<1> QED
  BY <1>1, <1>4, <1>5, <1>6, <1>7, <1>8 DEF Sound

LEMMA SoundRetrieve ==
  ASSUME NEW b, NEW r, NEW k, NEW w, NEW t, Sound(b, <<>>, r, k, w, t),
         NEW n \in Nat, n <= ReadableSize(b)
  PROVE  Sound(RetrieveFrom(b, n), <<>>, r, k, w, t \o Peek(b, n))
<1>1. /\ IsBuffer(b) /\ w \in Seq(Byte) /\ t \in Seq(Byte) /\ n <= b.w - b.r
  BY DEF Sound, ReadableSize
<1>2. PICK s \in Seq(Byte) : Holds(b, s) /\ Agrees(t \o s, <<>>, k, w)
  BY DEF Sound
<1>3. PICK s1, s2 \in Seq(Byte) :
        /\ s = s1 \o s2 /\ Peek(b, n) = s1
        /\ IsBuffer(RetrieveFrom(b, n)) /\ Holds(RetrieveFrom(b, n), s2)
  BY <1>1, <1>2, RetrieveSplits, ZenonT(60)
<1>4. t \o s1 \in Seq(Byte) /\ (t \o s1) \o s2 = t \o s
  <2>1. t \o s1 \in Seq(Byte)
    BY <1>1, <1>3, ConcatProperties
  <2>2. (t \o s1) \o s2 = t \o (s1 \o s2)
    BY <1>1, <1>3, ConcatAssoc, SMTT(30)
  <2> QED
    BY <1>3, <2>1, <2>2
<1>5. RetrieveFrom(b, n).size = b.size
  BY DEF RetrieveFrom
<1> QED
  BY <1>1, <1>2, <1>3, <1>4, <1>5 DEF Sound

(* Somebody else puts bytes into tmpBuff while o is there.                 *)
LEMMA SoundRaced ==
  ASSUME NEW b, NEW o, NEW r, NEW k, NEW w, NEW t, Sound(b, o, r, k, w, t), o # <<>>,
         NEW q \in Seq(Byte), Len(q) <= TmpSize
  PROVE  Sound(b, o, r \union {q}, k, w, t)
BY DEF Sound

(* Each thread is sound, whatever the others do.                           *)
SoundThread(t) ==
  Sound(buffOf[t], over[t], racers[t], atRisk[t], writtenOf[t], takenOf[t])

OnThreads ==
  /\ DOMAIN buffOf = Threads /\ DOMAIN over = Threads /\ DOMAIN racers = Threads
  /\ DOMAIN atRisk = Threads /\ DOMAIN writtenOf = Threads /\ DOMAIN takenOf = Threads

OverflowInv == OnThreads /\ \A t \in Threads : SoundThread(t)

LEMMA NextBytesAreBytes ==
  ASSUME OverflowInv, NEW t \in Threads, NEW n \in Nat, Len(writtenOf[t]) + n <= MaxSent
  PROVE  NextBytes(t, n) \in Seq(Byte) /\ Len(NextBytes(t, n)) = n
<1>1. Len(writtenOf[t]) \in Nat /\ MaxSent \in Nat
  BY SharedOverflowAssumption DEF OverflowInv, SoundThread, Sound
<1>2. \A i \in 1 .. n : Len(writtenOf[t]) + i \in 1 .. MaxSent
  BY <1>1
<1>3. \A i \in 1 .. n : <<t, Len(writtenOf[t]) + i>> \in Byte
  BY <1>2, SharedOverflowAssumption
<1> QED
  BY <1>3, SMTT(30) DEF NextBytes

LEMMA OverflowInitSound == OverflowInit => OverflowInv
<1> SUFFICES ASSUME OverflowInit, NEW t \in Threads PROVE OnThreads /\ SoundThread(t)
  BY DEF OverflowInv, OverflowInit, OnThreads
<1>1. OnThreads
  BY DEF OverflowInit, OnThreads
<1>2. /\ buffOf[t] = NewBuffer /\ over[t] = <<>> /\ racers[t] = {}
      /\ atRisk[t] = {} /\ writtenOf[t] = <<>> /\ takenOf[t] = <<>>
  BY DEF OverflowInit
<1>3. PICK b : b = NewBuffer
  OBVIOUS
<1>4. b = [size |-> InitSize, cells |-> [i \in 0 .. InitSize - 1 |-> Nul],
           r |-> Prepend, w |-> Prepend]
  BY <1>3 DEF NewBuffer
<1>5. PICK e \in Seq(Byte) : e = <<>> /\ Len(e) = 0 /\ e \o e = e
  <2>1. <<>> \in Seq(Byte) /\ Len(<<>>) = 0 /\ <<>> \o <<>> = <<>>
    OBVIOUS
  <2> QED
    BY <2>1
<1>6. IsBuffer(b) /\ InitSize <= b.size /\ Holds(b, e)
  BY <1>4, <1>5, BufferMethodsAssumption DEF IsBuffer, Holds
<1>7. Agrees(e \o e, e, {}, e)
  BY <1>5 DEF Agrees
<1>8. Sound(b, e, {}, {}, e, e)
  <2>1. Len(e) <= InitSize /\ Len(e) <= TmpSize
    BY <1>5, BufferMethodsAssumption
  <2>2. \E x \in Seq(Byte) : Holds(b, x) /\ Agrees(e \o x, e, {}, e)
    BY <1>5, <1>6, <1>7
  <2> QED
    BY <1>6, <2>1, <2>2 DEF Sound
<1>9. Sound(NewBuffer, <<>>, {}, {}, <<>>, <<>>)
  BY <1>3, <1>5, <1>8
<1> QED
  BY <1>1, <1>2, <1>9 DEF SoundThread

LEMMA ReadDirectSound ==
  ASSUME OverflowInv, NEW t \in Threads, NEW n \in Nat, ReadDirect(t, n)
  PROVE  OverflowInv'
<1>1. /\ over[t] = <<>> /\ Len(writtenOf[t]) + n <= MaxSent
      /\ n <= CanWriteableDirection(buffOf[t])
  BY DEF ReadDirect, InReadFromFD
<1>2. PICK str \in Seq(Byte) : str = NextBytes(t, n) /\ Len(str) = n
  BY <1>1, NextBytesAreBytes
<1>3. /\ buffOf' = [buffOf EXCEPT ![t] = CopyIn(buffOf[t], str)]
      /\ writtenOf' = [writtenOf EXCEPT ![t] = writtenOf[t] \o str]
      /\ UNCHANGED <<over, racers, atRisk, takenOf>>
  BY <1>2 DEF ReadDirect
<1>4. OnThreads'
  BY <1>3 DEF OverflowInv, OnThreads
<1>5. ASSUME NEW u \in Threads PROVE SoundThread(u)'
  <2>1. CASE u = t
    <3>1. Sound(CopyIn(buffOf[t], str), <<>>, racers[t], atRisk[t],
                writtenOf[t] \o str, takenOf[t])
      BY <1>1, <1>2, SoundDirect DEF OverflowInv, SoundThread
    <3>2. buffOf'[t] = CopyIn(buffOf[t], str) /\ writtenOf'[t] = writtenOf[t] \o str
      BY <1>3 DEF OverflowInv, OnThreads
    <3> QED
      BY <1>1, <1>3, <2>1, <3>1, <3>2 DEF SoundThread
  <2>2. CASE u # t
    <3>1. buffOf'[u] = buffOf[u] /\ writtenOf'[u] = writtenOf[u]
      BY <1>3, <2>2 DEF OverflowInv, OnThreads
    <3> QED
      BY <1>3, <3>1 DEF OverflowInv, SoundThread
  <2> QED
    BY <2>1, <2>2
<1> QED
  BY <1>4, <1>5 DEF OverflowInv

LEMMA ReadOverSound ==
  ASSUME ArrivalsFit, OverflowInv, NEW t \in Threads, NEW n \in Arrivals, n \in Nat,
         ReadOver(t, n)
  PROVE  OverflowInv'
<1>1. PICK direct : direct = CanWriteableDirection(buffOf[t])
  OBVIOUS
<1>2. /\ over[t] = <<>> /\ Len(writtenOf[t]) + n <= MaxSent
      /\ direct < n /\ n <= direct + TmpSize /\ n <= InitSize
  BY <1>1 DEF ReadOver, InReadFromFD, ArrivalsFit
<1>3. PICK str \in Seq(Byte) : str = NextBytes(t, n) /\ Len(str) = n
  BY <1>2, NextBytesAreBytes
<1>4. PICK rest : rest = SubSeq(str, direct + 1, n)
  OBVIOUS
<1>5. /\ buffOf' = [buffOf EXCEPT ![t] = CopyIn(buffOf[t], SubSeq(str, 1, direct))]
      /\ writtenOf' = [writtenOf EXCEPT ![t] = writtenOf[t] \o str]
      /\ over' = [over EXCEPT ![t] = rest]
      /\ racers' = [u \in Threads |->
                      IF u = t THEN {over[o] : o \in {o \in Threads : InReadFromFD(o)}}
                      ELSE IF InReadFromFD(u) THEN racers[u] \union {rest} ELSE {}]
      /\ atRisk' = atRisk /\ takenOf' = takenOf
  BY <1>1, <1>3, <1>4 DEF ReadOver, PutAside
<1>6. OnThreads'
  BY <1>5 DEF OverflowInv, OnThreads
<1>7. \A q \in racers'[t] : q \in Seq(Byte) /\ Len(q) <= TmpSize
  <2>1. racers'[t] = {over[o] : o \in {o \in Threads : InReadFromFD(o)}}
    BY <1>5
  <2> QED
    BY <2>1 DEF OverflowInv, SoundThread, Sound
<1>8. /\ rest # <<>> /\ rest \in Seq(Byte) /\ Len(rest) <= TmpSize
      /\ Sound(CopyIn(buffOf[t], SubSeq(str, 1, direct)), rest, racers'[t], atRisk[t],
               writtenOf[t] \o str, takenOf[t])
  <2>1. Sound(buffOf[t], <<>>, {}, atRisk[t], writtenOf[t], takenOf[t])
    BY <1>2 DEF OverflowInv, SoundThread, Sound
  <2>2. rest = SubSeq(str, direct + 1, Len(str))
    BY <1>3, <1>4
  <2> QED
    BY <1>1, <1>2, <1>3, <1>7, <2>1, <2>2, SoundOver
<1>9. SoundThread(t)'
  <2>1. /\ buffOf'[t] = CopyIn(buffOf[t], SubSeq(str, 1, direct))
        /\ writtenOf'[t] = writtenOf[t] \o str /\ over'[t] = rest
    BY <1>5 DEF OverflowInv, OnThreads
  <2> QED
    BY <1>5, <1>8, <2>1 DEF SoundThread
<1>10. ASSUME NEW u \in Threads, u # t PROVE SoundThread(u)'
  <2>1. /\ buffOf'[u] = buffOf[u] /\ writtenOf'[u] = writtenOf[u] /\ over'[u] = over[u]
        /\ atRisk'[u] = atRisk[u] /\ takenOf'[u] = takenOf[u]
        /\ racers'[u] = IF over[u] # <<>> THEN racers[u] \union {rest} ELSE {}
    BY <1>5, <1>10 DEF OverflowInv, OnThreads, InReadFromFD
  <2>2. Sound(buffOf[u], over[u], racers[u], atRisk[u], writtenOf[u], takenOf[u])
    BY DEF OverflowInv, SoundThread
  <2>3. CASE over[u] = <<>>
    <3>1. racers[u] = {} /\ racers'[u] = {}
      BY <2>1, <2>2, <2>3 DEF Sound
    <3> QED
      BY <2>1, <2>2, <3>1 DEF SoundThread
  <2>4. CASE over[u] # <<>>
    <3>1. Sound(buffOf[u], over[u], racers[u] \union {rest}, atRisk[u], writtenOf[u],
                takenOf[u])
      BY <1>8, <2>2, <2>4, SoundRaced
    <3> QED
      BY <2>1, <2>4, <3>1 DEF SoundThread
  <2> QED
    BY <2>3, <2>4
<1> QED
  BY <1>6, <1>9, <1>10 DEF OverflowInv

LEMMA AppendOverSound ==
  ASSUME OverflowInv, NEW t \in Threads, AppendOver(t)
  PROVE  OverflowInv'
<1>1. PICK str \in MayFind(t) :
        /\ over[t] # <<>>
        /\ buffOf' = [buffOf EXCEPT ![t] = AppendTo(buffOf[t], str)]
  BY DEF AppendOver, InReadFromFD
<1>2. PICK k : k = atRisk[t] \union Risks(over[t], racers[t], writtenOf[t])
  OBVIOUS
<1>3. /\ atRisk' = [atRisk EXCEPT ![t] = k]
      /\ over' = [over EXCEPT ![t] = <<>>]
      /\ racers' = [racers EXCEPT ![t] = {}]
      /\ UNCHANGED <<writtenOf, takenOf>>
  BY <1>2 DEF AppendOver, Risks
<1>4. /\ str \in Seq(Byte) /\ Len(str) = Len(over[t])
      /\ \A i \in 1 .. Len(over[t]) :
           str[i] = over[t][i] \/ \E q \in racers[t] : i \in Shared(over[t], q)
  <2>1. Len(over[t]) \in Nat
    BY DEF OverflowInv, SoundThread, Sound
  <2> QED
    BY <2>1 DEF MayFind
<1>5. OnThreads'
  BY <1>1, <1>3 DEF OverflowInv, OnThreads
<1>6. ASSUME NEW u \in Threads PROVE SoundThread(u)'
  <2>1. CASE u = t
    <3>1. Sound(AppendTo(buffOf[t], str), <<>>, {}, k, writtenOf[t], takenOf[t])
      BY <1>2, <1>4, SoundAppend DEF OverflowInv, SoundThread
    <3>2. /\ buffOf'[t] = AppendTo(buffOf[t], str) /\ over'[t] = <<>>
          /\ racers'[t] = {} /\ atRisk'[t] = k
      BY <1>1, <1>3 DEF OverflowInv, OnThreads
    <3> QED
      BY <1>3, <2>1, <3>1, <3>2 DEF SoundThread
  <2>2. CASE u # t
    <3>1. /\ buffOf'[u] = buffOf[u] /\ over'[u] = over[u]
          /\ racers'[u] = racers[u] /\ atRisk'[u] = atRisk[u]
      BY <1>1, <1>3, <2>2 DEF OverflowInv, OnThreads
    <3> QED
      BY <1>3, <3>1 DEF OverflowInv, SoundThread
  <2> QED
    BY <2>1, <2>2
<1> QED
  BY <1>5, <1>6 DEF OverflowInv

LEMMA RetrieveSound ==
  ASSUME OverflowInv, NEW t \in Threads, NEW n \in Nat, RetrieveOf(t, n)
  PROVE  OverflowInv'
<1>1. /\ over[t] = <<>> /\ n <= ReadableSize(buffOf[t])
      /\ buffOf' = [buffOf EXCEPT ![t] = RetrieveFrom(buffOf[t], n)]
      /\ takenOf' = [takenOf EXCEPT ![t] = takenOf[t] \o Peek(buffOf[t], n)]
      /\ UNCHANGED <<over, racers, atRisk, writtenOf>>
  BY DEF RetrieveOf, InReadFromFD
<1>2. OnThreads'
  BY <1>1 DEF OverflowInv, OnThreads
<1>3. ASSUME NEW u \in Threads PROVE SoundThread(u)'
  <2>1. CASE u = t
    <3>1. Sound(RetrieveFrom(buffOf[t], n), <<>>, racers[t], atRisk[t], writtenOf[t],
                takenOf[t] \o Peek(buffOf[t], n))
      BY <1>1, SoundRetrieve DEF OverflowInv, SoundThread
    <3>2. /\ buffOf'[t] = RetrieveFrom(buffOf[t], n)
          /\ takenOf'[t] = takenOf[t] \o Peek(buffOf[t], n)
      BY <1>1 DEF OverflowInv, OnThreads
    <3> QED
      BY <1>1, <2>1, <3>1, <3>2 DEF SoundThread
  <2>2. CASE u # t
    <3>1. buffOf'[u] = buffOf[u] /\ takenOf'[u] = takenOf[u]
      BY <1>1, <2>2 DEF OverflowInv, OnThreads
    <3> QED
      BY <1>1, <3>1 DEF OverflowInv, SoundThread
  <2> QED
    BY <2>1, <2>2
<1> QED
  BY <1>2, <1>3 DEF OverflowInv

LEMMA OverflowConsequences ==
  ASSUME OverflowInv
  PROVE  BuffersApart
<1>1. ASSUME NEW t \in Threads
      PROVE  /\ PartsInOrder(buffOf[t])
             /\ Len(StreamOf(t)) + Len(over[t]) = Len(writtenOf[t])
             /\ \A k \in 1 .. Len(StreamOf(t)) :
                  k \notin atRisk[t] => StreamOf(t)[k] = writtenOf[t][k]
             /\ atRisk[t] \subseteq 1 .. Len(writtenOf[t])
             /\ IsBuffer(buffOf[t])
             /\ writtenOf[t] \in Seq(Byte) /\ takenOf[t] \in Seq(Byte)
             /\ Len(over[t]) <= TmpSize
             /\ \A q \in racers[t] : Len(q) <= TmpSize
             /\ racers[t] # {} => over[t] # <<>>
  <2>1. Sound(buffOf[t], over[t], racers[t], atRisk[t], writtenOf[t], takenOf[t])
    BY DEF OverflowInv, SoundThread
  <2>2. PICK s \in Seq(Byte) :
          /\ Holds(buffOf[t], s)
          /\ Agrees(takenOf[t] \o s, over[t], atRisk[t], writtenOf[t])
    BY <2>1 DEF Sound
  <2>3. StreamOf(t) = takenOf[t] \o s
    <3>1. ReadableSize(buffOf[t]) = Len(s) /\ Len(s) \in Nat
      BY <2>2 DEF Holds, ReadableSize
    <3>2. Peek(buffOf[t], Len(s)) = s
      BY <2>2 DEF Peek, Holds
    <3> QED
      BY <3>1, <3>2 DEF StreamOf
  <2>4. PICK x \in Seq(Byte) : x = StreamOf(t) /\ x = takenOf[t] \o s
    BY <2>1, <2>2, <2>3, ConcatProperties DEF Sound
  <2>5. Agrees(x, over[t], atRisk[t], writtenOf[t])
    BY <2>2, <2>4
  <2>6. Len(x) + Len(over[t]) = Len(writtenOf[t])
        /\ Len(over[t]) \in Nat /\ Len(writtenOf[t]) \in Nat /\ Len(x) \in Nat
    BY <2>1, <2>5 DEF Sound, Agrees
  <2>7. atRisk[t] \subseteq 1 .. Len(writtenOf[t])
    BY <2>5, <2>6 DEF Agrees
  <2>8. \A k \in 1 .. Len(x) : k \notin atRisk[t] => x[k] = writtenOf[t][k]
    BY <2>5 DEF Agrees
  <2> QED
    BY <2>1, <2>4, <2>6, <2>7, <2>8 DEF Sound, IsBuffer, PartsInOrder
<1>2. OverflowTypeOK
  BY <1>1 DEF OverflowTypeOK, IsBuffer, InReadFromFD
<1>3. CountsRight
  BY <1>1 DEF CountsRight
<1>4. OnlyOverlapsMix
  BY <1>1 DEF OnlyOverlapsMix
<1> QED
  BY <1>2, <1>3, <1>4 DEF BuffersApart

(* The buffers of any number of threads that share tmpBuff stay well       *)
(* formed and hold as many bytes as came, and a byte is another's only     *)
(* where two threads were between readv and the end of append at the same  *)
(* time and both wrote its cell.                                           *)
THEOREM BuffersApartHolds == ArrivalsFit => (OverflowSpec => []BuffersApart)
<1> SUFFICES ASSUME ArrivalsFit PROVE OverflowSpec => []BuffersApart
  OBVIOUS
<1>1. ArrivalsFit /\ OverflowInv /\ [OverflowNext]_overflowVars => OverflowInv'
  <2> SUFFICES ASSUME ArrivalsFit, OverflowInv, [OverflowNext]_overflowVars
               PROVE  OverflowInv'
    OBVIOUS
  <2>1. CASE UNCHANGED overflowVars
    BY <2>1 DEF OverflowInv, OnThreads, SoundThread, overflowVars
  <2>2. ASSUME NEW t \in Threads, NEW n \in Arrivals, ReadDirect(t, n) PROVE OverflowInv'
    BY <2>2, ReadDirectSound, SharedOverflowAssumption
  <2>3. ASSUME NEW t \in Threads, NEW n \in Arrivals, ReadOver(t, n) PROVE OverflowInv'
    BY <2>3, ReadOverSound, SharedOverflowAssumption
  <2>4. ASSUME NEW t \in Threads, AppendOver(t) PROVE OverflowInv'
    BY <2>4, AppendOverSound
  <2>5. ASSUME NEW t \in Threads, NEW n \in 1 .. MaxSent, RetrieveOf(t, n)
        PROVE  OverflowInv'
    BY <2>5, RetrieveSound
  <2> QED
    BY <2>1, <2>2, <2>3, <2>4, <2>5 DEF OverflowNext
<1> QED
  BY <1>1, OverflowInitSound, OverflowConsequences, PTL DEF OverflowSpec

-----------------------------------------------------------------------------
(* Folds.                                                                  *)

(* Induction over the naturals, with a set for the predicate.              *)
LEMMA SetInduction ==
  ASSUME NEW S, 0 \in S, \A n \in Nat : n \in S => n + 1 \in S
  PROVE  Nat \subseteq S
<1> SUFFICES ASSUME Nat \ S # {} PROVE FALSE
  OBVIOUS
<1>1. PICK R : IsWellFoundedOn(R, Nat) /\ \A m, n \in Nat : m < n => <<m, n>> \in R
  BY NatLessThanWellFounded DEF OpToRel
<1>2. PICK n \in Nat \ S : \A m \in Nat \ S : ~(<<m, n>> \in R)
  <2> DEFINE T == Nat \ S
  <2>1. IsWellFoundedOn(R, Nat) /\ T \subseteq Nat /\ T # {}
    BY <1>1
  <2> HIDE DEF T
  <2>2. \E n \in T : \A m \in T : ~(<<m, n>> \in R)
    BY <2>1, WFMin
  <2> QED
    BY <2>2 DEF T
<1>3. n # 0 /\ n - 1 \in Nat /\ n - 1 < n /\ (n - 1) + 1 = n
  BY <1>2
<1>4. n - 1 \notin S
  BY <1>2, <1>3
<1> QED
  BY <1>1, <1>2, <1>3, <1>4

(* One step of either fold: a header, or a single text.                    *)
Step(what, b, x) == IF what = "header" THEN AppendHeader(b, x) ELSE AppendTo(b, x)

(* The equation by which FoldLeft is defined, for a sequence of length n.  *)
FoldsTo(what, g, b, xs, n) ==
  g = [s \in SUBSET (1 .. n) |->
         IF s = {} THEN b ELSE Step(what, g[s \ {Max(s)}], xs[Max(s)])]

(* f lists the buffers that there are after each step.                     *)
Lists(f, what, b, xs, n, last) ==
  /\ DOMAIN f = 0 .. n /\ f[0] = b /\ f[n] = last
  /\ \A i \in 1 .. n : f[i] = Step(what, f[i - 1], xs[i])

(* The largest number of a set whose upper limit is in it.                 *)
LEMMA LastOfSet ==
  ASSUME NEW n \in Nat, NEW s \in SUBSET (1 .. n + 1), n + 1 \in s
  PROVE  Max(s) = n + 1 /\ s \ {n + 1} \in SUBSET (1 .. n)
<1>1. \A y \in s : n + 1 >= y
  OBVIOUS
<1>2. Max(s) \in s /\ \A y \in s : Max(s) >= y
  BY <1>1 DEF Max
<1>3. Max(s) = n + 1
  <2>1. Max(s) \in 1 .. n + 1 /\ Max(s) >= n + 1
    BY <1>2
  <2> QED
    BY <2>1
<1> QED
  BY <1>3

(* There is a function that the equation of a fold describes.              *)
LEMMA FoldExists ==
  ASSUME NEW what, NEW b, NEW xs, NEW n \in Nat
  PROVE  \E g : FoldsTo(what, g, b, xs, n)
<1> DEFINE S == {k \in Nat : \E g : FoldsTo(what, g, b, xs, k)}
<1>1. 0 \in S
  <2>1. FoldsTo(what, [s \in SUBSET (1 .. 0) |-> b], b, xs, 0)
    BY DEF FoldsTo
  <2> QED
    BY <2>1
<1>2. ASSUME NEW k \in Nat, k \in S PROVE k + 1 \in S
  <2>1. PICK g : FoldsTo(what, g, b, xs, k)
    BY <1>2
  <2> DEFINE h == [s \in SUBSET (1 .. k + 1) |->
                     IF k + 1 \in s THEN Step(what, g[s \ {k + 1}], xs[k + 1]) ELSE g[s]]
  <2>2. ASSUME NEW s \in SUBSET (1 .. k + 1)
        PROVE  h[s] = IF s = {} THEN b ELSE Step(what, h[s \ {Max(s)}], xs[Max(s)])
    <3>1. CASE k + 1 \in s
      <4>1. Max(s) = k + 1 /\ s \ {k + 1} \in SUBSET (1 .. k)
        BY <3>1, LastOfSet
      <4>2. s \ {k + 1} \in SUBSET (1 .. k + 1) /\ k + 1 \notin s \ {k + 1}
        BY <4>1
      <4>3. h[s \ {k + 1}] = g[s \ {k + 1}]
        BY <4>2
      <4> QED
        BY <3>1, <4>1, <4>3
    <3>2. CASE k + 1 \notin s
      <4>1. s \in SUBSET (1 .. k)
        BY <3>2
      <4>2. g[s] = IF s = {} THEN b ELSE Step(what, g[s \ {Max(s)}], xs[Max(s)])
        BY <2>1, <4>1 DEF FoldsTo
      <4>3. h[s] = g[s] /\ h[s \ {Max(s)}] = g[s \ {Max(s)}]
        BY <3>2
      <4> QED
        BY <4>2, <4>3
    <3> QED
      BY <3>1, <3>2
  <2>3. DOMAIN h = SUBSET (1 .. k + 1) /\ h = [s \in DOMAIN h |-> h[s]]
    OBVIOUS
  <2>4. FoldsTo(what, h, b, xs, k + 1)
    <3> HIDE DEF h
    <3> QED
      BY <2>2, <2>3 DEF FoldsTo
  <2> HIDE DEF h
  <2> QED
    BY <2>4
<1>3. Nat \subseteq S
  <2> HIDE DEF S
  <2> QED
    BY <1>1, <1>2, SetInduction
<1> QED
  BY <1>3

(* What that function says of 1 .. n is reached in n steps.                *)
LEMMA FoldSteps ==
  ASSUME NEW what, NEW b, NEW xs, NEW n \in Nat, NEW g, FoldsTo(what, g, b, xs, n)
  PROVE  \E f : Lists(f, what, b, xs, n, g[1 .. n])
<1> DEFINE f == [i \in 0 .. n |-> g[1 .. i]]
<1>1. DOMAIN f = 0 .. n /\ f[0] = b /\ f[n] = g[1 .. n]
  <2>1. g[{}] = b
    BY DEF FoldsTo
  <2>2. f[0] = g[1 .. 0] /\ 1 .. 0 = {}
    OBVIOUS
  <2> QED
    BY <2>1, <2>2
<1>2. ASSUME NEW i \in 1 .. n PROVE f[i] = Step(what, f[i - 1], xs[i])
  <2>1. 1 .. i \in SUBSET (1 .. n) /\ i - 1 \in 0 .. n /\ i \in 0 .. n /\ i \in 1 .. i
    OBVIOUS
  <2>2. Max(1 .. i) = i
    <3>1. i - 1 \in Nat /\ 1 .. i \in SUBSET (1 .. (i - 1) + 1) /\ (i - 1) + 1 = i
      OBVIOUS
    <3> QED
      BY <2>1, <3>1, LastOfSet
  <2>3. (1 .. i) \ {i} = 1 .. i - 1
    OBVIOUS
  <2>4. g[1 .. i] = Step(what, g[(1 .. i) \ {i}], xs[i])
    BY <2>1, <2>2 DEF FoldsTo
  <2> QED
    BY <2>1, <2>3, <2>4
<1>3. Lists(f, what, b, xs, n, g[1 .. n])
  <2> HIDE DEF f
  <2> QED
    BY <1>1, <1>2 DEF Lists
<1> QED
  BY <1>3

(* A fold over texts appends one after the other.                          *)
LEMMA FoldAppendTo ==
  ASSUME NEW b, NEW xs, NEW n \in Nat, DOMAIN xs = 1 .. n
  PROVE  \E f : Lists(f, "text", b, xs, n, AppendAll(b, xs))
<1> DEFINE P(h) == h = [s \in SUBSET (1 .. n) |->
                          IF s = {} THEN b ELSE AppendTo(h[s \ {Max(s)}], xs[Max(s)])]
           g == CHOOSE h : P(h)
<1>1. AppendAll(b, xs) = g[1 .. n]
  BY DEF AppendAll, FoldLeft, MapThenFoldSet
<1>2. PICK h : FoldsTo("text", h, b, xs, n)
  BY FoldExists
<1>3. P(h)
  BY <1>2 DEF FoldsTo, Step
<1>4. P(g)
  <2> HIDE DEF P
  <2> QED
    BY <1>3
<1>5. FoldsTo("text", g, b, xs, n)
  <2> HIDE DEF g
  <2> QED
    BY <1>4 DEF FoldsTo, Step
<1> HIDE DEF g
<1> QED
  BY <1>1, <1>5, FoldSteps

(* A fold over names appends one header after the other.                   *)
LEMMA FoldAppendHeader ==
  ASSUME NEW b, NEW xs, NEW n \in Nat, DOMAIN xs = 1 .. n
  PROVE  \E f : Lists(f, "header", b, xs, n, FoldLeft(AppendHeader, b, xs))
<1> DEFINE P(h) == h = [s \in SUBSET (1 .. n) |->
                          IF s = {} THEN b ELSE AppendHeader(h[s \ {Max(s)}], xs[Max(s)])]
           g == CHOOSE h : P(h)
<1>1. FoldLeft(AppendHeader, b, xs) = g[1 .. n]
  BY DEF FoldLeft, MapThenFoldSet
<1>2. PICK h : FoldsTo("header", h, b, xs, n)
  BY FoldExists
<1>3. P(h)
  BY <1>2 DEF FoldsTo, Step
<1>4. P(g)
  <2> HIDE DEF P
  <2> QED
    BY <1>3
<1>5. FoldsTo("header", g, b, xs, n)
  <2> HIDE DEF g
  <2> QED
    BY <1>4 DEF FoldsTo, Step
<1> HIDE DEF g
<1> QED
  BY <1>1, <1>5, FoldSteps

-----------------------------------------------------------------------------
(* Lines.                                                                  *)

(* The lines of a text without its first, and the two line ends after a    *)
(* head.                                                                   *)
LinesIn(text) == {LineFrom(text, i) : i \in LineStarts(text) \ {0}}
EmptyLine == CRLF \o CRLF

(* A set of numbers has a smallest one.                                    *)
LEMMA HasSmallest ==
  ASSUME NEW S, S \subseteq Nat, S # {}
  PROVE  \E n \in S : \A m \in S : n <= m
<1>1. PICK R : IsWellFoundedOn(R, Nat) /\ \A m, n \in Nat : m < n => <<m, n>> \in R
  BY NatLessThanWellFounded DEF OpToRel
<1>2. \E n \in S : \A m \in S : ~(<<m, n>> \in R)
  <2>1. IsWellFoundedOn(R, Nat)
    BY <1>1
  <2> QED
    BY <2>1, WFMin
<1>3. PICK n \in S : \A m \in S : ~(<<m, n>> \in R)
  BY <1>2
<1>4. \A m \in S : m \in Nat /\ ~(m < n)
  BY <1>1, <1>3
<1> QED
  BY <1>3, <1>4

(* The bytes of two texts, one after the other.                            *)
LEMMA ConcatCell ==
  ASSUME NEW s \in Seq(Byte), NEW t \in Seq(Byte)
  PROVE  /\ s \o t \in Seq(Byte) /\ Len(s \o t) = Len(s) + Len(t)
         /\ Len(s) \in Nat /\ Len(t) \in Nat
         /\ \A i \in 1 .. Len(s) : (s \o t)[i] = s[i]
         /\ \A i \in 1 .. Len(t) : (s \o t)[Len(s) + i] = t[i]
<1>1. \A i \in 1 .. Len(t) : Len(s) + i \in 1 .. Len(s) + Len(t) /\ ~(Len(s) + i <= Len(s))
                             /\ Len(s) + i - Len(s) = i
  OBVIOUS
<1>2. \A i \in 1 .. Len(s) : i \in 1 .. Len(s) + Len(t) /\ i <= Len(s)
  OBVIOUS
<1> QED
  BY <1>1, <1>2, ConcatProperties

(* A line goes as far as the first line end, or the end of the text.       *)
LEMMA LineEndsAt ==
  ASSUME NEW text \in Seq(Byte), NEW i \in 0 .. Len(text), NEW e \in i .. Len(text),
         e = Len(text) \/ IsCRLF(text, e),
         \A j \in i .. e - 1 : ~IsCRLF(text, j)
  PROVE  LineFrom(text, i) = SubSeq(text, i + 1, e)
<1> DEFINE ends == {j \in i .. Len(text) : j = Len(text) \/ IsCRLF(text, j)}
<1>1. e \in ends
  OBVIOUS
<1>2. \A j \in ends : e <= j
  OBVIOUS
<1>3. Min(ends) \in ends /\ \A j \in ends : Min(ends) <= j
  <2> HIDE DEF ends
  <2> QED
    BY <1>1, <1>2 DEF Min
<1>4. Min(ends) = e
  <2>1. Min(ends) <= e /\ e <= Min(ends) /\ Min(ends) \in i .. Len(text)
    BY <1>1, <1>2, <1>3
  <2> HIDE DEF ends
  <2> QED
    BY <2>1
<1> QED
  BY <1>4 DEF LineFrom

(* There is such an end.                                                   *)
LEMMA LineHasEnd ==
  ASSUME NEW text \in Seq(Byte), NEW i \in 0 .. Len(text)
  PROVE  \E e \in i .. Len(text) :
           /\ e = Len(text) \/ IsCRLF(text, e)
           /\ \A j \in i .. e - 1 : ~IsCRLF(text, j)
           /\ LineFrom(text, i) = SubSeq(text, i + 1, e)
<1> DEFINE ends == {j \in i .. Len(text) : j = Len(text) \/ IsCRLF(text, j)}
<1>1. ends \subseteq Nat /\ ends # {}
  <2>1. Len(text) \in ends
    OBVIOUS
  <2> QED
    BY <2>1
<1>2. PICK e \in ends : \A j \in ends : e <= j
  <2> HIDE DEF ends
  <2> QED
    BY <1>1, HasSmallest
<1>3. \A j \in i .. e - 1 : ~IsCRLF(text, j)
  BY <1>2
<1>4. e \in i .. Len(text) /\ (e = Len(text) \/ IsCRLF(text, e))
  OBVIOUS
<1>5. LineFrom(text, i) = SubSeq(text, i + 1, e)
  <2> HIDE DEF ends
  <2> QED
    BY <1>3, <1>4, LineEndsAt
<1> QED
  BY <1>3, <1>4, <1>5

(* The bytes of one and of two line ends.                                  *)
LEMMA CRLFCells ==
  /\ CRLF \in Seq(Byte) /\ Len(CRLF) = 2 /\ CRLF[1] = CR /\ CRLF[2] = LF
  /\ EmptyLine \in Seq(Byte) /\ Len(EmptyLine) = 4
  /\ EmptyLine[1] = CR /\ EmptyLine[2] = LF /\ EmptyLine[3] = CR /\ EmptyLine[4] = LF
BY BufferMethodsAssumption DEF CRLF, EmptyLine

(* A line without CR is one line.                                          *)
LEMMA OneLine ==
  ASSUME NEW line \in Seq(Byte), ~Has(line, CR)
  PROVE  LineFrom(line, 0) = line /\ LinesIn(line) = {}
<1>1. \A i \in 0 .. Len(line) : ~IsCRLF(line, i)
  BY DEF Has, IsCRLF
<1>2. LineFrom(line, 0) = SubSeq(line, 1, Len(line))
  <2>1. /\ 0 \in 0 .. Len(line) /\ Len(line) \in 0 .. Len(line)
        /\ \A j \in 0 .. Len(line) - 1 : ~IsCRLF(line, j)
    BY <1>1
  <2> QED
    BY <2>1, LineEndsAt
<1>3. LineStarts(line) = {0}
  BY <1>1 DEF LineStarts
<1> QED
  BY <1>2, <1>3, SubSeqFull DEF LinesIn

(* The text x is s with t after it, and a text with a line added to it.    *)
Joined(x, s, t) == x = s \o t
AddLine(h, line) == h \o (CRLF \o line)

(* The bytes of a joined text.                                             *)
LEMMA JoinedCells ==
  ASSUME NEW s \in Seq(Byte), NEW t \in Seq(Byte), NEW x, Joined(x, s, t)
  PROVE  /\ x \in Seq(Byte) /\ Len(x) = Len(s) + Len(t)
         /\ Len(s) \in Nat /\ Len(t) \in Nat
         /\ \A i \in 1 .. Len(s) : x[i] = s[i]
         /\ \A i \in 1 .. Len(t) : x[Len(s) + i] = t[i]
<1> DEFINE c == s \o t
<1>1. /\ c \in Seq(Byte) /\ Len(c) = Len(s) + Len(t)
      /\ Len(s) \in Nat /\ Len(t) \in Nat
      /\ \A i \in 1 .. Len(s) : c[i] = s[i]
      /\ \A i \in 1 .. Len(t) : c[Len(s) + i] = t[i]
  BY ConcatCell, Zenon
<1>2. x = c
  BY DEF Joined
<1> HIDE DEF c
<1> QED
  BY <1>1, <1>2

(* The cells of a text to which a line was added.                          *)
LEMMA AddedCells ==
  ASSUME NEW h \in Seq(Byte), NEW line \in Seq(Byte)
  PROVE  LET t == AddLine(h, line) IN
         /\ t \in Seq(Byte) /\ Len(t) = Len(h) + 2 + Len(line)
         /\ Len(h) \in Nat /\ Len(line) \in Nat
         /\ \A j \in 1 .. Len(h) : t[j] = h[j]
         /\ t[Len(h) + 1] = CR /\ t[Len(h) + 2] = LF
         /\ \A j \in 1 .. Len(line) : t[Len(h) + 2 + j] = line[j]
<1> DEFINE t == AddLine(h, line)
<1>1. PICK x : Joined(x, CRLF, line) /\ Joined(t, h, x)
  BY Zenon DEF Joined, AddLine
<1> HIDE DEF t
<1>2. CRLF \in Seq(Byte) /\ Len(CRLF) = 2 /\ CRLF[1] = CR /\ CRLF[2] = LF
  BY CRLFCells
<1>3. /\ x \in Seq(Byte) /\ Len(x) = 2 + Len(line) /\ Len(line) \in Nat
      /\ \A j \in 1 .. 2 : x[j] = CRLF[j]
      /\ \A j \in 1 .. Len(line) : x[2 + j] = line[j]
  <2>1. /\ x \in Seq(Byte) /\ Len(x) = Len(CRLF) + Len(line) /\ Len(line) \in Nat
        /\ \A j \in 1 .. Len(CRLF) : x[j] = CRLF[j]
        /\ \A j \in 1 .. Len(line) : x[Len(CRLF) + j] = line[j]
    <3>1. Joined(x, CRLF, line) /\ CRLF \in Seq(Byte) /\ line \in Seq(Byte)
      BY <1>1, <1>2
    <3> QED
      BY <3>1, JoinedCells
  <2> QED
    BY <1>2, <2>1
<1>4. /\ t \in Seq(Byte) /\ Len(t) = Len(h) + Len(x) /\ Len(h) \in Nat
      /\ \A j \in 1 .. Len(h) : t[j] = h[j]
      /\ \A j \in 1 .. Len(x) : t[Len(h) + j] = x[j]
  BY <1>1, <1>3, JoinedCells
<1>5. t[Len(h) + 1] = CR /\ t[Len(h) + 2] = LF
  <2>1. 1 \in 1 .. Len(x) /\ 2 \in 1 .. Len(x) /\ 1 \in 1 .. 2 /\ 2 \in 1 .. 2
    BY <1>3
  <2> QED
    BY <1>2, <1>3, <1>4, <2>1
<1>6. ASSUME NEW j \in 1 .. Len(line) PROVE t[Len(h) + 2 + j] = line[j]
  <2>1. 2 + j \in 1 .. Len(x) /\ Len(h) + (2 + j) = Len(h) + 2 + j
    BY <1>3, <1>4
  <2> QED
    BY <1>3, <1>4, <2>1
<1> QED
  BY <1>3, <1>4, <1>5, <1>6 DEF t

(* A line without CR adds one line end, the one before it.                 *)
LEMMA AddedCRLF ==
  ASSUME NEW h \in Seq(Byte), NEW line \in Seq(Byte), ~Has(line, CR), NEW i \in Nat
  PROVE  IsCRLF(AddLine(h, line), i) <=> IsCRLF(h, i) \/ i = Len(h)
<1>1. PICK t : t = AddLine(h, line)
  OBVIOUS
<1>2. /\ t \in Seq(Byte) /\ Len(t) = Len(h) + 2 + Len(line)
      /\ Len(h) \in Nat /\ Len(line) \in Nat
      /\ \A j \in 1 .. Len(h) : t[j] = h[j]
      /\ t[Len(h) + 1] = CR /\ t[Len(h) + 2] = LF
      /\ \A j \in 1 .. Len(line) : t[Len(h) + 2 + j] = line[j]
  BY <1>1, AddedCells
<1>4. \A j \in Len(h) + 3 .. Len(t) : t[j] # CR
  <2> SUFFICES ASSUME NEW j \in Len(h) + 3 .. Len(t) PROVE t[j] # CR
    OBVIOUS
  <2>1. PICK k \in 1 .. Len(line) : j = Len(h) + 2 + k
    <3>1. j - (Len(h) + 2) \in 1 .. Len(line) /\ j = Len(h) + 2 + (j - (Len(h) + 2))
      BY <1>2
    <3> QED
      BY <3>1
  <2>2. t[j] = line[k]
    BY <1>2, <2>1
  <2> QED
    BY <2>2 DEF Has
<1>5. CR # LF
  BY HttpResponseAssumption
<1>6. CASE i + 2 <= Len(h)
  <2>1. i + 1 \in 1 .. Len(h) /\ i + 2 \in 1 .. Len(h) /\ i # Len(h) /\ i + 2 <= Len(t)
    BY <1>2, <1>6
  <2> QED
    BY <1>1, <1>2, <2>1 DEF IsCRLF
<1>7. CASE i + 1 = Len(h)
  <2>1. i + 2 = Len(h) + 1 /\ ~(i + 2 <= Len(h)) /\ i # Len(h)
    BY <1>2, <1>7
  <2> QED
    BY <1>1, <1>2, <1>5, <2>1 DEF IsCRLF
<1>8. CASE i = Len(h)
  <2>1. i + 2 <= Len(t)
    BY <1>2, <1>8
  <2> QED
    BY <1>1, <1>2, <1>8, <2>1 DEF IsCRLF
<1>9. CASE i = Len(h) + 1
  <2>1. i + 1 = Len(h) + 2 /\ ~(i + 2 <= Len(h)) /\ i # Len(h)
    BY <1>2, <1>9
  <2> QED
    BY <1>1, <1>2, <1>5, <2>1 DEF IsCRLF
<1>10. CASE i >= Len(h) + 2
  <2>1. ~(i + 2 <= Len(h)) /\ i # Len(h) /\ (i + 2 <= Len(t) => i + 1 \in Len(h) + 3 .. Len(t))
    BY <1>2, <1>10
  <2> QED
    BY <1>1, <1>4, <2>1 DEF IsCRLF
<1>11. \/ i + 2 <= Len(h) \/ i + 1 = Len(h) \/ i = Len(h) \/ i = Len(h) + 1
       \/ i >= Len(h) + 2
  BY <1>2
<1> QED
  BY <1>6, <1>7, <1>8, <1>9, <1>10, <1>11

(* Lines start at the start of the text and after line ends.               *)
LEMMA StartsInText ==
  ASSUME NEW text \in Seq(Byte)
  PROVE  /\ LineStarts(text) \subseteq 0 .. Len(text)
         /\ \A i \in Nat : i + 2 \in LineStarts(text) <=> IsCRLF(text, i)
         /\ \A s \in LineStarts(text) : s = 0 \/ (s - 2 \in Nat /\ IsCRLF(text, s - 2))
BY DEF LineStarts, IsCRLF

(* What a line adds to the lines of a text.                                *)
LEMMA AddedLine ==
  ASSUME NEW h \in Seq(Byte), NEW line \in Seq(Byte), ~Has(line, CR)
  PROVE  /\ LineFrom(AddLine(h, line), 0) = LineFrom(h, 0)
         /\ LinesIn(AddLine(h, line)) = LinesIn(h) \union {line}
<1>1. PICK t : t = AddLine(h, line)
  OBVIOUS
<1>2. /\ t \in Seq(Byte) /\ Len(t) = Len(h) + 2 + Len(line)
      /\ Len(h) \in Nat /\ Len(line) \in Nat
      /\ \A j \in 1 .. Len(h) : t[j] = h[j]
      /\ \A j \in 1 .. Len(line) : t[Len(h) + 2 + j] = line[j]
  BY <1>1, AddedCells
<1>3. \A i \in Nat : IsCRLF(t, i) <=> IsCRLF(h, i) \/ i = Len(h)
  BY <1>1, AddedCRLF
<1>4. LineStarts(t) = LineStarts(h) \union {Len(h) + 2}
  <2>1. ASSUME NEW s \in LineStarts(t) PROVE s \in LineStarts(h) \union {Len(h) + 2}
    <3>1. CASE s = 0
      BY <3>1 DEF LineStarts
    <3>2. CASE s - 2 \in Nat /\ IsCRLF(t, s - 2)
      <4>1. s \in Nat /\ (s - 2) + 2 = s
        BY <1>2, <2>1, StartsInText
      <4>2. IsCRLF(h, s - 2) \/ s - 2 = Len(h)
        BY <1>3, <3>2
      <4> QED
        BY <1>2, <3>2, <4>1, <4>2, StartsInText
    <3> QED
      BY <1>2, <3>1, <3>2, StartsInText
  <2>2. ASSUME NEW s \in LineStarts(h) \union {Len(h) + 2} PROVE s \in LineStarts(t)
    <3>1. CASE s = 0
      BY <3>1 DEF LineStarts
    <3>2. CASE s - 2 \in Nat /\ IsCRLF(t, s - 2)
      <4>1. s \in Nat /\ (s - 2) + 2 = s
        <5>1. LineStarts(h) \subseteq 0 .. Len(h) /\ Len(h) + 2 \in Nat
          BY <1>2, StartsInText
        <5>2. s \in Nat
          BY <2>2, <5>1
        <5> QED
          BY <5>2
      <4> QED
        BY <1>2, <3>2, <4>1, StartsInText
    <3>3. s = 0 \/ (s - 2 \in Nat /\ IsCRLF(t, s - 2))
      <4>1. CASE s \in LineStarts(h)
        BY <1>3, <4>1, StartsInText
      <4>2. CASE s = Len(h) + 2
        BY <1>2, <1>3, <4>2
      <4> QED
        BY <2>2, <4>1, <4>2
    <3> QED
      BY <3>1, <3>2, <3>3
  <2> QED
    BY <2>1, <2>2
<1>5. ASSUME NEW i \in 0 .. Len(h) PROVE LineFrom(t, i) = LineFrom(h, i)
  <2>1. PICK e \in i .. Len(h) : /\ e = Len(h) \/ IsCRLF(h, e)
                                 /\ \A j \in i .. e - 1 : ~IsCRLF(h, j)
                                 /\ LineFrom(h, i) = SubSeq(h, i + 1, e)
    BY LineHasEnd
  <2>2. i \in 0 .. Len(t) /\ e \in i .. Len(t) /\ e \in Nat /\ e <= Len(h)
    BY <1>2
  <2>3. IsCRLF(t, e)
    BY <1>3, <2>1, <2>2
  <2>4. \A j \in i .. e - 1 : ~IsCRLF(t, j)
    BY <1>2, <1>3, <2>1, <2>2
  <2>5. LineFrom(t, i) = SubSeq(t, i + 1, e)
    BY <1>2, <2>2, <2>3, <2>4, LineEndsAt
  <2>6. SubSeq(t, i + 1, e) = SubSeq(h, i + 1, e)
    <3>1. \A j \in i + 1 .. e : t[j] = h[j]
      BY <1>2, <2>2
    <3> QED
      BY <1>2, <2>2, <3>1
  <2> QED
    BY <2>1, <2>5, <2>6
<1>6. LineFrom(t, Len(h) + 2) = line
  <2>1. /\ Len(h) + 2 \in 0 .. Len(t) /\ Len(t) \in Len(h) + 2 .. Len(t)
        /\ \A j \in Len(h) + 2 .. Len(t) - 1 : j \in Nat /\ j > Len(h) /\ j + 2 > Len(h)
    BY <1>2
  <2>2. \A j \in Len(h) + 2 .. Len(t) - 1 : ~IsCRLF(t, j)
    BY <1>2, <1>3, <2>1 DEF IsCRLF
  <2>3. LineFrom(t, Len(h) + 2) = SubSeq(t, Len(h) + 3, Len(t))
    <3>1. LineFrom(t, Len(h) + 2) = SubSeq(t, Len(h) + 2 + 1, Len(t))
      BY <1>2, <2>1, <2>2, LineEndsAt
    <3>2. Len(h) + 2 + 1 = Len(h) + 3
      BY <1>2
    <3> QED
      BY <3>1, <3>2
  <2> DEFINE s == SubSeq(t, Len(h) + 3, Len(t))
  <2>4. s \in Seq(Byte) /\ Len(s) = Len(line)
    <3>1. \A j \in 1 .. Len(t) : t[j] \in Byte
      BY <1>2, ElementOfSeq
    <3> QED
      BY <1>2, <3>1
  <2>5. ASSUME NEW j \in 1 .. Len(line) PROVE s[j] = line[j]
    <3>1. Len(h) + 3 + j - 1 = Len(h) + 2 + j
      BY <1>2
    <3>2. s[j] = t[Len(h) + 2 + j]
      BY <1>2, <2>4, <3>1
    <3> QED
      BY <1>2, <3>2
  <2> HIDE DEF s
  <2>6. s = line
    BY <2>4, <2>5, SeqEqual
  <2> QED
    BY <2>3, <2>6 DEF s
<1>7. LineFrom(t, 0) = LineFrom(h, 0)
  BY <1>2, <1>5
<1>8. LinesIn(t) = LinesIn(h) \union {line}
  <2>1. LineStarts(h) \subseteq 0 .. Len(h)
    BY StartsInText
  <2>2. Len(h) + 2 \notin 0 .. Len(h) /\ Len(h) + 2 # 0
    BY <1>2
  <2> QED
    BY <1>4, <1>5, <1>6, <2>1, <2>2 DEF LinesIn
<1> QED
  BY <1>1, <1>7, <1>8

-----------------------------------------------------------------------------
(* Heads.                                                                  *)

(* r is a response a handler can set, and the lines that say so.           *)
IsResponse(r) ==
  /\ r = [code |-> r.code, message |-> r.message, header |-> r.header, body |-> r.body]
  /\ r.code \in StatusCode /\ r.message = Message[r.code]
  /\ DOMAIN r.header \subseteq Name /\ r.header \in [DOMAIN r.header -> Value]
  /\ r.body \in Seq(Byte)

StatusLineOf(r) == <<Version, Space, r.code, Space>> \o r.message
HeaderLineOf(r, n) == n \o (<<Colon>> \o r.header[n])

(* h is the head of r as far as names have got.                            *)
IsHead(h, r, names) ==
  /\ h \in Seq(Byte)
  /\ LineFrom(h, 0) = StatusLineOf(r)
  /\ LinesIn(h) = {HeaderLineOf(r, n) : n \in names}

(* A status line: its code is the third word, its message starts after the *)
(* fourth, and it has no line end.                                         *)
LEMMA StatusLineCells ==
  ASSUME NEW r, IsResponse(r)
  PROVE  LET t == StatusLineOf(r) IN
         /\ r.message \in Seq(Byte)
         /\ t \in Seq(Byte) /\ Len(t) = 4 + Len(r.message) /\ t[3] = r.code
         /\ \A i \in 1 .. Len(r.message) : t[4 + i] = r.message[i]
         /\ ~Has(t, CR)
<1> DEFINE t == StatusLineOf(r)
           s == <<Version, Space, r.code, Space>>
           m == r.message
<1>1. /\ s \in Seq(Byte) /\ Len(s) = 4 /\ s[3] = r.code
      /\ \A i \in 1 .. 4 : s[i] # CR
  <2>1. {Version, Space, r.code} \subseteq Byte \ {CR}
    BY HttpResponseAssumption DEF IsResponse
  <2> QED
    BY <2>1
<1>2. m \in Seq(Byte) /\ ~Has(m, CR)
  BY HttpResponseAssumption DEF IsResponse
<1>3. Joined(t, s, m)
  BY Zenon DEF Joined, StatusLineOf
<1> HIDE DEF t, s, m
<1>4. /\ t \in Seq(Byte) /\ Len(t) = Len(s) + Len(m)
      /\ Len(s) \in Nat /\ Len(m) \in Nat
      /\ \A i \in 1 .. Len(s) : t[i] = s[i]
      /\ \A i \in 1 .. Len(m) : t[Len(s) + i] = m[i]
  <2>1. s \in Seq(Byte) /\ m \in Seq(Byte) /\ Joined(t, s, m)
    BY <1>1, <1>2, <1>3
  <2> QED
    BY <2>1, JoinedCells
<1>5. t[3] = r.code
  BY <1>1, <1>4
<1>6. ASSUME NEW i \in 1 .. Len(t) PROVE t[i] # CR
  <2>1. CASE i \in 1 .. 4
    BY <1>1, <1>4, <2>1
  <2>2. CASE i - 4 \in 1 .. Len(m)
    <3>1. i = Len(s) + (i - 4)
      BY <1>1
    <3>2. t[i] = m[i - 4]
      BY <1>4, <2>2, <3>1
    <3> QED
      BY <1>2, <2>2, <3>2 DEF Has
  <2>3. i \in 1 .. 4 \/ i - 4 \in 1 .. Len(m)
    BY <1>1, <1>4
  <2> QED
    BY <2>1, <2>2, <2>3
<1> QED
  BY <1>1, <1>2, <1>4, <1>5, <1>6 DEF t, m, Has

(* A header line: its first Colon ends the name, and it has no line end.   *)
LEMMA HeaderLineCells ==
  ASSUME NEW r, IsResponse(r), NEW n \in DOMAIN r.header
  PROVE  LET t == HeaderLineOf(r, n)
             v == r.header[n]
         IN  /\ n \in Seq(Byte) /\ Len(n) \in Nat /\ ~Has(n, Colon)
             /\ v \in Seq(Byte) /\ Len(v) \in Nat
             /\ t \in Seq(Byte) /\ Len(t) = Len(n) + 1 + Len(v)
             /\ \A i \in 1 .. Len(n) : t[i] = n[i]
             /\ t[Len(n) + 1] = Colon
             /\ \A i \in 1 .. Len(v) : t[Len(n) + 1 + i] = v[i]
             /\ ~Has(t, CR)
<1> DEFINE t == HeaderLineOf(r, n)
           v == r.header[n]
           c == <<Colon>>
<1>1. c \in Seq(Byte) /\ Len(c) = 1 /\ c[1] = Colon /\ Colon # CR
  BY HttpResponseAssumption
<1>2. n \in Seq(Byte) /\ ~Has(n, CR) /\ ~Has(n, Colon)
  BY HttpResponseAssumption DEF IsResponse
<1>3. v \in Seq(Byte) /\ ~Has(v, CR)
  <2>1. v \in Value
    BY DEF IsResponse
  <2> QED
    BY <2>1, HttpResponseAssumption
<1>4. PICK x : Joined(x, c, v) /\ Joined(t, n, x)
  BY Zenon DEF Joined, HeaderLineOf
<1> HIDE DEF t, v, c
<1>5. /\ x \in Seq(Byte) /\ Len(x) = 1 + Len(v) /\ Len(v) \in Nat
      /\ x[1] = Colon
      /\ \A i \in 1 .. Len(v) : x[1 + i] = v[i]
  <2>1. /\ x \in Seq(Byte) /\ Len(x) = Len(c) + Len(v) /\ Len(v) \in Nat
        /\ \A i \in 1 .. Len(c) : x[i] = c[i]
        /\ \A i \in 1 .. Len(v) : x[Len(c) + i] = v[i]
    BY <1>1, <1>3, <1>4, JoinedCells, SMTT(30)
  <2> QED
    BY <1>1, <2>1
<1>6. /\ t \in Seq(Byte) /\ Len(t) = Len(n) + Len(x) /\ Len(n) \in Nat
      /\ \A i \in 1 .. Len(n) : t[i] = n[i]
      /\ \A i \in 1 .. Len(x) : t[Len(n) + i] = x[i]
  BY <1>2, <1>4, <1>5, JoinedCells
<1>7. Len(t) = Len(n) + 1 + Len(v)
  BY <1>5, <1>6
<1>8. t[Len(n) + 1] = Colon
  BY <1>5, <1>6
<1>9. ASSUME NEW i \in 1 .. Len(v) PROVE t[Len(n) + 1 + i] = v[i]
  <2>1. 1 + i \in 1 .. Len(x) /\ Len(n) + (1 + i) = Len(n) + 1 + i
    BY <1>5, <1>6
  <2> QED
    BY <1>5, <1>6, <2>1
<1>10. ASSUME NEW i \in 1 .. Len(t) PROVE t[i] # CR
  <2>1. CASE i \in 1 .. Len(n)
    BY <1>2, <1>6, <2>1 DEF Has
  <2>2. CASE i = Len(n) + 1
    BY <1>1, <1>8, <2>2
  <2>3. CASE i - (Len(n) + 1) \in 1 .. Len(v)
    <3>1. i = Len(n) + 1 + (i - (Len(n) + 1))
      BY <1>6
    <3>2. t[i] = v[i - (Len(n) + 1)]
      BY <1>9, <2>3, <3>1
    <3> QED
      BY <1>3, <2>3, <3>2 DEF Has
  <2>4. i \in 1 .. Len(n) \/ i = Len(n) + 1 \/ i - (Len(n) + 1) \in 1 .. Len(v)
    BY <1>5, <1>6, <1>7
  <2> QED
    BY <2>1, <2>2, <2>3, <2>4
<1> QED
  BY <1>2, <1>3, <1>5, <1>6, <1>7, <1>8, <1>9, <1>10 DEF t, v, Has

(* A header line says its name and its value.                              *)
LEMMA HeaderLineParses ==
  ASSUME NEW r, IsResponse(r), NEW n \in DOMAIN r.header
  PROVE  /\ NameIn(HeaderLineOf(r, n)) = n
         /\ ValueIn(HeaderLineOf(r, n)) = r.header[n]
<1> DEFINE t == HeaderLineOf(r, n)
           v == r.header[n]
<1>2. /\ n \in Seq(Byte) /\ Len(n) \in Nat /\ ~Has(n, Colon)
      /\ v \in Seq(Byte) /\ Len(v) \in Nat
      /\ t \in Seq(Byte) /\ Len(t) = Len(n) + 1 + Len(v)
      /\ \A i \in 1 .. Len(n) : t[i] = n[i]
      /\ t[Len(n) + 1] = Colon
      /\ \A i \in 1 .. Len(v) : t[Len(n) + 1 + i] = v[i]
  BY HeaderLineCells, ZenonT(40)
<1> HIDE DEF t, v
<1> DEFINE colons == {i \in 1 .. Len(t) : t[i] = Colon}
<1>3. Len(n) + 1 \in colons
  BY <1>2
<1>4. ASSUME NEW i \in colons PROVE Len(n) + 1 <= i
  <2>1. i \notin 1 .. Len(n)
    BY <1>2 DEF Has
  <2> QED
    BY <1>2, <2>1
<1>5. ColonIn(t) = Len(n) + 1
  <2>1. Min(colons) \in colons /\ \A i \in colons : Min(colons) <= i
    <3> HIDE DEF colons
    <3> QED
      BY <1>3, <1>4 DEF Min
  <2>2. Min(colons) <= Len(n) + 1 /\ Len(n) + 1 <= Min(colons) /\ Min(colons) \in Nat
    BY <1>3, <1>4, <2>1
  <2>3. ColonIn(t) = Min(colons)
    BY DEF ColonIn
  <2> HIDE DEF colons
  <2> QED
    BY <1>2, <2>2, <2>3
<1>6. NameIn(t) = n
  <2>1. NameIn(t) = SubSeq(t, 1, Len(n))
    BY <1>2, <1>5 DEF NameIn
  <2>2. /\ SubSeq(t, 1, Len(n)) \in Seq(Byte) /\ Len(SubSeq(t, 1, Len(n))) = Len(n)
        /\ \A i \in 1 .. Len(n) : SubSeq(t, 1, Len(n))[i] = t[i]
    BY <1>2, Pieces
  <2> QED
    BY <1>2, <2>1, <2>2, SeqEqual
<1>7. ValueIn(t) = v
  <2> DEFINE u == SubSeq(t, (Len(n) + 1) + 1, Len(t))
  <2>1. ValueIn(t) = u
    BY <1>5 DEF ValueIn
  <2>2. /\ u \in Seq(Byte) /\ Len(u) = Len(t) - (Len(n) + 1)
        /\ \A i \in 1 .. Len(t) - (Len(n) + 1) : u[i] = t[Len(n) + 1 + i]
    BY <1>2, Pieces
  <2>3. Len(t) - (Len(n) + 1) = Len(v)
    BY <1>2
  <2> HIDE DEF u
  <2> QED
    BY <1>2, <2>1, <2>2, <2>3, SeqEqual
<1> QED
  BY <1>6, <1>7 DEF t, v

(* What the reader makes of the head of a response is that response.       *)
THEOREM HeadParses ==
  ASSUME NEW r, IsResponse(r), NEW h, IsHead(h, r, DOMAIN r.header)
  PROVE  Parsed(h, r.body) = r
<1>1. PICK status : status = StatusLineOf(r)
  OBVIOUS
<1>2. /\ r.message \in Seq(Byte)
      /\ status \in Seq(Byte) /\ Len(status) = 4 + Len(r.message) /\ status[3] = r.code
      /\ \A i \in 1 .. Len(r.message) : status[4 + i] = r.message[i]
  BY <1>1, StatusLineCells
<1>3. SubSeq(status, 5, Len(status)) = r.message
  <2> DEFINE u == SubSeq(status, 4 + 1, Len(status))
  <2>1. Len(r.message) \in Nat /\ 4 \in 0 .. Len(status)
    BY <1>2
  <2>2. /\ u \in Seq(Byte) /\ Len(u) = Len(status) - 4
        /\ \A i \in 1 .. Len(status) - 4 : u[i] = status[4 + i]
    BY <1>2, <2>1, Pieces
  <2>3. Len(status) - 4 = Len(r.message) /\ 4 + 1 = 5
    BY <1>2, <2>1
  <2>4. u = r.message
    <3> HIDE DEF u
    <3> QED
      BY <1>2, <2>2, <2>3, SeqEqual
  <2> QED
    BY <2>3, <2>4
<1> DEFINE lines == {HeaderLineOf(r, n) : n \in DOMAIN r.header}
<1>4. {NameIn(l) : l \in lines} = DOMAIN r.header
  BY HeaderLineParses
<1>5. ASSUME NEW n \in DOMAIN r.header
      PROVE  ValueIn(CHOOSE l \in lines : NameIn(l) = n) = r.header[n]
  <2>1. PICK l : l = CHOOSE x \in lines : NameIn(x) = n
    OBVIOUS
  <2>2. HeaderLineOf(r, n) \in lines /\ NameIn(HeaderLineOf(r, n)) = n
    BY HeaderLineParses
  <2>3. l \in lines /\ NameIn(l) = n
    <3> HIDE DEF lines
    <3> QED
      BY <2>1, <2>2
  <2>4. PICK m \in DOMAIN r.header : l = HeaderLineOf(r, m)
    BY <2>3
  <2>5. m = n
    BY <2>3, <2>4, HeaderLineParses
  <2> QED
    BY <2>1, <2>4, <2>5, HeaderLineParses
<1>6. [n \in DOMAIN r.header |-> ValueIn(CHOOSE l \in lines : NameIn(l) = n)] = r.header
  BY <1>5 DEF IsResponse
<1>7. /\ LineFrom(h, 0) = status
      /\ {LineFrom(h, i) : i \in LineStarts(h) \ {0}} = lines
  BY <1>1 DEF IsHead, LinesIn
<1> DEFINE said == {LineFrom(h, i) : i \in LineStarts(h) \ {0}}
           names == {NameIn(l) : l \in said}
           header == [n \in names |-> ValueIn(CHOOSE l \in said : NameIn(l) = n)]
<1>8. Parsed(h, r.body) = [code |-> LineFrom(h, 0)[3],
                           message |-> SubSeq(LineFrom(h, 0), 5, Len(LineFrom(h, 0))),
                           header |-> header,
                           body |-> r.body]
  BY Zenon DEF Parsed
<1>9. said = lines
  BY <1>7
<1>10. names = DOMAIN r.header
  BY <1>4, <1>9
<1>11. header = r.header
  <2> HIDE DEF lines, names, said
  <2>1. header = [n \in DOMAIN r.header |-> ValueIn(CHOOSE l \in lines : NameIn(l) = n)]
    BY <1>9, <1>10
  <2> QED
    BY <1>6, <2>1
<1>12. Parsed(h, r.body) = [code |-> r.code, message |-> r.message,
                            header |-> header, body |-> r.body]
  <2> DEFINE message == SubSeq(LineFrom(h, 0), 5, Len(LineFrom(h, 0)))
  <2>1. LineFrom(h, 0)[3] = r.code
    BY <1>2, <1>7
  <2>2. message = r.message
    BY <1>3, <1>7, Zenon
  <2> HIDE DEF header, message
  <2>3. Parsed(h, r.body) = [code |-> LineFrom(h, 0)[3], message |-> message,
                             header |-> header, body |-> r.body]
    BY <1>8 DEF message
  <2> QED
    BY <2>1, <2>2, <2>3
<1> HIDE DEF header
<1> QED
  BY <1>11, <1>12 DEF IsResponse

-----------------------------------------------------------------------------
(* Where a head ends.                                                      *)

(* A head, the empty line, and what follows it.                            *)
Ended(h, rest) == h \o (EmptyLine \o rest)

(* The bytes of a head that is ended.                                      *)
LEMMA EndedCells ==
  ASSUME NEW h \in Seq(Byte), NEW rest \in Seq(Byte)
  PROVE  LET t == Ended(h, rest) IN
         /\ t \in Seq(Byte) /\ Len(t) = Len(h) + 4 + Len(rest)
         /\ Len(h) \in Nat /\ Len(rest) \in Nat
         /\ \A j \in 1 .. Len(h) : t[j] = h[j]
         /\ t[Len(h) + 1] = CR /\ t[Len(h) + 2] = LF
         /\ t[Len(h) + 3] = CR /\ t[Len(h) + 4] = LF
         /\ \A j \in 1 .. Len(rest) : t[Len(h) + 4 + j] = rest[j]
<1> DEFINE t == Ended(h, rest)
<1>1. PICK x : Joined(x, EmptyLine, rest) /\ Joined(t, h, x)
  BY Zenon DEF Joined, Ended
<1> HIDE DEF t
<1>2. /\ EmptyLine \in Seq(Byte) /\ Len(EmptyLine) = 4
      /\ EmptyLine[1] = CR /\ EmptyLine[2] = LF /\ EmptyLine[3] = CR /\ EmptyLine[4] = LF
  BY CRLFCells
<1>3. /\ x \in Seq(Byte) /\ Len(x) = 4 + Len(rest) /\ Len(rest) \in Nat
      /\ x[1] = CR /\ x[2] = LF /\ x[3] = CR /\ x[4] = LF
      /\ \A j \in 1 .. Len(rest) : x[4 + j] = rest[j]
  <2>1. EmptyLine \in Seq(Byte) /\ Joined(x, EmptyLine, rest)
    BY <1>1, <1>2
  <2>2. /\ x \in Seq(Byte) /\ Len(x) = Len(EmptyLine) + Len(rest) /\ Len(rest) \in Nat
        /\ \A j \in 1 .. Len(EmptyLine) : x[j] = EmptyLine[j]
        /\ \A j \in 1 .. Len(rest) : x[Len(EmptyLine) + j] = rest[j]
    BY <2>1, JoinedCells
  <2> QED
    BY <1>2, <2>2
<1>4. /\ t \in Seq(Byte) /\ Len(t) = Len(h) + Len(x) /\ Len(h) \in Nat
      /\ \A j \in 1 .. Len(h) : t[j] = h[j]
      /\ \A j \in 1 .. Len(x) : t[Len(h) + j] = x[j]
  BY <1>1, <1>3, JoinedCells, SMTT(30)
<1>5. /\ t[Len(h) + 1] = CR /\ t[Len(h) + 2] = LF
      /\ t[Len(h) + 3] = CR /\ t[Len(h) + 4] = LF
  <2>1. 1 \in 1 .. Len(x) /\ 2 \in 1 .. Len(x) /\ 3 \in 1 .. Len(x) /\ 4 \in 1 .. Len(x)
    BY <1>3
  <2> QED
    BY <1>3, <1>4, <2>1
<1>6. ASSUME NEW j \in 1 .. Len(rest) PROVE t[Len(h) + 4 + j] = rest[j]
  <2>1. 4 + j \in 1 .. Len(x) /\ Len(h) + (4 + j) = Len(h) + 4 + j
    BY <1>3, <1>4
  <2> QED
    BY <1>3, <1>4, <2>1
<1>7. Len(t) = Len(h) + 4 + Len(rest)
  BY <1>3, <1>4
<1> QED
  BY <1>3, <1>4, <1>5, <1>6, <1>7 DEF t

(* No line end within a text, followed by another, is the end of a head as *)
(* long as the text has no empty line.                                     *)
LEMMA NoEarlierEnd ==
  ASSUME NEW h \in Seq(Byte), <<>> \notin LinesIn(h), NEW rest \in Seq(Byte),
         NEW i \in 0 .. Len(h) - 1
  PROVE  ~(IsCRLF(Ended(h, rest), i) /\ IsCRLF(Ended(h, rest), i + 2))
<1> SUFFICES ASSUME IsCRLF(Ended(h, rest), i), IsCRLF(Ended(h, rest), i + 2)
             PROVE  FALSE
  OBVIOUS
<1> DEFINE t == Ended(h, rest)
<1>1. /\ Len(h) \in Nat /\ \A j \in 1 .. Len(h) : t[j] = h[j]
      /\ t[Len(h) + 1] = CR
  BY EndedCells
<1>2. IsCRLF(t, i) /\ IsCRLF(t, i + 2) /\ CR # LF
  BY HttpResponseAssumption
<1> HIDE DEF t
<1>3. i \in Nat /\ i + 2 \in Nat /\ i + 2 # Len(h) + 1
  <2>1. CASE i + 2 = Len(h) + 1
    BY <1>1, <1>2, <2>1 DEF IsCRLF
  <2> QED
    BY <1>1, <2>1
<1>4. i + 2 <= Len(h)
  BY <1>1, <1>3
<1>5. IsCRLF(h, i)
  <2>1. i + 1 \in 1 .. Len(h) /\ i + 2 \in 1 .. Len(h)
    BY <1>1, <1>4
  <2> QED
    BY <1>1, <1>2, <1>4, <2>1 DEF IsCRLF
<1>6. i + 2 \in LineStarts(h) /\ i + 2 # 0
  BY <1>3, <1>5, StartsInText
<1>7. i + 2 = Len(h) \/ IsCRLF(h, i + 2)
  <2>1. CASE (i + 2) + 2 <= Len(h)
    <3>1. (i + 2) + 1 \in 1 .. Len(h) /\ (i + 2) + 2 \in 1 .. Len(h)
      BY <1>1, <1>3, <2>1
    <3> QED
      BY <1>1, <1>2, <2>1, <3>1 DEF IsCRLF
  <2>2. CASE (i + 2) + 1 = Len(h)
    <3>1. (i + 2) + 2 = Len(h) + 1
      BY <1>1, <1>3, <2>2
    <3> QED
      BY <1>1, <1>2, <3>1 DEF IsCRLF
  <2> QED
    BY <1>1, <1>3, <1>4, <2>1, <2>2
<1>8. LineFrom(h, i + 2) = SubSeq(h, (i + 2) + 1, i + 2)
  <2>1. /\ i + 2 \in 0 .. Len(h) /\ i + 2 \in i + 2 .. Len(h)
        /\ \A j \in i + 2 .. (i + 2) - 1 : ~IsCRLF(h, j)
    BY <1>1, <1>3, <1>4
  <2> QED
    BY <1>7, <2>1, LineEndsAt
<1>9. SubSeq(h, (i + 2) + 1, i + 2) = <<>>
  BY <1>3, SubSeqEmpty
<1>10. <<>> \in LinesIn(h)
  BY <1>6, <1>8, <1>9, Zenon DEF LinesIn
<1> QED
  BY <1>10

(* findCRLFDouble finds the end of the head, whatever follows it.          *)
THEOREM HeadFound ==
  ASSUME NEW b, IsBuffer(b), NEW h \in Seq(Byte), <<>> \notin LinesIn(h),
         NEW rest \in Seq(Byte), Holds(b, Ended(h, rest))
  PROVE  FindCRLFDouble(b) = {b.r + Len(h)}
<1> DEFINE t == Ended(h, rest)
<1>1. /\ t \in Seq(Byte) /\ Len(t) = Len(h) + 4 + Len(rest)
      /\ Len(h) \in Nat /\ Len(rest) \in Nat
      /\ t[Len(h) + 1] = CR /\ t[Len(h) + 2] = LF
      /\ t[Len(h) + 3] = CR /\ t[Len(h) + 4] = LF
  BY EndedCells
<1>2. Holds(b, t)
  OBVIOUS
<1>3. ASSUME NEW i \in 0 .. Len(h) - 1 PROVE ~(IsCRLF(t, i) /\ IsCRLF(t, i + 2))
  BY NoEarlierEnd
<1> HIDE DEF t
<1>4. /\ b.r \in Nat /\ b.w \in Nat /\ Len(t) = b.w - b.r
      /\ \A i \in 1 .. Len(t) : b.cells[b.r + i - 1] = t[i]
  BY <1>2 DEF IsBuffer, Holds
<1> DEFINE EndAt(p) == p + 4 <= b.w /\ \A k \in 0 .. 1 : b.cells[p + 2 * k] = CR /\ b.cells[p + 2 * k + 1] = LF
<1>5. HeadEnds(b) = {p \in b.r .. b.w : EndAt(p)}
  BY DEF HeadEnds
<1>6. ASSUME NEW i \in 0 .. Len(t)
      PROVE  EndAt(b.r + i) <=> IsCRLF(t, i) /\ IsCRLF(t, i + 2)
  <2>1. (b.r + i) + 4 <= b.w <=> (i + 2) + 2 <= Len(t)
    BY <1>1, <1>4, SMTT(30)
  <2>2. EndAt(b.r + i) <=> /\ (b.r + i) + 4 <= b.w
                           /\ b.cells[b.r + i] = CR /\ b.cells[b.r + i + 1] = LF
                           /\ b.cells[b.r + i + 2] = CR /\ b.cells[b.r + i + 3] = LF
    <3>1. /\ (b.r + i) + 2 * 0 = b.r + i /\ (b.r + i) + 2 * 0 + 1 = b.r + i + 1
          /\ (b.r + i) + 2 * 1 = b.r + i + 2 /\ (b.r + i) + 2 * 1 + 1 = b.r + i + 3
      <4>1. b.r \in Nat /\ i \in Nat
        BY <1>1, <1>4
      <4> QED
        BY <4>1
    <3>2. 0 .. 1 = {0, 1}
      OBVIOUS
    <3> QED
      BY <3>1, <3>2
  <2>3. CASE (i + 2) + 2 <= Len(t)
    <3>1. /\ i + 1 \in 1 .. Len(t) /\ i + 2 \in 1 .. Len(t)
          /\ (i + 2) + 1 \in 1 .. Len(t) /\ (i + 2) + 2 \in 1 .. Len(t)
      BY <1>1, <2>3
    <3>2. /\ b.r + (i + 1) - 1 = b.r + i /\ b.r + (i + 2) - 1 = b.r + i + 1
          /\ b.r + ((i + 2) + 1) - 1 = b.r + i + 2 /\ b.r + ((i + 2) + 2) - 1 = b.r + i + 3
      <4>1. b.r \in Nat /\ i \in Nat
        BY <1>1, <1>4
      <4> QED
        BY <4>1
    <3>3. /\ b.cells[b.r + (i + 1) - 1] = t[i + 1]
          /\ b.cells[b.r + (i + 2) - 1] = t[i + 2]
          /\ b.cells[b.r + ((i + 2) + 1) - 1] = t[(i + 2) + 1]
          /\ b.cells[b.r + ((i + 2) + 2) - 1] = t[(i + 2) + 2]
      BY <1>4, <3>1, Zenon
    <3>5. /\ b.cells[b.r + i] = t[i + 1] /\ b.cells[b.r + i + 1] = t[i + 2]
          /\ b.cells[b.r + i + 2] = t[(i + 2) + 1] /\ b.cells[b.r + i + 3] = t[(i + 2) + 2]
      <4> HIDE DEF EndAt
      <4> QED
        BY <3>2, <3>3, Zenon
    <3>4. i + 2 <= Len(t)
      BY <1>1, <2>3
    <3> HIDE DEF EndAt
    <3> QED
      BY <2>1, <2>2, <2>3, <3>4, <3>5 DEF IsCRLF
  <2>4. CASE ~((i + 2) + 2 <= Len(t))
    BY <2>1, <2>2, <2>4 DEF IsCRLF
  <2> QED
    BY <2>3, <2>4
<1>7. EndAt(b.r + Len(h)) /\ b.r + Len(h) \in HeadEnds(b)
  <2>1. IsCRLF(t, Len(h)) /\ IsCRLF(t, Len(h) + 2)
    <3>1. /\ Len(h) + 2 <= Len(t) /\ (Len(h) + 2) + 2 <= Len(t)
          /\ (Len(h) + 2) + 1 = Len(h) + 3 /\ (Len(h) + 2) + 2 = Len(h) + 4
      BY <1>1
    <3> QED
      BY <1>1, <3>1 DEF IsCRLF
  <2>2. Len(h) \in 0 .. Len(t) /\ b.r + Len(h) \in b.r .. b.w
    BY <1>1, <1>4
  <2> HIDE DEF EndAt
  <2> QED
    BY <1>5, <1>6, <2>1, <2>2
<1>8. ASSUME NEW p \in HeadEnds(b) PROVE b.r + Len(h) <= p
  <2> SUFFICES ASSUME p < b.r + Len(h) PROVE FALSE
    BY <1>1, <1>4, <1>5
  <2>1. p \in b.r .. b.w /\ EndAt(p)
    BY <1>5
  <2> HIDE DEF EndAt
  <2>2. PICK i \in 0 .. Len(h) - 1 : p = b.r + i
    <3>1. p \in Nat /\ b.r <= p /\ b.r \in Nat /\ Len(h) \in Nat
      BY <1>1, <1>4, <2>1
    <3>2. p - b.r \in 0 .. Len(h) - 1 /\ p = b.r + (p - b.r)
      BY <3>1
    <3> QED
      BY <3>2
  <2>3. i \in 0 .. Len(t)
    BY <1>1
  <2> QED
    BY <1>3, <1>6, <2>1, <2>2, <2>3
<1>9. HeadEnds(b) \subseteq Nat
  BY <1>4, <1>5
<1> HIDE DEF EndAt
<1> QED
  BY <1>1, <1>4, <1>7, <1>8, <1>9 DEF FindCRLFDouble

(* A header line is not empty.                                             *)
LEMMA HeadHasNoEmptyLine ==
  ASSUME NEW r, IsResponse(r), NEW h, IsHead(h, r, DOMAIN r.header)
  PROVE  <<>> \notin LinesIn(h)
<1> SUFFICES ASSUME NEW n \in DOMAIN r.header PROVE HeaderLineOf(r, n) # <<>>
  BY DEF IsHead
<1> DEFINE t == HeaderLineOf(r, n)
           v == r.header[n]
<1>1. Len(n) \in Nat /\ Len(t) = Len(n) + 1 + Len(v) /\ Len(v) \in Nat
  BY HeaderLineCells
<1> HIDE DEF t, v
<1>2. Len(t) # 0 /\ Len(<<>>) = 0
  BY <1>1
<1> QED
  BY <1>2 DEF t

-----------------------------------------------------------------------------
(* Serialization, text by text.                                            *)

(* No text is larger than the vector was at first, nor is a line end.      *)
TextsFit ==
  /\ 2 <= InitSize
  /\ \A t \in {Message[c] : c \in StatusCode} \union Name \union Value \union Body :
       Len(t) <= InitSize

(* b holds s and, after it, t, in a vector that is not smaller than at     *)
(* first.                                                                  *)
Grown(b, s, t) ==
  /\ IsBuffer(b) /\ InitSize <= b.size
  /\ t \in Seq(Byte) /\ Holds(b, s \o t)

(* Concatenation, as an operator that is only expanded where it must be.   *)
Cat(s, t) == s \o t

(* Texts are put together in any grouping.                                 *)
LEMMA CatFacts ==
  ASSUME NEW s \in Seq(Byte), NEW t \in Seq(Byte), NEW u \in Seq(Byte)
  PROVE  Cat(s, t) \in Seq(Byte) /\ Cat(Cat(s, t), u) = Cat(s, Cat(t, u))
<1>1. s \o t \in Seq(Byte)
  BY ConcatCell
<1>2. (s \o t) \o u = s \o (t \o u)
  BY ConcatAssoc, Zenon
<1> QED
  BY <1>1, <1>2, Zenon DEF Cat

(* What is appended comes last.                                            *)
LEMMA GrownAppend ==
  ASSUME NEW b, NEW s \in Seq(Byte), NEW t, Grown(b, s, t),
         NEW str \in Seq(Byte), Len(str) <= InitSize
  PROVE  Grown(AppendTo(b, str), s, Cat(t, str))
<1>1. /\ IsBuffer(b) /\ InitSize <= b.size /\ t \in Seq(Byte) /\ Holds(b, s \o t)
  BY Zenon DEF Grown
<1>2. s \o t \in Seq(Byte) /\ t \o str \in Seq(Byte)
  BY <1>1, ConcatCell
<1>3. Len(str) <= b.size /\ b.size \in Nat /\ InitSize \in Nat /\ Len(str) \in Nat
  <2>1. b.size \in Nat /\ InitSize \in Nat /\ Len(str) \in Nat
    BY <1>1, BufferMethodsAssumption DEF IsBuffer
  <2> QED
    BY <1>1, <2>1
<1>4. PICK u, c : u = s \o t /\ c = AppendTo(b, str)
  OBVIOUS
<1>5. /\ IsBuffer(c) /\ Holds(c, u \o str)
      /\ c.size = b.size \/ c.size >= b.size
  <2>1. u \in Seq(Byte) /\ Holds(b, u)
    BY <1>1, <1>2, <1>4, Zenon
  <2> QED
    BY <1>1, <1>3, <1>4, <2>1, AppendToAppends
<1>6. InitSize <= c.size
  <2>1. c.size \in Nat
    BY <1>5 DEF IsBuffer
  <2> QED
    BY <1>1, <1>3, <1>5, <2>1
<1>7. u \o str = s \o (t \o str)
  BY <1>1, <1>4, ConcatAssoc, Zenon
<1>8. Holds(c, s \o (t \o str))
  BY <1>5, <1>7, Zenon
<1> QED
  BY <1>2, <1>4, <1>5, <1>6, <1>8, Zenon DEF Grown, Cat

(* Four and six texts, one after the other.                                *)
LEMMA GrownFour ==
  ASSUME NEW b, NEW s \in Seq(Byte), NEW t, Grown(b, s, t),
         NEW a1 \in Seq(Byte), NEW a2 \in Seq(Byte), NEW a3 \in Seq(Byte), NEW a4 \in Seq(Byte),
         Len(a1) <= InitSize, Len(a2) <= InitSize, Len(a3) <= InitSize, Len(a4) <= InitSize
  PROVE  Grown(AppendAll(b, <<a1, a2, a3, a4>>), s, Cat(Cat(Cat(Cat(t, a1), a2), a3), a4))
<1> DEFINE xs == <<a1, a2, a3, a4>>
<1>1. DOMAIN xs = 1 .. 4 /\ xs[1] = a1 /\ xs[2] = a2 /\ xs[3] = a3 /\ xs[4] = a4
  OBVIOUS
<1> HIDE DEF xs
<1>2. PICK f : Lists(f, "text", b, xs, 4, AppendAll(b, xs))
  BY <1>1, FoldAppendTo
<1>3. /\ f[0] = b /\ f[4] = AppendAll(b, xs)
      /\ f[1] = AppendTo(f[0], a1) /\ f[2] = AppendTo(f[1], a2)
      /\ f[3] = AppendTo(f[2], a3) /\ f[4] = AppendTo(f[3], a4)
  <2>1. \A i \in 1 .. 4 : f[i] = AppendTo(f[i - 1], xs[i])
    BY <1>2 DEF Lists, Step
  <2>2. /\ 1 \in 1 .. 4 /\ 2 \in 1 .. 4 /\ 3 \in 1 .. 4 /\ 4 \in 1 .. 4
        /\ 1 - 1 = 0 /\ 2 - 1 = 1 /\ 3 - 1 = 2 /\ 4 - 1 = 3
    OBVIOUS
  <2> QED
    BY <1>1, <1>2, <2>1, <2>2 DEF Lists
<1>4. Grown(f[1], s, Cat(t, a1))
  BY <1>3, GrownAppend, Zenon
<1>5. Grown(f[2], s, Cat(Cat(t, a1), a2))
  BY <1>3, <1>4, GrownAppend, Zenon
<1>6. Grown(f[3], s, Cat(Cat(Cat(t, a1), a2), a3))
  BY <1>3, <1>5, GrownAppend, Zenon
<1>7. Grown(f[4], s, Cat(Cat(Cat(Cat(t, a1), a2), a3), a4))
  BY <1>3, <1>6, GrownAppend, Zenon
<1> QED
  BY <1>3, <1>7, Zenon DEF xs

LEMMA GrownSix ==
  ASSUME NEW b, NEW s \in Seq(Byte), NEW t, Grown(b, s, t),
         NEW a1 \in Seq(Byte), NEW a2 \in Seq(Byte), NEW a3 \in Seq(Byte),
         NEW a4 \in Seq(Byte), NEW a5 \in Seq(Byte), NEW a6 \in Seq(Byte),
         Len(a1) <= InitSize, Len(a2) <= InitSize, Len(a3) <= InitSize,
         Len(a4) <= InitSize, Len(a5) <= InitSize, Len(a6) <= InitSize
  PROVE  Grown(AppendAll(b, <<a1, a2, a3, a4, a5, a6>>), s,
               Cat(Cat(Cat(Cat(Cat(Cat(t, a1), a2), a3), a4), a5), a6))
<1> DEFINE xs == <<a1, a2, a3, a4, a5, a6>>
<1>1. /\ DOMAIN xs = 1 .. 6 /\ xs[1] = a1 /\ xs[2] = a2 /\ xs[3] = a3
      /\ xs[4] = a4 /\ xs[5] = a5 /\ xs[6] = a6
  OBVIOUS
<1> HIDE DEF xs
<1>2. PICK f : Lists(f, "text", b, xs, 6, AppendAll(b, xs))
  BY <1>1, FoldAppendTo
<1>3. /\ f[0] = b /\ f[6] = AppendAll(b, xs)
      /\ f[1] = AppendTo(f[0], a1) /\ f[2] = AppendTo(f[1], a2)
      /\ f[3] = AppendTo(f[2], a3) /\ f[4] = AppendTo(f[3], a4)
      /\ f[5] = AppendTo(f[4], a5) /\ f[6] = AppendTo(f[5], a6)
  <2>1. \A i \in 1 .. 6 : f[i] = AppendTo(f[i - 1], xs[i])
    BY <1>2 DEF Lists, Step
  <2>2. /\ 1 \in 1 .. 6 /\ 2 \in 1 .. 6 /\ 3 \in 1 .. 6
        /\ 4 \in 1 .. 6 /\ 5 \in 1 .. 6 /\ 6 \in 1 .. 6
        /\ 1 - 1 = 0 /\ 2 - 1 = 1 /\ 3 - 1 = 2 /\ 4 - 1 = 3 /\ 5 - 1 = 4 /\ 6 - 1 = 5
    OBVIOUS
  <2> QED
    BY <1>1, <1>2, <2>1, <2>2 DEF Lists
<1>4. Grown(f[1], s, Cat(t, a1))
  BY <1>3, GrownAppend, Zenon
<1>5. Grown(f[2], s, Cat(Cat(t, a1), a2))
  BY <1>3, <1>4, GrownAppend, Zenon
<1>6. Grown(f[3], s, Cat(Cat(Cat(t, a1), a2), a3))
  BY <1>3, <1>5, GrownAppend, Zenon
<1>7. Grown(f[4], s, Cat(Cat(Cat(Cat(t, a1), a2), a3), a4))
  BY <1>3, <1>6, GrownAppend, Zenon
<1>8. Grown(f[5], s, Cat(Cat(Cat(Cat(Cat(t, a1), a2), a3), a4), a5))
  BY <1>3, <1>7, GrownAppend, Zenon
<1>9. Grown(f[6], s, Cat(Cat(Cat(Cat(Cat(Cat(t, a1), a2), a3), a4), a5), a6))
  BY <1>3, <1>8, GrownAppend, Zenon
<1> QED
  BY <1>3, <1>9, Zenon DEF xs

(* r is what has been set.                                                 *)
IsSet(r) ==
  /\ IsResponse(r)
  /\ r.code = code /\ r.message = statusMessage
  /\ r.header = requestHeader /\ r.body = body

(* A text with one more token.                                             *)
LEMMA TokenAdded ==
  ASSUME NEW s \in Seq(Byte), NEW e \in Seq(Byte), Len(e) = 1, NEW t \in Seq(Byte),
         Len(t) = Len(s) + 1, t[Len(s) + 1] = e[1], \A i \in 1 .. Len(s) : t[i] = s[i]
  PROVE  Joined(t, s, e)
<1> DEFINE c == s \o e
<1>1. /\ c \in Seq(Byte) /\ Len(c) = Len(s) + Len(e) /\ Len(s) \in Nat
      /\ \A i \in 1 .. Len(s) : c[i] = s[i]
      /\ \A i \in 1 .. Len(e) : c[Len(s) + i] = e[i]
  BY ConcatCell, Zenon
<1> HIDE DEF c
<1>2. Len(c) = Len(t) /\ Len(c) = Len(s) + 1 /\ c[Len(s) + 1] = e[1]
  BY <1>1
<1>3. ASSUME NEW i \in 1 .. Len(c) PROVE c[i] = t[i]
  <2>1. i \in 1 .. Len(s) \/ i = Len(s) + 1
    BY <1>1, <1>2
  <2> QED
    BY <1>1, <1>2, <2>1
<1>4. c = t
  BY <1>1, <1>2, <1>3, SeqEqual
<1> QED
  BY <1>4, Zenon DEF c, Joined

(* The four tokens that start a status line.                               *)
LEMMA TokensJoined ==
  ASSUME NEW x \in Byte, NEW y \in Byte, NEW z \in Byte
  PROVE  (((<<>> \o <<x>>) \o <<y>>) \o <<z>>) \o <<y>> = <<x, y, z, y>>
<1> DEFINE a == <<x>>  b == <<y>>  c == <<z>>
           t2 == <<x, y>>  t3 == <<x, y, z>>  t4 == <<x, y, z, y>>
<1>1. /\ a \in Seq(Byte) /\ Len(a) = 1 /\ a[1] = x
      /\ b \in Seq(Byte) /\ Len(b) = 1 /\ b[1] = y
      /\ c \in Seq(Byte) /\ Len(c) = 1 /\ c[1] = z
  OBVIOUS
<1>2. /\ t2 \in Seq(Byte) /\ Len(t2) = 2 /\ t2[1] = x /\ t2[2] = y
      /\ t3 \in Seq(Byte) /\ Len(t3) = 3 /\ t3[1] = x /\ t3[2] = y /\ t3[3] = z
      /\ t4 \in Seq(Byte) /\ Len(t4) = 4
      /\ t4[1] = x /\ t4[2] = y /\ t4[3] = z /\ t4[4] = y
  OBVIOUS
<1>3. <<>> \o a = a
  BY <1>1, ConcatEmptySeq
<1> HIDE DEF a, b, c, t2, t3, t4
<1>4. Joined(t2, a, b) /\ Joined(t3, t2, c) /\ Joined(t4, t3, b)
  <2>1. /\ Len(t2) = Len(a) + 1 /\ t2[Len(a) + 1] = b[1]
        /\ \A i \in 1 .. Len(a) : t2[i] = a[i]
    BY <1>1, <1>2
  <2>2. /\ Len(t3) = Len(t2) + 1 /\ t3[Len(t2) + 1] = c[1]
        /\ \A i \in 1 .. Len(t2) : t3[i] = t2[i]
    <3>1. \A i \in 1 .. 2 : i = 1 \/ i = 2
      OBVIOUS
    <3> QED
      BY <1>1, <1>2, <3>1
  <2>3. /\ Len(t4) = Len(t3) + 1 /\ t4[Len(t3) + 1] = b[1]
        /\ \A i \in 1 .. Len(t3) : t4[i] = t3[i]
    <3>1. \A i \in 1 .. 3 : i = 1 \/ i = 2 \/ i = 3
      OBVIOUS
    <3> QED
      BY <1>1, <1>2, <3>1
  <2>4. Joined(t2, a, b)
    BY <1>1, <1>2, <2>1, TokenAdded
  <2>5. Joined(t3, t2, c)
    BY <1>1, <1>2, <2>2, TokenAdded
  <2>6. Joined(t4, t3, b)
    BY <1>1, <1>2, <2>3, TokenAdded
  <2> QED
    BY <2>4, <2>5, <2>6
<1>5. (((<<>> \o a) \o b) \o c) \o b = t4
  <2>1. t2 = a \o b /\ t3 = t2 \o c /\ t4 = t3 \o b
    BY <1>4, Zenon DEF Joined
  <2> QED
    BY <1>3, <2>1, Zenon
<1> QED
  BY <1>5, Zenon DEF a, b, c, t4

(* The status line is appended as the reader is to see it.                 *)
LEMMA StatusLineAppended ==
  ASSUME TextsFit, NEW r, IsSet(r), NEW b, NEW s \in Seq(Byte), Grown(b, s, <<>>)
  PROVE  Grown(AppendStatusLine(b), s, Cat(StatusLineOf(r), CRLF))
<1> DEFINE v == <<Version>>  p == <<Space>>  c == <<code>>  m == statusMessage
<1>1. v \in Seq(Byte) /\ p \in Seq(Byte) /\ c \in Seq(Byte) /\ Len(v) = 1 /\ Len(p) = 1 /\ Len(c) = 1
  <2>1. {Version, Space, code} \subseteq Byte
    BY HttpResponseAssumption DEF IsSet, IsResponse
  <2> QED
    BY <2>1
<1>2. m \in Seq(Byte) /\ Len(m) <= InitSize
  <2>1. code \in StatusCode /\ m = Message[code]
    BY DEF IsSet, IsResponse
  <2> QED
    BY <2>1, HttpResponseAssumption DEF TextsFit
<1>3. CRLF \in Seq(Byte) /\ Len(CRLF) <= InitSize /\ 1 <= InitSize
  <2>1. 2 <= InitSize /\ InitSize \in Nat
    BY BufferMethodsAssumption DEF TextsFit
  <2> QED
    BY <2>1, CRLFCells
<1>4. (((<<>> \o v) \o p) \o c) \o p = <<Version, Space, code, Space>>
  <2>1. Version \in Byte /\ Space \in Byte /\ code \in Byte
    BY HttpResponseAssumption DEF IsSet, IsResponse
  <2> QED
    BY <2>1, TokensJoined, Zenon
<1>5. ((((<<>> \o v) \o p) \o c) \o p) \o m = StatusLineOf(r)
  BY <1>4, Zenon DEF StatusLineOf, IsSet
<1>6. AppendStatusLine(b) = AppendAll(b, <<v, p, c, p, m, CRLF>>)
  BY Zenon DEF AppendStatusLine
<1> HIDE DEF v, p, c, m
<1>7. Len(v) <= InitSize /\ Len(p) <= InitSize /\ Len(c) <= InitSize
  BY <1>1, <1>3
<1>8. Grown(AppendAll(b, <<v, p, c, p, m, CRLF>>), s,
            Cat(Cat(Cat(Cat(Cat(Cat(<<>>, v), p), c), p), m), CRLF))
  BY <1>1, <1>2, <1>3, <1>7, GrownSix
<1> QED
  BY <1>5, <1>6, <1>8, Zenon DEF Cat

(* Five texts, grouped from the other side.                                *)
LEMMA Regroup ==
  ASSUME NEW a \in Seq(Byte), NEW b \in Seq(Byte), NEW c \in Seq(Byte), NEW d \in Seq(Byte),
         NEW e \in Seq(Byte)
  PROVE  Cat(Cat(Cat(Cat(a, b), c), d), e) = Cat(a, Cat(b, Cat(c, Cat(d, e))))
<1>1. /\ Cat(a, b) \in Seq(Byte) /\ Cat(Cat(a, b), c) \in Seq(Byte)
      /\ Cat(d, e) \in Seq(Byte) /\ Cat(c, Cat(d, e)) \in Seq(Byte)
  BY CatFacts
<1> QED
  BY <1>1, CatFacts

(* A header is appended as a line behind the head there is.                *)
LEMMA HeaderAppended ==
  ASSUME TextsFit, NEW r, IsSet(r), NEW n \in DOMAIN r.header,
         NEW b, NEW s \in Seq(Byte), NEW h \in Seq(Byte), Grown(b, s, Cat(h, CRLF))
  PROVE  Grown(AppendHeader(b, n), s, Cat(AddLine(h, HeaderLineOf(r, n)), CRLF))
<1> DEFINE c == <<Colon>>  v == requestHeader[n]
<1>1. c \in Seq(Byte) /\ Len(c) = 1
  BY HttpResponseAssumption
<1>2. v \in Seq(Byte) /\ Len(v) <= InitSize
  <2>1. v \in Value
    BY DEF IsSet, IsResponse
  <2> QED
    BY <2>1, HttpResponseAssumption DEF TextsFit
<1>3. n \in Seq(Byte) /\ Len(n) <= InitSize
  <2>1. n \in Name
    BY DEF IsSet, IsResponse
  <2> QED
    BY <2>1, HttpResponseAssumption DEF TextsFit
<1>4. CRLF \in Seq(Byte) /\ Len(CRLF) <= InitSize /\ 1 <= InitSize
  <2>1. 2 <= InitSize /\ InitSize \in Nat
    BY BufferMethodsAssumption DEF TextsFit
  <2> QED
    BY <2>1, CRLFCells
<1>5. AppendHeader(b, n) = AppendAll(b, <<n, c, v, CRLF>>)
  BY Zenon DEF AppendHeader
<1>6. HeaderLineOf(r, n) = n \o (c \o v)
  BY Zenon DEF HeaderLineOf, IsSet
<1> HIDE DEF c, v
<1>7. Len(c) <= InitSize
  BY <1>1, <1>4
<1>8. Grown(AppendAll(b, <<n, c, v, CRLF>>), s,
            Cat(Cat(Cat(Cat(Cat(h, CRLF), n), c), v), CRLF))
  <2>1. Cat(h, CRLF) \in Seq(Byte)
    BY <1>4, CatFacts
  <2> QED
    BY <1>1, <1>2, <1>3, <1>4, <1>7, <2>1, GrownFour
<1>9. Cat(Cat(Cat(Cat(h, CRLF), n), c), v) = Cat(h, Cat(CRLF, Cat(n, Cat(c, v))))
  BY <1>1, <1>2, <1>3, <1>4, Regroup
<1>10. AddLine(h, HeaderLineOf(r, n)) = Cat(h, Cat(CRLF, Cat(n, Cat(c, v))))
  BY <1>6, Zenon DEF AddLine, Cat
<1> QED
  BY <1>5, <1>8, <1>9, <1>10

(* The headers go out in some order, each of them once.                    *)
LEMMA OrderIsOnto ==
  ASSUME NEW S, IsFiniteSet(S), NEW order \in SetToSeqs(S)
  PROVE  /\ Cardinality(S) \in Nat
         /\ DOMAIN order = 1 .. Cardinality(S)
         /\ S = {order[i] : i \in 1 .. Cardinality(S)}
<1> DEFINE n == Cardinality(S)
           D == 1 .. n
<1>1. n \in Nat
  BY FS_CardinalityType
<1>2. order \in [D -> S] /\ \A i, j \in D : i # j => order[i] # order[j]
  BY DEF SetToSeqs
<1>3. IsFiniteSet(D) /\ Cardinality(D) = n
  <2>1. IsFiniteSet(1 .. n) /\ Cardinality(1 .. n) = IF 1 > n THEN 0 ELSE n - 1 + 1
    BY <1>1, FS_Interval
  <2>2. (IF 1 > n THEN 0 ELSE n - 1 + 1) = n
    BY <1>1
  <2> HIDE DEF n
  <2> QED
    BY <2>1, <2>2
<1> HIDE DEF n, D
<1>4. order \in Injection(D, S)
  BY <1>2 DEF Injection, IsInjective
<1>5. order \in Surjection(D, S)
  BY <1>3, <1>4, FS_Injection DEF n
<1>6. \A x \in S : \E i \in D : order[i] = x
  BY <1>5 DEF Surjection
<1> QED
  BY <1>1, <1>2, <1>6 DEF n, D

(* The status line alone is a head without headers.                        *)
LEMMA StatusLineIsHead ==
  ASSUME NEW r, IsResponse(r)
  PROVE  IsHead(StatusLineOf(r), r, {})
<1>1. StatusLineOf(r) \in Seq(Byte) /\ ~Has(StatusLineOf(r), CR)
  BY StatusLineCells
<1>2. LineFrom(StatusLineOf(r), 0) = StatusLineOf(r) /\ LinesIn(StatusLineOf(r)) = {}
  BY <1>1, OneLine
<1> QED
  BY <1>1, <1>2 DEF IsHead

(* A header line makes it a head with one header more.                     *)
LEMMA HeadGrows ==
  ASSUME NEW r, IsResponse(r), NEW h, NEW names, IsHead(h, r, names), NEW n \in DOMAIN r.header
  PROVE  IsHead(AddLine(h, HeaderLineOf(r, n)), r, names \union {n})
<1> DEFINE line == HeaderLineOf(r, n)
           t == AddLine(h, line)
<1>1. line \in Seq(Byte) /\ ~Has(line, CR)
  BY HeaderLineCells
<1>2. h \in Seq(Byte) /\ LineFrom(h, 0) = StatusLineOf(r)
      /\ LinesIn(h) = {HeaderLineOf(r, m) : m \in names}
  BY DEF IsHead
<1>3. t \in Seq(Byte) /\ LineFrom(t, 0) = LineFrom(h, 0) /\ LinesIn(t) = LinesIn(h) \union {line}
  <2> HIDE DEF line
  <2>1. t \in Seq(Byte)
    BY <1>1, <1>2, AddedCells
  <2> QED
    BY <1>1, <1>2, <2>1, AddedLine
<1>4. LinesIn(t) = {HeaderLineOf(r, m) : m \in names \union {n}}
  <2> HIDE DEF t
  <2> QED
    BY <1>2, <1>3
<1> QED
  BY <1>2, <1>3, <1>4 DEF IsHead

(* b holds s and, after it, the lines of r as far as names have got.       *)
HoldsLines(b, s, r, names) ==
  \E h : IsHead(h, r, names) /\ Grown(b, s, Cat(h, CRLF))

(* All the headers are appended, in whichever order.                       *)
LEMMA HeadersAppended ==
  ASSUME TextsFit, NEW r, IsSet(r), IsFiniteSet(DOMAIN r.header),
         NEW order \in SetToSeqs(DOMAIN r.header),
         NEW b, NEW s \in Seq(Byte), HoldsLines(b, s, r, {})
  PROVE  HoldsLines(FoldLeft(AppendHeader, b, order), s, r, DOMAIN r.header)
<1> DEFINE S == DOMAIN r.header
           n == Cardinality(S)
           Done(i) == {order[k] : k \in 1 .. i}
<1>1. n \in Nat /\ DOMAIN order = 1 .. n /\ S = Done(n)
  BY OrderIsOnto
<1>2. PICK f : Lists(f, "header", b, order, n, FoldLeft(AppendHeader, b, order))
  <2> HIDE DEF n
  <2> QED
    BY <1>1, FoldAppendHeader
<1>3. /\ f[0] = b /\ f[n] = FoldLeft(AppendHeader, b, order)
      /\ \A i \in 1 .. n : f[i] = AppendHeader(f[i - 1], order[i])
  <2> HIDE DEF n
  <2> QED
    BY <1>2 DEF Lists, Step
<1> DEFINE T == {i \in Nat : i <= n => HoldsLines(f[i], s, r, Done(i))}
<1>4. 0 \in T
  <2>1. Done(0) = {}
    OBVIOUS
  <2> HIDE DEF Done
  <2> QED
    BY <1>3, <2>1
<1>5. ASSUME NEW i \in Nat, i \in T PROVE i + 1 \in T
  <2> SUFFICES ASSUME i + 1 <= n PROVE HoldsLines(f[i + 1], s, r, Done(i + 1))
    OBVIOUS
  <2>1. i <= n /\ i + 1 \in 1 .. n /\ (i + 1) - 1 = i
    BY <1>1
  <2>2. Done(i + 1) = Done(i) \union {order[i + 1]}
    <3>1. \A k \in 1 .. i + 1 : k \in 1 .. i \/ k = i + 1
      OBVIOUS
    <3>2. 1 .. i \subseteq 1 .. i + 1 /\ i + 1 \in 1 .. i + 1
      OBVIOUS
    <3> QED
      BY <3>1, <3>2
  <2>3. order[i + 1] \in DOMAIN r.header
    <3>1. order[i + 1] \in Done(n)
      BY <2>1
    <3> QED
      BY <1>1, <3>1
  <2> DEFINE m == order[i + 1]
  <2>4. f[i + 1] = AppendHeader(f[i], m)
    BY <1>3, <2>1
  <2>5. HoldsLines(f[i], s, r, Done(i))
    BY <1>5, <2>1
  <2> HIDE DEF Done, m
  <2>6. PICK h : IsHead(h, r, Done(i)) /\ Grown(f[i], s, Cat(h, CRLF))
    BY <2>5, Zenon DEF HoldsLines
  <2>7. m \in DOMAIN r.header /\ h \in Seq(Byte) /\ IsResponse(r)
    BY <2>3, <2>6 DEF m, IsHead, IsSet
  <2>8. IsHead(AddLine(h, HeaderLineOf(r, m)), r, Done(i) \union {m})
    BY <2>6, <2>7, HeadGrows, Zenon
  <2>9. Grown(f[i + 1], s, Cat(AddLine(h, HeaderLineOf(r, m)), CRLF))
    BY <2>4, <2>6, <2>7, HeaderAppended, Zenon
  <2> QED
    BY <2>2, <2>8, <2>9, Zenon DEF HoldsLines, m
<1>6. Nat \subseteq T
  <2> HIDE DEF T
  <2> QED
    BY <1>4, <1>5, SetInduction
<1>7. HoldsLines(f[n], s, r, Done(n))
  <2>1. n \in T
    BY <1>1, <1>6
  <2>2. n <= n
    BY <1>1
  <2> HIDE DEF Done
  <2> QED
    BY <2>1, <2>2
<1> QED
  BY <1>1, <1>3, <1>7

(* The text of r, with the headers in some order.                          *)
IsText(t, r) == \E h : IsHead(h, r, DOMAIN r.header) /\ t = Ended(h, r.body)

(* Serialization appends one text of what is set: a head, an empty line    *)
(* and the body, whichever order the hash table has the headers in.        *)
THEOREM TextAppended ==
  ASSUME TextsFit, NEW r, IsSet(r), IsFiniteSet(DOMAIN r.header),
         body \in Body \union {<<>>}, useBody \in BOOLEAN, ~useBody => body = <<>>,
         NEW order \in SetToSeqs(DOMAIN r.header),
         NEW b, NEW s \in Seq(Byte), Grown(b, s, <<>>)
  PROVE  \E t : IsText(t, r) /\ Grown(AppendResponse(b, order), s, t)
<1>1. IsResponse(r)
  BY DEF IsSet
<1>2. HoldsLines(AppendStatusLine(b), s, r, {})
  BY <1>1, StatusLineAppended, StatusLineIsHead, Zenon DEF HoldsLines
<1>3. HoldsLines(FoldLeft(AppendHeader, AppendStatusLine(b), order), s, r, DOMAIN r.header)
  BY <1>2, HeadersAppended, Zenon
<1> DEFINE c == FoldLeft(AppendHeader, AppendStatusLine(b), order)
<1>4. AppendResponse(b, order) = IF useBody THEN AppendTo(AppendTo(c, CRLF), body)
                                 ELSE AppendTo(c, CRLF)
  BY Zenon DEF AppendResponse
<1> HIDE DEF c
<1>5. PICK h : IsHead(h, r, DOMAIN r.header) /\ Grown(c, s, Cat(h, CRLF))
  BY <1>3, Zenon DEF HoldsLines, c
<1>6. /\ CRLF \in Seq(Byte) /\ Len(CRLF) <= InitSize
      /\ body \in Seq(Byte) /\ Len(body) <= InitSize /\ h \in Seq(Byte)
  <2>1. 2 <= InitSize /\ InitSize \in Nat
    BY BufferMethodsAssumption DEF TextsFit
  <2>2. CASE body \in Body
    BY <1>5, <2>1, <2>2, CRLFCells, HttpResponseAssumption DEF TextsFit, IsHead
  <2>3. CASE body = <<>>
    BY <1>5, <2>1, <2>3, CRLFCells, NoBytes DEF IsHead
  <2> QED
    BY <2>2, <2>3
<1>7. /\ Grown(AppendTo(c, CRLF), s, Cat(h, EmptyLine))
      /\ EmptyLine \in Seq(Byte)
  <2>1. Grown(AppendTo(c, CRLF), s, Cat(Cat(h, CRLF), CRLF))
    BY <1>5, <1>6, GrownAppend
  <2>2. Cat(Cat(h, CRLF), CRLF) = Cat(h, Cat(CRLF, CRLF))
    BY <1>6, CatFacts
  <2>3. Cat(CRLF, CRLF) = EmptyLine
    BY Zenon DEF Cat, EmptyLine
  <2> QED
    BY <2>1, <2>2, <2>3, CRLFCells
<1>8. r.body = body /\ Ended(h, r.body) = Cat(h, Cat(EmptyLine, body))
  BY Zenon DEF IsSet, Ended, Cat
<1>9. Grown(AppendResponse(b, order), s, Cat(h, Cat(EmptyLine, body)))
  <2>1. Cat(Cat(h, EmptyLine), body) = Cat(h, Cat(EmptyLine, body))
    BY <1>6, <1>7, CatFacts
  <2>2. CASE useBody
    BY <1>4, <1>6, <1>7, <2>1, <2>2, GrownAppend
  <2>3. CASE ~useBody
    <3>1. body = <<>>
      BY <2>3
    <3>2. EmptyLine \o <<>> = EmptyLine
      BY <1>7, ConcatEmptySeq
    <3>3. Cat(EmptyLine, body) = EmptyLine
      BY <3>1, <3>2, Zenon DEF Cat
    <3> QED
      BY <1>4, <1>7, <2>3, <3>3
  <2> QED
    BY <2>2, <2>3
<1> QED
  BY <1>5, <1>8, <1>9, Zenon DEF IsText

(* What is unread is what the buffer holds.                                *)
LEMMA PeekAll ==
  ASSUME NEW b, IsBuffer(b)
  PROVE  LET u == Peek(b, ReadableSize(b)) IN
         /\ u \in Seq(Byte) /\ Len(u) = b.w - b.r /\ Holds(b, u)
         /\ \A s \in Seq(Byte) : Holds(b, s) => u = s
<1> DEFINE n == b.w - b.r
           u == [i \in 1 .. n |-> b.cells[b.r + i - 1]]
<1>1. /\ b.r \in Nat /\ b.w \in Nat /\ b.size \in Nat /\ b.r <= b.w /\ b.w <= b.size
      /\ b.cells \in [0 .. b.size - 1 -> Byte]
  BY DEF IsBuffer
<1>2. n \in Nat
  BY <1>1
<1>3. \A i \in 1 .. n : b.cells[b.r + i - 1] \in Byte
  BY <1>1, SMTT(30)
<1>4. u \in Seq(Byte) /\ Len(u) = n /\ \A i \in 1 .. n : u[i] = b.cells[b.r + i - 1]
  <2> HIDE DEF n
  <2> QED
    BY <1>2, <1>3
<1>5. Peek(b, ReadableSize(b)) = u
  BY Zenon DEF Peek, ReadableSize
<1> HIDE DEF u
<1>6. Holds(b, u)
  BY <1>4 DEF Holds
<1>7. ASSUME NEW s \in Seq(Byte), Holds(b, s) PROVE u = s
  <2>1. Len(s) = n /\ \A i \in 1 .. n : b.cells[b.r + i - 1] = s[i]
    BY <1>7 DEF Holds
  <2> QED
    BY <1>4, <2>1, SeqEqual
<1> QED
  BY <1>4, <1>5, <1>6, <1>7

(* The bytes after the i-th, up to the j-th.                               *)
Slice(text, i, j) == SubSeq(text, i + 1, j)

(* The text u is made of those of the responses from g on, cut where cut   *)
(* says.                                                                   *)
Slices(cut, u, g, n, q) ==
  /\ cut \in [g .. n -> 0 .. Len(u)] /\ cut[g] = 0 /\ cut[n] = Len(u)
  /\ \A i, j \in g .. n : i <= j => cut[i] <= cut[j]
  /\ \A i \in g + 1 .. n : IsText(Slice(u, cut[i - 1], cut[i]), q[i])

(* Slices of two texts that agree are the same.                            *)
LEMMA SliceCells ==
  ASSUME NEW u \in Seq(Byte), NEW i \in Nat, NEW j \in Nat, i <= j, j <= Len(u)
  PROVE  /\ Slice(u, i, j) \in Seq(Byte) /\ Len(Slice(u, i, j)) = j - i
         /\ \A m \in 1 .. j - i : Slice(u, i, j)[m] = u[i + m]
<1> DEFINE x == SubSeq(u, i + 1, j)
<1>1. Len(u) \in Nat /\ i + 1 \in Int /\ j \in Int
  OBVIOUS
<1>2. \A m \in i + 1 .. j : u[m] \in Byte
  <2>1. \A m \in i + 1 .. j : m \in 1 .. Len(u)
    BY <1>1
  <2> QED
    BY <2>1, ElementOfSeq
<1>3. /\ x \in Seq(Byte)
      /\ Len(x) = IF i + 1 <= j THEN j - (i + 1) + 1 ELSE 0
      /\ \A m \in 1 .. j - (i + 1) + 1 : x[m] = u[(i + 1) + m - 1]
  BY <1>1, <1>2, SubSeqProperties
<1> HIDE DEF x
<1>4. /\ (IF i + 1 <= j THEN j - (i + 1) + 1 ELSE 0) = j - i
      /\ j - (i + 1) + 1 = j - i
      /\ \A m \in 1 .. j - i : (i + 1) + m - 1 = i + m
  BY <1>1
<1>5. Slice(u, i, j) = x
  BY Zenon DEF Slice, x
<1> QED
  BY <1>3, <1>4, <1>5

(* The n bytes of u after the i-th are those of v after the x-th.          *)
Agree(u, i, v, x, n) == \A m \in 1 .. n : u[i + m] = v[x + m]

LEMMA SameSlice ==
  ASSUME NEW u \in Seq(Byte), NEW i \in Nat, NEW j \in Nat, i <= j, j <= Len(u),
         NEW v \in Seq(Byte), NEW x \in Nat, NEW y \in Nat, x <= y, y <= Len(v),
         NEW n \in Nat, j = i + n, y = x + n, Agree(u, i, v, x, n)
  PROVE  Slice(u, i, j) = Slice(v, x, y)
<1> DEFINE a == Slice(u, i, j)  b == Slice(v, x, y)
<1>1. /\ a \in Seq(Byte) /\ Len(a) = j - i
      /\ \A m \in 1 .. j - i : a[m] = u[i + m]
  BY SliceCells, ZenonT(40)
<1>2. /\ b \in Seq(Byte) /\ Len(b) = y - x
      /\ \A m \in 1 .. y - x : b[m] = v[x + m]
  BY SliceCells, ZenonT(40)
<1> HIDE DEF a, b
<1>3. Len(a) = Len(b) /\ Len(a) = n /\ j - i = n /\ y - x = n
  BY <1>1, <1>2
<1>4. ASSUME NEW m \in 1 .. Len(a) PROVE a[m] = b[m]
  <2>1. m \in 1 .. j - i /\ m \in 1 .. y - x /\ m \in 1 .. n
    BY <1>3
  <2> QED
    BY <1>1, <1>2, <2>1 DEF Agree
<1>5. a = b
  BY <1>1, <1>2, <1>3, <1>4, SeqEqual
<1> QED
  BY <1>5 DEF a, b

(* A text that is appended is one more slice.                              *)
LEMMA SliceAdded ==
  ASSUME NEW u \in Seq(Byte), NEW t \in Seq(Byte), NEW g \in Nat, NEW n \in Nat, g <= n,
         NEW q, NEW p, \A i \in 1 .. n : p[i] = q[i], IsText(t, p[n + 1]),
         NEW cut, Slices(cut, u, g, n, q)
  PROVE  \E c : Slices(c, Cat(u, t), g, n + 1, p)
<1> DEFINE v == Cat(u, t)
           c == [i \in g .. n + 1 |-> IF i = n + 1 THEN Len(v) ELSE cut[i]]
<1>1. /\ v \in Seq(Byte) /\ Len(v) = Len(u) + Len(t) /\ Len(u) \in Nat /\ Len(t) \in Nat
      /\ \A i \in 1 .. Len(u) : v[i] = u[i]
      /\ \A i \in 1 .. Len(t) : v[Len(u) + i] = t[i]
  <2>1. Joined(v, u, t)
    BY Zenon DEF Joined, Cat
  <2> HIDE DEF v
  <2> QED
    BY <2>1, JoinedCells
<1> HIDE DEF v
<1>2. /\ cut \in [g .. n -> 0 .. Len(u)] /\ cut[g] = 0 /\ cut[n] = Len(u)
      /\ \A i, j \in g .. n : i <= j => cut[i] <= cut[j]
      /\ \A i \in g + 1 .. n : IsText(Slice(u, cut[i - 1], cut[i]), q[i])
  BY Zenon DEF Slices
<1>3. /\ n + 1 \in g .. n + 1 /\ g \in g .. n /\ n \in g .. n
      /\ \A i \in g .. n + 1 : i = n + 1 \/ (i \in g .. n /\ i # n + 1)
      /\ \A i \in g .. n : i \in g .. n + 1 /\ i # n + 1 /\ i \in Nat
  OBVIOUS
<1>4. /\ DOMAIN c = g .. n + 1 /\ c[n + 1] = Len(v)
      /\ \A i \in g .. n : c[i] = cut[i]
      /\ c = [i \in g .. n + 1 |-> c[i]]
  BY <1>3
<1> HIDE DEF c
<1>5. \A i \in g .. n : cut[i] \in Nat /\ cut[i] <= Len(u) /\ cut[i] <= Len(v)
  <2> SUFFICES ASSUME NEW i \in g .. n
               PROVE cut[i] \in Nat /\ cut[i] <= Len(u) /\ cut[i] <= Len(v)
    OBVIOUS
  <2>1. cut[i] \in 0 .. Len(u)
    BY <1>2
  <2> QED
    BY <1>1, <2>1
<1>6. c \in [g .. n + 1 -> 0 .. Len(v)]
  <2>1. ASSUME NEW i \in g .. n + 1 PROVE c[i] \in 0 .. Len(v)
    <3>1. CASE i = n + 1
      BY <1>1, <1>4, <3>1
    <3>2. CASE i \in g .. n
      <4>1. c[i] = cut[i] /\ cut[i] \in Nat /\ cut[i] <= Len(v)
        BY <1>4, <1>5, <3>2
      <4> QED
        BY <1>1, <4>1
    <3> QED
      BY <1>3, <3>1, <3>2
  <2> QED
    BY <1>4, <2>1
<1>7. c[g] = 0
  BY <1>2, <1>3, <1>4
<1>8. ASSUME NEW i \in g .. n + 1, NEW j \in g .. n + 1, i <= j PROVE c[i] <= c[j]
  <2>1. CASE j = n + 1 /\ i = n + 1
    BY <1>1, <1>4, <2>1
  <2>2. CASE j = n + 1 /\ i \in g .. n
    <3>1. c[j] = Len(v) /\ c[i] = cut[i] /\ cut[i] <= Len(v)
      BY <1>4, <1>5, <2>2
    <3> QED
      BY <3>1
  <2>3. CASE j \in g .. n
    <3>1. i \in g .. n
      BY <1>8, <2>3
    <3> QED
      BY <1>2, <1>4, <1>8, <2>3, <3>1
  <2> QED
    BY <1>3, <2>1, <2>2, <2>3
<1>9. ASSUME NEW i \in g + 1 .. n + 1 PROVE IsText(Slice(v, c[i - 1], c[i]), p[i])
  <2>1. CASE i = n + 1
    <3>1. c[i - 1] = Len(u) /\ c[i] = Len(v)
      <4>1. i - 1 = n
        BY <2>1
      <4> QED
        BY <1>2, <1>3, <1>4, <2>1, <4>1
    <3>2. Slice(v, Len(u), Len(v)) = t
      <4>1. Agree(v, Len(u), t, 0, Len(t))
        <5> SUFFICES ASSUME NEW m \in 1 .. Len(t) PROVE v[Len(u) + m] = t[0 + m]
          BY DEF Agree
        <5>1. 0 + m = m
          OBVIOUS
        <5> QED
          BY <1>1, <5>1
      <4>2. /\ Len(u) <= Len(v) /\ Len(v) \in Nat /\ Len(t) <= Len(t) /\ Len(v) <= Len(v)
            /\ Len(v) = Len(u) + Len(t) /\ Len(t) = 0 + Len(t) /\ 0 <= Len(t) /\ 0 \in Nat
        BY <1>1
      <4>3. Slice(v, Len(u), Len(v)) = Slice(t, 0, Len(t))
        <5>1. v \in Seq(Byte) /\ Len(u) \in Nat /\ Len(t) \in Nat
          BY <1>1
        <5>2. Len(u) <= Len(v) /\ Len(v) <= Len(v) /\ 0 <= Len(t) /\ Len(t) <= Len(t)
          BY <4>2
        <5>3. Len(v) = Len(u) + Len(t) /\ Len(t) = 0 + Len(t) /\ Len(v) \in Nat /\ 0 \in Nat
          BY <4>2
        <5> QED
          BY <4>1, <5>1, <5>2, <5>3, SameSlice, SMTT(30)
      <4>4. Slice(t, 0, Len(t)) = SubSeq(t, 1, Len(t))
        BY DEF Slice
      <4>5. SubSeq(t, 1, Len(t)) = t
        BY SubSeqFull
      <4> QED
        BY <4>3, <4>4, <4>5, Zenon
    <3> QED
      BY <2>1, <3>1, <3>2, Zenon
  <2>2. CASE i \in g + 1 .. n
    <3>1. i \in g .. n /\ i - 1 \in g .. n /\ i - 1 <= i /\ i \in 1 .. n
      BY <2>2
    <3>2. c[i] = cut[i] /\ c[i - 1] = cut[i - 1] /\ p[i] = q[i]
      BY <1>4, <3>1
    <3> DEFINE e == cut[i]  d == cut[i - 1]
    <3>3. d \in Nat /\ e \in Nat /\ d <= e /\ e <= Len(u) /\ e <= Len(v)
      BY <1>2, <1>5, <3>1
    <3>4. IsText(Slice(u, d, e), q[i])
      BY <1>2, <2>2
    <3> HIDE DEF d, e
    <3>5. Slice(v, d, e) = Slice(u, d, e)
      <4> DEFINE l == e - d
      <4>1. Agree(v, d, u, d, l)
        <5> SUFFICES ASSUME NEW m \in 1 .. l PROVE v[d + m] = u[d + m]
          BY DEF Agree
        <5>1. d + m \in 1 .. Len(u)
          BY <1>1, <3>3
        <5> QED
          BY <1>1, <5>1
      <4>2. l \in Nat /\ e = d + l
        BY <3>3
      <4> HIDE DEF l
      <4>3. /\ v \in Seq(Byte) /\ d \in Nat /\ e \in Nat /\ d <= e
            /\ e <= Len(u) /\ e <= Len(v)
        BY <1>1, <3>3
      <4> QED
        BY <4>1, <4>2, <4>3, SameSlice
    <3> QED
      BY <3>2, <3>4, <3>5 DEF d, e
  <2> QED
    BY <2>1, <2>2
<1>10. Slices(c, v, g, n + 1, p)
  BY <1>4, <1>6, <1>7, <1>8, <1>9, Zenon DEF Slices
<1> QED
  BY <1>10 DEF v

(* The first text, and what is left of the slices without it.              *)
LEMMA SliceTaken ==
  ASSUME NEW u \in Seq(Byte), NEW g \in Nat, NEW n \in Nat, g < n, NEW q,
         NEW cut, Slices(cut, u, g, n, q)
  PROVE  LET k == cut[g + 1] IN
         /\ k \in Nat /\ k <= Len(u)
         /\ IsText(Slice(u, 0, k), q[g + 1])
         /\ g + 1 = n => k = Len(u)
         /\ \E c : Slices(c, Slice(u, k, Len(u)), g + 1, n, q)
<1> DEFINE k == cut[g + 1]
           v == Slice(u, k, Len(u))
           c == [i \in g + 1 .. n |-> cut[i] - k]
<1>1. /\ cut \in [g .. n -> 0 .. Len(u)] /\ cut[g] = 0 /\ cut[n] = Len(u)
      /\ \A i, j \in g .. n : i <= j => cut[i] <= cut[j]
      /\ \A i \in g + 1 .. n : IsText(Slice(u, cut[i - 1], cut[i]), q[i])
  BY Zenon DEF Slices
<1>2. /\ g + 1 \in g + 1 .. n /\ n \in g + 1 .. n /\ (g + 1) - 1 = g /\ Len(u) \in Nat
      /\ \A i \in g + 1 .. n : i \in g .. n /\ g + 1 <= i
  OBVIOUS
<1>3. k \in Nat /\ k <= Len(u)
  <2>1. k \in 0 .. Len(u)
    BY <1>1, <1>2
  <2> QED
    BY <1>2, <2>1
<1>4. IsText(Slice(u, 0, k), q[g + 1])
  <2>1. IsText(Slice(u, cut[(g + 1) - 1], cut[g + 1]), q[g + 1])
    BY <1>1, <1>2
  <2> QED
    BY <1>1, <1>2, <2>1
<1>5. g + 1 = n => k = Len(u)
  BY <1>1
<1>6. \A i \in g + 1 .. n : /\ cut[i] \in Nat /\ k <= cut[i] /\ cut[i] <= Len(u)
  <2> SUFFICES ASSUME NEW i \in g + 1 .. n
               PROVE  cut[i] \in Nat /\ k <= cut[i] /\ cut[i] <= Len(u)
    OBVIOUS
  <2>1. cut[i] \in 0 .. Len(u)
    BY <1>1, <1>2
  <2>2. k <= cut[i]
    BY <1>1, <1>2
  <2> QED
    BY <1>2, <2>1, <2>2
<1> HIDE DEF k
<1>7. /\ v \in Seq(Byte) /\ Len(v) = Len(u) - k
      /\ \A m \in 1 .. Len(u) - k : v[m] = u[k + m]
  <2>1. Len(u) <= Len(u)
    BY <1>2
  <2> QED
    BY <1>2, <1>3, <2>1, SliceCells
<1> HIDE DEF v
<1>8. /\ DOMAIN c = g + 1 .. n /\ c = [i \in g + 1 .. n |-> c[i]]
      /\ \A i \in g + 1 .. n : c[i] = cut[i] - k
  OBVIOUS
<1> HIDE DEF c
<1>9. c \in [g + 1 .. n -> 0 .. Len(v)]
  <2>1. ASSUME NEW i \in g + 1 .. n PROVE c[i] \in 0 .. Len(v)
    <3>1. c[i] = cut[i] - k /\ cut[i] \in Nat /\ k <= cut[i] /\ cut[i] <= Len(u)
      BY <1>6, <1>8
    <3> QED
      BY <1>2, <1>3, <1>7, <3>1
  <2> QED
    BY <1>8, <2>1
<1>10. c[g + 1] = 0 /\ c[n] = Len(v)
  <2>1. c[g + 1] = cut[g + 1] - k /\ c[n] = cut[n] - k
    BY <1>2, <1>8
  <2> QED
    BY <1>1, <1>3, <1>7, <2>1 DEF k
<1>11. ASSUME NEW i \in g + 1 .. n, NEW j \in g + 1 .. n, i <= j PROVE c[i] <= c[j]
  <2>1. cut[i] <= cut[j] /\ cut[i] \in Nat /\ cut[j] \in Nat
    BY <1>1, <1>2, <1>6, <1>11
  <2>2. c[i] = cut[i] - k /\ c[j] = cut[j] - k
    BY <1>8
  <2> QED
    BY <1>3, <2>1, <2>2
<1>12. ASSUME NEW i \in g + 1 + 1 .. n PROVE IsText(Slice(v, c[i - 1], c[i]), q[i])
  <2> DEFINE d == cut[i - 1]  e == cut[i]
  <2>1. i \in g + 1 .. n /\ i - 1 \in g + 1 .. n /\ i - 1 <= i
    BY <1>12
  <2>2. d \in Nat /\ e \in Nat /\ k <= d /\ d <= e /\ e <= Len(u)
    BY <1>1, <1>2, <1>6, <2>1
  <2>3. c[i - 1] = d - k /\ c[i] = e - k
    BY <1>8, <2>1
  <2>4. IsText(Slice(u, d, e), q[i])
    BY <1>1, <2>1, Zenon
  <2> HIDE DEF d, e
  <2> DEFINE x == d - k  y == e - k  l == e - d
  <2>5. x \in Nat /\ y \in Nat /\ x <= y /\ y <= Len(v) /\ l \in Nat /\ e = d + l /\ y = x + l
    BY <1>2, <1>3, <1>7, <2>2
  <2>6. Agree(u, d, v, x, l)
    <3> SUFFICES ASSUME NEW m \in 1 .. l PROVE u[d + m] = v[x + m]
      BY DEF Agree
    <3>1. x + m \in 1 .. Len(u) - k /\ k + (x + m) = d + m
      BY <1>2, <1>3, <2>2
    <3>2. v[x + m] = u[k + (x + m)]
      BY <1>7, <3>1
    <3> QED
      BY <3>1, <3>2
  <2>7. c[i - 1] = x /\ c[i] = y
    BY <2>3
  <2> HIDE DEF x, y, l
  <2>8. Slice(u, d, e) = Slice(v, x, y)
    <3>1. /\ v \in Seq(Byte) /\ d \in Nat /\ e \in Nat /\ d <= e /\ e <= Len(u)
          /\ x \in Nat /\ y \in Nat /\ x <= y /\ y <= Len(v)
          /\ l \in Nat /\ e = d + l /\ y = x + l
      BY <1>7, <2>2, <2>5
    <3> QED
      BY <2>6, <3>1, SameSlice
  <2> QED
    BY <2>4, <2>7, <2>8
<1>13. Slices(c, v, g + 1, n, q)
  BY <1>9, <1>10, <1>11, <1>12, Zenon DEF Slices
<1> QED
  BY <1>3, <1>4, <1>5, <1>13 DEF k, v

(* A text is what comes before a position and what comes after.            *)
LEMMA TwoSlices ==
  ASSUME NEW u \in Seq(Byte), NEW k \in Nat, k <= Len(u)
  PROVE  /\ u = Cat(Slice(u, 0, k), Slice(u, k, Len(u)))
         /\ Slice(u, 0, k) \in Seq(Byte) /\ Len(Slice(u, 0, k)) = k
         /\ Slice(u, k, Len(u)) \in Seq(Byte)
         /\ Slice(u, 0, k) = SubSeq(u, 1, k)
         /\ Slice(u, k, Len(u)) = SubSeq(u, k + 1, Len(u))
<1>1. k \in 0 .. Len(u)
  OBVIOUS
<1>2. /\ SubSeq(u, 1, k) \in Seq(Byte) /\ Len(SubSeq(u, 1, k)) = k
      /\ SubSeq(u, k + 1, Len(u)) \in Seq(Byte)
  BY <1>1, Pieces
<1>3. SubSeq(u, 1, k) \o SubSeq(u, k + 1, Len(u)) = u
  BY <1>1, Pieces, Zenon
<1>4. Slice(u, k, Len(u)) = SubSeq(u, k + 1, Len(u))
  BY Zenon DEF Slice
<1>5. Slice(u, 0, k) = SubSeq(u, 1, k)
  <2>1. 0 + 1 = 1
    OBVIOUS
  <2> QED
    BY <2>1, Zenon DEF Slice
<1>6. u = Cat(Slice(u, 0, k), Slice(u, k, Len(u)))
  BY <1>3, <1>4, <1>5, Zenon DEF Cat
<1> QED
  BY <1>2, <1>4, <1>5, <1>6, Zenon

(* What is left after retrieve.                                            *)
LEMMA RetrieveRest ==
  ASSUME NEW b, IsBuffer(b), NEW u \in Seq(Byte), Holds(b, u), NEW n \in Nat, n <= Len(u)
  PROVE  /\ IsBuffer(RetrieveFrom(b, n)) /\ RetrieveFrom(b, n).size = b.size
         /\ Holds(RetrieveFrom(b, n), Slice(u, n, Len(u)))
<1>1. n <= b.w - b.r
  BY DEF Holds
<1>2. PICK s1 \in Seq(Byte), s2 \in Seq(Byte) :
        /\ Joined(u, s1, s2) /\ Len(s1) = n
        /\ IsBuffer(RetrieveFrom(b, n)) /\ Holds(RetrieveFrom(b, n), s2)
  <2>1. \E s1, s2 \in Seq(Byte) :
          /\ u = s1 \o s2 /\ Len(s1) = n
          /\ Peek(b, n) = s1
          /\ IsBuffer(RetrieveFrom(b, n)) /\ Holds(RetrieveFrom(b, n), s2)
    BY <1>1, RetrieveSplits, Zenon
  <2> QED
    BY <2>1, Zenon DEF Joined
<1>3. /\ Len(u) = n + Len(s2) /\ Len(s2) \in Nat
      /\ \A i \in 1 .. Len(s2) : u[n + i] = s2[i]
  <2>1. /\ Len(u) = Len(s1) + Len(s2) /\ Len(s2) \in Nat
        /\ \A i \in 1 .. Len(s2) : u[Len(s1) + i] = s2[i]
    BY <1>2, JoinedCells
  <2> QED
    BY <1>2, <2>1
<1> DEFINE v == Slice(u, n, Len(u))
<1>4. /\ v \in Seq(Byte) /\ Len(v) = Len(u) - n
      /\ \A i \in 1 .. Len(u) - n : v[i] = u[n + i]
  <2>1. Len(u) \in Nat /\ Len(u) <= Len(u)
    OBVIOUS
  <2> QED
    BY <2>1, SliceCells
<1> HIDE DEF v
<1>5. v = s2
  <2>1. Len(v) = Len(s2) /\ Len(u) - n = Len(s2)
    BY <1>3, <1>4
  <2>2. \A i \in 1 .. Len(v) : v[i] = s2[i]
    BY <1>3, <1>4, <2>1
  <2> QED
    BY <1>2, <1>4, <2>1, <2>2, SeqEqual
<1>6. RetrieveFrom(b, n).size = b.size
  BY DEF RetrieveFrom
<1> QED
  BY <1>2, <1>5, <1>6 DEF v

(* The head of a text, and what follows the empty line.                    *)
LEMMA EndedSplits ==
  ASSUME NEW h \in Seq(Byte), NEW rest \in Seq(Byte), NEW u, u = Ended(h, rest)
  PROVE  /\ Slice(u, 0, Len(h)) = h
         /\ Slice(u, Len(h) + 4, Len(u)) = rest
<1>1. /\ u \in Seq(Byte) /\ Len(u) = Len(h) + 4 + Len(rest)
      /\ Len(h) \in Nat /\ Len(rest) \in Nat
      /\ \A j \in 1 .. Len(h) : u[j] = h[j]
      /\ \A j \in 1 .. Len(rest) : u[Len(h) + 4 + j] = rest[j]
  BY EndedCells
<1> DEFINE k == Len(h) + 4
           x == Slice(u, 0, Len(h))
           y == Slice(u, k, Len(u))
<1>2. /\ x \in Seq(Byte) /\ Len(x) = Len(h) - 0
      /\ \A m \in 1 .. Len(h) - 0 : x[m] = u[0 + m]
  <2>1. 0 \in Nat /\ 0 <= Len(h) /\ Len(h) <= Len(u)
    BY <1>1
  <2> QED
    BY <1>1, <2>1, SliceCells
<1>3. k \in Nat /\ k <= Len(u) /\ Len(u) \in Nat /\ Len(u) <= Len(u) /\ Len(u) - k = Len(rest)
  BY <1>1
<1>4. \A j \in 1 .. Len(rest) : u[k + j] = rest[j]
  BY <1>1
<1> HIDE DEF k
<1>5. /\ y \in Seq(Byte) /\ Len(y) = Len(u) - k
      /\ \A m \in 1 .. Len(u) - k : y[m] = u[k + m]
  BY <1>1, <1>3, SliceCells, ZenonT(40)
<1> HIDE DEF x, y
<1>6. x = h
  <2>1. Len(x) = Len(h)
    BY <1>1, <1>2
  <2>2. \A m \in 1 .. Len(x) : x[m] = h[m]
    <3> SUFFICES ASSUME NEW m \in 1 .. Len(x) PROVE x[m] = h[m]
      OBVIOUS
    <3>1. m \in 1 .. Len(h) /\ m \in 1 .. Len(h) - 0 /\ 0 + m = m
      BY <1>1, <2>1
    <3> QED
      BY <1>1, <1>2, <3>1
  <2> QED
    BY <1>2, <2>1, <2>2, SeqEqual
<1>7. y = rest
  <2>1. Len(y) = Len(rest)
    BY <1>3, <1>5
  <2>2. \A m \in 1 .. Len(y) : y[m] = rest[m]
    BY <1>3, <1>4, <1>5, <2>1
  <2> QED
    BY <1>5, <2>1, <2>2, SeqEqual
<1> QED
  BY <1>6, <1>7 DEF x, y, k

(* Where the text of a response comes first, its head does.                *)
LEMMA FirstHead ==
  ASSUME NEW u \in Seq(Byte), NEW g \in Nat, NEW n \in Nat, g < n, NEW q,
         IsResponse(q[g + 1]), NEW cut, Slices(cut, u, g, n, q)
  PROVE  LET r == q[g + 1] IN
         \E h, v \in Seq(Byte) :
           /\ IsHead(h, r, DOMAIN r.header) /\ u = Ended(h, Cat(r.body, v))
           /\ g + 1 = n => v = <<>>
           /\ \E c : Slices(c, v, g + 1, n, q)
<1> DEFINE r == q[g + 1]
           k == cut[g + 1]
           v == Slice(u, k, Len(u))
<1>1. /\ k \in Nat /\ k <= Len(u)
      /\ IsText(Slice(u, 0, k), r)
      /\ g + 1 = n => k = Len(u)
      /\ \E c : Slices(c, v, g + 1, n, q)
  BY SliceTaken
<1>2. IsResponse(r)
  OBVIOUS
<1> HIDE DEF k, r
<1>3. /\ u = Cat(Slice(u, 0, k), v) /\ v \in Seq(Byte)
      /\ v = SubSeq(u, k + 1, Len(u))
  <2>1. /\ u = Cat(Slice(u, 0, k), Slice(u, k, Len(u)))
        /\ Slice(u, k, Len(u)) \in Seq(Byte)
        /\ Slice(u, k, Len(u)) = SubSeq(u, k + 1, Len(u))
    BY <1>1, TwoSlices, Zenon
  <2> QED
    BY <2>1, Zenon
<1>4. PICK h : IsHead(h, r, DOMAIN r.header) /\ Slice(u, 0, k) = Ended(h, r.body)
  BY <1>1, Zenon DEF IsText
<1>5. h \in Seq(Byte) /\ r.body \in Seq(Byte) /\ EmptyLine \in Seq(Byte)
  BY <1>2, <1>4, CRLFCells DEF IsHead, IsResponse
<1>6. g + 1 = n => v = <<>>
  <2> SUFFICES ASSUME k = Len(u) PROVE v = <<>>
    BY <1>1
  <2>1. SubSeq(u, k + 1, Len(u)) = <<>>
    BY <1>1, SubSeqEmpty
  <2> QED
    BY <1>3, <2>1, Zenon
<1> HIDE DEF v
<1>7. u = Ended(h, Cat(r.body, v))
  <2>1. \A t : Ended(h, t) = Cat(h, Cat(EmptyLine, t))
    BY Zenon DEF Ended, Cat
  <2> DEFINE e == r.body
  <2>2. h \in Seq(Byte) /\ e \in Seq(Byte) /\ EmptyLine \in Seq(Byte) /\ v \in Seq(Byte)
    BY <1>3, <1>5
  <2> HIDE DEF e
  <2>3. /\ Cat(EmptyLine, e) \in Seq(Byte)
        /\ Cat(Cat(EmptyLine, e), v) = Cat(EmptyLine, Cat(e, v))
    BY <2>2, CatFacts
  <2>4. Cat(Cat(h, Cat(EmptyLine, e)), v) = Cat(h, Cat(Cat(EmptyLine, e), v))
    BY <2>2, <2>3, CatFacts
  <2>5. u = Cat(Cat(h, Cat(EmptyLine, e)), v)
    <3>1. u = Cat(Slice(u, 0, k), v) /\ Slice(u, 0, k) = Cat(h, Cat(EmptyLine, e))
      BY <1>3, <1>4, <2>1, Zenon DEF e
    <3> QED
      BY <3>1, Zenon
  <2>6. Ended(h, Cat(e, v)) = Cat(h, Cat(EmptyLine, Cat(e, v)))
    BY <2>1, Zenon
  <2>7. u = Ended(h, Cat(e, v))
    BY <2>3, <2>4, <2>5, <2>6, Zenon
  <2> QED
    BY <2>7 DEF e
<1> QED
  BY <1>1, <1>3, <1>4, <1>5, <1>6, <1>7 DEF r

(* The responses that can be set.                                          *)
Responses ==
  {r \in [code : StatusCode, message : Seq(Byte),
          header : UNION {[N -> Value] : N \in SUBSET Name}, body : Seq(Byte)] :
     IsResponse(r) /\ IsFiniteSet(DOMAIN r.header)}

(* What the handler has set.                                               *)
HandlerInv ==
  /\ code \in StatusCode /\ statusMessage = Message[code]
  /\ DOMAIN requestHeader \subseteq Name
  /\ requestHeader \in [DOMAIN requestHeader -> Value]
  /\ IsFiniteSet(DOMAIN requestHeader)
  /\ useBody \in BOOLEAN /\ body \in Body \union {<<>>}
  /\ ~useBody => body = <<>>

(* Only what was sent last can have a body, which closes the connection.   *)
BodyComesLast ==
  \A i \in 1 .. Len(sent) : sent[i].body # <<>> => i = Len(sent) /\ closed = TRUE

(* What is unread are the texts of the responses that were not taken yet,  *)
(* one after the other.                                                    *)
InTransit == \E cut : Slices(cut, Unread, Len(got), Len(sent), sent)

(* The buffer is sound, and so is what was sent and read over it.          *)
ConnectionInv ==
  /\ IsBuffer(out) /\ InitSize <= out.size
  /\ closed \in BOOLEAN
  /\ sent \in Seq(Responses) /\ got \in Seq(Responses)
  /\ Len(got) <= Len(sent)
  /\ ReadAsSent
  /\ BodyComesLast
  /\ InTransit

ResponseInv == HandlerInv /\ ConnectionInv

(* All texts are sequences of bytes.                                       *)
LEMMA MessagesAreBytes ==
  /\ \A c \in StatusCode : Message[c] \in Seq(Byte)
  /\ \A t \in Name \union Value \union Body : t \in Seq(Byte)
BY HttpResponseAssumption

(* The invariant holds at first, and each operation keeps it.              *)
LEMMA ResponseInitSound == ResponseInit => ResponseInv
<1> SUFFICES ASSUME ResponseInit PROVE ResponseInv
  OBVIOUS
<1>1. HandlerInv
  <2>1. DOMAIN requestHeader = {} /\ requestHeader \in [{} -> Value]
    BY DEF ResponseInit
  <2>2. IsFiniteSet({})
    BY FS_EmptySet
  <2> QED
    BY <2>1, <2>2, HttpResponseAssumption DEF ResponseInit, HandlerInv, StatusCode2Message
<1>2. IsBuffer(out) /\ InitSize <= out.size /\ out.w - out.r = 0
  BY BufferMethodsAssumption DEF ResponseInit, NewBuffer, IsBuffer
<1>3. sent = <<>> /\ got = <<>> /\ Len(sent) = 0 /\ Len(got) = 0 /\ closed = FALSE
      /\ sent \in Seq(Responses) /\ got \in Seq(Responses)
  BY DEF ResponseInit
<1>4. ReadAsSent
  <2>1. SubSeq(sent, 1, 0) = <<>>
    BY SubSeqEmpty
  <2> QED
    BY <1>3, <2>1 DEF ReadAsSent
<1>5. BodyComesLast
  BY <1>3 DEF BodyComesLast
<1>6. InTransit
  <2>1. Len(Unread) = 0
    BY <1>2, PeekAll DEF Unread
  <2> DEFINE c == [i \in 0 .. 0 |-> 0]
  <2>2. Slices(c, Unread, 0, 0, sent)
    <3>1. c \in [0 .. 0 -> 0 .. 0] /\ c[0] = 0 /\ \A i \in 0 .. 0 : i = 0
      OBVIOUS
    <3>2. \A i \in 0 + 1 .. 0 : FALSE
      OBVIOUS
    <3> HIDE DEF c
    <3> QED
      BY <2>1, <3>1, <3>2 DEF Slices
  <2> QED
    BY <1>3, <2>2, Zenon DEF InTransit
<1>7. Len(got) <= Len(sent) /\ closed \in BOOLEAN
  <2>1. Len(sent) = 0 /\ Len(got) = 0
    BY <1>3, Zenon
  <2>2. closed = FALSE
    BY <1>3, Zenon
  <2>3. Len(got) <= Len(sent)
    BY <2>1
  <2> QED
    BY <2>2, <2>3, Zenon
<1>8. sent \in Seq(Responses) /\ got \in Seq(Responses)
  BY <1>3
<1>9. IsBuffer(out) /\ InitSize <= out.size
  BY <1>2
<1>10. ConnectionInv
  BY <1>4, <1>5, <1>6, <1>7, <1>8, <1>9, Zenon DEF ConnectionInv
<1> QED
  BY <1>1, <1>10, Zenon DEF ResponseInv

(* What the handler sets does not touch the connection.                    *)
LEMMA SettingKeepsConnection ==
  ASSUME ConnectionInv, UNCHANGED <<out, closed, sent, got>>
  PROVE  ConnectionInv'
<1>0. out' = out /\ closed' = closed /\ sent' = sent /\ got' = got
  OBVIOUS
<1>1. Unread' = Unread /\ ReadAsSent' /\ BodyComesLast'
  <2>1. Unread' = Unread
    BY <1>0, Zenon DEF Unread
  <2>2. ReadAsSent'
    BY <1>0, Zenon DEF ConnectionInv, ReadAsSent
  <2>3. BodyComesLast'
    BY <1>0, Zenon DEF ConnectionInv, BodyComesLast
  <2> QED
    BY <2>1, <2>2, <2>3
<1>2. InTransit'
  BY <1>1 DEF ConnectionInv, InTransit
<1> QED
  BY <1>1, <1>2 DEF ConnectionInv

LEMMA SetStatusCodeSound ==
  ASSUME ResponseInv, NEW c \in StatusCode, SetStatusCode(c)
  PROVE  ResponseInv'
<1>1. HandlerInv'
  BY DEF ResponseInv, HandlerInv, SetStatusCode, StatusCode2Message
<1>2. ConnectionInv'
  BY SettingKeepsConnection DEF ResponseInv, SetStatusCode
<1> QED
  BY <1>1, <1>2 DEF ResponseInv

LEMMA AddHeaderSound ==
  ASSUME ResponseInv, NEW n \in Name, NEW v \in Value, AddHeader(n, v)
  PROVE  ResponseInv'
<1>1. DOMAIN requestHeader' = DOMAIN requestHeader \union {n}
  BY DEF AddHeader
<1>2. IsFiniteSet(DOMAIN requestHeader')
  BY <1>1, FS_AddElement DEF ResponseInv, HandlerInv
<1>3. requestHeader' \in [DOMAIN requestHeader' -> Value] /\ DOMAIN requestHeader' \subseteq Name
  BY <1>1 DEF AddHeader, ResponseInv, HandlerInv
<1>4. HandlerInv'
  BY <1>2, <1>3 DEF ResponseInv, HandlerInv, AddHeader
<1>5. ConnectionInv'
  BY SettingKeepsConnection DEF ResponseInv, AddHeader
<1> QED
  BY <1>4, <1>5 DEF ResponseInv

LEMMA SetBodySound ==
  ASSUME ResponseInv, NEW str \in Body, SetBody(str)
  PROVE  ResponseInv'
<1>1. HandlerInv'
  BY DEF ResponseInv, HandlerInv, SetBody
<1>2. ConnectionInv'
  BY SettingKeepsConnection DEF ResponseInv, SetBody
<1> QED
  BY <1>1, <1>2 DEF ResponseInv

(* What is serialized is what was set.                                     *)
LEMMA WhatIsSet ==
  ASSUME HandlerInv
  PROVE  LET r == [code |-> code, message |-> StatusCode2Message(code),
                   header |-> requestHeader, body |-> body]
         IN  IsSet(r) /\ r \in Responses
<1> DEFINE r == [code |-> code, message |-> StatusCode2Message(code),
                 header |-> requestHeader, body |-> body]
<1>1. body \in Seq(Byte) /\ Message[code] \in Seq(Byte)
  BY MessagesAreBytes, NoBytes DEF HandlerInv
<1>2. IsSet(r)
  BY <1>1 DEF HandlerInv, IsSet, IsResponse, StatusCode2Message
<1>3. requestHeader \in UNION {[N -> Value] : N \in SUBSET Name}
  BY DEF HandlerInv
<1>4. r \in Responses
  <2>1. r \in [code : StatusCode, message : Seq(Byte),
               header : UNION {[N -> Value] : N \in SUBSET Name}, body : Seq(Byte)]
    <3> HIDE DEF HandlerInv
    <3>1. code \in StatusCode
      BY DEF HandlerInv
    <3> QED
      BY <1>1, <1>3, <3>1 DEF StatusCode2Message
  <2>2. IsResponse(r)
    BY <1>2 DEF IsSet
  <2>3. IsFiniteSet(DOMAIN r.header)
    BY DEF HandlerInv
  <2> QED
    BY <2>1, <2>2, <2>3 DEF Responses
<1> QED
  BY <1>2, <1>4

(* A log that gets longer keeps its prefix, and a prefix may get longer.   *)
LEMMA PrefixStays ==
  ASSUME NEW S, NEW q \in Seq(S), NEW x \in S, NEW n \in Nat, n <= Len(q)
  PROVE  SubSeq(Append(q, x), 1, n) = SubSeq(q, 1, n)
<1> DEFINE p == Append(q, x)
<1>1. /\ p \in Seq(S) /\ Len(p) = Len(q) + 1 /\ Len(q) \in Nat
      /\ \A i \in 1 .. Len(q) : p[i] = q[i]
  OBVIOUS
<1> HIDE DEF p
<1>2. /\ \A i \in 1 .. n : p[i] \in S /\ q[i] \in S /\ p[i] = q[i]
  <2>1. \A i \in 1 .. n : i \in 1 .. Len(q)
    BY <1>1
  <2> QED
    BY <1>1, <2>1, ElementOfSeq
<1> DEFINE a == SubSeq(p, 1, n)  b == SubSeq(q, 1, n)
<1>3. /\ a \in Seq(S) /\ Len(a) = n /\ b \in Seq(S) /\ Len(b) = n
      /\ \A i \in 1 .. n : a[i] = p[i] /\ b[i] = q[i]
  BY <1>1, <1>2
<1> HIDE DEF a, b
<1>4. a = b
  BY <1>2, <1>3, SeqEqual
<1> QED
  BY <1>4 DEF a, b, p

LEMMA PrefixGrows ==
  ASSUME NEW S, NEW q \in Seq(S), NEW g \in Seq(S), Len(g) < Len(q), g = SubSeq(q, 1, Len(g))
  PROVE  Append(g, q[Len(g) + 1]) = SubSeq(q, 1, Len(g) + 1)
<1> DEFINE n == Len(g)
           x == q[n + 1]
           a == Append(g, x)
           b == SubSeq(q, 1, n + 1)
           c == SubSeq(q, 1, n)
<1>1. n \in Nat /\ n < Len(q) /\ Len(q) \in Nat /\ n + 1 \in 1 .. Len(q)
  OBVIOUS
<1>2. x \in S
  BY <1>1, ElementOfSeq
<1>3. g = c
  OBVIOUS
<1> HIDE DEF x
<1>4. /\ a \in Seq(S) /\ Len(a) = n + 1 /\ a[n + 1] = x
      /\ \A i \in 1 .. n : a[i] = g[i]
  BY <1>2
<1> HIDE DEF n, a
<1>5. \A i \in 1 .. n + 1 : q[i] \in S
  <2>1. \A i \in 1 .. n + 1 : i \in 1 .. Len(q)
    BY <1>1
  <2> QED
    BY <2>1, ElementOfSeq
<1>6. /\ b \in Seq(S) /\ Len(b) = n + 1
      /\ \A i \in 1 .. n + 1 : b[i] = q[i]
      /\ \A i \in 1 .. n : c[i] = q[i]
  BY <1>1, <1>5
<1> HIDE DEF b, c
<1>7. \A i \in 1 .. n + 1 : a[i] = b[i]
  <2> SUFFICES ASSUME NEW i \in 1 .. n + 1 PROVE a[i] = b[i]
    OBVIOUS
  <2>1. i \in 1 .. n \/ i = n + 1
    BY <1>1
  <2> QED
    BY <1>3, <1>4, <1>6, <2>1 DEF x
<1>8. a = b
  BY <1>1, <1>4, <1>6, <1>7, SeqEqual
<1> QED
  BY <1>8 DEF a, b, n, x

(* What was sent is a response.                                            *)
LEMMA ResponsesAreResponses ==
  ASSUME NEW q \in Seq(Responses), NEW i \in 1 .. Len(q)
  PROVE  IsResponse(q[i])
<1>1. q[i] \in Responses
  BY ElementOfSeq
<1> QED
  BY <1>1 DEF Responses

(* Serialization puts the text of what is set behind what is unread.       *)
LEMMA SerializationSound ==
  ASSUME TextsFit, ResponseInv, Serialization
  PROVE  ResponseInv'
<1> DEFINE r == [code |-> code, message |-> StatusCode2Message(code),
                 header |-> requestHeader, body |-> body]
           n == Len(sent)
           g == Len(got)
<1>1. IsSet(r) /\ r \in Responses /\ r.header = requestHeader /\ r.body = body
  BY WhatIsSet DEF ResponseInv
<1>2. /\ IsBuffer(out) /\ InitSize <= out.size
      /\ sent \in Seq(Responses) /\ got \in Seq(Responses)
      /\ n \in Nat /\ g \in Nat /\ g <= n
      /\ ReadAsSent /\ BodyComesLast /\ InTransit
  BY DEF ResponseInv, ConnectionInv
<1>3. /\ closed # TRUE
      /\ closed' = useBody /\ sent' = Append(sent, r) /\ got' = got
      /\ UNCHANGED messageVars
      /\ \E order \in SetToSeqs(DOMAIN requestHeader) : out' = AppendResponse(out, order)
  BY Zenon DEF Serialization
<1>4. HandlerInv'
  BY <1>3 DEF ResponseInv, HandlerInv, messageVars
<1>5. IsFiniteSet(DOMAIN requestHeader) /\ useBody \in BOOLEAN
      /\ body \in Body \union {<<>>} /\ (~useBody => body = <<>>)
  BY DEF ResponseInv, HandlerInv
<1> HIDE DEF r
<1>6. PICK order \in SetToSeqs(DOMAIN r.header) : out' = AppendResponse(out, order)
  BY <1>1, <1>3, Zenon
<1> DEFINE u == Unread
<1>7. u \in Seq(Byte) /\ Len(u) = out.w - out.r /\ Holds(out, u)
  BY <1>2, PeekAll DEF Unread
<1> HIDE DEF u
<1>8. Grown(out, u, <<>>)
  <2>1. u \o <<>> = u
    BY <1>7
  <2>2. <<>> \in Seq(Byte)
    OBVIOUS
  <2>3. Holds(out, u \o <<>>)
    BY <1>7, <2>1, Zenon
  <2> QED
    BY <1>2, <2>2, <2>3, Zenon DEF Grown
<1>9. PICK t : IsText(t, r) /\ Grown(AppendResponse(out, order), u, t)
  <2>1. IsFiniteSet(DOMAIN r.header)
    BY <1>1, <1>5
  <2> QED
    BY <1>1, <1>5, <1>7, <1>8, <2>1, TextAppended
<1>10. /\ IsBuffer(out') /\ InitSize <= out'.size /\ t \in Seq(Byte) /\ Holds(out', Cat(u, t))
  BY <1>6, <1>9, Zenon DEF Grown, Cat
<1>11. Unread' = Cat(u, t)
  <2>1. Cat(u, t) \in Seq(Byte)
    BY <1>7, <1>10, CatFacts
  <2>2. Unread' = Peek(out', ReadableSize(out'))
    BY DEF Unread
  <2> QED
    BY <1>10, <2>1, <2>2, PeekAll, Zenon
<1>12. /\ sent' \in Seq(Responses) /\ Len(sent') = n + 1 /\ sent'[n + 1] = r
       /\ \A i \in 1 .. n : sent'[i] = sent[i]
  BY <1>1, <1>2, <1>3
<1> HIDE DEF n, g
<1>13. InTransit'
  <2>1. PICK cut : Slices(cut, u, g, n, sent)
    BY <1>2, Zenon DEF InTransit, u, g, n
  <2>2. IsText(t, sent'[n + 1])
    BY <1>9, <1>12, Zenon
  <2>3. \E c : Slices(c, Cat(u, t), g, n + 1, sent')
    <3>1. \A i \in 1 .. n : sent'[i] = sent[i]
      BY <1>12
    <3> QED
      BY <1>2, <1>7, <1>10, <2>1, <2>2, <3>1, SliceAdded
  <2>4. Len(got') = g /\ Len(sent') = n + 1
    BY <1>3, <1>12 DEF g
  <2> QED
    BY <1>11, <2>3, <2>4, Zenon DEF InTransit
<1>14. ReadAsSent'
  <2>1. got = SubSeq(sent, 1, g)
    BY <1>2, Zenon DEF ReadAsSent, g
  <2>2. SubSeq(Append(sent, r), 1, g) = SubSeq(sent, 1, g)
    BY <1>1, <1>2, PrefixStays, Zenon DEF n
  <2> QED
    BY <1>3, <2>1, <2>2, Zenon DEF ReadAsSent, g
<1>15. BodyComesLast'
  <2> SUFFICES ASSUME NEW i \in 1 .. Len(sent'), sent'[i].body # <<>>
               PROVE  i = Len(sent') /\ closed' = TRUE
    BY DEF BodyComesLast
  <2>1. CASE i \in 1 .. n
    <3>1. sent[i].body # <<>>
      BY <1>12, <2>1, Zenon
    <3>2. closed = TRUE
      BY <1>2, <2>1, <3>1, Zenon DEF BodyComesLast, n
    <3> QED
      BY <1>3, <3>2
  <2>2. CASE i = n + 1
    <3>1. sent'[i] = r
      BY <1>12, <2>2
    <3>2. body # <<>>
      BY <1>1, <3>1, Zenon
    <3> QED
      BY <1>3, <1>5, <1>12, <2>2, <3>2, Zenon
  <2>3. i \in 1 .. n \/ i = n + 1
    <3>1. n \in Nat /\ Len(sent') = n + 1
      BY <1>2, <1>12
    <3> QED
      BY <3>1
  <2> QED
    BY <2>1, <2>2, <2>3, Zenon
<1>16. /\ closed' \in BOOLEAN /\ got' \in Seq(Responses) /\ Len(got') <= Len(sent')
  <2>1. Len(got') = g /\ Len(sent') = n + 1
    BY <1>3, <1>12 DEF g
  <2>2. Len(got') <= Len(sent')
    BY <1>2, <2>1
  <2> QED
    BY <1>2, <1>3, <1>5, <2>2, Zenon
<1>17. ConnectionInv'
  <2>1. sent' \in Seq(Responses)
    BY <1>12
  <2> QED
    BY <1>10, <1>13, <1>14, <1>15, <1>16, <2>1, Zenon DEF ConnectionInv
<1> QED
  BY <1>4, <1>17, Zenon DEF ResponseInv

(* When nothing is in transit there is nothing to read.                    *)
LEMMA NothingInTransit ==
  ASSUME ConnectionInv, Len(got) = Len(sent)
  PROVE  Unread = <<>> /\ FindCRLFDouble(out) = {}
<1>1. IsBuffer(out) /\ InTransit /\ Len(sent) \in Nat
  BY DEF ConnectionInv
<1> DEFINE u == Unread
           n == Len(sent)
<1>2. u \in Seq(Byte) /\ Len(u) = out.w - out.r
  BY <1>1, PeekAll DEF Unread
<1>3. PICK cut : Slices(cut, u, n, n, sent)
  BY <1>1, Zenon DEF InTransit
<1> HIDE DEF u, n
<1>4. Len(u) = 0
  <2>1. cut[n] = 0 /\ cut[n] = Len(u)
    BY <1>3, Zenon DEF Slices
  <2> QED
    BY <2>1, Zenon
<1>5. u = <<>>
  BY <1>2, <1>4
<1>6. FindCRLFDouble(out) = {}
  <2>1. out.r \in Nat /\ out.w \in Nat /\ out.w = out.r
    <3>1. out.r \in Nat /\ out.w \in Nat
      BY <1>1 DEF IsBuffer
    <3>2. out.w - out.r = 0
      BY <1>2, <1>4
    <3> QED
      BY <3>1, <3>2
  <2>2. \A p \in out.r .. out.w : ~(p + 4 <= out.w)
    BY <2>1
  <2>3. HeadEnds(out) = {}
    BY <2>2 DEF HeadEnds
  <2> QED
    BY <2>3 DEF FindCRLFDouble
<1> QED
  BY <1>5, <1>6 DEF u

(* Otherwise what is unread starts with the text of the next response, and *)
(* the end of its head is found.                                           *)
LEMMA NextInTransit ==
  ASSUME ConnectionInv, Len(got) < Len(sent)
  PROVE  LET r == sent[Len(got) + 1] IN
         /\ IsResponse(r)
         /\ \E h, v \in Seq(Byte) :
              /\ IsHead(h, r, DOMAIN r.header)
              /\ Unread = Ended(h, Cat(r.body, v))
              /\ Len(got) + 1 = Len(sent) => v = <<>>
              /\ \E c : Slices(c, v, Len(got) + 1, Len(sent), sent)
              /\ FindCRLFDouble(out) = {out.r + Len(h)}
<1> DEFINE u == Unread
           n == Len(sent)
           g == Len(got)
           r == sent[g + 1]
<1>1. /\ IsBuffer(out) /\ InTransit
      /\ sent \in Seq(Responses) /\ got \in Seq(Responses)
  BY DEF ConnectionInv
<1>2. g \in Nat /\ n \in Nat /\ g < n /\ g + 1 \in 1 .. n
  BY <1>1
<1>3. IsResponse(r)
  BY <1>1, <1>2, ResponsesAreResponses
<1>4. u \in Seq(Byte) /\ Holds(out, u)
  BY <1>1, PeekAll DEF Unread
<1>5. PICK cut : Slices(cut, u, g, n, sent)
  BY <1>1, Zenon DEF InTransit
<1> HIDE DEF u, n, g
<1>6. PICK h \in Seq(Byte), v \in Seq(Byte) :
        /\ IsHead(h, r, DOMAIN r.header) /\ u = Ended(h, Cat(r.body, v))
        /\ g + 1 = n => v = <<>>
        /\ \E c : Slices(c, v, g + 1, n, sent)
  BY <1>2, <1>3, <1>4, <1>5, FirstHead
<1> HIDE DEF r
<1>7. Cat(r.body, v) \in Seq(Byte)
  <2>1. r.body \in Seq(Byte)
    BY <1>3 DEF IsResponse
  <2> QED
    BY <1>6, <2>1, CatFacts
<1>8. FindCRLFDouble(out) = {out.r + Len(h)}
  <2>1. <<>> \notin LinesIn(h)
    BY <1>3, <1>6, HeadHasNoEmptyLine, Zenon
  <2>2. Holds(out, Ended(h, Cat(r.body, v)))
    BY <1>4, <1>6, Zenon
  <2> QED
    BY <1>1, <1>6, <1>7, <2>1, <2>2, HeadFound, Zenon
<1> QED
  BY <1>3, <1>6, <1>8, Zenon DEF u, n, g, r

(* The reader takes the next response as it was sent, and leaves what      *)
(* follows it.                                                             *)
LEMMA ReadResponseSound ==
  ASSUME ResponseInv, ReadResponse
  PROVE  ResponseInv'
<1> DEFINE u == Unread
           n == Len(sent)
           g == Len(got)
           r == sent[g + 1]
           last == g + 1 = n /\ closed
<1>1. PICK p \in FindCRLFDouble(out) :
        LET head == SubSeq(u, 1, p - out.r)
            rest == SubSeq(u, p - out.r + 5, Len(u))
        IN  /\ got' = Append(got, Parsed(head, IF last THEN rest ELSE <<>>))
            /\ out' = RetrieveFrom(out, IF last THEN Len(u) ELSE Len(head) + 4)
            /\ UNCHANGED <<messageVars, closed, sent>>
  BY Zenon DEF ReadResponse
<1>2. /\ ConnectionInv /\ IsBuffer(out) /\ InitSize <= out.size
      /\ sent \in Seq(Responses) /\ got \in Seq(Responses)
      /\ closed \in BOOLEAN /\ g \in Nat /\ n \in Nat /\ g <= n
      /\ ReadAsSent /\ BodyComesLast
  BY DEF ResponseInv, ConnectionInv
<1>3. g < n
  <2>1. g # n
    BY <1>1, <1>2, NothingInTransit
  <2> QED
    BY <1>2, <2>1
<1>4. u \in Seq(Byte) /\ Holds(out, u)
  BY <1>2, PeekAll DEF Unread
<1>5. /\ IsResponse(r)
      /\ \E h, v \in Seq(Byte) :
           /\ IsHead(h, r, DOMAIN r.header)
           /\ u = Ended(h, Cat(r.body, v))
           /\ g + 1 = n => v = <<>>
           /\ \E c : Slices(c, v, g + 1, n, sent)
           /\ FindCRLFDouble(out) = {out.r + Len(h)}
  BY <1>2, <1>3, NextInTransit
<1> HIDE DEF u
<1>6. PICK h \in Seq(Byte), v \in Seq(Byte) :
        /\ IsHead(h, r, DOMAIN r.header)
        /\ u = Ended(h, Cat(r.body, v))
        /\ g + 1 = n => v = <<>>
        /\ \E c : Slices(c, v, g + 1, n, sent)
        /\ FindCRLFDouble(out) = {out.r + Len(h)}
  BY <1>5, Zenon
<1> DEFINE e == r.body
           rest == Cat(e, v)
           k == IF last THEN Len(u) ELSE Len(h) + 4
<1>7. e \in Seq(Byte) /\ rest \in Seq(Byte)
  <2>1. e \in Seq(Byte)
    BY <1>5 DEF IsResponse
  <2> QED
    BY <1>6, <2>1, CatFacts
<1>8. ~last => e = <<>>
  <2>1. g + 1 \in 1 .. Len(sent)
    BY <1>2, <1>3
  <2>2. e # <<>> => g + 1 = n /\ closed = TRUE
    BY <1>2, <2>1, Zenon DEF BodyComesLast
  <2> QED
    BY <2>2, Zenon
<1>9. (last => rest = e) /\ (~last => rest = v)
  <2>1. last => v = <<>>
    BY <1>6
  <2>2. Cat(e, <<>>) = e /\ Cat(<<>>, v) = v
    <3>1. e \o <<>> = e /\ <<>> \o v = v
      <4> HIDE DEF e
      <4> QED
        BY <1>6, <1>7
    <3> QED
      BY <3>1, Zenon DEF Cat
  <2> QED
    BY <1>8, <2>1, <2>2, Zenon
<1> HIDE DEF r, e, rest, last
<1>10. /\ Len(u) = Len(h) + 4 + Len(rest) /\ Len(h) \in Nat /\ Len(rest) \in Nat
       /\ Slice(u, 0, Len(h)) = h
       /\ Slice(u, Len(h) + 4, Len(u)) = rest
  <2>1. u = Ended(h, rest)
    BY <1>6, Zenon DEF rest, e
  <2> QED
    BY <1>6, <1>7, <2>1, EndedCells, EndedSplits
<1>11. p - out.r = Len(h)
  <2>1. p = out.r + Len(h)
    BY <1>6
  <2>2. out.r \in Nat
    BY <1>2 DEF IsBuffer
  <2> QED
    BY <1>10, <2>1, <2>2
<1>12. /\ SubSeq(u, 1, p - out.r) = h
       /\ SubSeq(u, p - out.r + 5, Len(u)) = rest
  <2>1. 0 + 1 = 1 /\ (Len(h) + 4) + 1 = Len(h) + 5
    BY <1>10
  <2>2. SubSeq(u, 0 + 1, Len(h)) = h /\ SubSeq(u, (Len(h) + 4) + 1, Len(u)) = rest
    BY <1>10, Zenon DEF Slice
  <2> QED
    BY <1>11, <2>1, <2>2, Zenon
<1>13. got' = Append(got, r)
  <2>1. got' = Append(got, Parsed(h, IF last THEN rest ELSE <<>>))
    BY <1>1, <1>12, Zenon DEF last
  <2>2. (IF last THEN rest ELSE <<>>) = e
    BY <1>8, <1>9, Zenon
  <2>3. Parsed(h, e) = r
    BY <1>5, <1>6, HeadParses, Zenon DEF e, r
  <2> QED
    BY <2>1, <2>2, <2>3, Zenon
<1>14. out' = RetrieveFrom(out, k) /\ closed' = closed /\ sent' = sent /\ UNCHANGED messageVars
  BY <1>1, <1>12, Zenon DEF last
<1>15. k \in Nat /\ k <= Len(u) /\ Len(u) \in Nat
  BY <1>10
<1>16. Slice(u, k, Len(u)) = v
  <2>1. CASE last
    <3>1. v = <<>>
      BY <1>6, <2>1, Zenon DEF last
    <3>2. SubSeq(u, Len(u) + 1, Len(u)) = <<>>
      BY <1>15, SubSeqEmpty
    <3>3. k = Len(u)
      BY <2>1, Zenon
    <3> QED
      BY <3>1, <3>2, <3>3, Zenon DEF Slice
  <2>2. CASE ~last
    <3>1. k = Len(h) + 4
      BY <2>2, Zenon
    <3> QED
      BY <1>9, <1>10, <2>2, <3>1, Zenon
  <2> QED
    BY <2>1, <2>2, Zenon
<1> HIDE DEF k
<1>17. IsBuffer(out') /\ InitSize <= out'.size /\ Holds(out', v)
  <2>1. /\ IsBuffer(RetrieveFrom(out, k)) /\ RetrieveFrom(out, k).size = out.size
        /\ Holds(RetrieveFrom(out, k), Slice(u, k, Len(u)))
    BY <1>2, <1>4, <1>15, RetrieveRest, Zenon
  <2>2. RetrieveFrom(out, k).size = out'.size
    BY <1>14, Zenon
  <2>3. InitSize <= out'.size
    BY <1>2, <2>1, <2>2, Zenon
  <2> QED
    BY <1>14, <1>16, <2>1, <2>3, Zenon
<1>18. Unread' = v
  <2>1. Unread' = Peek(out', ReadableSize(out'))
    BY DEF Unread
  <2> QED
    BY <1>6, <1>17, <2>1, PeekAll, Zenon
<1>19. /\ got' \in Seq(Responses) /\ Len(got') = g + 1 /\ Len(sent') = n
       /\ Len(got') <= Len(sent')
  <2>1. r \in Responses
    <3>1. g + 1 \in 1 .. Len(sent)
      BY <1>2, <1>3
    <3> QED
      BY <1>2, <3>1, ElementOfSeq DEF r
  <2>2. got' \in Seq(Responses) /\ Len(got') = g + 1
    BY <1>2, <1>13, <2>1
  <2>3. Len(sent') = n
    BY <1>14, Zenon
  <2>4. Len(got') <= Len(sent')
    BY <1>2, <1>3, <2>2, <2>3
  <2> QED
    BY <2>2, <2>3, <2>4
<1>20. ReadAsSent'
  <2>1. got = SubSeq(sent, 1, g)
    BY <1>2, Zenon DEF ReadAsSent
  <2>2. Append(got, sent[g + 1]) = SubSeq(sent, 1, g + 1)
    BY <1>2, <1>3, <2>1, PrefixGrows, Zenon
  <2> QED
    BY <1>13, <1>14, <1>19, <2>2, Zenon DEF ReadAsSent, r
<1>21. BodyComesLast'
  BY <1>2, <1>14, Zenon DEF BodyComesLast
<1>22. InTransit'
  BY <1>6, <1>14, <1>18, <1>19, Zenon DEF InTransit
<1>23. ConnectionInv'
  BY <1>2, <1>14, <1>17, <1>19, <1>20, <1>21, <1>22, Zenon DEF ConnectionInv
<1>24. HandlerInv'
  BY <1>14 DEF ResponseInv, HandlerInv, messageVars
<1> QED
  BY <1>23, <1>24, Zenon DEF ResponseInv

(* While the invariant holds the property does.                            *)
LEMMA ResponseConsequences == ResponseInv => ResponsesGetThrough
<1> SUFFICES ASSUME ResponseInv PROVE ResponsesGetThrough
  OBVIOUS
<1>1. HandlerInv /\ ConnectionInv
  BY Zenon DEF ResponseInv
<1>2. IsBuffer(out) /\ ReadAsSent /\ Len(got) <= Len(sent)
      /\ sent \in Seq(Responses) /\ got \in Seq(Responses)
  BY <1>1, Zenon DEF ConnectionInv
<1>3. ResponseTypeOK
  <2>1. PartsInOrder(out)
    BY <1>2 DEF IsBuffer, PartsInOrder
  <2> QED
    BY <1>1, <1>2, <2>1, Zenon DEF HandlerInv, ResponseTypeOK
<1>4. NothingLeft
  <2>1. CASE Len(got) = Len(sent)
    BY <1>1, <2>1, NothingInTransit DEF NothingLeft
  <2>2. CASE Len(got) # Len(sent)
    <3>1. Len(got) < Len(sent)
      BY <1>2, <2>2
    <3>2. \E p : FindCRLFDouble(out) = {p}
      BY <1>1, <3>1, NextInTransit
    <3>3. FindCRLFDouble(out) # {}
      BY <3>2
    <3> QED
      BY <2>2, <3>3, Zenon DEF NothingLeft
  <2> QED
    BY <2>1, <2>2
<1> QED
  BY <1>2, <1>3, <1>4, Zenon DEF ResponsesGetThrough

(* Every step keeps the invariant.                                         *)
LEMMA ResponseStep ==
  ASSUME TextsFit, ResponseInv, [ResponseNext]_responseVars
  PROVE  ResponseInv'
<1>1. CASE UNCHANGED responseVars
  <2>1. HandlerInv'
    BY <1>1 DEF ResponseInv, HandlerInv, responseVars, messageVars
  <2>2. ConnectionInv'
    BY <1>1, SettingKeepsConnection DEF ResponseInv, responseVars
  <2> QED
    BY <2>1, <2>2, Zenon DEF ResponseInv
<1>2. ASSUME NEW c \in StatusCode, SetStatusCode(c) PROVE ResponseInv'
  BY <1>2, SetStatusCodeSound
<1>3. ASSUME NEW n \in Name, NEW v \in Value, AddHeader(n, v) PROVE ResponseInv'
  BY <1>3, AddHeaderSound
<1>4. ASSUME NEW str \in Body, SetBody(str) PROVE ResponseInv'
  BY <1>4, SetBodySound
<1>5. CASE Serialization
  BY <1>5, SerializationSound
<1>6. CASE ReadResponse
  BY <1>6, ReadResponseSound
<1> QED
  BY <1>1, <1>2, <1>3, <1>4, <1>5, <1>6, Zenon DEF ResponseNext

(* As long as no text is longer than the vector was at first, the reader   *)
(* takes each response as it was set, whatever order its headers went out  *)
(* in and whatever its body looks like; while one is in the buffer the end *)
(* of its head is found there, and when all were taken nothing is left.    *)
THEOREM ResponsesGetThroughHolds == TextsFit => (ResponseSpec => []ResponsesGetThrough)
<1>1. TextsFit /\ ResponseInv /\ [ResponseNext]_responseVars => ResponseInv'
  BY ResponseStep
<1>2. SUFFICES ASSUME TextsFit PROVE ResponseSpec => []ResponsesGetThrough
  OBVIOUS
<1>3. ResponseInv /\ [ResponseNext]_responseVars => ResponseInv'
  BY <1>1, <1>2
<1> QED
  BY <1>3, ResponseInitSound, ResponseConsequences, PTL DEF ResponseSpec

=============================================================================
