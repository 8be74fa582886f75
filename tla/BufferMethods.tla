--------------------------- MODULE BufferMethods ----------------------------
(***************************************************************************)
(* The byte buffer of a connection: a vector with room for a prefix, a     *)
(* part to read and a part to write, which is compacted or enlarged when   *)
(* what is to be appended does not fit behind the write position.          *)
(*                                                                         *)
(* A Buffer belongs to one thread, so each of its methods is one step, and *)
(* is a function of the buffer here.                                       *)
(***************************************************************************)
EXTENDS Naturals, Sequences

CONSTANTS
  Byte,          \* the bytes that occur
  Nul,           \* the byte a new cell of the vector holds
  CR, LF,        \* the line end that findCRLF looks for
  InitSize,      \* initContainerSize, 1024 unless given
  Prepend,       \* prependSize, 64 unless given
  ExpandFactor,  \* expandFactor, 2 unless given
  TmpSize        \* size of the overflow array of readFromFD, 65536

ASSUME BufferMethodsAssumption ==
  /\ CR \in Byte /\ LF \in Byte /\ Nul \in Byte
  /\ Prepend \in Nat /\ InitSize \in Nat /\ Prepend <= InitSize
  /\ ExpandFactor \in Nat /\ ExpandFactor >= 2
  /\ TmpSize \in Nat

(* The methods, as functions of a buffer b:                                *)
(*   b.size    buff_.size()                                                *)
(*   b.cells   the contents of buff_                                       *)
(*   b.r, b.w  readStartPosition_ and writeStartPosition_                  *)

NewBuffer ==
  [size |-> InitSize, cells |-> [i \in 0 .. InitSize - 1 |-> Nul],
   r |-> Prepend, w |-> Prepend]

ReadableSize(b) == b.w - b.r
CanWriteableDirection(b) == b.size - b.w

(* Variant: the prefix is counted as room.                                 *)
CanWriteableWithPrepend(b) == CanWriteableDirection(b) + b.r

CanWriteableTroughtReforming(b) == CanWriteableDirection(b) + b.r - Prepend

(* The unread bytes move down to the end of the prefix.                    *)
ReformingBuffer(b) ==
  [size |-> b.size,
   cells |-> [i \in 0 .. b.size - 1 |->
                IF i \in Prepend .. Prepend + ReadableSize(b) - 1
                THEN b.cells[b.r + (i - Prepend)] ELSE b.cells[i]],
   r |-> Prepend, w |-> Prepend + ReadableSize(b)]

Resize(b, n) ==
  [size |-> n,
   cells |-> [i \in 0 .. n - 1 |-> IF i < b.size THEN b.cells[i] ELSE Nul],
   r |-> b.r, w |-> b.w]

(* The new size is the larger of what is missing and of the enlarged size; *)
(* it is a size, not an increment.                                         *)
Enlarge(b, n) ==
  LET needed == n - CanWriteableDirection(b)
      factorExpand == b.size * ExpandFactor
  IN  Resize(b, IF needed > factorExpand THEN needed ELSE factorExpand)

(* Variant: the bytes already read are never reclaimed.                    *)
EnsureCapacityUncompacted(b, n) ==
  IF CanWriteableDirection(b) >= n THEN b ELSE Enlarge(b, n)

EnsureCapacity(b, n) ==
  IF CanWriteableDirection(b) >= n THEN b
  ELSE IF CanWriteableTroughtReforming(b) >= n THEN ReformingBuffer(b)
  ELSE Enlarge(ReformingBuffer(b), n)

(* Variant: the write position moves the wrong way.                        *)
CopyInBackwards(b, str) ==
  [size |-> b.size,
   cells |-> [i \in 0 .. b.size - 1 |->
                IF i \in b.w .. b.w + Len(str) - 1
                THEN str[i - b.w + 1] ELSE b.cells[i]],
   r |-> b.r, w |-> b.w - Len(str)]

(* memcpy to the write position.  What it writes behind the last cell is   *)
(* not in the vector.                                                      *)
CopyIn(b, str) ==
  [size |-> b.size,
   cells |-> [i \in 0 .. b.size - 1 |->
                IF i \in b.w .. b.w + Len(str) - 1
                THEN str[i - b.w + 1] ELSE b.cells[i]],
   r |-> b.r, w |-> b.w + Len(str)]

AppendTo(b, str) == CopyIn(EnsureCapacity(b, Len(str)), str)

(* Variant: the write position stays before what readv put in the buffer.  *)
ReceivedOverDirect(b, str) ==
  LET direct == CanWriteableDirection(b) IN
  IF Len(str) > direct
  THEN AppendTo(b, SubSeq(str, direct + 1, Len(str)))
  ELSE CopyIn(b, str)

(* readv fills the buffer to its end and an array on the side, and the     *)
(* array is then appended.                                                 *)
Received(b, str) ==
  LET direct == CanWriteableDirection(b) IN
  IF Len(str) > direct
  THEN AppendTo(CopyIn(b, SubSeq(str, 1, direct)), SubSeq(str, direct + 1, Len(str)))
  ELSE CopyIn(b, str)

(* The first n bytes that Peek lets a caller see.                          *)
Peek(b, n) == [i \in 1 .. n |-> b.cells[b.r + i - 1]]

RetrieveFrom(b, n) == [size |-> b.size, cells |-> b.cells, r |-> b.r + n, w |-> b.w]

(* Where a line end starts, and where the first one does: what findCRLF    *)
(* returns, if it does not return null.                                    *)
LineEnds(b) ==
  {p \in b.r .. b.w : p + 2 <= b.w /\ b.cells[p] = CR /\ b.cells[p + 1] = LF}
FindCRLF(b) == {p \in LineEnds(b) : \A q \in LineEnds(b) : p <= q}

(* The same for an empty line after another: what findCRLFDouble returns.  *)
HeadEnds(b) ==
  {p \in b.r .. b.w : p + 4 <= b.w /\ \A i \in 0 .. 1 :
                         b.cells[p + 2 * i] = CR /\ b.cells[p + 2 * i + 1] = LF}
FindCRLFDouble(b) == {p \in HeadEnds(b) : \A q \in HeadEnds(b) : p <= q}

(* The picture of the three parts: the prefix ends before the read         *)
(* position, that one before the write position, and that one within the   *)
(* vector.                                                                 *)
PartsInOrder(b) == Prepend <= b.r /\ b.r <= b.w /\ b.w <= b.size

=============================================================================
