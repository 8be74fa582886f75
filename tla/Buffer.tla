------------------------------- MODULE Buffer -------------------------------
(***************************************************************************)
(* A Buffer over its life: a thread appends to it or reads into it, and    *)
(* retrieves what it wants of it, in any order.                            *)
(***************************************************************************)
EXTENDS BufferMethods

CONSTANTS
  Chunks,        \* what is appended or arrives at a descriptor at once
  MaxBytes,      \* bound: how many bytes are ever written
  MaxUnread      \* bound: how many bytes are ever waiting to be read

ASSUME BufferAssumption ==
  /\ Chunks \subseteq Seq(Byte)
  /\ MaxBytes \in Nat /\ MaxUnread \in Nat

VARIABLES
  buff,     \* buff_ and its two positions, see NewBuffer
  written,  \* what was put in and what was taken out, as in ByteStream
  taken

vars == <<buff, written, taken>>

-----------------------------------------------------------------------------
Init ==
  /\ buff = NewBuffer
  /\ written = <<>>
  /\ taken = <<>>

MayWrite(str) ==
  /\ Len(written) + Len(str) <= MaxBytes
  /\ ReadableSize(buff) + Len(str) <= MaxUnread

AppendBytes(str) ==
  /\ MayWrite(str)
  /\ buff' = AppendTo(buff, str)
  /\ written' = written \o str
  /\ UNCHANGED taken

ReadFromFD(str) ==
  /\ MayWrite(str)
  /\ Len(str) <= CanWriteableDirection(buff) + TmpSize
  /\ buff' = Received(buff, str)
  /\ written' = written \o str
  /\ UNCHANGED taken

(* A caller looks at n bytes and retrieves them, or has them retrieved as  *)
(* a string, which fails when there are fewer.                             *)
Retrieve(n) ==
  /\ n <= ReadableSize(buff)
  /\ taken' = taken \o Peek(buff, n)
  /\ buff' = RetrieveFrom(buff, n)
  /\ UNCHANGED written

(* retrieveUtil(findCRLF()), or the same as a string.  The assertion there *)
(* fails for an empty line.                                                *)
RetrieveUtilCRLF ==
  \E p \in FindCRLF(buff) : p > buff.r /\ Retrieve(p - buff.r)

Next ==
  \/ \E str \in Chunks : AppendBytes(str) \/ ReadFromFD(str)
  \/ \E n \in 1 .. MaxUnread : Retrieve(n)
  \/ RetrieveUtilCRLF

Spec == Init /\ [][Next]_vars

-----------------------------------------------------------------------------
TypeOK ==
  /\ buff.size \in Nat /\ buff.r \in Nat /\ buff.w \in Nat
  /\ buff.cells \in [0 .. buff.size - 1 -> Byte]
  /\ written \in Seq(Byte)
  /\ taken \in Seq(Byte)

(* The write position stays within the vector, whatever was appended.      *)
Layout == PartsInOrder(buff)

(* However long the stream, the vector grows only while what is waiting in *)
(* it does not fit: compaction reuses what was read.                       *)
BoundedSize == buff.size <= InitSize \/ buff.size < ExpandFactor * (Prepend + MaxUnread)

(* Compaction, enlargement and the detour of readFromFD neither lose nor   *)
(* reorder a byte.                                                         *)
Stream == INSTANCE ByteStream
ByteStreamSpec == Stream!Spec

=============================================================================
