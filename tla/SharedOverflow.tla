--------------------------- MODULE SharedOverflow ---------------------------
(***************************************************************************)
(* Buffers of several threads in readFromFD.  Each buffer belongs to one   *)
(* thread, but tmpBuff, the array that takes what does not fit behind the  *)
(* write position, is static: there is one of it in the process.           *)
(*                                                                         *)
(* From the call of readv to the end of append a thread counts on what it  *)
(* has in tmpBuff.  When the times of two threads overlap, each cell that  *)
(* both write may hold the byte of either when it is copied.               *)
(***************************************************************************)
EXTENDS BufferMethods, FiniteSets

CONSTANTS
  Threads,     \* each with a buffer and a peer
  Arrivals,    \* how many bytes readv may find at once
  MaxSent      \* bound: how many bytes one peer ever sends

(* <<t, n>> is the n-th byte that the peer of t sends.                     *)
ASSUME SharedOverflowAssumption ==
  /\ MaxSent \in Nat
  /\ Threads \X (1 .. MaxSent) \subseteq Byte
  /\ Arrivals \subseteq Nat \ {0}

VARIABLES
  buffOf,      \* the buffer of each thread
  over,        \* what its readv put into tmpBuff and append has not taken yet
  racers,      \* what other threads put there meanwhile
  atRisk,      \* positions of its stream at which somebody else wrote, too
  writtenOf, takenOf

overflowVars == <<buffOf, over, racers, atRisk, writtenOf, takenOf>>

NextBytes(t, n) == [i \in 1 .. n |-> <<t, Len(writtenOf[t]) + i>>]

OverflowInit ==
  /\ buffOf = [t \in Threads |-> NewBuffer]
  /\ over = [t \in Threads |-> <<>>]
  /\ racers = [t \in Threads |-> {}]
  /\ atRisk = [t \in Threads |-> {}]
  /\ writtenOf = [t \in Threads |-> <<>>]
  /\ takenOf = [t \in Threads |-> <<>>]

InReadFromFD(t) == over[t] # <<>>

(* The cells that two threads both write.                                  *)
Shared(s, r) == 1 .. (IF Len(s) < Len(r) THEN Len(s) ELSE Len(r))

(* readv of n bytes that fit behind the write position.                    *)
ReadDirect(t, n) ==
  /\ ~InReadFromFD(t)
  /\ Len(writtenOf[t]) + n <= MaxSent
  /\ n <= CanWriteableDirection(buffOf[t])
  /\ buffOf' = [buffOf EXCEPT ![t] = CopyIn(@, NextBytes(t, n))]
  /\ writtenOf' = [writtenOf EXCEPT ![t] = @ \o NextBytes(t, n)]
  /\ UNCHANGED <<over, racers, atRisk, takenOf>>

(* What lies behind the end of the vector goes to tmpBuff.                 *)
PutAside(t, rest) ==
  /\ over' = [over EXCEPT ![t] = rest]
  /\ racers' = [u \in Threads |->
                  IF u = t THEN {over[o] : o \in {o \in Threads : InReadFromFD(o)}}
                  ELSE IF InReadFromFD(u) THEN racers[u] \union {rest} ELSE {}]

(* Variant: the write position is not moved to the end of the vector.      *)
ReadOverDirect(t, n) ==
  LET direct == CanWriteableDirection(buffOf[t])
      str == NextBytes(t, n)
  IN  /\ ~InReadFromFD(t) /\ direct < n /\ n <= direct + TmpSize
      /\ Len(writtenOf[t]) + n <= MaxSent
      /\ PutAside(t, SubSeq(str, direct + 1, n))
      /\ writtenOf' = [writtenOf EXCEPT ![t] = @ \o str]
      /\ UNCHANGED <<buffOf, atRisk, takenOf>>

(* readv of more: the vector is full, the rest lies in tmpBuff.            *)
ReadOver(t, n) ==
  LET direct == CanWriteableDirection(buffOf[t])
      str == NextBytes(t, n)
  IN  /\ ~InReadFromFD(t) /\ direct < n /\ n <= direct + TmpSize
      /\ Len(writtenOf[t]) + n <= MaxSent
      /\ buffOf' = [buffOf EXCEPT ![t] = CopyIn(@, SubSeq(str, 1, direct))]
      /\ PutAside(t, SubSeq(str, direct + 1, n))
      /\ writtenOf' = [writtenOf EXCEPT ![t] = @ \o str]
      /\ UNCHANGED <<atRisk, takenOf>>

(* What the thread finds in tmpBuff.                                       *)
MayFind(t) ==
  {str \in [1 .. Len(over[t]) -> Byte] :
     \A i \in 1 .. Len(over[t]) :
       \/ str[i] = over[t][i]
       \/ \E r \in racers[t] : i \in Shared(over[t], r) /\ str[i] = r[i]}

(* append(tmpBuff, overRead): what is appended may be another's, how much  *)
(* of it is known from the result of readv.                                *)
AppendOver(t) ==
  LET begin == Len(writtenOf[t]) - Len(over[t]) IN
  /\ InReadFromFD(t)
  /\ \E str \in MayFind(t) :
       buffOf' = [buffOf EXCEPT ![t] = AppendTo(@, str)]
  /\ atRisk' = [atRisk EXCEPT ![t] =
                  @ \union {begin + i : i \in UNION {Shared(over[t], r) : r \in racers[t]}}]
  /\ over' = [over EXCEPT ![t] = <<>>]
  /\ racers' = [racers EXCEPT ![t] = {}]
  /\ UNCHANGED <<writtenOf, takenOf>>

RetrieveOf(t, n) ==
  /\ ~InReadFromFD(t)
  /\ n <= ReadableSize(buffOf[t])
  /\ takenOf' = [takenOf EXCEPT ![t] = @ \o Peek(buffOf[t], n)]
  /\ buffOf' = [buffOf EXCEPT ![t] = RetrieveFrom(@, n)]
  /\ UNCHANGED <<over, racers, atRisk, writtenOf>>

OverflowNext ==
  \E t \in Threads :
    \/ \E n \in Arrivals : ReadDirect(t, n) \/ ReadOver(t, n)
    \/ AppendOver(t)
    \/ \E n \in 1 .. MaxSent : RetrieveOf(t, n)

OverflowSpec == OverflowInit /\ [][OverflowNext]_overflowVars

-----------------------------------------------------------------------------
(* What the thread has of its stream: taken, or still in the buffer.       *)
StreamOf(t) == takenOf[t] \o Peek(buffOf[t], ReadableSize(buffOf[t]))

OverflowTypeOK ==
  \A t \in Threads :
    /\ buffOf[t].size \in Nat /\ buffOf[t].r \in Nat /\ buffOf[t].w \in Nat
    /\ buffOf[t].cells \in [0 .. buffOf[t].size - 1 -> Byte]
    /\ writtenOf[t] \in Seq(Byte) /\ takenOf[t] \in Seq(Byte)
    /\ Len(over[t]) <= TmpSize
    /\ racers[t] # {} => InReadFromFD(t)
    /\ \A r \in racers[t] : Len(r) <= TmpSize
    /\ atRisk[t] \subseteq 1 .. Len(writtenOf[t])

(* Whatever the other threads do, a buffer holds as many bytes as arrived, *)
(* and its positions stay within its vector.                               *)
CountsRight ==
  \A t \in Threads :
    /\ PartsInOrder(buffOf[t])
    /\ Len(StreamOf(t)) + Len(over[t]) = Len(writtenOf[t])

(* A byte of a stream is another's, or out of its place, only where two    *)
(* threads were between readv and the end of append at the same time and   *)
(* both wrote that cell: what readv put into the vector itself and what    *)
(* went through tmpBuff alone is as the peer sent it.                      *)
OnlyOverlapsMix ==
  \A t \in Threads : \A k \in 1 .. Len(StreamOf(t)) :
    k \notin atRisk[t] => StreamOf(t)[k] = writtenOf[t][k]

(* What is shared costs at most the bytes that overlap: the buffers        *)
(* themselves stay as if they were alone.                                  *)
BuffersApart == OverflowTypeOK /\ CountsRight /\ OnlyOverlapsMix

=============================================================================
