-------------------------- MODULE MCSharedOverflow --------------------------
(* Two threads, and vectors so small that arrivals of three bytes or more  *)
(* go through tmpBuff.                                                     *)
EXTENDS SharedOverflow, TLC

CONSTANTS t1, t2, nul

MCByte == (Threads \X (1 .. MaxSent)) \union {nul}

MCSymmetry == Permutations({t1, t2})

=============================================================================
