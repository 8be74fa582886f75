---------------------------- MODULE MCInitLogger ----------------------------
(* Two threads, two calls, numbers and units around every boundary of a    *)
(* width of eight bits: the largest long is 127, a kilobyte 4.             *)
EXTENDS InitLogger

CONSTANTS t1, t2

MCUnit == {"none", "B", "KB", "MB", "GB", "G"}
MCCapacity ==
  {Empty} \union [num : {-2, -1, 0, 1, 3}, unit : MCUnit]
          \union [num : {4, 15, 16, 63, 64, 127, 128, 300}, unit : {"B", "KB", "MB"}]

=============================================================================
