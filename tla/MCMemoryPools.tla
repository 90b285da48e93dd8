--------------------------- MODULE MCMemoryPools ---------------------------
(* Values for the tables of MemoryManger.cpp: blocks of two sizes, of which *)
(* the chunk holds two and one.                                             *)
EXTENDS MemoryPools

MCBlockSize == <<2, 4>>
MCRatio == <<1, 1>>
MCSymmetry == Permutations(Threads) \cup Permutations(Refs)
=============================================================================
