---------------------------- MODULE MCBufferPool ----------------------------
(* Symmetry of the threads, of the frames and of the pages of the file.    *)
EXTENDS BufferPool, TLC

Symmetry == Permutations(Threads) \cup Permutations(Frames) \cup Permutations(Pages \ Fresh)

=============================================================================
