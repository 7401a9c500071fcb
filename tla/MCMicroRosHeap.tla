---------------------------- MODULE MCMicroRosHeap ----------------------------
(* The instance of MicroRosHeap for TLC: cells of two bytes and headers of one cell. *)
EXTENDS MicroRosHeap

\* Blocks of two, three and four cells, so that what a block leaves is now split off and
\* now kept; and the request of nothing.
MCSizes == {0, 1, 4, 5}
===============================================================================
