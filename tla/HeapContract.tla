----------------------------- MODULE HeapContract -----------------------------
(***************************************************************************)
(* What a heap promises to its client, the micro-ROS library: a request is *)
(* granted aligned memory that nobody else holds, and memory is held until *)
(* it is given back.  MicroRosHeap implements this specification.          *)
(***************************************************************************)
EXTENDS Integers

CONSTANTS
  Sizes,     \* bytes that the client asks for
  Align,     \* every grant begins at a multiple
  Top        \* grants lie in 0..Top-1

VARIABLE live   \* the grants held: [at, bytes]

Bytes(l) == l.at .. l.at + l.bytes - 1

\* Memory that may be granted beside the grants in held.
Grantable(l, held) ==
  /\ l.at % Align = 0 /\ l.bytes \in Sizes
  /\ Bytes(l) \subseteq 0..Top-1
  /\ \A m \in held : Bytes(l) \cap Bytes(m) = {}

Grant ==
  \E at \in 0..Top-1, bytes \in Sizes :
    LET l == [at |-> at, bytes |-> bytes]
    IN  Grantable(l, live) /\ live' = live \cup {l}

GiveBack == \E l \in live : live' = live \ {l}

\* The old memory is held until its contents are in the new.
Regrant ==
  \E old \in live, at \in 0..Top-1, bytes \in Sizes :
    LET l == [at |-> at, bytes |-> bytes]
    IN  Grantable(l, live) /\ live' = (live \ {old}) \cup {l}

Heap == live = {} /\ [][Grant \/ GiveBack \/ Regrant]_live
===============================================================================
