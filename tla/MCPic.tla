------------------------------- MODULE MCPic -------------------------------
(***************************************************************************)
(* Small instances of Pic: three inputs per controller, of which the       *)
(* master's middle one is the cascade.                                     *)
(***************************************************************************)
EXTENDS Pic, TLC

CONSTANTS Isa, Isa2, PciA, PciB

\* An edge source on the master's first input, and two devices sharing a line
\* of the slave.
MCEdge == {Isa}
MCLevel == {PciA, PciB}
MCWire == [s \in {Isa, PciA, PciB} |-> IF s = Isa THEN 0 ELSE 5]

\* The two sharing devices are interchangeable.
MCSymmetry == Permutations(MCLevel)

\* Two edge sources, one of them a card set to IRQ 2.
EdgesOnly == {Isa, Isa2}
EdgeWire == [s \in EdgesOnly |-> IF s = Isa THEN 0 ELSE 1]

MCMasks == {{}, {0, 2}}
=============================================================================
