------------------------------- MODULE MCApic -------------------------------
(***************************************************************************)
(* An instance of Apic for TLC: three inputs that compete, with a local    *)
(* source, for the two slots of one priority class. Inputs 0 and 1 can     *)
(* share an edge vector, inputs 1 and 2 a level one.                       *)
(***************************************************************************)
EXTENDS Apic

CONSTANT Here

Entry(masked, level, vector) ==
    [masked |-> masked, level |-> level, vector |-> vector, dest |-> Here]

MCPrograms == [pin \in 0..2 |->
    CASE pin = 0 -> {Entry(m, FALSE, 49) : m \in BOOLEAN}
      [] pin = 1 -> {Entry(FALSE, FALSE, 49), Entry(FALSE, TRUE, 51)}
      [] pin = 2 -> {Entry(FALSE, TRUE, 51), Entry(TRUE, TRUE, 65)}]
=============================================================================
