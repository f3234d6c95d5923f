---------------------------- MODULE MCAnnexControl ----------------------------
(* Two cooler ports, three reusable tcp client objects, two thread objects. *)
EXTENDS AnnexControl

CONSTANTS p1, p2, x1, x2, x3, t1, t2

MCCoolers == {p1, p2}
MCConns == {x1, x2, x3}
MCThreads == {t1, t2}

\* Ports, client objects and thread objects are interchangeable.
MCSymmetry == Permutations(MCCoolers) \cup Permutations(MCConns)
=============================================================================
