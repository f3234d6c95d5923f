--------------------------- MODULE MCControllerBase ---------------------------
(* Model-checking instances of ControllerBase.  One device id registered   *)
(* at start (as connect_serial does); MCTwoDevices adds a second id that    *)
(* only AddDevice can register.                                             *)
EXTENDS ControllerBase

CONSTANTS d1, d2

MCOneDevice  == {d1}
MCTwoDevices == {d1, d2}
MCRegistered == <<d1>>

\* Bound on directives written and not yet answered (only a slow link lets
\* more than one accumulate).
MaxLink == 2
LinkBound == Len(link) <= MaxLink
=============================================================================
