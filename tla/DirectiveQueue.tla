---------------------------- MODULE DirectiveQueue ----------------------------
(***************************************************************************)
(* What the directive list of a serial port engine promises (spec section *)
(* 5): directives go out strictly in order, one at a time; the next one is *)
(* transmitted only after the current one has been resolved by its answer; *)
(* a polling batch over the registered devices is generated only when the *)
(* list is empty; a client's directive joins the tail.  Every directive on *)
(* the wire is eventually resolved, a pending one eventually transmitted,  *)
(* and an empty list eventually polled again.                              *)
(***************************************************************************)
EXTENDS Sequences, SequencesExt

CONSTANTS
  Ids,         \* device ids that can be registered
  Directives,  \* directives a client may queue
  InitReg,     \* the registry at start
  Batch(_)     \* the polling batch for a registry

VARIABLES
  pending,     \* directives not yet resolved, the head first
  onwire,      \* the head has been transmitted and awaits its resolution
  reg          \* registered device ids, in order

avars == <<pending, onwire, reg>>

Init == pending = <<>> /\ onwire = FALSE /\ reg = InitReg

Register(d) ==
  /\ d \notin ToSet(reg)
  /\ reg' = Append(reg, d)
  /\ UNCHANGED <<pending, onwire>>

Poll ==
  /\ pending = <<>>
  /\ pending' = Batch(reg)
  /\ UNCHANGED <<onwire, reg>>

Write(x) ==
  /\ pending' = Append(pending, x)
  /\ UNCHANGED <<onwire, reg>>

Transmit ==
  /\ pending # <<>> /\ ~onwire
  /\ onwire' = TRUE
  /\ UNCHANGED <<pending, reg>>

Complete ==
  /\ onwire
  /\ pending' = Tail(pending) /\ onwire' = FALSE
  /\ UNCHANGED reg

Next ==
  \/ \E d \in Ids : Register(d)
  \/ \E x \in Directives : Write(x)
  \/ Poll \/ Transmit \/ Complete

Spec == Init /\ [][Next]_avars
        /\ WF_avars(Poll) /\ WF_avars(Transmit) /\ WF_avars(Complete)

=============================================================================
