----------------------------- MODULE MCA2AStore -----------------------------
(***************************************************************************)
(* Stores with one of two casts: a client that cancels while the process   *)
(* may crash, or a reader whose stream may break.                          *)
(***************************************************************************)
EXTENDS MCA2ATask

CONSTANT Casts
VARIABLE cast

CastInit == Init /\ cast \in Casts

CastNext ==
  /\ Next /\ UNCHANGED cast
  /\ cast = "client" => UNCHANGED readers
  /\ cast = "reader" => UNCHANGED <<client, crashes>>

CastSpec == CastInit /\ [][CastNext]_<<vars, cast>>
=============================================================================
