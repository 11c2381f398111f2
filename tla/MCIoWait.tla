------------------------------ MODULE MCIoWait ------------------------------
(* Two tasks that use one socket, and have up to two calls each. *)
EXTENDS IoWait, TLC

CONSTANTS t1, t2, s

MCOn == [t \in {t1, t2} |-> s]

MCPrograms ==
  { (t1 :> <<"socket", "socket">>) @@ (t2 :> <<"socket">>),
    (t1 :> <<"socket", "file">>) @@ (t2 :> <<"socket">>),
    (t1 :> <<"file", "file">>) @@ (t2 :> <<"file">>) }
=============================================================================
