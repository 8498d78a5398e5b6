------------------------------ MODULE MCResults ------------------------------
(* Small sets of bytes for TLC.                                                  *)
EXTENDS Results

\* Number 255 is the body's; 9 is in no schema.
MCVnoMap == 0 :> "id" @@ 255 :> "body"
MCMeta == {[i \in 1 .. 20 |-> i], [i \in 1 .. 20 |-> IF i = 1 THEN 200 ELSE 0]}
MCWord == {<<65>>, <<66, 67>>}
MCQuery == {<<>>}
=============================================================================
