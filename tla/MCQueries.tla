------------------------------ MODULE MCQueries ------------------------------
(* Two goroutines share a Searcher, a third one uses another Searcher, whose     *)
(* server is silent.                                                             *)
EXTENDS Queries

CONSTANTS t1, t2, t3, s1, s2, fa, fb

MCUsedBy == t1 :> s1 @@ t2 :> s1 @@ t3 :> s2
MCAsked == {<<fa>>, <<fb, fa>>}
=============================================================================
