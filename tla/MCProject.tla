------------------------------ MODULE MCProject ------------------------------
(* Definitions of fields for TLC: one of each type, some with an index, some     *)
(* with a number (fid).                                                          *)
EXTENDS Project

With(t, index, fid) == [Definition(t) EXCEPT !.index = index, !.fid = fid]

MCDef ==
  {With("id", "", 0), With("id", "mixed", 0), With("title", "", 0), With("body", "", 0),
   With("string", "both", 0), With("numeric", "self", 0), With("string", "self", 2)}

MCLowerCase == [abc |-> "abc", ABC |-> "abc", xyz |-> "xyz", long |-> "long"]

\* An id that is a term and one that is not, as it has capitals.
MCId == {{"abc"}, {"ABC"}}

\* Ids that are not terms: one with capitals, a long one and one of two words.
OtherId == {{"ABC"}, {"long"}, {"abc", "xyz"}}

\* The words in three fields: in no two the same, and in one of them none.
MCText == {[f \in Field |-> <<{"ABC", "xyz"}, {"abc", "long"}, {}>>[f + 1]]}
=============================================================================
