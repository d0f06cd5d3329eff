---------------------------- MODULE MCDocuments -----------------------------
(* StoredDocuments for TLC: one value of each type, with a character that has *)
(* to be escaped, one key that can go without quotes and one that cannot.     *)
EXTENDS StoredDocuments

MCOperands == {Int_(2), Float(2, 1), Bool(TRUE), Null, Str(<<"\\">>), List(<<>>), MapOf(<<>>)}
MCKeyNames == {<<"a", "-">>, <<"=">>}
MCPlainChar == {"a"}
MCIntMin == -8
=============================================================================
