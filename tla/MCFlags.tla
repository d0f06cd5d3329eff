------------------------------ MODULE MCFlags ------------------------------
(* Words, arguments and statements for TLC.                                   *)
EXTENDS Flags

MCWord == {"-v", "-v=1", "-vz", "-z", "-q", "x"}
MCNameOf == [w \in MCWord |-> IF w = "-v=1" THEN "-v" ELSE w]
MCLetters == [w \in MCWord |-> IF w = "-vz" THEN <<"-v", "-z">> ELSE <<>>]
MCArguments == {<<"x", "-q">>, <<"-v", "x">>, <<"-vz", "-v=1", "-v">>}

Flag(names, typed, body) ==
  [names |-> names, typed |-> typed, body |-> body, catch_all |-> FALSE]
Star == [names |-> {}, typed |-> FALSE, body |-> TRUE, catch_all |-> TRUE]
FlagsOf(mode, specs) == [type |-> "flags", mode |-> mode, specs |-> specs]

MCStatement ==
  {FlagsOf(0, <<Flag({"-v"}, TRUE, TRUE), Flag({"-q"}, FALSE, FALSE), Star>>),
   FlagsOf(1, <<Flag({}, TRUE, TRUE), Star>>),
   FlagsOf(2, <<Flag({"-q"}, TRUE, FALSE)>>),
   [type |-> "execute", args |-> <<"x", "-q">>]}
=============================================================================
