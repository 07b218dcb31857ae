------------------------------- MODULE MCDriver -------------------------------
(***************************************************************************)
(* Instances of the driver: two programs whose names have one stem, one    *)
(* that does not parse, and the file a dump of mode ALL goes to.           *)
(***************************************************************************)
EXTENDS Driver, TLC

hello == <<"hello", "sysy">>
hello2 == <<"hello", "v2.sysy">>
hell == <<"hell", "sysy">>

MCSources == hello :> "p" @@ hello2 :> "q" @@ hell :> "bad"
MCAccepted == {"p", "q"}
MCNames == {hello, hello2, hell, <<"hello", "ast">>, <<"hello", "locked">>}
MCLocked == {<<"hello", "locked">>}

\* Behind the stem "hell" memory may go on with an "o".
MCOverread(stem) == IF stem = "hell" THEN {"hell", "hello"} ELSE {"hello"}

\* A smaller instance: one program.
OneNames == {hello, <<"hello", "koopa">>}
OneSources == hello :> "p"
=============================================================================
