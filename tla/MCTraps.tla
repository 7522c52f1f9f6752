------------------------------ MODULE MCTraps ------------------------------
(* Registers of three values, intervals of up to three ticks; two          *)
(* processes that print; every line of up to three tokens but one, longer  *)
(* ones that nest what the short ones cannot, and the shell left and       *)
(* started again.                                                          *)
EXTENDS Traps

CONSTANTS r1, r2, r3, q1, q2

Token == {"cat", ">", "|", "&", ";", "(", ")"}

\* Three processes in the background have as many states as all the rest.
TooMany == <<"|", "|", "&">>

MCLines ==
  (UNION {[1 .. k -> Token] : k \in 0 .. 3} \ {TooMany}) \cup
  {<<"echo", "|", "cat", "f">>,
   <<"echo", "f", "g">>,
   <<"cd", "f">>,
   <<"cat", "|", "cat", "|", "cat">>,
   <<"cat", ">", "f", ">>", "g">>,
   <<"cat", "<", "f", "|", "cat", ">", "f">>,
   <<"(", "echo", ";", "cat", ")", "|", "cat">>,
   <<"(", "cat", "|", "echo", "&", ")", ">", "f", ";", "cat">>}

MCSessions ==
  {<<s, EndOfFile>> : s \in MCLines} \cup {<< <<"cat", "&">>, <<"cat">> >>}
=============================================================================
