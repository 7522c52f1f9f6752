----------------------------- MODULE LineQueue -----------------------------
(***************************************************************************)
(* What the console promises to those who type and read: characters are    *)
(* collected in a line that can be edited, and become readable, in order,  *)
(* with the newline, the end of file, or when there is no room for more.   *)
(***************************************************************************)
EXTENDS Naturals, Sequences

CONSTANTS Text, Newline, Eof, Capacity

VARIABLES ready, line

lvars == <<ready, line>>

Init == ready = <<>> /\ line = <<>>

Type(c) ==
  LET typed == Append(line, c)
      full == Len(ready) + Len(typed) = Capacity
  IN
  /\ Len(ready) + Len(line) < Capacity
  /\ IF c \in {Newline, Eof} \/ full
     THEN ready' = ready \o typed /\ line' = <<>>
     ELSE line' = typed /\ UNCHANGED ready

Erase ==
  /\ line # <<>>
  /\ line' = SubSeq(line, 1, Len(line) - 1)
  /\ UNCHANGED ready

KillLine == line' = <<>> /\ UNCHANGED ready

Read == ready # <<>> /\ ready' = Tail(ready) /\ UNCHANGED line

Next == (\E c \in Text \cup {Newline, Eof} : Type(c)) \/ Erase \/ KillLine \/ Read

Spec == Init /\ [][Next]_lvars
=============================================================================
