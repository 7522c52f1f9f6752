------------------------------ MODULE Console ------------------------------
(***************************************************************************)
(* The input side of kernel/console.c: consoleintr() edits and commits     *)
(* lines in a ring buffer, consoleread() takes them out, and kill() may    *)
(* come at any moment.  cons.lock is held for the whole of consoleintr()   *)
(* and from one sleep() to the next of consoleread(), of which each        *)
(* iteration is a step.  What is echoed is Uart's.                         *)
(***************************************************************************)
EXTENDS Integers, Sequences

CONSTANTS Reader, NoReader,
          INPUT_BUF_SIZE,
          CONSUINT,     \* values of a uint
          Char,         \* ordinary characters
          MaxRead       \* bound: bytes of one call

NL == "newline"
CR == "return"
EOT == "control-D"
Key == Char \cup {NL, CR, EOT, "control-U", "control-H", "control-P", "nul"}
Stored == Char \cup {NL, EOT, "nul"}

ASSUME ConsoleAssumption ==
  /\ NoReader \notin Reader /\ Char \cap {NL, CR, EOT, "nul"} = {}
  /\ INPUT_BUF_SIZE \in Nat \ {0} /\ MaxRead \in Nat
  /\ CONSUINT \in Nat /\ CONSUINT % INPUT_BUF_SIZE = 0 /\ CONSUINT > INPUT_BUF_SIZE

VARIABLES buf, r, w, e,      \* struct cons
          holder,            \* the reader that holds cons.lock
          rpc, left, target, \* of each reader: where it is, n and target
          dead               \* readers that were killed

cons == <<buf, r, w, e>>
rlocals == <<left, target>>
consvars == <<cons, holder, rpc, rlocals, dead>>

ConsTypeOK ==
  /\ buf \in [0 .. INPUT_BUF_SIZE - 1 -> Stored]
  /\ {r, w, e} \subseteq 0 .. CONSUINT - 1
  /\ holder \in Reader \cup {NoReader}
  /\ rpc \in [Reader -> {"user", "lock", "read", "sleep"}]
  /\ left \in [Reader -> 0 .. MaxRead] /\ target \in [Reader -> 0 .. MaxRead]
  /\ dead \subseteq Reader

ConsInit ==
  /\ buf = [k \in 0 .. INPUT_BUF_SIZE - 1 |-> "nul"]
  /\ r = 0 /\ w = 0 /\ e = 0
  /\ holder = NoReader
  /\ rpc = [p \in Reader |-> "user"]
  /\ left = [p \in Reader |-> 0] /\ target = left
  /\ dead = {}

\* Positions of the buffer, and how far one is behind another.
Cell(k) == k % INPUT_BUF_SIZE
Inc(k) == (k + 1) % CONSUINT
Dec(k) == (k + CONSUINT - 1) % CONSUINT
Dist(j, k) == (k + CONSUINT - j) % CONSUINT

-----------------------------------------------------------------------------
(* consoleintr() *)

\* control-U: back to the start of the line, or to a newline.
Kills ==
  LET back == {k \in 0 .. Dist(w, e) :
                 \A j \in 0 .. k - 1 : buf[Cell(e + CONSUINT - j - 1)] # NL}
  IN
  /\ holder = NoReader
  /\ e' = (e + CONSUINT - (CHOOSE k \in back : \A j \in back : j <= k)) % CONSUINT
  /\ UNCHANGED <<buf, r, w, holder, rpc, rlocals, dead>>

\* control-H
Erases ==
  /\ holder = NoReader
  /\ e' = IF e # w THEN Dec(e) ELSE e
  /\ UNCHANGED <<buf, r, w, holder, rpc, rlocals, dead>>

\* Mutant of Commits: a full buffer is not a line.
CommitsNot(c, f) == c \in {NL, EOT}

\* A line is complete, or the buffer is full when e is f.
Commits(c, f) == c \in {NL, EOT} \/ Dist(r, f) = INPUT_BUF_SIZE

\* Mutant of Stores: only a newline wakes the readers.
StoresQuietly(key) ==
  LET c == IF key = CR THEN NL ELSE key IN
  /\ holder = NoReader
  /\ key # "nul" /\ Dist(r, e) < INPUT_BUF_SIZE
  /\ buf' = [buf EXCEPT ![Cell(e)] = c]
  /\ e' = Inc(e)
  /\ w' = IF Commits(c, e') THEN e' ELSE w
  /\ rpc' = [p \in Reader |-> IF c = NL /\ rpc[p] = "sleep" THEN "lock" ELSE rpc[p]]
  /\ UNCHANGED <<r, holder, rlocals, dead>>

\* Any other character is stored if there is room; a complete line wakes the
\* readers.
Stores(key) ==
  LET c == IF key = CR THEN NL ELSE key IN
  /\ holder = NoReader
  /\ key # "nul" /\ Dist(r, e) < INPUT_BUF_SIZE
  /\ buf' = [buf EXCEPT ![Cell(e)] = c]
  /\ e' = Inc(e)
  /\ w' = IF Commits(c, e') THEN e' ELSE w
  /\ rpc' = [p \in Reader |-> IF Commits(c, e') /\ rpc[p] = "sleep" THEN "lock"
                                                                    ELSE rpc[p]]
  /\ UNCHANGED <<r, holder, rlocals, dead>>

\* There is no room, the character is nul, or procdump() is asked for.
Ignores(key) ==
  /\ holder = NoReader
  /\ key \in {"nul", "control-P"} \/ Dist(r, e) = INPUT_BUF_SIZE
  /\ UNCHANGED consvars

consoleintr(key) ==
  CASE key = "control-U" -> Kills
    [] key = "control-H" -> Erases
    [] key = "control-P" -> Ignores(key)
    [] OTHER -> Stores(key) \/ Ignores(key)

-----------------------------------------------------------------------------
(* consoleread() *)

consoleread(p, len) ==
  /\ rpc[p] = "user" /\ p \notin dead
  /\ left' = [left EXCEPT ![p] = len] /\ target' = [target EXCEPT ![p] = len]
  /\ rpc' = [rpc EXCEPT ![p] = "lock"]
  /\ UNCHANGED <<cons, holder, dead>>

ReadLocks(p) ==
  /\ rpc[p] = "lock" /\ holder = NoReader
  /\ holder' = p
  /\ rpc' = [rpc EXCEPT ![p] = "read"]
  /\ UNCHANGED <<cons, rlocals, dead>>

Returns(p) ==
  /\ holder' = NoReader
  /\ rpc' = [rpc EXCEPT ![p] = "user"]
  /\ left' = [left EXCEPT ![p] = 0] /\ target' = [target EXCEPT ![p] = 0]

\* Nothing to read: -1 for a killed process, sleep() for others, also for one
\* that is killed after it has called killed().
ReadWaits(p) ==
  /\ rpc[p] = "read" /\ left[p] > 0 /\ r = w
  /\ IF p \in dead THEN Returns(p) /\ UNCHANGED dead
     ELSE /\ holder' = NoReader
          /\ rpc' = [rpc EXCEPT ![p] = "sleep"]
          /\ dead' \in {dead, dead \cup {p}}
          /\ UNCHANGED rlocals
  /\ UNCHANGED cons

\* Mutant of ReadEnds: control-D is not kept for the next call.
ReadEndsEarly(p) ==
  /\ rpc[p] = "read"
  /\ \/ left[p] = 0 /\ UNCHANGED cons
     \/ /\ left[p] > 0 /\ r # w /\ buf[Cell(r)] = EOT
        /\ r' = Inc(r)
        /\ UNCHANGED <<buf, w, e>>
  /\ Returns(p)
  /\ UNCHANGED dead

\* All bytes are read; or control-D, which stays in the buffer when bytes were
\* read before it.
ReadEnds(p) ==
  /\ rpc[p] = "read"
  /\ \/ left[p] = 0 /\ UNCHANGED cons
     \/ /\ left[p] > 0 /\ r # w /\ buf[Cell(r)] = EOT
        /\ r' = IF left[p] < target[p] THEN r ELSE Inc(r)
        /\ UNCHANGED <<buf, w, e>>
  /\ Returns(p)
  /\ UNCHANGED dead

\* A character is read; it is the last if it is a newline or cannot be copied
\* out.
ReadChar(p) ==
  /\ rpc[p] = "read" /\ left[p] > 0 /\ r # w /\ buf[Cell(r)] # EOT
  /\ r' = Inc(r)
  /\ \/ Returns(p)
     \/ /\ buf[Cell(r)] # NL
        /\ left' = [left EXCEPT ![p] = @ - 1]
        /\ UNCHANGED <<holder, rpc, target>>
  /\ UNCHANGED <<buf, w, e, dead>>

\* kill(): a sleeper becomes runnable.  A dead reader leaves for good.
ConsKill(p) ==
  /\ p \notin dead
  /\ dead' = dead \cup {p}
  /\ rpc' = [rpc EXCEPT ![p] = IF @ = "sleep" THEN "lock" ELSE @]
  /\ UNCHANGED <<cons, holder, rlocals>>

ConsStep(p) == ReadLocks(p) \/ ReadWaits(p) \/ ReadEnds(p) \/ ReadChar(p)

ConsNext ==
  \/ \E key \in Key : consoleintr(key)
  \/ \E p \in Reader :
       \/ ConsStep(p) \/ ConsKill(p)
       \/ \E len \in 0 .. MaxRead : consoleread(p, len)

ConsSpec == ConsInit /\ [][ConsNext]_consvars

-----------------------------------------------------------------------------
(* Properties *)

Cells(j, k) == [m \in 1 .. Dist(j, k) |-> buf[Cell(j + m - 1)]]

LinePromise == INSTANCE LineQueue WITH
  Capacity <- INPUT_BUF_SIZE, Text <- Char, Newline <- NL, Eof <- EOT,
  ready <- Cells(r, w), line <- Cells(w, e)

\* The ring buffer with its three wrapping indices implements a queue of
\* complete lines and one line that can still be edited.
IsLineQueue == LinePromise!Spec

\* No reader misses a wakeup, however lines are completed: whoever sleeps has
\* nothing to read.  All values have their types.
ReaderWaits ==
  /\ ConsTypeOK
  /\ \A p \in Reader : rpc[p] = "sleep" => r = w

\* "Save ^D for next time, to make sure caller gets a 0-byte result": control-D
\* leaves the buffer only with a read() that returns no bytes.
EofIsSeen ==
  [][r' # r /\ buf[Cell(r)] = EOT =>
       \E p \in Reader : holder = p /\ left[p] = target[p] /\ holder' = NoReader
    ]_consvars
=============================================================================
