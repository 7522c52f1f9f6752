------------------------------- MODULE Shell -------------------------------
(***************************************************************************)
(* user/sh.c and user/init.c, which starts it, on top of the system calls  *)
(* they make.  A line is a sequence of tokens; the shell parses it in a    *)
(* child, which runs the command with more children.  A process has its    *)
(* descriptors and what it has still to do.  The programs are cat, which   *)
(* reads to the end of its input, and others that end by themselves.       *)
(***************************************************************************)
EXTENDS Integers, FiniteSets, FiniteSetsExt, SequencesExt

CONSTANTS ShPid,    \* 1 .. the slots of the process table; 1 is init
          NOFILE,   \* descriptors of a process
          MAXARGS,
          Word,     \* tokens that are not symbols
          Sessions  \* bound: the sequences of lines that are typed

ASSUME ShellAssumption ==
  /\ 1 \in ShPid /\ ShPid \subseteq Nat \ {0}
  /\ NOFILE \in Nat /\ NOFILE >= 5 /\ MAXARGS \in Nat \ {0}

-----------------------------------------------------------------------------
(* Parsing.  A parser returns the set of its results: the command and the  *)
(* tokens that are left, or nothing if the shell panics.                   *)

Exec(argv) == [type |-> "EXEC", argv |-> argv]
Redir(cmd, r) == [type |-> "REDIR", cmd |-> cmd, to |-> r]
Pair(type, left, right) == [type |-> type, left |-> left, right |-> right]
Back(cmd) == [type |-> "BACK", cmd |-> cmd]
Wrap(cmd, redirs) == FoldLeft(Redir, cmd, redirs)

\* The next token is the head of s; gettoken() goes past it.
peek(s, toks) == s # <<>> /\ Head(s) \in toks
gettoken(s) == Tail(s)
Parsed(cmd, s) == [cmd |-> cmd, rest |-> s]

RECURSIVE parseredirs(_, _)
parseredirs(redirs, s) ==
  IF ~peek(s, {"<", ">", ">>"}) THEN {Parsed(redirs, s)}
  ELSE IF peek(gettoken(s), Word)
       THEN LET q == gettoken(s)
                r == [fd |-> IF peek(s, {"<"}) THEN 0 ELSE 1, file |-> Head(q)]
            IN parseredirs(Append(redirs, r), gettoken(q))
       ELSE {}

\* parseexec() from its loop on.
RECURSIVE ParseArgs(_, _, _)
ParseArgs(argv, redirs, s) ==
  IF s = <<>> \/ peek(s, {"|", ")", "&", ";"})
  THEN {Parsed(Wrap(Exec(argv), redirs), s)}
  ELSE IF Head(s) \in Word /\ Len(argv) + 1 < MAXARGS
       THEN UNION {ParseArgs(Append(argv, Head(s)), x.cmd, x.rest) :
                     x \in parseredirs(redirs, gettoken(s))}
       ELSE {}

RECURSIVE parseline(_), parsepipe(_), ParseBacks(_, _)
parseblock(s) ==
  UNION {{Parsed(Wrap(x.cmd, y.cmd), y.rest) : y \in parseredirs(<<>>, gettoken(x.rest))} :
           x \in {z \in parseline(gettoken(s)) : peek(z.rest, {")"})}}

parseexec(s) ==
  IF peek(s, {"("}) THEN parseblock(s)
  ELSE UNION {ParseArgs(<<>>, x.cmd, x.rest) : x \in parseredirs(<<>>, s)}

parsepipe(s) ==
  UNION {IF ~peek(x.rest, {"|"}) THEN {x}
         ELSE {Parsed(Pair("PIPE", x.cmd, y.cmd), y.rest) :
                 y \in parsepipe(gettoken(x.rest))} :
           x \in parseexec(s)}

\* Mutant of ParseBacks: "if" instead of "while".
ParseBacksOnce(cmd, s) ==
  IF peek(s, {"&"}) THEN Parsed(Back(cmd), gettoken(s)) ELSE Parsed(cmd, s)

\* The "while" of parseline().
ParseBacks(cmd, s) ==
  IF peek(s, {"&"}) THEN ParseBacks(Back(cmd), gettoken(s)) ELSE Parsed(cmd, s)

parseline(s) ==
  UNION {LET x == ParseBacks(z.cmd, z.rest) IN
         IF ~peek(x.rest, {";"}) THEN {x}
         ELSE {Parsed(Pair("LIST", x.cmd, y.cmd), y.rest) :
                 y \in parseline(gettoken(x.rest))} :
           z \in parsepipe(s)}

parsecmd(s) == {x.cmd : x \in {y \in parseline(s) : y.rest = <<>>}}

-----------------------------------------------------------------------------
(* What a process that runs a command has to do, up to exit().  A step is  *)
(* a system call, or several on the process's own descriptors; "at" is the *)
(* place of a command in the line.                                         *)

Step(op, arg) == [op |-> op, arg |-> arg]
ForkStep(code, at) == [op |-> "fork", arg |-> 0, code |-> code, at |-> at]
ExecStep(argv, at) == [op |-> "exec", arg |-> argv, at |-> at]
ExitStep == Step("exit", 0)
WaitStep == Step("wait", 0)

\* Mutant of ListSteps: the right side does not wait for the left one.
ListAtOnce(left, right) == <<left>> \o right

\* LIST: the left side in a child, the right side in the process itself.
ListSteps(left, right) == <<left, WaitStep>> \o right

RECURSIVE runcmd(_, _)
runcmd(cmd, at) ==
  LET Part(name, before, c) ==
        ForkStep(before \o runcmd(c, Append(at, name)), Append(at, name))
  IN
  CASE cmd.type = "EXEC" ->
         IF cmd.argv = <<>> THEN <<ExitStep>> ELSE <<ExecStep(cmd.argv, at)>>
    [] cmd.type = "REDIR" -> <<Step("redir", cmd.to)>> \o runcmd(cmd.cmd, at)
    [] cmd.type = "LIST" ->
         ListSteps(Part(";left", <<>>, cmd.left), runcmd(cmd.right, Append(at, ";right")))
    [] cmd.type = "PIPE" ->
         <<Step("pipe", at),
           Part("|left", <<Step("dup", 2)>>, cmd.left),
           Part("|right", <<Step("dup", 1)>>, cmd.right),
           Step("close", 0), WaitStep, WaitStep, ExitStep>>
    [] cmd.type = "BACK" -> <<Part("&", <<>>, cmd.cmd), ExitStep>>

-----------------------------------------------------------------------------
(* Processes *)

VARIABLES task,     \* the process table
          sh,       \* pid in init's main(): the shell, 0 while there is none
          history,  \* the lines typed so far
          failed    \* a system call has failed

shvars == <<task, sh, history, failed>>

initpid == 1
FD == 0 .. NOFILE - 1
NoFile == [name |-> <<>>, end |-> 0]
File(name) == [name |-> <<name>>, end |-> 0]
PipeEnd(at, k) == [name |-> at, end |-> k]

NoFiles == [fd \in FD |-> NoFile]
Stdio == [fd \in FD |-> IF fd < 3 THEN File("console") ELSE NoFile]
NoTask == [st |-> "unused", parent |-> 0, ofile |-> NoFiles, p |-> <<0, 0>>,
           todo |-> <<>>, at |-> <<>>]
Prompt == <<Step("getcmd", 0)>>
EndOfFile == <<"^D">>

ShInit ==
  /\ task = [q \in ShPid |->
              IF q = initpid THEN [NoTask EXCEPT !.st = "used", !.ofile = Stdio] ELSE NoTask]
  /\ sh = 0 /\ history = <<>> /\ failed = FALSE

Calls(q, op) == task[q].todo # <<>> /\ Head(task[q].todo).op = op
Arg(q) == Head(task[q].todo).arg
Lowest(files) == Min({fd \in FD : files[fd] = NoFile})
Children(q) == {c \in ShPid : task[c].st # "unused" /\ task[c].parent = q}
Zombies(q) == {c \in Children(q) : task[c].st = "zombie"}
Slots == {q \in ShPid : task[q].st = "unused"}
NoSlot == Slots = {}

\* open(), dup(): the lowest free descriptor.
Opened(files, f) == [files EXCEPT ![Lowest(files)] = f]
Closed(files, fds) == [fd \in FD |-> IF fd \in fds THEN NoFile ELSE files[fd]]

\* q goes on to its next step with these files.
GoesOn(q, files) ==
  /\ task' = [task EXCEPT ![q].todo = Tail(@), ![q].ofile = files]
  /\ UNCHANGED <<sh, history, failed>>

Redirects(q) ==
  /\ Calls(q, "redir")
  /\ GoesOn(q, Opened(Closed(task[q].ofile, {Arg(q).fd}), File(Arg(q).file)))

\* pipe(p)
Pipes(q) ==
  LET files == task[q].ofile
      more == Opened(files, PipeEnd(Arg(q), 1))
  IN
  /\ Calls(q, "pipe")
  /\ task' = [task EXCEPT ![q].todo = Tail(@),
                          ![q].ofile = Opened(more, PipeEnd(Arg(q), 2)),
                          ![q].p = <<Lowest(files), Lowest(more)>>]
  /\ UNCHANGED <<sh, history, failed>>

\* Mutant of Closes: the write end stays open.
ClosesKeepsWriteEnd(q) ==
  /\ Calls(q, "close")
  /\ GoesOn(q, Closed(task[q].ofile, {task[q].p[1]}))

\* close(p[0]); close(p[1]), in the process that waits for both sides.
Closes(q) ==
  /\ Calls(q, "close")
  /\ GoesOn(q, Closed(task[q].ofile, {task[q].p[1], task[q].p[2]}))

\* A side of a pipe: close(1); dup(p[1]), or close(0); dup(p[0]); both of p
\* are closed.
Dups(q) ==
  LET files == task[q].ofile
      p == task[q].p
      std == Arg(q) - 1
  IN
  /\ Calls(q, "dup")
  /\ GoesOn(q, Closed(Opened(Closed(files, {std}), files[p[Arg(q)]]), {p[1], p[2]}))

Forks(q) ==
  LET h == Head(task[q].todo)
      c == Min(Slots)
  IN
  /\ Calls(q, "fork") /\ ~NoSlot
  /\ task' = [task EXCEPT ![q].todo = Tail(@),
                          ![c] = [task[q] EXCEPT !.parent = q, !.todo = h.code, !.at = h.at]]
  /\ UNCHANGED <<sh, history, failed>>

\* exit(): files are closed, and children are init's.
Exits(q) ==
  /\ task' = [c \in ShPid |->
               CASE c = q -> [NoTask EXCEPT !.st = "zombie", !.parent = task[q].parent,
                                            !.at = task[q].at]
                 [] c # q /\ c \in Children(q) -> [task[c] EXCEPT !.parent = initpid]
                 [] OTHER -> task[c]]
  /\ UNCHANGED sh

\* A system call fails, once, or fork() has no slot: a message, and exit().
CallFails(q) ==
  /\ \E op \in {"pipe", "fork", "redir", "exec", "exec sh"} :
       Calls(q, op) /\ (failed => op = "fork" /\ NoSlot)
  /\ failed' = TRUE
  /\ Exits(q) /\ UNCHANGED history

\* wait(0): one zombie goes.  Whoever waits has a child.
Waits(q) ==
  /\ Calls(q, "wait")
  /\ \E c \in Zombies(q) : task' = [task EXCEPT ![q].todo = Tail(@), ![c] = NoTask]
  /\ UNCHANGED <<sh, history, failed>>

\* exec(): the program runs.
Execs(q) ==
  /\ Calls(q, "exec")
  /\ task' = [task EXCEPT ![q].todo[1].op = "main"]
  /\ UNCHANGED <<sh, history, failed>>

\* cat() of the standard input: read() ends when nobody can write to the pipe,
\* write() fails when nobody can read from it.
Holders(f) == {q \in ShPid : \E fd \in FD : task[q].ofile[fd] = f}
cat(in, out) ==
  \/ in.end = 1 => Holders([in EXCEPT !.end = 2]) = {}
  \/ out.end = 2 /\ Holders([out EXCEPT !.end = 1]) = {}

\* exit(), of the shell's child or of the program it has become.
Ends(q) ==
  /\ \/ Calls(q, "exit")
     \/ /\ Calls(q, "main")
        /\ Arg(q) = <<"cat">> => cat(task[q].ofile[0], task[q].ofile[1])
  /\ Exits(q) /\ UNCHANGED <<history, failed>>

\* getcmd() returns a line; main() forks, and the child parses and runs it.
Code(s, at) ==
  LET cmds == parsecmd(s) IN
  IF cmds = {} THEN <<ExitStep>> ELSE runcmd(CHOOSE c \in cmds : TRUE, at)

Gets(q) ==
  /\ Calls(q, "getcmd")
  /\ \E x \in Sessions :
       IsStrictPrefix(history, x) /\ history' = SubSeq(x, 1, Len(history) + 1)
  /\ UNCHANGED failed

IsCd(s) == Len(s) > 1 /\ Head(s) = "cd"

GetCmd(q) ==
  LET at == <<ToString(Len(history'))>> IN
  /\ Gets(q) /\ Last(history') # EndOfFile /\ ~IsCd(Last(history'))
  /\ task' = [task EXCEPT
                ![q].todo = <<ForkStep(Code(Last(history'), at), at), WaitStep>> \o Prompt]
  /\ UNCHANGED sh

\* chdir() is called by the shell itself.
Cd(q) == Gets(q) /\ IsCd(Last(history')) /\ UNCHANGED <<task, sh>>

\* getcmd() returns -1.
Eof(q) == Gets(q) /\ Last(history') = EndOfFile /\ Exits(q)

\* init's main(): fork() when there is no shell, else wait().  Without a slot
\* init would exit, and with it the kernel; RunsAsWritten says there is one.
InitForks ==
  LET c == Min(Slots) IN
  /\ sh = 0 /\ ~NoSlot
  /\ sh' = c
  /\ task' = [task EXCEPT ![c] = [NoTask EXCEPT !.st = "used", !.parent = initpid,
                                               !.ofile = Stdio,
                                               !.todo = <<Step("exec sh", 0)>> \o Prompt]]
  /\ UNCHANGED <<history, failed>>

InitWaits ==
  /\ sh # 0
  /\ \E c \in Zombies(initpid) :
       /\ task' = [task EXCEPT ![c] = NoTask]
       /\ sh' = IF c = sh THEN 0 ELSE sh
  /\ UNCHANGED <<history, failed>>

\* The shell's main() opens the console; three descriptors are open already,
\* so it closes the fourth.
ShStarts(q) == Calls(q, "exec sh") /\ GoesOn(q, task[q].ofile)

ShStep(q) ==
  \/ ShStarts(q) \/ Redirects(q) \/ Pipes(q) \/ Closes(q) \/ Dups(q) \/ Forks(q)
  \/ CallFails(q) \/ Waits(q) \/ Execs(q) \/ Ends(q)

InitStep == InitForks \/ InitWaits

ShNext ==
  \/ InitStep
  \/ \E q \in ShPid : ShStep(q) \/ GetCmd(q) \/ Cd(q) \/ Eof(q)

-----------------------------------------------------------------------------
(* Properties *)

\* The programs of a command with where they are, and what their input and
\* output must be: an inner redirection hides an outer one.
RECURSIVE Wires(_, _, _, _)
Wires(cmd, at, in, out) ==
  CASE cmd.type = "EXEC" -> {[at |-> at, in |-> in, out |-> out]}
    [] cmd.type = "REDIR" ->
         LET f == File(cmd.to.file) IN
         IF cmd.to.fd = 0 THEN Wires(cmd.cmd, at, f, out) ELSE Wires(cmd.cmd, at, in, f)
    [] cmd.type = "LIST" -> Wires(cmd.left, Append(at, ";left"), in, out) \cup
                            Wires(cmd.right, Append(at, ";right"), in, out)
    [] cmd.type = "PIPE" -> Wires(cmd.left, Append(at, "|left"), in, PipeEnd(at, 2)) \cup
                            Wires(cmd.right, Append(at, "|right"), PipeEnd(at, 1), out)
    [] cmd.type = "BACK" -> Wires(cmd.cmd, Append(at, "&"), in, out)

\* What a line means: the first ";" outside parentheses separates the two
\* sides of a list, a last "&" puts all before it in the background, the first
\* "|" separates the two ends of a pipe, and what is left is a block or a
\* program with its arguments, and redirections.
Depth(s, k) ==
  Cardinality({i \in 1 .. k : s[i] = "("}) - Cardinality({i \in 1 .. k : s[i] = ")"})
Top(s, tok) == {k \in DOMAIN s : s[k] = tok /\ Depth(s, k) = 0}
Symbol == {"<", ">", ">>"}
InOrderOf(S) == SetToSortSeq(S, <)
Targets(s) == {k \in DOMAIN s : k > 1 /\ s[k - 1] \in Symbol}
Simple(s) ==
  /\ \A k \in DOMAIN s : s[k] \in Word \cup IF k < Len(s) THEN Symbol ELSE {}
  /\ \A k \in Targets(s) : s[k] \in Word
Arguments(s) ==
  LET P == InOrderOf({k \in DOMAIN s \ Targets(s) : s[k] \in Word}) IN
  [i \in DOMAIN P |-> s[P[i]]]
Redirections(s) ==
  LET P == InOrderOf(Targets(s)) IN
  [i \in DOMAIN P |-> [fd |-> IF s[P[i] - 1] = "<" THEN 0 ELSE 1, file |-> s[P[i]]]]

RECURSIVE Meaning(_)
Meaning(s) ==
  LET Split(type, tok) ==
        LET k == Min(Top(s, tok)) IN
        {Pair(type, x, y) : x \in Meaning(SubSeq(s, 1, k - 1)),
                            y \in Meaning(SubSeq(s, k + 1, Len(s)))}
      close == Min(Top(s, ")"))
      after == SubSeq(s, close + 1, Len(s))
  IN
  IF Depth(s, Len(s)) # 0 \/ \E k \in DOMAIN s : Depth(s, k) < 0 THEN {}
  ELSE IF Top(s, ";") # {} THEN Split("LIST", ";")
  ELSE IF s # <<>> /\ Last(s) = "&" THEN {Back(x) : x \in Meaning(Front(s))}
  ELSE IF Top(s, "&") # {} THEN {}
  ELSE IF Top(s, "|") # {} THEN Split("PIPE", "|")
  ELSE IF s # <<>> /\ Head(s) = "("
       THEN IF Simple(after) /\ Arguments(after) = <<>>
            THEN {Wrap(x, Redirections(after)) : x \in Meaning(SubSeq(s, 2, close - 1))}
            ELSE {}
  ELSE IF Simple(s) /\ Len(Arguments(s)) < MAXARGS
       THEN {Wrap(Exec(Arguments(s)), Redirections(s))}
  ELSE {}

AtPrompt == sh # 0 /\ Calls(sh, "getcmd")
Running(q) == Calls(q, "main")
Place(q) == Head(task[q].todo).at

\* A program runs with the three standard descriptors and no other, connected
\* as its line says.
Wired(q) ==
  LET files == task[q].ofile
      k == CHOOSE i \in DOMAIN history : Head(Place(q)) = ToString(i)
      console == File("console")
  IN
  /\ {fd \in FD : files[fd] # NoFile} = {0, 1, 2} /\ files[2] = console
  /\ \E cmd \in Meaning(history[k]) :
       [at |-> Place(q), in |-> files[0], out |-> files[1]]
         \in Wires(cmd, <<ToString(k)>>, console, console)

\* What is left of ";" has ended, but for what runs in the background.
LeftEnded(q) ==
  \A k \in DOMAIN Place(q), c \in ShPid :
    LET before == SubSeq(Place(q), 1, k - 1)
        at == task[c].at
    IN Place(q)[k] = ";right" /\ IsPrefix(Append(before, ";left"), at)
       => Contains(SubSeq(at, k + 1, Len(at)), "&")

\* runcmd() does what the line says, in every order of its processes: programs
\* are connected to the files and pipes of their place in the line, with no
\* descriptor left over; unless a call fails the sides of ";" run one after the
\* other, and at the prompt the shell has its first descriptors, no children,
\* and only background processes are left.  init finds a slot for the shell.
RunsAsWritten ==
  /\ sh = 0 => ~NoSlot
  /\ \A q \in ShPid : Running(q) => Wired(q) /\ (~failed => LeftEnded(q))
  /\ AtPrompt /\ ~failed =>
       /\ task[sh].ofile = Stdio /\ Children(sh) = {}
       /\ \A q \in ShPid \ {initpid, sh} :
            task[q].st # "unused" => Contains(task[q].at, "&")

\* The recursive descent of parsecmd() gives every line its meaning, and panics
\* on those that have none.
ParsesRight ==
  sh # 0 /\ Calls(sh, "fork") => parsecmd(Last(history)) = Meaning(Last(history))

\* No command hangs the shell: every pipe is closed by all who do not use it,
\* also after a failed fork(), so cat sees the end of its input, everybody
\* waited for ends, and after an exit init starts the shell again.
PromptReturns == sh # 0 /\ ~AtPrompt ~> AtPrompt
=============================================================================
