------------------------------- MODULE MCInode -------------------------------
(* Inode with two processes in a tree with a file a and a directory b.      *)
EXTENDS Inode

CONSTANTS p1, p2, f1

MCName == {"a", "b"}
C(op, paths) == {[op |-> op, path |-> path] : path \in paths}

\* The second process removes what the first one makes.
Tree ==
  p1 :> C("create", {<<"a">>, <<"b", "a">>}) \cup C("link", {<<"a">>})
        \cup C("unlink", {<<"a">>, <<"b">>})
  @@ p2 :> C("mkdir", {<<"b">>}) \cup C("unlink", {<<"b">>, <<"b", "a">>})
           \cup C("open", {<<"b">>}) \cup C("chdir", {<<"b">>})
TreeNew == {<<"b", "a">>}

\* Directories are removed under a process that works in them.
Dotted ==
  p1 :> C("mkdir", {<<"a">>}) \cup C("unlink", {<<"a">>, <<"a", "a">>})
  @@ p2 :> C("mkdir", {<<"a">>}) \cup C("chdir", {<<"a">>}) \cup C("open", {<<"..">>})
==============================================================================
