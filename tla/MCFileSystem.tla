----------------------------- MODULE MCFileSystem -----------------------------
(* Small instances of FileSystem for TLC.                                  *)
EXTENDS FileSystem

CONSTANTS t1, t2

Threads == {t1, t2}
Symm == Permutations(Threads)
Wal == {2}

(* An empty directory, a file and a symbolic link to the directory; the    *)
(* second setup also fills the disk but for two sectors.                   *)
Tree == <<[op |-> "mkdir", path |-> <<"/", "x">>],
          [op |-> "create", path |-> <<"/", "y">>, size |-> 1],
          [op |-> "symlink", path |-> <<"/", "s">>, target |-> <<"x">>]>>
Full == Append(Tree, [op |-> "create", path |-> <<"/", "x", "f">>, size |-> 4])
TreeAndFull == {Tree, Full}

TreePaths == {<<"/", "x">>, <<"/", "y">>, <<"/", "s", "z">>, <<"z">>}
TreeTargets == {<<"x">>}
OldPath == {<<"/", "y">>}
===============================================================================
