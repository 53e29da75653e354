------------------------------- MODULE MCWal -------------------------------
(* Instances of Wal for TLC. *)
EXTENDS Wal

CONSTANTS t1, t2, p1, p2, none

TwoThreads == {t1, t2}
TwoPages == {p1, p2}
Bits == {0, 1}

\* One thread, two sessions, a log that wraps, a machine without memory at times.
Alone == [pages |-> [t \in {t1, t2} |-> IF t = t1 THEN {p1} ELSE {}], sectors |-> 4,
          fails |-> TRUE, format |-> TRUE, sessions |-> 2]
\* Two threads, each with its own page, and a crash.
Together == [pages |-> [t \in {t1, t2} |-> IF t = t1 THEN {p1} ELSE {p2}], sectors |-> 5,
             fails |-> FALSE, format |-> FALSE, sessions |-> 1]
Machines == {Alone, Together}
=============================================================================
