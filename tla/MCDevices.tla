------------------------------ MODULE MCDevices ------------------------------
(* Small instances of the console with its keyboard and serial line, and of *)
(* the IDE channel.  They do not share state: a behaviour is one of the two, *)
(* chosen at first, while the other stays in an initial state.              *)
EXTENDS Console, Disk

VARIABLE part
vars == <<c, d, part>>

\* Printing, reading, typing.
Budget(len, typed, hits, messages) == [len |-> len, typed |-> typed, hits |-> hits, messages |-> messages]
Budgets == {Budget(3, 0, 0, 1), Budget(1, 3, 0, 0), Budget(0, 0, 4, 0)}

\* Disks that answer, that do not, and the partition tables they hold.
E(type, offset, size) == [type |-> type, offset |-> offset, size |-> size]
Device(size, table) == [error |-> 1, ready |-> TRUE, ata |-> TRUE, identified |-> TRUE, large |-> FALSE, size |-> size, table |-> table]
Broken == [Device(1, <<>>) EXCEPT !.error = 129, !.ready = FALSE]
Good == Device(4, <<E("filesys", 1, 2), E("empty", 0, 1), E("swap", 3, 1)>>)
Odd == Device(5, <<E("linux", 1, 1), E("swap", 3, 6), E("scratch", 2, 2), E("kernel", 6, 1), E("filesys", 0, 0)>>)
Nests == Device(4, <<E("kernel", 1, 1), E("extended", 2, 2)>>)
Deep == Device(5, <<E("extended", 2, 2)>>)
Pairs == {<<Good, Odd>>, <<Broken, Good>>, <<Nests, Deep>>,
          <<[Good EXCEPT !.ata = FALSE], [Good EXCEPT !.large = TRUE]>>,
          <<[Good EXCEPT !.error = 129], [Odd EXCEPT !.identified = FALSE]>>}
Chans == {[i \in {0, 1} |-> pair[i + 1]] : pair \in Pairs}

Init == /\ part \in {"console", "disk"}
        /\ ConsoleInit /\ (part # "console" => c.max = CHOOSE x \in ConsoleBudgets : TRUE)
        /\ DiskInit /\ (part # "disk" => d.channel = CHOOSE x \in Channels : TRUE)
Next == \/ part = "console" /\ ConsoleNext /\ UNCHANGED <<d, part>>
        \/ part = "disk" /\ DiskNext /\ UNCHANGED <<c, part>>

\* Interrupts are served, the devices answer, threads that can run do run.
ConsoleRuns == part = "console" /\ c.kernel = "up" /\ UNCHANGED <<d, part>>
DiskRuns == part = "disk" /\ d.kernel = "up" /\ UNCHANGED <<c, part>>
Fair == /\ WF_vars(ConsoleRuns /\ serial_interrupt) /\ WF_vars(ConsoleRuns /\ UartSent)
        /\ WF_vars(ConsoleRuns /\ serial_init_queue) /\ WF_vars(ConsoleRuns /\ kbd_bottom_half)
        /\ \A t \in Writers \cup Readers : WF_vars(ConsoleRuns /\ Thread(t))
        /\ WF_vars(DiskRuns /\ Serve) /\ WF_vars(DiskRuns /\ interrupt_handler)
        /\ \A t \in DiskUsers : WF_vars(DiskRuns /\ Transfer(t))
Spec == Init /\ [][Next]_vars /\ Fair

==============================================================================
