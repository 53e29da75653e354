------------------------------- MODULE Disk -------------------------------
(***************************************************************************)
(* Disks: an ATA channel with two devices (devices/ide.c), the partitions  *)
(* found on them (devices/partition.c) and block devices on both           *)
(* (devices/block.c).  The boot probes the devices and scans the partition *)
(* tables in one step; afterwards threads read and write sectors, one      *)
(* action for each register access that matters, while the device and its  *)
(* interrupt go on by themselves.  The device answers before the polls of  *)
(* wait_until_idle and wait_while_busy give up.                            *)
(***************************************************************************)
EXTENDS Integers, Sequences, FiniteSets, SequencesExt

CONSTANTS DiskUsers,    \* threads that read and write sectors
          Channels,     \* the pairs of devices the boot may find
          SectorSpan,   \* block_sector_t wraps here
          MaxDiskOps,   \* bound: requests
          MaxNest       \* bound: nested partition tables before the stack is gone

ASSUME DiskAssumption == {SectorSpan, MaxDiskOps, MaxNest} \subseteq Nat \ {0}

VARIABLE d

Blank == <<>>          \* what a sector holds before it is written
NoRequest == [pc |-> "idle", op |-> "none", block |-> 0, disk |-> 0, sec |-> 0, got |-> Blank, want |-> Blank]
Roles == {"kernel", "filesys", "scratch", "swap"}
DiskPanic(x, why) == [x EXCEPT !.kernel = why]

(* ----------------------------------------------------- blocks, partitions *)
block_register(s, disk, type, start, size) ==
    [s EXCEPT !.blocks = Append(@, [disk |-> disk, type |-> type, start |-> start, size |-> size])]
found_partition(s, disk, size, type, start, n) ==
    LET end == (start + n) % SectorSpan
    IN IF start >= size \/ end < start \/ end > size THEN s
       ELSE block_register(s, disk, IF type \in Roles THEN type ELSE "foreign", start, n)

\* The table of sector 0 is read whichever sector is asked for.
RECURSIVE read_partition_table(_, _, _, _, _, _)
read_partition_table(s, disk, dev, sector, primary, nest) ==
    CASE sector >= dev.size -> s
      [] nest > MaxNest -> [s EXCEPT !.kernel = "stack overflow"]
      [] OTHER ->
         FoldLeft(LAMBDA a, e :
             IF e.size = 0 \/ e.type = "empty" THEN a
             ELSE IF e.type = "extended"
                  THEN LET at == IF sector = 0 THEN e.offset ELSE (e.offset + primary) % SectorSpan
                       IN read_partition_table(a, disk, dev, at, IF sector = 0 THEN at ELSE primary, nest + 1)
             ELSE found_partition(a, disk, dev.size, e.type, (e.offset + sector) % SectorSpan, e.size),
             s, dev.table)
partition_scan(s, disk, dev) == read_partition_table(s, disk, dev, 0, 0, 0)

(* ------------------------------------------------------------- the channel *)
\* Returns whether the device is an ATA disk, and whether a slave may exist.
check_device_type(dev, dev_no) ==
    IF (dev.error # 1 /\ (dev.error # 129 \/ dev_no = 1)) \/ ~dev.ready
    THEN [is_ata |-> FALSE, slave |-> dev.error # 129]
    ELSE [is_ata |-> dev.ata, slave |-> TRUE]
identify_ata_device(s, disk, dev) ==
    LET t == [s EXCEPT !.expecting = TRUE]
    IN IF ~dev.identified \/ dev.large THEN t
       ELSE partition_scan(block_register(t, disk, "raw", 0, dev.size), disk, dev)
ide_init ==
    /\ d.kernel = "boot"
    /\ LET master == check_device_type(d.channel[0], 0)
           slave == master.slave /\ check_device_type(d.channel[1], 1).is_ata
           x == IF master.is_ata THEN identify_ata_device(d, 0, d.channel[0]) ELSE d
           y == IF slave THEN identify_ata_device(x, 1, d.channel[1]) ELSE x
       IN d' = [y EXCEPT !.kernel = IF @ = "boot" THEN "up" ELSE @]

\* Reading the status to see that the channel is idle clears its interrupt.
select_sector(x, disk, sector) == [x EXCEPT !.reg.dev = disk, !.reg.sec = sector, !.pending = FALSE]
issue_pio_command(x, command) == [x EXCEPT !.expecting = TRUE, !.reg.command = command, !.status = "busy"]

interrupt_handler ==
    /\ d.pending
    /\ d' = [d EXCEPT !.pending = FALSE, !.completion = IF d.expecting THEN @ + 1 ELSE @]

(* ------------------------------------------------ a request and its steps *)
At(t, pc) == d.th[t].pc = pc
Go(x, t, pc) == [x EXCEPT !.th[t].pc = pc]
check_sector(b, sector) == sector < b.size
\* partition_read and partition_write add the start; the device checks again.
Physical(b, sector) == (b.start + sector) % SectorSpan

\* block_read and block_write of a block device that has a role.
Request(t, b, op, sector) ==
    /\ At(t, "idle") /\ d.ops > 0 /\ d.blocks[b].type \in Roles
    /\ LET blk == d.blocks[b]
           phys == Physical(blk, sector)
           req == [pc |-> "lock", op |-> op, block |-> b, disk |-> blk.disk, sec |-> phys, got |-> Blank, want |-> Blank]
       IN d' = IF ~check_sector(blk, sector) \/ phys >= d.channel[blk.disk].size THEN DiskPanic(d, "past end")
               ELSE [d EXCEPT !.ops = @ - 1, !.th[t] = req]

Acquire(t) == At(t, "lock") /\ d.lock = "free" /\ d' = Go([d EXCEPT !.lock = t], t, "select")
Select(t) == /\ At(t, "select") /\ d.status = "idle"
             /\ d' = Go(select_sector(d, d.th[t].disk, d.th[t].sec), t, "issue")
Issue(t) == /\ At(t, "issue")
            /\ d' = Go(issue_pio_command(d, d.th[t].op), t, IF d.th[t].op = "read" THEN "down" ELSE "poll")
\* wait_while_busy: without data to move the command has failed.
Poll(t) == /\ At(t, "poll") /\ d.status # "busy"
           /\ d' = IF d.status = "data" THEN Go(d, t, "move") ELSE DiskPanic(d, "failed")
Down(t) == /\ At(t, "down") /\ d.completion > 0
           /\ d' = Go([d EXCEPT !.completion = @ - 1], t, IF d.th[t].op = "read" THEN "poll" ELSE "release")
input_sector(x, t) == Go([x EXCEPT !.status = "idle", !.th[t].got = x.reg.data,
                                   !.th[t].want = x.media[x.th[t].disk][x.th[t].sec]], t, "release")
output_sector(x, t) == Go([x EXCEPT !.status = "busy", !.reg.command = "store", !.reg.data = <<x.th[t].block, t>>],
                          t, "down")
Move(t) == At(t, "move") /\ d' = IF d.th[t].op = "read" THEN input_sector(d, t) ELSE output_sector(d, t)
Release(t) == At(t, "release") /\ d' = [d EXCEPT !.lock = "free", !.th[t] = NoRequest]
\* ide_read and ide_write.
Transfer(t) == Acquire(t) \/ Select(t) \/ Issue(t) \/ Poll(t) \/ Down(t) \/ Move(t) \/ Release(t)

(* -------------------------------------------------------------- the device *)
Serve ==
    /\ d.status = "busy"
    /\ d' = CASE d.reg.command = "read" ->
                   [d EXCEPT !.status = "data", !.pending = TRUE, !.reg.data = d.media[d.reg.dev][d.reg.sec]]
              [] d.reg.command = "write" -> [d EXCEPT !.status = "data"]
              [] d.reg.command = "store" ->
                   [d EXCEPT !.status = "idle", !.pending = TRUE, !.media[d.reg.dev][d.reg.sec] = d.reg.data]
\* A command that fails, and an interrupt nobody asked for: one of each.
Fail == /\ d.faults > 0 /\ d.status = "busy" /\ d.reg.command \in {"read", "write"}
        /\ d' = [d EXCEPT !.faults = @ - 1, !.status = "idle", !.pending = TRUE]
Spurious == /\ d.faults > 0 /\ ~d.pending
            /\ d' = [d EXCEPT !.faults = @ - 1, !.pending = TRUE, !.stray = d.expecting]

(* ----------------------------------------------------------- specification *)
DiskInit ==
    \E channel \in Channels :
      d = [kernel |-> "boot", channel |-> channel, blocks |-> <<>>, lock |-> "free", expecting |-> FALSE,
           completion |-> 0, pending |-> FALSE, status |-> "idle", stray |-> FALSE, faults |-> 1, ops |-> MaxDiskOps,
           reg |-> [dev |-> 0, sec |-> 0, command |-> "none", data |-> Blank],
           media |-> [i \in {0, 1} |-> [s \in 0 .. channel[i].size - 1 |-> Blank]],
           th |-> [t \in DiskUsers |-> NoRequest]]
DiskNext ==
    \/ ide_init
    \/ /\ d.kernel = "up"
       /\ \/ interrupt_handler \/ Serve \/ Fail \/ Spurious
          \/ \E t \in DiskUsers : Transfer(t)
          \/ \E t \in DiskUsers, op \in {"read", "write"}, sector \in 0 .. SectorSpan - 1 :
               \E b \in DOMAIN d.blocks : sector <= d.blocks[b].size /\ Request(t, b, op, sector)
\* The device answers, its interrupt is taken, and threads are scheduled.
(* -------------------------------------------------------------- properties *)
\* One completion at most is outstanding, and the channel's registers are in
\* use only while its lock is held (ide.c).
DiskTypeOK == /\ d.completion \in 0 .. 1 \/ d.stray
              /\ d.lock = "free" => d.status = "idle" \/ d.stray
              /\ \A t \in DiskUsers : d.th[t].pc \notin {"idle", "lock"} => d.lock = t

\* A partition that is registered lies within its device (partition.c).
PartitionsInside == \A b \in Range(d.blocks) : b.start + b.size <= d.channel[b.disk].size

\* A sector holds data of a block device only if it is one of its sectors:
\* no write leaves its partition or reaches the other disk (block.c, ide.c).
WritesConfined ==
    \A i \in {0, 1} : \A s \in DOMAIN d.media[i] :
      d.media[i][s] = Blank \/ LET b == d.blocks[d.media[i][s][1]]
                           IN b.disk = i /\ s >= b.start /\ s < b.start + b.size

\* A read returns what its sector holds, with other threads' requests on both
\* devices of the channel and stray interrupts in between (ide.c).
ReadsExact == \A t \in DiskUsers : d.th[t].got = d.th[t].want

\* ide_write returns after the disk has the data, unless a stray interrupt
\* was taken for a completion (ide.c).
WritesStored ==
    \A t \in DiskUsers :
      At(t, "release") /\ d.th[t].op = "write" /\ ~d.stray
        => d.media[d.th[t].disk][d.th[t].sec] = <<d.th[t].block, t>>

\* Every request is answered, or the kernel panics (ide.c).
RequestsEnd == (\E t \in DiskUsers : ~At(t, "idle")) ~> (d.kernel # "up" \/ \A t \in DiskUsers : At(t, "idle"))

=============================================================================
