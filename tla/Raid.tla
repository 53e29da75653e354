------------------------------- MODULE Raid -------------------------------
(***************************************************************************)
(* Software RAID (devices/raid.c): striping, mirrors and rotating parity   *)
(* on the raw disks, which start out zeroed.  A transfer of one sector of  *)
(* one disk is a step; the code takes no lock, so that two writes may      *)
(* interleave: raced tells that two did, in one sector of a mirror or one  *)
(* stripe with parity.  init.c leaves RAID disabled by default.            *)
(***************************************************************************)
EXTENDS Integers, Sequences, FiniteSets, FiniteSetsExt

CONSTANTS RaidUsers,      \* threads that read and write the array
          RaidArrays,     \* [level, stripe_size, sizes]: the arrays that are set up
          MaxRaidWrites   \* bound: sectors written

VARIABLE r

RaidValues == 0 .. 1
Xor(a, b) == (a + b) % 2

(* ----------------------------------------------------------------- layout *)
raid0_disk_for_sector(s) == (s \div r.stripe_size) % r.num_disks
raid0_physical_sector(s) == ((s \div r.stripe_size) \div r.num_disks) * r.stripe_size + (s % r.stripe_size)
raid5_parity_disk(stripe) == r.num_disks - 1 - (stripe % r.num_disks)
raid5_data_disk(s) ==
    LET parity == raid5_parity_disk(s \div (r.num_disks - 1))
    IN CHOOSE i \in (0 .. r.num_disks - 1) \ {parity} :
         Cardinality((0 .. i - 1) \ {parity}) = s % (r.num_disks - 1)
raid5_physical_sector(s) == s \div (r.num_disks - 1)

DataDisk(s) == CASE r.level = 0 -> raid0_disk_for_sector(s)
                 [] r.level = 1 -> 0
                 [] r.level = 5 -> raid5_data_disk(s)
DataSector(s) == CASE r.level = 0 -> raid0_physical_sector(s)
                   [] r.level = 1 -> s
                   [] r.level = 5 -> raid5_physical_sector(s)
\* block_write, and block_read, of a sector past the disk's end panic.
OnDisk(i, p) == p < r.sizes[i + 1]
RaidPanic == [r EXCEPT !.kernel = "panicked"]

(* -------------------------------------------------------------- operations *)
TotalSectors(level, n, min) == CASE level = 0 -> n * min
                                 [] level = 1 -> min
                                 [] level = 5 -> (n - 1) * min
raid_init ==
    /\ r.kernel = "boot"
    /\ LET n == Len(r.sizes)
           total == TotalSectors(r.level, n, Min({r.sizes[i] : i \in 1 .. n}))
       IN r' = IF n < 2 \/ (r.level = 5 /\ n < 3) THEN RaidPanic
               ELSE [r EXCEPT !.kernel = "up", !.num_disks = n, !.total_sectors = total,
                              !.ref = [s \in 0 .. total - 1 |-> 0]]

raid_read(t, s) ==
    /\ r.th[t].pc = "idle"
    /\ r' = IF ~OnDisk(DataDisk(s), DataSector(s)) THEN RaidPanic
            ELSE [r EXCEPT !.th[t].got = r.disk[DataDisk(s)][DataSector(s)], !.th[t].sector = s, !.th[t].pc = "read"]
RaidReadDone(t) == r.th[t].pc = "read" /\ r' = [r EXCEPT !.th[t].pc = "idle", !.th[t].got = 0, !.th[t].sector = 0]

Overlaps(s) == \E u \in RaidUsers : /\ r.th[u].pc \notin {"idle", "read"}
                                    /\ r.level # 0 /\ DataSector(r.th[u].sector) = DataSector(s)
\* raid_write up to its first transfer.
raid_write(t, s, v) ==
    /\ r.th[t].pc = "idle" /\ r.writes > 0
    /\ r' = [r EXCEPT !.writes = @ - 1, !.raced = @ \/ Overlaps(s),
                      !.th[t] = [pc |-> IF r.level = 5 THEN "old data" ELSE "put", sector |-> s, new |-> v,
                                 next |-> 0, old |-> 0, got |-> 0]]
Put(x, i, p, v) == [x EXCEPT !.disk[i][p] = v]
NewParity(w) == Xor(w.got, Xor(w.old, w.new))
\* The transfers of the three levels, in the order of the code.
RaidStep(t) ==
    LET w == r.th[t]
        p == DataSector(w.sector)
        parity == raid5_parity_disk(w.sector \div (r.num_disks - 1))
        done(x) == [x EXCEPT !.th[t] = [pc |-> "idle", sector |-> 0, new |-> 0, next |-> 0, old |-> 0, got |-> 0],
                             !.ref[w.sector] = w.new]
    IN r' = CASE ~OnDisk(DataDisk(w.sector), p) -> RaidPanic
              [] w.pc = "put" /\ r.level = 0 -> done(Put(r, DataDisk(w.sector), p, w.new))
              [] w.pc = "put" /\ r.level = 1 ->
                   LET x == Put(r, w.next, p, w.new)
                   IN IF w.next + 1 = r.num_disks THEN done(x) ELSE [x EXCEPT !.th[t].next = @ + 1]
              [] w.pc = "old data" -> [r EXCEPT !.th[t].old = r.disk[DataDisk(w.sector)][p], !.th[t].pc = "old parity"]
              [] w.pc = "old parity" -> [r EXCEPT !.th[t].got = r.disk[parity][p], !.th[t].pc = "data"]
              [] w.pc = "data" -> [Put(r, DataDisk(w.sector), p, w.new) EXCEPT !.th[t].pc = "parity"]
              [] w.pc = "parity" -> done(Put(r, parity, p, NewParity(w)))

(* ----------------------------------------------------------- specification *)
RaidInit ==
    \E a \in RaidArrays :
      r = [kernel |-> "boot", level |-> a.level, stripe_size |-> IF a.stripe_size > 0 THEN a.stripe_size ELSE 1,
           sizes |-> a.sizes, num_disks |-> 0, total_sectors |-> 0, writes |-> MaxRaidWrites, raced |-> FALSE,
           ref |-> <<>>,
           disk |-> [i \in 0 .. Len(a.sizes) - 1 |-> [p \in 0 .. a.sizes[i + 1] - 1 |-> 0]],
           th |-> [t \in RaidUsers |-> [pc |-> "idle", sector |-> 0, new |-> 0, next |-> 0, old |-> 0, got |-> 0]]]
RaidNext ==
    \/ raid_init
    \/ /\ r.kernel = "up"
       /\ \E t \in RaidUsers :
            \/ r.th[t].pc \notin {"idle", "read"} /\ RaidStep(t)
            \/ RaidReadDone(t)
            \/ \E s \in 0 .. r.total_sectors - 1 : raid_read(t, s) \/ \E v \in RaidValues : raid_write(t, s, v)

(* -------------------------------------------------------------- properties *)
\* A sector nobody is writing reads as it was last written: no two logical
\* sectors share a place, and parity overwrites no data (raid.c's layout).
RaidReadsLast ==
    r.kernel = "up" => \A s \in 0 .. r.total_sectors - 1 :
      ~OnDisk(DataDisk(s), DataSector(s)) \/ r.raced \/ (\E t \in RaidUsers : r.th[t].pc \notin {"idle", "read"} /\ r.th[t].sector = s)
        \/ r.disk[DataDisk(s)][DataSector(s)] = r.ref[s]

\* With no write under way a lost disk can be rebuilt: mirrors agree, and each
\* stripe adds up to zero, after any interleaving of writes to other stripes.
RaidRedundant ==
    r.kernel = "up" /\ ~r.raced /\ (\A t \in RaidUsers : r.th[t].pc \in {"idle", "read"}) =>
      \A p \in 0 .. Min({r.sizes[i] : i \in 1 .. r.num_disks}) - 1 :
        /\ r.level = 1 => \A i \in 0 .. r.num_disks - 1 : r.disk[i][p] = r.disk[0][p]
        /\ r.level = 5 => Cardinality({i \in 0 .. r.num_disks - 1 : r.disk[i][p] = 1}) % 2 = 0

\* No sector of the array lies past the end of a disk, if whole stripes fit on
\* the smallest disk (raid.c: total_sectors; block.c: check_sector).
RaidOnDisks == (\A s \in 0 .. r.total_sectors - 1 : OnDisk(DataDisk(s), DataSector(s)))
               \/ (r.level = 0 /\ Min({r.sizes[i] : i \in 1 .. r.num_disks}) % r.stripe_size # 0)

\* The array is exact: sectors read as last written, a lost disk can be rebuilt
\* and no sector lies past a disk's end (raid.c).
RaidExact == RaidReadsLast /\ RaidRedundant /\ RaidOnDisks
=============================================================================
