------------------------------- MODULE MCParts -------------------------------
(* Small instances of the disk array, the allocators, the RISC-V port's     *)
(* disk driver and page tables, the hash table and the streams.  They do    *)
(* not share state: a behaviour is one of them, chosen at first, while the  *)
(* others stay in an initial state.                                         *)
EXTENDS Raid, Memory, Virtio, Stdio, PageTable, UserHeap, HashTable

VARIABLE part
vars == <<r, m, v, fp, p, h, ht, part>>

A(l, z, sizes) == [level |-> l, stripe_size |-> z, sizes |-> sizes]
Arrays == {A(0, 2, <<2, 3>>), A(0, 1, <<2, 2, 1>>), A(0, 2, <<3, 3>>), A(0, 2, <<2, 2>>), A(1, 0, <<2, 2>>),
           A(5, 1, <<2, 2, 2>>), A(5, 1, <<2, 2>>), A(1, 0, <<3>>)}

\* Slots without the device, with one that cannot be used, and with a good one.
Blk == [magic |-> TRUE, version |-> 2, device_id |-> "blk", max_size |-> 8, ready |-> FALSE, features_ok |-> TRUE]
SlotSets == {<<[Blk EXCEPT !.magic = FALSE], [Blk EXCEPT !.device_id = "net"], [Blk EXCEPT !.version = 1, !.features_ok = FALSE]>>,
             <<[Blk EXCEPT !.ready = TRUE], [Blk EXCEPT !.features_ok = FALSE], Blk>>,
             <<[Blk EXCEPT !.max_size = 0], [Blk EXCEPT !.version = 3], [Blk EXCEPT !.device_id = "none"]>>}

Contents == {<<>>, <<1, 0, 1>>}
Vas == {<<0, 0, 0>>, <<0, 0, 1>>, <<0, 1, 0>>}
TwoClasses == <<2, 4>>
Objects == {<<0, 1>>, <<0, 2>>, <<1, 1>>, <<2, 1>>, <<3, 1>>, <<5, 1>>}

Init == /\ part \in {"raid", "memory", "virtio", "stdio", "pagetable", "heap", "hash"}
        /\ RaidInit /\ (part # "raid" => r.level = 5 /\ Len(r.sizes) = 3)
        /\ MemInit
        /\ VirtioInit /\ (part # "virtio" => v.slots = CHOOSE x \in VirtioSlots : TRUE)
        /\ StdioInit /\ (part # "stdio" => fp.mode = "w" /\ fp.nomem)
        /\ PtInit /\ (part # "pagetable" => p = Nothing)
        /\ HeapInit /\ HashInit
Next == \/ part = "raid" /\ RaidNext /\ UNCHANGED <<m, v, fp, p, h, ht, part>>
        \/ part = "memory" /\ MemNext /\ UNCHANGED <<r, v, fp, p, h, ht, part>>
        \/ part = "virtio" /\ VirtioNext /\ UNCHANGED <<r, m, fp, p, h, ht, part>>
        \/ part = "stdio" /\ StdioNext /\ UNCHANGED <<r, m, v, p, h, ht, part>>
        \/ part = "pagetable" /\ PtNext /\ UNCHANGED <<r, m, v, fp, h, ht, part>>
        \/ part = "heap" /\ HeapNext /\ UNCHANGED <<r, m, v, fp, p, ht, part>>
        \/ part = "hash" /\ HashNext /\ UNCHANGED <<r, m, v, fp, p, h, part>>
Spec == Init /\ [][Next]_vars

\* What is handed out belongs to one owner: the kernel's and the user library's
\* allocators (palloc.c, malloc.c, lib/user/malloc.c).
AllocationsExact == KernelHeapExact /\ UserHeapExact

\* What is written to a disk is what is read from it: the disk array and the
\* RISC-V port's driver (raid.c, virtio.c, virtio-blk.c).
StorageExact == RaidExact /\ VirtioExact

\* What was put in under a key is what is found: the RISC-V port's page
\* directories and the hash table (arch/riscv64/pagedir.c, hash.c).
MapsExact == DirectoriesExact /\ HashExact
==============================================================================
