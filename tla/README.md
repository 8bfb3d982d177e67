# A verification development of NiFAT32

NiFAT32 is a FAT32-like file system in C that is meant to survive bit upsets:
its tables, entries, journals and error records are kept in several copies and
in a Hamming code. This directory holds TLA+ modules translated from its source
(`src/` below is the repository), the TLC configurations that check them on
small instances, and TLAPS proofs of what holds for every size. `PROJECT.json`
maps every definition to the lines it stands for.

To check a run: `tlc -workers 2 -config <cfg> <module>`, with the pairs listed
under *Runs*. To check the proofs: `tlapm <module>Proofs.tla`.

## 1. Inventory

| Part | State | Operations | Used by |
| --- | --- | --- | --- |
| Spin lock, `std/threading.c` | one word per lock: reader count, write flag, owner | require / release, read / write | everything below |
| Disk, `src/disk.c` | `_io_guard.areas`, a few locked sector ranges; the driver callbacks | read, write, copy a range of sectors | FAT, clusters, journal, errors |
| FAT, `src/fat.c` | copies of the table on disk; `_fat`, its cache | `read_fat`, `write_fat`, load at mount, repair pass, unload | clusters, entries, API |
| Bitmap, `src/fatmap.c` | `_bitmap`, one bit per cluster | set, unset, find free | FAT, allocator |
| Clusters, `src/cluster.c` | `last_allocated_cluster`, allocator lock | allocate, free one, free a chain, read / write / copy data | entries, API |
| Entries, `src/entry.c` | directory clusters on disk | search, add, edit, remove, iterate, index | API |
| Journal, `src/journal.c` | records in a few sectors; `_journal_index` | add, solve, restore at mount | entries, API |
| Content table, `src/ctable.c` | 50 handles with a copy of the entry each | allocate, set up, destroy, index | API |
| Entry cache, `src/ecache.c` | a red-black tree per indexed directory | insert, find, delete, free | entries |
| Error ring, `src/errors.c` | ring of codes and its indices, in RAM and in sectors | register, take the oldest, load at mount | all |
| Heap, `std/mm.c` | a pool of blocks | malloc with coalescing, free | FAT, bitmap, entry cache |
| API, `nifat32.c` | `_fs_data`, the API lock | mount, open, read, write, put, copy, truncate, change, delete, repair | callers |
| Boot sectors, `nifat32.c` | copies on disk; the geometry in `_fs_data` | choose one at mount, heal the others, repair | API |
| Formatter, `formatter/` | a volume image; `fat_table` while it runs | write boot sectors, journals, errors, root, files, FATs | makes what a mount finds |
| Codes, `std/hamming.c`, `std/checksum.c` | none | encode, decode, hash | FAT, entries, journal, errors |

How they interact. Every public call takes the API lock and then calls down:
entries use clusters, journal and FAT; clusters use FAT and bitmap; all of them
end in the disk layer, which takes an area lock per transfer. The FAT, the
bitmap, the allocator, the journal, the content table, the error ring and the
heap each have a lock of their own. `cluster.h`, `fat.h` and `disk.h` promise
thread safety for themselves, and two public calls leave the API lock before
they run (`FS_API_RETURN` releases it before it evaluates its argument,
nifat32.c:189 and 746), so the lower layers are modelled as concurrent.

What is hard here:

* *replication*: copies that disagree, an even number of them, a copy that
  cannot be read, a repair that may spread the wrong word;
* *three records of one fact*: the FAT on disk, its cache and the bitmap;
* *power loss* between any two sector writes, in a mount and its replay too;
* *spin locks with a time limit*: every caller may come back empty-handed, also
  from an unlock (`_unlock_area`);
* *walks over damaged chains*: cycles, cross links, entries out of range;
* *a search tree whose root moves*: whoever keeps an old root walks a part of it;
* *a fixed pool of memory*, split and merged between the FAT cache, the
  bitmap and the index;
* *places computed twice*, by the formatter and by the library, and scattered by a
  hash that knows nothing of the other structures;
* *edges*: the slot after a reused one, a journal larger than its sector, an
  offset of exactly one sector, owners cut to 16 bits.

What makes each part correct, in short: a lock excludes and is not lost; a
range is never read and written at once, and a slot is given back for each one
taken; the FAT is an array of registers; a cluster belongs to one file at most
and a file is a whole chain that reads back what was written to it; a directory is a map of names that a power loss
leaves as it was or as the call would have left it, and no name leads to free
clusters; the index answers as the directory on disk does; heap blocks cover the
pool and each belongs to one user; the errors are a bounded queue; a mount skips
only copies that are beyond correction; an image holds each structure in a place of
its own, and the geometry read from it fits its tables. `PROJECT.json` lists the hazards one by one, with their lines and the
properties that cover them.

## 2. Modules

| Module | Models | Its steps |
| --- | --- | --- |
| `RWLock` | what `threading.h` promises | acquire, release |
| `ThreadLock`, `MCThreadLock` | `std/threading.c` | each load and each compare-and-swap |
| `ThreadLockProofs` | proofs | |
| `DiskGuard`, `MCDiskGuard` | `src/disk.c` | lock, one sector transfer, unlock |
| `DiskGuardProofs` | proofs | |
| `FatRegister` | what `fat.h` promises | read, begin / end of a write, a torn write |
| `FatTable` | `src/fat.c`, `src/fatmap.c`, the cache part of mount and unload | one copy read or written, vote, end, sweep steps |
| `FatTableProofs` | proofs | |
| `ClusterChain`, `MCClusterChain` | `src/cluster.c`, `_add_cluster_to_chain` | each FAT call |
| `ClusterChainProofs` | proofs | |
| `Content`, `MCContent` | `src/ctable.c` and the calls of `nifat32.c` on files | each public call |
| `ContentProofs` | proofs | |
| `DirMap` | what a directory promises | begin, take effect, done, fail |
| `Directory`, `MCDirectory` | `src/entry.c`, `src/journal.c`, the calls of `nifat32.c` that drive them, mount | each disk write |
| `DirectoryProofs` | proofs | |
| `Heap` | `std/mm.c` | operators on the blocks |
| `EntryCache` | the tree operations of `src/ecache.c` | operators on the nodes |
| `DirIndex`, `MCDirIndex` | `src/ecache.c` on `std/mm.c`, as `entry.c`, `ctable.c` and `nifat32.c` use them | each turn of a loop of malloc, insert and delete; public calls |
| `DirIndexProofs` | proofs | |
| `Hamming` | `std/hamming.c` | operators on a word |
| `ErrorQueue` | what `errors.h` promises | put, take |
| `ErrorRing` | `src/errors.c` | operators on the ring |
| `Mount`, `MCMount` | `NIFAT32_init`, `NIFAT32_repair_bootsectors`, `NIFAT32_get_last_error`, registrations | one attempt of a mount in three steps, each other call, an upset, a restart |
| `Layout`, `MCLayout` | `formatter/`, the geometry part of `NIFAT32_init` | one round of the size search, one structure or cluster written |
| `VolumeProofs` | proofs about `Layout` and `Mount` | |

The layers are composed by their promises: `FatTable` shows that the copies act
as an array of registers (`FatRegister`), and `ClusterChain` takes one register
access as one step; `ThreadLock` shows that the word acts as a reader/writer
lock (`RWLock`), and the other modules take a locked section as such. `Content`
rests on all of them: links read right, an allocation gives some free cluster or
refuses, a directory finds, adds, removes and spoils entries by name. `DirIndex`
composes the tree with the heap and with what the directory on disk holds, `Mount`
the boot sectors with the code and the error ring, and `Layout` the formatter with
the library. Where a question depends on what a volume and its callers are like,
the specification has a variable `world`, chosen at the start from the constant
`Worlds` and never changed; the properties that need a calm world say so.

**ThreadLock.** `lock` is the word with its three fields, `READERS` and `OWNERS`
their moduli. `pc`, `old_val` and `delay` are the locals of each thread's call,
`held` is history: what the thread has acquired. Locks are not taken twice and
a read lock is released by a holder; anybody may call `THR_release_write`
unless `Disciplined`. `THR_release_read` of an unheld lock is not called.

**DiskGuard.** `_lock_area` and `_unlock_area` run under the guard's lock and
are one step each; sector transfers are steps, so other threads go on between
them. The end of a loop and a failed transfer are the same step (`ReadEnd`,
`WriteEnd`, `CopyEnd`): both unlock. A call whose first lock is refused changes
nothing and has no step. `seen` (the disk when the source was locked) and
`lost` (slots whose unlock timed out) are history.

**FatTable.** One operation runs at a time, as the FAT lock has it, and one
sweep (load or repair), which takes the lock per cluster. `truth[c]` is history:
the values entry `c` may legitimately read as. It has one member unless a power
loss cut a write short; then it has every word stored at that moment. With
`MinorityOnly` faults leave the good copies of a settled entry in the majority
(`Tolerable`); without it anything may fail. A mount chooses its cache mode from
`CacheModes`. Left out: two sweeps at a time, lock timeouts of the bitmap and of
unload. A user call that does not get the FAT lock changes nothing.

**ClusterChain.** Each thread keeps one file (`head`, `tail`), grows it as
`NIFAT32_put_content` and `_add_cluster_to_chain` do, and drops it with
`dealloc_chain`. `mine`, `lost`, `freeSince` and `report` are history. The world has
the threads that call (`callers`), the offsets they give (`hints`), the mode of the
bitmap (`map`), the clusters whose entries hold arbitrary words (`damaged`), and
whether a read may come back BAD without reason or a write fail with its word stored
or not (`faults`). `Calm` is a clean table without failing writes, `Faultless` one
without failing reads as well.

**Content.** `table` is `_content_table`, a handle with the copy of the entry it
was opened with; `entries` is what the directories show, `fat` and `data` are
the chains and their cells, a cell standing for a sector. A call is one step, as
the API lock has it; its loop over the chain is a function (`Loop`, `Byte`).
`world`, chosen from `Worlds`, says what a volume meets: the calls `"trunc"`,
`"meta"`, `"deep"`, `"link"`, and the faults `"io"` (a transfer fails; `Kept`
says which bytes are then on disk: a prefix in the old chain, all but a part of
one cluster in new ones, whose failures nobody looks at), `"add"` (`entry_add`
fails), `"front"` (a truncation from behind the first cluster). `stale` marks
handles whose clusters another call gave back: callers do not use them, nor
handles they closed. A truncated or changed entry is not found again (no
checksum), which `Directory` models as INVALID and this module as a missing
entry. Directories are open all the time; handles of directories, paths, the
creation of directories and the index are left out. Offsets may lie behind the end of a
file: a read answers 0 there (section 5), a write lets the file grow.

**Directory.** `slots` are the entries on disk, `image` is the cluster a call
writes back, sector after sector; `journal` holds the records. `alloc` is the set of
allocated data clusters. The world has the calls made (`ops`), the faults met
(`"crash"`, `"write"`, a failing sector write of an entry or a record, or
`"rewrite"`, a search whose own write-back fails in `entry_iterate`), whether the
driver takes a transfer of no bytes (`empty`), and how many records fit the
journal's sector (`whole`): the one across its end is cut, those behind it are lost.
One call runs at a time under the API lock. `call` survives the crash as history
only, for the refinement. Left out: subdirectories and the recursive erase, shallow
copies, handles that outlive their entry, FAT and cluster reads that fail, the
copies of a journal record. Slots of an unused cluster hold END or INVALID; a
cluster freed by an old directory may in truth hold its entries, which `entry_add`
does not blank.

**DirIndex.** `blocks` maps the offset of a block in the pool to its header; `nodes`
maps the offset of a block to the tree node in it; `root`, `x`, `y`, `z` are the
locals of the running `ecache_insert` or `ecache_delete`, whose rotations change
`root` while `stored`, the root of the handle or of the caller, lags behind. There
are two callers. The `"library"` mounts with a FAT cache and, or not, a bitmap (`CacheDone`), indexes a directory, puts,
removes, closes and unloads as the public calls do: `entry_add` discards the
returned root, and no call deletes from the index. The `"keeper"` uses `ecache.h`
directly, keeps every root, and deletes, as the unit test does. `drift` has the names
the index may know although they are not on disk; `broken` says that a root has been
lost, or that a node with two children was deleted (see section 5): from then on the
colours and the reachability of nodes are not promised, names still are. `map` is the
bitmap's block: nothing ever frees it, and a mount keeps the one there is. A name
stands for its hash. Sizes are counted in units of the alignment.

**Mount.** A boot sector is two encoded bytes, the geometry and a checksum that is
different for different geometries, so that an upset of a word is corrected,
miscorrected or caught as in the code. An attempt (`Begin`, `Setup`, then `Accept`,
`Reject` or `ReadFails`) holds the API lock, between two attempts other calls may
run. The ring's entry 0 is looked for before the geometry is known: `astray` is what
is found there. `intact` is history: the ring has been in order since it was loaded.
Reads and writes of an entry fail copy by copy: `_read_error` passes over the copies in
`U` (`Heard`, `Count`), and what it writes back misses those in `F`. With one copy damaged and another
unreadable the vote may elect the damaged word: `Misread`, the exception in
`RingIsQueue`.

**Layout.** The scattered places are computed as in `addresses.h` and
`nifat32formatter.h`, with products of 32 bits in two halves. A region is an interval
of sectors with what was written there. `phase` is the line `main` is at; a write that
fails ends the writer. Files stand for the clusters they need. What is inside a
structure is left out, so is the parsing of options; but the byte that holds the sectors
per cluster is kept (`Byte`).

## 3. Runs

| Run | Module, configuration | Question | Bounds |
| --- | --- | --- | --- |
| `lock_owners` | MCThreadLock, ThreadLock_owners | exclusion, exact word, refinement of RWLock, calls return | 3 threads, ids wider than `owner_t`, one of them equal to NO_OWNER, 2 readers, 2 rounds |
| `disk_locks` | MCDiskGuard, DiskGuard_locks | area locks, atomic reads, faithful copies, slots | 3 threads, 2 sectors, 3 slots, guard timeouts |
| `fat_modes` | FatTable, FatTable_modes | registers, vote, durable writes, healing, cache, bitmap, passes end | 4 copies, one entry and one cluster below the root, 3 words, 3 cache modes, remounts, torn writes, minority faults |
| `chain_calls` | MCClusterChain, ClusterChain_calls | ownership, whole chains, leaks, refusals, every call ends on any table | 4 clusters, one BAD; 2 threads with a loaded bitmap, or 1 thread on 2 or 3 clusters of arbitrary words with failing reads or writes |
| `dir_calls` | MCDirectory, Directory_calls | additions refine DirMap; with removals and edits no dangling or shared cluster; settled journal | 3 names, 4 data clusters, 2x3 slots, 2 records; 2 power losses or failing writes; sectors for 0, 1 or 2 records |
| `dir_reuse` | MCDirectory, Directory_reuse | does an addition keep the others? (violated) | 3 slots per cluster, no faults |
| `content_calls` | MCContent, Content_calls | whole files, leaks, exact reads and writes | 3 clusters of 2 cells, 2 handles, 2 directories, 1 name, offsets 0 to 3, sizes 1 and 3, 2 changing calls, 6 worlds |
| `index_heap` | MCDirIndex, DirIndex_heap | heap covered, owned, refusals honest; lookups exact; red-black | 4 names through the library, 5 through a keeper; a pool of 18 units, nodes of 2, FAT caches of 3 and 5, bitmaps of 1 |
| `index_put` | MCDirIndex, DirIndex_put | does a put into an indexed directory return? (violated) | 6 names |
| `mount_calls` | MCMount, Mount_calls | error queue, choice and healing of boot sectors | 2 boot sectors, 3 copies of a ring of 5 entries of which a sector holds 3, 2 codes; 3 bits of a word and up to 3 upsets, one faulty operation, in one world two, with any of the copies failing; 7 worlds |
| `layout_formats` | MCLayout, Layout_formats | sizes settle, structures apart but for one named overlap, geometry fits | 91 formats: those of the documentation and of the sweeps of `test/README.md` (1 to 16 FATs, 1 to 32 boot sectors, 0 to 32 of 32 broken), and 9 that collide, loop or are odd; 2 files of up to 2 clusters |
| `layout_fats` | MCLayout, Layout_fats | does the library find the FATs? (violated) | the 82 of the documentation and the sweeps |

Why these bounds suffice to meet the interesting cases: a tie needs an even
number of copies, four leave room for one fault and for torn writes to tie;
a cycle, a cross link and a link out of range fit three clusters with arbitrary words; a partial overlap of ranges needs two
sectors and two counts, a lost copy lock three threads; a replay that is
interrupted and repeated needs two power losses; a slot at a sector boundary
needs one slot per sector, which also makes every cluster write interruptible.
Offsets 0 to 3 with clusters of two cells start before, on and behind a cluster
boundary, size 3 crosses one, and three clusters let a file grow onto a full volume
while another one exists.
The journal of `dir_calls` fills up because failing writes leave records behind. Four
names make `entry_add` rotate at the root and lose it once, six twice; five hashes
give every case of a deletion. The pool of `index_heap` is small enough for a
refusal, a second try and a merge of three blocks. A ring of five entries in a sector
of fewer fills, wraps and passes the end of its sector; two faulty operations let a damaged
copy meet one that cannot be read in a vote of three; three upsets are one more than a word
can be corrected and caught for. The formats of `Layout` are real ones: sizes,
multipliers and structures are those of the code, nothing is scaled down. One of the
odd ones has 256 sectors per cluster, one more than its byte in the boot sector holds.

Symmetry is used where no step tells the members apart: threads of `DiskGuard`,
names and data clusters of `Directory` (entries are chosen by position, never by
name), clusters and directories of `Content` (allocation gives any free cluster). No run with symmetry checks liveness.

Deadlock is checked except in `disk_locks`, where lost slots may stop all I/O,
as in the code; in the runs of `Directory` and `Content`, where a full
directory on a volume with no power loss left, or a volume full of leaked clusters,
has no call to make (calls that fail without an effect have no step); in those of
`DirIndex`, where a crash by a null pointer is the end; and in those of `Layout`,
where the formatter ends, or fails.

**Fairness.** `ThreadLock`: weak fairness of each thread's step, the scheduler
of any preemptive system. `CallsReturn` needs no more: the loop of a require is
bounded, and nobody else changes a word while a writer releases it. `FatTable`: weak
fairness of the running operation and of the pass; no user is made to call, no fault
to happen. `ClusterChain`: weak fairness of the steps inside a call. On damaged
tables one thread calls, because with two files being freed and allocated at the same
time nothing bounds a walk there. `Layout`: weak fairness of the formatter, a program
that runs on by itself.

## 4. Proofs

| Theorem | Says | Assumes |
| --- | --- | --- |
| `ThreadLockProofs!LockIsExclusive` | a writer is alone | only holders release, or thread ids distinct in 16 bits |
| `ThreadLockProofs!WordIsExact` | count, flag and owner of the word are those of the holders | the same |
| `ThreadLockProofs!ReleasesSucceed` | a holder's release is never refused | the same |
| `ThreadLockProofs!LockRefines` | the word implements `RWLock` | the same |
| `DiskGuardProofs!LocksExclude` | no sector is locked by two threads, one of them for writing | |
| `DiskGuardProofs!SlotsArePaired` | a slot is in use for each lock held and each unlock given up | |
| `DiskGuardProofs!ReadsAreAtomic` | a read returns one moment of the disk | |
| `DiskGuardProofs!CopiesAreFaithful` | a copy reproduces its source as it was | |
| `FatTableProofs!TypeCorrect` | types | |
| `FatTableProofs!MajorityWins` | the vote elects a majority whenever there is one | nothing about faults |
| `FatTableProofs!ReadsAreCorrect` | `read_fat` returns the last value written, the cache agrees | faults in the minority (`MinorityOnly`) |
| `FatTableProofs!TableRefines` | the copies implement `FatRegister` | the same |
| `FatTableProofs!CopiesDoAgree` | a successful write stores its word everywhere, a vote heals | nothing about faults |
| `FatTableProofs!RecordsDoAgree` | cache, bitmap and disk agree | faults in the minority |
| `ClusterChainProofs!ChainTypes` | types | nothing: any table, any faults |
| `ClusterChainProofs!NoSharedCluster` | a cluster has one owner and is not freed under it | the volume is `Calm` (inside the property) |
| `ClusterChainProofs!ChainsStayClosed` | no link leaves its file | the same |
| `ClusterChainProofs!FilesAreWhole` | a file is one chain from head to END, nothing leaks | no damage, no faults (inside the property) |
| `ClusterChainProofs!NoFreeIsMissed` | with a loaded bitmap an allocation is refused only when nothing was FREE | the same |
| `ClusterChainProofs!DeallocIsWhole` | `dealloc_chain` answers 1 only when all is freed | the same |
| `ContentProofs!FilesAreWhole` | types; a file is a whole chain and shares no cluster, and where files are only created, grown and deleted nothing leaks | `Orderly` (inside the property) |
| `ContentProofs!ReadsAreExact` | a read delivers the file's cells from an offset up to its end on, over any cluster boundaries | the same |
| `ContentProofs!WritesAreStored` | a write stores its buffer at the offset, and changes nothing else in any file | `Orderly`, no failing transfer (inside the property) |
| `DirectoryProofs!JournalIsSettled` | types, and no call and no mount leaves a record behind | writes succeed (inside the property) |
| `DirectoryProofs!FilesAreKept` | no entry leads to a free cluster or to another's, across power losses | `NoOldEntries`, `ReplayReaches`; writes succeed and records fit (inside the property) |
| `DirectoryProofs!AdditionsRefine` | additions implement `DirMap` | `NoOldEntries`, `OneFault`; only additions, records fit (inside the property) |
| `DirectoryProofs!AddedIsListed` | an addition that is about to return is found by a search | the same |
| `DirIndexProofs!HeapCovered` | heap blocks cover the pool and do not overlap | |
| `DirIndexProofs!MallocIsComplete` | an allocation is refused only when no stretch of free blocks is as large | |
| `DirIndexProofs!HeapIsOwned` | types; each block in use has one user and is large enough for it; a close frees every node | no root lost, for the last (inside the property) |
| `DirIndexProofs!LookupsAreExact` | a keeper of the root finds what it has put in and nothing else; the library's index names only files | |
| `DirIndexProofs!IndexIsRedBlack` | the colours of the tree are balanced after every insertion and deletion | no deletion of a node with two children, no root lost (inside the property) |
| `VolumeProofs!ClustersAlwaysFit` | every cluster the library counts has an entry in the table as written and lies on the volume | fewer than 256 sectors per cluster |
| `VolumeProofs!GeometryIsThatOfImage` | no number of the formatter goes below zero; the library finds the root and each file where the formatter put them | fewer than 256 sectors per cluster, for the first part of the geometry; eight, for the files (inside the property) |
| `VolumeProofs!SingleUpsetsAreCorrected` | a word of the Hamming code reads right whichever one bit of it was hit | |
| `VolumeProofs!CopiesAreJudged` | a mount skips only a spoilt copy, and believes no wrong geometry | no more than three upsets |
| `VolumeProofs!BootsAreHealed` | nothing the library does spoils a readable copy; a mount from a reserved copy heals all | the same |
| `VolumeProofs!RingStaysInOrder` | types; indices stay in the ring, and the copies agree on every pending error | three copies of the errors or more |
| `VolumeProofs!RingIsAQueue` | between two loads the errors are a queue: steps of `ErrorQueue`, or its oldest is taken and answered as the damaged word, where copies dissent and a transfer fails (`Misread`) | the same |

They hold for any number of threads, copies, clusters, words, readers, rounds,
sectors, slots, handles, names, entries, offsets, records, error codes and power losses,
any cache or bitmap mode, any pool, header and request, any format (for the two theorems on
geometry, one whose sectors per cluster fit their byte).

The premises on constants, and what happens without them:

* `Disciplined \/ DistinctOwners`: a thread releases only what it holds, or ids do not
  collide in the owner field. Otherwise a stranger may open the lock, by design of
  `THR_release_write`.
* `MinorityOnly`: faults leave the good copies of a settled entry in the majority.
  Otherwise no vote can tell.
* `NoOldEntries`: the slots of an unused cluster hold no valid entry. `entry_add` does
  not blank a cluster it appends, so one freed by an old directory shows its entries
  again (section 2).
* `ReplayReaches`: where files are removed the driver takes a transfer of no bytes.
  Otherwise the replay of a removal at a sector boundary is skipped (section 5) and the
  entry stays without its cluster.
* `OneFault`: a volume that only adds meets power losses or failing writes, not both. A
  record that a failing write left behind would be replayed over a later file.

* No more than three upsets: two bits of one word may be miscorrected into another word,
  which the checksum catches as long as the other word can be read; with two wrong bits in
  each, data and checksum may come out as a geometry that was never formatted.
* `ErrorCopies >= 3`: of two copies a damaged one cannot be outvoted.
* `spc < 256`: the boot sector stores the rest modulo 256, and the library mounts another
  geometry (section 5).

The worlds of `dir_calls` satisfy the three premises on directories, those of
`mount_calls` the next two; `layout_formats` has a format outside of the last one.

*The lock.* `WordExact` alone is not inductive: between load and swap a thread
knows that the word it loaded was fit (`Knows`). If the swap succeeds the word
is unchanged, so `WordExact` turns that knowledge into a fact about the holders. The
same invariant shows that a release never meets a word it refuses.

*Area locks.* `_unlock_area` looks for a slot by its range, so a thread may free the
slot of another reader of that range, and no invariant can say whose a slot is.
`SlotInv` counts instead: slots that overlap are read-only (`Apart`), for each range and
kind there are at least as many slots as holders (`Backed`), and all in all there are
as many as locks and lost unlocks (`Balanced`). Two holders of one sector then have two
different slots, or share a reader's. That reads are atomic needs, on top of that,
what a thread has seen so far (`Place`): a sector under somebody's read lock does not
change.

*The vote.* `VoteInv` bounds the counter after each round by how often each word
was seen, for the candidate and for the others; at the end a majority leaves
no room for another candidate. It relies on the word *not* being counted when
it becomes the candidate, which is how the code's counter works.

*Reads.* `Sound` says that good copies outnumber the others on disk, in what the
running vote will see and in what the running write will leave; `LoopInv` says
the candidate was read from some copy. Crashes in the middle of a write leave
`truth` with all words stored, and the first read that settles shrinks it. Under the
mapping of `TableRefines` the register takes a value when the copies are written, not
when the call returns, and a repair is no step at all.

*Copies and records.* That all copies agree after a call is a matter of the call alone
(`CallInv`): which copies it has read or written so far, and that nothing disturbed it.
It needs no bound on faults. `RecordsAgree` is not inductive because the bitmap is wrong
until `fat_cache_hload` has passed: `PassInv` says it is right behind the pass, `Chart`
that it is right everywhere once the pass is over and while writes mark it.

*Ownership.* `Exclusive` is not inductive: that a cluster is still FREE when it
is reserved needs the allocator lock and everybody else's good behaviour; that
`dealloc_chain` frees only its own clusters needs the shape of the chain: links
stay in the file, no two meet, none leads to where the walk is. With failing FAT
writes it does not hold, see below. `ChainTypes` has an invariant of its own, because
it must hold on damaged tables too: there the walk may read any word, and the scan
any number.

*Whole chains.* Without faults more is known (`WholeInv`): at each step of an append
or a walk a certain set of clusters is a chain (`Shape`), that is, its clusters can be
numbered so that each links to the next and the last is END. An append extends the
numbering, a walk drops its first number; nothing else is needed of it but that
only a cluster's own entry matters (`ChainFrame`). `Reach` is a recursive
function: the set of the first `n` clusters solves its equation, and a least-number
argument shows that nothing else does (`ReachIsChain`); a chain is never longer than the
volume has clusters, so `TotalClusters` steps reach its end. For `NoMissedFree` a loaded
bitmap is exact (`Mapped`) and its offer is still FREE under the allocator lock when it is
read (`Probing`): the scan with its gaps begins only when there is nothing to find.

*Files and handles.* The heads of files, which entries and usable handles name, begin
chains that do not meet, and no two entries name the same head (`Apart`): without the
last a deletion would take a second entry's file with it. That a usable handle's head is
still a head rests on the history of stale handles, and that nothing leaks on the
handle's entry being there (`Settled`). Each call reshapes one chain at most
(`Reshaped`, `Regrown`, `Reduced`). `Chain` and `Loop` are recursive functions; they are
given a solution without recursion (a sequence that links and ends, `ChainIs`, and what
is left behind `k` clusters, `LoopIs`) and shown to have no other one by the least number where
two would differ. Reads and writes then speak of places: a byte's is its offset in
the file, and a place has one cell (`PlacesDiffer`). `ReadsAreExact` needs no more than
types, so it holds of broken chains as well.

*The directory.* A search stops at END, but a write that was torn may bring back what is
behind it, so the invariant speaks of all cells, hidden ones included: no two lead to
one cluster (`Distinct`), and an entry is without its cluster only while its removal is
recorded (`Held`). There is one record at most and it may be replayed at any time,
also twice (`Recorded`). For the refinement files fill the cells in their order
(`Prefix`), and the cell of the call is at the edge of that prefix (`Edge`): writing the
cluster sector after sector then makes the file appear in exactly one of these writes.

*The heap.* `Tiled` (blocks are chained by offset, each ends where the next begins,
the last at the end of the pool) is inductive once requests are known to be positive
and FAT caches and bitmaps to have a size (`Sized`). One lemma per operation: taking a block whole
or split, merging a pair, freeing a set. That a refusal is honest needs that after the
merge no two neighbours are free (`Merged`): a stretch of free blocks is then one block.

*The index.* `Below`, `Minimum` and `Path` are closures, the least sets that follow links,
and no induction over data is to be had. The proofs therefore carry the set below each
node along (`sub`): `Shaped` says that it is the node with the sets below its two children,
which do not meet, and that parents and children point at each other; `Sorted` that the sets
lie on the side of the hash; `Rules` that all nodes are below one root. Each operation (a
rotation, a new leaf, a removal with one child or by the successor) has a lemma that says
what it does to the links and one that says what the sets are afterwards. What is below a
node is its set (`BelowIsSub`), because of all sets that are wrong the smallest
would have a wrong one below a child; so does the search find what is there (`PathFinds`).
`LookupExact` and `Owned` speak of idle moments; between two turns of a loop `Inv` says
where the locals point (`Cursors`), that a node on its way down is loose and where it belongs
(`Going`), which names the nodes know (`Known`), and that the heap and its users agree
(`Held`). Of the library's index after its root was lost only `Shaped` is
kept, and that is enough: it never loses a block and never names what it was not told.
`_allocated` counts bytes, so a sum over the blocks is the size of a set of numbers
(`Ground`), which needs no induction either.

*The colours.* How many black nodes are above an empty place is again a count along a path.
The proof instead gives each node the weight of the ways down from it (`Even`): it is one
number, the same over both children, or one less on the side that a repair still owes. The
invariant (`Colours`) says what each loop has left to do: in `_fix_insert` the node `z` is red
and may alone have a red parent (`Reddened`); in `_fix_delete` the ways over `x` are one too
light (`Short`), and after the first rotation `x` and its sibling are black
(`Shorter`). Each rotation and recolouring has a lemma for the weights and one for
the red nodes (`SwapEven`, `SwapCalm`, ...), and when a loop ends nothing is left
(`Balanced`). Going down from the root, the black nodes above a node and the
weight below it add up to the weight of the root (`WaysAreCounted`): of the nodes where
they do not, the one with most below it would have a parent where they do not. The
deletion of a node with two children is left out: there the code may unbalance the tree.

*The geometry.* `_calculate_fat_size` stops when a guess repeats; that the guess is
then large enough (`Settled`) does not depend on how the loop came there. Rounding
up once and down once then leaves an entry for each cluster. The formatter subtracts
unsigned words: that it never goes below zero holds because no guess is larger than the
table of a volume without tables (`Small`), of which 64, the most that `fc` may be,
take half of the volume and 64 sectors.

*The boot sectors.* Each copy is as far from what was formatted, or from a blank one, as
upsets have hit it, at the most (`BootInv`), because the library stores only copies of a
copy that it read right. Flipping a bit turns the checks that run over it, and these
spell its number (`Spelled`): one wrong bit is corrected. Of three upsets one of the two
words of a copy took one at the most, so it reads right, and the checksum then tells
whether the other does. A blank copy is told by weight: its checksum would have to be
eight ones, and no word of three bits or less reads as that (`LightWord`).

*The ring.* `_read_error` counts votes in arrays, modelled as a fold over the copies;
a fold over a sequence is given a solution without recursion and shown to have no other,
again by the least number where they would differ, and so the counters are how often
each word was seen (`VotesAreCounts`). The word that is elected is then one that some
copy shows, and one that all copies show, but for one damaged copy (`Firm`), wins. The
invariant (`Orderly`) says that each pending entry is `Firm` for its error; a damage
takes a copy of an entry only while all of them agree, and a registration that failed on a
copy moves no index. Putting and taking (`PutSlots`, `TakeSlots`) renumber the entries
modulo the length of the ring, which makes what is pending a queue (`Holds`).

`MajorityWins`, `TypeCorrect` and `CopiesDoAgree` also cover `MinorityOnly = FALSE`, where
faults know no bound, which no run does. Where a proof needs the least of a set of
numbers, as for a first free slot, a lemma about subsets of an interval gives it
(`WFMin` of the library), so no induction over data is used.

Only model-checked:

* all liveness (the prover handles neither fairness nor ENABLED);
* `Intact` of `Layout`, which is false of formats in general;
* `AddKeepsOthers`, `PutReturns` and `FatsFound`, which the code violates.

## 5. Disagreements between code and documentation

Shown by a run:

* `dir_reuse`: `entry_add` sets the slot after a reused one to END (entry.c:197).
* `index_put`: `entry_add` discards the root `ecache_insert` returns (entry.c:200); after
  two rotations at the root, with six names in an indexed directory, a put follows a
  null pointer (ecache.c:37; nifat32.h:329-330: "Returns 1 if operation was success.
  Returns 0 if something went wrong.").
* `layout_fats`: below 256 MB, the default of 64 MB included, the formatter and the
  library compute different sectors for the FATs (nifat32formatter.h:60,
  addresses.h:25; formatter/README.md:3: "The image can be used in tests, opened
  through the NiFAT32 library").

Seen while modelling, in the model's behaviours or in the source, without a run:

* fat.c:170: `fat_repair` answers from the cache and repairs nothing on a cached volume
  (fat.h:84: "Iterate entire FAT and repair it with majority voting approach.").
* journal.c:155: the journal counts on a cluster of records and stores one sector: the
  one across its end is cut, later ones are dropped with a success (journal.h:70:
  "Will restore cluster_size / sizeof(journal_entry_t) actions."). With
  `whole < JSlots`, `FilesKept` would fail.
* nifat32.c:330-348: a read from behind the end of a file answers 0 (nifat32.h:245: "If offset
  larger then content size, function will return buff_size."). `ReadExact` leaves these
  offsets out by name.
* nifat32.c:636: a deep copy overwrites the first cluster of the destination and keeps
  the others (nifat32.h:343: "NIFAT32_copy_content will deallocate all previous data in dst.").
* fat.c:143, 187: unreadable copies vote BAD, and a word may be elected that is
  not the most frequent one ("Return most freq. data", fat.h:108).
* cluster.c:70: `get_cluster_offset` always yields the same offset (`entry_offset`
  is never assigned) and the scan never looks below it: a volume is "full" while
  lower clusters are free.
* cluster.c:102: `dealloc_chain` returns 1 at a BAD entry (cluster.h:96-97 says 0).
* nifat32.c:368-372: an append that fails on one copy frees the new cluster and
  leaves the link to it.
* entry.c:60: `entry_iterate` returns the handler's result though the write failed,
  so a removal reports success with its entry still there and its clusters free.
* entry.c:146: `change_meta` and `truncate_content` store an entry without a
  checksum; it is not found any more (modelled: `Edit` leaves INVALID).
* entry.c:207: the journal record of a failed addition stays and is replayed over
  the next one at a later mount.
* journal.c:92: the checksum of a restored entry covers an uninitialised field
  (modelled: `Restored` is the file or INVALID).
* journal.c:122: the replay of a removal writes END, which hides the entries
  behind it.
* disk.c:156 with unix_nifat32.c:46: an entry at a sector boundary is not replayed
  because the first transfer is empty (`world.empty`).
* nifat32.c:222-253: when `entry_add` fails, the path walk goes on with the
  cluster it has just freed.
* nifat32.c:508-523: truncation frees a cluster before it reads its link: with an
  offset of more than a cluster the first cluster is freed and the rest is lost;
  otherwise the tail behind the new end is cut off and never freed.
* nifat32.c:627: a deep copy that fails, or a copy of a file onto itself, frees
  clusters of the destination while its entry stays.
* nifat32.c:240-253: a failing `entry_add` in an open leaves a handle on a cluster
  that is free again.
* ecache.c:256-261: `ecache_delete` tests the colour of `y` after it has overwritten it
  with that of `z`: deleting a node with two children may leave the tree unbalanced, and
  deleting a black root with two red children follows a null pointer in `_fix_delete`
  (entry.h calls the index a "balanced binary tree").
* entry.c:141, 143, 299: edits and removals discard the root as well; nodes that the stale
  root does not reach are not freed at a close (nifat32.h:304).
* nifat32.c:481, 695: the index passed to the entry layer is that of the file's handle, not
  of its directory: a deleted name is still found through the directory's index, and cannot
  be created again.
* entry.c:200: the index learns a name before the entry is written, which may fail.
* entry.c:75, 143, 200: the argument `is_dir` of `ecache_insert` is inverted; lookups
  compare only the hash.
* ctable.c:126: indexing a handle again passes the freed root to `entry_index`;
  `ctable_init` at a second mount forgets indices without freeing them; `fatmap_unload`
  has no caller, so a mount of another volume keeps the bitmap of the first (fatmap.c:8).
* mm.h documents return codes for `free`, which has none.
* nifat32.c:38-42: `errors_setup` runs before `_fs_data` is filled, so entry 0 is looked
  for on a volume of no sectors: with `ec > 0` the first mount of a volume below about
  241 MB fails (README.md:285 uses `.ec = 1`), on larger ones a foreign sector is read, and
  overwritten by the next registration.
* errors.c:101: after a load new errors go to the place of the oldest pending one, and the
  rest is dropped; if the pending ones are taken first, the ring returns codes that were
  never registered (errors.h: "Append a new persistent error code").
* errors.c:125: the ring is as long as a cluster but stored in one sector: with the shipped
  driver nothing can be registered after 63 errors; with another one, codes behind
  the sector read as 0. nifat32.h:390 speaks of the last error, the oldest is returned.
* nifat32.c:154-184: `NIFAT32_repair_bootsectors` writes the size of an array of pointers, and
  so uninitialised bytes into the sector behind each copy; nifat32.c:118-126 copies the
  sector as read, single-bit errors included, and heals nothing when the first copy was good.
* errors.c:60, 77: a vote passes over unreadable copies and writes what it elects over all
  of them: of three copies, one damaged and one unreadable, the damaged word may win and
  replace the error (modelled: `Misread`).
* nifat32formatter.c:224: the option `--spc` is not limited, its field is a byte
  (nifat32.h:74): 256 is stored as 0, and the library divides by 1 (nifat32.c:94). At 64 MB
  it then counts 131024 clusters on FATs of 4 sectors.
* nifat32formatter.c:117: the size search never ends for 252, 509, 766 and 1023 MB.
* nifat32formatter.c:298-340: reserved clusters are counted from sector 0, so no reservation
  covers the structure it is meant for (formatter.c:293: "reserve clusters for bootstructs").
* nifat32formatter.h:59-60: at 64 MB with 8 to 15 FATs a FAT takes 127 sectors, and FAT 7, in
  sectors 57778 to 58031, is written over copy 4 of the boot sector at 58030
  (formatter/README.md:53: "Number of boot sector copies"). test/README.md:66-79 and
  test/collector.sh format these images for their sweep. `Intact` names this overlap and
  shows that there is no other one in the formats of the documentation and the tests.
* nifat32formatter.c:302-354: structures overlap in 96 of the default volumes of 1 to 4095 MB
  (10, 27, 55, 61 MB among them), and with `--bsbc 32`, the end of a sweep in test/README,
  from 256 MB on (at the 64 MB of that sweep they do not).
* nifat32formatter.c:102: a failing `_write_fats` is reported and exits with success;
  nifat32formatter.c:474-476: the encoded root directory is cut to half; files go where
  clusters of eight sectors would be, whatever `--spc`; `--ec` is not parsed; the
  source directory is not copied recursively (formatter/README.md:41).

## 6. Not modelled

A new question joins the run that asks a similar one, as most of the twelve runs show.
What could be added:

* *directories and paths* in `Content` and `Directory`: creation along a path, the
  recursive erase, handles of directories;
* *the copies of a journal record* and the byte-sized `_journal_index`, and calls that run
  outside the API lock (nifat32.c:189, 746), beside calls that hold it;
* *two volumes* mounted one after the other, beside the bitmap and the heap.

Not planned: the Unix front end and the test tools (they only use the library), string and time formatting, logging, and
the builds `NIFAT32_RO`, `NO_THREADSAFE`, `NO_ENTRY_VALIDATION`, `ENTRY_WITH_TIME`.
