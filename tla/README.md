# FCFS in TLA+

FCFS is an encrypted file system: a FUSE driver (`src/fcfs/src`) that keeps files on a block device, and a
formatter (`src/fmtr`). This directory holds TLA+ modules of it, TLC configurations that check them on small
volumes, and TLAPS proofs for volumes of every size.

Contents: [the system](#the-system) · [modules](#modules) · [runs](#runs) · [further configurations](#further-configurations) · [bounds](#bounds) ·
[fairness and deadlock](#fairness-and-deadlock) · [proofs](#proofs) · [findings](#findings) ·
[not modelled](#not-modelled) · [plan](#plan)

## The system

### Layout

A device is a row of blocks: header, cluster bitmap, file table, then clusters. A cluster is one block with the
*cluster table*, which says for each of the other blocks which file owns it and as its how-manieth, and the data
blocks themselves. The *file table* holds for each file identifier a link count and the clusters the file's blocks
lie in: 13 in the entry, further ones in a second-level list that takes a cluster of its own. The *bitmap* has bit 1
for a cluster with no free block. Identifier 0 and cluster 0 belong to the root directory. Block 0 of a file starts
with a header that holds its size; the bytes follow. A directory is a file whose bytes are its entries.

### Components

| component | code | state | operations | what makes it correct |
|---|---|---|---|---|
| space allocator | `dev/common.c`, `dev/ctable.c` | bitmap, cluster tables | find a cluster, wholly free cluster, n blocks; extend a block list; update the bitmap; claim a cluster | bitmap and tables agree; a block goes from free to one file or back; searches end and find what is free |
| file table and cluster lists | `dev/table.c` | file table, second-level lists, one-file cluster cache | count, get, add, claim second level | every block of a file is in a listed cluster; cache = table; a second-level cluster is used for nothing else |
| file operations | `dev/file.c` | table entries, block lists, header | create, reserve, list blocks, size, remove | blocks numbered without gap or duplicate; nothing stays with a removed file |
| directories | `dev/dir.c` | entries | read, write, add, remove an entry | the entries are the files that exist; the directory is never handed out as space |
| block I/O | `dev/read.c`, `dev/write.c` | position of one `FILE *` | block by number on the device or in a file | the block asked for is the block read |
| block list cache | `cache/file_seq.c` | list per identifier | add, get, remove | a cached list is the file's list |
| path cache | `cache/file_id.c` | identifier, mode, size per path | get by path | an entry is current when it is used |
| request handlers | `ops/*.c` | handle (`fi->fh`) | one per FUSE call | files behave as sequences of bytes |
| mount, unmount | `dev/mount.c`, `dev/unmount.c`, `ops/main.c` | all of the above | load, store | what is loaded is what was stored |
| driver start | `fcfs.c` | options, password | `fuse_main` | — |
| formatter | `fmtr/fcfsfmt.c` | layout | format | the areas fit the device and each other |
| encryption, SCSI, utilities, hash map | `lib/`, submodule | — | — | — |

### How they interact

A handler calls the device layer; every function there takes `fcfs_args_t`, which holds header, bitmap and file
table, and reads and writes cluster tables on the device. Two static caches sit beside it: the block lists of all
identifiers, and the cluster list of **one** file. They are filled on the way of every request and extended in place
by a write. The block list of an identifier is dropped by `release`; removal drops neither cache. The bitmap and the
file table are written to the device by the function that changes them. libfuse calls the handlers, in several threads
unless `-s` is given; it looks a path up before most requests, and turns the removal of an open file into a rename.

### What is hard

* One fact is kept in many places (table entry, second-level list, cluster tables, bitmap, two caches), updated by
  hand in a sequence of calls, most of whose answers are ignored.
* Stale caches after removal and reuse of an identifier.
* Limits: full volume, full file table, full cluster list, full root directory, last byte of the bitmap.
* Arithmetic of offsets: header, block boundary and length.
* A request is a row of device writes without journal: a kill between two leaves a prefix, and nothing repairs it.
* Threads without a lock on one file position, one bitmap, one table and two caches.
* A path cache that nothing evicts, over directories that are removed with what is in them.
* Addresses in an `int`, cluster numbers in an `unsigned short`, a list limit that counts more than is saved.

`PROJECT.json` lists every hazard at its line with the properties that watch it.

## Modules

```
FCFSAlloc ──────┬── FCFSVolume ──┐
  (operators)   │   (requests)   ├── FCFSVolumeProofs
                ├── FCFSAllocProofs ┘
                ├── BlockSearch (loops of the searches) ── BlockSearchProofs
                ├── FCFSCrash (writes of a request, kill, mount) ── FCFSCrashProofs (with FCFSAllocProofs)
                └── FCFSThreads ── FCFSThreadsProofs
                        ║
BlockStore <═ implemented by
ByteFile   <═ implemented by ═  FileBytes ── MCFileBytes, FileBytesProofs
PathTree   <═ implemented by ═  FCFSTree ── MCFCFSTree, FCFSTreeProofs      (both sides extend Paths)
FCFSLayout ─────┬── FCFSFormatProofs
ClusterList ────┘
```

Each module takes one of the hard sides and keeps the others simple:

| module | what varies | what is fixed |
|---|---|---|
| FCFSVolume | order of requests, both caches, limits | one request at a time, bytes and paths left out |
| FileBytes | bytes, offsets, directory as bytes | caches current, space suffices |
| FCFSCrash | kill between any two writes, mount | first-level lists, no caches of removed files, a cluster to be offered |
| FCFSThreads | interleaving at every call of stdio | files exist, one request per file |
| FCFSTree | paths, nested directories, path cache | directories keep what is written to them |
| ClusterList | list in memory against its saved form | one file |
| FCFSLayout | every size of device, width of an int | no content |

**FCFSAlloc** has the allocator as operators on a bitmap and a cluster table: which clusters and blocks a search
finds (`FreeClusters`, `dev_free_blocks`, `WholeClusters`), how it ends (`SearchOutcome`: up, hung, exhausted) and
`dev_upd_bitmap`.

**FCFSVolume** is the core: a mounted volume and the requests on it, one at a time (`-s`). `vol` is a record of the
file table, cluster tables, bitmap, second-level lists, both caches and a status. Each function of the device layer
is an operator of the same name from the volume before to the volume after; each handler is an action that chains
them in the order of the calls:

| action | code |
|---|---|
| `ops_create` | `ops/create.c`: free identifier, entry in the root, table entry and first block, header; then libfuse's look-up |
| `ops_getattr` | `ops/getattr.c`: root's list, the file's list, size |
| `ops_open`, `ops_release` | `ops/open.c`, `ops/release.c` |
| `ops_read`, `ops_write` | `ops/read.c`, `ops/write.c`, as far as lists and blocks go |
| `ops_unlink` | `ops/unlink.c`: blocks of listed clusters freed, bitmap updated, entry removed |
| `ops_readdir`, `ops_releasedir` | `ops/readdir.c`, `ops/releasedir.c` on the root |
| `Remount` | `ops/main.c`, `dev/mount.c`, `dev/unmount.c` |

Status "up" becomes "exhausted" (a cluster behind the last was used), "hung" (the request never returns) or
"undefined" (freed or foreign memory was used, or the root's blocks overwritten). Nothing happens afterwards: what
the C program does from there on is anyone's guess, and no property speaks about it.

`gen` counts how often an identifier was handed out. It is history, not state of the program: most properties are
claimed for files whose identifier is used for the first time, because of the findings on stale caches.

**BlockSearch** takes the searches apart: one action per loop head of `dev_free_cluster_from` (bytes, bits) and per
turn of its callers `dev_free_blocks` and `dev_full_free_cluster`. Its properties are that the loops find and end as
the operators of FCFSAlloc say, so FCFSVolume may use the operators.

**ByteFile** is the abstract specification: files are sequences of bytes; create, write, remove. It leaves open the
bytes between the old end and the offset of a write behind it.

**FileBytes** is what the driver does: headers, whole blocks read, overlaid and written back, the root directory's
entries as bytes of a file, blocks reused with what they held. It implements ByteFile: the files are the entries of
the directory as read from its blocks, their bytes are gathered through the block lists up to the size in the header.
Here every cached list is current and space suffices; FCFSVolume shows under what conditions the lists are. The
"junk" copied from behind the buffer when a directory has shrunk is arbitrary.

**FCFSCrash** takes a request apart on the device side. `vol` is the volume as the process sees it, `saved` what the device has of the two parts
the process keeps in memory and writes whole: the file table, and the bitmap without its last incomplete byte (`Kept`, `dev_write_bitmap`).
A mount reads `OnDevice`. A handler computes the sequence of its
writes, in the order of the calls (`CreateWrites`, `Reserve`, `Payload`, `UnlinkWrites`), and puts it into `todo`. A write is a record
with what the call is about (`Own`, `Drop`, `Bit`, `Take`, `List`, `Release`, `Dir`, `Header`, `Data`, `Size`); `After` is the volume it leaves, `SavedAfter` what is saved of it.
`Write` performs the next, `Crash` drops the rest and mounts again with empty caches. The driver has no repair and no check that would notice: the hashsums of header and
table depend on the time of formatting only. The root directory is written block by block. `gen`, `cut`, `crashes` are history: `cut` has the requests that were cut, and
notes files written to and identifiers handed out again after a cut write ("again"), files whose creation got no block ("gaveup") and identifiers handed out while an entry named them ("twice").

A kill between a cluster's table and its bit leaves a full cluster that is offered as free. A creation that is given it gets -1 from `dev_file_alloc`, which `dev_create_file` ignores: the
identifier is taken in memory (`Note`), no write of the file table follows, and the entry is written. Then `dev_init_file` finds a block the identifier has left over in that cluster and the
creation succeeds (`GiveUpWrites`), or reads a block number out of an empty array (`LostWrites`, `Wild`: the process is lost). After the next mount the identifier is free, and named.

| request | writes, in order | code |
|---|---|---|
| create | cluster table, bitmap if the bit changes, file table, directory blocks, header | `dev_create_file`, `dev_file_alloc`, `dev_init_file` |
| create, of a full cluster | directory blocks; header, if the file has a block there | the same, `dev_file_alloc` answering -1 |
| write | per block cluster table and bitmap; file table per new cluster; data; header | `dev_file_reserve`, `dev_file_mem_clrs`, `ops_write`, `dev_set_file_size` |
| unlink | per cluster its table and bitmap; directory blocks; file table | `dev_rm_file`, `dev_rm_from_dir` |

**PathTree** is the abstract name space: every path is a directory, a file or nothing; removing a directory takes what is
below along. **FCFSTree** is the driver's: identifiers with link counts, directories as sequences of entries (removal puts the
last into the hole), and the path cache. `fcfs_get_fid` resolves a path through the cache (`_ops_getattr`, flag 0);
`ops_getattr` (flag 1) asks the cache for the parent only and overwrites what it has for the path. A path that is not found
has identifier 0, the root's, as the cleared `struct stat` has. `Lookup` is external: the kernel asks for a name before it makes,
removes or opens it, and takes nothing to exist that it was told does not. `ops_mkdir` and `ops_create` are followed by
libfuse's own look-up.

**FCFSLayout** has the formatter's numbers (`clu_cnt`, `bmp_len`, `tbl_len`, `dta_beg`, with the divisions as they are: integer or
rounded up) and `dev_read_block`, `dev_write_block`, `dev_write_by_id` with the byte position of the `FILE`. The argument
of `fseek` is an `int` expression: an overflow gives any of what a compiler may make of it (`Address`); a negative
seek fails, which the code does not notice, and the position stays.

**ClusterList** has the list of one file's clusters twice: in memory (`cache`) and saved (`entry`, `saved`). `dev_tbl_clrs_add`
appends to one and saves to the other; `Switch` drops the memory, as a call for another file does. Limits and capacities are
those of the code: `s1_len` for what is accepted, `SavedCap` for what the loops copy, `Short` for a table entry's slot.

**BlockStore** is what several requests at once should be: each takes effect at one moment between its beginning and its end.
**FCFSThreads** runs the read and write handlers step by step; a step ends where stdio is called, and `Seek` and the transfer are two.
All threads share `pos`. What a thread holds in local variables (the cluster table it read, the copy of the bitmap it is
about to write) is in `th[t]`; that copy is of the bitmap's whole bytes (`BitsOf`). The refinement calls a write effective when its payload is in its block and the header
covers it, a read when it has its answer.

`FCFSAllocProofs`, `BlockSearchProofs`, `FCFSVolumeProofs`, `FileBytesProofs`, `FCFSCrashProofs`, `FCFSThreadsProofs`, `FCFSTreeProofs` and `FCFSFormatProofs`
(FCFSLayout and ClusterList) hold proofs. Operators named `*_slip` are not part of the model: each is the
definition after it with one mistake, and serves to see that a property notices.

Representation: a cluster table and the blocks it names are told apart (`ctab`, FileBytes' `dev`); identifiers,
clusters and slots are numbers; block lists are sets of numbered blocks (the code searches them by number, so their
order in memory does not matter). A second-level list is one sequence in FCFSVolume, which is right as long as all of it is saved (`MaxSaved`); what becomes of a longer one is ClusterList's subject. The
fid -1 of a claimed block stays -1 although the field is unsigned: it only has to differ from every identifier. The
link count is a byte. Outside FCFSTree a path is the file it names. The external hash map is an honest map; in FCFSTree it may
also be full at any addition, upon which the code clears it.
The formatter writes the cluster table of cluster 0 only; a table whose hashsum does not match (it depends on the
time of formatting) is read as free entries, so an initial volume is free behind cluster 0.

## Runs

| run | module | states | what is asked |
|---|---|---|---|
| `volume` | FCFSVolume | 277,390 | do all the places that keep a fact agree, through every order of requests, with first identifiers? |
| `volume_limits` | FCFSVolume | 433,739 | everything at its limit (identifiers reused, a cluster list of two, a root directory too small for all files): what still holds, and is a lost process explained? |
| `search` | BlockSearch | 33,560 | do the loops find the first free blocks or wholly free cluster, carry bit positions over bytes, and end? |
| `bytes` | MCFileBytes | 165,086 | are the bytes those that were written, and does FileBytes implement ByteFile? |
| `crash` | FCFSCrash | 881,484 | two identifiers, four creations, one kill anywhere: what survives? |
| `tree` | MCFCFSTree | 4,674 | does the path cache ever answer a wrong file, who keeps an identifier, do the handlers implement PathTree? |
| `layout` | FCFSLayout | 95,520 | do the areas fit every device, is there a bit for the clusters, and what lies behind the end? |
| `list` | ClusterList | 66,588 | does a list survive the cache's use for another file, up to what is saved? |
| `threads_single` | FCFSThreads | 167,961 | with `-s`: do requests split at every call of stdio implement BlockStore, and are they answered? |
| `stale_seq`, `bitmap_cut`, `threads_alloc` | FCFSVolume, FCFSThreads | | the [findings](#findings): each has a counterexample |

Properties of `volume`, about files whose identifier is handed out for the first time. Those marked ° are claimed of a file whose
cluster list is below its limit and short enough to be saved whole (`HasRoom`), file by file; in this run every list is.

* `SeqTruth`°: a cached block list is what the cluster tables of the *whole* volume say.
* `NumsDense`°: a file's blocks are numbered 0..k-1.
* `ClustersListed`°: each of its blocks is in a listed cluster.
* `ClrsCoherent`: the one-file cache is the table's list when it names the file, as long as that is saved whole (`Stored`).
* `NoLeak`°: no block stays with a removed file.
* `ClaimedAccounted`: every claimed cluster is the second level of a file, or was that of a removed one: removal gives it
  back to nobody, and nothing else is lost.

Properties of `volume_limits`, which do not need that:

* `BitmapAgrees`: bit 1 exactly on full clusters. A bit 0 on a full cluster makes `dev_free_blocks` loop for ever.
* `SecondLevelApart`: a second-level cluster is all claimed, belongs to one file, is nobody's data cluster.
* `RootIntact`: the root's entry, blocks' numbers and cached list stay as formatted, though its blocks count as free.
  (Its *bytes* are FileBytes' subject.)
* `LossExplained`: a request hangs only with a root directory too small for its entries; memory is misused only with all
  identifiers in use or one reused. (It says nothing of a volume that runs out of clusters.) In particular no search for blocks hangs on a volume whose bitmap ends with a whole byte
  (`bitmap_cut` is about the others).
* `NoSteal` (action property): a step moves blocks between free and **one** file, never from file to file.
* `TypeOK`, the core's type invariant, which `TypeCorrect` proves. The other modules define one too.

`dev_free_cluster_from` carries its first bit over a *full* first byte, which would skip free clusters of the next one.
`ScanFindsFirst` holds nevertheless: a scan starts at cluster 0, whose bit stays 0 because the root's blocks count as
free (`RootIntact`), or at the cluster found last, whose bit is 0, so its first byte is never full.

In `search`, `ScanFindsFirst`, `SearchFinds` and `EndsAsOutcome` are safety, `SearchEnds` liveness. In `bytes`,
`EntriesOwnBlocks` relates directory and block lists, `SizeCovered` header and block lists, `ReadAnswers` states what
a read returns against `ByteFile`, `ImplementsByteFile` is the refinement.

Properties of `crash` hold in **every** state, between two writes too, so they are about what any mount finds:

* `EntriesAllocated`: a named file's identifier is taken (order of table and directory in creation and removal), unless its creation got no block; and as long as
  the directory lies in the blocks written together with its length; `crash_dir` is the case where it does not.
* `UnhitWhole`: a file none of whose requests was cut is whole: named, listed, numbered without gap.
* `BitsPerCrash`: of the bits that are saved at all, the number of wrong ones is at most the number of kills (and one for the request under way).
  The clusters of the last incomplete byte are left out: their bits are 0 after any mount (`bitmap_cut`), and the run has such a cluster.
* `SizeCoversData`: bytes up to the size in the header are those written, since the header comes last; until the file is
  written to (`crash_orphan`), or its identifier handed out (`crash_reuse`), again after a cut, and until any identifier is handed out while an entry names it (`crash_twice`):
  the block list cached for one name then outlives the removal of the other, and a write through it goes to blocks that may be another's.
* `OthersKept` (action property): a request for one file leaves the others' blocks, saved lists and bytes alone, whatever the bitmap says, unless that one file is named twice, and as long
  as the directory's entries lie in its first block; `crash_names` is the case where they do not. The saved list of a file whose creation got no block is not claimed: any later write of
  the file table saves it.

With `MaxCreates = 5` (2,918,781 states) all five hold, too.

Properties of `tree`: `KnownResolved`, the identifier a handler is given is the one the directories lead to; `TakenExplained`, an
identifier is taken exactly if a path leads to it or it was below a directory when that was removed (`ops_rmdir` does not ask:
such files are out of reach and keep their blocks); `ImplementsTree`, the refinement, which a second entry of a name would break too.

Properties of `layout`: `AreasFit`, `BitsNearlyCover`, `OnlyLastLost`, each as true as it is: the data area may
begin so late that its last block lies behind the device, and up to seven clusters have no bit. `layout_tail` and `layout_bits` are the
difference to what the comments say.

Properties of `list`: `ListKept`, what was added is what is answered, as far as it is saved and the numbers fit; `BufferHolds`, the
heap buffer of the second level is never overrun, for its limit counts one entry less per block; `CacheSaved`, memory and device agree
whenever the cache is dropped.

Properties of `threads_single`: `ListsMatchTables`, `SavedAgrees` relate cached lists, cluster tables, bitmap and the device whenever no
thread extends a file (the bitmap on the device is that in memory as far as whole bytes go); `ImplementsStore` is the refinement, `Answered` liveness.

## Further configurations

Kept beside the runs, for a reader who wants to see a trace or a larger instance: `tlc -config X.cfg M`. A configuration that
*refutes* checks what a comment of the repository says, and TLC prints the requests that lead against it.

| configuration | module | shows |
|---|---|---|
| `stale_clrs` | FCFSVolume | refutes `ClustersCounted`: a new file with a removed one's identifier is given the clusters of the one-file cache (`dev/table.c`) |
| `list_full` | FCFSVolume | refutes `ClustersCounted`: `dev_tbl_clrs_add` refuses a cluster beyond the limit, `dev_file_mem_clrs` ignores it; the file has blocks in clusters it does not list, which are gone after `release` |
| `root_full` | FCFSVolume | refutes `WriteDirReturns`: no room for an entry, `dev_extd_blk_list` answers -1, which is compared with a `size_t`; the loop does not end |
| `no_space` | BlockSearch | refutes `AnswersCluster`: on a full volume `dev_free_cluster_from` runs over `clu_cnt` *bytes* and answers a cluster behind the last one, never -1 |
| `crash_unlink` | FCFSCrash | refutes `NamedHasBlocks`: killed between the cluster tables and the directory, a removal leaves a name without blocks |
| `crash_bitmap` | FCFSCrash | refutes `FreeClusterNotFull`: killed between a cluster table and the bitmap, a full cluster is offered as free after the mount; a search for blocks then does not end |
| `crash_dir` | FCFSCrash | refutes `ShownNotDeleted`: a directory of two blocks, the length written and the second block not: a removed file's entry, or what lay behind the buffer, is part of the directory |
| `crash_names` | FCFSCrash | refutes `OthersKept` for a directory of several blocks: a creation killed behind the first leaves a second entry of some file, copied from behind the buffer; the file is removed by one name, found by the other through its cached list, and a write to it goes to blocks that are another file's by now |
| `crash_reuse` | FCFSCrash | refutes `CreatedEmpty` (`dev.h:138`: the size is set to 0): a write is cut behind the cluster table; its block is in no listed cluster and outlives the removal. When the identifier is handed out again in that cluster, `dev_init_file` takes the left-over block for the file's first and writes the header there: the new file has the size of what lay in its block 0 |
| `crash_twice` | FCFSCrash | refutes `HandedOutFree` (`dev.h:98`: a free identifier): a creation is killed between the cluster table and the bitmap, the next one gives up on that cluster and leaves an entry without a file table entry; after the mount the identifier is handed out to a second name |
| `crash_orphan` | FCFSCrash | refutes `WrittenIsRead`: a write cut before the file table leaves blocks in an unlisted cluster; the next write gives their numbers again |
| `crash_again` | FCFSCrash | passes: one file of up to four blocks, three kills; with `TypeOK`, which `CrashTypes` proves |
| `layout_big` | FCFSLayout | refutes `BlockOfNumberRead`: byte addresses overflow an `int` |
| `layout_tail` | FCFSLayout | refutes `ByIdAnswers`: the last block of the last cluster lies behind the device, and the write is reported as done |
| `layout_len` | FCFSLayout | refutes `WriteAnswers`: `dev_write_block` compares what was written with the caller's length and answers -1 for a block that is stored |
| `layout_bits` | FCFSLayout | refutes `EveryClusterHasBit`: the bitmap's blocks are computed by an integer division; clusters without a bit |
| `list_saved` | ClusterList | refutes `GetsListed`: the second level's limit counts more entries than are saved; the rest is 0 or gone once the cache was used for another file |
| `list_short` | ClusterList | refutes `GetsListed`: a cluster number does not fit the `unsigned short` of a table entry |
| `threads_seek` | FCFSThreads | refutes `BlockAsked` with two threads: another's seek between seek and transfer |
| `threads_bits` | FCFSThreads | refutes `BitmapWritten` with two threads, seeks kept with their transfers: the bitmap written last is the older copy |
| `threads_orderly` | FCFSThreads | passes: two threads under the constraint `Orderly`, which follows behaviours only as long as no thread moves the position between another's seek and transfer and at most one is between the search for a block and its link to the list. It says nothing of the driver as it is, but what a lock around each access and one around each extension would give |
| `tree_wide`, `tree_deep` | MCFCFSTree | pass: three identifiers besides the root (`tree_wide`, with the refinement); three levels, where a directory above cached paths goes and comes (`tree_deep`) |

## Bounds

* Volumes have 4 or 5 clusters of 2 blocks. Cluster 0 is the root's, a second level takes one, so two or three
  clusters are left for up to three files: files share clusters, span clusters, fill the volume, and free clusters
  in every order. `Direct = 1` (13 in the code) makes the second level start with a file's second cluster.
* `volume`: five clusters, a list (`MaxClrs = MaxSaved = 5`) and a root directory (`BlkUnits = 8`) that are never full, a bitmap of
  one byte of five bits, `MaxGen = 1` (each identifier is handed out once, which is what its properties are claimed for) and one handle.
* `volume_limits`: four clusters, a list of two clusters (`MaxClrs`), a root directory of two blocks of four units with a header of one and entries of three,
  so that the third file has no room, bytes of two bits (all bits survive a remount), `MaxGen = 2` and two handles, on one file or on two.
* `MaxBlocks = 4` lets one write extend a file by three blocks, over two clusters and into the second level.
* `search` starts from **every** table of five clusters of two blocks and every bitmap that agrees with it, or has lost
  the bits of the last byte: five clusters are two whole bytes of two bits and a half one, so a scan crosses bytes.
* `bytes`: blocks of two units with a header of one, so files of up to four bytes lie in up to three blocks and every
  remainder of offset and length occurs; six blocks, of which two are the root's, and two files, so blocks are reused and
  the directory's entries spread over two blocks; writes of one byte and of four distinguishable ones.
* `crash`: four clusters of two blocks, a bitmap byte of three bits, so that the last cluster's bit is never saved; files of two blocks, which share clusters and cross them; two identifiers,
  four creations in all (`MaxCreates`): one file, one that is cut, one that gives up, one that names its identifier again. One kill. A request that finds no cluster with bit 0 is left to FCFSVolume, and an
  identifier with a cached list is not handed out before the next mount. `PerBlock = 1` in `crash_dir` makes the directory span two blocks; `Junk` is what
  the heap may hold behind the buffer there. The other `crash_*` have three clusters and files of three blocks.
* `tree`: two names and two levels, so six paths, and two identifiers besides the root: most paths cannot exist at once, and an
  identifier is handed out again under another path while the old path is cached. Names are interchangeable (symmetry).
* `layout`: sectors of one byte, so a block has two and a bit of the bitmap covers a cluster; 33 sectors are the smallest device with
  a cluster. Up to 330, every remainder of every division occurs, and the bitmap has no block or one; larger ones are the theorems'.
  `IntLimit` is above every device (2048), so that no address overflows; in `layout_big` it is below the largest (128).
* `list`: an entry of two clusters and a second level in the blocks of one cluster, three of six numbers each. 15 clusters
  are accepted in all, two in the entry; of the rest the two blocks saved hold 11. Every length up to the limit and beyond occurs. Clusters are
  added in rising order with gaps of at most two, as a search finds them.
* `threads_*`: two files that begin in one cluster, four clusters of two blocks (cluster 0 is the root's), a bitmap byte of three bits, so that the last bit is not written, blocks of two payloads, files of
  up to three blocks with one thread and two with two.

## Fairness and deadlock

FCFSVolume, FileBytes, FCFSCrash, FCFSTree, FCFSLayout and ClusterList state safety only: a request comes when a user makes one, and nothing obliges anyone to. BlockSearch has `WF_vars(Next)`: its steps are the turns of a loop inside one call, which run on as
long as the process does. FCFSThreads has `WF_vars(Step(t))` for every thread: the operating system runs each thread again and again, and a
handler that has begun goes on; that a request comes is not promised. Nothing else is.

FCFSVolume and FCFSCrash may stop (a lost process takes no step), and FCFSTree where every identifier is taken by something out of reach is
bounded by its constants, so deadlock is not checked there. It is checked in BlockSearch, where it would mean a scan behind the last byte of
the bitmap, in FileBytes, FCFSLayout, ClusterList and FCFSThreads (`pos` behind the device, a search that finds no cluster).

## Proofs

Checked by tlapm; assumptions are only those named on the constants: `SizeAssumption`, `VolumeAssumption` (sizes are positive,
clusters fit an unsigned short), `SearchAssumption` (a byte has bits), `LayoutAssumption` (the device holds header, table and one cluster), `ThreadsAssumption` (the volume
has room for the files), `ListAssumption` (a cluster has a table and at least two blocks, a block holds at least two numbers),
`PathAssumption`, `TreeAssumption` (a path may have a name, the table has an entry), `BytesAssumption` (the root directory is on the device, a block holds at least one unit,
a unit holds every number of the table and every size), `CrashAssumption` (the root directory has a slot for every file).

| theorem | says |
|---|---|
| `TypeCorrect` | `Spec => []TypeOK` (FCFSVolume) |
| `BitmapCorrect` | `NC % ByteBits = 0` implies `Spec => []BitmapAgrees` |
| `RootSafe` | `Spec => []RootIntact` |
| `BlocksNotStolen` | `Spec => NoSteal` |
| `AllClustersListed`, `CacheCoherent`, `SecondLevelsApart`, `ClaimsAccounted` | `Spec => []ClustersListed`, `[]ClrsCoherent`, `[]SecondLevelApart`, `[]ClaimedAccounted` |
| `SeqsTrue`, `NumbersDense`, `NothingLeaks` | `Spec => []SeqTruth`, `[]NumsDense`, `[]NoLeak`: of every file whose list has room, whatever the size of the volume and the lists of other files |
| `LossesExplained` | `NC % ByteBits = 0` implies `Spec => []LossExplained` |
| `ScanFindsFirstAlways`, `SearchFindsAlways`, `EndsAsOutcomeAlways` | `Spec => []ScanFindsFirst`, `[]SearchFinds`, `[]EndsAsOutcome`: the loops of BlockSearch compute the operators of FCFSAlloc |
| `AgreeingEnds` (lemma) | while bitmap and tables agree, `SearchOutcome` is never "hung" |
| `UpdAgrees` (lemma) | updating the bits of the changed clusters restores agreement |
| `AreasFitAlways`, `BitsNearlyCoverAlways` | `Spec => []AreasFit`, `Spec => []BitsNearlyCover`, for every size of sector, table and device |
| `OnlyLastLostAlways` | on a device that an int addresses, only the very last block can be lost |
| `SingleThreadStore` | `OneThread` implies `Spec => [](ListsMatchTables /\ SavedAgrees)` and `Spec => ImplementsStore`: what `-s` gives |
| `ListAlwaysKept` | `Spec => []ListKept`: the clusters added are the clusters answered, up to what is saved, for every length of entry, block and cluster |
| `BufferAlwaysHolds` | `Spec => []BufferHolds`: the second level's buffer is never overrun |
| `CacheAlwaysSaved` | `Spec => []CacheSaved`: whenever the cache names the file, the device has its second level |
| `EntriesAlwaysOwn`, `SizeAlwaysCovered` | `Spec => []EntriesOwnBlocks`, `[]SizeCovered` (FileBytes) |
| `BytesImplemented` | `Spec => ImplementsByteFile`: FileBytes implements ByteFile, for every size of block, table, root directory and device, and whatever is written |
| `ReadsAnswer` | `Spec => []ReadAnswers`: a read of any length at any offset answers the file's bytes |
| `CrashTypes`, `CrashBits` | `Spec => []TypeOK`, `Spec => []BitsPerCrash` (FCFSCrash), for every number of kills and every number of clusters, whole bytes or not |
| `CrashEntries`, `CrashOthers`, `CrashUnhit`, `CrashSizes` | `Spec /\ []FirstBlockOnly` implies `[]EntriesAllocated`, `OthersKept`, `[]UnhitWhole`, `[]SizeCoversData`, for every number of kills, wherever they come |
| `KnownAlwaysResolved` | `Spec => []KnownResolved`: of a path the kernel knows, the path cache never gives a wrong identifier |
| `TakenAlwaysExplained` | `Spec => []TakenExplained`: an identifier is taken by one path or lost with a removed directory |
| `TreeImplemented` | `Spec => ImplementsTree`: FCFSTree implements PathTree, for every depth and number of names and identifiers |

**FCFSVolume.** The inductive invariant is `IInv`: `Good(vol)`, and handles and counters within their types. `Good` adds to the types
and the properties themselves

* that cached block lists are finite (their length is a number: without it the numbers given to new blocks, hence
  `ctab`, have no type);
* `RootClrs`: a cluster cache that names the root holds nothing or cluster 0. Without it the root's block list could
  be rebuilt from other clusters, and `RootIntact` would not be inductive;
* agreement of the bitmap only under `WholeBytes`: otherwise `Remount` breaks it, which is finding `bitmap_cut`, so
  the hypothesis of `BitmapCorrect` cannot be dropped.

`Good` is a predicate on *any* volume, not on the variable. Thus every function of the device layer has one lemma
(`ClrsCntGood`, `GetSeqGood`, `ClaimGood`, `ClrsAddGood`, `MemClrsGood`, `ReserveGood`, `ExtdGood`, `WriteDirGood`,
`AllocGood`, `InitGood`, `RmGood`): good before, good after, and what it did to the owners of blocks: nothing
(`Still`), free blocks became one file's or claimed (`Takes`), one file's became free (`Frees`). A handler's proof chains
the lemmas of the functions it chains; `NextInv` has one step per action; `NoSteal` falls out of `Takes` and
`Frees`. `Sorted` and `Least` choose by a property, so that something satisfies it has to be shown
(`RankExists`, `LeastExists`): counting the smaller elements is an injection of a finite set into `0..|S|-1`.

These four theorems hold for reused identifiers and full lists as well: `gen` is not used in them.

**FCFSVolume, its files** (second half of `FCFSVolumeProofs`). What the eight invariants of single files say holds only for all of them together, and only with what they
do not mention. The inductive invariant `FInv` adds to `IInv`

* for an identifier never used (`Virgin`): link count, second level and cached list are empty and no block is its own. Without it `create` might begin on leftovers;
* for one used once and alive (`Whole`): the used places of the table entry come first and a second level only behind a full entry (`Shaped`; `dev_tbl_load_fir` stops at
  the first 0), no cluster is listed twice (`Counted`; the room left is computed from the length), cache and device agree (`Cached`), the list has the
  clusters of the file's blocks, none else, and all unless it is full (`Reached`), and the numbers are dense (`Numbered`);
* for one used once and removed: it has no blocks;
* for all entries, removed and reused ones too: second levels lie in clusters wholly claimed, each in one of its own (`Apart`). The device layer
  rewrites the second level of whichever file it works for, so this must not depend on how the file came about;
* for handles: they name live files (`HandlesKept`), since the kernel asks to remove only files that are not open.

Each device function has a lemma on the file it works for (`…Whole`), one that the other files are as they were (`…Others`), and one on caches (`…Caches`); a
request's lemma (`…Holds`) chains them. Numbers stay dense because `Rank` numbers new blocks from the count of the old ones on (`RankNumbers`, `NumbersGrow`).
What the statements leave out, they have to:

* `HasRoom(f)` in `SeqTruth`, `NumsDense`, `NoLeak`, `ClustersListed`. At the limit `dev_file_mem_clrs` drops clusters that do not fit the list, and blocks in those
  are neither read after a mount nor freed by `dev_rm_file`: without the condition TLC refutes the properties with `MaxClrs` = 2 on five clusters; with it they hold there. The condition is about
  one file: others may be at their limits, and the volume may have any number of clusters. Somewhat below the limit (behind 1548 clusters of 1785, with blocks of 1024 bytes)
  `dev_tbl_save_sec` saves fewer entries than were added, which the sequences of FCFSVolume do not show. `MaxSaved` is the number it saves, and a file with a longer list is left out as well;
  ClusterList has that loss (`list_saved`);
* `NC % ByteBits = 0` for `LossExplained`, as for `BitmapCorrect`: a bit lost at a mount lets a search spin.

**BlockSearch.** The invariant follows the loops inside out. `ScanKept`: all bits between the start and the bit the scan stands at are 1. It needs that the bit at the start is 0 (`Searched`): then the first
byte is never full, and the first bit, which is reset only when a byte is entered, does not carry over. `ListKept`: the list has the first free blocks, each with its rank,
and while blocks are missing all those up to the start. `SpinsKept`: a cluster with bit 0 and no free block is never passed, since the start moves only onto clusters that gave a block; so a search that
ends has met none too early. `NewRank` counts: the free blocks before one of the cluster at hand are the list and the smaller ones of the cluster. The proofs leave `ByteBits` open;
`ByteOf` and `NextByte` are the only places where a byte is divided or multiplied.

**FCFSLayout.** The state changes only in `pos` and `op`; the invariant says that `head` is what the formatter wrote, that `op` names a block
of an existing cluster, and that it went to that block's address if an `int` addresses the device. The work is arithmetic: `DivBounds` and
`CeilBounds` give each quotient its defining inequalities once, `Numbers`, `AreaEnd` and `Bits` compare the counts through these,
and `ExactInside` and `NoOverflow` the addresses; no other leaf sees a division.

**FCFSThreads.** The result is about one thread, the driver started with `-s`. One part of the way is that a thread that has sought is at a step that uses the device and has `pos` at
its target (`Kept`): `Target` depends only on what that thread and the lists hold, which no step between seek and transfer changes. Thus one thread's requests are
`Orderly` (`SingleThreadOrderly`), and the lemmas about `OInv` ask only for that, not for the number of threads. They do not cover the driver without `-s`: it has no lock that would keep
two threads orderly, `threads_seek` and `threads_alloc` are what happens then.

The inductive invariant is `OInv`: every block in a list has the file and number of its
place in the table of its cluster on the device (`Lists`); conversely every entry of a table is listed, or the thread that entered it is on its way to `Link`
(`Covered`); a bit of the bitmap is 1 where the table is full, but for the cluster whose update is due, and the device has bitmap and table, but for a write that is due
(`Saved`); no size exceeds its list (`Heads`); no two requests are on one file (`Alone`); and `Request` says for each step of a thread what its copies are worth: the block it read is
the one on the device, the entry it is going to write is free there, its number is the length of the list. `Orderly` is what keeps the copies of one thread from being outdated by another.
There is one lemma per action. For the refinement the same actions are followed once more: a step either leaves `Files` and `Calls` alone (`Inner`, `Steady`), or is the one at which its
request takes effect: `Read` where the block is read, or the size if the read is behind it; `Write` where the header is written if the file grows, the payload if not.

**ClusterList.** The invariant says that what is saved is within its limit and complete up to what the blocks hold (`SavedSane`), that a cache in
use agrees with it (`SecondSaved`), and, as long as every number fits the table entry, that device and cache hold the history (`DeviceKept`, `FirstKept`).
`LoadedFacts` shows that a cache loaded from such a device has the same, so every call begins alike whether the cache was dropped before or not.
That there is a first empty slot in the table entry is by well-foundedness (`FirstEmpty`). The product in `s1_len` is treated once, in `Caps`.
`BufferHolds` and `CacheSaved` do not need the numbers to fit; `ListKept` states it as its premise, and `list_short` is what happens otherwise.

**FileBytes.** A file is seen as one run of units through its blocks: `At(d, bl, k)` is unit k, 0 the size, i the i-th byte. `ReadIs` and `WriteIs` say once what whole blocks through a buffer do to these
units (here a list in which a block occurs twice would go wrong), `BlocksFor` that `to_blk_cnt` rounds up; after that nothing is divided any more. The inductive invariant `BInv` adds to the types and `EntriesOwnBlocks`
that no block is in two lists or twice in one (`Apart`), that the root keeps its blocks, and that a header's size fits its blocks (`Headers`), the root directory's too: a directory whose size were
wrong would be read from other blocks. `EntriesOwnBlocks` also bounds the directory: entries that differ are fewer than the table has places, by the pigeonhole, so that their number can be stored.
`Creates`, `Removes`, `Writes` say what a handler leaves; `…Does` shows that it does, `…Step` that invariant and ByteFile's action follow. `Puts` has what happens to every unit of a write: data in place, the size,
all others as they were, those behind the old end too (hence the gap).

**FCFSTree.** What a path leads to (`Leads`), what a look-up answers (`Ids`) and which caches it may leave (`Caches`) are functions on paths that go to the parent first, as the code does. That
such functions exist (`PathRecursion`), and that what holds of the root and passes from parent to child holds of every path (`PathInduction`), is shown once, by a shortest counterexample.
`KnownResolved` alone is not inductive: that the cache is right about the paths the kernel knows (`Right`) survives a removal only since nothing but the removed path and what is under it
changes, and a creation only since the new identifier is nobody's. So the inductive invariant `TInv` has

* the tree (`Tree`): the entries of a directory that has a path differ in name, and an identifier has one path at most;
* the link counts (`Links`): 1 exactly for identifiers with a path or lost; lost ones have no path. `dev_free_fid` therefore hands out what no path leads to;
* the kernel's view (`Kernel`): it knows a tree, all of which exists, and knows of each path what it is;
* `Right`: of these paths the cache has what the directories say, or nothing. Of all other paths it may have anything, identifiers of removed files included: the kernel does not ask for
  them without `Lookup`, which overwrites the path's entry and resolves its parent, a known path;
* `Leaves`: only directories have entries. The refinement needs it: `ops_unlink` takes one path from the driver's tree and one from PathTree's only if nothing is below a file.

`MakeLeads` and `RemoveLeads` say what an entry more and an entry less do to every path; the hole filled by the last entry (`FidRemoved`) is seen there only. Invariant and refinement use both.

**FCFSCrash.** An invariant of this module speaks about the device *and* about the writes due, since a crash may drop any end of them. Each kind of write has a lemma on what it does (`OwnDoes`, ...);
`StepIs` describes each action by the writes it makes due, and `CreateKinds`, `CreatePlaces`, `WritePlaces`, `UnlinkPlaces` say which kind of write stands where, so that
"a write of the table comes before that of the directory" becomes "there is j < i". `StillDue` passes such facts on when the first write is performed.

* `SavedInv`: the saved bits are those in memory as far as they are saved at all, and the saved entry of a file is that in memory unless its creation got no block. A mount changes nothing else.
* `BitsPerCrash`: among the clusters of whole bytes (`Kept`) only the one whose table was written last can have a wrong bit beyond those of earlier kills, and its bit is the next write (`NextBit`). A write of the bit mends it,
  and a mount keeps these bits as they are.
* `DirInv` for `EntriesAllocated` and `OthersKept`: entries are of files, none twice but those handed out while named (`Sound`), which are among those whose creation got no block (`TwiceGave`); writes of tables are about the file of the request and take what is free or its own (`ForTarget`); bytes go to
  blocks the file has or will have by then, if it is named once (`ToOwned`); all writes of the directory have one and the same sound content, whose entries are taken by then (`DirsDue`); an identifier is released after its entry is gone
  (`NameFirst`); the blocks in the cached list of a file that is named once are its own or about to be (`CachedOwned`). The last is why `EntriesAllocated` and `OthersKept` belong together: with a second entry of a
  file the list outlives the removal.
* `WholeInv` for `UnhitWhole`: each file no request of which was cut has a shape (`Ends`: the numbers of its blocks, its clusters, named or not) that the device will have when all that is
  due is written; of a file no request is at work on nothing is due, so it has that shape now (`EndsStands`). No cluster is listed twice (`ListedOnce`), so that the list `dev_get_file_seq`
  builds has each block once (`ListComplete`) and its length is the next number.
* `SizeInv` for `SizeCoversData`, kept as long as no identifier is named twice (`OnceNamed`): it has to speak of files cut in a write, whose blocks may be numbered but not listed, or listed but not written. Blocks a request is going to own are free, and get numbers
  the file does not have (`OwnsFree`, `OwnsNew`); payload goes where its number is or will be before (`DataFits`); at the write of a size all blocks it covers will be owned, listed
  and written (`SizeFits`), and at the header of a new file, the last write of all, its block is the only one with its identifier (`HeadFits`; this is what `crash_reuse` breaks). The blocks in a cached list are what the
  device will say of them (`CachedFits`). Then each number of a file that claims its bytes is that of one block, and the size is covered (`GoodFiles`), after every write. A request at work on such
  a file found it uncut (`Fresh`), and therefore whole by `WholeInv`.
* `FirstBlockOnly`, no more entries than the first block has room for, cannot be dropped: the length stands in the first block, so the listing changes with that block's write at once, else block by block. `crash_dir`
  and `crash_names` are what happens otherwise. `crash` has two identifiers and two entries in a block, so that a directory behind its first block takes an identifier named twice.

Model-checked only: liveness (`SearchEnds`, `Answered`), which is beyond the prover. The properties of the refuting configurations have no theorem, of course.

## Findings

Where the code does not do what `dev.h` says of it.

| run | what happens |
|---|---|
| `stale_seq` | create, create, use, remove, and a file is created with the removed one's identifier: it gets the removed file's cached block list (`dev_rm_file` does not call `cache_seq_rm`), whose blocks may be another's by now |
| `bitmap_cut` | `dev_write_bitmap` writes `clu_cnt / 8.0` bytes as a whole number: the bits of the last incomplete byte are 0 after a mount, and full clusters are offered as free (then `dev_free_blocks` does not end) |
| `threads_alloc` | the search for a free block and its entry in the cluster table are two passes: two threads find the same block, and the second overwrites the first's entry. The run keeps every seek with its transfer (`CONSTRAINT BlockAsked`), so this remains when accesses are locked one by one |

The refuting [further configurations](#further-configurations) are disagreements of the same kind. Seen while modelling, without one:

* The handle of a file made by `create` keeps `fh` 0: `ops_write` opens the path again, but `ops_read` through it answers the
  root directory's bytes, and its `release` drops the root's cached list.
* With the file table full `ops_create` ignores that `dev_create_file` failed and goes on with identifier -1.
* The sort in `dev_get_file_seq` compares the first two nodes only. Lists are searched by number, so nothing depends on it.
* A removed file's second-level cluster stays claimed for good (`ClaimedAccounted` counts it).
* `ops_rmdir` does not ask whether the directory is empty; what is below keeps identifiers and blocks (`TakenExplained`).
* A write behind the end leaves in the gap what the blocks held before. `truncate` does nothing.
* `ops_init` opens the device `w+b`, which would empty a regular file; a block device is not affected.

## Not modelled

* **Creation and removal by several threads**: FCFSThreads has reads and writes of existing files, one request per file at a time. Two requests on
  one file, and requests that change the directory, race on the same state in the same way, with more of it.
* **Races within a step** of FCFSThreads: the C code between two calls of stdio is one step, so that two threads in one
  list or one hash map at once are not seen.
* **Reordered device writes**: FCFSCrash kills the process; a power cut may also lose a write and keep a later one.
* **Checks at mount**: a header or table whose hashsum does not match ends the process; the hashsum depends on the time of formatting only.
* **Options** (`-p=x` of the driver, `-pX` of the formatter), **password prompt**, **encryption**, **SCSI ioctls**: strings, libraries and device I/O
  without control of interest. A block decrypts to what was encrypted.
* `truncate`, `chown`, `utimens`, `flush` return 0 and do nothing. `opendir` sets a handle only.
* The **hash map** is a submodule that is not in the repository; it is modelled from its use.
* `dev_del_block` and `dev_tbl_clrs_set` have no caller that runs. The third and fourth level of the cluster list do not exist in the code.

## Plan

What exists: FCFSAlloc and FCFSVolume (requests one at a time), BlockSearch, FileBytes implementing ByteFile, FCFSThreads with BlockStore,
FCFSCrash, FCFSTree implementing PathTree, FCFSLayout, ClusterList, and eight modules of proofs. What is left, in this order:

1. FCFSThreads with creation and removal.
2. FCFSCrash with reordered writes.
