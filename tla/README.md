# MyJQL in TLA+

A verification project for MyJQL, an embedded key-value store in C: paged files
behind buffer pools, slotted blocks with a free space map, strings in chunks, a
B-tree index and a small `get`/`set`/`del` interface on top
(`src/MyJQL实现与性能改进/`, called `MyJQL/` below).  It holds TLA+ models of all
layers, from pages to keys and values, TLC configurations that check them on small instances, and
proofs, checked by TLAPS, for every value of the constants.

## 1. The system

Everything runs in one thread; there is no logging, no locking and no recovery.
What makes the code hard is not concurrency but long sequences of legal calls
over structures that are only loosely in agreement with each other.

| component | state | operations | properties that make it correct |
|---|---|---|---|
| page file, `file_io.c` | pages on disk, `length` | `open_file`, `close_file`, `read_page`, `write_page` (appends at the end, rejects beyond) | no store is dropped; the file grows page by page |
| buffer pool, `buffer_pool.c` | 8 slots: `pages`, `addrs`, `ref`, `empty`, `cnt` | `init_buffer_pool`, `close_buffer_pool`, `get_page`, `release` | a page stays in its slot while it is held; one copy of a page; what is read is what was stored last |
| block, `block.c` | `n_items`, `head_ptr`, `tail_ptr`, ItemIDs, item bytes in one page | `init_block`, `get_item`, `new_item`, `delete_item` | items never overlap; an item keeps its index and bytes while others come and go |
| free space map, `hash_map.c` | one bucket of block addresses per number of free bytes; buckets are chains of map pages; a free list | `hash_table_init`, `_insert`, `_pop`, `_pop_lower_bound` | pages belong to one chain or the free list; chains are packed; no address twice in a bucket |
| table, `table.c` | a data file of blocks, a map of their space | `table_insert`, `table_delete`, `table_read` | a RID names its item until deleted, whatever the map says |
| strings, `str.c` | chains of chunks in a table | `write_string`, `delete_string`, `load_string`, `compare_string_record`, `has_next_char`, `next_char` | a string reads back; chains are disjoint; comparison is lexicographic |
| B-tree, `b_tree.c` | nodes of up to 4 RIDs with their children, a free list, a root | `b_tree_search`, `_insert`, `_delete` (splits, moves to a brother, merges) | an ordered set of RIDs; separators are the least RIDs of children; nodes in the tree or the free list |
| key-value store, `myjql.c` | an index and two tables (records, strings) | `myjql_get`, `_set`, `_del` | a map from keys to values |

How they interact: `myjql.c` calls the index with comparison callbacks
(`compareptr`, `comparerow`) that read records and strings back from the tables;
`str.c` calls `table_insert`, `table_delete` and `table_read`; `table.c` calls
`block.c` on pages of one pool and `hash_map.c` on pages of another; every
component reaches its file through `get_page` and `release` of its pool.

Where it is hard:

- A pool has no real pin: `release` empties a slot whatever its reference count,
  a full pool takes slot 7 from its holder, and `get_page` takes the first empty
  slot before it looks for the page in later ones.  Slot 7 is also where `change`,
  which is -1, is used as an index: to exchange slots when its page is got again,
  and for the pointer returned when it is got at all.  That none of this bites
  depends on how the callers order their gets and releases.
- A block's deletion slides items and ItemIDs; an ItemID made available keeps no
  size; the last one is dropped.
- The map's buckets are stale after a deletion, list a block twice, and lose
  entries of other blocks.  The table must be right in spite of them.
- A string that fills its chunks must not end in an empty one; comparison
  walks two chains whose chunks end at different places.
- The B-tree updates a father while its own insertion or deletion is under way,
  at every level of the recursion, and its separators are not keys but RIDs of
  records: a stale one names a record that is gone.
- Two comparisons must agree: a search compares a key with stored ones
  (`compareptr`), an insertion stored ones with each other (`comparerow`).
- There is no recovery from a process that dies inside a call.  The code promises
  none, and only closing and reopening is modelled.

`PROJECT.json` lists the hazards line by line with the properties that cover them.

## 2. Modules

| module | models | kind |
|---|---|---|
| `PageStore` | what a pool promises: one array of pages, holders, growth | abstract specification |
| `BufferPool` | `buffer_pool.c` over `file_io.c`, under the callers of this repository | state machine, implements `PageStore` |
| `AnyCaller` | the same pool under a caller with no discipline | state machine |
| `BufferPoolProofs` | theorems about `BufferPool` and `AnyCaller` | proofs |
| `Heap` | what a keeper of items promises: fresh identifiers, stable items | abstract specification |
| `BlockOps` | the functions of `block.c` | operators |
| `Block` | one block and its user | state machine, implements `Heap` |
| `BlockOpsProofs`, `BlockProofs` | lemmas about `BlockOps`, theorems about `Block` | proofs |
| `HashMap` | the functions of `hash_map.c` | operators |
| `Table` | `table.c` over `BlockOps` and `HashMap` | state machine, implements `Heap` |
| `TableProofs` | lemmas about `HashMap`, theorems about `Table` | proofs |
| `Str` | `str.c` over the heap that `Table` promises | state machine, implements `Heap` |
| `StrProofs` | theorems about `Str` | proofs |
| `MCStr` | the strings `Str` is checked with | TLC instance |
| `Lex` | the lexicographic order that `Str` promises and `MyJQL` relies on | operator |
| `BTreeOps` | the functions of `b_tree.c` | operators |
| `BTree` | one index and its user | state machine over `BTreeOps` |
| `MCBTree` | the indexes `BTree` is checked from | TLC instance |
| `BTreeOpsProofs` | sound trees, and what one repair does to them: lemmas about `BTreeOps` | proofs |
| `BTreeProofs` | insertion, deletion and search on any sound tree; theorems about `BTree` | proofs |
| `MyJQL` | `myjql.c` over `BTreeOps` and the heaps that `Table` and `Str` promise | state machine |
| `MCMyJQL` | the keys `MyJQL` is checked with | TLC instance |
| `MyJQLProofs` | `compareptr` and the order of keys; theorems about `MyJQL` | proofs |

The layers are composed by their promises.  `Table` uses blocks and map pages as
plain values because `BufferPool` implements `PageStore`; `Str` uses a function
from RIDs to chunks because `Table` implements `Heap`; `MyJQL` uses functions
from RIDs to records and to whole strings because `Table` and `Str` implement
`Heap` and `Str` gives strings back (`Loads`) and orders them (`CompareIsOrder`).  `MyJQL`
uses the index itself, not a promise of it: its comparisons are of keys, and
change with the records.

**BufferPool.**  Addresses are page numbers and a page's contents are one value.
`pages`, `addrs`, `ref`, `empty`, `length` are the fields of the pool; `disk` is
the file.  `get_page` is `GetPage`, one disjunct for an empty slot (`Load`), a
slot with the page (`Hit`) and a full pool (`Steal`); `release` is `PoolRelease`.
`cnt` is left out: it only feeds `change`, and only on the path through a full
pool, which returns slot 7 without using it.  In the rest of `get_page`, `change`
is -1 (`Change`): a get that finds slot 7 for a page, empty or not, returns
`&pages[-1]` (`Handed`), and one that finds it a second time first exchanges it
with slot -1.  `LastSlotUnused` shows that under the callers of this repository
slot 7 is never in use, so none of the three happens.  `frame` and
`released` are the caller: `Get` and `Release` allow what `b_tree.c`,
`hash_map.c` and `table.c` do.  They take at most four pages at a time and give
them back last-got-first; `removeitem` and the loop of `hash_table_pop` give one
back out of order and then get nothing until the others are back;
`hash_table_pop` gets pages its caller already holds, and releases them under
it.  `ExtendFile` is `table_insert` adding to `file.length` by hand.  Failures
of the operating system's calls are left out: no caller looks at a result.
`PageStore` has a page from the moment it is got, the one behind the end of the
file with whatever its slot had; from then on only a store through a pointer
changes it, and releasing it, adding it to `file.length` and closing the file do
not.  `View`, what the callers see, takes a held page from its slot and any other from
the file, so a new page that `release` dropped or wrote wrongly would be seen.

**AnyCaller.**  The same pool under a caller that gets and releases what it
likes.  Such a caller comes to slot 7.  Two of the things that then happen have no
meaning to model, and a step stops short of them: the exchange, which puts bytes
of a page into `addrs`, and a store through `&pages[-1]`, where the struct has
the `FileInfo`.  So `EvictionWritesBack` speaks of what the slots have, not of such
stores.

**Block.**  A block is a record with its ItemIDs as records and its bytes.
A byte is the pair of an item's contents and a position in it, so that a byte in
the wrong place, or of the wrong item, is seen.  `head_ptr` is a function of
`n_items`, as every assignment of the code keeps it.  Both branches of
`new_item` are there, the one that reuses an ItemID with its odd offset
included; that it is never taken is a result (`SpentIds` in `IInv`).

**Table and HashMap.**  Block addresses are counted from 1.  The directory
pages are one function from sizes to first pages, the control block is `free`
and the number of map pages.  A map page's table is a sequence: `hash_map.c`
keeps the entries behind `n_items` at -1.  The space a deletion files a block
under, the pop after an insertion from a bucket the block is not in, the pop of
a first page's only address without a comparison and the duplicate check that
skips the last page are all as in the code.

**Str.**  A chunk is its next RID and its characters; a `StringRecord` is a copy
of one with an index.  The loops of `load_string` and `compare_string_record`
are recursive functions on the number of characters done; the assignments of
`compare_string_record` to the first byte of its own copies are left out, since
that byte is not read again.  `strings` remembers what was written.  Empty
strings, for which `write_string` reads in front of its argument, are excluded.

**BTree.**  A tree is a record: its nodes by page number, its root and its free
list.  A node is its rows and its children up to `n`; `child[0] == -1`, the
code's test for a leaf, is an empty sequence of children.  The recursion of
`insertnode` and `deletenode` is a path down (`Path`), a change of the leaf
(`InsertRow`, `RemoveRow`) and the code after the recursive call for each node
of the path from the leaf up (`InsertRepair`, `DeleteRepair`).  The functions under
them are operators: `splitnodes` (`Split`, its halves by `Part`), `brothers` and
`keybrothers` (`WithRoom`, `WithSpare`: a `Neighbour` of a size asked for), `moveitem` (`MoveItem`, with its direction found by a
comparison), `insertitem` and `removeitem` (`InsertChild`, `InsertRow`,
`RemoveChild`, `RemoveRow`).  What is left out, and why that is sound:

- `next` of nodes that are not free, and with it `leftest` and `rightest`: it is
  written and never read.  (The chain of leaves it was for is broken by
  `removeitem`, `b_tree.c:281`, which links a leaf to itself.)
- What the arrays hold behind `n`: `deletenode` may write a row there (`:685`,
  when the node freed was the last child) and `searchnode` compares one
  (`:61`), but nothing depends on it.
- `root->child[time] = mid` (`:452`, `:589`): the value is the one there.
- The branch `brother->n > DEGREE` (`:623`): `keybrothers` has looked already.
- The return without `release` (`:572`) and `child[-1]` (`:577`) of a deletion
  of what is not there: the callers have searched first, and `Separators` is
  what keeps the path right for what is there.

**MyJQL.**  `db` is the index, the records and the strings.  `myjql_set` and
`myjql_del` are one action each; `Erased` and `Written` are the calls they share,
in the code's order: a record leaves the index while its key can still be read,
and enters it when it can be.  `compareptr` is `ComparePtr`, whose rounds (`ComparePtrRound`) go over the
characters of the key and keep how far the stored key was read.  `dict`
remembers what the callers asked for.  Record RIDs are any that no live record
has; a string's RID is named after its record, which is only a name.  The
names that begin with `MyJQL`, and `RecordRID`, keep this module's definitions
apart from those of `BTree`, since `MyJQLProofs` rests on the theorems about it.

## 3. What TLC checks

No specification here has fairness and no liveness is claimed: the code is
sequential and every call is one action, so there is nothing to schedule.
Deadlock is checked in every run.

| run | bounds | what it shows |
|---|---|---|
| `BufferPool` | 3 slots, 2 pins, 3 pages, 2 contents, references up to 2 | pinned pages stay (`PinnedPages`), one copy (`OneSlotPerPage`), the last slot and the code for it are not reached (`LastSlotUnused`), and the pool implements `PageStore`, new pages included (`Transparent`), across write-back, close and reopen; `IInv` is the inductive invariant of the proofs |
| `AnyCaller` | 2 slots, 4 pages believed held, 3 pages | with the pool full and pages cached twice, what a slot has is in the file when its page leaves the pool (`EvictionWritesBack`) |
| `AnyCallerPinned` | the same | violation: a page got into the last slot is handed out as `&pages[-1]` |
| `Block` | 36-byte page, items of 2, 3 and 5 bytes, 2 contents | items tile the tail (`Tiled`), read back (`ReadBack`), and indexes are fresh (`IndexesAreFresh`, refinement of `Heap`) |
| `BlockReuse` | 30-byte page | violation: available ItemIDs are never used again |
| `Table` | 20-byte pages, items of 3 and 5 bytes, 2 addresses to a map page, 3 blocks | a RID reads back (`ReadBack`), blocks stay tiled (`BlocksTiled`), the map's pages stay packed disjoint chains (`FsmWellFormed`) with no address twice in a bucket (`FsmNoRepeats`), and the table implements `Heap` (`RidsAreFresh`); `IInv` is the inductive invariant of the proofs |
| `TableDuplicates` | the same | violation: a block is listed under two sizes after two insertions and two deletions |
| `TableEvicts` | the same | violation: an insertion drops another block's entry |
| `Str` | chunks of 2 characters, strings of 1 to 6 over 2 characters, 5 RIDs, symmetric | strings read back whole or cut (`Loads`), own their chunks (`ChunksOwned`), compare lexicographically (`CompareIsOrder`), and are a `Heap` (`StringsAreFresh`); `IInv` is the inductive invariant of the proofs |
| `BTree` | `DEGREE` 2 as in the code; from an empty index with 8 RIDs that come and go, a three-level index as sparse as can be (8 RIDs), and full indexes of two and three levels (6 RIDs of 18 and of 34) | no node outgrows its arrays (`TypeOK`), leaves hold the RIDs put in, in order (`InOrder`), separators are the least RIDs below them (`Separators`), the tree is balanced and nodes half full (`Balanced`), every page is in the tree or free, once (`NodesAccounted`), and search finds exactly what is there (`SearchFinds`) |
| `MyJQL` | 5 keys of one to three characters of which none is another and one more character (`KeysApart`, which the instance asserts of them), 2 values, 5 record RIDs, symmetric | `get` answers what was last set (`GetAnswers`), no row of the index names a deleted record (`RowsAlive`), records and strings are neither lost nor left behind (`NothingLeaked`) |
| `MyJQLFuzzy` | 4 keys, some another and one more character | violation: a key that was never set is found |

Why the bounds are enough for the cases that matter.  With 3 slots and 2 pins a
hole can open in front of a held page, which is the case `OneSlotPerPage` is
about; the proof covers 8 slots and 4 pins.  A 36-byte page holds four items,
so items are deleted above, below and between others and sizes differ; the
proof covers every page size.  Two addresses to a map page and three blocks
make chains of two map pages, full first pages, the free list and its reuse; the
five-byte item makes blocks that are offered and refuse.  Six characters in
chunks of two are a first, a middle and a last chunk, with exact and inexact
ends; five RIDs hold two strings of different shapes.  An index needs 13 RIDs to
reach three levels and more for an inner node below the root to split, too many
to let all of them come and go; so
`MCBTree` starts from indexes that were built by the same operators, and lets
some of their RIDs come and go.  Between them the starts reach a split, a move
either way and a merge of leaves and of inner nodes, a new root over leaves and
over inner nodes, its collapse, and splits that take nodes from the free list.
Five keys are the least with which the index of `MyJQL` splits and merges; the
keys include proper prefixes, two characters shorter.  `MaxPages`, `MaxRef`,
`MaxFrame`, `MaxBlocks` and `MaxLength` are the only bounds that are not in the
code.

Where the code departs from its documents, the run that shows it fails as
expected; `PROJECT.json` quotes the lines:

- `get_page` locks a page, says `src/README.md:15`; one that takes slot 7 for it
  returns a pointer in front of the pool's pages (`buffer_pool.c:88`).
- "available (for future use)" ItemIDs (`MyJQL/include/block.h:24`) have no future.
- `table_delete` breaks the request of `MyJQL/include/hash_map.h:40` for no
  duplicate addresses: it files a block under the space it had, and a second
  deletion on the block files it again.  (An insertion first takes out the entry
  it was offered.)
- `table_insert` breaks that of `hash_map.h:46` that a popped address exist, and
  another block's entry is lost: its free space is not offered until a deletion on
  it files it again.
- `myjql_get` finds a key that does not exist (`MyJQL/include/myjql.h:17` says it
  returns -1) when it is a stored key and one character more: `compareptr`
  ignores the last character of a key where the stored one has ended
  (`myjql.c:117`).  `set` and `del` of such a key delete the other's record.

Those about the map waste space and do no worse: `Table` shows that data stays right.

Every property is also checked against a mutant of the code it is about (the
definitions commented "Mutant of"), which it must reject.

## 4. What is proved

Every theorem holds for all values of the constants that satisfy the `ASSUME`s of
the modules.  They go from the pages up, each layer through the promise of the
one below it: the pool implements `PageStore`; block, table and strings each
implement `Heap`; the index is an ordered set of rows; and on the index and the
heaps stands the map of keys to values.  Every property a passing run checks is
stated by a theorem.

**`BufferPoolProofs`**, for any number of slots, any number of pins below it, any
number of pages and any contents (`PoolAssumption`).  `MaxPins < CACHE_PAGE` is
the assumption that carries everything; the code has 4 and 8.

- `SlotsMirrorFrame`: `Spec => []IInv`.  The properties are not inductive alone:
  that no page is cached twice depends on no held page having an empty slot in
  front of it when a get comes.  `IInv` says why: slot i holds exactly the i-th
  page of the caller's frame, and slots whose page was given back out of order
  are empty, and then nothing is got until the frame is empty (`MirrorInv`,
  `FrameInv`); a page nobody holds is on disk, and nothing lies behind the
  file's length (`FileInv`); a closed file has no gaps (`ClosedInv`).
- `TypeCorrect`, `PagesStayPinned`, `NoSecondCopy`, `LastSlotStaysFree` follow.
- `PoolIsTransparent`: the pool implements `PageStore`.  The refinement mapping
  takes a page from the slot that holds it and from the disk otherwise; under
  `IInv` a get, a store, a release and a close are the store's steps of that name,
  a get of the page behind the end adds it, and growing `file.length` and
  reopening are not seen.
- `NothingUnwritten`: the action property of `AnyCaller`, for a caller that holds
  as many pages as it likes, releases what it likes and stores in the pool only.
  Its invariant
  (`AnyInv`) is what is left of order then: an empty slot has no address, and a
  slot's page is in the file or just behind its end, where `write_page` accepts it.

**`BlockOpsProofs`** and **`BlockProofs`**, for any page size, item sizes and
contents (`BlockAssumption`).

- The lemmas say what `InitBlock`, `NewItem` and `DeleteItem` do to any sound
  block; `Block` and `Table` both rest on them.
- `BlockStaysSound`: `Spec => []IInv`, where `IInv` joins the tiling, the
  agreement with what the user put in, and that available ItemIDs have size 0.
  The last is what rules out the reusing branch of `new_item`, whose offset
  would be wrong; without it the tiling is not inductive.
- `BlockTypeCorrect`, `ItemsTileTheBlock`, `ItemsReadBack` follow.
- `BlockIsAHeap`: the block implements `Heap`, step by step.

**`TableProofs`**, for any number of buckets and of
addresses to a map page, and everything a block is proved for.

- The map's buckets and free list are linked lists, found by recursive
  functions.  `SoundMap` has them as sequences of pages (`Chains`): linked in
  that order, and every page in one place of one of them (`Layout`); free pages
  empty, and all pages of a bucket but the last full (`Packed`); no address
  twice in a bucket (`Distinct`).  `Packed` is why the duplicate check of
  `hash_table_insert`, which skips the last page, and the search for the last
  address of a page in `hash_table_pop` do no harm.  The lemmas show that
  `Insert`, `Pop` and `PopLowerBound` of `HashMap` keep it for any
  map, each case of the code in turn.
- `TableStaysSound`: `Spec => []IInv`: blocks are sound, every live RID reads
  back, and the map is sound over the blocks of the file.  Nothing in it says that a
  block has the space its bucket stands for: that is not so, and not needed,
  since `new_item` looks again.
- `TableTypeCorrect`, `TableReadsBack`, `BlocksStayTiled`, `MapStaysWellFormed`,
  `MapNeverRepeats` follow, and `TableIsAHeap`: the table implements `Heap`.
- Assumed, and so in the code: a map page holds more than one address
  (`HASH_MAP_BLOCK_SIZE` is 14; with one the packing is lost), and a page's free
  bytes are less than the number of buckets (`table.c:9` asks for `PAGE_SIZE /
  HASH_MAP_DIR_BLOCK_SIZE` directory pages, which makes 128 buckets for the 122
  bytes of an empty block).

**`StrProofs`**, for any length of a chunk, any RIDs and any strings.

- `StringsStayLaidOut`: `Spec => []IInv`: each string is cut into chunks of its
  own (`Part`), whose RIDs (`Trail`) are distinct, are linked in order and end
  there, and no chunk is anybody else's or nobody's.  The lemma `Rounding` is
  the arithmetic of `write_string`: the last chunk is never empty, exact
  multiples of the chunk length included.
- `StringsReadBack`, `ComparisonIsLexicographic`: the loops of `load_string` and
  `compare_string_record` go from character to character of the string
  (`At`, `Reads`), whichever chunk it is in.  The first is for any number of
  characters asked for from one on (`load_string` stores one even if asked for none).
- `ChunksHaveOneOwner`: `delete_string` follows exactly the chunks of its string.
- `StrTypeCorrect`, and `StringsAreAHeap`: the strings are a `Heap`, as `MyJQL`
  takes them to be.

**`BTreeOpsProofs`** and **`BTreeProofs`**, for any `DEGREE` of 2 or more, trees
of any height and any order of the rows: `cmp` is whatever function `IsOrder`
holds of, since in `MyJQL` it is a comparison of keys.

- A tree is described by two functions on its nodes that no file holds: `H`, the
  height of a node (1 for a leaf, 0 for a free node), and `K`, the rows in the
  leaves below it.  `Good(t, H, K, X, cmp)` says that with them every node in use
  has children one level lower, that the rows below its children are apart and
  in order, that its own row for each child is the least below that child unless
  the place is in `X`, that different nodes of a height share no row and each
  but the root has a father, and that the nodes of height 0 are the free list,
  once each, and empty.  `Sound` adds that nothing is out of date and that
  sizes are right (`SizedBut`).
- Why `X`: in the middle of an insertion or deletion the rows of the nodes on the
  way may be out of date, and one node a row too large or too small.  Each
  function of `b_tree.c` is shown to keep `Good` with that much disorder:
  `splitnodes` (`SplitGood`, and with a new root above it), `moveitem` in both
  directions (`PairMoved`), the merge into either neighbour (`MergeAbsorbs`), the
  collapse of the root.  A repair (`InsertRepaired`, `DeleteRepaired`) then moves the
  disorder one level up, and takes its own place out of `X`; at the root there
  is none left.  What a repair does is stated once for a window of children that
  becomes another window with the same rows below it (`WindowGood`).
- `InsertGood`, `DeleteGood`, `SearchIs`: `b_tree_insert`, `b_tree_delete` and
  `b_tree_search` on any sound tree.  The last is for any signs that agree with
  a row of the order, there or not, so that a key can be looked for.
- `Soundness`: `Spec => []IInv`, where `IInv` is that the tree is sound and its
  rows are `set`.  `TypeOK`, `InOrder`, `Separators`, `Balanced`,
  `NodesAccounted`, `SearchFinds` are not inductive, not even together: they speak of a
  tree between two calls, and an order by recursion down a tree is no use before it
  is known that the recursion ends.  `BTreeTypeCorrect`, `Ordered`, `Separated`,
  `StaysBalanced`, `NothingLost` and `SearchCorrect` derive them.
- `H` and `K` are existentially quantified, and no run evaluates `IInv`: a tree
  has far too many candidates.  What TLC checks of it are the six properties,
  which say of `Below` and `Height`, found by recursion, what `IInv` says of some `K` and `H`.

**`MyJQLProofs`**, for any set of keys that are apart, any values and any record
RIDs that are enough.

- `ComparePtrIsOrder`: `compareptr`, character by character with its tests of
  lengths and NULs, agrees with the order of whole keys, if no key is another one
  and one character more and none has a NUL after its first character
  (`KeysApart`).  This is the only hypothesis beyond the `ASSUME`s, and it is
  what the code needs, not what the proof does: without it `MyJQLFuzzy` finds the
  wrong key.  `MCMyJQL` asserts it of the keys of `MyJQL`, and its negation of
  those of `MyJQLFuzzy`.
- `Agreement`: `MyJQLSpec => []MyJQLIInv`.  There is a set of records, with a key
  and a value for each (`Description`), such that the tables hold just these and
  their strings, no two have the same key, the index is sound with these rows
  **for the order of their keys**, and `dict` maps the keys to the values
  (`Recalls`).  The order changes with every record written or erased, so `Sound`
  must not notice rows that are not there: `SoundUnder` shows that a tree which
  is sound for one order is for any other that agrees on its rows.
  That the key of a record still can be read when its row leaves the index, and
  already can when it enters, is where the order of the code's calls is used.
- `MyJQLTypeCorrect`, `GetCorrect`, `RowsLive` and `NothingLeaks` follow.
- The module extends `BTreeProofs` for `InsertGood`, `DeleteGood` and `SearchIs`.  It
  inherits the constant `RID` and the assumption about it, which `MyJQLSpec` does
  not mention.

Recursive functions.  The induction theorems of the library cannot be used, for
they take an operator.  Induction is stated for sets instead (`SetInduction`): a set
of numbers that has 0 and the successor of each of its members is `Nat`.  From
it follows that the recursive functions of the models exist and what their values are: a
chain of map pages, the loops of strings, a walk down a tree (by the heights of nodes:
a lower node's value does not depend on a higher one's), the repairs on
the way up, the rounds of `compareptr`.  The proofs collect in a set the positions where
a function has the value it should.

What is only model-checked: the five runs that expect a violation, since a
counterexample is an instance.  No theorem is about liveness or enabledness: there is
none to state, since a call is one action and runs to its end.

## 5. Not modelled

Every component of the program is modelled, and what the plan set out to prove is
proved.

Left out for good: the commented-out printing functions, the build file, I/O
errors (ignored by the code), and crashes inside a call: pages reach the files
one by one, `myjql_set` deletes before it writes (`myjql.c:264`), and no
recovery exists that could be checked.  Empty keys and values are excluded: the
code reads outside them.  There is no liveness to check: a call runs to its end
before the next one begins.
