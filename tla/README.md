# mepl in TLA+

A verification development for *mepl*, "the me programming language", and the
data structures its author tries out beside it. It holds TLA+ modules for the
parts of the repository that have behaviour worth checking, the TLC
configurations that check them on small instances, and theorems about all of
them but the tries that TLAPS proves for every value of the constants.

    tlc -config MCDstr.cfg MCDstr        # model-check one instance
    tlapm DstrProofs.tla                 # check one proof module

Paths below are relative to `src/`.

## 1. The system

Two programs and a dozen experiments share the repository.

    c/main.c -> c/src/lex.c -> buf/src/stdio.c -> fgets(stdin)
                          \--> lib/src/dstr.c  -> malloc, realloc, free

The compiler so far is a lexer and a loop that prints its tokens. `lib` and
`buf` are its libraries; `buf/test` copies a file character by character through
each kind of buf and compares the copy. `ideas/*` are stand-alone programs, each
with one data structure. Nothing is persisted and no messages are sent. Two of
the experiments, `slab` and `dynarr`, use threads.

| component | state | operations | what is hard | what makes it correct |
|---|---|---|---|---|
| dynamic string, `lib/src/dstr.c` | capacity, length, current block, heap block, the block in the struct | init, push (grow), clear, move, free | two representations and the switch between them; ownership of the heap block; growth at the boundary; realloc that fails | holds what was pushed; terminated inside its capacity; every block has one owner |
| buf on a descriptor, `buf/src/unix.c` | descriptor, data array, position | init, getc (fill, read, next), free | short reads, stale bytes behind the terminator, the array's last byte, end of file asked for again | delivers the file once, in order; BUF_EOF at its end and not before |
| buf on a stream, `buf/src/stdio.c` | stream, data array, position | the same, by `fgets` | lines shorter and longer than the array; a fill that finds nothing leaves the old state | the same |
| bufs on strings, `buf/src/cstr.c`, `nstr.c` | string, position (length) | init takes the string, getc, free gives it back | end by NUL or by length; ownership | the same; the string has one owner |
| lexer, `c/src/lex.c`, and `c/main.c` | type, lexeme (a dstr), putback, the buf | next, character functions, keyword table | refills and growth in the middle of a token, the character that ends a word, end of file inside a literal | tokens are spelled in the source; none is cut, merged or lost; the loop ends |
| slab table, `ideas/slab` | per type: a free stack, its pointer, a mutex and a condition | get (waits), put, init, lookup by hash, exit check | put takes no lock; waiting and waking; spurious wakeups | one holder per object; none lost; no sleeper beside a free object; full at exit |
| free list, `ideas/free` | list of nodes, each a pool, a bitset, a search position and a count; a ring of cached nodes | get, put | search position moves both ways, count goes one way | one holder per object; the search never fails; the list stays whole |
| kept pointers, `ideas/dynarr` | array, capacity, length, the pointers to keep; a list of structs; two mutexes | init, push (grow), add_ptr, rm_ptr, free; the threads | growth while pointers into the array are kept; locks let go and taken again; two lists freed in order | no push lost; kept pointers lead into the array; all memory comes back |
| pointer sets, `ideas/ptrset` | a trie of 16-bit chunks, its children in an array, list, growing array or red-black tree | new, add, has, free | rebalancing through parent pointers, moving arrays | a set: has exactly what was added |
| hash table, `ideas/ptrset/hash.c` | an array of chains, a count of links, a seed | new, set (grow), has, free | a walk that ends by the count of links and not with the table, and relinks the chains under itself | the same set; each link in the chain its hash leads to; walks end inside the table |
| AST visitors, `ideas/ast` | the indentation of the dump visitor; a stack of three registers | dump and generate code for values, operators and declarations | callbacks that share state; nesting deeper than the stack; reads beside its top | the dump nests as the expression does; operands are in the registers the code names |
| heap, `ideas/heap` | the break, a ring of free nodes, a count of nodes | get (first that fits, else `sbrk`), put, free | links mended at both neighbours; the break is shared with the C library; no merging, one size | a node is free or held, never both; the break comes back to where it was |
| second slab, `ideas/slab_v2` | nodes, bitsets, rings | get, put | | does not compile |
| hash generator, `scripts/hashgen` | a table | search for a size without collisions | | a perfect table |
| generators in shell and awk, `scripts/*` | none | text | | |
| `ld`, `ideas/ld`, `ideas/ast.c`, `arch` | none | sketches and lists of names | | |

How they interact: by calls and ownership. A buf owns its source between init
and free, `struct lex` borrows a buf and owns a dstr, `dstr_move` passes the heap
block to its caller. The threaded experiments share memory under mutexes, except
where they do not. Callbacks are the table of character functions and the visitors
of `ideas/ast`, which the nodes of an expression call back and which visit the
operands in turn.

The hazards that follow from this, each at its line and with the properties that
would catch it going wrong, are listed in `PROJECT.json`.

## 2. The modules

| module | models | refines | proofs |
|---|---|---|---|
| `Str` | what `lib/include/dstr.h` promises | | |
| `Dstr` | `lib/src/dstr.c` | `Str` | `DstrProofs` |
| `Bytes` | what all bufs share: bytes, the special ones, the size of an array | | |
| `ByteStream` | what `buf/include/buf.h` promises | | |
| `BufUnix` | `buf/src/unix.c` | `ByteStream` | `BufProofs` |
| `BufStdio` | `buf/src/stdio.c` | `ByteStream`, by `Buf` | `BufProofs` |
| `BufStr` | `buf/src/cstr.c` and `nstr.c` | `ByteStream`, by `Buf` | `BufProofs` |
| `Buf` | `struct buf` over the four structs, composed of the three above by INSTANCE | `ByteStream` | `BufProofs` |
| `Lex` | `c/src/lex.c` with `c/main.c`, composed of `BufStdio` and `Dstr` by INSTANCE | | `LexProofs` |
| `SlabTab` | one entry of `ideas/slab/slab_tab.c` over `slab.h` | | `AllocProofs` |
| `FreeList` | `ideas/free` | | `AllocProofs` |
| `Darr` | `ideas/dynarr/main.c`, threads included | | `DarrProofs` |
| `PtrSet` | what `ideas/ptrset/ptrset.h` promises | | |
| `KidTree` | the red-black tree of `bst_set.c`, as operators on a record of links | | |
| `TrieSet` | the four sets of `ideas/ptrset`, over `KidTree` by INSTANCE | `PtrSet` | `TrieSetProofs` |
| `Hash` | `ideas/ptrset/hash.c` | `PtrSet` | `HashProofs` |
| `Ast` | `ideas/ast`: both visitors, the register stack, main | | `AstProofs` |
| `Heap` | `ideas/heap/main.c` | | `AllocProofs` |

Each `MC*` module extends the module it is named after and gives TLC values to
choose from; the `.cfg` of the same name is the run that must pass, the other
two configurations, `SlabRace` and `BstCrash`, show a divergence (section 4). Definitions under a comment
that begins "mutant:" are small errors in the code that the properties must
find; no specification uses them.

Conventions. Variables have the names of the struct fields they model. A block of
memory is a function from indices to bytes, a pointer into one is its index, the
null pointer is a block without indices. `Junk` is a byte nobody has written
since the allocator returned it. `die()`, `usage()` and a failed `dbug()` check
end the process: they set `proc` (or `pc`) and no action is enabled afterwards.
Variables marked "history" in their declaration are not in the code and no guard
reads them, save that the positions of file and stream double as the kernel's
and libc's own state.

### Dstr

One action per operation of `dstr.h`. `Push` is `dstr_push` with the `dstr_grow`
it calls: the block after `realloc` has the old block's bytes and `Junk` behind
them, and when the string leaves the struct it is `strcpy` that brings its
characters over, up to the first NUL (`Strcpied`). `PushDies` is the `realloc`
that returns NULL. `Move` has both builds: under DBUG a short string exits, in the
other build the code returns `d_heap`, which is NULL. `Release` is the caller's
`free` of a string that was moved to it. `Reinit` is `dstr_init` of a freed struct.

### BufUnix, BufStdio, BufStr, Buf

`b_getc` is one action, split by the backend's own branches: a character that is
there (`GetcBuffered`), or a fill and what follows it (`GetcFilling`). `read()`
returns any count from one to what was asked for, and zero only at the end of the
file (`ReadCounts`); `fgets()` takes through the first newline, one less than the
size, or what is left (`LineLen`). Both leave older bytes behind the terminator,
and so do the models. A byte of 0xFF becomes -1 when it is promoted from a signed
char (`AsInt`), which is BUF_EOF; `GetcDies` is a read error.

`ByteStream` says what the four have in common: characters one by one and
BUF_EOF when and only when the source has ended; free and init start over, over a
string at its beginning and over a file somewhere behind what was delivered, for
what was read ahead goes with the struct.

`Buf` is what a caller such as `buf_test` holds: which struct is behind `b_getc`
is chosen at init, and a step of the buf is a step of that struct. The four share
the variables of `Buf`, so one refinement mapping serves them all.

### Lex

The program as it runs: `Init` is `main` up to its loop, a step is one pass of one
of the lexer's loops, so one character at most is read. `pc` says which loop is
running; `NextSkip` and `Dispatch` are `lex_next`, `IdPush` and `IdEnd` are `id`,
`StrGetc`, `StrPush` and `StrEnd` are `str`, `PrintToken` and `Finish` are main.
The buf and the lexeme are the modules above, with their own failing reads and
allocations (`Dies`). Bytes are classes: `isspace`, `isalpha` and the table
`CHAR_FN` are all the code knows of them. `CHAR_FN` has `id` for lower-case
letters only, so a word may hold but not begin with an upper-case letter.

### SlabTab

One entry of the table after `slab_tab_init`. `slab_tab_get` runs under the mutex,
one step per access: `Lock` (also `pthread_cond_wait`'s second lock), `Test`,
`Block` (sleep and unlock are one step), `Read`, `Dec`, `Load`, `Unlock`.
`slab_tab_put` takes no lock, so it is as fine: `*sp->fp++ = *pp` is a read of
`fp` and two stores, in either order, `PutRead`, `PutStep`, `PutStore`, and then
`Signal`, which wakes any one sleeper. `WakeSpuriously` is what POSIX allows.

The code does not say what callers may do at the same time, so the model asks:
under "any" they call when they like; under "phased" nobody puts beside a running
call; under "serial" the only other calls are gets that sleep. `disc` is chosen at
the start and never changes, so one run covers several. In the program of the
directory all calls come from one thread, which both of the latter contain.

### FreeList

`freelist_get` is `GetOld` (the first node with a count, moved to the front) or
`GetNew`; both end in `NodeGet`, which looks for a zero bit from the word `last`
on. `freelist_put` is `Put`. A node is a number, its bitset the set of its one
bits, a handed-out pointer a pair of node and bit. The loop of main over random
gets and puts becomes gets and puts in any order, of any object that is held,
which contains main's "last in, first out" and its final sweep. The ring of cached
nodes is not in the model because no node ever gets there: `freelist_put` returns
unless `fn_count` is `POOL_SIZE`, and the count never goes up. That is a property
of the model (`RingUnreached`) and a theorem, so leaving it out loses nothing.

### Darr

`add_num` by several threads, a step for each access to shared memory: `Begin`
takes `nums_mut`, `Grow`, `Store` and `Inc` are `intarr_push`, and for an even
number `Release`, `Malloc`, `LinkRead`, `Link`, `Again` and `AddPtr` let it go,
put a struct into the list under `ptrs_mut` and come back to keep a pointer to a
random element. `Free` (with its join) and `PtrsFree` are the end of main. A
pointer is a block and an index, so a pointer into a block that `munmap` took is
told from one that leads into the array. `intarr_grow` ends with
`dp->d_arr = arr`, where `arr` is still NULL, and the model does what it does:
the store behind it ends the process.

### TrieSet

A pointer is a sequence of chunks, and a node of the trie is known by the chunks
that lead to it; an edge is NULL exactly when no node has its path. What a node
keeps depends on the set: nothing (`fixset.c`, whose edges are an array), a
sequence of chunks (`list_set.c`), a sequence and a capacity (`dynarr_set.c`), a
tree (`bst_set.c`). `ps_add` is `Begin`, a round of the loop over the chunks per
chunk (`FixsetRound`, `ListRound`, `DynarrRound`, `BstRound`) and `Leaf`. The
search of a list and the growth of an array are part of their round; `kid_fix` is
not: each round of its loop is an action (`FixRecolours`, `FixTurns`,
`FixReturns`), so that the invariants are checked between them.

`KidTree` has the trees as the code has them, with links down, a link up and a
colour per kid, the root that `kid_fix` carries (`root`) and the one the node has
(`kids`). `Rotated` is `kid_rotate_left` or `kid_rotate_right` by its side;
`Turned` is the code's sequence of rotations and colours, with its variable
`parent` as it is, not as a textbook has it (section 4).

Where the code goes on behind its memory or through NULL, the model stops:
`DynarrOverruns` and the other end of `Has` set `pc` to "overrun", `FixCrashes` to
"crashed". `Dies` is a failing `calloc` or `realloc`, where there is one. `Has` and
`HasReturns` are `ps_has`, which main does not call and `ptrset.h` offers; `Free`
takes what a walk from the root comes to. Callers add a pointer once, as main does.
`ps_bytes` is left out; it is only printed (and `bst_set.c` does not count kids).

### Hash

`HASH_FOR_EACH_SAFE` is two nested loops, the outer one over the indices of the
table "while fewer than `len` links were seen", the inner one over a chain, with
the successor read before the body runs. One action is one round: `NextIndex` of
the outer loop, `GrowMove` and `FreeLink` of the inner one in `hash_grow` and in
`hash_free`, `GrowEnd` and `FreeEnd` behind them. `NextIndex` reads `tab[i]`
wherever `i` is, so a walk that does not see all links runs into "overrun".
`SetFound`, `SetNew` and `Link` are `hash_set` in front of the growth and behind
it. What `hashfn` does with the bits of a pointer and the seed is any function,
one per table. `Dies` is a failing `ZALLOC`. A chain (`ChainOf`) is what its pointers
lead to: the least set that holds the first link and, with a link, the one behind it.

### Ast

A node is known by its path from the root, an expression is a set of paths, and
the path that is visited is the stack of calls. `DumpLeft`, `DumpRight` and
`DumpEnd` are the three pieces of `bin_op_dump` that its two calls of `a_visit`
cut it into, `GenLeft`, `GenRight` and `GenOp` those of `bin_op_gen`; `DumpPrim`
and `GenPrim` are the callbacks for a value. The register stack is the array and
the index of `reglist.c`, with `reglist_last` and `reglist_put` as they count
(`LastSlot`, `Refilled`); `GenDies` is `reglist_get` of an empty one. `VarDefDump`
is the end of main: a variable definition whose initialiser nobody set. Main
builds one operator on two values; the model takes any expression.

### Heap

Addresses count in nodes, and 0 is `h_head`. `HeapGetFree` takes the first node of
the ring, `HeapGetNew` one from `sbrk` that goes into the ring and out again,
`HeapPut` puts a node behind the head; each of these is the sequence of link updates of
`heap_node_add` and `heap_node_rm` (`AddNext`, `AddPrev`, `RmNext`, `RmPrev`). A
request is served by a node of the ordinary size, whatever it asks for. `HeapFree`
moves the break down by `h_count` nodes from wherever it is. Others, such as the
`malloc` inside `puts`, move the break up and take back only what is theirs
(`OtherGrows`, `OtherShrinks`).

## 3. What is checked

The runs that must pass, with their states:

| run | instance | properties |
|---|---|---|
| `MCDstr` | struct holds 2 characters, strings up to 5: two doublings | `TypeOK`, `DstrOk`, `ContentsOk`, `NoLeak`, `ImplementsStr` |
| `MCBuf` | all four structs; array of 3, every text of up to 5 characters with newlines, and NUL for nstr | `TypeOK`, `BufferedIsAhead`, `ImplementsByteStream` |
| `MCLex` | every source of up to 4 classes, and longer ones with the keyword; array of 3, lexeme outgrows its struct at 2 | `TypeOK`, `TokensAreSource`, `MaximalMunch`, `Accounting`, `Terminates` |
| `MCSlabTab` | 3 threads, 2 objects, "phased" and "serial" | `SlabTypeOK`, `NoDoubleHandout`, `Conserved`, `WantedIsServed` |
| `MCFreeList` | 2 nodes of 2 words of 2 bits | `TypeOK`, `ListOk`, `BitsAreHeld`, `NeverCorrupt`, `RingUnreached` |
| `MCDarr` | 2 threads, 6 numbers, a capacity of 4 and one of 8 | `TypeOK`, `NothingOverwritten`, `PointersLead`, `AllReturned`, `Terminates` |
| `MCTrieSet` | pointers of 2 chunks: 5 kids in any order or up to 12 along `Tracks` for the tree, 3 for the others, and two that share their first chunk | `KidsInOrder`, `RedBlackOutside`, `NoLeak`, `ImplementsPtrSet`, `AddReturns` |
| `MCHash` | 6 pointers with any hashes out of 0, 5 and 10; capacities 2, 5 and 11 | `Chained`, `ImplementsPtrSet`, `CallsReturn` |
| `MCAst` | every expression of up to 5 values, 3 registers as in the build | `DumpNests`, `RegistersRunOut`, `SourceIsLeft` |
| `MCHeap` | 5 nodes, requests of a node's size and of one byte more | `RingOk`, `BreakRestored` |

What they show:

* *Dstr* — `ContentsOk`: through every growth the string holds what was pushed.
  `DstrOk` is the code's own `dstr_ok`, at the entry of every operation. `NoLeak`:
  a live block belongs to the string or to a caller it was moved to, never to both
  or to nobody. `ImplementsStr`: callers cannot tell when it leaves the struct, and
  what they get from `dstr_move` is the whole string.
* *The bufs* — `ImplementsByteStream`: whichever struct is behind `b_getc`, callers
  get the characters of the source one by one and BUF_EOF when and only when it has
  ended. `BufferedIsAhead` relates the array to the file: what lies between the position
  and the terminator is exactly what was read and not delivered, so no stale byte
  of a longer line is ever seen and none is dropped. The claim that `buf/test` makes
  with `diff` is `CopyIsSource` of `BufUnix`, a theorem (section 5).
* *Lex* — `TokensAreSource`: each printed token is spelled in the source at the
  place it was dispatched from, whatever refills and growth lay between.
  `MaximalMunch`: the character behind a word is no letter. `Accounting`: at the
  end every character is part of a token, blank, or the one that ended a word, so
  where blanks follow the words nothing is lost.
* *SlabTab* — when calls keep to the discipline: `NoDoubleHandout` and `Conserved`
  (no object lost or doubled, so the program's own exit check finds the slab full),
  `WantedIsServed` (an object that is put while threads sleep finds one of them).
* *FreeList* — `BitsAreHeld`: an object has at most one holder. `NeverCorrupt`: the
  -1 of a failed search, which the code uses as an index before it tests
  anything, never occurs, although zero bits below `last` are not seen.
* *Darr* — `NothingOverwritten`: no push is lost, although `add_num` lets its lock
  go half way. `PointersLead`: what the array keeps leads to an element of a mapped
  block, also for threads that are elsewhere during a growth, and lies in a struct that is
  not freed yet. `AllReturned`: no struct, block or pointer is left at the end.
* *TrieSet* — `ImplementsPtrSet`: all four answer as one abstract set does, but for
  the last chunk, which `fixset.c` never looks at. `KidsInOrder` is what a search
  relies on, checked behind every single rotation; `RedBlackOutside` is balance,
  of the trees that were never given a kid between its parent and its grandparent.
  `NoLeak`: `ps_free` comes to every block. `AddReturns`: `kid_fix` climbs, also
  over trees that are out of balance.
* *Hash* — `Chained`: during a growth the links are split between what the walk has
  before it and the new table, behind it each is where a search looks for it, and
  `len` counts them, which is what makes a loop safe that ends by a count.
  `CallsReturn`: no walk reads behind the table. `ImplementsPtrSet` holds through two
  growths and all degrees of collision: it is the abstract set of the tries.
* *Ast* — `DumpNests`: the two callbacks keep the one number they share right through
  any recursion. `RegistersRunOut` and `SourceIsLeft` say what the register stack
  makes of an expression: one operator on two values gets its code, with the left
  operand as its source; no register is ever free again and whatever is larger ends
  in `die()` (section 4).
* *Heap* — `RingOk`: the links in both directions lead through the free nodes and no
  other. `BreakRestored`: `heap_free` takes off the break exactly what `heap_get` put
  on it; the model shares the break with others because the program does.

**Bounds.** `SHORT`, `SIZE`, `WIDTH`, `WORDS` and the capacities are small so that
every boundary is crossed several times: two doublings of a heap block, three
fills of an array, lines shorter than, as long as and longer than it, both words of
a bitset full, empty and partly used in both nodes, an array that must grow and one
that need not. Beyond that a larger size adds no new branch, and
the proofs remove the bounds (but for liveness).
Two chunks give a trie an inner node and a leaf, and two pointers with the first
chunk in common share a node; four chunks repeat this. Five kids in every order
reach each case of `kid_fix` at a new kid; that a recolouring leaves two red kids
further up takes eight, and twelve when the turn up there is an inner one below the
root. For these the tree follows fixed orders (`Tracks`), found by running
`kid_fix` on random ones. Three threads let one put while one sleeps and one is on its way; with two
objects the slab runs empty. `MaxLen` and `MaxGiven` bound what callers of a dstr
ask for; in `Lex` `MaxLen` is above the longest source and never stops a step.
`MaxNodes` bounds the free list's gets, `MaxBreak` the nodes of the heap: with five,
two free nodes can have a held one and one of others between them, and a node can be
taken from a ring of three. In `MCHash` the hashes 0, 5 and 10 all collide under
capacity 5, fall into two chains under 2 and apart under 11, so a growth splits
chains, joins and reverses them; pointers differ by their hashes only and are added
in the order of their numbers. In `MCAst` `N` bounds the values: with five, every
shape has an operator on two operators, on either side, and runs out of registers
before, between and behind its operands. `PutStore` does not take a store behind the
array (it would overwrite `fp` itself); only "any" would reach it. Each bound is
named in the module that has it.

**Fairness.** `Lex` is one thread that never waits: weak fairness of its steps, the failing calls not
among them.
`SlabTab` has weak fairness of each thread's steps inside a call, and none of the
calls: callers may never call again. `Darr` has weak fairness of each worker and of
main, which is what a scheduler gives threads that can run; a mutex that is free
for ever is taken in the end because whoever waits is the only one left.
`Hash` has weak fairness of the rounds of its walks and of the link behind them.
`TrieSet` is one thread: weak fairness of the steps inside an addition, not of the
failing allocations and not of the callers.
`Terminates` counts an exit as an end: allocation and reads may fail.

**Deadlock** is off in every configuration, as each of these programs ends, and in
`SlabTab` every thread may wait for a put that nobody makes. `Terminates`,
`AddReturns`, `CallsReturn` and `WantedIsServed` say what deadlock checking would have.

## 4. Where code and text disagree

Two configurations show that a statement of the repository does not hold; TLC
prints the behaviour.

* `SlabRace` — `slab_tab_put` updates the stack without the mutex
  (`slab_tab.c:184`), so two puts can lose one update of `fp` and the check at exit
  (`slab_tab.c:64-73`) finds the slab not full. One thread, which is how the
  directory's program runs, is covered by `MCSlabTab`.
* `BstCrash` — `ptrset_test` adds whatever pointers `malloc` returns
  (`ptrset/main.c:68`), but `kid_fix` goes on with a stale `parent` behind the first
  of two rotations (`bst_set.c:262`, `:278`): the one it paints black is the lower
  one, the upper stays red and the loop goes on. Where the upper one is the root its
  parent is NULL and is read: three additions whose first chunks come high, low,
  between suffice.

Others were met while modelling and have no run of their own.

*Strings and the lexer.* `dstr_push` takes any `int c` and adds it to the end
(`dstr.h:45`), but a NUL pushed before the string leaves its struct ends the
`strcpy` of `dstr.c:128`, and what was behind it is lost. `l_putback` is the
"putback character" (`lex.h:35`) and `lex_getc` serves it first, but nothing sets
it: `id` reads the character behind a word and drops it, so `a=` prints no
assignment (`lex.c:446`). Without DBUG `dstr_move` of a short string returns NULL
and drops the characters (`dstr.h:71-77` promises the string). Bytes 0x80 to 0xFE
reach `CHAR_FN` as negative indices (`lex.c:436`).

*Bufs.* A NUL byte in a file
looks like an empty buffer to `buf_unix` and `buf_stdio`, which then drop what
follows it or, `buf_unix`, end the file there. A byte of 0xFF is read as BUF_EOF by
all four bufs. The passing runs of the bufs and the lexer are about text: neither
NUL (but for nstr) nor 0xFF.

*Free list, array, pointer sets.* A node of the free list whose
objects are all back never reaches the ring (`free/main.c:119`), so nodes are never
reused or freed. `intarr_grow` leaves `d_arr` NULL (`dynarr/main.c:303`), against its
own `darr_ok` (`main.c:174`); with the initial capacity of 2^30 elements the program
does not grow. `kid_find` of `dynarr_set.c:188` returns the place behind the last kid
when it finds none, which its callers take for a kid, so a second chunk at a node
reads and writes behind the block. `fixset.c` takes two pointers that differ in
their last chunk only for one. Where the stale `parent` of `bst_set.c` does not
crash it leaves the tree out of balance, though in order. `hash.c` is not in the
Makefile of its directory, and `ZALLOC`, which it calls, is not defined there; it is
modelled with the meaning `lib/include/lib.h` gives it.

*AST.* Main's own expression, an addition of two values a and b, generates `mov r2, a`, `mov r1, b`,
`add r0, r2`: `reglist_last` returns the register above the one got last, which is
the left operand's, but the destination `r0` was never loaded, and the right operand
is not read at all. No register is given back (`reglist_put` behind an operator
renames the slot below `r_p`, and `r_p` goes up and down again), so any expression
with two operators ends in `die()` with three registers. `ast_var_def_init` does not
set `avd_init`, which `var_def_dump` reads, and the visitor for code has no callback
for a definition. The visitor prints its blanks and some of its text to standard
streams and not to its `adv_fp`.

*Heap.* A request larger than `NODE_SIZE`, or than what the header leaves of it, is
served with an ordinary node (`heap/main.c:133`) and overruns it. `heap_free` moves
the break down from wherever it is, so it takes what others got above the nodes, as
the C library does for main's own output.

## 5. What is proved

By TLAPS, for every value of the constants their assumptions allow.

**DstrProofs.** The invariant is `TypeOK /\ Shape /\ NoLeak`. `DstrOk` is not
inductive: it says where a string of some length lies, not how large the block
behind it is. `Shape` adds that a string in the struct has the struct's capacity and
no block, and that one on the heap is longer than the struct, within its capacity
and terminated. From it: `TypeCorrect`, `DstrIsOk`, `NothingLeaks`. `ContentsAreKept`
assumes that callers push no NUL; then `strcpy` copies the whole short string.
`ImplementsAbstract` assumes the DBUG build as well: every step is a step of `Str`
or changes nothing it sees.

**BufProofs.** `Buf` over the four structs, whose steps are those of the struct behind
`b_getc` (`UnixSame`, `StdioSame`, `StrSame`). The invariants of `buf_unix` and
`buf_stdio` add `Prefix` to `TypeOK` and `BufferedIsAhead`: what was delivered is the
file from `base` on and never beyond the offset, and BUF_EOF came at its end. The step
is one lemma for a character taken from any array that is ahead of the delivery
(`TextByte` and a lemma on what a `read` of n bytes or an `fgets` of a line leaves in
the array), used for both branches of `b_getc`; that a text divides into lines is the
existence of a least index, by well-founded induction. For strings `p` counts what was
delivered. Hence `TypeCorrect`, `NothingSkipped` and `ImplementsAbstract` for all four
structs: for every size of the array, every way `read` splits a text and every text;
and `CopyIsWhole` of the copy through a descriptor. They assume that nothing holds 0xFF
(`NoXff`), that the source holds no NUL unless it is a string with a length (`IsText`),
and an array `fgets` can read into (SIZE > 1).

**LexProofs.** Under `Text` (no NUL, no 0xFF) and SIZE > 1, for every source, every
division of the bytes into classes and every size of array and struct. The buf and the
lexeme are those of `BufProofs` and `DstrProofs`, taken over by INSTANCE: their
invariants (`BufInv`, `DstrInv`) and step lemmas are cited and nothing is proved twice.
What the lexer adds is `Tokens`, about what was printed, and `Control`, which says for
each loop where the token it is at began, what the lexeme holds of the source from
there on, and which characters in front of it were dropped.
`TokensAreTheSource`, `WordsAreMaximal` and `NothingElseIsLost` follow, with
`TypeCorrect`.

**AllocProofs.** The three allocators; they share no variable and each has its own
invariant. Of `FreeList`: that the search succeeds is arithmetic about the past, so
`NeverCorrupt` is not inductive. A node's history variable `top` bounds the bits it
ever set. The invariant `NodesOk` says that the one bits lie below `top`, that the
word `last` does not begin above `top`, and that `fn_count + top <= POOL_SIZE`: each
get that raises `top` was counted. So a node with a count has `top < POOL_SIZE`, and
the bit `top` is zero and is seen. Hence `GetNeverFails` and, as the count of a node
that handed something out is below `POOL_SIZE` for ever, `PutReturnsEarly`;
`TypeCorrect`, `ListIsWhole` and `BitsTellHolders` are the other parts.

Of `Heap`: under `HeapAssumption`, `RingOk` and `BreakRestored` are inductive
together with the types and `Below`: what is held, in the ring or taken by others
lies below the break, so a node from `sbrk` is new to all three. The ring is its
history, and an operation touches one place in it with its two neighbours (`Places`).
Hence `RingIsFree` and `FreeRestores`, for every bound of the break.

Of `SlabTab`: for every number of threads and objects, when callers keep to
"phased" or "serial" (`Coordinated`; under "any" the statements are false, section 4).
`Locked` is mutual exclusion by `ste_mut`, `Asleep` and `PutAlone` say who may be where
while a put runs, which holds no lock. `Fresh` is what makes the unprotected put right:
what a thread has read of `fp` is still so when it uses it. `OnePlace` says that an
object is on the stack below `fp`, or in one thread's hands, and that the two together
are all of them; `Depth` corrects `fp` between the two stores of a put. Hence
`HandedOutOnce`, `NothingLost`, `SlabTypeCorrect` and, when all have been put back,
`FullAtExit`, the check of the code itself.

**DarrProofs.** For every number of threads, of numbers per thread and every initial
capacity. The numbers of a thread are a block of their own (`Apart`, `Covered`), so
what has been pushed is a function of where the threads are (`Pushed`), and `Filled`
says that the array below `d_len` is a bijection onto it: `d_len` is its cardinality
(`Counted`), and a thread whose number is not in it has an index to store to
(`RoomForOne`). `Locks` is the mutual exclusion, held across the place where
`add_num` lets the mutex go; `Room`, that a store has room and is there when it is
counted. `Block` says which block is mapped, with the gap between `intarr_grow` and
the store behind it, which only the holder of `nums_mut` can be in; `Linking`, that
the list a thread read is still the list when it links; `Owned`, that a struct is
linked or about to be. When all are joined `Pushed` is everything: `NoPushLost`.
`TypeCorrect`, `PointersFollow` and `NothingLeft` are the other parts. The code ends
at its first growth (section 4), so behind one the theorems speak of the process that
has crashed; of arrays that need no growth, and of `intarr_grow` up to that store,
they say what they seem to.

**HashProofs.** For all pointers and hashes and any number of growths. A chain is the
least closed set (`ChainLeast`), so that a link is moved, put in or left out of a chain
is shown by giving a closed set, and no induction along a list is needed.
`Links` says that no pointer has two links and no chain leads back into itself; `Stage`,
that the links are divided among the chains of the old table that the walk has before
it, the chain it is in, and those of the new table, each under its hash, and that as
many were counted as are behind the walk, so the outer loop ends inside the table;
`Count` and `Calls`, what `len` and the call that is under way stand for. `EveryLinkIsChained` is `Chained`; `ImplementsAbstract` is the
refinement of `PtrSet`: a walk of `hash_grow` or `hash_free` is a stutter of it and
only `Link`, `SetFound` and the answer of a search are steps. That `hash_grow` finds a
prime (`NextPrime`) is Bertrand's postulate, which is assumed (`Bertrand`) and used for
nothing else.

**AstProofs.** For every expression. Both visitors make the same tour, so what is over
(`Closed`) and what has begun (`Opened`) is a function of the path that is visited and
of the direction, and a lemma per move of the tour says how it changes (`AtLeaf`,
`AtOperator`, `AtFirst`, `AtSecond`). `Dump` then says that exactly the braces of these
nodes are printed and that `adv_space` is four times the depth: `PrintNests`. `Gen`
says that exactly the values whose visit is over are loaded, and that every node whose
visit is over has one below it; loads and registers got are counted by an injection
(`LoadsCount`): `NoRegisterComesBack`, for every number of registers.
`OperatorsReadTheLeft` is about the three of the build (`REG_COUNT = 3`): `Three` says
that values are loaded from the left to the right and which register each of the first
two takes, so the only operator that gets one has the first as its left operand
(`FirstOperator`). `LastInside`, that `reglist_last` does not read behind the array, is
shown for any number.

**TrieSetProofs.** For every set of pointers, every number of chunks and all four sets,
under `TrieAssumption` (a pointer has `ADDR_LEN` chunks, and NULL is no chunk). A
rotation moves whole subtrees, so what `KidsInOrder` says of walks from the root is not
carried by a step. The trees have a witness instead: a function D that gives each kid
the kids under it (`Subtrees`), split by the two sides and lying where comparing leads.
A rotation changes D at its two kids (`RotatedTree`), a new kid joins it at the kids
above it (`LinkedTree`), and `TurnedIsTree` puts the code's rotations and colours
together, its stale `parent` included: that error costs the balance, never the order.
What the recursive functions of `KidTree` compute is then found without induction over
the tree: `Under` is the least set that is closed under the links (`UnderLeast`), and
that this is D is shown from the leaves up (`FromTheLeaves`: the least D of a kid that
fails, by well-founded induction on its size); a search goes down into smaller and smaller D
(`DownSteps`) until it finds its kid (`KidFindFinds`) or a link to hang it to
(`HooksLead`).

The invariant `TrieInv` has four parts: `PlaceInv`, where the call is; `NodesInv`, that
each node keeps a sorted list, an array of one chunk at most or a tree; `PathsInv`, that
nodes and edges are the starts of the pointers added and of the one on its way; and
`HeapInv`, that the blocks are those the nodes know of. `PathsInv` makes the refinement:
a walk of `ps_has` over the edges answers for the history variable `added`. `HeapInv`
makes `NothingLeaks`, as every node is reached from the root (`ReachedAll`). Of the
array the model stops where the code leaves its block, with the second chunk of a
node (section 4), so of `dynarr_set.c` the theorems say what holds up to there.

Balance has a second witness. `RedBlack` counts black kids along the ways from the root,
and a turn changes all the ways below it; H counts from below (`Level`: every way down
from a kid has H[x] black ones), so that a recolouring changes it at the parent and the
uncle, an outer turn at the parent and the grandparent, and `BlacksAboveAre` adds both up. `BalanceInv`
says of a node that had no inner turn that its tree is `Balanced`, or `Mending` while
`kid_fix` works on it: level, with a red kid under a red one at `p` and nowhere else
(`LinkedMends`, `RecolouredMends`, `OuterTurnedMends`, `ReturnedIsBalanced`). Then a red
parent is not the root, so the grandparent is there (`FixAt`). That gives `OutersStayRedBlack`, which
states `RedBlackOutside`, and `OutersNeverCrash`: the crash of `BstCrash` needs
an inner turn in that very tree, whatever the pointers. Of trees with an inner turn only
the order is claimed.

Only model-checked: all liveness (`Terminates` of `Lex` and `Darr`, `WantedIsServed`, `AddReturns`,
`CallsReturn`), which the prover does not do.

## 6. What is not modelled

*Without a caller in the repository:* `intarr_rm_ptr`, `lex_free`, `heap_node_free`,
`ast_var_def_free`, and `reg_get`, `reg_put` and `reg_last`, which repeat the register
stack on an array of their own. *Only printing:* `hash_stat`, the counters `nswitches`,
`sum`, `n_alloc` and `ps_bytes`. *Left out of a modelled component:* `slab_tab_init` and
the lookup by hash in `slab_tab_find`, with the strings of `ast_str.c` that use it; what
a request larger than a heap's node overwrites; the formats of the two visitors of
`ideas/ast` and its `vfn`.

`lib.h`'s macros appear inside the actions that use them. `slab_v2` does not compile.
The generators in shell and awk produce text, among it the lexer and its header, which
`Lex` models as they are in the repository. `ld`, `ideas/ld`, `ideas/ast.c` and `arch`
are structure definitions and lists of names. `scripts/hashgen` is a search for a table
without collisions, a pure algorithm that is left for later.

## 7. Plan

What is left are two pure algorithms, to be checked against reference definitions:
the lookup by hash in `slab_tab_find` and the search of `hashgen`.
