# A verification development for CobraOS

CobraOS is a small single-processor x86 kernel: an interrupt-driven keyboard, a
shell, a text editor, a RAM file system, a buddy heap, a page allocator, a tick
with timers, a scheduled shutdown and cooperative tasks. This directory holds
TLA+ models of its parts, TLC configurations that check them on small instances,
and theorems proved with TLAPS for every instance. All paths are relative to
`src/arch/x86/`.

## 1. Inventory

There is one foreground (the shell's loop and whatever command it runs) and
there are two interrupt handlers, the tick (IRQ0) and the keyboard (IRQ1). A
handler runs with interrupts off to its end, so the only interleaving is a
handler coming between two instructions of the foreground.

| Component | State | Operations | Interacts with | What is hard | What makes it correct |
|---|---|---|---|---|---|
| Keyboard ring (`drivers/keyboard/keyboard.c` 37-40, 103-132) | `key_buffer`, `key_head`, `key_tail`, `buffer_overflow` | `buffer_put` in the handler; `keyboard_has_char`, `keyboard_get_char` in the foreground | console loop, editor | no lock; full ring | bounded FIFO; no slot overwritten while it is read |
| Scancode decoder (same file, 178-408) | `mods`, `key_states`, `repeat_event` | one scancode per interrupt | fills the ring | prefixes, repeats, and releases of Shift a cursor key sends on its own | modifiers follow the keys; a letter is the one that was meant |
| Interrupt dispatch (`cpu/interrupts.c`, `cpu/pic.c`, `kernel/kernel.c` 215-236) | both controllers' masks, requests and bits in service, `irq_handlers` | `remap`, registration, masks, `irq_dispatch` | keyboard, tick | spurious requests, a handler that ends the interrupt itself, the order of the start | one end for each interrupt; no byte without a request |
| Console loop (`kernel/kernel.c` 256-264, `snake/snake.c` 158-275) | interrupt flag, place in the loop | `sti; hlt; cli`, drain the ring, feed the shell | ring, shell, editor, tick | lost wake-up | no key is slept on; interrupts never stay off |
| Shell's line editor (`kernel/shell.c` 187-395) | line, cursor, history, escape state | `shell_feed_char`, commands | ring, screen, all commands | sequences cut short, limits of line, history and row | every key does its work once; the row shows the line |
| Screen (`drivers/screen/screen.c`) | video memory, cursor | print, clear, place the cursor | all | wrapping and scrolling under the shell's redrawing | the cursor stays on the screen |
| Heap (`kernel/heap.c`) | `free_lists`, headers in the heap itself | `kmalloc`, `kmalloc_aligned`, `kfree` | file system, editor, tasks | believes bytes at a computed address; long call sequences; `size_t` edges | blocks tile the heap; ranges never overlap; merges complete |
| Page allocator (`kernel/pmm.c`, `kernel/multiboot.c`) | bitmap, stack, count | walk of the memory map, `alloc`, `pfree` | boot loader, shell | any word may be freed, also one whose bit is not in the bitmap; page 0 is NULL | three records of one set agree; no page twice |
| Timers and tick (`cpu/timer.c`, `cpu/pit.c`) | `timer_queue`, `expires`, `active`, `tick_count` | `timer_setup`, `timer_add`, `timer_cancel`, `timer_tick` | shutdown | wrapping counter; flag and links | queue and flags agree; every timer on its tick |
| Shutdown (`cpu/shutdown.c`, `cmd_timer` in the shell) | `sd_active`, `sd_mode`, `sd_deadline`, `sd_timer` | schedule, cancel, fire, status | timers, shell | the tick between any two statements; 32-bit products | goes down as last asked, and does |
| Tasks (`kernel/task.c`, `cpu/task_switch.asm`) | `task_queue`, `current_task`, `next_pid` | init, create, schedule, exit, reap | heap | freeing what still runs; the queue changing under the search | nothing in use is freed; the turn goes round |
| RAM file system (`fs/ramfs.c`) | tree of nodes, open files, working directory | create, delete, read, write, resolve | shell, editor, heap | dangling working directory; writes that fail half way | tree stays a tree |
| Editor (`snake/snake.c`) | lines, cursor, undo and redo stacks | edit, undo, redo, load, save | file system, heap, console | undo state of failed edits, failed saves | undo restores; a failed save loses nothing |
| Real-time clock (`drivers/cmos/rtc.c`) | none of its own | read date and time | shell | the clock steps between two reads | what is shown is one moment |
| Paging, GDT/LDT/TSS, APIC, PS/2, serial, panic, C library, boot | written once, or none | | | | |

The last row is left out: it runs once before anything can interleave with it,
or it is straight-line port input and output. `PROJECT.json` lists every
component with the reason, and every hazard at its line.

## 2. Modules

| Module | Role |
|---|---|
| `CharQueue` | abstract: a bounded FIFO of characters with a producer that may drop |
| `KeyBuffer` | the ring, one access to it per step; implements `CharQueue` |
| `Console` | `KeyBuffer` composed with the main loop, the editor's key reader, the interrupt flag and both interrupts |
| `Allocator` | abstract: byte ranges handed out and given back |
| `BuddyHeap` | the heap, one loop pass per step; implements `Allocator` |
| `Timers` | the timer queue and the tick |
| `TimersProofs` | its proofs |
| `Shutdown` | `Timers` composed with the scheduled shutdown, one statement per step |
| `ShutdownDelay` | the arithmetic from the seconds a user types to ticks and back, in exact 32-bit words |
| `PMM` | the page allocator with the walk of the memory map and the two shell commands |
| `MemoryProofs` | the proofs about `PMM` and `BuddyHeap` |
| `Tasks` | cooperative tasks |
| `KernelProofs` | the proofs about `KeyBuffer`, `Console` and `Tasks` |
| `Files` | abstract: a map from paths to texts and the answers of the commands |
| `RamFS` | the file system's nodes and pointers under the shell's commands; implements `Files` |
| `FileProofs` | its proofs, with lemmas of `EditorProofs` |
| `History` | abstract: versions of a text on one line of time |
| `Editor` | the text editor; implements `History` |
| `EditorProofs` | the proofs about `Editor` |
| `Interrupts` | the two 8259 controllers, `irq_dispatch`, and the start of the kernel |
| `Keyboard` | the scancode decoder |
| `KeyboardInput` | `Interrupts` and `Keyboard` composed with the user, the keyboard and its controller |
| `InputProofs` | the proofs about `Interrupts` and `KeyboardInput` |
| `Screen` | the cells of the text screen and its cursor, as functions on records |
| `CommandLine` | abstract: a line of text, its cursor and the commands that are listed, changed by whole keys |
| `LineEditor` | the shell's line editor, character by character, on a `Screen`; implements `CommandLine` |
| `ShellProofs` | the proofs about `ShutdownDelay`, `Shutdown` and `LineEditor` |
| `FoldLemmas` | lemmas on induction and folds, for the proofs |
| `MC*` | instances for TLC |

Names of variables and actions are those of the C code wherever there is one.
Where a function is split into steps, the comment of each action names the
statement it stands for. Operators whose comment begins with "Faulty:" are not
part of any specification: each is a definition with a plausible error in it,
kept beside the right one to show that the properties notice the error.

### KeyBuffer and Console

`keyboard_handler(s)` is the interrupt up to its decoding of the scancode; the
sequence `s` it will emit is any member of `KeyOutput` (nothing, a character, an
escape sequence). `buffer_put`, `buffer_put_full` and `handler_cleanup` are the
rest of it. The reader's `buffer_get` is two steps (read the slot, move
`key_tail`), since under the editor the handler may come between them. While
`in_handler` holds no reader step is enabled: there is one processor.

`Console` adds `IF_flag` and `pc`. `sti; hlt` is one step because `sti` takes
effect after the next instruction; an interrupt that ends a `hlt` moves `pc`
behind it (`Resume`). The editor's own loop checks the ring with interrupts on
and may sleep on a key; the timer's tick ends that sleep. `protected` records
that the main loop has run a `cli` since it began or since the editor returned:
before that its interrupt flag is still on, and `NoOversleep` is not claimed.

### BuddyHeap

Headers are memory: `hdr` maps every possible block address to what would be
read there as a header, stale headers and payload bytes included. `Take` lets
the owner overwrite the payload with `Junk`, chosen for each address in it. Hence
`CoalesceReadsHeader` is a real statement: coalescing looks at an address it
computed and must find a block there. An allocation given back stays in `freed`,
and may be freed again, until its block or the word `kfree` would read before its
pointer is handed out to somebody else: from then on that word is the new owner's
and nothing can be said of what `kfree` makes of it. The heap's start is any multiple of its size, which is what the
code's choice of 0x02000000 and 32 MB gives, and only that branch of
`kmalloc_init` is modelled.

### Timers, Shutdown and ShutdownDelay

Each timer function runs under `lock_acquire` (interrupts off), so it is one
step. `left` counts the ticks that really remain and lets the properties speak
of time apart from the wrapping words. `Shutdown` instantiates the module with
its one timer and puts the tick between any two statements of
`schedule_shutdown` and `cancel_shutdown` that a call with interrupts on allows
(`IF_flag` is chosen at each call, since a command that follows the editor runs
with interrupts on and others with interrupts off). `shutdown_fire` is part of
the expiry step that calls it. `ShutdownDelay` writes a word as two halves of 16
bits so that TLC computes with the code's own numbers.

### PMM

`WalkPage` and `WalkEntry` are the loop over the boot loader's map; `AllocPage`,
`AllocEmpty` and `FreePage` are the commands. `held` is what alloc has handed
out and pfree not taken back.

No code checks an address: `free` passes on any word the user types
(`kernel/shell.c` 581-587) and the walk any page of the map, while the bitmap has
bits for `MAX_FRAMES` pages. Reading or writing behind an array is undefined in C;
the model does what the build does. The `Makefile` compiles with `-O0`, and then
the variables of `pmm.c` lie in the order of their declarations: behind the bitmap,
its spare word and seven words of alignment comes `free_stack`. So `pmm_bitmap` has
a bit for every bit before `free_stack` (`STACK_WORD` words, 1032 in the kernel),
and `bitmap_test` and `bitmap_put` find the bit of a page farther up in an entry of
`free_stack`, which a write flips (`Flip`). They reach no farther
(`IndexInReach`, proved): the last page of 4 GB has its bit in entry 31735 of 32768.

`beyond` is a variable of the model, not of the code: whether `pmm_free_page` was
ever given an address at or above `MAX_FRAMES` pages. `StackIsBitmap`'s part on the
bitmap, `NoPageTwice` and `AccountedFor` speak of the time before; afterwards they
fail, as section 6 tells. That the count is the depth of the stack, and that
`stack_top` stays within it, is claimed for all times.

### Tasks

Every function is one step up to the switch of stacks at its end: no interrupt
handler calls them. `schedule(st)` takes the tasks' states as an argument since
`task_exit` changes one and schedules in the same call. No code calls this
module yet; the model lets a running task call any of its functions.

### RamFS and Files

`node[n]` is the `vfs_node_t` in block `n`, `allocated` the blocks in use, `cwd`
both `shell_cwd` and `ramfs_cwd`, which every function sets together. The
commands run to their end with nothing in between, so each is one step, with its
checks in the code's order and `ret` for what it prints. A path is a sequence of
components as the slashes cut it; names, texts and `kmalloc` failures are chosen
freely. `ramfs_resolve` walks the nodes with a fold of `Walk`, one turn of the
loop in `vfs_resolve_path`. `Save` is a save in the editor, which runs inside the
command `sn`: the file cannot be removed meanwhile, so the branch of
`fs_write_file` that creates a missing file is never taken and is left out.

`Files` knows no nodes: a path is normalised as text, and the entries are a
function from sequences of names. That `RamFS` implements it says that the pointers
tell the same story as the names to every command, errors and `pwd` included.
Both let `mkdir` and `touch` create entries named `.` and `..`, as the code does;
no path leads to such an entry afterwards.

### Editor and History

A key is one step. `Changed` and `Unchanged` are the two ways every editing
function ends: with the snapshot kept (if there was memory for it) and the redo
stack cleared, or with the snapshot taken back, which on a full stack has cost the
oldest entry. `SaveFails` includes the failure inside `fs_write_file` that leaves
the file empty. `warned` is history: the user has been shown "Error saving file".
Scrolling, drawing and the memory of lines (`cap`) are left out; whether
`line_reserve` needs memory is a free choice. No key inserts a carriage return, so
the code that strips them is never taken.

`History` is a line of versions with a place on it. Undo and redo move the place
and nothing else; the versions the code throws away are those of the stack's
limit and those for which `kmalloc` failed.

### Interrupts, Keyboard and KeyboardInput

`irr`, `isr` and `imr` are the requests latched, in service and masked of both
controllers as one set each; the slave hangs on request 2. They are external and
modelled as the code programs them: edge triggered, fully nested, ends of
interrupt that name no request. `frames` is the stack of interrupts being
dispatched, each with its place in `irq_dispatch`: `DispatchSpurious` and
`DispatchGenuine` are its two branches, `HandlerReturns` a handler, which for the
requests in `SelfEnding` writes an end of interrupt itself, `pic_send_eoi` its end
together with the stub's `iret`. `bits` records what a frame has put in service
and not yet ended; it is no variable of the code. That interrupts do not nest is
not assumed: it follows from the gates (`GateFlag`). `boot` is the order of the
start: `remap`, the registrations, `sti`, the masks, the main loop.

`Keyboard` is `keyboard_handler` from the byte it reads: `prefix` or `key`, with
`Emitted` for what goes to the ring. The layouts are the constants `lowercase` and
`uppercase`. `KeyboardInput` puts a user and a keyboard in front of it. `wire`
holds the codes a keyboard has still to send and `obf` the byte in the controller's
output buffer; the next byte comes when that one has been read (`Fill`). A cursor
key pressed under Shift sends a release of Shift first and puts it back at its own
release, as keyboards of set 1 do. `meant` carries the character the user saw
coming when the key went down, past the codes still on the wire. No key is pressed
before `remap`: it clears the latched request but not the byte, nothing would read
that byte, and the keyboard would send no other. This is the code's behaviour and
the one restriction the model makes.

### Screen, LineEditor and CommandLine

`Screen` is functional: `cprint`, `scroll`, `clear_screen_row` and their like map
a screen to a screen, and `LineEditor` applies them inside its actions. The cells
below the last row belong to nobody and are not kept (`Write`).

`Feed` is one call of `shell_feed_char`. `Type` is a key whose first `n`
characters found room in the ring; `Puts` says which characters `keyboard.c` puts
for which key, and the keys of every instance are of this kind
(`KeyboardAssumption`). `cmd_buffer` and the entries of the history are
C arrays with their terminators and whatever lies behind them, and `StrCpy` copies
as `strcpy` does. A command is what it leaves of the screen (`AfterCommand`): some
whole lines printed, nothing, as `cd` does, or a clear screen; `sn`, which runs the
editor, is left out here. `shell_init` leaves out the two lines above the first
prompt. `overrun`, which no code reads, records whether a line has filled its row
since the last prompt or, before that, since the screen was cleared.

`CommandLine` knows no escape sequences and no arrays. Its `asked` is the key on its way;
`Perform` does that key's work and `Scraps` says what may come of a key that was
cut short: nothing, or the work of some key. `Older` and `Newer` walk through the
commands `history` lists. `history_index` may go back to 0 although only the last
20 commands are kept, so beyond the oldest one listed Up shows some of the listed
ones again; the abstract line says of that only that it is one of them.

## 3. What TLC checks

| Run | Configuration | Shows |
|---|---|---|
| `console` | ring of 4, sequences up to 3 long, two scancodes pending, editor allowed | `SlotsKept`, `DropsOnlyAtCapacity`, that the ring implements `CharQueue`; `NoOversleep`; `EveryCharacterRead` and `KeyInterruptServed` under fairness |
| `heap` | 8 smallest blocks, 4 orders, 9-bit `size_t`, 9 requests | tiling, headers, complete merges, no halt without misuse, every double free caught, refinement of `Allocator` |
| `timers` | 3 timers, 4 ticks | `QueueIsActiveTimers`, `OnTime` |
| `shutdown` | counter of 10 ticks that wraps for ever, delays 0, 1, 4, two modes | `PendingIsArmed`, `PendingHasTimeLeft`, `GoesDownAsPromised`, `PromiseKept` |
| `delay` | nine delays up to 2^32 - 1, five commands | `DelayInReach`, `StatusTellsTimeLeft` |
| `pages` | 6 frames of 4 bytes in an address space of 16, five maps, frees inside, twice and beyond | `StackIsBitmap`, `NoPageTwice`, `AccountedFor` |
| `tasks` | 4 places for a `task_t`, 5 tasks | `QueueIsAllocated`, `OnlyCurrentRuns`, `NobodyOvertakesTwice`; `ReadyRuns` under fairness |
| `files` | 3 nodes beside the root, 9 paths, 2 texts | `TreeOK`, that the tree implements `Files` |
| `cwd_removed` | the same, users may remove the directory they are in | violation, see section 6 |
| `editor` | documents of up to 4 characters, stacks of 2 | `CursorInDocument`, `UnmarkedIsSaved`, that the stacks implement `History` |
| `input` | 5 keys, requests 0, 1 and 15, spurious 7 and 15 | `ServiceIsDispatch`, `ModifiersFollowKeys`, `LetterAsMeant`, `ByteHasRequest` |
| `terminal` | screen of 4 by 2, lines of up to 2 characters, history of 2, 10 keys | `LineInBounds`, `LineShown`, that the decoder and the arrays implement `CommandLine` |

Types are not a run's property of their own: `BlocksTileHeap`, `PendingIsArmed`,
`QueueIsAllocated`, `TreeOK`, `NoOversleep`, `LineInBounds` and
`ModifiersFollowKeys` include the type invariants of their modules.

Bounds, and why they are enough:

* A ring of 4 slots is full, empty and wrapped in every combination; a
  sequence of 3 does not fit into a ring that holds one character. All the
  safety properties of this run are proved for every size.
* `MAX_PENDING` bounds the scancodes not yet accepted, which also the hardware
  does.
* Eight smallest blocks give splits and merges three levels deep. `SIZE_MAX` is
  small so that the sums of size, rounding, header and alignment do wrap for
  requests that are made. `Requests` has one size for each order, two that just
  fit, and one for each way of being refused. `Junk` looks like a free header of
  the smallest order, the most dangerous content.
* `LAST_TICK` stops the counter of run `timers` before it wraps: with several
  timers on both sides of the wrap `queue_insert`, which compares unsigned words,
  and `timer_tick`, which compares a signed difference, disagree, and `OnTime`
  fails. The kernel has one timer, for which the order does not matter; run
  `shutdown` covers that one with a counter that wraps for ever. Delays stay below
  half the counter, which `DelayInReach` shows of every delay a user can cause.
* `MAX_STEPS` bounds the commands in run `delay`; each overwrites the state
  of the one before.
* `MAX_PID` lets five tasks use four places, so memory is used again.
* The users of run `pages` free only available memory in two of the maps, where
  `AccountedFor` applies as long as nothing beyond the frames is freed, and reserved
  memory in the others. In run `pages` a word has 6 bits and is the bits of 6 pages,
  and `STACK_WORD` is 2, so that pages 12 to 15 have their bits in the first entry of
  `free_stack`. Users free page 14, whose bit moves the address in that entry by a
  page, and in the fifth map the walk itself goes through pages 6 to 14. The states
  that follow are part of the run.
* Three nodes are enough for siblings, for a directory in a directory, for a file
  in each, and for memory that runs out; nodes and texts are interchangeable, so
  the run uses symmetry (it checks no liveness). The paths are those through `..`
  and `.`, from the root and from the working directory, with a slash at the end,
  and to places that do not exist.
* `MAX_TEXT` stops typing at two characters; the file may hold three or four at
  first, so that lines with text on both sides are joined and split. Stacks of two
  snapshots are full after two changes.

* The keys of run `input` are a letter, a key that holds, a key that locks, a
  cursor key, which sends prefixes and touches Shift, and a key that has a prefix
  itself. `MAX_WIRE` is 0: the next key is used when the last code of the one
  before has entered the output buffer, so two keys' codes do meet, but no more
  than two. The kernel registers requests 0 and 1; 15 is there for the branches of
  the dispatcher and of the two controllers it alone takes.
* A row of 4 cells holds the prompt and two characters, which fill it: a line of
  two is one that wraps, a line of one is one that fits. Two rows scroll with every
  other Enter. A line that spills characters a prompt does not cover needs more
  rows and four characters; the theorem of section 4 has those. `HISTORY_SIZE` is 2 and `MAX_COMMANDS` 3, so the oldest entry is
  overwritten. One key may be cut short (`MAX_CUTS`), and sequences of 3 and 4
  characters are, at every place. `MAX_ROW` stops the keys other than Enter when
  the cursor has left the screen below; it grows for ever otherwise (section 6).

Deadlock is checked in `timers`, `pages`, `files`, `editor` and `input`. It is not in
`console` and `shutdown` (the machine goes down), `heap` (it halts on a double
free), `tasks` (a task that ends when none is ready halts for good) `delay` (the
bound on steps) and `terminal` (the bounds on commands and rows).

Fairness:

* `Console`: the processor executes the handler it is in (weak). The foreground
  goes on between interrupts, which are rarer than instructions (strong, because
  an interrupt disables it for a moment). The timer goes on ticking (weak). An
  IRQ1 that is pending is accepted when interrupts are on again and again (strong;
  the loop turns them off in between).
* `Shutdown`: the tick goes on (weak), a call that has begun goes on between
  ticks (strong). Nothing is assumed about users.
* `Tasks`: a task that runs yields or ends some time; this is what cooperation
  means and no code enforces it.

## 4. What is proved

Every theorem is proved for all values of the constants that satisfy the named
assumptions, which TLC evaluates in the runs. Each invariant goes by an inductive
one, `Init => I`, `I /\ [Next]_v => I'`, `I => Property`.

`KernelProofs`, from `KeyBufferAssumption` (at least two slots, `NUL` no
character, keys emit finite sequences of characters). The first part is about the
ring alone:

* `TypeCorrect`, and `RingCorrect`: `Spec => []SlotsKept`. The inductive invariant
  `RingInv` adds to the types and both halves of `SlotsKept` that nothing is left
  to put when the handler is not running. The argument speaks of slots by their
  distance from `key_tail`: `SlotBelowHead` says that a waiting slot is never the
  head's slot, so a put cannot disturb it; `PutEffect` and `AdvanceEffect` say what
  a put and a release do to the count and to every waiting slot. The modular
  arithmetic is confined to three lemmas at the top.
* `DropsCorrect`: `Spec => DropsOnlyAtCapacity`.
* `RingImplementsQueue`: `Spec => ImplementsQueue`. `PutAppends` and
  `AdvanceTakesHead` map the two steps that change the ring; the read of the slot
  and the steps of the handler that put nothing are stutters or drops.

The second part is about the main loop, the editor and both interrupts on top:

* `ConsoleIsRing`: `ConsoleSpec => Spec`. The console uses the ring only as
  `KeyBuffer` allows, so the three results above carry over (`ConsoleKeepsSlots`,
  `ConsoleDropsAtCapacity`, `ConsoleImplementsQueue`).
* `LoopNeverOversleeps`: `ConsoleSpec => []NoOversleep`, and `ReadersFindCharacters`:
  a read is begun only where a character waits. `NoOversleep` is about the `hlt`
  alone; `ConsoleInv` adds that from its `cli` on the loop runs with interrupts off
  and comes to the `hlt` with an empty ring (`LoopProtected`), that a handler finds
  the foreground behind its `hlt` with interrupts on (`HandlerFinds`), and
  `RingInv`.

Its last part is about the tasks, from `TasksAssumption` (NULL is no task, at least one pid):

* `QueueLinksAllocated`, `OnlyTheCurrentRuns`, `NobodyIsOvertakenTwice`. `TasksInv`
  is the two invariants and two parts more: who has overtaken a ready task stands
  between it and the current one in the order of the queue (`OvertakersPassed`), and
  nothing is linked before the initial task, while behind it pid 1 is taken
  (`InitialTaskFirst`). `NextReadyIsFirst` says what the circular search finds and
  `ReapKeepsOrder` that unlinking ended tasks leaves the order of the others.

`MemoryProofs`, its first half from `PMMAssumption`: the kernel lies below
`MAX_FRAMES` pages; available regions begin on a page and end below 4 GB, so that
`base + length` does not wrap, but may reach beyond `MAX_FRAMES` pages; the bit of
no page is behind `free_stack`. Addresses given to pfree are any words. Except for
the types, the range of `stack_top` and the count, the theorems hold until a user or
the walk frees an address at or above `MAX_FRAMES` pages, because the code does
nothing to prevent it and they are false afterwards:

* `PagesTypeCorrect`, `StackAndBitmapAgree` and `NoPageHandedOutTwice`. The three
  properties are inductive together and not alone: the bound on `stack_top` needs
  nothing else, but that a page freed is not on the stack already is known from its
  bit (`FreeKeeps`), and that the page popped leaves no copy behind from the
  distinctness of the entries (`AllocKeeps`).
* `PagesAccountedFor`: `PMMSpec => []AccountedFor`. `WalkInv` says of every region
  how far the walk has come: the pages passed, the kernel's excepted, are free or
  handed out. A push is refused when the stack is full, and that this loses no page
  takes a count: a full stack of distinct entries holds every frame
  (`FullStackHoldsAll`), so the page is free already.

The second half is about the heap, from `HeapAssumption` (the smallest block has room
for a header and a byte, the header holds a word, `size_t` reaches the heap's size)
and `PowersOfTwo` (`2^0 = 1` and `2^(k + 1) = 2 * 2^k`), which is all that is used of
`^`: the provers know nothing of it. All six properties of the run are theorems, for
every size of the heap and of its blocks, all requests and all `Junk`:

* `TilingHolds`: `HeapSpec => []BlocksTileHeap`. `BlocksTileHeap` is not inductive:
  that a split or a merge gives blocks that tile again needs them aligned to their
  sizes, and the steps need to know what call they belong to. `HeapInv` says where a call stands (`Control`),
  what the headers of linked, owned and held blocks say (`Headers`, `Owners`), that
  what was given back is still marked free (`GivenBack`), that no two buddies are free
  at once but for the pair just split (`Pairs`), and that the blocks tile the heap
  (`Tiles`: aligned, disjoint, leaving nothing out). There is one lemma for each
  action. The lists are handled by `RemoveBlock` and `InsertBlock`.
* The tiling rests on the arithmetic of aligned blocks: `Dyadic` (of two block sizes
  the larger is a multiple of the smaller, by a least counterexample), `BuddiesArePair`
  (`buddy_of` is the other half of the aligned block twice as large), `SplitTiles` and
  `MergeTiles`. `BuddyIsHead` is the heart: in a tiling, the address of a block's buddy
  is itself the start of a block no larger than the first, since an aligned block that
  covered it from below would cover the first block too.
* `HeaderRead` (`CoalesceReadsHeader`) is that lemma at the loop of coalesce, and
  `HaltsRightly` (`HaltsOnlyOnMisuse`) follows: a block marked free at that address is
  on the list of its order.
* `DoubleFreesCaught` (`DoubleFreeCaught`), from `GivenBack`.
* `RoomIsFound` (`FailsOnlyWithoutRoom`), from `Pairs` and `Tiles`: if no list
  from the order on has a block, a region of that size that holds nothing handed out is
  full of smaller free blocks, and the smallest of these has its buddy free beside it.
* `HeapAllocates`: `HeapSpec => ImplementsAllocator`. `PointerFits` and `OrderHasRoom`
  carry the arithmetic of `size_t`: with the refusals of `kmalloc_aligned` no sum wraps,
  and the aligned pointer and the bytes asked for end within the block. The steps of
  splitting and merging are stutters.

`TimersProofs`, from `TimersAssumption` (an even width of the counter, delays below
half of it):

* `QueueLinksActive`: `TimersSpec => []QueueIsActiveTimers`, across the wrap of the
  counter. `InsertPlace` and `RemoveTakesOut` say what the two walks over the list
  find, `PutIn` and `TakenOut` what they leave; nothing is needed of the order.
* `TimersOnTime`: under `NoWrap`, no expiry lies beyond the wrap (497 days after the
  start at 100 ticks a second), `TimersSpec => []OnTime`. `OnTimeInv` adds that the
  queue is in the order of its expiries, that an active timer's expiry is the tick
  count and what is `left`, and that outside the interrupt nobody is due. Without
  `NoWrap` the statement is false for two timers; see the hazards.

`ShellProofs` has three parts. The timer command's arithmetic, from `DelayAssumption`
(the constants are words):

* `DelayStaysInReach` and `StatusIsTimeLeft`, for all 2^32 numbers of seconds. The
  proofs go by the number a word of two halves stands for (`Holds`): `MulHolds`,
  `AddHolds`, `DivHolds` and `OrderHolds` show that the operators on halves compute
  product, sum, quotient and order. `DelayInv` keeps the ticks left below those of
  the delay, which no product in a word brings above 4294967.

The scheduled shutdown, from `ShutdownAssumption` (one timer, which is one-shot) and
`TimersAssumption`, with a counter that wraps:

* `ShutdownUsesTimers`: `ShutdownSpec => TimersSpec`, step by step, so the effects of
  the queue's operations are cited from `TimersProofs`.
* `PendingShutdownIsArmed`, `PendingShutdownHasTimeLeft` and
  `MachineGoesDownAsPromised`. `PendingIsArmed` speaks of calls that have returned.
  `ShutdownInv` says for every statement of the two calls how flag and timer stand
  (`FlagFollowsTimer`), what of the promise is already or still true (`ModeKept`,
  `CallKept`), and relates the expiry, the deadline and the ticks left (`TimeLeft`,
  `DeadlineAhead`). The tick between any two statements is `TickKeepsInv` and
  `ExpiryKeepsInv`.

The line editor, from `LineEditorAssumption` (positive sizes, a row wider than the
prompt; what a command prints is whole lines, and neither a newline nor a backspace is
a printable character) and, for the last theorem alone, from `KeyboardAssumption`
(keys put what `keyboard.c` puts for them):

* `LineStaysInBounds`: `EditorSpec => []LineInBounds`, whatever characters come
  through the ring. `LineInBounds` alone is not inductive: the bracket of an escape
  sequence is stored without a look at the length, which is within the buffer only
  because the decoder is in that state with one character stored. `BoundsInv` adds
  this and the types of the history's arrays; what Up and Down copy ends within the
  array because every entry holds a terminator (`EntryEnds`, `StrLenIs`).
* `LineIsShown`: `EditorSpec => []LineShown`. The inductive `ShownInv` adds that below
  the cursor the screen is blank as long as no line has run over. A print is a fold of
  `cprint` (`ScreensOnTheWay`): `RowPrinted` says that a string shorter than the row
  stays in it, `ViprintEffect` that no print leaves the cursor off the screen or
  something ahead of it. Every key but Enter keeps the line or prints it again
  (`CharsRedraw`), and that makes the row right whatever it showed before
  (`RedrawShows`); Enter begins a row that is blank or was run into. The attempt to
  prove an earlier `LineShown`, which asked for the row of every empty line as well,
  showed that it is false: a prompt may stand in the remains of a long line (section
  6). The lines of the run are too short for that.
* `EditorImplementsLine`: `EditorSpec => ImplementsLine`, the decoder and the arrays
  under the mapping to texts. `LineInv` adds two things to `BoundsInv`: no
  cell of the line holds a terminator (`Solid`; without it the string Enter adds to
  the history would be shorter than the line), and the characters in the ring are the
  rest of the key that was asked for, with the decoder as far as its first ones took
  it (`KeyInv`). The keys that edit are a matter of texts (`InsertedText`,
  `ClosedText`, `LineKeysWork`). Up and Down (`UpWorks`, `DownWorks`) need
  `EntryIsListed`: an index behind the oldest command listed finds, in the circular
  array, one of those that are listed, because a stretch of `HISTORY_SIZE` numbers
  has every remainder (`EveryRemainder`). Enter (`EnterWorks`) needs the opposite:
  the slot it overwrites is that of no command that stays listed (`OneRemainder`,
  `AddedIsListed`), and `strcmp` finds equal what has the same text (`EqualText`).
  The characters of a whole key do nothing but the last, which does the key's work
  (`PlainKey`, `SequenceKey`); any character at all does some key's work or none
  (`CharWorks`), which is all that is promised of a key cut short.

`EditorProofs`, from `EditorAssumption` (the newline is no character, the stacks hold at
least one snapshot, the window has a row):

* What a fold computes has to be shown by hand. A fold from the left is the last value
  of a function of the turns taken (`FoldExists` for that there is one, `ParsedFold`
  and `JoiningFold` for that the library's fold is its value), and what holds after
  every turn goes by induction on the set of turns where it holds (`UpTo`, from a
  least counterexample).
* `CursorStaysInDocument`: `EditorSpec => []CursorInDocument`. The inductive `InDocument`
  says the same with a snapshot as an element of the set `State`, so that a stack is a
  sequence of states and what is popped is one. There is one lemma for each key; the
  cutting and joining of lines is `LinesBetween`.
* `UnmarkedDocumentIsSaved`: `EditorSpec => []UnmarkedIsSaved`. `LoadAndSave` is the
  arithmetic of newlines: what is parsed from a text and written back is that text,
  whatever newlines it holds, begins or ends with. The two
  folds go turn by turn: what one more character does to the parsed lines, it does to
  the text written from them (`TextGrows`).
* `EditorImplementsHistory`: `EditorSpec => ImplementsHistory`. The line of versions is
  the undo stack, the document and the redo stack backwards (`Line3`). `StacksFit`, that
  the two stacks together never hold more than `MAX_UNDO_LEVELS` snapshots, is what the
  refinement rests on: a key's change drops the oldest version, and undo and redo, which
  push on the other stack, never do. There is one lemma for each step of `History`.

`FileProofs`, from `FSAssumption` (the root is a node, NULL is no node and no text, a
path is a nonempty sequence of components). Both theorems suppose `~MayRemoveCwd`,
that nobody removes the directory they are in: otherwise `cwd` leaves the tree, as run
`cwd_removed` shows.

* `TreeStays`: `FSSpec => []TreeOK`, for every set of paths, texts and nodes and wherever
  memory fails. The inductive `TreeInv` adds that blocks not in use are blank.
  `Added`, `Removed` and `Written` are what the commands do to the nodes, `Gained` and
  `Shrunk` what the other nodes see of it, and `AddedKeepsTree`, `RemovedKeepsTree` and
  `WrittenKeepsTree` go through the parts of `TreeOK`. That every node hangs from the
  root is said by sets (`AllHangFromRoot`: from any set of other nodes a parent leads
  out), which needs no induction to be kept and gives induction down the tree
  (`FromRoot`).
* `FSImplementsFiles`: `FSSpec => ImplementsFiles`. The map takes the path of a node to
  its type and text. That every node has one path is an induction down the tree, of
  which the recursive function `PathTo` is put together (`WayExists`, `WaysAgree`,
  `PathsExist`); that no two nodes share one is another (`PathsDiffer`).
  `ramfs_resolve` walks pointers and `Place` follows names, and the two meet after every
  component (`FollowIs`, `PlaceOfPath`), also through `.`, `..` and empty ones.
  `AddedMaps`, `RemovedMaps` and `WrittenMaps` are the map after a command
  (`PathsStay`: no other node's path changes), and there is one lemma for each command.

`InputProofs`, from `InterruptsAssumption` (what is opened is registered, request 2
is the cascade, no handler of a slave's request ends it itself) and
`KeyboardInputAssumption` (request 1 is registered and opened; the keys are among
the five modelled; code 30 is a letter that has a control character in both maps;
repeats are not switched off, which no code does):

* `InterruptTypes`, `OneServiceAtATime` and `HandlersAreThere` of `IrqSpec`:
  whatever requests devices raise and whichever are spurious, every end of
  interrupt ends the interrupt being dispatched or nothing, and every request that
  is dispatched has its handler. `ServiceIsDispatch` alone says nothing of how many
  interrupts there are; the inductive invariant `IrqInv` adds that at most one is
  being dispatched, with interrupts off (`OneFrame`), that the bits it has in
  service are those of its request (`FrameOK`), and that all handlers are there
  once interrupts are on (`BootOK`). `EndsOwn` is what the ends of interrupt do to
  such bits; there is a lemma for each step of an interrupt (`Entered`, `Within`,
  `Returned`) and one for everything else (`OutsideKeeps`).
* `EveryByteHasItsRequest`: `InputSpec => []ByteHasRequest`, for every set of keys.
  `ByteInv` adds to `IrqInv` that the keyboard is silent before `remap`. A step
  that leaves the byte alone has to leave its request (`ByteStays`); an interrupt
  that is accepted finds nothing being dispatched, so the request of the byte is
  latched or is the one accepted (`AcceptStays`), and its handler is there
  (`DispatchStays`). `OneServiceWithKeyboard` is `ServiceIsDispatch` from the same
  invariant.
* `ModifiersFollow` and `LettersAsMeant`: `InputSpec => []ModifiersFollowKeys` and
  `InputSpec => []LetterAsMeant`, however many codes wait. Run `input` lets two keys'
  codes meet; here `MAX_WIRE` is any number. Neither property says anything while
  codes are on their way, so `TraceInv` follows them: there is a chain of decoder
  states (`Leads`) from the present one through every code in the buffer and on the
  wire, each code fits where it will be decoded (`Fits`), and the chain ends in a
  state that matches the keys (`Matches`). A key appends to the chain (`LeadsOn`,
  one lemma for each key), the handler takes its first link (`LeadsFirst`,
  `Decodes`).

Only model-checked, and why:

* The four liveness properties (`EveryCharacterRead`, `KeyInterruptServed`,
  `PromiseKept`, `ReadyRuns`): fairness and `ENABLED` are beyond the prover.

## 5. What is not modelled

* Builds of `pmm.c` that lay its variables out in another order than the one `-O0`
  gives. There a bit beyond the bitmap may be one of any other variable.
* Available regions that end at or above 4 GB, whose `base + length` wraps.
* That the page allocator knows nothing of the heap's range: the two are not
  composed yet. No page it hands out is written by this kernel.
* That the last page of a region is freed whole even if the region ends inside
  it: `AccountedFor` counts a frame as available if a byte of it is.
* `kcalloc` (a multiplication check around `kmalloc`, no caller), `sleep_ticks`
  and `pit_calibrate_with_rtc` (no caller).
* Registers of tasks. `task_create` pushes 0x202 where `popa` takes EAX and 0
  where `popf` takes EFLAGS, so a new task would start with interrupts off.
* `ramfs_write` and `default_write` (no caller), the limits on the length of names
  and paths, and that `cat` reads in pieces of 256 bytes.
* The editor when there is no memory to start it: `editor_init` returns early with
  `filename` and the stacks unset. That every load leaves the first line
  `editor_init` made to nobody (`editor_parse_buffer` forgets it) is a leak that
  no property here speaks of.
* Keyboard: the tables of the three layouts (constants of `Keyboard`), a change of
  layout while keys are down, keys that are not in the model's set such as Pause
  and Print Screen, and codes a keyboard drops when its own buffer is full: the
  release of a modifier lost that way leaves it active until it is pressed again.
  `reboot_requested` is set and nothing reads it; `init_keyboard`,
  `keyboard_set_key_repeat` and `irq_unregister_handler` have no caller.
* Exceptions, which print and halt, and system calls, of which none is registered.
* Screen: colours, the backspace of `cprint`, which nothing the shell prints holds,
  and the formatting of numbers. `viprint` is modelled for texts without `%`, while
  `echo` and the message for an unknown command hand it what the user typed as a
  format.
* The real-time clock. It keeps no state; that the time shown may be read half
  before and half after a step of the clock is listed as a hazard.

## 6. Findings

A run shows a disagreement with what the repository says:

* `cwd_removed`: `mkdir a`, `cd a`, `rm .` frees the node that `shell_cwd` and
  `ramfs_cwd` still point to (`fs/ramfs.c` 195-213, `kernel/shell.c` 821-840). What
  `ls`, `mkdir` and `pwd` do from then on depends on who gets the block next.

Behaviours that the properties are stated around:

* From 42950 seconds on, `secs * 1000` and `ms * 100` leave 32 bits. `timer 42950`
  prints "Shutdown scheduled in 42950s" and arms a timer of 33 ticks, a third of a
  second (`kernel/shell.c` 1114-1118, `cpu/include/timer.h` 8). `DelayInReach` is
  about the delays below.
* Page 0 is put on the stack like any other page (`multiboot.c` 43-49). Once it is
  the only one left, `alloc` pops it, takes its address for NULL, prints "PMM: no
  free pages available." and the page is lost (`kernel/pmm.c` 60, `kernel/shell.c`
  577). `AccountedFor` lets frame 0, and no other, get lost.
* `free` with an address at or above 128 MB corrupts the page allocator on a machine
  of any size, and so does the walk on a machine with more memory: `cmd_pfree` passes
  any word (`kernel/shell.c` 581-587) and neither `pmm_free_page` nor `bitmap_test`,
  `bitmap_set` and `bitmap_clear` compare it with the bitmap's size (`kernel/pmm.c`
  23-33, 63-80). From about 129 MB on the bit is one of an entry of `free_stack`: the
  free adds a power of two to the address there, and `alloc`, which hands the page
  out although no memory is there, takes one away. The next `alloc` of that
  entry returns another page than was freed, possibly one that is in use. Without
  `~beyond` run `pages` shows it in eight steps: page 1 is freed and handed out, page
  0 is freed, and a free of page 14 turns the entry of page 0 into page 1. This is
  why the properties speak of the time before such a free only.
* A save that fails half way leaves the file empty, and if the document was unmarked
  before, the editor quits without asking. Ctrl+O drops unsaved changes without
  asking.
* `shell_redraw_line` prints up to 255 characters into a row of 80. Once the line
  fills its row the print wraps and every redraw starts from the row the cursor
  ended in, which End at a full line makes one row lower with each key; below the
  last row `clear_screen_row` writes behind the video memory (`kernel/shell.c`
  272-280, `drivers/screen/screen.c` 261-266). What such a line leaves in the rows
  below the cursor stays there: after Home and Enter the next prompt is printed over
  it, and the row shows it behind the prompt until the first key (249, 258).
  `LineShown` holds the row and the cursor to the lines that fit, and after a line
  that did not fit to those that have a character.
* With more than 20 commands typed, Up goes on beyond the oldest one kept and shows
  newer ones in its place (`kernel/shell.c` 341-345).
* A key pressed while the kernel starts, before the controllers are reset, leaves a
  byte that no interrupt announces; the keyboard is silent from then on
  (`cpu/pic.c` 17-47; nothing reads the port before line 219 of `keyboard.c`).

## 7. Plan

Done, in this order: `KeyBuffer`, `Console`, `BuddyHeap`, `Timers`, `Shutdown`,
`ShutdownDelay`, `PMM`, `Tasks`, `RamFS`, `Editor`, `Interrupts`, `Keyboard`,
`KeyboardInput`, `Screen`, `LineEditor`; proofs about `KeyBuffer`, `Console`, `PMM`,
`BuddyHeap`, `Interrupts`, `KeyboardInput`, `Timers`, `Shutdown`, `ShutdownDelay`,
`Tasks`, `LineEditor`, `Editor` and `RamFS`.  Every safety property and every
refinement that a passing run checks is now a theorem as well.

Models that remain worth writing: the page allocator composed with the heap's
range, and the editor's decoder of escape sequences (`snake/snake.c` 168-275) on
sequences cut short, as `LineEditor` has the shell's.
