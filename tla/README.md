# A TLA+ model of the AuraOS kernel

AuraOS is a small x86_64 kernel: one CPU, one address space in practice, an
interrupt-driven timer and keyboard, a shell in the idle loop, and a set of
memory allocators. This directory holds TLA+ modules for the parts of it that
keep state, TLC configurations that check them on small instances, and proofs
for TLAPS. Paths below are relative to `src/kernel/` unless they start with
`src/`.

## 1. Inventory

| Component | State | Operations | Uses / used by | What is hard |
|---|---|---|---|---|
| Physical memory manager, `core/pmm.c` | bitmap, `used_frames`, `alloc_hint` | init, mark used/free, allocate one frame, allocate a run, free | used by heap, slab, vmm; `main.c` reserves the image and the bitmap | hint against frees, last partial word, frame 0 = failure |
| Heap, `core/heap.c` | headers with four links each, free list, `heap_used` | kmalloc, kmalloc_aligned, krealloc, kfree, grow_heap | takes runs of frames; used by zram, sched | long sequences of split and merge, wrap-around of sizes, pointers inside a payload |
| Slab, `core/slab.c` | zones: free list, page count | zalloc, zfree, zone_refill | takes frames | a chunk on the wrong list, competition for frames |
| zram codec, `core/zram.c` | positions in two buffers | compress, decompress | used by the pool | buffer ends, tags, loops that must advance |
| zram pool, `core/zram.c` | slots, statistics | store, load, free, get_stats | heap | failure half way, statistics kept beside the slots |
| Scheduler, `core/sched.c` | task table, `cur_task`, `task_count` | init, create, yield | switch_to | fairness of the choice |
| Context switch, `arch/x86_shared/switch.S` | stacks, `rsp`, callee-saved registers | switch_to, task_trampoline | scheduler, interrupts | order of pushes and pops, interrupts in between |
| Keyboard, `drivers/keyboard.c` | ring, head, tail | handler, has_key, getchar | interrupt writes, main loop reads | no lock |
| kernel_main, `main.c` | `last_refresh`, `now`, two waits | the boot; then poll keys and serial line, refresh, hlt | everything | order of the initialisations, waits for the timer, lost wake-up, starvation |
| Multiboot2 parser, `core/multiboot2.c` | position in the tags, `out_info` | parse | `main.c` | padding between tags |
| Timer and monitor, `arch/x86_shared/pit.c`, `core/sysmon.c` | tick count, idle window | tick, set_idle, get_stats | interrupt, idle loop | sampling against the loop |
| Serial receiver, `arch/x86_shared/serial.c` | receiver FIFO (hardware) | poll | idle loop | polled, one byte a round |
| Interrupts, `arch/x86_shared/idt.c`, `isr.S` | controller, IF, handlers, stack | gates, registration, dispatch, end of interrupt | all handlers | nesting, a line left in service |
| Panic console, `core/panic.c`, `core/pagefault.c` | recovery point | set point, poll keys, restore, reboot, power off | every exception, shell | leaves whatever it interrupted |
| Shell, `core/menu.c` | view, line, log | handle_key, commands, render, update | keyboard, panic, tui, dashboard | a command that never returns, numbers overwritten in place |
| Console, `drivers/vga.c` | cells, cursor | putc, newline, scroll, clear | the boot's text | wrap and scroll at the corner |
| Text user interface and dashboard, `drivers/tui.c`, `core/dashboard.c` | the same cells | boxes, bars, text by coordinates | shell, panic | nobody clears the screen between two pictures |
| Virtual memory, `arch/x86_64/vmm.c` | page tables, CR3, TLB (hardware) | map, unmap, translate, switch, invlpg | frames | stale tables and translations, no memory |
| GDT, boot code | - | - | - | not modelled, see section 8 |

What makes each of them correct:

* **pmm**: the counter is the number of set bits, the hint hides no free frame,
  each frame has one owner, the least frame or run is handed out.
* **heap**: headers tile the regions, the free list is exactly the free blocks
  and no two are neighbours, a pointer has all its bytes, each used block has one
  owner.
* **slab**: chunks are conserved and disjoint. **zram**: what was stored is
  loaded; statistics are those of the slots; the codec stays in its buffers,
  ends and inverts.
* **scheduler**: one running task, bounded overtaking, registers survive, nobody
  starves. **keyboard**: the ring is a bounded queue. **loop**: every key, byte
  and refresh is served. **recovery**: the loop comes back with
  interrupts alive, no interrupted context on its stack, and no deeper each time.
* **vmm**: a page translates to what it was last mapped to, in its own space.
* **boot**: the parser lands on tags only and reads the RAM that is there; the
  waits for the timer end.
* **screen**: what is visible is what the state says: the boot's text, the line
  that Enter would run, the last messages of the log, and nothing left over from
  an earlier picture.

## 2. Modules

| Module | Models | Builds on |
|---|---|---|
| `FrameAllocator` | abstract: a set of allocated frames, least frame or first fitting run | - |
| `Pmm` | `core/pmm.c`, reservation in `main.c` | implements `FrameAllocator` |
| `Heap` | `core/heap.c` | instantiates `FrameAllocator` for its frames |
| `Slab` | `core/slab.c` | - |
| `Multiboot2` | `core/multiboot2.c` | - |
| `Memory` (`MCMemory`) | parsing, reservation and allocation from the boot on, `main.c` | extends `Pmm`, instantiates `Slab` and `Multiboot2` |
| `ZramCodec` | the two codec functions | - |
| `Zram` (`MCZram`) | pool and statistics | the codec as a constant of a page |
| `Sched` | task table and choice | - |
| `ContextSwitch` (`MCContextSwitch`) | stacks, registers, `switch.S` | extends `Sched` |
| `KeyQueue` | abstract: bounded queue | - |
| `Keyboard` | `drivers/keyboard.c` | implements `KeyQueue` |
| `MainLoop` | loop, timer tick, sysmon, serial receiver | instantiates `Keyboard` |
| `Recovery` | boot, interrupt controller, nesting, panic console, shell | - |
| `Vga` | `drivers/vga.c` | - |
| `Tui` | `drivers/tui.c` | extends `Vga` |
| `Dashboard` | `core/dashboard.c` | extends `Tui` |
| `Shell` (`MCShell`) | `core/menu.c`, the screen of `core/panic.c` | extends `Dashboard` |
| `AddressSpace` | abstract: partial functions from pages to mappings | - |
| `Vmm` (`MCVmm`) | `arch/x86_64/vmm.c` with a TLB | implements `AddressSpace`, instantiates `FrameAllocator` |
| `KernelLemmas` | facts about least elements, division, blocks of a region, lists without repetition | TLAPS |
| `MemoryProofs` | theorems about `Pmm`, `Slab` and `Memory` | `Memory`, `KernelLemmas` |
| `HeapProofs` | theorems about the heap | `Heap`, `KernelLemmas` |
| `ZramProofs` | theorems about the codec and the pool | `ZramCodec`, `Zram`, `KernelLemmas` |
| `ControlProofs` | theorems about the task table, stacks and registers, and about interrupts and the recovery point | `ContextSwitch`, `Recovery`, `KernelLemmas` |
| `MainLoopProofs` | theorems about the ring and the idle flag | `MainLoop`, `KernelLemmas` |
| `ShellProofs` | theorems about what the screen shows | `Shell`, `KernelLemmas` |
| `VmmProofs` | theorems about page tables and the TLB | `Vmm`, `KernelLemmas` |

`Heap` and `Vmm` do not repeat the bitmap: they use the abstract
`FrameAllocator`, and `Pmm` is shown (by TLC, and by proof for every size) to
implement it. `OtherTakesFrame` in `Heap` stands for the other users of the same
frames. `Memory` puts the slab allocator on the bitmap itself, with other callers
between its calls. A key goes through `Keyboard` in `MainLoop`; `Recovery` has
the same ring as a short sequence, and `Shell` takes keys as they come.

Nothing in the kernel calls the scheduler or the virtual memory manager yet; their
modules take the calls that the headers offer.

Names follow the code. Variables named in a comment as *history* are not in the
program; they record what callers hold or what happened before. Operators named
`Definition_Flaw` and introduced as *Mutant* stand before the definition of which
they are a faulty variant; nothing uses them in the model. They say which
mistake in the code the properties would notice.

## 3. State and actions against the code

**Pmm.** `bitmap` is the set of frames whose bit is 1. `ReserveBoot` is one
iteration of the reservation loop in `kernel_main`; `mark_used` and `mark_free`
are the two helpers with their double-call guards. The scan of
`pmm_alloc_frame` is the three sets `Phase1` (words from the hint on), `Phase2`
(words before it) and `Phase3` (bits after the last whole word): each phase
goes up, so it finds the least frame of its set. `pmm_alloc_contiguous` leaves
the hint alone, as the code does. Address 0 is "no memory" to a caller.

**Memory.** `ParseTag` is one iteration of the loop of `multiboot2_parse` on a
boot information `mbi` that maps offsets to tags, so that a read at any other
offset is an error. The boot loader writes every set of tags in every order
(`TagLists`), each where the padded one before it ends (`TagEnds`). The
RAM it reports is that of `Pmm`, and the reservation of `Pmm` is where the bitmap
behind the kernel image ends (`MemoryAssumption`). From `pmm_init` on, zones and
other callers take frames in any order.

**Heap.** `blocks` maps header addresses to size, used, next, prev;
`free_list` is the chain of `next_free`. A request is in `call` while kmalloc
searches (`Allocate`), grows (`grow_heap`) and calls itself again; krealloc is
kmalloc, copy and kfree (`FinishRealloc`) with both blocks alive in between. All
sizes are taken modulo `SizeMod`, the width of `size_t`.

**Slab.** A zone is its free list and page count; `ZallocWithRefill` carves the
frame it is given in the order of `zone_refill` and pops in the same call.

**ZramCodec.** One iteration of an outer loop is a step; the tag of a literal
block is its length. `zram_decompress_page` also gets streams from elsewhere, which
it may reject. **Zram.** One action for each result of `zram_store`,
`zram_load` and `zram_free`, in the order of the checks.

**Sched, ContextSwitch.** `Slot(i)` is the i-th candidate of the scan in
`sched_yield`. `ContextSwitch` adds stacks as arrays of words: the initial frame,
the return address that the call of `switch_to` pushes, the pushes, the store of
`rsp`, the load, the pops and the return are steps, and `Interrupt` may overwrite
everything below `rsp` between any two of them.

**Keyboard.** The handler is one step (its gate clears IF); the main loop's
accesses to the ring are three, and they are steps of `MainLoop`.

**MainLoop.** One step for each statement of the loop that touches shared state.
Interrupts come between any two. Only differences of tick counts are used in the
code, so ticks are counted from `last_refresh` (`since`) and from the reading of
`now` (`lag`), cut at `Refresh`.

**Recovery.** The boot is one step for each initialisation that matters to
interrupts, and one for the end of each wait. `at` is where the CPU is, `rsp`
how many words lie on the stack below the frame of kernel_main, `saved` the
interrupted contexts by the `rsp` they were pushed to, `irr` and `isr` the
registers of the controller. An interrupt pushes 22 words on the aligned stack,
a command lies `CommandWords` below the loop; the frames of the C handlers,
below their context, are not counted. An interrupt is delivered if IF is set and
no line of equal or higher priority is in service; its handler, its end of
interrupt and its `iretq` are three steps. Shell commands that fault, and
non-maskable interrupts at any point, enter the panic console. The recovery
point records `rsp` as `panic_set_recovery_point` reads it: `PointWords` below
kernel_main. A restore loads it, sets IF and jumps behind the call, so the loop
goes on that much lower. Setting the point is one step. The byte polled by the
console may leave its interrupt request latched. `interrupt_handlers` are the vectors
with a handler; an interrupt without one is acknowledged and nothing else. A
non-maskable interrupt before the descriptor table is loaded resets the CPU.

**Vga, Tui, Dashboard, Shell.** A row is a sequence of characters. `vga_putc`
moves the cursor as the code does; the functions of `Tui` return the strips of
text that they write by coordinates, and `Paint` writes them in order with the
clipping of `tui_puts_at`. `menu_render` draws from a sample of the monitor, any
of `Stats`. Letters that are typed, numbers and what is logged are kept
character by character, since the properties look at them; a fixed word is `w`s
of its length and a border one of three characters. Colours are left out.
`Enter` logs the line, runs its command, clears the line and draws; a command
that faults leaves the line as it is and the panic console paints over all rows.

**Vmm.** Frames hold tables; a frame that was never cleared holds `Stale`
entries. `vmm_map_page` descends three levels and builds what is missing.
`TlbFill` lets the CPU cache any present translation of the active tables at any
time.

## 4. Runs

| Run | Module / cfg | Question | Bounds |
|---|---|---|---|
| `memory` | `MCMemory` | is the RAM read right from the boot information, do counter, hint and ownership stay right through every order of calls, is the search the abstract one, are chunks conserved and disjoint? | 10 frames in words of 4 bits (two words and a tail of 2), 5 reserved, runs to 3; zones of 2 and 1 chunks a page, 2 pages; 4 tags |
| `heap` | `Heap` | is the block structure right through every order of calls? | 4 frames of 20 bytes, header 4, sizes 0, 1, 4 and 17, alignment 4, 3 live |
| `heap_aligned_free` | `Heap` | what does kfree do to an aligned pointer? | as `heap` |
| `zram_codec` | `ZramCodec` | does the codec stay in its buffers, end, and invert? | every page of 9 bytes over 0, 1, 3; limits 2, 3, 4, 4; every other stream of up to 4 bytes |
| `zram_round_trip` | `ZramCodec` | is every page restored? | as `zram_codec` |
| `zram` | `MCZram` | do slots, buffers and statistics agree? | 3 slots, 4 kinds of pages, 3 buffers, 4 operations counted |
| `scheduler` | `MCContextSwitch` | fairness, registers, completion | 3 tasks, 2 registers of 2 values, tick counters modulo 2 |
| `main_loop` | `MainLoop` | is the ring a queue, is everything served, is sleep idle? | ring of 3 cells, 2 keys, refresh 1, window 2, FIFO 1 |
| `recovery` | `Recovery` | does the boot complete, does the loop survive faults and restores, is the keyboard never silenced? | waits of 1 and 2 ticks, ring of 1, nesting to 2 |
| `vmm` | `MCVmm` | do the tables implement address spaces? | 13 frames, 2 spaces, 2 entries a table, 2 pages, 2 mappings |
| `screen` | `MCShell` | does the screen show what the state says? | the real 80 by 25 cells, 2 letters, lines of 2, log of 2, 2 samples, 5 texts printed |
| `status_bar` | `MCShell` | does the status bar show the load? | as `screen` |

Every run finishes; the largest (`heap`) visits about 440 000 states.

Why the bounds are enough. `memory`: two words, a hint in either and a tail that
no whole word covers; the reservation ends inside the second word, the runs cross
into the tail; both zones are refilled (or one of them twice) while other callers
take the rest of memory. Sixty-four
in the code is 4 here, and for the frame allocator the proof removes the bound.
The two tags without memory have sizes that need padding. `heap`: 17 is close to a page and forces growth of
two frames, 1 splits, 4 leaves a rest too small to split, 0 is the early return;
four frames are exhausted. `zram_codec`: lengths beyond every limit, so runs
and literals are cut, and a buffer too small for some pages. The values 1 and 2
of bytes coincide with tags, as in the code. `scheduler`: three
tasks are the least in which a scan from a fixed slot starves one.
`main_loop`: the indices wrap, the ring is full with two; several ticks may fall
between any two steps, more than a refresh needs. `recovery`: a fault in the
shell and a non-maskable interrupt in the boot, in a handler or on top of the
panic, and again after a restore; the second wait needs a tick after the first of
its own. One word for the recovery point is the least there is and makes the stack
odd, so that the next interrupt aligns it; the proof removes the bound. `screen`: nine
newlines before a character and twenty characters, five times in any order: rows
fill to the last column, empty lines follow full ones, and the text runs past the
last row. Help logs more lines than the log holds; a letter is typed at a full
line; loads of three digits and of one. `vmm`: two pages that share two levels and two spaces that
share none; thirteen frames are enough for every table that can be built.

**Deadlock** is checked except in `Heap` (aligned allocations are never freed
in `heap`, so they may fill the memory for good), `ZramCodec` (the functions
return) and `MCShell` (the machine may be switched off).

Type correctness is a property of its own in `memory` and `main_loop`; elsewhere
it is a conjunct of the first structural invariant (`ChunksConserved`, `StatsExact`,
`BlocksTileRegions`, `RegistersPreserved`, `LoopStackSettles`, `TablesFormTrees`,
`NoLeftovers`).

**What the passing runs show**, apart from type invariants:

* `BootInfoIsRead` - whatever the order and the sizes of the tags.
* `UsedFramesExact`, `HintIsSound`, `EveryFrameHasOneOwner`,
  `RefinesFrameAllocator` - the allocator, for every order of reservations,
  allocations and frees. Frame 0 is never a caller's, because it is reserved.
* `ChunksConserved`, `ChunksDisjoint` - each chunk of each page is on one list
  or with one caller, no byte is in two chunks, and all of them lie in frames
  that the frame allocator has given out and nobody has freed.
* `BlocksTileRegions`, `FreeListExact`, `HeapUsedExact`, `GrantedInFull`,
  `EveryBlockHasOneOwner` - the heap, for pointers from kmalloc and krealloc
  freed at most once. `GrowthIsEnough` - the step after a growth grants the
  request, so kmalloc calls itself once at most.
* `StaysInBuffers`, `RoundTripWithoutShortLiterals`, `Terminates` - also for streams
  that are cut short or damaged. A stream that zram_compress_page made is never
  rejected, not even where it is misread, which is why `Zram` has no failing load
  of a stored page. `StatsExact`, `HandlesKeepTheirPage` - the pool, through every
  error of a store.
* `OneRunningTask`, `BoundedOvertaking` (a waiting task is passed at most once by
  each other), `RegistersPreserved`, `SwitchCompletes`.
* `RefinesKeyQueue` - nothing lost but at a full ring, nothing twice, nothing out
  of order, in the loop of kernel_main as it is.
* `SleepCountsAsIdle`, `KeysAreHandled`, `SerialAndScreenAreServed` - the last
  unless keys arrive without end, since the loop that empties the ring comes
  first and has no bound.
* `HltCanEnd`, `LoopStackSettles`, `IrqsAreServed` - also after a panic before
  the recovery point is set, and on top of another panic. The loop's stack pointer
  is that of its entry or, after any number of restores, `PointWords` lower. `BytesAreRead` - the
  keyboard is not silenced by a byte that nobody reads. `BootCompletes` - the
  waits for the timer end, unless a panic ends the boot.
* `BootTextShown` - compared with a page laid out without a cursor.
  `RunsWhatIsShown`, `LogShown`, `NoLeftovers` - for every order of keys, updates,
  changes of view, faults and restores.
* `TablesFormTrees`, `NoStaleTranslation`, `RefinesAddressSpace`.

## 5. Fairness

Only what the hardware or a loop of the code gives:

* `MainLoop`: the CPU executes the loop (`WF(Loop)`), the timer does not stop
  (`WF(pit_irq_handler)`; it is programmed once and never masked). Nobody has to
  type or send.
* `Recovery`: handlers and shell code proceed; the timer ticks (`WF(RaiseTimer)`)
  and is delivered when it can be. Strong fairness of the keyboard line and of
  kernel_main only: the timer has priority, and both may be enabled only in the
  gaps it leaves, but a handler is shorter than a tick.
* `ContextSwitch`: the steps of the switch proceed, and a task yields again and
  again (`WF(YieldSwitches)`); the scheduler is cooperative, so this is an
  assumption on tasks. A task whose function has returned does so in the parking
  loop.
* `ZramCodec`: a loop proceeds. The other modules assume none.

## 6. What is proved

`MemoryProofs` proves for every number of frames, every word size, every number of
reserved frames and every bound on runs (`PmmAssumption`: positive naturals,
`MaxRun` a natural):

| Theorem | Statement |
|---|---|
| `PmmTypeCorrect` | `Spec => []TypeOK` |
| `PmmCounterExact` | `Spec => []UsedFramesExact` |
| `PmmHintSound` | `Spec => []HintIsSound` |
| `PmmOneOwner` | `Spec => []EveryFrameHasOneOwner` |
| `PmmRefines` | `Spec => RefinesFrameAllocator` |

The history variable `asked` keeps the size of the last request, so that the
abstract allocator can tell an honest failure from a refusal.

The argument. None of these is inductive alone. The invariant is

    IInv == TypeOK /\ UsedFramesExact /\ HintIsSound /\ BootPrefix /\ EveryFrameHasOneOwner

`pmm_alloc_frame` refuses by the counter and searches by the hint, so its step
needs counter and hint; `FullMeansNoneFree` and `NoCandidates` make "counter at
the end", "no candidate" and "no free frame" the same. `BootPrefix` says that
during boot the bitmap is the prefix already reserved and nobody holds anything:
without it ownership could not be established when boot ends. The centre is
`SearchFindsLeast`: under a sound hint the least candidate of the three phases
is the least free frame, which needs that words are monotone in frames
(`DivMonotone`) and that `Min` names the least element of a set of naturals
(`MinOfNaturals`, both in `KernelLemmas`). There is one preservation lemma for
each action. Refinement uses the same invariant: each step is a step of
`FrameAllocator` or leaves its variables alone (`StepRefines`).

TLC checks the named invariants on the instance of run `memory`, where they hold
under the steps of `Pmm` with other steps in between; `BootPrefix` is an auxiliary
conjunct of the proof.

`ControlProofs` proves about `Spec` of `ContextSwitch`, for every `TASK_MAX` and
`TickMod` that are positive naturals (`SchedAssumption`) and whatever the
registers hold:

| Theorem | Statement |
|---|---|
| `SchedTypeCorrect` | `Spec => []SchedTypeOK` |
| `SchedOneRunning` | `Spec => []OneRunningTask` |
| `SchedBoundedOvertaking` | `Spec => BoundedOvertaking` |

The argument. Overtaking is bounded because of where the running task stands.
`Dist(a, b)` is how far b lies after a, counted round the table; the invariant is

    SchedInv == SchedTypeOK /\ OneRunningTask /\ PassedOnTheWay

where `PassedOnTheWay` says that whatever a waiting task was passed by lies no
further from it than the running task. `SlotIsAfter` turns `(cur_task + i) %
TASK_MAX` into a sum that wraps once at most; `YieldGoesOn` shows that the least
such i with a READY slot moves the running task further from every task that
goes on waiting, so it cannot be one of those it was passed by already.
`MachineStep` shows that a step of the whole machine (an instruction of
`switch_to`, an interrupt, a computation) is a step of the scheduler or leaves
the task table alone.

The same module proves about the whole machine, for every stack depth and every
sequence of saved registers:

| Theorem | Statement |
|---|---|
| `SwitchKeepsRegisters` | `Spec => []RegistersPreserved` |

`RegistersPreserved` speaks of the running task. What makes it inductive is what
all the others left behind: `MachineInv` says that each suspended task lies on a
`Frame` of `switch_to`, a return address with the registers below it in the order of
the pushes, and what the processor holds at each instruction of the switch
(`OnSave`, `OnLoad`, `OnRestore`, `OnTrampoline`). An interrupt writes below
`rsp` of the running task only, so no frame changes (`FrameStays`);
`PopsWhatWasPushed` is the one fact about the order of pushes and pops.

### The boot information

`MemoryProofs` also proves, when `LowMemory + UpperMemory < U32`:

| Theorem | Statement |
|---|---|
| `BootInformationIsRead` | `MemorySpec => []BootInfoIsRead` |

For every set of other tags, every order, every size of a tag and every memory map.
The condition says that the KiB of RAM fit in the 32 bits that `multiboot2_parse`
adds them up in (`core/multiboot2.c:46`); above 4 TiB the total wraps around. The
invariant `WalkInv` has the walk stand where a tag of the list begins, with what the
tags before it said: the total if the basic memory information is among them, the RAM
if the memory map is. `PlacedAt` is why the next tag is found, as padded sizes are
above zero and no two tags begin at one offset (`SumsGrow`); `BootListIs` says that
the two tags come once each and the end tag last; `AvailableIs` that the loop over the
entries of the map counts the bytes of RAM that it lists, region by region.

Offsets and that loop are functions defined by recursion. `Iterates` and
`IterationUnique` in `KernelLemmas` show, by a least counterexample, that the values
of such a loop exist and that nothing else satisfies its definition; `RunningSum` is
their case for sums.

### The slab allocator on the frame allocator

`MemoryProofs` goes on from `Pmm` to `MemorySpec`, for every table of chunk sizes:

| Theorem | Statement |
|---|---|
| `MemoryRunsPmm` | `MemorySpec => Spec` |
| `SlabChunksConserved` | `MemorySpec => []ChunksConserved` |
| `SlabChunksDisjoint` | `MemorySpec => []ChunksDisjoint` |

The first one carries every theorem about `Pmm` over. For the other two a zone
does not say which frames it took, so `SlabInv` recovers them from its chunks:
`PagesOf(i)` are the frames that the chunks lie in, a zone holds exactly what
cutting these frames yields (`CutFrom`), as many as its page count says, they are
held, and two zones share none. A refill then adds one frame that nobody held,
by ownership in `IInv`; that is where the two invariants meet.

### The heap

`HeapProofs` proves, for every number and size of frames, headers and
alignments, every set of sizes, and any number of live pointers:

| Theorem | Statement | Hypothesis |
|---|---|---|
| `HeapBlocksTile` | `Spec => []BlocksTileRegions` | - |
| `HeapListExact` | `Spec => []FreeListExact` | - |
| `HeapUsedIsExact` | `Spec => []HeapUsedExact` | - |
| `HeapGrantsInFull` | `Spec => []GrantedInFull` | `SizesDoNotWrap` |
| `HeapOneOwner` | `Spec => []EveryBlockHasOneOwner` | `SizesDoNotWrap` |
| `HeapGrowsOnce` | `Spec => GrowthIsEnough` | `SizesDoNotWrap` |

`HeapInv` is inductive for every size a caller may ask for: the blocks are
`Chained` (links agree both ways, next is the header right behind, no overlap),
`Filled` (the first and the last block of each region are at its ends), the list
is the free blocks, each once (`Listed`), no two neighbours are free (`NoPair`),
the counter is the number of payload bytes (`BytesOf`), regions lie in frames
that the heap holds, and krealloc's two blocks are in use while it copies
(`CallOK`). Split and merge are operators on block tables, so the argument is
about them: `SplitFields` and `MergeFields` say which fields change, and one lemma
for each part of the invariant follows (`CutChained`, `CutFilled`, `MergeChained`,
`MergeFilled`, ...). `RightMerged` and `FreeKeeps` put the two merges of kfree
together, where "no two neighbours are free" is what keeps one merge on each
side enough. `OwnInv` adds who holds each block, and what the request in progress
was rounded up to.

`SizesDoNotWrap` says that a size stays in `size_t` when it is rounded up, padded
and counted in pages. The code does not check it; where it fails a pointer may
have fewer bytes than were asked for, and `kmalloc_aligned` may store its raw
pointer outside the payload. The first three theorems hold without it, of the
headers and the list as the allocator itself writes them; that nothing else
writes over them needs callers that stay in their bytes, and the hypothesis.

### zram: the codec and the pool

| Theorem | Statement |
|---|---|
| `CodecStaysInBuffers` | `CodecSpec => []StaysInBuffers` |
| `CodecRoundTrip` | `CodecSpec => []RoundTripWithoutShortLiterals` |
| `ZramStatsExact` | `Spec => []StatsExact` |
| `ZramHandlesKeepTheirPage` | `Spec => []HandlesKeepTheirPage` |

For every length of pages, buffers and blocks. `StreamInv` gives the codec a
witness: a function `at` from the positions of the stream where a block begins to
the position of the page that it stands for, such that what lies between two
neighbours is a `Block`. While compressing, each iteration adds a boundary
(`BlockAppended`); while decompressing, `in_idx` is a boundary. A literal block of
one or two bytes is read as a run, but takes up as many bytes of the stream as
that run would, so even then decompression goes from boundary to boundary and
never finds an operand missing (`CorruptKeeps`). Where no literal block was that
short, the length of what is restored is the position `at` names, and the two
agree to the end of the page; without the boundaries neither function says anything
about the other.

`ZramInv` of the pool: slots in use, buffers on the heap and handles of callers
correspond one to one (`OwnersAgree`), and the statistics count them. The two
properties need each other, since a free subtracts the length of the slot it finds.

### The idle loop and its interrupts

| Theorem | Statement |
|---|---|
| `LoopTypeCorrect` | `Spec => []TypeOK` |
| `SleepIsIdle` | `Spec => []SleepCountsAsIdle` |
| `RingIsQueue` | `Spec => RefinesKeyQueue` |
| `LoopStackSettled` (`ControlProofs`) | `RecoverySpec => []LoopStackSettles` |
| `HltAlwaysCanEnd` (`ControlProofs`) | `RecoverySpec => []HltCanEnd` |

For every size of the ring. `RingIsQueue` needs that between the two accesses of
keyboard_getchar nobody writes the cell at the tail (`ReadKeyIsNext`), and that
storing and advancing are append and tail of what the ring holds (`StoreAppends`,
`AdvanceTakesHead`, modulo the size of the ring). `SleepIsIdle` needs that from
`sysmon_set_idle` on the flag stays set until a tick takes it (`IdleIsMarked`).
For every length of the waits, every depth of nesting and every depth of the two
calls, `RecoveryInv` says why a restore leaves the loop in order: interrupts are
enabled only in code that nothing interrupts, so a handler lies on one context, and
what piles up later was pushed below a panic, which leads back only to the recovery
point (`StackInv`). That point is set once, before any restore, so its `rsp` is
always `PointWords`; every context lies at `ContextWords` or deeper, below it, so
none is left above and restores do not add up. Between delivery and end of interrupt
a line is in service alone, unless a restore abandoned one (`ServiceInv`).

### Virtual memory

| Theorem | Statement |
|---|---|
| `TablesStayTrees` | `Spec /\ []TablesAllocated => []TablesFormTrees` |
| `CacheIsNeverStale` | `Spec /\ []TablesAllocated => []NoStaleTranslation` |
| `VmmRefines` | `Spec /\ []TablesAllocated => RefinesAddressSpace` |
| `FramesNeverRunOut` | `FramesSuffice` implies `Spec => []TablesAllocated` |

For every number of spaces, pages, entries and frames. The invariant is that
there is an assignment of levels 1 to 4 to the tables under which they form a
`Tree`: entries link one level down, each table but the roots has one parent, a
leaf maps a data frame. A new table keeps the tree and every walk
(`NewTableKeepsTree`, `NewTableKeepsWalks`); a write of a last entry changes the
walk of one page in one space (`WriteKeepsTree`, `OnePath`), so invalidating that
page is enough. `TablesAllocated` says that no link leads to frame 0: `vmm_map_page`
does not test what `pmm_alloc_frame` returns, and without it the tables are no
tree. `FramesNeverRunOut` shows that it is no empty promise: it holds in every
behaviour when RAM has a frame for 0, the roots, the data, and three tables for
each page of each space (`FramesSuffice`).

### What the screen shows

`ShellProofs` proves, on the screen of 80 by 25 cells, for every length of the
line up to 64 and of the log up to 8, every set of letters, texts, messages and
samples, and every number of them:

| Theorem | Statement |
|---|---|
| `NothingIsLeftOver` | `Spec => []NoLeftovers` |
| `EnterRunsWhatIsShown` | `Spec => []RunsWhatIsShown` |
| `LogIsAlwaysShown` | `Spec => []LogShown` |
| `BootTextIsShown` | `Spec => []BootTextShown` |

Two arguments carry them. For the first three it is that a row that is covered whole
does not depend on what was under it (`CoveredRow`). A drawing is a list of strips;
what it leaves in a cell is what the last strip over that cell says, so it is enough
to see that the strips of a view `Fill` their rows: the header, the status bar, the
log's box, the prompt's box and the footer of the menu (`MenuDraws`), the boxes side
by side of the dashboard (`DashboardDraws`). The invariant `ShellInv` is that while
the loop runs the rows that the view owns are those of its picture on an empty
screen, from the line, the log and some sample; `menu_update` writes into row 2
alone, which the invariant leaves out. That the
prompt and the log window show the line and the log are then facts about one
drawing (`MenuShowsLine`, `MenuShowsLog`): the last strip on the row is the one
with the text (`LastStrip`), and the text fits. That the log is what was logged last
(`LogAllMirrors`) goes message by message through scrolling (`HoldsOneMore`).

For the text of the boot it is that every character stands above the next one on the
page, or to its left in the same line (`OrderGoesOn`), so `vga_putc` never writes over
a cell that is taken. The page places a character by counting from the last newline
before it; `Laid` says that the cursor is at the place of the next character and
the screen shows those before it and nothing else, as much of them as fits. `PutcLaid`
keeps this for each character, at the last column and in the last row too, where the
picture moves up by a line (`ScrollPictured`); `PutsLaid` and `FlattenMore` carry it
over texts of any length and any number of them. `BootInv` is `ShellInv` with this
for the boot.

### Assumptions

Every theorem rests on the named assumptions of its modules, which TLC evaluates
in the runs. Beyond types they say: the ring has two cells at least; `Margin` is
less than a page; a run may be longer than one byte and no shorter than a literal
block (`ZramCodecAssumption`); a tag of the boot information has a size above zero,
and those in `OtherTags` are of other types (`MemoryTagsAssumption`);
`panic_set_recovery_point`, which has no locals to keep, reads `rsp` one word at
least and less than an interrupt's 22 words below its caller
(`RecoveryAssumption`); a message of the
kernel is no wider than the log window, as all of those in `core/menu.c` and
`core/panic.c` are (`ShellTextAssumption`; the echo of a line is proved to fit); a header is no larger than a page, and `size_t` holds every
address of RAM with a header behind it (`HeapAssumption`). The bounds that
runs need (live pointers, operations, nesting) are constants without an upper
limit in the theorems.

### Only model-checked

All liveness (`KeysAreHandled`, `SerialAndScreenAreServed`, `SwitchCompletes`,
`Terminates`, `IrqsAreServed`, `BytesAreRead`, `BootCompletes`); every safety property
of a passing run is stated by a theorem above. Out of the prover's reach: liveness
under fairness and `ENABLED`; recursive operators; the induction theorems of the
library, which take an operator as a parameter. What a recursive function over
`0 .. n` computes is proved with `MinOfNaturals` in their place, as above. The
violation runs of section 7 are counterexamples and need no proof.

## 7. Where code and documents disagree

With a run:

* `heap_aligned_free`: `core/heap.c:136` takes the bytes below its argument for
  the header; `include/aura/heap.h:43` promises that kfree takes pointers from
  kmalloc_aligned. The raw pointer stored at `core/heap.c:170-173` is never read.
  The run covers the behaviours in which the byte read as `used` is 0 and kfree
  returns; the block keeps no owner.
* `zram_round_trip`: the tag of a literal block is its length
  (`core/zram.c:81`), and lengths 1 and 2 are the tags of runs, so the page is
  not restored.
* `status_bar`: `core/menu.c:288` writes the load with one blank behind it over
  the load that is there. After 100 a load of 5 leaves `5% %`, until something
  draws the whole menu; `core/menu.c:285` calls it an update of the live stats.

Visible in the models, with the property restricted to where it holds:

* Sizes near the end of `size_t` wrap in `align_up` and in the padding of
  kmalloc_aligned; a smaller block than asked for is returned. `GrantedInFull`
  holds for sizes that do not wrap, as those of `heap`; the theorem has the condition
  as its hypothesis (`SizesDoNotWrap`).
* `vmm_map_page` does not test for 0 from `pmm_alloc_frame`; without memory frame
  0 becomes a table. `RefinesAddressSpace` is checked with frames enough, and proved
  under `TablesAllocated`.
* A restore from a panic inside an interrupt handler leaves the line in service,
  since the end of interrupt is never sent; variable `abandoned` marks it in
  `HltCanEnd` and `IrqsAreServed`. It needs an exception or a non-maskable
  interrupt in a handler.
* `panic_set_recovery_point` (`core/panic.c:38-46`) is to save the "current execution
  context". It saves the `rsp` it reads in its own frame, below its return address,
  and `rbp`. `panic_do_restore` (`core/panic.c:141-151`) loads both and jumps behind
  the call without the return it stands for, so the loop goes on lower than before,
  under dead words: one at least, four with GCC 12 at `-O2`. An odd number leaves
  calls of the loop misaligned by eight bytes. `LoopStackSettles` states what holds:
  it happens once, not once for each restore.
* The registers are not modelled. After a restore `rbx` and `r12` to `r15` are what
  the fault and the console left in them, and `rax` is not the 1 that
  `include/aura/panic.h:20-23` promises; kernel_main ignores the value
  (`main.c:192`). In the source the loop assigns each
  of its variables after the point, and the model takes it to run as written. A build
  that keeps a constant of the loop in one of those registers, or addresses a local
  of kernel_main from `rsp`, would not.
* After a restore the prompt still holds the line that faulted (`core/menu.c:211`
  clears it only when the command returns). It is shown, so `RunsWhatIsShown`
  holds. `src/docs/wiki/04-internals/PAGE-FAULT.md:104` promises only to "restore
  cleanly back to the boot menu shell".
* A byte that the 8042 holds when `pic_remap` initialises the controllers is
  never read: its request is forgotten, and `keyboard_init` does not empty the
  data port. The keyboard is silent from then on. `BytesAreRead` exempts it with
  the history variable `lost_edge`.
* The row above the footer belongs to no view (`NoLeftovers` leaves it out): the
  boot's text stays there until a panic or a restore blanks it. Row 3 of the
  menu (memory) is not refreshed by `menu_update`. Row 2 is left out because of
  `status_bar`.
* A tick during `menu_update` counts as idle, and one between `sysmon_set_idle`
  and hlt makes the next sleeping tick count as busy (`main.c:217-224`);
  `SleepCountsAsIdle` excludes the latter with `lag > 0`.
* `format_uptime` has two digits of hours. `tui_printf_at` has no widths, so
  `core/dashboard.c:141` and `core/panic.c:205` show their formats as they are.
  "RAM Free" at `core/menu.c:252` is the RAM in use. `drivers/vga.c:7` promises
  tabs, and `vga_putc` draws them as any character.
* `zone_refill` pushes chunks in ascending order, so the first one popped is the
  highest, while its comment says lowest. The drawing at `core/sched.c:98-100`
  has entry and trampoline the other way round from the code and from the comment
  at `core/sched.c:121`.

## 8. Not modelled

GDT and boot assembly (constants written once, hardware state nothing else
reads); host tests and build tools. Of modelled components: the fallback to 64 MB
where the magic number of the boot loader is wrong; the self-tests of the boot;
the copying of numbers in `sysmon_get_stats`; the transmitter of the serial port
and `serial_printf`; the decoding of a page fault into a message; the encoding
of IDT gates, and of page-table flags beyond "which frame, which permissions";
the slave interrupt controller (masked); the programming of the 8254; colours
and fixed wording of the screen; contents of heap payloads and of overwritten
headers; calls outside the contract (a second kfree, zfree or zram_free of the
same object where others have taken it since); the size of the stack and the frames
on it but for contexts and the two calls of `Recovery`; a non-maskable interrupt
between the stores of `panic_set_recovery_point`, whose order the compiler
chooses. In `Shell` a fault of
the kernel comes in the boot or between two calls of the loop, never in the
middle of a drawing, which the panic console would paint over anyway. Physical
memory is taken to be identity-mapped, as the kernel does below 1 GB.

Two hazards have no property. An entry of the boot tables that maps 2 MB is taken
for a table by `vmm_map_page` (`arch/x86_64/vmm.c:84`); `Vmm` starts from empty
tables, and nothing in the kernel calls `vmm_map_page` yet.
Frames above 1 GB are handed out and not mapped (`core/heap.c:79`).

## 9. Plan

Done: all components that keep state; proofs of every safety property of the boot
information, frame allocator, heap, slab, zram codec and pool, scheduler, context switch, keyboard, main loop,
recovery, virtual memory and the screen.

Models that could still grow: a root with 2 MB pages in `Vmm` and the 1 GB limit
of the identity map as a constant of `Heap` and `Vmm`; `Recovery` with `Sched`,
where a restore leaves `cur_task` behind, once tasks run beside the shell.
