# TarkOS in TLA+

TLA+ models of [TarkOS](../src/README.md), a 32-bit hobby operating system in C,
with the TLC configurations that check them and the theorems that TLAPS proves.

TarkOS is two bodies of code in one tree.

* **The system that boots.** `src/Makefile` links `boot/boot.asm` and
  `kernel/kernel.c` and nothing else: a single program that runs with interrupts
  off, polls the keyboard port, writes to VGA memory, and holds a shell, a RAM
  disk, an editor and some toys. It has no concurrency at all; what is hard in it
  are long sequences of commands over state that is reused and never cleared.
* **The library.** `kernel/drivers`, `kernel/mm`, `kernel/gui`, `kernel/arch` and
  `lib` hold interrupt-driven drivers, a page allocator, paging, and a window
  manager. The Makefile does not link them and nothing calls them. They are
  modelled as libraries: their environment calls the functions of their headers in
  any order and with the arguments the header admits, and interrupts arrive where
  the code lets them. `pmm_init`, `paging_init`, `mouse_init` and `wm_init` come
  before the other functions of their files, once; `fb_init` comes whenever and as
  often as it likes.

## Inventory

| Component | State it keeps | Operations | What makes it correct | Model |
|---|---|---|---|---|
| RAM disk, `kernel.c:400-660` | `fs_table[32]`: name, data, size, `used` | find, write, append, delete, mkdir, rmdir, in-place rename (`mv`) | the slots behave as a bounded map from names to contents; a name is used once; freed slots stay dead | `RamDisk`, `FileStore` |
| File commands of the shell, `kernel.c:863-1003, 1430-1620` | `current_path`, the stack | `cd pwd ls mkdir rmdir cat wc stat cp mv touch write append rm` | a message tells the truth about the disk; names fit their slot; `cd` and `ls` agree | `FileShell` |
| Prompt, `kernel.c:830-862, 1235-1310` | `line`, `history`, their indices | keys, erase, recall, Enter, `split_args`, `after_n_tokens` | an entered line is what was typed or recalled; the history is the last lines; the two scanners agree on words | `ShellLine`, `LineInput` |
| Text screen, `kernel.c:120-330` | VGA memory, cursor, `last_time_str` | `put_char`, `print`, `scroll`, `clear_screen`, bars, clock | output never touches the bars; the user sees the line that Enter runs | `Console`, `ShellScreen` |
| TrEdit, `kernel.c:1010-1130` | static `edit_buffer`, `ptr` | open, type, erase, save, leave | sessions do not leak into each other; a save stores what was typed | `TrEdit` |
| Themes, `calc`, `matrix`, `pong` | own loop | draw, read a key | ball and bats inside the field | not modelled |
| Page allocator, `mm/pmm.c` | bitmap, `total_pages`, `used_pages` | init from the memory map, alloc, free, mark | a page is handed out once; the count follows the bits; only usable memory is given | `Pmm`, `PmmClients` |
| Paging, `mm/paging.c` | directory, static tables, allocated tables | init, map, unmap, translate, identity map | the software walk agrees with the MMU; a call changes the page it names and no other; tables are not shared or lost | `Paging`, `AddressSpace` |
| Keyboard driver, `drivers/keyboard.c` | modifiers, ring buffer | IRQ1; get event, getchar | the ring is a bounded queue under interrupts at any point | `Keyboard`, `KeyQueue` |
| Interrupt dispatch, `arch/i386/{idt,isr,pic}.c` | gates, handler table, masks | init, register, dispatch, mask, end of interrupt | every interrupt is ended where it stands in service; no device stops the machine | `Interrupts` |
| Timer, `drivers/timer.c` | `timer_ticks`, `timer_frequency` | IRQ0; init, sleep | a sleep lasts what was asked for and ends | `Timer` |
| Mouse driver, `drivers/mouse.c` | `mouse_cycle`, `mouse_packet`, `mouse_state`, bounds, `state_changed` | IRQ12; init, read, set position, set bounds | packets stay aligned; the cursor stays on the screen; no change is missed; the shared output buffer is emptied | `Mouse` |
| Framebuffer, `gui/framebuffer.c` | mode, buffers, `draw_target` | init, switch, swap, pixel, clear, copy | drawing goes to the buffer in use, and swapping shows it | `Framebuffer` |
| Graphics and font, `gui/{graphics,font}.c` | saved cursor background | rectangles, lines, circles, gradients, text, bitmap, cursor | a shape is drawn where it is visible and nowhere else; a cursor is undone | `Graphics` |
| Window manager, `gui/window_manager.c` | window table, focus, `top_z_order`, button | create, destroy, focus, move, show, mouse, compose | what is clicked is what is drawn on top; the focus is on a window | `WindowManager` |
| GDT, `printf` | a table of constants; none | | | not modelled |

How they interact. In the linked kernel everything is a call: `shell_loop` reads a
line, splits it, turns arguments into paths with `build_path` and calls the `fs_`
functions; TrEdit is called by the shell with a path and calls `fs_write_file`.
State is shared through globals (`fs_table`, `current_path`, `edit_buffer`) and, by
accident, through the stack: eight commands ignore a failing `build_path` and go
on with an array that it did not write. In the library, `paging.c` calls the
page allocator for its tables and reaches them through the identity map; the
keyboard handler and the main program share a ring buffer; the timer and mouse
handlers share their counters and positions with it, without a lock and without
turning interrupts off; keyboard and mouse share the output buffer of one
controller; `graphics.c` and `font.c` draw through `framebuffer.c`.

What is hard to test: see `hazards` in `PROJECT.json`, each at its line with the
properties that watch it. In short: stale slots and stale buffers (RAM disk,
TrEdit, recalled lines), arguments refused half-way (shell), counts kept by
increments in six functions (allocator), page tables reached through addresses
that callers may map (paging), an interrupt between any two steps of a
reader or a writer (keyboard, mouse, timer), bytes that are lost or taken for
others (mouse), an end of interrupt that only one of two controllers gets, two
pieces of code that must order windows alike (window manager), shapes that are
partly outside the screen and two notions of the buffer in use (graphics), and sizes
that are not multiples of a word (allocator).

## Modules

`RamPaths` <- `RamDisk` <- `FileShell`, `TrEdit`;
`RamPaths` <- `FileStore`, which `RamDisk` instantiates;
`LineInput` is instantiated by `ShellLine`; `ShellLine` and `Console` <- `ShellScreen`;
`Pmm` <- `PmmClients` <- `Paging`, which instantiates `AddressSpace`;
`Interrupts` <- `Timer`; `Framebuffer` <- `Graphics`;
`Keyboard` instantiates `KeyQueue`; `Mouse` and `WindowManager` stand alone. An
`MC*` module gives a module's constants their small values. The theorems are in
`DiskProofs` (RAM disk, file commands, TrEdit), `MemoryProofs` (allocator, its
clients, paging), `ShellScreenProofs` (prompt and text screen), `GraphicsProofs` (frame
buffer and drawing), and in `WindowManagerProofs`, `KeyboardProofs`, `TimerProofs` and
`MouseProofs`, each about the module it is named for.

**RamPaths** reads a C string as the sequence of strings between its slashes.
The code compares paths with `starts_with(name, p) && name[strlen(p)] == '/'`
everywhere, which under this reading is "strict prefix". `PathLen` is `strlen`.

**RamDisk** has `fs_table` and `ret`, the value last returned. Each `fs_`
function is an operator of the arguments and the result, used both by the
module's own `Next` (any call) and by the modules that extend it. Slots that are
not used keep their bytes. `rename` is the `strcpy` of `mv`, which does not go
through `fs_write_file`.

**FileStore** is the abstraction: a partial map, no slots. `ImplementsStore` says
that every call on the table is the same call on the map, with the same result
up to the number of a slot.

**FileShell** has one action per command: paths, the calls, and the message
printed (`reply`), which is what the properties are about. An argument is a path
and whether it started with `/`. When `build_path` fails, a command that ignores
it works on any string of `Leftovers`: the array is uninitialised, and what
earlier calls leave there is the compiler's choice. That choice matters: a
leftover that names a file is written to, and a leftover longer than a name runs
over the slot when `mv` copies it. The model ends there (`Overrun`), since what the
slot then holds is not described by a name and a text.

**TrEdit** has the static buffer as an array with its terminator and everything
behind it, `ptr`, and the file being edited. Keys stand for the characters they
yield. A newline is stored whatever `ptr` is and `ptr` can pass the end of the
buffer, so the model keeps counting up to `PTR_BOUND`; what lies behind the
array is not modelled. `typed` is history: the file as it was opened and the keys
struck since, which the buffer is compared with when it is saved.

**ShellLine** has `line` with its terminator and stale bytes, and the history
table with the shift that makes room; **LineInput** has a text and a list of past
lines. `split_args` and `after_n_tokens` are scans over the array, given by where
their pointer stands after each round of their loops.

**Pmm** holds the bitmap as the set of pages whose bit is 1; `Touched` and `Inside` are
the two roundings of a region, with sums that wrap at `ADDRESS_SPACE`, and
`bitmap_find_free_contiguous` is the loop over `start` and `found`. Without a memory
map `total_pages` is whatever `mem_upper` makes it: pages beyond the bitmap have their
bits in the memory behind the array, which changes as its owners please
(`OtherData`), and a call that writes there sets `overrun`, where the model ends.
`linker.ld` does not define the symbols of the kernel's start and end that `pmm.c`
takes, so the two are parameters. **PmmClients** adds owners who free what they got,
for the promise that no page has two owners. **Paging** is one such client beside
others; its state is the contents of every page frame read as a table, and the walk
of the MMU is written separately from the walk of the code, which goes through the
table's address. Callers map and unmap any page, inside the identity map and outside
it, the pages of the page tables included; `moved` keeps which pages they touched, and
`Intact` says that no page table lies in one of them. An access through an address
that is not mapped sets `fault`, where the model ends. **AddressSpace** is a map from
virtual pages to frames and what each call does to it; `ImplementsAddressSpace` ties
each call to the abstract call with the same arguments.

**Keyboard** splits `buffer_pop` at every access to shared state. The handler is
behind an interrupt gate and is one step. `buffer_head` and `buffer_tail` are
`volatile` and `key_buffer` is not, so the compiler may move the copy past the
store of the index: both orders are modelled, and in both an event is never
overwritten before it is read, because a full ring leaves one slot free. `offers`, in
`Keyboard` and in `KeyQueue`, is the parity of the events made so far: a dropped event
is then a step of the queue too, and the queue drops one only when it is full.

**Interrupts** has the table of gates, the table of handlers, and the two
controllers as `pic.c` programs them: request, mask and in-service registers,
priorities, the cascade, and the spurious interrupts that a controller makes of a
request withdrawn too late. What the hardware does is external: it is modelled
from what the code relies on. `isr_handler` runs with interrupts off, so it is one
step from the dispatch to the return. The library has no caller, so the main
program is the plausible one: `idt_init`, `pic_init`, drivers, then interrupts on.

**Timer** adds `timer_handler` and the loop of `timer_sleep_ticks`, in which the
comparison (`Look`) and the HLT are two steps. `slept` and `length` are the
model's own: they count the ticks since the call, up to `WIDTH`, which is as many
as the properties tell apart. Another driver registers late or never.

**Mouse** has both sides of the 8042: the mouse's replies and packets on the wire,
the one-byte output buffer that the keyboard shares, the command byte. Every
store of the main program in `mouse_set_position`, `mouse_set_bounds` and in the
copy of the state is a step of its own; the handler is one step. Any byte of a packet
may be lost; `mouse_read` takes the byte that has come, whoever sent it, or gives up
waiting and takes what the port holds (`Leftovers`), so that every answer may come when
`mouse_init` has gone on. Two histories say what that does: `slip` counts, modulo 3,
the answers that `mouse_init` went on without less the bytes lost, and `misread`
says that it took another byte for the command byte.

**Framebuffer** has the two buffers as functions of the byte's offset, counted in
pixels, with the pitch's padding; the back buffer has the size of its static array
(`BACK_SIZE`) whatever the mode. `overrun` says that a call has gone past the end of a
buffer, where the model ends. **Graphics** has one operator for each drawing
call, with the clipping as the code does it, and beside it (`Right`) what the call's
name promises of each pixel, said in plain geometry. `fb_init`, switching and swapping
come in any order; `parted` says that `fb_init` found double buffering on, after which
`draw_target` is the screen while the functions that write rows draw in the back buffer.
A colour is one channel.

**Console** is the screen as a function from cells to characters, and each
function of `kernel.c` as an operator from screen to screen. **ShellScreen** is
the loop: the clock, then a key, which changes the line and the screen together.

**WindowManager** has the window records without titles and pixels. Drawing is
modelled by its order, with the bubble sort as written. Slots of destroyed
windows keep their fields. The shadow that `draw_window` paints to the right of a window
and below it (`window_manager.c:328`) is left out: it lies outside the box that a click
is tested against, so a click on a shadow hits what lies under it.

## Runs

| Run | Bounds | What it shows |
|---|---|---|
| `RamDisk` | 3 slots, 2 taken at boot; 4 names, one of them below another, one too long for mkdir, one empty; an empty text and one longer than a file | `NamesUnique`, and the table implements `FileStore` |
| `FileShell` | 2 slots; names to 6 bytes; 4 arguments, one of them ending in a slash; 3 leftovers: nothing, a name, a string longer than a name | `NamesFit`: only `mv`, and only with a destination that `build_path` refused, gives a slot a name it has no room for; `CdStaysInside`; `SuccessIsTrue` and `ErrorChangesNothing` about the messages; `ListingMatchesDisk` |
| `TrEdit` | buffer of 3, 2 slots, 4 paths | `OpenShowsFile`, and `SaveStoresTyped`: a save stores what was typed since the file was opened, as far as a file holds it |
| `ShellScreen` | `line` of 4 bytes, 2 past lines, 2 words; a screen of 4 rows of 5; prompts of 1 and 3 characters; output that wraps and scrolls | the arrays implement `LineInput`, `TokensAreWords`, `BarsKept`, and `EchoMatchesLine`: the row of the cursor shows the line that Enter runs |
| `Pmm` | 8 pages, words of 2 bits, 3 memory maps (odd end, hole, beyond the bitmap) and none, with 6, 10 or 2 pages then (the last a size that wraps); addresses inside, outside and unaligned; `USED_BOUND` 6 | `WritesStayInBitmap`, `FreeMemoryReported`, `UsedPagesCounted`, and `AllocationIsFirstFit`: the search loops find the first place there is |
| `Paging` | 10 pages, tables of 4 entries, 16 virtual pages, an identity map of 8; memory with a hole that ends there, and memory that lies beyond it but for one page; callers map and unmap a page the allocator gives out on either side and one outside memory | `TablesConserved`, `SoftwareAgreesWithWalk`, `OnlyUsableMemory`, `HandedOutOnce`, `MapIsSeen`, and the calls implement `AddressSpace` |
| `Keyboard` | ring of 3, one letter, shift and caps lock | the ring implements `KeyQueue`, which drops an event only when it is full; `CallsReturn` |
| `WindowManager` | 3 windows, 3 points, `Z_BOUND` 7 | `ZOrderUnique`, `ClickHitsTopDrawn`, `FocusedExists` |
| `Timer` | a count of 3 bits, lines 0 and 12 with spurious 7 and 15, sleeps of 1 to 3 ticks and one whose product overflows | `NothingLeftInService`, `OnlyFaultsStop`, `SleepLasts`, `SleepEnds` |
| `Mouse` | screens of 2 by 1 and 1 by 2, a position off the screen on both sides, 2 packets, one key, which is also what the port may hold; lost bytes, late answers | `CursorOnScreen`, `InStep`, `ChangeNotMissed`, `InputFlows` |
| `Graphics` | a back buffer of 12 pixels; screens of 4 by 3, of 2 by 2 with padding, one of 2 by 7 that is larger than the back buffer, and one that is not RGB; origins from (-1,-1) and one at (-6,-5), lengths 0 to 3, radii to 2 and 9; `MaxSteps` 5 | `DrawsItsShape`, `CursorUndone` |
| `FileShellWritten` | as `FileShell` | "Written." for a file that was not written |

Every run but `FileShellWritten` passes; that one breaks a sentence of the code's
help text, quoted under `findings`. The type invariants `EditTypeOK`, `LineTypeOK`,
`PmmTypeOK`, `KeyTypeOK`, `MouseTypeOK` and `TimerTypeOK` are in no run: what they say shows nothing
that the other properties of these modules do not, and all of them are proved
(`LineTypeOK` as a part of `ScreenInv`).

Why the bounds are enough. The code treats slots, pages, windows and events
alike and compares at most two of each, so a second object and a full table are
what matter: each run has a full and an empty table, an index that wraps or
saturates, and two objects that can be confused. Sizes are odd where the code
divides (words of 2 bits, pages of 2 bytes, memory that ends inside either). The
named bounds that the code lacks are `USED_BOUND` (`pmm_mark_region_free` can make
`used_pages` drift for ever), `PTR_BOUND` (newlines in TrEdit) and `Z_BOUND`
(`top_z_order` only grows; in the code it wraps after 2^32 focus changes). `MaxSteps`
bounds the initialising, switching, swapping and cursor calls of a graphics history to 5, and
a drawing call ends it: every call starts from every arrangement of buffers and
from a saved cursor or none, but on the first picture, since what a call draws
does not depend on what is there (blending and copying read it; the picture has
no two pixels alike). `WIDTH` 8 is the 2^32 of the tick count, so that sleeps wrap; the mouse's
packets have one that presses and one that moves, whose later bytes fail the test of a
first byte; any byte may come to stand first.
`Leftovers` are strings that `build_path` or `cd` could have put there: the arrays
have 64 bytes, names 32, and `cd` joins in `new_path[64]` without a test. In `Next` of
`RamDisk`, `Rename` is called with names that fit; the other case is `FileShell`'s.

Fairness. `Keyboard` states `WF(Main)`, that the main program goes on when it can.
The handler has no loop and returns; the assembly stub that calls it is not in
the tree and is taken to return from the interrupt, so the processor is given
back. The gates are interrupt gates (`idt.c:124` for the keyboard), so the handler
is not interrupted; nothing is assumed of the interrupts, which may come at every
step or never. `keyboard_get_event` then returns; `keyboard_getchar` returns unless
keys that yield no character keep arriving.

`Timer` states that the interval timer never stops (`WF(Tick)`), that the processor
takes what the controllers deliver (`WF(Interrupt)`) and that a handler, which has
no loop, ends (`WF(Isr)`). The main program gets an instruction in only when no
interrupt is pending, so its fairness is strong (`SF(Look)`, `SF(Hlt)`), and
`SleepEnds` excepts the behaviours in which other devices leave it none for ever. The
guard of `Tick` is the assumption that two ticks are further apart than a look. `Mouse`
states that pending interrupts are taken, that the mouse answers, and that boot
comes to its end; packets, keys, losses and the program's calls may never come.

## Proofs

An invariant that a run checks is seldom inductive. Below, each group names the
inductive invariant, what the addition is for, and the lemmas that carry it. Each
function of the code has a lemma for each thing it must preserve, and the step of
the theorem is the case split over the actions.

`DiskProofs`, for every number and size of slots, alphabet, boot files, and sets of
names and texts; for every set of arguments, texts and leftovers; for every size of
the edit buffer:

* The table. `TypeCorrect` and `NamesStayUnique`, by `IInv == TypeOK /\ NamesUnique`.
  The part of `TypeOK` that is not typing is that no stored text reaches
  `MAX_FILE_SIZE`; it rests on `ClipFits`, and for appends on the free space being
  computed from the length that the invariant bounds. `NamesUnique` goes by what a call
  does to the pairs (name, used): a write keeps them or gives a name that no used slot
  has to a free slot (`PickWriteSlot`); a rename gives such a name to a used slot;
  deletion and `fs_rmdir` only clear `used`. A scan returns the least slot of a set
  (`LeastInSet`, from the well-foundedness of `<`; `FindFile`).
* `RamDiskImplementsStore`: `Spec => ImplementsStore`, the refinement. Under `NamesUnique`
  the abstract files are the names in use, and the one slot that uses a name holds its
  text (`FilesAreSlots`); two tables whose used slots agree stand for the same files
  (`FilesEqual`), whatever lies in the free ones. There is room in the map exactly when
  there is a free slot (`NamesCount`, `RoomIsFreeSlot`). One lemma for each call shows
  its abstract counterpart, result included (`PutFiles`, `ExtendFiles`, `EraseFiles`,
  `RemoveDirFiles`, `MakeDirFiles`, `MoveFiles`, `LookupFiles`).
* The file commands. `ShellTypeCorrect` and `LongNamesFromMvOnly`, by `ShellInv ==
  ShellTypeOK /\ NamesUnique`: a step adds a name through `fs_write_file`, which tests
  it, or through `mv`, whose destination is what `build_path` accepted unless it refused.
  `CdNeverLeaves`: the case that is not a test in the code is `cd ..`; a name under a
  directory is under its parent.
* `ErrorsChangeNothing`, one lemma for each function's failing result, and
  `SuccessesAreTrue`, one for each succeeding one. The latter needs that `strlen` of
  what `build_path` accepts is positive (`PathLenFacts`), that the slot written is the
  one a later search finds (`WriteStores`), and that after a deletion, the name being
  unique, none finds it (`DeleteRemoves`).
* `ListingsMatchDisk`: what `ls` shows is the first component of a name below the
  directory, so `cd` finds that name as a witness, and the other way round.
* The editor. `EditTypeCorrect`, `OpeningsShowFiles` and `SavesStoreTyped`, by `EditInv`,
  which adds `NamesUnique`, that the bytes before `ptr` are characters, not
  terminators, and that they are what was typed (`BufferIsTyped`), as far as the buffer
  goes. What is behind them may be any remains of an earlier text. The length of
  the buffer is then `ptr` (`StrlenIs`), opening a file puts its text and a
  terminator in front of the rest (`CopiedText`), and what a save clips is a first part
  of what was typed (`TextIsTyped`, `ClippedTextIsTyped`).

`MemoryProofs`, for every memory map, page, word and table size, and size of the bitmap:

* The allocator, by `PmmInv`. With a map `total_pages` stays within the bitmap, so
  the bits written do (`WritesAreInBitmap`). `FreeMemoryIsReported` rests on
  `used_pages` being the number of bits set as long as `pmm_mark_region_free` has freed
  none, and above it afterwards (`CountOK`): each way the bits change changes the count by
  as much, which for `pmm_init` needs that the pages it frees lie below the total that it
  computes. `CountFollowsBits` and `AllocationsAreFirstFit` are about steps; for the
  latter, after `i` rounds of the loop `found` is the length of the run of free pages that
  ends at page `i`, and no longer run lies before it.
* Its clients. `OnlyUsableMemoryHeld` and `PagesHandedOutOnce`, by `ClientInv`: what is
  held or kept for the kernel has its bit set, the two are disjoint, and what is not kept
  lies in available memory, is not page 0 and holds no static table. The step that
  is hard is `pmm_init`: a region rounded inwards lies in available memory
  (`InsideIsUsable`), the kernel rounded outwards covers the kernel (`KernelIsTouched`),
  with additions that wrap.
* Ownership in paging. `TablesAlwaysConserved`, by `OwnersInv` and `DirectoryInv`: each table
  in the directory is the only one at its page, whatever callers map, until an access
  faults.
* Translation, for memory of any size. `SoftwareFollowsProcessor`, `MappingsAreSeen` and
  `PagingImplementsAddressSpace`, by `WalksInv`, whose part `Orderly` says that as long as no
  page of a table has been moved (`Intact`) each table's page is mapped to itself: a new
  table was cleared through its own address without a fault, and only a caller could have
  mapped that address elsewhere, which `moved` remembers. One store then changes the
  walk at one page (`WalkKept`, `TablesApart`, `StoredEntry`, `NewTableEntry`).

`ShellScreenProofs`, for every size of line, history and screen, alphabet, prompt and
output of commands:

* `BarsStay` and `EchoIsTrue`, by `ScreenInv`: the line's array has characters before
  `pos` (`LineInv`), all rows between the cursor's and the footer are blank (`Clean`),
  without which a new prompt would be followed by remains, the top row is the header
  with a clock (`TopRow`), and the cursor's row is the prompt and the line
  (`EchoShown`). `print` is a loop over `put_char`, whose effect follows from that of one
  character by counting (`PrintSteps`, `ShowText`, `ShowErased`).
* `PromptImplementsLineInput`, the refinement: the text is the first `pos` bytes of the
  array and the past lines are the first `history_count` rows of the table
  (`Taken`); one lemma shows each key's abstract action (`TypeImplements` to `EnterImplements`).
* `ArgumentsAreWords`: after `k` rounds of either scanner `k` words lie behind the pointer
  and it stands between words (`Rounds`), so the next round takes word `k + 1` (`NextToken`).

`KeyboardProofs`, for every size of ring and set of keys: `KeyTypeCorrect`, that the indices
stay inside the ring and every slot holds an event or nothing yet, and
`RingImplementsQueue` by `KeyInv`, which adds what `buffer_pop` knows between its steps:
the ring is not empty, and the event copied is still the one at the tail (`PopInv`). A
push appends to the sequence that the ring stands for (`PushAppends`), one that finds
`buffer_tail` behind `buffer_head` finds it full (`EndsOfRing`), and the store of the
tail takes its first event (`AdvanceTakes`), whichever side of the copy it is on.

`WindowManagerProofs`, for every number of windows and every input:

* `WmTypeCorrect`, `ZOrderStaysUnique`, `FocusStaysOnWindow`. The invariant adds
  `NoneAboveTop`, that no window in use lies above `top_z_order`: a raised or new
  window is then above all others, and the search for the next focus, which
  starts from the lowest possible order, finds a window when there is one. Each
  call either keeps the orders (`SameOrder`) or puts one window on top (`OnTop`).
* `ClicksHitTopDrawn`. A sweep of the bubble sort leaves the highest of the windows it
  passes at the end and loses none (`SweepOrders`); after `j` sweeps the last `j` are
  in place (`SortOrders`). The last one drawn at a point is then the highest there,
  which is the one the click's search finds, orders being unique (`HighestIsTop`).

`TimerProofs`, for every set of lines and drivers, width of the count and frequency:

* `EveryInterruptEnds` and `DevicesNeverStop`, with `TimerTypeCorrect`. The invariant
  (`DispatchInv`) says that interrupts are on only when the gates are set and the
  controllers remapped (`BootInv`), and that what stands in service is the line
  whose vector is being handled, with the cascade if it is the slave's
  (`ServiceInv`): the end of interrupt that `isr_handler` computes from the vector
  is then the right one. For a spurious interrupt nothing, or the cascade, stands in
  service, and the same computation clears it.
* `SleepsLastAsAsked`: `Spec => SleepLasts`. The invariant (`SleepInv`) gives the count
  as a function of the start of the sleep and the ticks since (`After`), which
  needs `%` only through the lemma `Remainder`, and says how many ticks may still
  come before the program looks again (`TicksLeft`): one after a comparison that
  was true, none when the program is in HLT with the tick already pending. That no
  tick is pending while the main program runs with the line open (`NoTickPending`)
  is what keeps two from being missed.

`MouseProofs`, for every size of screen, position, packet and key:

* `CursorStaysOnScreen`. Each coordinate stands on the screen except after the stores of
  the main program that the invariant (`CursorInv`) names, and there it lies where the
  remaining tests still catch it; an interrupt between two of them clamps both.
* `ChangesReachReader`. What has been copied is current, field by field (`ReaderInv`),
  or the flag is set: an interrupt sets it with every change.
* `DriverStaysInStep`. The bytes of the mouse that are on the wire, in the output buffer
  or collected, with `slip`, add up to whole packets (`Aligned`). Before the handler is
  registered they are the answers that `mouse_init` still has to read (`Owing`,
  `Outstanding`), which come in the order of its commands, the controller's first
  (`Orderly`, `InitStage`); an interrupt always finds a byte of the mouse (`PacketInv`).
* `MouseTypeCorrect`: `cycle` stays below 3 and a status byte stays a byte.

`GraphicsProofs`, for every size and pitch of the screen, every size of the back buffer,
every argument inside and outside the screen, lengths of zero among them, every picture,
cursor, gradient and text:

* `CursorsAreUndone`. The invariant (`CursorInv`) says what lies in which buffer and which of
  them `draw_target` can be (`BuffersOK`), and that since the background was saved the
  buffer has changed only where the cursor can cover it (`UndoOK`): what was saved is
  then what is missing.
* `CallsDrawTheirShape`: `Spec => DrawsItsShape`. `BuffersOK` says when the functions that
  write rows and those that write pixels draw on one buffer: always, unless `fb_init`
  found double buffering on (`parted`). No function writes beside the screen, one lemma
  each (`...Inside`), so a call passes the end of a buffer only when the screen is larger
  than the back buffer (`OverrunsBack`). `ModeOK`, that a row is no
  longer than the pitch, gives a pixel an offset of its own (`SameCell`); `ContentsOK`
  gives what blending and copying read a value. The cells of each loop are then its
  shape: rectangles and rows directly (`HlineCells`, `VlineCells`, `RectCells`); a copy
  reads nothing that it has written (`CopyUpwards`, `RectCopied`); a gradient's division
  comes out right where nothing wraps and where the height divides 65536 (`ShadeBetween`); the
  pen of a text stands where the characters before it say (`PenStands`) and within the
  width that `font_get_string_width` returns (`WidthHolds`). The error of the circle's
  loop is the point's distance from the circle plus what the loop has run ahead
  (`OctantOK`), which bounds how far a point is off and how large a hole in the disc
  could be (`OctantPoint`, `OctantCovers`). The error of the line's loop is its
  distance from the line (`LineOK`), never more than half a step on the longer side,
  which every turn takes: so the loop ends at the second point (`LineArrives`) and
  has been through every pixel nearer than that (`NearLine`).

What the theorems assume is the assumption of each module that theirs extends
(`PathAssumption`, `RamDiskAssumption`, `FileShellAssumption`, `TrEditAssumption`,
`PmmAssumption`, `ClientAssumption`, `PagingAssumption`, `LineAssumption`,
`ConsoleAssumption`, `ScreenAssumption`, `KeyboardAssumption`, `WindowAssumption`,
`InterruptsAssumption`, `TimerAssumption`, `MouseAssumption`, `FramebufferAssumption`,
`GraphicsAssumption`) and what the models leave out: memory around
arrays, and counters that wrap.

Only model-checked: liveness (`CallsReturn`, `SleepEnds`, `InputFlows`), which is beyond
the prover, as ENABLED is. Induction theorems that take a predicate as a parameter are beyond it too. Loops
are proved about all the same: they are written as recursive functions on an interval,
and that such a function exists (`LoopExists`), and what it has computed after each
round, follows from the set of the rounds without it having no least member (`UpToN`).

## Plan

1. Done: RAM disk, shell, prompt on its screen, editor; allocator and paging;
   keyboard ring; interrupt dispatch, timer, mouse driver; framebuffer and drawing;
   window manager; the theorems above, which state every safety property that the
   runs check.
2. To prove next: the safety half of `CallsReturn` and `SleepEnds` (a call that has not
   returned can take a step), and what paging keeps when a caller has moved a table's page.
3. To model, where it is worth it: pong's ball and bats; the mouse driver
   composed with the window manager's main loop; the scancode tables.

## Not modelled

* `calc`, `matrix`, `pong`, themes: loops that share the screen and the keyboard port
  with the shell, keep nothing that it reads (but for the theme's colours), and
  leave with `clear_screen`.
* The boot animation and `kmain`, the GDT: fixed sequences of writes.
* Scancode tables, the shift flags of the polling loops, colours, borders of the
  text screen's windows, titles, the hardware cursor: data that no property tells apart.
* `printf` and the conversions of `string.c` that only the C library itself calls.
* Memory around arrays: where the code writes past one, the model ends (`Overrun`) or
  keeps the index (`ptr`), and says so.

## Divergences without a run

Where the code and its texts differ in a way that reading shows as well as a
run does:

* `README.md:48` has 16 files of 1 KB, `kernel.c` has 32 of 2 KB. `README.md:52`
  has Ctrl-S and Ctrl-Q in TrEdit, the code F2 and F10 or Esc. `README.md:113`
  speaks of Tab, which the prompt does not treat.
* `rmdir`, `mv` and `rm` (`kernel.c:1487`, `1538`) can take away the directory the
  prompt stands in; the prompt and `pwd` go on naming it.
* `mv` to a destination that `build_path` refuses (`kernel.c:1531`, too long or `/`)
  renames to whatever the array holds, possibly past the end of the name
  (`kernel.c:1538`). `NamesFit` allows that way and no other.
* "Appended." is printed when only a part, or nothing, fitted (`kernel.c:1573`).
* A file and a directory of one name share one line of `ls` (`kernel.c:963`);
  `ListingMatchesDisk` allows for it.
* `mkdir a/` says "Directory created." and makes `a` (`kernel.c:696-705`), which `cd a/`
  does not find (`kernel.c:673-691`): `fs_mkdir` drops slashes at the end of its argument
  and `fs_dir_exists` does not. `SuccessIsTrue` promises `a`.
* TrEdit announces `[ FILE SAVED SUCCESSFULLY ]` whatever `fs_write_file` returned
  (`kernel.c:1092-1094`).
* `pmm_mark_region_free` leaves `used_pages` alone (`pmm.c:251`) where
  `pmm_mark_region_used` counts: `pmm_get_free_memory` then returns too little, until
  `used_pages` is above `total_pages` and the unsigned difference (`pmm.c:268`) wraps to
  a huge value. `FreeMemoryReported` allows these and nothing else.
* Without a memory map `total_pages` comes from `mem_upper` (`pmm.c:93`), is not limited
  to `MAX_MEMORY`, and wraps at 4 GB: with more than 1 GB the functions test, set and
  clear bits behind `pmm_bitmap`. `WritesStayInBitmap` promises nothing there.
* A caller can free page 0 (`pmm.c:196`), which `pmm_alloc_page` then returns: address 0
  reads as "Out of memory".
* One flag stands for both shift keys (`keyboard.c:91`): releasing one while the
  other is down clears it.
* `is_dragging` is cleared only on the focused window (`window_manager.c:289`): a
  program that takes the focus in the middle of a drag leaves the flag set, and
  the old window jumps to the mouse when it is focused again.
* `pmm_alloc_page` never looks at the last, partial word of the bitmap (`pmm.c:46`):
  "Out of memory" (`pmm.c:159`) may be said with pages free there.
* `paging.c` reaches a page table through its physical address (`paging.c:93`, `:143`,
  `:158`, `:173`): a new table that the allocator took from beyond the 16 MB identity map
  is not mapped there, and the kernel faults, unless a caller has mapped that page
  to itself; a table whose own page a caller maps elsewhere is written elsewhere. The
  properties end at the fault, and hold while `Intact`. `paging_identity_map` of a range that ends at 4 GB maps nothing (`:187`).
* Regions of the memory map are freed and not marked again (`pmm.c:103`): an entry
  that is reserved and overlaps an available one is given out.
* Caps lock changes digits as shift does (`keyboard.c:119`); the comment on
  `keyboard.c:127` speaks of letters. In the shell, `tredit` and `pong` each loop has a
  shift flag of its own (`kernel.c:1237`), and scan codes 0x3C and 0x44 index past the
  58-entry tables (`kernel.c:1008`).
* A tick between the comparison and the HLT of `timer_sleep_ticks` costs one more
  tick (`timer.c:80`). An end that wraps ends the sleep at once; an end that is the
  last value before the wrap can be missed for a whole turn (`timer.c:79`);
  `ms * frequency` overflows (`timer.c:90`). `SleepLasts` and `SleepEnds` allow these
  and nothing else. A frequency below 19 needs a divisor of more than 16 bits.
* `pic.c:49` says "Enable only keyboard (IRQ1) and cascade (IRQ2)"; 0xF8 and 0xEF
  also open IRQ0 and IRQ12. A spurious IRQ7 or 15 is ended like a real one, which is
  harmless as long as handlers do not nest.
* The mouse packet is "resynced" (`mouse.c:85`) only by bit 3 of its first byte: a
  movement byte has that bit as often as not, and a packet is thrown away whole, so
  after a lost byte or a late answer the driver is out of step until further
  losses make up for it. `InStep` counts both and says that nothing else moves the boundary.
* `mouse_wait_read` gives up after 100000 looks and `mouse_read` reads the port all the same
  (`mouse.c:37-65`): what it holds, or a key in the output buffer, is taken for the
  command byte (`mouse.c:153`), written back, and may turn the keyboard's interrupt
  off; `InputFlows` excepts that. With interrupts on before the handler is registered
  a byte would stay unread and block the controller.
* `mouse_set_bounds` and `mouse_init` move the cursor without `state_changed`.
* Once the back buffer exists, enabling double buffering again after disabling it
  does nothing (`framebuffer.c:158-169`). `fb_init` while double buffering is on makes
  the screen the `draw_target` (`framebuffer.c:42`) and leaves the flag set: the functions
  that write pixels (`gfx_draw_line`, circles, bitmaps, text, the cursor), `fb_clear` and
  `fb_copy_rect` then draw on the screen, those that write rows (rectangles, panels,
  horizontal and vertical lines, discs, gradients) in the back buffer, and a swap copies
  the back buffer over the screen. `DrawsItsShape` then promises one buffer and not
  which one. The back buffer has 1024 by 768 pixels whatever the mode
  (`framebuffer.c:162`): on a larger screen writing and swapping run past its end.
  `fb_copy_rect` does not clip.
* A rectangle or panel with a length of zero draws its lower or right edge outside itself;
  a gradient that gets darker is wrong from its second row on unless its height divides
  65536, since the unsigned product wraps (`graphics.c:220`); restoring a cursor at (-1,-1) before any save paints
  black; a font background of 0 is transparent; the circle lies up to a pixel and
  a half inside the one its comment names.
* On the text screen '\b' does not go back over the end of a row, so a corrected
  long line leaves characters behind; after `clear_screen` the clock is blank until
  the second changes (`kernel.c:200-207`).

## Running

    tlc -workers 2 -config RamDisk.cfg MCRamDisk
    tlapm DiskProofs.tla

`PROJECT.json` names the module, configuration and properties of each run, and
maps every definition to the lines it models.
