# siren-hypervisor in TLA+

Specifications of [siren-hypervisor](../src/README.md), a Windows kernel driver
that puts the running system into a virtual machine on top of Hyper-V: modules
that TLC checks on small instances, and theorems that TLAPS proves for every
value of the constants. Paths below are relative to `src/siren-hv/`;
`vmx/...` and `x86/...` stand for `siren/vmx/...` and `siren/x86/...`.

Contents: [the system](#the-system), [the modules](#the-modules),
[the runs](#the-runs), [fairness](#fairness), [the proofs](#the-proofs),
[what the code does that it does not say](#disagreements),
[what is not modelled](#not-modelled), [the plan](#the-plan).

## The system

siren is itself a guest of Hyper-V. It describes each processor to Hyper-V in an
*enlightened VMCS*, a page of memory instead of the VMREAD/VMWRITE instructions,
and Hyper-V enters the virtual machine for it. The operating system that loaded
the driver goes on inside: `launch()` makes its own return address the guest's.

| component | state | operations | who calls it |
|---|---|---|---|
| driver (`driver.cpp`) | `g_SirenHypervisor`, `g_DeviceObject`, device and link | `DriverEntry`, `SirenHvDriverUnload` | the I/O manager, one call at a time |
| request handlers (`driver_irp_handler.cpp`) | none | create, close; every other request is refused | the I/O manager |
| hypervisor (`vmx/mshv_hypervisor.cpp`) | nested page table, MSR bitmap, array of virtual processors | `intialize`, `start`, `stop`, `setup_ept_identity_map` | the driver; `start` and `stop` run on every processor at once |
| virtual processor (`vmx/mshv_virtual_cpu.cpp`) | eVMCS, VP assist page, host stack, `m_running` | `intialize`, `start`, `launch`, `stop`, `inject_*`, destructor | the hypervisor, each on its own processor; the exit handler |
| exit handler (`vmx/mshv_vmexit_handler.cpp`, `.masm.asm`) | `guest_state` of the exit; fields and clean bits of the eVMCS | `entry_point`, `dispatch`, one handler per exit reason | the processor, at each VM exit |
| nested page table (`vmx/dynamic_ept.cpp`) | tables, node tree over them, cache of spare nodes | prepare, commit, modify, find, uncommit a page; initialize, terminate | the hypervisor; read by the processor at any time |
| memory types (`x86/memory_caching.cpp`) | the MTRRs, read once | `propose` a type for a page | the identity map |
| paging helpers (`x86/paging.cpp`) | MAXPHYADDR, read once | page arithmetic | the identity map, dynamic_ept |
| MSR bitmap (`vmx/msr_bitmap.cpp`) | four bitmaps | `set`, `get` (no caller) | read by the processor |
| processors (`siren/multiprocessor.cpp`) | none | `ipi_broadcast`, `run_at_cpu`, `yield_cpu` | the hypervisor |
| synchronization (`siren/synchronization.hpp`) | one atomic word per object | spin lock, `once_flag`, guards | `once_flag`: memory types, paging; the others have no caller |
| allocator (`siren/memory.cpp`) | the non-paged pool | allocate, construct, free | every component |
| values (`siren/expected.hpp`, `siren/utility.hpp`) | a value or an error; a masked region; an interval | | every component |

How they interact. `DriverEntry` builds one hypervisor object; its
`intialize` makes the identity map page by page (`setup_ept_identity_map` asks
`propose` for the type and `commit_page` to map), then one virtual processor per
active processor. `start` and `stop` are callbacks of an inter-processor
interrupt: all processors run them, in any order, with interrupts off. A
processor between `start` and `stop` runs the guest, and the exit handler on the
virtual processor's stack at each exit. Nothing is shared between processors but
the nested page table, which the code changes only before they are started.

What is hard here, and the properties that make each component correct:

- *Nested page table.* Two representations of one map, changed one entry at a
  time; a commit that fails half way; nodes reused while they still hold the
  entries of an old table. Correct: node tree and tables agree, what a processor
  walking the tables sees changes only where the commit says, no node is lost,
  a reserve made at low IRQL lasts for the commit at high IRQL. An entry is written
  bit field by bit field, and another processor may walk it in between.
- *Exit handler.* Guest state in three places (registers, eVMCS, the copy the
  upper hypervisor keeps of the eVMCS); clean bits that say which copy is right;
  handlers that advance RIP and one that must not. Correct: the guest cannot
  tell it from the bare processor, but for named differences.
- *Driver, hypervisor, virtual processor.* Failure of any step, while some
  processors are in their virtual machines; a flag (`m_running`) trusted to tell
  which. Correct: no memory or code a guest needs goes away; all or none; an
  unload ends with all processors native.
- *Memory types and identity map.* Overlapping ranges whose effect depends on
  their order, pages larger than ranges, ends of tables and of memory. Correct:
  every frame mapped once, with the type the processor has for it.
- *The VMCS at `start()`.* A hundred fields derived from capability MSRs, from
  segment registers, descriptors and control registers, on each processor while
  the operating system is anywhere. Correct: the VM entry succeeds, the guest
  goes on with the registers it had, the host's handlers find their own.
- *Locks.* A weak exchange between a load and a store of the same word, guards
  that must release what they acquired, callers that return from `call_once`
  before or after it is done. Correct: a readers-writer lock; one execution.
- *Objects.* Lifetimes ended by hand in a union, pointers moved through `expected`,
  members and raw pointers, objects moved up in their block. Correct: one owner
  for each block, which frees the address the pool gave.

`PROJECT.json` lists these hazards at their lines, with the properties on them.

## The modules

| module | models | abstracts |
|---|---|---|
| `EptAddress` | page arithmetic, attributes of an entry | an address is its five digits (four indices, an offset) |
| `DynamicEpt` | `dynamic_ept` | the doubly linked list of children to the set of children; the bits of an entry to "none", a table, a page with base and attributes |
| `EptStores` | `DynamicEpt` with the stores that write an entry, and what a processor walking the tables may read between them | the build's choice of stores to the values any order of them may show |
| `GuestMapping` | the abstract specification of `dynamic_ept`: a map from guest frames to pages | tables, nodes, cache |
| `Instructions` | the instructions that reach the exit handler, on a processor without siren | words to names; RFLAGS |
| `BareCpu` | the abstract specification of the exit handler: the processor the guest had before | siren, but for a list of differences |
| `VmExit` | `entry_point`, `dispatch`, all handlers, `launch`, `turn_off_vm` | a handler is one step |
| `Hypervisor` | `DriverEntry`, unload, `intialize`, `start`, `stop`, the broadcast | the guest to its mode on each processor |
| `MaskRegion` | `mask_region_t` | a number is the set of its bits |
| `MemoryType` | `propose` | addresses to frame numbers |
| `IdentityMap` | `setup_ept_identity_map` | `commit_page` to the set of pages committed, or a failure |
| `SpinLock` | `spin_lock`, `lock_guard`, `shared_lock_guard` | the pauses between two attempts |
| `ReadersWriterLock` | the abstract specification of `spin_lock`: who holds it how | the word |
| `OnceFlag` | `once_flag`, and the `static` variables its callers fill | what is in the variables |
| `Synchronization` | the threads of the two, with their fairness | |
| `VmxControls` | `evmcs_setup_controls_*` and the capability MSRs | a control word is the set of its controls |
| `Segmentation` | selectors, descriptors, `evmcs_setup_segment` | an address is its two halves; of a descriptor the base |
| `VmcsSetup` | `start()`, VM exits and `turn_off_vm()` on one processor, with the operating system around them | a process is its page tables; the fields of siren's own |
| `Allocator` | `allocate`, `deallocate`, `allocator_new`, `allocator_delete` | memory is blocks, kept addresses, living elements |
| `Expected` | `expected<T>`, `expected<void>` | `T` is left to the user; an error has no value |
| `OwnedObjects` | `allocate_unique`, the deleters, the moves of siren's owners | a function is the sequence of its operations on owners |
| `MC*` | the instances for TLC | |
| `*Proofs` | theorems and their proofs | |

### DynamicEpt

`pool`, `cache`, `top`, `parent`, `table_level`, `table_index` and `table` are the
node table: the fields of `node` with the entries of `node_data`. Every public
operation is an action: `Initialize`, `Prepare`, `ModifyBase`, `ModifyFlags`,
`Uncommit`, `CommitBegin`, `Terminate`; `find_page` is the operator `FindPage`.
`commit_page` is taken one node at a time, in the order `node_ensure` recurses:
`CommitBegin` (checks), then for each level one of `EnsureFound` (the node is
there), `EnsureAttach` (a new empty table), `EnsureSplit` (a table filled from a
larger page), `EnsureStops` (the build stops in `std::unreachable()`),
`EnsureFails` (no node to be had), and `CommitFinish` (detach and free what hangs
below, write the entry). So the states between two writes of an entry, and those an
early return leaves behind, are states of the model, and `Walk(g)` is what a
processor would find there. `Outcomes` is what the build makes of the fall-through
into `std::unreachable()` at `dynamic_ept.cpp:553-557`: the intended split, the
code of the case that follows in memory, or a stop. The pool is the finite set
`Nodes`; when it is empty `PoolExhausted` stops the system, because the allocator
asserts (`siren/memory.cpp:68`), while an empty cache at high IRQL is an error
the code does return.

`DynamicEpt` writes an entry at once; the code does not. `attach` zeroes it, sets
its access bits, and writes the frame last (`dynamic_ept.cpp:404-435`), so that it is
empty and then refers to a table at page frame 0; `set_page_entry` writes base and
attributes one by one. `EptStores` adds the variable `writing`: the entry being
written and the values it may show (`AttachValues`, `PageValues`, `FlagsValues`), until
`StoresDone`. `Seen(g)` is the set of what a walk may find: what `Walk` finds, or,
where it passes that entry, one of those values. Nothing else of an operation
happens in between, because one thread runs them all and a table is filled before
an entry refers to it. `OthersSeeOldPage` names what another processor may
notice outside the page that is committed: an address without a page and an address of
a page being split may lead to nothing or to `Junk`.

`GuestMapping` is a map from frames to pages. Its `Split` gives the smaller pages any
execute right, because `split_page_entry` takes it from the read right of the large
page (`dynamic_ept.cpp:515`, `:540`): `SplitFlags` is the code's choice.

### VmExit, Instructions, BareCpu

`Fetch` puts any instruction of the list, with any operands, at RIP. `Execute`
runs it when it does not exit; `Exit` is the VM exit, at which the upper
hypervisor updates the eVMCS and may set any of the clean bits in `CleanAtExit`.
The handler is then one action, because it runs with interrupts off and on state
only its processor touches. `guest_state` is the record `GuestState`, `Resume` is
the return path with the write-back of RSP and RIP, and `Enter` is VMRESUME: a
group whose clean bit is on is taken from `loaded`, the upper hypervisor's copy,
not from `evmcs`. An entry whose RIP is neither at the instruction nor behind it
leaves the instruction `Lost`, which violates `TypeOK`. `BareCpu` executes each
instruction at once; each of its other actions is one difference siren makes
(`NameSiren`, `Echo`, `SirenOff`, `Skip`, `EarlyMovToCr4`, `FaultAfterMovToCr4`,
`Stop`, ...). `FaultAfterMovToCr4`, `Skip` and the CR4 that `SirenOff` may leave
are what the code does; a reader may want them shorter, and the refinement says
there are no others. A MOV to CR4 may carry a reserved bit: the bare processor faults,
`on_cr_access` writes it to the VMCS unseen, and the entry fails (`EntryFails`, mode
`"failed"`); `dispatch` then breaks, skips and enters again (`OnEntryFailure`). `BareCpu`
promises no progress, so it allows that, and `InsnRetires` names it.

### Hypervisor

`stage` is the line the driver's thread has come to, `owner` who holds the
object: a local of `DriverEntry`, the global, nobody. `Broadcast` interrupts all
active processors; `at[c]` is the place of processor `c` in the callback. Every
step that can fail in the code does so if it is in `MayFail`. A hot-added
processor (`AddProcessor`) has no virtual processor, and `get_virtual_cpu` gives
a null pointer for it. The model keeps what `ON_FINAL` does
(`driver.cpp:69`): the device is deleted also when all went well, and the link
stays without it.
The system stops for the two reasons `StopsOnlyInBroadcasts` names, VMX operation that
cannot be entered and the null pointer; and a failing `DriverEntry` takes the image away
(run `hypervisor_image`), while the object stays where it is.

### MaskRegion, MemoryType, IdentityMap

`Step` is one turn of the loop over the variable MTRRs, in their order;
`ProposeFixed` the three loops over the fixed ones; `Propose` the whole function.
`TypesOf` is the reference: the rules of the Intel manual quoted in the comment at
`x86/memory_caching.cpp:15-25`, per frame. `IdentityMap` is the recursion as a
stack of loops: a `Descend` is a recursive call, a `Return` the end of a loop.
The three tests of a masked region are proved on their own (`MemoryTypeProofs`),
because `propose` rests on them for masks with holes. `Turns` is the candidate after
each turn, a recursive function, so that the loop can be reasoned about for any
number of ranges. Of the constants `FixedAssumption` says that the fixed ranges are
the frames below `FixedEnd`, `EntriesAssumption` that a table has a power of two of
entries (512 in the code) and a frame number the bits of a 1-GiB page, and
`MtrrsAssumption` that an MTRR holds one of the five types there are (WRMSR refuses
the others).

### SpinLock, OnceFlag, Synchronization

A call of the lock is two steps, `Load` (the word, and the test of it) and
`Exchange` or `ExchangeFails`: the weak exchange may fail without a reason, and
another thread may have changed the word between the two. `guard` is the guard a
thread has constructed, with its `m_owns`. `shared_lock_guard(locker)`
(`siren/synchronization.hpp:190`) calls `lock()` where its destructor calls
`unlock_shared()`; `SharedLocking` says whether a program uses that constructor. With
`TRUE` `GuardsOwnTheirKind` is violated by the first guard (run `shared_guard`), and the
lock is of no use afterwards; the other run and the theorems have `FALSE`.
In `OnceFlag` the caller that wins the exchange fills
`Statics`, one a step, and `ReadersFindAllFilled` looks at those who returned.

### VmxControls, Segmentation, VmcsSetup

A control word is what siren asks for, with the bits the capability MSRs demand
added and those they refuse taken away (`Adjusted`); `ControlsValid`, the checks
of the VM entry, is the processor's part. Whether a processor can run siren at
all is `Sufficient(cap)`. `selector` and `hidden` are the segment registers with
the parts only the processor sees: `start()` has to find them through the GDT,
once for the guest, once for the host, and `turn_off_vm()` to bring them back. Between
the two the operating system loads selectors, writes bases, arms breakpoints and
switches processes, and a process may end. `start()` runs in the process the
interrupt finds, and so the host's CR3 may be that of a process that ends while the
guest runs (run `host_space`).

### Allocator, Expected, OwnedObjects

`heap` is the blocks the pool has given, the addresses kept below over-aligned
objects (`header`), the elements between constructor and destructor, and whether
everything freed was a block and everything destroyed an element (`intact`).
`Bases` is the pool's promise, as the comment in `Xpaged_allocator::allocate`
states it. `Expected` gives the new object and the value that was overwritten or
destroyed, which `OwnedObjects` then disposes of: what a `unique_ptr` does.
`AllocateUninitialized` and `FillElements` are the two halves of the array of
virtual processors in `mshv_hypervisor::intialize`. `TypesAssumption` says what
siren's types have: sizes that are multiples of their alignment, and base classes
that agree with the derived one on whether there is a header.
`MoveConstruct`, `MoveAssign`, `AssignError` and `GiveBack` are
the operations `expected` offers a caller, siren's own functions use a part of them.
An assignment to itself and arrays of no elements do not occur.

## The runs

| run | question | instance |
|---|---|---|
| `ept` | do nodes and tables agree, at every step of every sequence of calls, with failing commits; what does a walking processor see between two stores; does a reserve last; is it `GuestMapping`? | four nodes, two entries per table, two addresses under two level-2 tables, one of them not aligned for 1 GiB, attributes that a split changes |
| `ept_splitable` | is the entry always splitable, as the comment has it? (violated) | as `ept` |
| `vmexit_bare` | is the guest's processor the one it had; does every instruction come to its end? | a synthetic MSR and others, processors 0 and 64, all clean bits set at an exit, failing flushes, forced exits, reserved bits of CR4 |
| `hypervisor` | what if a step fails; when does the system stop; does an unload end? | three processors, two hot-added, every failure |
| `hypervisor_image` | is the image there while a processor is in its virtual machine? (violated) | two processors, the device and its link may fail |
| `identity_types` | is every frame mapped once, with its type? | 1500 MTRR settings, 512 frames |
| `identity_fixed` | are the fixed ranges used over the first MByte, as the comment has it? (violated) | a sixth of these settings |
| `synchronization` | is it a readers-writer lock; is a free one acquired; does `call_once` fill once and return? | three threads, two of which also use the flag, two static variables |
| `shared_guard` | does a guard release what it has acquired? (violated) | two threads, the constructor `shared_lock_guard(locker)` |
| `vmcs_setup` | does `launch()` succeed, and what is left of the processor behind it? | six kinds of capability MSRs, two processes, a GDT of seven entries and an LDT |
| `host_space` | does a processor have page tables for its exit handler? (violated) | as `vmcs_setup` |
| `owned_objects` | has every object one owner, wherever it lies and goes? | five types, two `expected`, a member and a raw pointer, three pages of eight bytes |

Why the bounds are enough. *Nested page table:* with two entries per table and
four levels pages are the same, neighbours in one table (the halves of a split one), in
two tables of one level, or one inside the other over one or two levels; the tables are
the same at every level, so that two pages further apart meet as these do; four nodes are
one path of tables from the top to level 1, so that pool and cache run empty on it, or
two level-2 tables with their parents. Of the `Outcomes` the run has the intended one and
the stop; that a mis-split 1-GiB entry leaves nodes and tables in agreement is what
`TreeAlwaysMatchesTables` proves for all three. Nodes are
interchangeable (`SYMMETRY`): no liveness is checked of them. *Exit handler:*
one instruction at a time is all a processor executes, and a word that carries
the name of the register it came from shows any mix-up. *Driver:* the callbacks
differ only in their order; three processors have one that is first, one last,
one between. *Identity map:* tables of 16 entries and a MAXPHYADDR that ends
memory after two entries of level 3; variable ranges as large as memory, as one
entry of each level, smaller than one, and with a hole in the mask; two at a time in
any order, and three nested ones. The ratio of `FixedLimit` to the ranges is that
of 64 KiB to the first fixed range. *Locks:* the third thread comes in between
the load and the exchange of the second, behind the first. *VMCS:* the kinds of
processors differ in one capability each (true capability MSRs, controls that
have to be 1, no secondary controls, no accessed and dirty flags, Intel PT); each
segment register has a null and a usable selector where the kernel may have both,
and one that is in the LDT. *Objects:* one type of each class of alignment, one
that needs no header, one that does, one of a page, one deleted as its base, one
contiguous; of the counts one fits beside other objects, one takes a page and
one is beyond a word. Two `expected`, a member and a raw pointer are every kind of
source and target of a move.

## Fairness

Liveness is claimed under weak fairness of steps that nothing can hold up, and
strong fairness of one:

- `Execute`, `Exit`, `Dispatch` (`vmexit_bare`): a processor executes, and a
  handler runs with interrupts off. `Fetch` and `Start` need not happen.
- `Driver` and each `Callback(c)` (`hypervisor`): Windows schedules the
  driver's thread, and each processor takes the interrupt. Nobody has to load,
  unload or add a processor.
- `LockStep(t)` and `OnceStep(t)` (`synchronization`): a thread inside a function
  goes on. `Exchange(t)` is strongly fair: the weak exchange may fail without a
  reason, again and again, but an exchange that can succeed infinitely often does
  so once. Nobody has to begin a call, and nobody has to release what it holds:
  `FreeLockIsTaken` is about a lock that is free.

That a commit ends needs no fairness to state: `CommitDescends` says that every
step of it ends the call or goes one level down, for every number of nodes.

## The proofs

| module | theorems | inductive invariant |
|---|---|---|
| `DynamicEptProofs` | `TypeCorrect`, `TreeAlwaysMatchesTables`, `EntriesAlwaysFitLevels`, `NoNodeIsLost`, `FindAlwaysAgreesWithWalk`, `EveryCommitDescends`, `OthersAlwaysSeeOldPage`, `StoresImplementSteps`, `TablesImplementMap`, `ReserveAlwaysCoversCommit` | `IInv` and `CommitOnPath` of `DynamicEpt` |
| `VmExitProofs` | `TypeCorrect`, `NothingIsEverStale`, `ShadowAlwaysAgrees`, `VmExitImplementsBareCpu` | see below |
| `HypervisorProofs` | `TypeCorrect`, `MemoryAlwaysOutlivesGuests`, `RunningAlwaysAgrees`, `AlwaysAllOrNone`, `NothingIsLeftBehind`, `OnlyStopsInBroadcasts` | `IInv` of `HypervisorProofs` |
| `MemoryTypeProofs` | `Inclusion`, `Disjointness`, `ProposedTypeHolds`, `FrameHasType` | none: facts about operators |
| `IdentityMapProofs` | `EveryFrameIsMapped`, `NothingIsSplit`, `PagesHaveTheTypeOfTheirFrames`, `NeverWithoutType` | `IInv` of `IdentityMap` |
| `SynchronizationProofs` | `TypeCorrect`, `StateAlwaysCountsHolders`, `LockImplementsReadersWriterLock`, `ReadersAlwaysFindAllFilled` | `LockInv`, `OnceInv` |
| `VmcsSetupProofs` | `TypeCorrect`, `LaunchAlwaysSucceeds`, `AlwaysOnSirensTables`, `HostAlwaysFindsItsPcr`, `BreakpointsAlwaysSurvive`, `StartAlwaysKeepsSegments`, `TurnOffAlwaysKeepsSegments` | `SetupInv` |
| `OwnedObjectsProofs` | `PlacedInsideAndAligned`, `Invariance`, `FlagAlwaysTellsMember`, `ElementsAlwaysApart`, `OneOwnerAlways`, `HeapAlwaysIntact` | `IInv` of `OwnedObjectsProofs` |

They hold for any number of nodes, entries per table, addresses, processors,
MSRs, threads, segments, types and owners, any width of a mask and any settings of
the MTRRs, from the named assumptions on the constants. The pool of nodes is finite
(`NodesAssumption`), as memory is: the proof about the reserve counts them.
Theorems that need more say so: those about the lock assume that nobody uses
`shared_lock_guard(locker)`, and `TablesImplementMap` that the build does not run a 1-GiB entry through the code for
a 2-MiB one (`"other_case" \notin Outcomes`): with that outcome the entries a split
leaves map what nobody asked for. A build that stops there, or goes on as was meant, is
covered.

*Nested page table.* `TreeMatchesTables` is not inductive: a commit writes the
entry for a node it has taken from the pool, and nothing in that invariant says
that the node was not in the tree already or that the commit stands on a node of
the tree. `IInv` adds that pool and cache are disjoint, that nodes in either have
no parent (`FreeNodesDetached`) and that a commit in progress stands on a live
node one level above the one it ensures next (`CallOnTree`). `NoNodeIsLost` and
`FindAlwaysAgreesWithWalk` then follow from `IInv` without further induction: a
node's level says how many generations are above it, so `Subtree(top)` reaches
it; and at each level the child `GetChild` finds is the only node the entry can
refer to.

What a processor sees needs the walk itself. `IInv` says that the commit stands on
some live node, not that it is the one the page's address leads to; `CommitOnPath`
does. From it follow the lemmas about one written entry (`EntryReplaced`,
`EnsureAttachWalk`, `EnsureSplitWalk`, `CommitFinishWalk`): the walk of an address
that does not pass that entry is as before, and of one that does, what the new entry
says. `StoresImplementSteps` says that `EptStores` takes the steps of `DynamicEpt`, so that
its invariants hold there; `OthersAlwaysSeeOldPage` reads the lemmas for the addresses
outside the page: one whose walk passes the entry being written has no page or a page
that is split, or lies in the target. `TablesImplementMap` for all of them, action by action: an operation maps to the one
of `GuestMapping`, `EnsureFound` and `EnsureAttach` to a stutter (the empty table
translates nothing, as the empty entry before), `EnsureSplit` to `Split`, the
end of a commit or its failure to `EndCommit`. `ReserveAlwaysCoversCommit` counts:
each attached node takes one from the cache and one from what the rest of the path
requires, so that the difference, `Spare`, stays what it was.

*Exit handler.* `NothingStale` is inductive only with what an exit leaves: the
eVMCS equals the upper hypervisor's copy (`Exit` writes it), so that a group
still clean at the entry has not changed since (`ExitOK`); the refinement also needs
that an instruction keeps its operands from its fetch to its end (`OperandsOK`).
`VmExitImplementsBareCpu` is the
usual step simulation: initial states map to initial states, each handler to the
action of `BareCpu` that is its specification, and `Start`, `Exit` and the
bookkeeping to `SirenOn` or a stutter.

*Driver.* `IInv` is a table: for each stage and each place in the callback, what
`m_running` and the mode are (`KnownOK`), that the processors without a virtual
one stay native (`UnknownOK`), and which owner, broadcast and I/O objects belong
to the stage (`DriverOK`). Each invariant reads its line of the table. TLC checks
that it is inductive on a small instance; the proof goes action by action.

*Masked regions.* If all members of `s` are members of `r`, then `r` has no mask
bit that `s` lacks: flipping it in `s.base` gives a member of `s` that is not in
`r`. Disjointness needs a member of both when the bases agree: the bits either
of them fixes.

*Memory types.* A range that is apart from a region holds none of its frames, one
that contains it holds all (`RegionsOfOneFrame`), and a page is within its region
(`PageRegion`): the bits its mask keeps are those that its frames have in common. So
a turn of the loop learns the same of every frame of the page. `Decides` is what the
loop knows after each turn: the candidate is the type the rules give for the ranges
seen so far, or the loop has ended, with UC or because the page has no single type.
In no order of the ranges does it forget a UC or a write-through. A page of one frame has
a mask of all bits, a range contains it or is apart from it, and the loop never ends
with `"reserved"`. Induction over the turns, and over the exponent of `Pow2`, is by the
least number at which a statement would fail (`LeastNumber`, `UpTo`); `Recursion`
gives the recursive functions their values.

*Identity map.* `IInv` says how the four loops nest (each stands on the entry of its
caller that it was called for), and that the pages end where the innermost entry
begins and leave out no frame below it. `CommitPage` and `Return` move that end by what
an entry covers, `Descend` leaves it: nothing is mapped twice or left out. That a
page lies at a multiple of its size, which `ProposedTypeHolds` needs, follows from the
nesting (`LoopsAreAligned`).

*Lock.* That the word counts the holders is inductive only with what a call in
progress has seen (`CallOK`: a word it loaded is one it could take) and with the
guards (`GuardOK`: a guard that owns holds in its own kind), because an exchange
takes the loaded word for the present one, and a release what the guard says. The refinement then
is a step simulation, each exchange an acquisition.

*VMCS.* `SetupInv` ties what lies between `start()` and `turn_off_vm()`: the control
words are those of the capability MSRs (`ControlsInv`), every selector names a
descriptor and the hidden part goes with it (`SelectorsInv`, `HiddenInv`), and the
host's selectors are those `start()` found (`HostInv`). Without the last two
nothing says that `turn_off_vm()` finds through the GDT what `start()` has left.

*Objects.* `OneOwnerEach` is not inductive: freeing an object reads the kept
address below it, and nothing in that property keeps another object from lying
there. `HeapOK` says of every owner where it is placed in its block, which is
disjoint from all others, and that every kept address belongs to the owner whose
pointer is just above it; `ElementsApart` follows from it. Each operation is then
one of five changes of heap and owners, with a lemma each: a block is allocated,
its elements are constructed, an owner changes its place, is deleted, or is
replaced by another (`AllocateKeeps`, `ConstructKeeps`, `MoveKeeps`, `DeleteKeeps`,
`ReplaceKeeps`). The arithmetic of places is `PlacedInsideAndAligned`.

Model-checked only: the liveness properties (`InsnRetires`, `UnloadEnds`,
`FreeLockIsTaken`, `CallOnceReturns`), which rest on fairness and so on ENABLED,
beyond the prover. Every other property of the passing runs is also a theorem. The
invariants they are proved with (`IInv`, `CommitOnPath`) hold on the instances of the
runs: TLC has checked them there.

<a name="disagreements"></a>
## What the code does that it does not say

- `ept_splitable`: splitting a 1-GiB page runs into `std::unreachable()`
  (`vmx/dynamic_ept.cpp:553`), while the comment at line 744 calls the entry
  splitable. `identity_types` shows with `NothingSplit` that the identity map,
  the only caller today, never gets there.
- `hypervisor_image`: a `DriverEntry` that cannot make its device or link returns an
  error with all processors in virtual machines whose exit handler is unloaded
  (`driver.cpp:42-48`); `SirenHvDriverUnload` stops them first.
- `shared_guard`: `shared_lock_guard(locker)` acquires exclusively
  (`siren/synchronization.hpp:190`) what its destructor releases as shared.
- `host_space`: `DriverEntry` attaches to the system process around `start()`
  (`driver.cpp:33`), which changes CR3 on its own processor only; the others take the
  host's CR3 (`vmx/mshv_virtual_cpu.cpp:293`) from any process, which may end.
- `identity_fixed`: the fixed ranges are used below 64 KiB instead of 1 MiB
  (`x86/memory_caching.cpp:80`), so that for instance the VGA window gets the type
  of the variable ranges.

Also seen, and in the hazards: the pages around one that a commit splits vanish, then
lead to page frame 0, while `attach` writes its entry, and a readable page without
execute gains it by a split (`vmx/dynamic_ept.cpp:515`, `:540`); a hot-added processor
meets a null pointer in `start()` or `stop()`; a CR access that a processor forces to
exit is never stepped over; a reserved bit in a MOV to CR4 makes the VM entry fail, again
and again; `modify_page` reports `not_found` after it has changed the page; `turn_off_vm`
brings back the CR4 of the time siren was started. VMCALL, XSETBV, some RDMSR, WRMSR
and MOV to CR4 exit as well as CPUID, whose interception alone `src/README.md:7`
names: `vmexit_bare` has handlers of all of them at work.

Code without a caller that would not do what it is there for: the constructor of `expected` from an `expected` of other types reads its private
members, and its `error() const&` returns a reference that is not const
(`siren/expected.hpp:108` and `:347`): neither compiles when used; `right_closed_half_interval_t`
is another name of the interval closed on the left (`siren/utility.hpp:81`).

<a name="not-modelled"></a>
## What is not modelled

- Layouts of registers, page-table entries and the TLFS structures, and the
  one-instruction accessors around them (`x86/*.hpp`, `microsoft_hv/*.hpp`): data
  without control. What siren reads and writes of them is in the modules above.
- `driver_irp_handler.cpp`, `siren/address_space.cpp`: no state.
- `get` and `set` of the MSR bitmap, `inject_bp_exception`, the hypercalls other
  than `turn_off_vm`, `yield_cpu`: no caller. The intervals of `siren/utility.hpp`
  are pairs of bounds, and `range_bits_t` has no caller.
- Accessors and comparisons of `expected`: no state.
- The links between sibling nodes (`link_before`, `link_after`, `unlink`):
  `DynamicEpt` has the set of children, which is all that `find`, `attach` and
  `node_free` use.
- `MemoryType` takes the MTRRs as read once before any call: that this is so is
  `ReadersFindAllFilled` of `OnceFlag`, whose static variables stand for them.
- Compiler attributes, annotations, literals, AMD SVM (an empty file).

## The plan

In the order of importance; 1 to 7 are done.

1. `EptAddress`, `DynamicEpt`, `GuestMapping`, `DynamicEptProofs`: what memory a
   guest sees. One abstract specification, refined.
2. `Instructions`, `BareCpu`, `VmExit`, `VmExitProofs`: what processor a guest
   sees. One abstract specification, refined and proved to be.
3. `Hypervisor`, `HypervisorProofs`: when a guest may run at all.
4. `MaskRegion`, `MemoryType`, `IdentityMap`, `MemoryTypeProofs`, `IdentityMapProofs`:
   which pages the hypervisor commits, and with which types.
5. `SpinLock`, `OnceFlag`, `Synchronization`, `SynchronizationProofs`: the lock
   against an abstract one.
6. `VmxControls`, `Segmentation`, `VmcsSetup`, `VmcsSetupProofs`: the VMCS, and
   the way there and back.
7. `Allocator`, `Expected`, `OwnedObjects`, `OwnedObjectsProofs`: who owns what.
8. `SiblingList`: the links and the ordered search, refining the set of children
   `DynamicEpt` uses.
9. `MsrBitmap` against the function from MSRs to rights it stands for, once
   something in siren sets it.
10. Proofs: that the pages of `IdentityMap` are what `GuestMapping` holds after the
    same commits.
