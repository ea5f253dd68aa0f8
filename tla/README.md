# SEDarwin in TLA+

SEDarwin is a macOS kernel extension that registers a policy with the kernel's
MAC framework, lets an operator install and remove its hooks on the live
policy through sysctls, and quarantines one hook (`mpo_vnode_check_lookup`)
that is known to wedge the machine. This directory models the parts of it that
keep state, checks them with TLC on small instances, and proves all of the
safety claims with TLAPS for every instance.

## The system

| part | source | state | operations |
|---|---|---|---|
| quarantined lookup hook | `kext/vnode.c` | `owner`, `depth`, `maxdepth`, `recursed`, `count`, `fuse` | one dispatch per path component, on any core, no lock |
| hook control | `kext/main.c` | `sebsd_ops` slots, `hooks_enabled`, `unsafe_enabled`, `trace_enabled` | the `sedarwin.*` sysctls; the fuse, called from the hook |
| start and stop | `kext/main.c` | `registered`, the policy handle, the linked oids | `_start`, `_stop`, both of which can fail |
| sbuf | `lib/libkern-bsd/sbuf.c` | buffer, size, length, flags | append, print, trim, finish, delete |
| Mach-O inspection | `kext/MachO.c` | none | parse a thin or fat header in memory |
| fuse ladder | `tools/sedarwin-fuse-ladder` | a log on disk | arm with one fuse after another |
| boot loader | `tools/sedarwin-load`, its launchd plist, `Makefile` | arm flag, retry counter | load the kext, check the sysctl |
| trace-only hooks | `kext/{vnode,file,net,tty,proc,spawn}.c`, `kernel.h` | process references | format a line when `sedarwin.trace` is set, return 0 |

How they interact. The framework keeps a pointer to `sebsd_ops` and re-reads a
slot on each dispatch, so a sysctl write changes the live policy. The handlers
of all keys run without a lock (`CTLFLAG_LOCKED`), beside each other, beside
dispatches and beside start and stop. The lookup hook calls back into
`main.c` to clear its own slot (the fuse). The ladder script drives the
sysctls from user space and has to survive a machine that freezes. The boot
loader has the kernel run `_start` at every boot, and the arm flag on disk is
all that keeps a build that hangs the machine from doing so at every boot.

What is hard: every store of shared state is plain or relaxed and nothing is
locked; dispatches land after their slot is cleared; start and stop have
failure paths that must undo what is reachable from outside; the sbuf takes a
`size_t` from a subtraction and may lose an allocation half way; the parser
believes sizes that come from the image; the log must outlive a freeze, and the
boot loader must not turn a freeze into a boot loop.
`PROJECT.json` lists the hazards line by line.

## Modules

- **SebsdState**: the file-scope variables that more than one component
  touches. A bitmask is the set of its hooks.
- **LookupHook** (extends SebsdState): `sebsd_vnode_check_lookup()`, one action
  for each load or store of shared memory. A frame `<<t, k>>` is the `k`-th
  nested activation on thread `t`; frame `k + 1` can only start while frame `k`
  is in the trace call, the only callout of the body. `x &= ~bit` is a load and
  a store, the condition on the fuse loads it twice, `d > maxdepth` and the
  store are separate. `Dispatch` is the framework: it calls what it loaded.
  `Resolvers` are the threads whose trace call resolves a path again.
- **OneShotFuse**: what the fuse promises an operator, as a specification of its
  own with six variables and no word of owner, depth, trace, or of the loads
  and stores: `limit` dispatches land, each one that lands from then on removes
  the hook, so does a re-entry, and nothing else does.
  `LookupHook!ImplementsFuse` is the refinement.
- **LookupHistory** (extends LookupHook): the same with the true peak of `depth`
  as a history variable.
- **HookControl** (extends SebsdState): the sysctl handlers. The hooks handler
  is split into copy-in, validation, mask store, one store per slot in source
  order, and return; the integer keys are one store each, of any value written
  (the ladder and the operator write 0 to the three counters, the handlers
  accept whatever comes). `lookup_count` is an `unsigned int` that wraps at
  `UIntMod`, in the hook and for the writer.
- **HookSystem** (extends LookupHook and HookControl): both together from a
  fresh load on, `lookup_fuse` perhaps written since (`InitialFuses`), with a
  history variable for "the second key has been set".
- **PolicyLifecycle** (extends HookControl): `_start` and `_stop` step by step,
  with handlers, dispatches and repeated loads running at the same time, the
  lifecycle hooks that the framework calls (`PolicyInit`, `PolicyDestroy`)
  included.
- **BootLoader** (extends PolicyLifecycle): `sedarwin-load` as launchd runs it
  and as `make load` runs it with `--force`, one action per step of the script;
  `make install`; the operator and the arm flag; a machine that hangs, is
  switched off and boots. `Goes` is the script's program counter, `KextProceeds`
  the start routine of PolicyLifecycle, at whose end the waiting `kmutil`
  returns.
- **Sbuf**, **SbufSpec**: the sbuf routines as operators on a record, one action
  per call; and what an sbuf promises, a string that grows by whole pieces.
  What the accessors would answer is part of the promise (`Told`).
  `Sbuf!ImplementsString` is the refinement. `sb.wild` records an access or a
  free outside the blocks; from there on only `Undefined` is left, because what
  a machine does then is not modelled.
- **MachO**: the parser, one action per header or loop iteration, and the image
  that the load-time self test builds.
- **FuseLadder**: the script, its log with a write cache, and a machine that
  freezes at an unknown dispatch count.
- **TraceHooks**: the hooks that only trace, one action per hook for the call
  and one per piece of its line (a process named by ident or by number, a file
  name component, the flags), beside processes that exit and pids that are used
  again. `proc_list_lock`, references and reaping are the kernel's.
- **LookupHookProofs** (LookupHistory included), **HookSystemProofs**,
  **PolicyLifecycleProofs**, **BootLoaderProofs**, **SbufProofs**,
  **MachOProofs**, **FuseLadderProofs**, **TraceHooksProofs**: the theorems, each
  module beside the one it is named after.
- **MC...**: the instances for TLC.

Operators whose comment begins with "Mutant:" are plausible mistakes in the
definition that follows them. Each property is known to fail when the mutant
listed for it in `PROJECT.json` takes the definition's place.

Outside the repository, and modelled from how it is used: the framework calls a
pointer it has loaded even if the slot is cleared meanwhile; a successful
`mac_policy_unregister()` lets no dispatch in and waits for those inside;
`sysctl_unregister_oid()` waits for handlers running on the oid; a load gives
the module its static initialisers again; `vsnprintf()` truncates and reports
the full length, or fails. For the boot loader: `kmutil load` may not be ready,
refuses a bundle that is not approved, and otherwise returns when `_start` has;
an approval covers the installed build and takes effect at a boot;
`kmutil showloaded` lists a kext from the moment it is mapped; a boot clears the
kernel and every script, and keeps what is on disk.

## Runs

| run | checks |
|---|---|
| `lookup_armed` | the armed phase: two threads, two nesting levels, fuses 1 and 2, trace on and off, against OneShotFuse |
| `hook_system` | hook and sysctls: two threads, one of them nesting, three writes of any key, a fuse of 0 or 1 to start with, counts that wrap at 3, safety and liveness |
| `policy_lifecycle` | two loads, two writers, two dispatchers, three oids, every failure |
| `boot_loader` | the daemon and one interactive load, two tries, `kmutil` not ready once per boot, any number of boots and hangs |
| `sbuf` | every call sequence of one sbuf, every allocation outcome, heap buffers and client's buffers of 0, 1 and 3 bytes, against SbufSpec |
| `macho` | about 71,000 images up to ten bytes with headers of two to five, and the self test's |
| `fuse_ladder` | three rungs, thresholds 1 to 9, SETTLE long enough or not |
| `trace_hooks` | every trace-only hook on two threads, two processes with one pid |
| `fuse_race`, `failed_unload`, `empty_buffer`, `ladder_blame` | the findings below |

What the properties say:

- *NoFalsePositive*: a thread that takes the re-entry path is really nested,
  although every core overwrites and clears the one `owner` word. This is the
  argument of vnode.c:194-199, which is informal there.
- *DepthIsActivations*: `depth` counts the activations inside, over all return
  paths. *MaxdepthSound*: what `lookup_maxdepth` can be trusted for.
- *FuseOvershoot*: the count passes the fuse by at most one less than the
  activations that can be in flight. vnode.c:148 speaks of "exactly one
  dispatch" for a fuse of one; that holds only when no other core has loaded
  the slot.
- *MaskReportsLookup*, *FuseBlows*, *FuseWins*: the fuse leaves the mask right
  while nobody writes it, and in the end wins over a re-arming.
- *ImplementsFuse*: the fuse never removes the hook early. The count is taken
  with one atomic add, compared later with a fuse that is loaded twice, and
  other cores count on in between; still no call removes the slot that has not
  counted itself at or past the fuse, or found itself nested, and each that has
  removes it itself.
- *FuseWins* also covers what wrap-around does: with the fuse at 0 the armed hook
  counts on and wraps, and a fuse that is set while it runs is reached all the
  same, wherever the count stands.
- *Interlock*: no interleaving gets the unsafe hook into a slot or into the mask
  unless `sedarwin.unsafe` has been set at some time. (The key may be cleared
  again between the check and the store: the handler reads it once.)
- *NothingDangles*, *ParentLinked*, *QuietUntilAsked*, *RunningIsComplete*,
  *TransitionsEnd*: the promises of the comments in `_start` and `_stop`.
- *LoneWriteRepairs*: two writers of `sedarwin.hooks` that interleave, a failed
  stop, or a write during the stop leave mask and slots different; the next
  write that no other writer and no stop disturbs sets both right.
- *DisarmedRecovers*: once the arm flag is gone for good and no forced load is
  under way, the machine hangs at most once more (it may still be running the
  load it was asked for). *RunsEnd*, *GivesUpForCause*: the retry loop ends, and
  two scripts that poll and load side by side do not exhaust it while nothing
  is wrong. *ConfirmationTrue*: the sysctl the script looks for tells that the
  policy registered, whichever script asked for the load. It does so only when
  no start is under way: `_start` links the oids before it calls
  `mac_policy_register()`, so a script that finds the kext mapped by another's
  load may report "registered" and the start fail afterwards.
- *ReservedByte*, *InBounds*, *HeapIsOwned*, *ImplementsString*: the sbuf. The
  first two and the last make one exception, an sbuf on a client's buffer of
  length 0: it has no byte to reserve, its capacity wraps, and it goes outside
  (`empty_buffer` below). *InBounds* is that no other sbuf does; for
  *ImplementsString* such an sbuf counts as not created, so nothing is claimed
  of the calls on it. *FinishIsSafe* is the comment at sbuf.c:673 without the
  exception. *HeapIsOwned* needs none.
- *ReadsInside*, *SignatureFound*, *Terminates*: the parser. `SignatureFound`
  compares the loop with a definition by quantifiers over command chains;
  *SelftestParses*: the one command of the self test's image ends exactly at the
  end of the buffer, and is found.
- *CulpritLogged*, *ClearLadderSurvives*, *SettledNamesCulprit*, *LadderEnds*:
  the ladder.
- *NamesRightProcess*: a process is found by ident and named by number, and the
  line is still never about another process that got the number meanwhile; the
  reference between the two is what this rests on. *ReapCompletes*: the
  reference is always dropped. *StuckOnlyIfTraced*: a signal or exit delivered
  with `proc_list_lock` held cannot hang in a hook unless tracing was on. (With
  tracing on it can: `proc_find_ident()` and `proc_name()` take that lock.)
  *InBuffer*, *FlagsSpelled*: `sebsd_cnp_name()` and `sebsd_csflag_bits()`.

The type invariants of LookupHook, PolicyLifecycle, MachO and FuseLadder are
theorems and no run repeats them; the others are checked by the runs.

### Bounds

Two threads with two levels each give every race of the hook: a thread against
itself, against another, and against another's nested activation; a third
thread adds no new pair of accesses. In `lookup_armed` both nest; in
`hook_system` one does, the other's lookups are of one level: the races between
a nested activation and another core stay, and the writers fit in. Fuses 1 and 2
are the fuse at the first dispatch and later. `MaxWrites` is three because
arming takes two writes (the key and the mask) and a third disturbs it: with a
fuse of 1 to start with it arms the hook again while it is blowing or moves the
count, with 0 it sets the fuse of a hook that is running and whose count has
wrapped. Both starts are states of the program (`lookup_fuse` is writable before
anything is armed). A fuse taken away and set again on one armed hook would be a
fourth write and is not reached, nor is a positive fuse lowered to another.
Counters are not cut off: `UIntMod` is 3 in `hook_system` (the count wraps with
the fuse at 0, and the fuses 0 and 1 fit an `int` of that width), 8 in
`lookup_armed`, where it is out of reach, and any width in the proofs.
`CountWrites` has the largest count, one before the wrap, and `DepthWrites` the 0
that an operator writes; 0 for the count is the value it has at first. One safe slot stands for the twenty
others: they are stored in the same way, one after the other. In
`policy_lifecycle` the keys that are plain integers are left out of the oid
list; node, hooks and unsafe remain in source order. For the sbuf, a page is 4 bytes,
the smallest extension 2 and `INT_MAX` 9, so that doubling, page rounding, the
test on the rounded size and the `size_t` wrap are all met by pieces of up to
five bytes. The client's buffers have no byte, only the one that is reserved, or
room for a piece. A piece is assumed shorter than the address space less
`INT_MAX`, as every object is: on a buffer of length 0 the wrapped capacity then
lets it through, and the access outside is what the run sees.
For the trace hooks the two processes share one pid, so that it is always used
again; buffers of 3 and 4 bytes cut names and flags, as 64 and 32 do for longer
ones. In `boot_loader` the kext has one hook, the oid list is the node and
`hooks`, and no hook is called and no module unloaded: a hang is allowed at any
time after the kext is mapped, whatever causes it. Boots are not counted, so a
boot loop is a behaviour of the model; `Transient` bounds how often `kmutil` is
not ready in one boot, and `GivesUpForCause` needs it below `TRIES`.

### Fairness

`HookFairness` and `SystemFairness`: a thread that is inside the hook or a
handler is scheduled again, and lookups keep coming while the slot is armed
(the hook fires for each component of each path on the system). Writes are
never fair: operators may stop at any time. `LifecycleFairness`: start and stop,
once begun, hooks and handlers, once entered, run on; loading, unloading,
dispatching and writing happen or not. `MachO`: the parser runs. `FuseLadder`:
the script is run on and lookups go on unless the machine is frozen.
`BootFairness`: launchd, the scripts and a start routine go on while the machine
is up, and a machine that is off or hangs is switched on again; the operator,
`make install`, hangs and shutdowns happen or not, and `kmutil` answers in any
way it can. `TraceHooks`: a thread in a hook runs on, strongly fair because a waiter for the
list lock is woken in its turn, and the kernel reaps what has no references.

### Findings

- `fuse_race`: the fuse clears the slot, then drops the bit with a separate load
  and store. A write that re-arms the hook in between leaves it installed and
  reported as absent until the fuse blows again.
- `failed_unload`: stop clears the slots and not the mask. If
  `mac_policy_unregister()` fails, the policy stays live and `sedarwin.hooks`
  reports hooks that are gone.
- `empty_buffer`: `sbuf_new()` tests for a length of 0 on the heap path only
  (sbuf.c:213-220); a buffer from the client is taken with any length
  (sbuf.c:204-208). With a length of 0 no byte is reserved, whatever the
  comments at sbuf.c:350 and 673 say: `sbuf_finish()` stores its terminator
  behind the buffer, and `sbuf_capacity()` wraps so that every append seems to
  fit. The counterexample is the shortest one, create and finish. Nothing in the
  repository creates an sbuf that way.
- `ladder_blame`: `survived` is logged after a fixed sleep. A slot that is still
  armed can freeze the machine afterwards, on a fuse the log calls survived.

The properties above also allow for behaviour the comments do not mention:
two handlers of `sedarwin.hooks` that interleave can leave mask and slots
different; a hooks write during stop can fill slots that stop has cleared;
`maxdepth` can lose its peak; `sbuf_putc()` of a NUL makes room for it first.

One more, in a single function, is left as a note: `nfat_arch` is converted from
big-endian (MachO.c:75), `fa[i].cputype` is compared as it lies in the image
(MachO.c:87, `ReadSlice`), so the arm64 slice of a fat image written the usual
way is not recognised and `cputype` stays 0, although MachO.c:4-6 promises the
CPU type of thin and fat images.

Texts that differ from what the scripts do, met while modelling them and left
as notes because no state of the models depends on them: README.md:117 says
the script looks for `sedarwin.trace`, it looks for `sedarwin.hooks`
(`sedarwin-load:106`); Makefile:115-116 says that `make load` includes "the
arm-flag gate", `--force` skips it, as the lines after say; Makefile:88 prints
that the loader is disarmed, but nothing in the target removes a flag that is
there, and the daemon it has just bootstrapped runs at once (*Bootstrap*).

## Proofs

Assumptions: the threads are a finite set, `NoThread` is none of them, the
nesting bound and the fuses of the armed phase are positive and fit an `int`,
slots and oids are distinct, the parent node is the first oid, an image has a
length and words of the machine's width, ladders and thresholds are positive, a
`size_t` holds twice `INT_MAX` and a page, a piece appended to an sbuf is shorter
than the address space less `INT_MAX`, the trace buffers have at least one byte,
and the flags are a sequence. They are `ASSUME`d in the modules that declare the constants. Nothing is assumed about
how many there are.

- `LookupHookProofs!ArmedSafe`: types, *NoFalsePositive* and
  *DepthIsActivations* for the armed phase.
  `NoFalsePositive` is not inductive, because it says nothing of frames that have
  not looked at `owner` yet. `HookInv` adds: the activations of a thread form a
  stack, all but the top one in their callout (`StackInv`); a thread found in
  `owner` has an activation that has stored it and not cleared it yet
  (`OwnerInv`; the converse is false, that is the false negative); only the
  re-entry path returns without leaving `depth` (`BackInv`); the outermost
  activation never finds itself (`OutermostInv`). A frame that reads its own
  thread then has an owning frame of that thread, which the stack puts in a
  callout below it.
- `LookupHookProofs!FuseBounded`: *FuseOvershoot*. While the slot is armed, all
  dispatches from the fuse-th on are still on their way to clearing it (`Late`);
  once it is cleared, the activations that may still count themselves (`Pending`)
  only become fewer. `FuseInv` bounds the count by each in turn, and the step
  from the one to the other is that a frame is not both.
- `HookSystemProofs!SystemSafe`: the same for the hook among the sysctls: the
  handlers write none of the hook's private state.
- `HookSystemProofs!InterlockHolds`: *Interlock*, from `KeyInv`: past its
  validation a handler that carries the unsafe bit has seen the key set, and
  nothing else puts the bit anywhere.
- `LookupHookProofs!ArmedLeavesNothing`, `HookSystemProofs!SystemRestsClean`: the
  last thread to leave the hook leaves no depth and no owner (`RestsClean`, from
  *DepthIsActivations* and `OwnerInv`); in the armed phase a cleared slot stays
  cleared, and then no mask is left either.
- `LookupHookProofs!ArmedMaskReports`: *MaskReportsLookup*, from `MaskInv`: the
  slot is set only together with the mask and before anyone blows it, and a mask
  that still has the bit after the slot is gone has a frame on its way to
  dropping it.
- `LookupHookProofs!ArmedImplementsFuse`: *ImplementsFuse*. Each step of the hook
  is a step of OneShotFuse or changes none of its variables. `CountInv` is what
  the mapping needs: a frame holds a count only once it has counted, and a frame
  about to clear the slot has counted itself at or past the fuse, or a re-entry
  has been seen.
- `LookupHookProofs!MaxdepthIsSound`: *MaxdepthSound*, from `PeakInv`: what a
  frame carries from its atomic add is between 1 and the peak, and a positive
  peak is in `maxdepth` or on its way there. The outer frames only wait, so the
  lemmas of the hook about which frame moves carry over.
- `PolicyLifecycleProofs`: seven theorems from one invariant, `LifecycleInv`. The
  loader's position determines the flags (`FlagsInv`) and the linked oids, always
  an initial segment of `OidOrder` (`OidsInv`); a thread is inside only while
  something leads there or somebody waits for it (`InsideInv`). *NothingDangles*,
  *ParentLinked* and *RunningIsComplete* follow. *QuietUntilAsked* needs that
  mask and slots are empty until a write has been accepted (`AskedInv`), and
  *LoneWriteRepairs* that a lone writer's slots agree up to its next (`LoneInv`).
  `LifecycleOnlyShortens` counts what is left of a start or a stop
  (`TransitionLeft`): it needs that `index` is in range of the list the loader is
  in (`IndexInv`), and that Detach, which may go back to "running", cannot go
  back into the stop.
- `BootLoaderProofs`: *GivesUpForCause*, *ConfirmationTrue* and the types, for any
  number of scripts, tries and boots. `BootInv` contains `LifecycleInv`: the
  kernel's part of a boot step is nothing, a load, a step of the start routine or
  the loss of everything (`KernelSteps`), and the lemmas of
  PolicyLifecycleProofs are stated about such steps (`LifecycleStep`), not about
  its own `Next`, so that they can be used here. The linked oids are then what
  the loader's position says, hence *ConfirmationTrue*. For *GivesUpForCause*,
  `CountInv`: while there is no excuse each attempt that a script has counted, or
  is about to count, is one for which `kmutil` was not ready.
  `BootHangsOnceMore` is that a machine which has hung while disarmed has the
  kext in no boot (`Dormant`) until it is armed again: then no script gets past
  its gate. `BootRunsShorten` counts the steps a run has left (`RunLeft`); a
  failed attempt goes back to the loop's head but costs one of the TRIES.
- `MachOProofs!ReadsAreInside`: *ReadsInside* for an image of any length and
  content. `ReadInv` says what the parser has compared at each place: the whole
  slice table before it reads a slice, the header before the commands.
- `MachOProofs!MachOSignatureFound`: *SignatureFound*. Where the loop stands it has
  followed a path of offsets that the image's sizes determine (`Followed`), so a
  chain to a signature is that path or a prefix of it; no induction over the
  image is needed. `MachOSelftestParses` follows the self test's image through
  the parser for headers of any size.
- `MachOProofs!MachOWorkBounded`, `MachOAlwaysCloser`: from `LoopInv`, each time
  round a loop goes a command or a slice further into the buffer. The first
  bounds the work by the length of the buffer, whatever the header claims; the
  second is the safety half of *Terminates*, a number that every step lowers.
- `FuseLadderProofs`: *CulpritLogged* from `LogInv` (the line of the rung is in the
  cache before the sync, and on disk from then until the slot is cleared and
  drained), *ClearLadderSurvives* from `CountInv`: a slot left armed by the
  rung before may use up a fuse twice, hence the bound of twice the dispatches
  in flight. *SettledNamesCulprit* from `SettledInv`: when every fuse is used up
  within SETTLE, dispatches land during the sleep only, when the log is on disk
  and the attempt in hand is its last line, so a freeze leaves it the last. It
  holds for ladders that try a fuse again, too, where a "survived" from the
  first time must not be taken for one that matches the last.
  `LadderOnlyShortens`: the script's steps lower `StepsLeft`, the dispatches
  leave it and lower `DispatchesLeft`, until the fuse is through.
- `TraceHooksProofs`: *NamesRightProcess* needs that a pid belongs to one process
  that is not gone (`Unique`), that references are exactly those the hooks hold
  (`RefInv`) and that a process with a reference is not reaped (`HeldInv`);
  *StuckOnlyIfTraced* needs that a call collects names only if its gate saw
  tracing on (`SeenInv`). *InBuffer* and *FlagsSpelled* rest on `BufferOK`: after
  the k-th test the text is as long as the flags among the first k need, or as
  fit, each flag stands at twice its rank less one, and the byte of the NUL is
  left. `TestedOK` takes it through the tests by a least counterexample, once
  `TestedEquation` has shown that the recursive function has a value.
  `TraceNoneLeftBehind` is `RefInv` when no thread is between
  `proc_find_ident()` and `proc_rele()`.
- `SbufProofs`: *ReservedByte*, *InBounds*, *HeapIsOwned* and the types, for every
  page size, `INT_MAX`, piece and length, from `SbufInv`: an sbuf in use is
  `Sound`, or `Bare` if the client's buffer was of length 0; one that is deleted
  is `Closed`. One lemma per routine (`...Keeps`) says that it makes a sound sbuf
  of a sound sbuf, another (`...Stays`) that it leaves a bare one bare: the
  wrapped capacity takes every piece, so that it is never extended, and owns no
  block that could be freed wrongly. The former rest on `CapacityExact`
  (the `size_t` does not wrap, because a byte is always reserved: the invariant
  and the capacity need each other) and on `ExtendsizeCovers` (an extended sbuf
  has at least the size asked for, and one that fits an `int`). Where the code
  loops over data (the doublings, `strlen()`, the trim), the proof takes a least
  or greatest counterexample, which `Least` and `Greatest` derive from the
  well-foundedness of the natural numbers.
- `SbufProofs!SbufImplementsString`: *ImplementsString*. For each routine a `...Maps`
  lemma gives the bytes it leaves in front of the terminator: the old string and
  whole pieces (`Adds`), or the old string and the mark of a loss. A step of the
  library is then the step of SbufSpec of the same name, with what the accessors
  would answer before and after.

Only model-checked: liveness under fairness, which is out of the prover's reach.
Every invariant, action property and refinement of the runs that pass is a
theorem, and so is a part of each liveness property that is safety, except for
*FuseWins*:

| liveness, by TLC | safety, for every value of the constants |
|---|---|
| *FuseBlows* | `ArmedLeavesNothing`: the slot is not set again, and nothing else is left |
| *TransitionsEnd* | `LifecycleOnlyShortens`: a start or a stop does not go back |
| *RunsEnd* | `BootRunsShorten`: a run does not go back, a retry costs a try |
| *DisarmedRecovers* | `BootHangsOnceMore`: no second hang while disarmed |
| *LadderEnds* | `LadderOnlyShortens`: nor does the ladder, nor a fuse it waits for |
| *Terminates* | `MachOAlwaysCloser`: nor does the parser |
| *ReapCompletes* | `TraceNoneLeftBehind`: no reference is forgotten |

That the steps which lower such a number are taken at all is fairness and
ENABLED, and is TLC's part.

## Not modelled

The text of trace and log lines; the layout of `mac_policy_ops`
(`sebsd_mac.h`, a declaration) and the pointer signing; the DEBUG test suite of
`sbuf.c`, which only calls what is modelled; `cpusubtype`, which goes with
`cputype`; the allocation and byte-order shims; build files, of which only
`install` and `load` are in BootLoader, not `uninstall`; what happens after an
sbuf has gone outside its buffer. The wedge itself is in the kernel and not
in this code: FuseLadder takes it as a threshold, BootLoader as a hang. FuseLadder has no
re-entry: the hook calls out only to trace, and the ladder does not turn tracing
on. It leaves out the log's first and last line ("ladder start", "ladder
finished"), which name no fuse, and dispatches that a rung leaves in flight are
counted with those of the next armed slot.
Memory ordering beyond interleaving is not modelled: the models are sequentially
consistent, while arm64 may reorder the plain stores to different locations
(slot and mask, for example). *NoFalsePositive* rests on the one location
`owner` and on program order of one thread, which coherence gives; properties
that relate two locations hold for interleavings only.

## Plan

1. Compose FuseLadder with the hook of HookSystem instead of its own summary of
   the fuse.
2. Prove the safety part of *FuseWins*: a re-armed hook whose fuse is positive
   lands at most as many dispatches as the count has to go before it passes the
   fuse, wrapping included.
