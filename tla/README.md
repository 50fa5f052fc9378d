# A formal model of rsproperties

rsproperties is a Rust implementation of Android's system properties: a store in
memory-mapped files that one service writes and any number of processes read
without a lock, and a Unix-socket protocol by which they ask the service to set a
property. This directory holds TLA+ models of it, the TLC configurations that check
them on small instances, and proofs checked by TLAPS.

## 1. The system

| Part | State | Operations | Talks to |
|---|---|---|---|
| **Entry** (`property_info.rs`) | serial word (length, 15-bit counter, dirty bit), 92 value bytes, or an offset to a long value | `init_with_value`, `apply_write` | read lock-free by other processes |
| **Area** (`property_area.rs`) | a mapped file: bump allocator, hybrid trie (children by BST), one dirty backup slot, the area's serial | `add`, `find`, `backup_and_apply_write`; every offset checked by `MemoryMap` | entries; `new_rw` / `new_ro` on the directory |
| **Store** (`system_properties.rs`) | contexts, global serial | `set`, `update`, `add`, `read_with_callback`, `serial`, `wait`, `wait_any` | futexes; node locks |
| **Contexts** (`contexts_serialized.rs`, `context_node.rs`) | one RwLock-protected, lazily mapped area per context; writer's flock | `new`, `acquire_writer_lock`, `property_area[_mut]` | the directory |
| **property_info** (`property_info_parser.rs`, `trie_*`, `property_info_serializer.rs`) | rules; a builder trie; an arena; the serialised trie from name prefix to context and type | parse, build, serialise, look up | read by Contexts |
| **build.prop loader** (`build_property_parser.rs`) | the properties so far, the stack of open files, a count of loads | `load_properties_from_file` with `import` | properties actor |
| **Service** (`rsproperties-service/src/lib.rs`) | two actors, two socket files, the lock | `run`, bind, readiness, stop, `Drop` | all of the above |
| **Configuration** (`lib.rs`, `system_property_set.rs`) | three `OnceLock`s, one mutex, the latched protocol version | `try_init`, `properties_dir`, `socket_dir`, `try_system_properties`, `protocol_version` | any thread |
| **Client of set** (`system_property_set.rs`, `wire.rs`) | one connection per call | `set`: connect, send, receive or drain, each with a deadline | socket service |
| **Socket service** (`socket_service.rs`) | two semaphores, one task per connection | accept, read, ask, answer, time out | client, actor |
| **Properties actor** (`properties_service.rs`) | mailbox, the writable store | start-up (load, write `property_info`, create areas, apply build properties), `handle` | store, directory |

**What is hard.** The readers share no lock with the writer: correctness rests on the
order of a handful of atomic stores and on two fences. The writer may die between any
two of them, and its files, half-written or not, are what the next instance and the
surviving readers meet. Waiters and the writer in one process share an `RwLock` as
well as a futex. Client and service time each other out on different clocks. The
service's two actors start side by side, so clients are there before the build
properties are. A mapped file may be damaged, and each of its offsets has to be
mistrusted. The index of contexts is written by one algorithm and searched by another
that relies on its order.
`PROJECT.json` lists the hazards, line by line, with the properties that cover them.

**What makes each part correct.** A read gives one whole committed value (entry); a
lookup finds what was added, and a failed add leaves a valid trie (area); no change is
slept through, and no waiter blocks the writer (wait); a running service's files are
its own (directory); a reply is true, everybody gets one or gives up, and no slot is
lost (set); an initialisation applies as a whole and what a caller has been told stays
true (configuration); a lookup gives what the rules say (property_info); a load gives
what the files say, imports written out, and ends (build.prop); a started service
serves, a failed one is gone (service); a read of a damaged file stays inside it
(area).

## 2. Modules

| Module | Models | Run by |
|---|---|---|
| `PropertyStore` | the abstract store: a change, its announcement, a read, each one step | refined by `PropertySeqlock` |
| `PropertySeqlock` | `apply_write`, the backup slot, the global serial; `read_with_callback` | `MCPropertySeqlock` |
| `PropertyWait` | `wait`, `wait_any`, `serial`, `futex_wait` against `update` | itself |
| `PropertyArea` | `add` and `find` on the trie, the allocator | `MCPropertyArea` |
| `MappedArea` | `new_ro`, `MemoryMap`, `find`, `long_property_value`, `read_dirty_backup` on a damaged file | `MCMappedArea` |
| `PropertyInfoTrie` | `parse_from_file`, `PropertyInfoEntry::parse_line`, `TrieBuilder::add_to_trie` | by the next |
| `PropertyInfoArea` | `TrieNodeArena`, `TrieSerializer`, `get_property_info_indexes`; extends `PropertyInfoTrie` | `MCPropertyInfo` |
| `BuildProps` | `load_properties_from_file` | `MCBuildProps` |
| `ServiceLife` | `run`, both `on_start`s, `bind_socket_with_mode`, `Drop`, across restarts | `MCServiceLife` |
| `PropertyDir` | `init_system_properties_sync`, `ContextsSerialized::new`, `new_rw`, `new_ro` | `MCPropertyDir` |
| `RemoteSet` | the abstract set: a request handed over, applied or dropped in one step, a result that is true of it | refined by `SetProperty` |
| `SetProperty` | client, socket service, actor | `MCSetProperty` |
| `GlobalDirs` | process-wide configuration | `MCGlobalDirs` |
| `PropertySeqlockProofs`, `PropertyWaitProofs`, `PropertyAreaProofs`, `MappedAreaProofs`, `PropertyDirProofs`, `SetPropertyProofs`, `ServiceLifeProofs` | theorems about the module each is named after | TLAPS |
| `ConfigurationProofs` | theorems about `GlobalDirs`, `BuildProps`, `PropertyInfoTrie` and `PropertyInfoArea` | TLAPS |

Definitions whose comment begins with "Mutant" belong to no specification; each is an
operator next to it with a bug put in, used to see that a property can fail.

### PropertySeqlock

Every location has two values: `w...` as the writer issued it, and the plain one that
readers see. A Relaxed store changes the first; a `Flush...` action makes it visible
later, bytes in any order. A Release store of a serial becomes visible only when the
value and backup stores issued before it are (`ValuesVisible` in `FlushSerial`), and
`fence(Release)` waits until everything is (`Drained`), which is stronger than the
fence needs to be, but is how the stores that follow it are kept behind the dirty
serial. The actions of the writer are the atomic groups of `backup_and_apply_write`,
`apply_write` and `update`: `StoreBackup`, `StoreDirty`, `StoreValue`, `StoreClean`,
`BumpGlobal`. `Crash` may come between any two of them, and between a store and its
visibility. A reader copies one byte per step (`CopyByte`), from the entry or, if the serial
was dirty, the backup; it then compares serials (`Accept`, `Retry`). The reader's loads
are in program order, as their Acquire ordering and the fence before the second serial
load demand.

The counter wraps at `Period` (2^15 in the code, whose mask leaves out bit 16).
`NotLapped` excludes that a whole period passes during one copy: past that bound a
seqlock promises nothing, and neither does this model.

### PropertyWait

One property, one global serial; a serial is a number whose low bit is the dirty bit.
`Lock` to `WakeGlobal` are the steps of `update`; `Request` asks for the node's write
lock. A waiter in `Local` lives in the writer's process and takes the read lock for a
slice at a time (`LockSlice`); others take theirs uncontended. `FutexWait` is the
kernel's compare-and-sleep. `FutexWake` may fail, which the code logs; `missed`
remembers who slept through such a wake. `FutexWait`, `Interrupt`, `Reload`, `SliceExpires` and
`FutexFails` are the outcomes of `futex_wait`. `update` takes `&mut self`, so within safe Rust
a waiter and the writer of one instance do not overlap; the code documents the
contention (and slices its waits because of it), so it is modelled.

### PropertyArea

A name is a sequence of numbers (segments in the order of `cmp_prop_name`). Memory is
a function of offsets: extent of the object allocated there, its name, its links.
Each Acquire load of `find` and each Release store, allocation and initialisation of
`add` is a step. Reading memory that was never written gives 0, the content of a fresh
file. Each of the three allocations may find the area full (`AddFails`).
`MaxSteps` divides by the size of a node with its name where the code divides by the
bare header: the bound checked here is the smaller, so the stronger claim.
`path`, `under` and `room` are history variables: the name a node stands for, whose child
it is, and the segments whose walk comes by it. No step depends on them.

### MappedArea

The file is a sequence of bytes with the code's layout and shorter fields (a word is two
bytes of 16 values, so `usize` ends at 255 and sums can wrap). `Init` takes any
file of `Files` (`MCMappedArea` damages the image of a sound area); the reader opens it and reads names, one node or entry per
step, and `acc` holds the memory the step touched. `SoundArea` is the layout of a good file, in bytes;
`Trie` names its nodes and the searches that come by each. An Option is the empty set or a
singleton, so the checks chain as the code's `?` does. Nobody writes meanwhile: `PropertyArea` and
`PropertySeqlock` have the concurrent half.

### PropertyInfoTrie, PropertyInfoArea

A name is a sequence of segments, a segment a sequence of numbers (its bytes); a rule line
is a record of what its words say. `ParseLine`, `AddToTrie` and `Serialize` are the three
phases of `build_trie`; serialisation allocates objects in the order the
code does, at offsets rounded as the arena rounds them, and may exceed the arena's limit.
The order in which a hash set yields its elements is chosen anew for each
serialisation. The lookup is a function of the finished words, bisecting where the code
bisects; the reference it is compared with never looks at the trie.

### BuildProps

A file is a sequence of lines by meaning: an assignment, an import (whose path may be a
property's value), one that is ignored, one the reader fails on. `stack` is the recursion
of `load_properties_impl`; each line, each entry and each exit is a step. The reference of
`LoadCorrect` (in `MCBuildProps`, as it is recursive) writes the imports out where they stand.

### ServiceLife

For each process: the task of `run`, the socket actor, the properties actor with its
mailbox. For all of them: the two sockets, their temporary names by pid, the flock, the
store. The socket actor sweeps, then for each socket clears, binds, changes mode
and renames, and fails anywhere on the way; the properties actor loads, locks, adds
build properties one by one. `Die` kills a process at any step. A process in `Hasty` may be started
while another one runs; `clashed` remembers who did.

### PropertyDir

The directory maps a path to an inode or nothing; an inode passes through "created",
"sized" and "ready". An instance writes `property_info` (truncate, then content), loads it,
takes the flock, and for each area in turn unlinks, creates, sizes and initialises,
the serial area last. Areas go by their position in the table, which has holes where an entry
is rejected, as `context_nodes` has `None`s. It may fail or die anywhere, which frees the lock and keeps the files.
`LoadInfo` validates and reads the table in one step (a truncation in the middle is a
SIGBUS, which is `Dies`). A context name is its file name; `Fold` is the ASCII lower case
by which the code rejects aliases.

### SetProperty

A connection has a client end and a task. Every timeout is an action that may fire at
any moment its step is pending; so is the end of the actor. The client that gives up
leaves its message behind, in the socket, in the task or in the mailbox. `fate`
remembers what became of it, and `Effect` is that as `RemoteSet` sees it: pending while the message can
still reach the store, then applied or void. V1 has no reply: the client waits for the close (`Drain`)
and reports success either way, which is what the code does. The actor's `Handle`
covers `set`: length and `ro.` rules, update or add, and a failure that changes nothing.

### GlobalDirs

Threads call the five operations; each lock acquisition, cell read and cell write is a
step, except `protocol_version` (`Version`), which is one, as what it reads only moves one way.

## 3. Runs

| Run | Question | Instance | Result |
|---|---|---|---|
| `seqlock` | does the lock-free read refine an atomic read, and return when the writer died in the middle? | 2 entries, 1 reader, values of 1 and 2 bytes, period 2 | holds |
| `wait` | can a change be slept through? can waiters starve the writer? what is left when FUTEX_WAKE fails? | 2 waiters (one local), 2 updates, 2 slices | holds |
| `wait_dirty_serial` | `wait` returns "the new serial" | 1 waiter | violated |
| `area` | find against add, full areas, writer's death | 4 names on 2 levels, one long value, 20 units of room | holds |
| `mapped_area` | can damage lead a read outside, into a loop, or to a header? is a good file read as written? | an area of 76 bytes, three nodes, a long value; 4 names | holds |
| `dir` | whose files are they, after races and restarts? | 3 instances, 2 tables, 1 reader | holds |
| `dir_loser` | "the loser fails fast before touching anything" | same | violated |
| `property_info` | does the lookup give what the rules say? | files of up to 3 out of 19 lines, 20 names, 2 hash orders | holds |
| `build_props` | is a tree of imports loaded as if it were one text? does it end? | 3 files of up to 2 lines out of 11, one under two names; depth 2, 4 loads | holds |
| `service_life` | what do clients and the next instance meet, whatever fails or dies? | 3 processes, the second perhaps beside the first; 2 build.prop contents, 1 set | holds |
| `set_property` | does a set over the socket refine an atomic one, with true replies, bounded calls and permits conserved? | 1 client, 2 connections, 1 + 1 permits, 5 kinds of request | holds |
| `global_dirs` | is initialisation atomic against lazy defaults? | 3 threads, 3 configurations | holds |

Invariants that belong together are checked, and proved, as one. The first part of each is
the types; the parts a reader of the code cares about are named first, what makes them
inductive after the semicolon.

| Invariant | Parts |
|---|---|
| `WaitInv` | `NoLostWakeup`, `GuardExcludesUpdate`; `SerialsAgree`, `SliceLeft` |
| `AreaInv` | `Disjoint`, `TreeShape`, `AddedReachable`; `Blank`, `NodesPlaced`, `FreeLinks`, `WriterAt`, `FreshAt` |
| `FindCorrect` | the results of find, no cycle reported; `ReaderAt` |
| `ReadInv` | `InBounds`, `CycleMeansDamage`; `SeenInside` |
| `DirInv` | `LiveAreasIntact`, `StaleFilesNeverBlock`, `LockExclusive`; `BuiltInOrder`, `InodesBelong`, `SerialFirstMapped` |
| `ServiceInv` | `LockHeld`, `NeverReachableWide`; `TasksInStep`, `BuildAdded`, `OwnTmp`, `Alone` |
| `SetInv` | `PermitsConserved`, `OneMessage`; `CallsHaveRequest`, `OwnConnection` |
| `InitInv` | `InitAllOrNothing`; `LockOrder`, `CommitPending`, `StoreFromDir` |
| `ImageInv` | `ImageSound`, `TrieIsRules` |
| `LoaderInv` | `VisitedIsStack` |

**Bounds.** Two entries are needed for the backup slot to be shared, and two lengths for
a torn copy to differ from both values; the period of 2 makes the counter wrap in every
behaviour. Readers do not influence each other, so one is enough. Two updates let a
waiter hold a serial from before, between and after them. In `area` the names make a BST with both
sides and a second level, and the room is such that each kind of allocation is the one
that fails in some behaviour. Three instances let a loser and a successor meet the files of a
dead one; the tables hold two contexts, an alias, a reserved name and a malformed name. Two
connections for one client let a call meet the remains of the previous one; with one
permit of each kind both semaphores run out. `mapped_area` overwrites any one word with
each of 0 to 80 and 244 to 255 (every offset inside the file, and those whose sums wrap), any two words
with five values that lead to nodes, between them and past the end, and cuts
the file at every length. Three rules are what it takes for two to compete and a third to be
shadowed; the 19 lines hold every kind of rule, every way to be rejected, and prefixes of
prefixes. Depth 2 and 4 loads let cycles, repeated imports, both limits and an import after a
failed one occur with files of two lines. Three processes let one start over the leftovers of
a dead or failed one whose pid it has, after a clash of the two before it.

**Deadlock** is checked everywhere but where the system really may stop: in `dir` and
`service_life` all processes may have ended, in `mapped_area` the file may be refused, in `build_props`
the last file may be loaded and in `property_info` the rules may have been refused.

**Fairness.**
- `PropertySeqlock`: stores become visible eventually (the hardware's), and a reader
  inside a read goes on. Nothing is asked of the writer.
- `PropertyWait`: a writer inside `update` and a waiter that is awake go on
  (scheduling), and a slice's timeout passes. No fairness for wakes, deadlines of the
  caller, interrupts or new calls. An untimed sleep ends only by a wake.
- `PropertyArea`, `MappedArea`: a find or read that has begun takes its steps.
- `BuildProps`: a running load takes its steps (it is one synchronous call).
- `ServiceLife`: `run` and the actors of a living process are polled. Nobody has to start, stop or
  kill anything or send a set.
- `SetProperty`: each pending call and each accepted task eventually takes one of its
  steps, its timeout among them. Nothing is asked of the accept loop, the actor or the peer, so
  `SetReturns` and `ConnectionsEnd` rest on the code's own deadlines.

### What the violated runs show

1. `wait_dirty_serial`: `wait` compares the raw word and so returns on the dirty store
   that opens an update, with a dirty serial, before the value can be read. `serial()` waits the dirty
   bit out, for the reason its doc gives.
2. `dir_loser`: `init_system_properties_sync` rewrites `property_info` at line 72, before the lock is
   taken inside `new_area` at line 85. The area files of the live instance are
   safe (`LiveAreasIntact`); its `property_info` is not.

### Limits the properties state

- A wake of the global serial that fails is made good only by the next change: `wait(None, ..)`
  is one unsliced `futex_wait`. `AnyWaitReturns` and `NoLostWakeup` except exactly
  the waiters in `missed`; the sliced wait on one property needs no exception. The comment at
  `system_properties.rs:484` ("a missed FUTEX_WAKE only delays waiters") thus holds of the latter.
- `UpMeansServing` is about an instance nobody ran beside. A second instance binds its
  sockets over the first one's names before it finds the flock taken, and its `Drop` then
  unlinks them by name; the comment at `socket_service.rs:592` asks not to do that. The modes,
  the build values and the end of both runs do not depend on it.
- When the second bind or a subscription fails, the sockets made so far stay at their names, refusing connections,
  until a later start replaces them: the `SocketService` whose `Drop` would remove them was never made.
- `OneGeneration` allows a reader one kind of foreign area. A reader goes by the table it loaded, which may be
  an older one, or one that a loser of the lock wrote into `property_info`. If it names a context the running
  instance does not have, the reader maps that instance's serial area, and at the first lookup in that
  context (`context_node.rs:115`) the file a dead instance left there: nothing checks that the two belong together. It then reads values
  that nobody changes any more and waits on a serial that never announces them. The run reaches this case;
  what the property excludes is such an area at a path the running instance has, and one whose maker is alive.
- `WriterGetsLock` checks the comment at `system_properties.rs:704` ("delayed by at most one slice"). In safe
  Rust `update` has the store to itself, so it is a statement about the documented design, not a hazard of the service.
- `UpMeansServing` and `Alone` say that no temporary socket is left. The sweep ignores errors of `read_dir` and of single
  removals; the model's sweep succeeds.
- `LookupCorrect`'s reference states one thing a reader of the rules may not expect: of two
  prefix rules that end inside the same segment only the longer is looked at, even for the field it leaves open.

## 4. Proofs

TLC shows a property on the instance of its run; the theorems show it for every value of
the constants that the module's named `ASSUME`s admit. Those say that markers such as
`None` or `Unset` are no ordinary values, that sizes and limits are positive, and what is
mentioned below.

| Module | Theorem | States |
|---|---|---|
| `PropertySeqlockProofs` | `SeqlockInvariant`, `SeqlockCommitPoint`, `SeqlockAtomicity` | `SeqlockInv`; `CommitPoint`; `Atomicity`, the refinement of `PropertyStore` |
| `PropertyWaitProofs` | `WaitInvariant` | `WaitInv` |
| `PropertyAreaProofs` | `AreaInvariant`, `FindIsCorrect`, `LinksNeverChange`, `AddOkIsPublished` | `AreaInv`, `FindCorrect`, `LinksWriteOnce`, `AddOkMeansPublished` |
| `MappedAreaProofs` | `ReadsStayInside`, `ReadsReturnValues`, `SoundFilesRead`, `ReadsProgress` | `ReadInv`, `ValueIsNotMetadata`, `NoFalseAlarm`, `ReadProgress` |
| `PropertyDirProofs` | `DirInvariant`, `ReaderOneGeneration` | `DirInv`, `OneGeneration` |
| `SetPropertyProofs` | `PermitsInvariant`, `RepliesAreTrue`, `ReadOnlyKept`, `SetRefinesRemote` | `SetInv`; `RepliesTrue`; `ReadOnlyWriteOnce`; `SetIsAtomic`, the refinement of `RemoteSet` |
| `ConfigurationProofs` | `InitInvariant`, `DirsKept`, `VersionFromStore` | `InitInv`, `DirsNeverChange`, `StoreVersionWins` |
| | `LoaderInvariant`, `LoadsProgress` | `LoaderInv`, `LoadProgress` |
| | `TrieHoldsRules` | the types, `TrieIsRules`, `FailsOnClashOnly` |
| `ServiceLifeProofs` | `ServiceInvariant`, `ServingWhenUp`, `BuildValueKept`, `SocketNeverMissing` | `ServiceInv`, `UpMeansServing`, `BuildValueWins`, `NoEnoentWindow` |

Each proof module has a lemma per action and the theorems behind them. They are of
`Spec => []Inv`, of `Spec => [][A]_vars` or refinements, and none uses fairness. `ConfigurationProofs`
extends three components that share no variable; their specifications are told apart by a letter (`Spec`, `LSpec`, `ASpec`).
`ReadOnlyWriteOnce`, `LoadProgress` and `ReadProgress` are in no run's list: the first follows from `SetIsAtomic`
(`RemoteSet!Writable`), the others are the variants behind `LoadReturns` and `ReadReturns`.

**Seqlock** (any entries, readers, values, maximal length, any period of at least two).
"No torn result" is not inductive: it needs to know why a copy under
an unchanged serial is intact. `SeqlockInv` says it. For each position of the writer
(`PhaseDirty`, `PhaseValue`, `PhaseClean`, `PhaseDone`) it states which stores can be
in flight and what the slots hold: the backup shadows the entry before the dirty
serial can be seen; no byte of the entry moves until the dirty serial is visible; the
entry is whole before the clean serial is visible; every other entry is `Quiet`. With
that, `CopyIntact` is inductive: as long as the serial a reader loaded is current, each
byte it copied is still the one in its source. The period matters in one place,
`FlushSerial`, where a new serial must differ from every serial a reader holds
(`NotLapped` is part of the specification). The
refinement (`StepRefines`) then goes by actions: every step but `FlushSerial` of a clean
serial (`Change`), `FlushGlobal` (`Announce`) and `Accept` (`Read`) is a stutter.

**Wait** (any waiters, updates, slices). A sleeper's old serial differs from the word; that
the wake is still ahead follows only if the writer's position tells how far the two words
have moved. `SerialsAgree` says it: `serial` is twice `gserial`, plus one or two inside an
update. `GuardExcludesUpdate` needs its arithmetic to know that the serial is clean outside an update.

**Area** (any names, sizes, readers). The hard part is that a walk which ends at a free link
has missed nothing, although another link may be published while it is on its way. `room`
is the interval of segments a node was inserted into, `Gap` what one of its links takes of it;
`FreeLinks` says that the gaps of one BST's free links are disjoint and hold no segment that is already a node.
Publishing a node splits the gap it fills, and a walk for a segment stays within nodes whose room
holds it (`ReaderAt`, `WriterAt`), so if the name was added it is met. A link leads to a
higher offset (bump allocation), at least a node further, which bounds the steps of a walk by
`MaxSteps`: neither find nor add can report a cycle on an area this writer built. `FreshAt` is the ownership of an object
between its allocation and its link. Sizes need only be positive.

**Damaged files** (every sequence of bytes no longer than `MaxUsize`). Nothing is assumed of the
content. The proof goes through the `Option` chains of the reader: each accessor that returns
something returns an object inside the mapping (`SeenInside`: a file that is read has its header,
and the offset of a node that was visited was checked). `CycleMeansDamage` is a pigeonhole: more nodes were visited than fit
without overlap into the data. The width of a word and the sizes of the structs are the
model's scaled ones; the base of a byte is arbitrary. `ReadProgress` orders the steps of a read by
segment, stage and nodes counted; every step goes up, and each of the three has a bound.

**Sound files.** `SoundFilesRead` has one hypothesis, that the file the model calls intact satisfies `SoundArea`. It says of the
bytes what `PropertyArea` leaves behind: every node and entry aligned and inside, strings with
their NUL, links to higher offsets, a search that comes by a node comes by the one its comparison leads to, and
one that ends at a free link looks for nothing that was written. Nothing in it mentions the reader's checks; the run evaluates it on its
image (it is the first conjunct of `NoFalseAlarm`). The invariant `SoundInv` says that a read is on
such a way. The bound on a walk is where it needs `CycleMeansDamage`: rising offsets do not overlap, so the walk cannot
be too long.

**Directory** (any instances, tables, readers). `LiveAreasIntact` speaks of an instance that is up;
`BuiltInOrder` says it of the areas built so far, and with `LockExclusive` no other instance is
past the lock meanwhile. `InodesBelong` ties every inode the directory names, or a reader has
open or mapped, to the instance and position that made it or to one that is gone: it is why
a reader that got a running instance's serial area, which is made last, has that instance's file wherever
the instance has one (`SerialFirstMapped`), and why whatever else it maps was left by an instance that is down
(`OneGeneration`): a living maker of an area holds the lock, and the running instance has it.

**Set** (any clients, requests and positive limits; finitely many connections, which the Cardinalities need).
`PermitsConserved` counts the tasks in `Handling` and in the waiting room; each step of a task moves it
into or out of one of these sets together with its permit. `RepliesTrue` rests on `OneMessage`: one message per
connection, and the answer a task holds is the fate of that message. The refinement goes by actions: `Set`
is `Call` (or a `Return` at once, for what it refuses itself), `Connect` is `HandOver`, the actor's `Handle` is `Apply` or `Drop`, a task that gives up, the actor's end (for all that is queued) and
a message nobody reads are `Drop`, and every return of a client is a `Return` whose result is `Truthful`. It rests
on `OwnConnection`: while a call is on a connection no other call is, and no later one takes it up.

**Configuration** (any threads and configurations). `LockOrder` gives the mutex; `CommitPending` says
what a thread between its check and its last store relies on: the cells it will set are
still empty. Lazy defaults take the same lock, which is what makes it inductive.

**Loader** (any files, texts, keys, filters and limits; the assumptions: a budget of at least one load,
the disallowed keys are keys, and the lines are well typed). `VisitedIsStack` is inductive with the types: an import is refused when its file
is in `visited`, which is the stack, so no file is open twice; every exit takes its own entry out.
`LoadProgress` measures each open file by the lines left in it.

**Rules** (any lines, defaults and limits; the assumptions: a name
is a sequence of segments, a line has its words in order). That a
rule is refused only if it repeats another needs to know what is in the trie: `TrieIsRules` says that each
rule taken is in its place with its own values, and whatever a node holds was said by a rule. It is
inductive because `Placed` writes one place, the places of rules that do not clash differ, and the nodes
made on the way (`Walked`) say nothing.

**Service** (any sequence of processes; `BuildsAssumption`: the loader gives each key once, as it returns a map).
`BuildAdded` says what the store holds while the build properties are added, `OwnTmp` that a
temporary socket belongs to the process of its pid (live processes have different pids), `Alone`
what a process nobody runs beside may rely on; `UpMeansServing` is then a consequence.

**What the attempts showed.** An early `StoreVersionWins` compared a result that was not there yet
with a version that was not set. `ServiceLife` let two live processes have one pid, and a
build file give a key twice. `PropertyDir` numbered the areas without the rejected
entries, which the code does not. `ReadInv` did not say that a file which is read has a whole header, without
which the cycle bound of an empty file is not a bound. `FailsOnClashOnly` was false for defaults with a NUL
byte, which `TrieBuilder::new` refuses and the run's constants never have. `SetInv` did not say whose a connection is. All six are mended in the models.

**Checked by TLC only:**
- liveness (`CrashNeverBlocksReaders`, `AnyWaitReturns`, `WriterGetsLock`, `PropWaitReturns`, `SerialReturns`, `FindReturns`, `ReadReturns`,
  `LoadReturns`, `RunEnds`, `SetReturns`, `ConnectionsEnd`): out of the prover's reach;
- of `PropertyInfoArea`, the part `ImageSound` of `ImageInv`, `LookupCorrect` and `Reproducible`: the serialiser
  and the lookup fold and bisect over a trie of any size, and what they compute needs an induction over data; so does
  `LoadCorrect`, whose reference is recursive.

## 5. Not modelled

- The lookup in a *damaged* `property_info` (`ref_from`, `u32_slice_from`, `cstr`): the same
  kind of checks as `MappedArea`'s; `ImageSound` says they cannot fail on what the
  serialiser wrote.
- The syntax of text lines: trimming, comments, where a key ends, quoting. A line is
  what it means. One consequence in `BuildProps`: under a filter the code does not look for `import` and takes the line for an
  assignment if it has a `=` (`import x=y` sets the key `import x`, if the filter wants that); the model's `SkipLine` skips it.
  A file is a finite sequence of lines, so `LoadReturns` says nothing of an import of a FIFO or an endless device. Names are sequences, so the character rules of `validate_property_name` are left out.
- In `SetProperty`: frames this client never sends (unknown command, bad lengths), which end
  like a closed connection; the 100 ms pause after a failed accept, which changes no state.
- Steps joined because nothing can tell them apart: a client task that gets its handler permit gives back its
  place in the waiting room in the same step (`GetPermit`; the code holds both for a moment, in which an
  arriving connection is turned away as it would be just before); the last `rename` and the subscriptions (`Rename`).
- Branches that cannot be taken: the refusal of the first `OnceLock::set` in `try_init` after its own check
  (`InitSetProps` overwrites instead, so `DirsNeverChange` shows that the lock alone protects the cell);
  a string index equal to `NO_INDEX` in `resolve_index`, which takes 2^32 strings.
- The typed API (`get`, `get_or`, `set`: parsing and formatting around the store), errors, examples, benches.
- Endianness and the widths of the serialised structs: sizes are the code's in `PropertyInfoArea`, scaled in
  `MappedArea` and `PropertyArea`.
- Long values are laid out (`PropertyArea`) and read (`MappedArea`); they are never updated.

## 6. State of the plan

Done: the modules above, in the order seqlock, wait, area, directory, set,
configuration, property_info, build.prop, service, damaged areas; the two abstract specifications and
their refinements; every safety property of a run as a theorem, but those listed under
"Checked by TLC only".

What would extend it: the lookup in a damaged `property_info`, by the pattern of `MappedArea`; updates of long
values; a composition of `SetProperty` with `ServiceLife`, whose actor is the same; and, with a prover that does
induction over data, `LookupCorrect` from `TrieIsRules`.
