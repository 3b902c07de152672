# SRC Modula-3: a TLA+ verification development

This directory holds TLA+ models of parts of SRC Modula-3, the TLC
configurations that check them on small instances, and theorems about them that
TLAPS proves for all values of the constants. Paths below are relative to the
repository's `src/`.

* `tlc -config X.cfg Module` repeats a run; `PROJECT.json` names the module and
  the cfg of each.
* `tlapm M.tla` checks the proofs of a module M: `ThreadPosix_proofs`, `ThreadRefinement_proofs`,
  `ThreadWin32_proofs`, `ThreadWin32Refinement_proofs`, `Stable_proofs`, `StableLog_proofs`,
  `SmallDB_proofs` and `NetObjRT_proofs`. `PROJECT.json`, "theorems", lists what they establish.
* `PROJECT.json`, "map", gives for each definition the lines of the code it
  stands for. An operator whose comment begins with "Fault" is not the code: it
  is a plausible bug, put in the place of the definition below it to see that a
  property notices.

## 1. The system

SRC Modula-3 is a compiler and a set of libraries, most of them in `m3/`. The
parts with a logic of their own, and what makes each right:

| Part | State | Operations | How it meets the others | Hard behaviour | What makes it right |
|---|---|---|---|---|---|
| POSIX threads, `m3core/src/thread/POSIX` | ring of threads, `T.state`, `alertable`, `alertPending`, waiting lists of mutexes and conditions, `Mutex.holder`, `RT0u.inCritical` | `Fork`, `Join`, `Wait`, `Signal`, `Broadcast`, `Alert`, `LOCK`, `Pause`, `IOWait`, the handler of `SIGVTALRM`, `InternalYield` | called by all other parts; the collector suspends threads through `SuspendOthers`; `select` waits for all threads | preemption between any two critical sections, alerts that race signals, a ring that changes while it is walked | mutual exclusion, no lost wakeup, each thread in the right list, a fair scheduler, a true verdict "Deadlock !" |
| Win32 threads, `m3core/src/thread/WIN32` | a critical section per mutex and a cache of them, lists of waiters, a semaphore per thread, idle threads, slots; the critical section `cm` and the mutex `threadMu` | the same interface | the same; the collector frees the critical sections of dead mutexes and locks `threadMu` to suspend threads | kernel threads in parallel; alerts and timeouts that race a wakeup; a thread reborn under another name, with the condition of the old one | the same; the library never fails by itself, no join is lost |
| Runtime: collector, allocator, weak references, `m3core/src/runtime` | pages, spaces, generations, weak-reference tables | allocation, incremental collection, page faults, cleanup | runs with the other threads suspended; cleanup procedures run in a thread and call the network objects | a collection interrupted by the mutator, objects that are revived | nothing reachable is moved without its references, or freed |
| Stable objects, `stable`, `stablegen` | object in memory; files `checkpoint`, `old`, `new`, `dummy`, `log`; the log writer and its buffer | `init`, update methods, `checkpoint`, `flushLog`, `freeLog`, `dispose`, recovery | generated methods write the log through `StableLog`; `StableRep` calls the `LogManager`; both use `Rd`/`Wr` and `FS` | a crash between any two calls of the file system, also in a recovery; failing calls; torn records | no flushed update is lost, none is applied twice, recovery always finds a state |
| `smalldb` | snapshot, log and version files | `New`, `Recover`, `Update`, `Snapshot` | `Pickle`, `FS` | as above, and padding of log entries at page ends | as above |
| Network objects runtime, `netobj/src/netobjrt` | tables of surrogates and concrete objects, dirty sets, pin counts, event numbers, cleaner queues | marshalling, `Dirty`, `Clean`, location death | the collector's weak references start clean calls; transports carry the calls | calls that are lost, repeated, delayed; a surrogate revived while its cleanup runs | an object that a client can reach stays in the owner's table; one that no client can reach leaves it |
| TCP transport, `netobj/src/tcpnetobj`, `tcp` | connection pools, locations, pings | connect, accept, free, ping, report of dead locations | used by the runtime | timeouts against late answers, pools at their limit | a dead location is reported once and never a live one |
| Readers and writers, `libm3/src/rw` | buffer `lo`, `cur`, `hi`, lock | `Rd`, `Wr` and their classes | used by everything | buffer boundaries, close during use | what is read is what was written |
| Containers, formatting, pickles, processes, `libm3` | tables, sequences, priority queues | generics and pure functions | | boundaries of circular buffers | reference definitions |
| Packages, `pkgobj`, `pkgsrv`, `pkgtool` | package versions and replicas | put, get, deferred replication | network objects | partial replication | a package is all or nothing |
| User interface and applications, `ui`, `vbtkit`, `formsvbt`, `zeus`, `obliq*`, `http`, `webcard` | windows, locks | events, painting | threads and `Rd`/`Wr` | lock order | |
| Compiler and tools, `m3front`, `m3middle`, `m3linker`, `quake`, `m3build` | abstract syntax | translation | | | sequential translation of unbounded inputs |

Modelled so far: the threads, POSIX and Win32, the stable objects, `smalldb`, and the
runtime of network objects. POSIX threads and stable objects were taken first because all else runs on
the one, and because the other states its promise ("without loosing anything
that was flushed to the log", `m3/stable/test/src/Main.m3:87`) and tests it at a dozen
hand-made crash points. `smalldb` keeps the same kind of promise by other means. The
runtime is the repository's one distributed algorithm, and no test loses,
delays or repeats its calls.
`PROJECT.json` lists the other parts with the reason each is left out, and the
hazards that are known of them.

## 2. Modules

    ThreadSpec        what Thread.lm3 promises
      ^ implemented by
    ThreadRefinement -- extends --> ThreadPosix <-- extends -- ThreadPosix_proofs
      ^                                                          ^
      +--------------- extended by ThreadRefinement_proofs ------+
    and by ThreadWin32 <-- extends -- ThreadWin32_proofs
                                        ^ extended by ThreadWin32Refinement_proofs

    StableStore       what Stable.ig promises
      ^ implemented by
    StableRep -- extends --> LogManager             StableLog (the words of a log)
      ^ extended by Stable_proofs                       ^ extended by StableLog_proofs

    Database          what SmallDB.i3 promises        RemoteObject   what network objects promise
      ^ implemented by                                  ^ implemented by
    SmallDB <-- extends -- SmallDB_proofs             NetObjRT <-- extends -- NetObjRT_proofs

`MCThreadPosix`, `MCThreadRefinement`, `MCThreadWin32`, `MCStableLog` and `MCNetObjRT` add what only TLC
needs: the symmetry of the forked threads, the parameters that look like marks,
and who sends references to whom.

### 2.1 ThreadPosix: `m3core/src/thread/POSIX/ThreadPosix.m3`

One kernel thread runs all of them. Two mechanisms give up the processor: a call
of `InternalYield`, and the handler of the virtual timer, which calls it too,
unless `RT0u.inCritical > 0` (or no other thread exists, or the program runs with
`nopreemption`). The library brackets its work with `INC(RT0u.inCritical)` and
`DEC(RT0u.inCritical)`. One such critical section is therefore one action, and
every place between two of them, where the handler can strike, is a value of
`pc`:

| `pc` | the thread is |
|---|---|
| `run` | in client code |
| `fork`, `forkYield` | in `Fork`, before the critical section that links the new thread; in the `Yield` of every `ForkYieldRatio`-th call |
| `lock`, `lockYield` | in `LockMutex`, at its `LOOP`; in the `InternalYield` there |
| `alertWait`, `enter`, `waitYield` | in `AlertWait` after it has set `alertable`; in `XWait`'s `TRY`, before its critical section; in its `InternalYield` |
| `join`, `joinYield`, `io`, `pauseYield`, `ioYield`, `dieYield`, `yield` | likewise in `XJoin`, `XIOWait`, `XPause`, at the end of `RunThread`, in `Yield` |

`InternalYield` is not one step: the model walks the ring of threads one thread
at a time (`VisitAlertedWaiter`, `VisitReady`, `VisitBlocked`, `VisitGone`), with
the procedure's locals in `scan`, and then leaves the loop through `Transfer`,
`Rescan`, `Select` or `Deadlock`, as the code does. `ring` is the circular list
written from the thread after `from` to `from`; removing the thread the walk
began with moves `from` to its predecessor. `Transfer` includes what the code
does after the switch, in the thread it switches to: it clears `alertable`,
raises `Alerted` if that was due, and goes on at the caller. An `Alerted` raised
in `XWait` goes through its `FINALLY`, which locks the mutex again; one raised in
a procedure that does not list it ends the program (`fatal = "unhandled"`).

Abstractions. Times are reduced to `due`: that the time of a pausing thread has
passed or that the descriptor of a blocking one has an answer; so the timeouts of
`XIOWait` and an interrupted `select` look like answers, and `waitResult` is left
out. Stacks, floating-point state and the perf and debugging hooks are left out.
`held` is `LL` of the interface's specification: it is the client's view of what it
has locked, and the clients in the model obey the interface's REQUIRES clauses.
They lock no mutex they hold, unlock and wait only with one they hold, and a
thread ends with none. A thread that `Fork` makes starts without the alert
processing that follows a switch, as the code's own first switch does. The
`SleazyRelease` error of `UnlockMutex` has no action: given those clients,
`LockedByHolder`, proved below, excludes it.

### 2.2 ThreadSpec and ThreadRefinement: `m3core/src/thread/Common/Thread.lm3`

`ThreadSpec` is the Larch specification that the repository has beside the
interface: `Wait` is `Enqueue; Resume`, and `AlertWait` is `Enqueue;
ChooseOutcome; Resume`, with atomic actions of other threads in between.
`ThreadRefinement` maps the program's state to it: `c.waiting` is the set of the
list, a thread's phase follows from `pc` and from the exception under way. The
choice of the outcome happens when `InternalYield` takes an alerted waiter out of
its list, or, for a thread that was signalled, when it is switched to. That the
second of these is a step at all is a disagreement with `Thread.lm3` (section 5);
`ThreadSpec!Spec` allows it and `ThreadSpec!LarchSpec` does not.

### 2.3 LogManager, StableRep, StableStore: `stable/src`, `stablegen/src`

`LogManager` is the directory of the default log manager with one operator per
call of the file system; `StableRep` is the object's life around it: `init` with
`Recover`, the update methods as `stablegen` writes them, `Checkpoint`,
`FlushLog`, `FreeLog`, `Dispose`. Each call of the file system is a step, and `pc` is
the point reached. The points that the code names with
`CrashPoint` have its numbers (`101` to `105`, `403`, `501` to `503`); the model also
stops at those in between, which no test reaches. An object is the sequence of
updates applied to it, each a number of its own, so lost, repeated and reordered
updates all show. `buf` is the writer's buffer in memory, `log` what a reader of
the file gets to see, `tail` the half record behind it.

The crash model: the program ends, the machine and its file system do not.
So calls of the file system take effect in their order, each atomically, and only
buffered output is lost. A torn record appears when a record is longer than the
writer's buffer (`Spills`). `OSError.E` in the calls of a checkpoint is
`FailCheckpoint`. A failing write of the log halts the program in the generated
code and needs no action of its own.

The constants `CrashPoints`, `BootCrashPoints` (those while `dummy` exists, that is in
the first checkpoint and in the disposal after it) and `FailurePoints` say where
the program may end or fail. They are there because the code does not survive
everything: `Sound`, in `StableRep`, lists the switches under which it keeps its
promise, and section 5 what happens without them.

`StableStore` is the abstract specification: an object in memory, a stable state,
and what the client was promised. Updates, flushes, saves, disposal, crash and
recovery are each one atomic step. `ImplementsStore` says that `StableRep` is this
store under the mapping at its end. A checkpoint takes effect with the rename that
commits it; the partly flushed log is the store's `Spill`.

### 2.4 StableLog: `stable/src/StableLog.m3`

The words of a log, as `OutCall`, the parameters and `OutCallEndMark` write them and as
the generated `ReplayLog` reads them back. Nothing delimits a record but its
marks; a reader takes as many words as the method it finds has parameters. `pc` is `replay`
between a crash and the end of `ReplayLog`'s `LOOP`, of which `ReplayCall` is a turn, and
`pos` is where it reads; a recovery may crash, too. What `emptyLog` says of the log
decides whether the recovery ends with a checkpoint; it looks at the directory, so `EmptyLogAnswers` leaves it
open. Two history variables: `flushed` is how many calls were complete when the buffer was last
empty, `torn` that a program has appended to a log it could not read to its end. This
module is what justifies `StableRep`'s abstraction "the readable records": until then
a replay makes the completed calls, in their order, all that were flushed and none
besides, whatever the parameters and wherever the file breaks off.

### 2.5 SmallDB and Database: `smalldb/src/SmallDB.m3`

`pc` names the next operation on a file; each of them is a step, and creating a file
and filling it are two. `New` goes through `getVersion` (a new version file that a crash
left is committed, or deleted), `getOldVersion` and, for a directory that is new,
`create`, which is a `Snapshot` of the client's new value; then `recover` reads the
snapshot and the log, cuts the log behind the last complete record and opens it.
`CommitToNewVersion` is one action that both `GetVersion` and `Snapshot` reach;
`caller` says where it returns to. `Update` is `LogUpdate`, `SyncContents`, `WriteLength` and
`Finish`. A record is in the log from `LogUpdate` on, its length (`len`) from `WriteLength`
on.

Two crash models. `Crash` ends the program: the kernel's files stay (`cached`).
`MachineCrash` keeps what is on the disk: closed files and the directory, and of an
open log the *pages* that were synced, or that the kernel wrote when it liked
(`Writeback`). A record whose pages are not all there is found with its length and
without its contents (`Garbage`), which is what the first sync of `Update` is to
prevent. A page is the set of the records that have a part on it, and what is found on the disk is
put in the order of positions (`InOrder`), as a reader comes to it. Positions are bytes, on pages
that are small: `PageSize` and `IntBytes` stand for 512 and 4.

`Wr.Seek` of a file writer empties its buffer (`m3/libm3/src/rw/Common/FileWr.m3:81-94`), so the record of an unforced
update, too, is with the kernel when `Update` returns - although `SmallDB.i3:62-63` says that it
is buffered until the buffer is full. The zeros that fill the page behind it come after the last
`Seek` and stay in the buffer, until the next update, a forced one's `Flush`, or the end of the log's
writer (`Close`, `OpenLog`). So `index`, where the writer is, and `length`, how far the
file goes, differ by this padding (`Flushed` makes them equal), and `stable` is the length that a
machine that crashed finds; the kernel may bring it up to date when it likes (`WriteSize`). A `Seek`
forwards goes no further than the end of the file (`FileWr.m3:88`). In `Recover`, `pos` is where the *reader* takes the
log to end, `seek` where the writer comes to, and `Place` the filling of the page, which depends on
`pos`; section 5 says what comes of it without padding. `Pad` is the parameter of
`New`: it is `TRUE` unless a client says otherwise, and none in the repository does
(`pkgsrv/src/PackageDB.m3:392`, `BoardServerX.m3:40` and `:69`).

`Raise` is an operation that fails. A client goes on after one that fails in `Update` or
`Snapshot`; `GetVersion` takes a version file that it fails to open or read for one that is not there; any other
ends `New`. One failure is left out: `GetVersion` goes on when it cannot *delete* a new version
file (`SmallDB.m3:216-220`).

`Database` is a value, changed by updates, and the part of it that cannot be lost.
`ImplementsDatabase` maps the files to it: a restart finds every update completely and with
all before it, or not; a snapshot takes effect with the commit of its version.

### 2.6 NetObjRT and RemoteObject: `netobj/src/netobjrt/NetObjRT.m3`

The owner of an object keeps it in `objTbl`, under its wire representation (`wire`), while
`pinCount` is not zero. A client that unmarshals a reference makes a dirty call before it has its
surrogate; when its collector finds the surrogate unreachable, the cleanup
queues an element for a cleaner thread, which makes clean calls with batches of
them. Each has an event number, and the owner's entry for the client
(`listed`, `exports`: the `DirtyElem` of `loc.exports`) remembers the last one.

| Model | Code |
|---|---|
| `InsertAndPin`, `SendSurrogate`, `Unpin` | `OutObject` and the pin, or the connection's `objStack`, until `EndCall` or the answer's acknowledgement in `ServiceCall` |
| `FindSurrogate`, `FindWait`, `FindCreate` | `Find` up to its dirty call; each is one `LOCK mu` |
| `FindReturns`, `FindRaises` | its `FINALLY`, with the `Broadcast` |
| `AgentDirty`, `AgentClean`, `DeadLocation` | the owner's procedures, each one `LOCK mu` |
| `Drop` | the collector: `WeakRef.ToRef` gives `NIL` from now on |
| `CleanupSrgt`, `CleanupStale` | the cleanup of a weak reference, and its early returns |
| `CleanerTake`, `CleanerReturns`, `CleanerFails`, `CleanerExit` | `CleanerApply` |

Each dirty or clean call is in the set `dirties` or `cleans` until it is carried
out or lost; sets have no order, so calls overtake each other. A caller may give up a
call (`FindRaises`, `CleanerFails`) that is carried out later, or never (`LoseDirty`,
`LoseClean`), or that has been carried out and whose answer is lost (`granted`,
`answered`); a clean call is then made again while the first is still under way.
The transport may take a live client for dead. `queue` holds the elements
a cleaner can see: one that is linked behind an element the cleaner has taken
is not seen (section 5), and the model drops it. `void` and `lost` are history: the surrogates
of clients taken for dead, and for each name the last cleaning of which the owner has
no trace.

The model has one owner with one object. Objects share nothing but the batches
of a clean call, and the two wire representations an object has one after the other
(`MaxWires`) meet in batches as two objects would.

`RemoteObject` says what this is for: users join and leave, the object has a name as long as
there is one, and a name does not come back. `ImplementsRemoteObject` maps to its users the
surrogates of clients not taken for dead, and the owner's marshallings under way.

### 2.7 ThreadWin32: `m3core/src/thread/WIN32/ThreadWin32.m3`

Threads of the kernel, in parallel. The library has two locks. `cm` is held for
short stretches that never block, so what is done under it is one action.
`threadMu` is a `Mutex` like those of the clients, taken by the same `LockMutex`: that
is a step of its own, and so is what is done under it up to its release, or to the wait
in `Join`.

| `pc` | the thread is |
|---|---|
| `none`, `made`, `promised` | not there yet; made by `CreateT`; a `next_self` that is not yet idle |
| `run` | in client code |
| `alloc`, `new`, `enter` | in `LockMutex`, at `AllocCSect`; in its `NEW`, outside `cm`; at `EnterCriticalSection`. `call.ret` is where it goes from there |
| `unlock`, `sema`, `waited`, `return`, `raise` | in `InnerWait`, out of `cm`; at its semaphore; in `AlertWait` with the mutex locked again; past the second `InnerTestAlert`, with its outcome |
| `pausing`, `paused`, `pause` | in the timed wait of `AlertPause`; behind it; at the loop's next turn |
| `fork`, `create`, `forkNew`, `rouse` | in `Fork`, with `threadMu`; in `CreateT`, without; with `threadMu` again; at its end |
| `start`, `newSelf`, `finish`, `bcast`, `idle`, `exit`, `gone` | in `ThreadMain`, in this order |
| `join`, `finally`, `collect` | in `Join` or `AlertJoin` with `threadMu`; in the latter's `FINALLY`; in `SuspendOthers` with `threadMu` |

A thread is named by its `T`. A kernel thread whose `T` has finished goes on as another
`T`, with its semaphore and condition: `waitSema` and `cond` name these by the `T` they were
made for. Slots are never given back by a `T` that another replaced (section 5).

Abstractions. `EnterCriticalSection` and the test of `held` behind it are one step, as are
`UnlockMutex`'s two. A finished thread reads `nIdle` without a lock: whether it finds the list
of idle threads full is left open. `ThreadBase`'s look at its slot is merged into `Start`. A
collection is one step from `SuspendOthers` on, since nobody else runs; it frees the critical
section of any mutex that nobody uses, and a mutex that dies is replaced by a new one of the same
name. Any `NEW` may collect; `heap` is the allocator's lock. The client obeys the
interface's REQUIRES clauses, joins a thread once and alerts none that has completed.

`ImplementsThread` is the refinement of 2.2 again, from a program that has nothing in
common with the other. `Cond` of `ThreadSpec` is here the clients' conditions and those of
`Join`, its mutexes include `threadMu`. An alerted thread counts as waiting until its second
`InnerTestAlert`, which chooses the outcome; `signalled`, a history variable, tells it from one
that was signalled. A mutex locked again in `AlertWait` counts as held when that returns. The
outcome may be `Alerted` although a signal came first, as with the POSIX threads.

## 3. Runs

Twelve runs, eleven that pass and one that shows a disagreement (section 5).

| Run | Instance | Question |
|---|---|---|
| `t_two` | 2 threads, 1 mutex, 1 condition, all procedures, preemption, a `Fork` that yields | types; each thread in the right list and in the ring; "Deadlock !" only when it is true; nobody runs during `SuspendOthers`; waiters are woken only for a cause; both outcomes of `AlertWait` return with the mutex locked |
| `t_refine` | 3 threads on one mutex and one condition, alertable waits, signals, broadcasts and alerts | mutual exclusion, no unlock without an effect, the library implements `ThreadSpec` |
| `t_turns` | 3 threads that fork, yield, end and lock, with fairness | each thread that can run does run |
| `t_live` | 2 threads with joins, alerts, pauses, I/O, with fairness | alerted waits end, joins of ended threads return, pauses end |
| `w_thread` | Win32: the main program and two threads, one of which may be a reborn one; 1 mutex, 1 condition, collections, a cache for 1 critical section | types; the library never ends the program; no join is lost; implements `ThreadSpec` |
| `s_store` | `forceToDisk`, 3 updates, 4 crashes, 1 failed checkpoint | no promise broken, nothing replayed twice, implements `StableStore` |
| `s_lazy` | a lazy log, records that spill, 3 updates, 3 crashes, 1 failure | the same for what was flushed; init is never refused |
| `l_replay` | two methods, with 2 and 0 parameters; parameters that equal marks; 3 calls | a replay is faithful and complete, also if it is interrupted, and if the program goes on with the log |
| `d_store` | a padded log; pages of 4 bytes, lengths of 2, updates of 1 and of 4, forced or not; 3 versions, 2 crashes of the program or the machine, 1 failure | no promise broken; the version a restart chooses is complete; implements `Database` |
| `n_gc` | the owner sends to `a`, `a` to `b`; `a` may make its surrogate twice; `b` may crash, one client may be taken for dead, one call may be given up; 2 names | pins are counted; a surrogate has its object; a dirty entry has its reason; implements `RemoteObject` |
| `n_live` | as well, the owner sends to `b`; each client makes one surrogate; `b` may crash, one failure, with fairness | waits in `Find` end; an object that nobody uses leaves the table |
| `n_leak` | as `n_gc`, without a crash or a failure | violation of `NothingLeaks` |

The sizes: `t_two` has 564 thousand distinct states, `n_gc` 732 thousand, `d_store`
913 thousand, `l_replay` 354 thousand, `w_thread` 228 thousand,
`t_live` 109 thousand and `t_turns` 18 thousand and `n_live` 22
thousand (with liveness), `s_store` and `s_lazy` 25 thousand each.

Why the bounds are enough. *Threads*: with three threads there is one that holds, one
that waits and one that interferes (locks in between, signals, alerts); the
ring needs three to have a first, a middle and a last thread that is removed
during a walk. One mutex and one condition suffice for the races; that
lists do not mix for many is proved, not checked. `ForkYieldRatio` is 1 in
`t_two`, where every `Fork` yields, and 5 where none does. The model has no counters that need a bound
but `MaxSuspend`, the nesting of `SuspendOthers`. *Win32*: three `T`s are the main program,
a thread that ends, and the `T` that takes over its kernel thread and is handed out by the next
`Fork`; or two threads that meet at a mutex while the main program alerts, signals and
collects. `MainOps` and `Ops` share the procedures out between the main program and the
two, which are symmetric: the one that forks and joins is not the one that locks and ends. `CSectCacheSize` is
1 (20 in the code), so that the cache is empty, full, and too small. `LastSlot` is the code's first. *Stable objects*:
the directory has 32 states and two crashes suffice to reach each of them with a
log before and after; the third and fourth crash strike recoveries of recoveries. Three
updates give one in the checkpoint, one in the log and one in the buffer. What
is proved about them under `Sound` holds for every bound; the run shows recovery too, and that the
proofs' assumptions are not empty. *Log*: three calls give a torn record, one behind it, and one more; the parameters are
the marks themselves and a value that is neither. *Database*: three versions are the first,
a snapshot, and one after or over it, also over one that failed. The second crash strikes the recovery, or the
commit that the recovery does. An update of 1 fits into a page, one of 4 goes on to the next. Records
are padded, so that two are enough: one in the log that is recovered, and one behind it. Without padding TLC checked `Durable` with `Pad = FALSE`, `MaxCrashes = 0`, `MaxUpdates = 3` and `MaxPages = 2` (297 thousand
states), where a record of 1 leaves 1 byte of its page, in which no length fits, and a record of 4 leaves 2, in which one just does. `RecoverySucceeds` it checked with all
failures (`MaxFailures = 2` and each value of `pc` in `FailurePoints`, updates of 1, 314 thousand states). *Network objects*: `a` is the client that makes a surrogate,
lets it go and makes it again while calls for the first are under way, twice within the events of
`MaxEvent` (3: two dirty calls and a cleaning between); `b` gets a reference that its owner did not
send, so that nothing but `a`'s surrogate keeps the object until `b`'s dirty call is
there. `LastInt32` is 2, so events carry. `MaxFailures` is 1, without a clean call's second
try; a second name shows what a cleaning or a dirty call of the first one does to it.

`CHECK_DEADLOCK` is on for the threads, the stable objects and the database. A program
that ends for a checked error stays in `Halted`, one whose init refuses the files in
`Stuck`. It is off for network objects: when all bounds are used up and nobody has a
reference, nothing is left to happen; and for the Win32 threads, whose clients may all wait
for each other, which nothing in that library reports.

## 4. Fairness

`FairSpec` of `ThreadPosix` assumes:

* `WF(Scheduler)`: a walk of the ring, once begun, goes on. It is a loop without a
  wait but `select`, and that one is enabled in the model only when a thread can
  run or is due.
* `WF(Preempt)`: the first `Fork` arms the timer for good (`ThreadPosix.m3:240`,
  `StartSwitching`); it strikes every 100 ms of processor time (line 181), so client code that never calls the
  library is preempted all the same.
* `SF(LibraryStep(t))`: a thread inside the library that is given the processor again
  and again completes its next critical section. Strong fairness is needed because
  the handler may strike before it each time; what justifies it is that the
  code between two critical sections takes far less than 100 ms.
* `SF(Due(t))` for pausing threads: time passes. Strong, since the clock is
  only looked at between walks.

The liveness properties excuse a program that a checked error has ended (`Aborted`),
but not one that ended with "Deadlock !": that verdict on a thread that was to wake up
violates them.

Client code is under no fairness: it may compute for ever. No fairness is assumed among
lockers of a mutex, and none holds: a thread woken by `UnlockMutex` may find the
mutex taken again each time. Descriptors need never become ready.

`FairSpec` of `NetObjRT` assumes, weakly and for each program, that

* the threads of a program do not stop (`Runs`): `Find` goes on when its dirty call is
  answered, cleanups that the collector has found are done, the cleaner runs;
* the owner carries out the calls of a client (`Served`). That is not fair to each call: a
  call may be overtaken for ever, or lost if its caller gives it up;
* a marshalling ends (`Unpin`), and a reference that arrived is unmarshalled (`Find`);
* the transport finds out about a client that has *crashed* (`DeadLocation`). The pings of
  `TCPNetObj.m3` are to see to that, and are not modelled.

It is not assumed that calls fail, that a live client is taken for dead, or that a
collector ever finds a surrogate unreachable. `Collected` speaks only of states in which
no surrogate is live.

## 5. Where the code and its documentation disagree

The first has a run. For each of those after it the change is given with which `TLC` finds it.

1. `n_leak`. An element that `CleanerEnqueue` queues while the cleaner makes its call with
   the last one it took is linked behind that one (`NetObjRT.m3:426`); `cl.queue` stays
   `NIL`, the cleaner ends, and the clean call is never made. The owner keeps the object for the life
   of the client, although no call failed (`SpecialObj.i3:134-135`).
2. In a log without padding the zeros behind an update that is not forced are in the
   buffer when the program ends, if the record ends so near the page's end that they are needed. The recovery rounds `logByteCnt` up to the page, where the reader is
   (`SmallDB.m3:392-396`); its `Wr.Seek` goes only to the end of the file (line 412), and
   the filling of the page is skipped, because its condition asks about `logByteCnt` (line 414). The next update starts inside the page,
   with a length that crosses the page, and the recovery after that does not find it, although
   it was forced; `SmallDB.i3:24` says "no update is lost". With padding the condition is true and the page is filled. (`D_store.cfg` with `Pad = FALSE`: `Durable`.)
3. One failure of opening or reading `Version_Number` makes `GetVersion` call
   `CreateFirstVersion` (line 235), which makes version 1 anew and empties its log. `SmallDB.i3:117-119` says that `New`
   raises `OSError.E` for a directory that is inaccessible, and makes files in one that has none. (`D_store.cfg` with
   `FailurePoints = {"getOldVersion"}`: `Durable`.)
4. A first checkpoint that crashes after its commit leaves `dummy`; at the
   end of a later checkpoint that file is deleted instead of the backup
   (`LogManager.m3:147`), and the next recovery takes the log for superseded and deletes it.
   `stable/test/src/Main.m3:86-87` says of such crashes: "All these must be recovered without
   loss of data". (`S_store.cfg` with `104` and `105` in `BootCrashPoints`.)
5. `XWait` enters its `TRY` before its critical section
   (`ThreadPosix.m3:323`). A timer handler that strikes there finds the thread alertable, and
   its `InternalYield` may raise `Alerted`: then `FINALLY` locks a mutex that was never
   unlocked, which is the checked error of a second lock. (`T_two.cfg` with the invariant
   `NoReacquire`.)
6. A thread that `Signal` took off the list may still raise `Alerted`
   (`ThreadPosix.m3:970`), if it is alerted before it runs; `Thread.lm3:98-104` makes it return
   normally. The signal is then consumed by a thread that reports an alert. (`T_refine.cfg`
   with the property `ImplementsLarch`.)
7. A log that is appended to behind a torn record may replay a call nobody
   made (`StableLog.m3:52`). It takes what `StableRep.mg:102` means to prevent, a recovery
   without a checkpoint, and `EmptyLog` lets it happen: it asks for the size of the
   directory, not of the log (`LogManager.m3:247`). (`L_replay.cfg` with `IsPrefix(replayed, calls)` for an invariant.)
8. A snapshot that fails after `OpenLogfile` (`SmallDB.m3:263`), say because the disk is full, has
   closed the old log and opened that of a version which is not committed. The
   client that goes on is told that its next updates are on the disk, and no recovery reads
   that log; `SmallDB.i3:24` says "no update is lost". (`D_store.cfg` with
   `FailurePoints = {"newVersion"}`.)
9. `AllocCSect` takes a critical section from the cache without a look at `m.cs`
   (`ThreadWin32.m3:99-101`), as it does look when it had to allocate one (line 106). Two threads that lock a new
   mutex at once both find `m.cs = NIL`; the second overwrites the first one's critical section, enters
   its own, and the mutex is found "already locked by self". `Thread.i3` has `Acquire` wait
   until the mutex is unlocked. (`W_thread.cfg` with `Mutex = {m, n}`: `NeverDies`. With
   `CSectCacheSize = 0` it holds, which section 6.8 proves; line 84 says: "Everything should work OK if
   these are 0".)
10. `ExpandSlots` allocates (line 354) while its caller holds `threadMu`, although the comment of
   `CreateT` (lines 372-374) says why that must not be: a collection that starts there locks `threadMu`
   again. (`W_thread.cfg` with `LastSlot = 2`: `NeverDies`.)

Seen while modelling, in the models' behaviours, but without a run of their own:

* `AlertWait` sets `alertable` outside the critical section (`ThreadPosix.m3:316`).
  A preemption in between clears it (line 971), and the thread waits as if it had
  called `Wait`. This is why `AlertEndsWait` is stated of waits that *are*
  alertable.
* `AlertJoin` of a thread that has ended returns with `alertable` still set
  (line 281), so that the next preemption may raise `Alerted` in client code.
* A second `Join` of a thread returns (line 300), which `Thread.i3:29-30` makes a
  checked runtime error.
* A Win32 thread that ends and goes on as an idle one keeps the slot of its old `T`; only
  `FreeSlot`, at the end of a kernel thread, gives one back. A program that keeps forking reaches
  `ExpandSlots` with few threads, and again with every doubling.
* A checkpoint repeated by the program whose first attempt failed at `open` or later
  makes a `dummy` beside the backup (`LogManager.m3:114-117`); a failure at 104 or
  105 leaves the backup in place while the log goes on. Either may lose updates;
  `FailurePoints` is therefore `{"101"}`.
* A crash in `Recover` between the deletions of the backup and of the log
  (lines 201, 206) leaves a log that the checkpoint includes, and the next recovery
  applies it again. `CrashPoints` leaves out `dropLog`.
* A crash in `Recover` between lines 182 and 187 leaves both `checkpoint` and `new`
  and no backup, which init refuses. `stable/test/src/Main.m3:122-127` says
  that these must be repaired by hand. `s_store` includes this crash and checks that
  the files still hold everything; `s_lazy` leaves it out and checks that init
  then never refuses.
* Updates appended behind a torn record are not found by later recoveries
  (`AppendToLog`), which is why `Sound` asks for a directory of size zero where
  records spill: then `EmptyLog` answers as it was meant to.

* Network objects, leaks: a strong clean call for a location that has no entry is ignored
  (`NetObjRT.m3:823`), so that the dirty call it is to cancel, if it comes later, makes an entry
  that nothing takes away; a cleaner that gives up drops its queue (line 462); so do location
  deaths, which forget events along with entries. `DirtyHasReason` says that there are no other
  ways to leak: either the owner will hear of it, or one of these (`lost`) has happened.
* `SpecialObj.i3:141-142`: a clean call that failed "must be retried with `strong = TRUE`".
  `CleanerApply` repeats it as it was (line 457). With the fault models checked here this does no
  harm to surrogates.
* A client that was taken for dead learns of it when a call raises `MissingObject`, or never;
  its surrogates are in `void` and no property speaks of them. `NetObj.i3:105-109` grants this.
* `smalldb`: an update of length zero, and an update whose `logUpdate` raised, leave a length
  of zero in the log, which the reader takes for its end (`SmallDB.m3:378`): updates forced later are
  lost. A commit that fails at start, after the version file was opened, deletes the new version file
  (line 217) and takes the torn version file for a new database (line 235), as in item 3. An unforced update across
  pages, on a machine that crashes, may be found with its length and without its contents.
  `FailurePoints`, `Sizes` and `WideUnforced` leave these out of `d_store`.
* A `Join` of the main program reads the condition that only `Fork` makes (`ThreadPosix.m3:256`, line 294): the
  program ends (`fatal = "nil"`) with an attempt to dereference `NIL`, where `Thread.i3` has the joiner wait.

## 6. Proofs

All theorems are about `Spec`, without fairness, and hold for every value of the
constants that the named assumptions of the modules allow. Where an inductive invariant is
bigger than the property, it is defined beside the model or at the head of the proofs, and TLC has
checked it on the run's instance before it was proved.

### 6.1 ThreadPosix_proofs

For any sets of threads, mutexes and conditions, with and without preemption, any
subset of the procedures, any `ForkYieldRatio`: `Spec` implies always

* `TypeOK` (`TypeCorrect`);
* `LockedByHolder` (`MutualExclusion`): what clients believe to have locked is what
  `Mutex.holder` says;
* `QueuesMatchStates` (`QueueIntegrity`): each waiting thread is in its one list,
  once, and the others in none;
* `NoLostUnlock` (`UnlocksReachSomebody`);
* `LockingNotAlertable` (`LockersNotAlertable`), which `InternalYield` asserts; no run
  checks it by itself.

All follow from `LockInv` (`Invariance`), which joins them: none is inductive alone.
Mutual exclusion needs to know that a thread at `XWait`'s entry still holds its
mutex (`OperandsOK`). That unlocks reach somebody needs the lists: the last of
`mutexQ[m]` must be a thread whose state is `locking` on `m`, or waking it does
nothing. The lists need to know that a thread which enters one is in no other,
and this follows from the label it is at (`StatesOK`): only a thread inside the
`InternalYield` of `XWait`, `XJoin` or `LockMutex` is in a list. A walk of the scheduler
takes an alerted waiter out of the list its operand names, so `cv` must be that of
the list (`OperandsOK` again). Each part has a lemma (`HolderStep`, `QueuesStep`,
`UnlockStep`, ...) with one step per action.

Assumptions: those declared in `ThreadPosix`. `Nil` is no thread, mutex or
condition; threads and conditions are distinct (a thread names its
`endCondition`); the main thread is a thread; the parameters have their types.

The scheduler, in the second half of the module:

* `RingHasAll` (`RingCorrect`): every thread that can run, or that somebody waits to wake, is in the
  ring exactly once, at each point of a walk, and outside of one `self` is the last. `RingInv`
  adds to `LockInv` that the main thread does not end. A change of state (`StateMoves`) never makes a
  thread leave the set that must be in the ring; the walk removes only the dead (`DropFirst`), and
  `Transfer` turns the ring round (`RotateKeeps`), which is a shuffle of its places.
* `DeadlockIsReal` (`DeadlocksReal`): `InternalYield` ends the program with "Deadlock !" only if
  no thread can run, is due, or has an alert it would take. `WalkOK` says what a half-done
  walk knows: each thread it passed, unless it removed one, waits for something (`Passed`), and
  after a `select` there is one before it where it will stop. The verdict falls at the end of
  a walk that removed nobody, and then this is true of all.
* `SuspendedStay` (`OthersStaySuspended`), `WaitRelocks` (`WaitsRelock`) and `WokenForCause`
  (`WakingHasCause`) are action properties. They follow from `CallInv`: that only a call between its
  unlock and its lock has a mutex for an operand, and that no walk is under way in a critical
  section.

### 6.2 ThreadRefinement_proofs

`ThreadImplemented`: `Spec => ImplementsThread`. The invariant `RefInv` is `LockInv` with what the
refinement mapping needs to know of alerts (`AlertsOK`). Each action is one step of
`ThreadSpec` or a stutter: `LockMutex` is `Acquire` or `Resume`, `UnlockMutex` is `Release`, `XWait` is
`Enqueue`, `Signal` and `Broadcast` are `Signal`, a walk that takes an alerted waiter out of its list
is `ChooseAlert`, `Transfer` is `ChooseSignal`, `ChooseAlert` or `Consume`, `Alert` and `TestAlert` are
themselves, and the rest does not show (`RestHidden`). The hard part is that a step shows nothing
*else*: the phase of every other thread, a function of `pc`, state and the exception under way, must
stay (`Bars...` lemmas, one per mapped variable and frame).

### 6.3 Stable_proofs

For any number of updates, crashes and failures and any crash points:

* `TypeCorrect`: `Spec => []TypeOK`;
* `Durability`: `Sound` implies `Spec => []Durable`. At each point where the program
  may end, what was flushed or saved is a prefix of what the files hold;
* `RecoveryNeverRefuses`: if besides no program ends between the two calls of
  `Recover`'s case (1), `Spec => []RecoverySucceeds`.

`Durable` speaks of what is on disk when the program ends, and is not inductive: it
does not say what a running program will write. `DurInv` adds what the directory
may look like at each point (`FilesOK`, which names six directories), that the log file, its
buffer and its torn tail fit together (`LogOK`, `TornOK`), that the object is the stable state
followed by the buffer (`ValueOK`), and that the promise is a prefix of `Committed`, the stable
state as it is *between* two calls of a recovery or a checkpoint. `CommittedValue`
computes it for each of the six directories, and the step lemmas (`RecoverValue`,
`CheckpointValue`, `FlushValue`, `UpdateValue`, `EndValue`) show that `Committed` changes only
where the promise does. `Sound` is used where it must be: without its first conjunct
`TornStep` fails, without the others `FilesStep` or `EndValue`. `RecoveryNeverRefuses` adds that no
program leaves the one directory of the six that has no backup (`BackupKept`).

* `StoreImplemented`: `Sound` implies `Spec => ImplementsStore`. `CommitNew`, `FreeLog` and
  `FlushLog` are the store's `Save` or flush, `EndUpdate` and `PlainUpdate` its `Update`, the write that
  makes a full buffer empty itself its `Spill`, `ReadAndReplay` its `Recover`, the first deletion of
  `Dispose` its `Dispose`; crashes and failed inits are its `Crash`, all else is a stutter. It
  uses `DurInv`, by which the mapped state does not change where nothing shows.
* `UpdatesOnce`: `Sound` implies `Spec => []ReplayedOnce`. Updates are numbered in their order; the
  object in memory, and what the files hold, are increasing (`OrderedPrefix`, `OrderedAppend`).

`Sound` is no assumption on the environment but a statement of the limits of
the code: each conjunct excludes one behaviour of section 5, whose fourth item shows
that the promise fails without the last one.

### 6.4 StableLog_proofs

For any methods with any numbers of parameters, any values of them, any number of calls,
crashes and recoveries, and whatever `emptyLog` says:

* `LogTypeCorrect`: what is called, and what is replayed, are calls of an update method with as
  many parameters as it has;
* `ReplaysOnlyCalls`: `Spec => []ReplayFaithful`;
* `ReplaysAllFlushed`: `Spec => []ReplayComplete`;
* `CheckpointsMend`: if `emptyLog` calls no log empty, no log is ever torn, so that the condition
  of the two before it is true.

`LogInv` says that there are words `s[1]`, `s[2]`, ... of the log at which the records of `calls` start, each where the
one before it ends (`Starts`), with each record there as far as the file goes (`RecordAt`); that what is
behind them is the start of the record of the call in progress (`TailOK`), or, in a
recovery, no whole record (`NothingBehind`); and that the reader is at `s[k]` and has made the `k - 1` calls before it.
The reader finds its way by the arity of the method it reads, so that parameters may equal
marks: `GoodReads` says that from a place where a record starts it takes this record and ends behind it. A crash cuts the
words off anywhere (`PrefixRecord`); a flush loses none and reorders none (`FlushLemma`). The positions are a function
whose existence the invariant asserts, increasing by definition, which takes the place of an induction over the log.

### 6.5 SmallDB_proofs

For any sizes of pages, lengths and updates, and any number of versions, updates,
crashes and failures; the first two also for logs without padding:

* `TypeCorrect`: `Spec => []TypeOK`, padding and failures as they may be;
* `RecoveryCorrect`: `Spec => []RecoverySucceeds`, with failures at any step, also those of
  section 5. `FilesInv` says, for each `pc`, what the two version files may name and that what they
  name can be used; what `Snapshot` writes and deletes is none of it, because versions only
  grow;
* `DurableCorrect`: `Promising` implies `Spec => []Durable`. `Promising` is again a statement of the
  limits of the code: the log is padded, or no program ends without closing it (section 5, item 2); no
  update has length zero; and an operation fails only where the program does not go on with a version that it has not
  committed, and no version file is taken for absent (section 5, items 3 and 8, and the item on `smalldb` in the list behind them).

`Durable` says what a machine that stopped *now* would find, so the invariant has to say which part
of the disk nothing can take away. `Settled(s, d, k)`: the first `k` records of the kernel's log `s` are
complete, all their pages are on the disk `d`, and no other record on the disk starts before
their end. `SettledStays` is the heart of it: this survives every step that replaces pages by the
kernel's, or cuts records off behind; and `SettledFound`: a machine that starts anew finds these
records first, in their order (`OnDiskFacts`, `Ranks`: the rank of a record is the number of those before
it, so that no induction is needed). `SafeInv` says that what was promised is in the snapshot of
the version a restart would choose and the settled records of its log (`Kept`); `WriterInv` relates the
open log, the writer's index and the client's value at each point of `Update`; `VersionInv` says
when the open log is that version's. `TailInv` is what the first part of `Promising` is
for. With padding `Recover` fills the page from wherever its `Seek` came to (`Placed`), and there is nothing to say. Without,
it says that, unless the log is open, the file of the version a restart would choose has its padding (`Padded`), because
the program closed it; then `Seek` comes to where the reader stopped. That the reader finds all of the records uses that the writer and
the reader align positions alike, which is arithmetic on pages (`AlignsAgree`, `StopsBehind`).
`LogsInv`, on which all rests, says that records do not overlap, in the kernel's files and on each page.

### 6.6 SmallDB_proofs: the refinement

The last part of the module. `DatabaseImplemented`: `Promising` and `~WideUnforced` imply `Spec => ImplementsDatabase`. The second
hypothesis is the last limit of `smalldb` in section 5: an update that is not forced stays on one
page. `Durable` speaks of what was promised only; here *all* that a restart finds must be a prefix
of what the client did. The inductive invariant `FoundInv` adds two parts to those of 6.5, and TLC checked
it on the instance of `d_store` (912744 states).

* `DiskInv` (`Trusted`): the records of a log do not overlap, with the gaps that the reader skips;
  a record that has its length has the pages it goes on to on the disk, which is what the `Sync`
  between contents and length is for; and every record on the disk is one of the log, and has its length
  there only if it has it in the log. So a machine that starts anew reads the log's own records as
  far as it reads (`ReadsAlike`, `FoundFirst`: the records read lie back to back, so that the
  `k`th found is the `k`th written; a set takes the place of the induction), and each with its contents.
* `ValueInv`: from the moment the new log is open until the new version file is complete, the version a
  restart would choose, now closed, still has what the client has; and version 1 is made where there is nothing.

`OpenKernel` is what they give: whenever a client is served or a version made, the files hold exactly
the client's value, and one update more between the writing of its length and the return of `Update`.
With it each action is one step of `Database` or a stutter (`Map...`): `Recover` is
`Recover`, `Finish` is `Update`, `DropLog` is `Snapshot`; `Close` and `Crash` are
`Crash`; `MachineCrash` is `Crash`, or `Lose` when no program runs; and the commit of a version, which
replaces snapshot, log and version file in eight steps, does not show.

### 6.7 NetObjRT_proofs

For any number of clients, references, names, events, crashes and lost calls (`ClientAssumption` and
`BoundAssumption` only say that the parameters have their types and that clients are finitely many):

* `HoldInvariant` proves the inductive `HoldInv`, and from it follow `TypeOK` (`TypeCorrect`), `PinsCounted`
  (`PinsCorrect`), `NeverDies` (`EntriesCorrect`) and `SurrogatesHold` (`SurrogatesSafe`). `LatestOK` is
  what a race of clean and dirty calls comes down to: of all that a program has said, or has still to
  say, of a name whose surrogate it has, the surrogate's dirty call is the latest; `EventsOK` bounds it
  all by the program's counter, so that a *new* event is later than any. Events are compared by
  their two words, as in the code (`EventOrder`, `NextEvent`). That pins are counted is about the cardinality
  of the set of dirty clients and marshallings, and changes by one with each step that adds or
  removes one (`PinSets`, `Recount`).
* `RemoteImplemented`: `Spec => ImplementsRemoteObject`. A grant and `InsertAndPin` are a user's `Join`;
  `Unpin`, an unmarshalling that fails, a dropped surrogate, a crash and a report as dead are a `Leave`; the
  cleaning after which nobody counts on the object is `Withdraw`.
* `ReasonsCorrect`: `Spec => []DirtyHasReason`. `LeakInv` adds to `HoldInv` that each queue and batch is in
  the order of its events (`QueuesOrdered`), and that a dirty call under way without a surrogate will be
  outdone by a later cleaning, or one was lost (`DirtiesOutdone`).

### 6.8 ThreadWin32_proofs

For any threads, mutexes, conditions and bounds, of which the module assumes no more than that
threads and mutexes are finitely many and names are distinct; also where items 9 and 10 of section 5
end the program:

* `TypeCorrect`: `Spec => []TypeOK`.
* `SemaphoresNeverChoke`: of the errors that end the program only "already locked by self" can
  happen. No semaphore is released that has its count, however a signal, an alert and a timeout
  race; nobody enters a second list; no thread starts before it has its slot.
* `JoinersCorrect`: `Spec => []JoinersWoken`.

And where they do not:

* `NeverFails`: `CacheSafe` and `SlotsSafe` imply `Spec => []NeverDies`. `SlotsSafe` says that the slots are
  enough for the threads, `CacheSafe` that the cache is off (`CSectCacheSize = 0`, which the comment of line 84
  allows) or that only one mutex takes from it; either is also true of a program that never collects.
  So items 9 and 10 are all that can go wrong: any number of mutexes is safe without the cache.

`InvariantHolds` proves the inductive `WaitInv` they rest on. Its parts: `RolesOK`, that a `T` that is born, handed
out by `Fork` or to succeed another has one thread that sees to it, and `IdleOK`, that no `T` in the list of
idle threads has been handed out; so (`SemasOwn`) a semaphore belongs to one live `T`, apart from the moment
between a `T`'s last `Broadcast` and its successor's wait. `SemaphoreOK` says what a count means: its thread
has been taken off its list and has not waited yet, or an alert came behind a timeout, or
`Fork` has handed out an idle `T`, or the count belongs to a successor; and a thread off its list has its count.
`ListsOK`: a thread is in no other list than that of the condition it waits for, once.
`AlertableOK`: who is alertable is in a list or in a timed wait without an alert. `WokenLemma` is the common
part of `Signal`, `Broadcast`, `Alert` and the last `Broadcast`; `PushStep` and `TakeStep` are that of entering a list
and of taking a count. `PlainRoles` and `RolesFrame` leave nine of thirty-eight steps that touch births and
succession at all.

`NeverFails` needs `MutexInv`, which adds who has entered which critical section. `OwnersOK`: a mutex
that is held has a critical section of its own that somebody entered, and only those of held mutexes are
entered. `LockOK`: a thread about to enter one is not in it, and a thread has
entered `threadMu`'s exactly where it is in the library. `CacheOK` is the point of `CacheSafe`: while the cache has
something, no mutex has a critical section and nobody is about to install one. `UnlockStep` and `GiveStep` are
the steps that touch these; `Gentle` is what the other threads see of them. TLC checked `MutexInv` with one mutex and a
cache of one, and with two mutexes and no cache. In the fatal steps `SlotLemma` counts: who gets a slot has none yet, so
one is free.

### 6.9 ThreadWin32Refinement_proofs

`Win32Implemented`: `CacheSafe` and `SlotsSafe` imply `Spec => ImplementsThread`. The two hypotheses are those of
`NeverFails`. Where `CacheSafe` is false two threads can each enter a critical section of one mutex, and the promise of
exclusion is broken; where `SlotsSafe` is false the library can end the program. For the code's own parameters both hold
when nothing is collected, or when one mutex is shared by at most nineteen threads.

The mapping is harder than that of the POSIX threads, since the kernel threads do at several steps what `ThreadSpec`
does at one. A thread in `InnerWait` counts as having unlocked its mutex from the moment it is on a list, although it
unlocks it later, and an `AlertWait` has it again before it counts as holding it (`Hides`); a wait that a signal ended
stays a wait until the thread has taken the count, and the alert that ended one is consumed only at the second
`InnerTestAlert`. The inductive invariant `RefInv` is `MutexInv` with three parts, which TLC checked on the instance of
`w_thread` (228310 states) before they were proved:

* `PlacesOK`: what a thread's call says agrees with where it is: whoever is in a wait has the operands of one, and an
  `AlertWait` returns to where the second `InnerTestAlert` is;
* `RelocksOK`: the thread has its mutex until it unlocks it, and again between its relocking and its return, so that what
  `Hides` hides is true; and a mutex it is to lock again keeps its critical section, whatever is collected (`UsedKeeps`);
* `WakesOK`: whoever waits is on a list, or was taken off by a signal and is in `signalled`, or was
  taken off by an alert that is still pending. This is what makes each end of a wait one that `ThreadSpec` allows: a thread off its list
  and not alerted was signalled.

The proof looks at a step three times: does it enter a wait, go on with one, or leave all waits alone (`WaitCases`: `Enters`,
`InsideStep`, `Beside`); does it lock or unlock a mutex (`OwnerStep`); what does it do to lists and alerts (`EffectStep`). Each
question is answered once for all thirty-eight steps, and the `Show...` lemmas combine the answers: a step beside all
waits is `Acquire`, `Release`, `Signal`, `Alert`, `Consume` or a stutter; one that enters is `Enqueue`; inside,
`SemaWait` and the second `InnerTestAlert` are `ChooseSignal` or `ChooseAlert`, and the return, or for `Wait` the relocking, is
`Resume`. All others are stutters: the birth, rebirth and end of threads, collections, and the unlocking and
relocking of a mutex that the wait hides.

### 6.10 Only model-checked

Liveness and fairness, which are beyond this prover: the runs with `FairSpec`. Every safety invariant, action
property and refinement that a passing run checks is stated by a theorem.

## 7. Not modelled

Of the threads: the descriptor sets and timeouts handed to `select`, `UTime` arithmetic,
stacks and their reuse, per-thread floating-point state, the perf hooks. Of the Win32 threads:
the list of all threads, handles and ids, stack bounds and sizes (`ProcessStacks`), thread-local handlers,
`Pause` and `Yield`, and calls that break the interface's rules (a second `Join`, an unlock without a
lock). Of stable
objects: creating and deleting the directory, log managers that clients supply,
marshalling of types other than INTEGER, the debugging log readers, and
`stablegen` as a translator. Of `smalldb`: the creation of the directory, a log that ends inside
a length or a record (which `Failed` reports; the kernel's view always has whole
records), a deletion that fails in `GetVersion`, the statistics. A closed file and the directory are taken to be on
the disk, although the code syncs neither. Of network objects: stub types and fingerprint towers, the
agent's table of names, notifiers, the death of an owner as its clients see it, the addresses
of spaces, and all of the transport, which the fault model stands for. The other
components: see the notes in `PROJECT.json`.

## 8. Plan

In this order:

1. *TCP transport*: connection pools, pings, location death against late answers; then the
   owner's death as `NetObjRT`'s clients see it.
2. *Readers and writers*, *tables and priority queues*: buffer arithmetic and generic
   containers against reference definitions over bounded inputs.
3. *UTime and select*: the carry at 1000000 microseconds (`ThreadPosix.m3:138`) and the
   descriptor sets of two passes (`:959`).
4. *Collector* (pages, spaces, weak references).

As the project grows, the runs that show
one disagreement each give way to those of new components; section 5 keeps what they found.
