# Verification of tools_demo

TLA+ models of the components of this repository that have a state, the TLC runs that
check them and the TLAPS proofs about them. The repository is a collection of
independent C++ utilities; what they share is that most of them are used by
several threads or processes, and that almost none of them has a test. The
models follow the source line by line in control (every guard, early return,
lock, notification and atomic access, in the order of the code) and abstract its
data: a task, an object or an id is a number or a model value.

`PROJECT.json` gives, for each definition, the lines it stands for; about a third of
the repository's lines are behind the models.

## Inventory

### Core components

| component | state | operations | used by |
|---|---|---|---|
| thread pool, `timerloop/priority_queue/threadpool.h` | `_run`, `_tasks`, `_pool`, `_idlThrNum`, `_lock`, `_task_cv` | constructor, `commit`, worker loop, destructor | timer, any thread |
| timer, `timerloop/priority_queue/timer.h`, `hash_map.h` | `tm_queue` (by due time), `tm_id`, `tm_id_state_map`, `tm_running`, `tm_mutex`, `tm_cond`, a thread pool | `run_after`, `run_at`, `run_repeated`, `cancel`, `run`, the ticker `run_local`, destructor | any thread |
| object pool, `objectpool/` | free list `Objects_`, `Chunks_`, `iCurrNum_`, `iMaxNum_`, `iIncNum_`, a `Mutex` | `Create`, `Destroy`, `SetMaxNum`, `SetIncNum` | any thread |
| id generator, `snowflake_demo/snowflake.h` | `epoch_`, `machine_`, `last_ms_`, `sequence_`, spin lock | `generate`, setters | any thread |
| stock factory, `StockFactory/main.cpp` | map of weak pointers under a mutex | `get`, the deleter of the shared pointer | any thread |
| pipe, `Pipe/` | writer thread with a message queue, reader thread with a framing cache | `Initialize`, `WriteData`, `HandleData`, destructors | two processes, half-duplex |
| shared memory messages, `linux-sharedMsg/` | segment, semaphore, message queue of the kernel | server loop, client loop | one server, some clients |
| daemon, `daemon/` | pid file and its record lock | `already_running`, `daemonize` | instances of the program |
| worker process, `workerprocess/` | worker pid, restart interval | master loop, signal handler | master and worker process |
| caches, `LruMap/`, `lru_cache/` | index and list of nodes in order of use | put/insert, get, erase, vacate, clear, capacity | one thread |
| object pool 2, `objectpool2/` | a ring of free slots; a vector of owned objects | get, the deleters of what get returned | one thread |
| arena, `statusandslice/arena.*` | blocks, place in the current one, usage | `Allocate`, `AllocateAligned` | one thread |
| owning values, `statusandslice/status.*`, `hyper_function/` | a pointer to a block on the heap | constructors, assignments, destructors | one thread |
| shared pointer, `safe_operation_obj/save_obj_main.cpp` | `storage_` under `mutex_` | `store`, `exchange`, `load` | any thread |
| asio timer, `timer_demo/` | `map_timer_`, the waits and completions of an `io_service` | `set_timer`, `kill_timer`, `ontimer_internal`, destructor | main thread and io thread |
| resuming download, `Curl_Breakpoint/` | the local file, its stdio buffer, the stop flag | `downloadControler`, `Download`, the callbacks of libcurl | a thread, a server, restarts |
| client side writer, `Pipe/PipeClient/WritePipe.cpp` | pipe handle, writer thread with a message queue | `Initialize`, `WriteData`, destructor | owner and writer thread |

How they interact: the timer owns a thread pool and its ticker commits callbacks
to it; the two ends of the pipe, the two programs of the shared memory and the
processes of the daemon and of the worker are modelled together. Everything else
stands alone and interacts with its callers through the
locks, queues and callbacks in the table.

### What is hard in them

- *Condition variables.* In the thread pool and in the timer the destructors
  store the stop flag and notify without the mutex. `commit` pushes under the
  mutex and notifies after it. Wakeups may be spurious.
- *Order of destruction.* The timer's destructor joins the ticker; its members
  are destroyed afterwards, the pool among them, which may still run callbacks.
- *Cancellation.* `cancel` only erases an id; the node stays in the queue, and
  the ticker may already have looked the id up.
- *Time.* Truncation to milliseconds, a system clock that is set back, a sequence
  that wraps.
- *Partial failure.* A pool that is full or a failing allocation in the middle of
  `Create`; a file that cannot be written or closed; a pid file that cannot be
  truncated.
- *Callbacks* that kill or set timers while completions are queued.
- *Long sequences of calls*: rings that go round, caches whose capacity changes,
  pointers that are copied, moved and assigned.
- *Stale pointers, restarts and message loss* in the stock factory, the daemon,
  the worker process, the pipe and the shared memory programs.

The full list, with lines, is `hazards` in `PROJECT.json`.

### What makes each core component correct

- Thread pool: tasks run once, first in first out, and are not left in the queue
  while workers sleep; the idle count is exact; nobody is inside when the members
  are destroyed; destruction ends.
- Timer: due timers fire, none sooner than its registration asked for but for less
  than a millisecond per firing, as often as registered, and at most once more
  after they are cancelled; no commit to a stopped pool.
- Object pool: an object has one holder; none is lost; the maximum holds; calls
  return.
- Snowflake: ids are unique and in the order of their milliseconds.
- Stock factory: no stock is revived or deleted twice; the deleter never uses a
  dead factory; the map keeps no dead entries; one live stock of a key.
- Pipe: what met the writer's queue is delivered once, whole and in order, except a
  post whose own write fails, which costs no other post.
- Shared memory messages: one process inside, whoever is killed; announced means
  written; nobody waits for good.
- Worker process: one worker at a time, again after each death; a signal kills
  that worker and nobody else.
- Daemon: of instances started together one serves in the end, one at most with
  the lock, and the pid file names it.
- Caches: they hold the keys used last, in the order of their use, with the value
  put last; the index and the list agree; the capacity holds.
- Pools, arena, owning values, shared pointer: what is handed out has one holder
  (or is counted as often as it is held), and nothing is lost.
- Asio timer: a timer in the map goes on firing until it is killed.
- Download, client side writer: what arrives is a beginning of what was sent, in
  order; a download's end is reported.

### Not modelled

- *Pure functions*: `splite2vector` (splits a string), `findInTheInterval`
  (`std::lower_bound`), `Slice`, `Status::ToString`. Their data is what a model
  would abstract from.
- *Tables filled by one thread at the start*: `message_demo`, `objectRegistry`,
  `objectpool2/DynamicCreate.cpp`, `switch`, `delete_if_else`. They change no state
  afterwards.
- *Type machinery and demonstrations of the language*: `C_callback`,
  `constructor_demo`, `pimpl` and `StockFactory/Structmain.cpp`, `redis_cli`
  (variadic wrappers of a library that is not in the repository), `timelog`,
  calling and converting a `hyper_function`.
- *Behaviour of a library*: `post_demo` starts threads that run an `io_service` and
  lets go of them; whatever happens is boost's.
- *Parts of modelled components*: `ThreadSafeElem` of `safe_operation_obj/main.cpp`
  (one call under one lock), `LaunchDaemon` of `workerprocess` (its call is
  commented out), the destructor of the object pool, the printing and the
  conversions of paths in `Curl_Breakpoint`.

## Modules

| module | models | composed with |
|---|---|---|
| `TaskService` | what the pool promises: a bounded number of runners over a FIFO | abstract |
| `ThreadPool` | `threadpool.h` | implements `TaskService` (`Service`, a refinement mapping) |
| `Timer` | `timer.h`, `hash_map.h` | instantiates `TaskService` as its pool (`Pool`) |
| `ObjectPool` | `objectpool.h`, `mutex.h` | |
| `Snowflake` | `snowflake.h` | beside `SharedMsg` in `CriticalSections` |
| `StockFactory` | `StockFactory/main.cpp` | |
| `Pipe` | `Pipe/`, the server's writer and the client's reader | |
| `SharedMsg` | `linux-sharedMsg/`, both programs | beside `Snowflake` in `CriticalSections` |
| `CriticalSections` | the spin lock of the one and the semaphore of the other, side by side | extends both |
| `WorkerProcess` | `workerprocess/`, master and workers | extended by `Toolbox` |
| `Daemon` | `daemon/`, instances and their forks | extended by `Toolbox` |
| `LruMap`, `LruCache` | `lurmap.h`, `lrucache.h` | instances in `Toolbox` |
| `FreeRing`, `PointerPool` | `objectpool2/object_pool.cpp`, `objectpool2/objectpool.h` | instances in `Toolbox` |
| `Arena`, `OwnedValue` | `arena.*`; `status.*` and `hyper_function.h` | instances in `Toolbox` |
| `AtomicSharedPtr` | `save_obj_main.cpp` | instance in `Toolbox` |
| `AsioTimer` | `asio_timer_base.*` | instance in `Toolbox` |
| `Download` | `CurlDown.*` | instance in `Toolbox` |
| `ClientWriter` | the client's `WritePipe.cpp` | instance in `Toolbox` |
| `Toolbox` | nothing of its own: the parts above side by side | |
| `ThreadPoolProofs`, `TimerProofs`, `ObjectPoolProofs`, `SnowflakeProofs`, `StockFactoryProofs`, `SharedMsgProofs`, `PipeProofs` | theorems | each extends its component |
| `ToolboxProofs` | theorems about the worker process, the daemon, the asio timer, the download, the client side writer and the shared pointer, by themselves and in the toolbox | extends `Toolbox` |

Runs use the specification modules themselves; a `.cfg` gives the constants. In
each module the operators commented as mutants are mistakes the code could have
made; none is part of the specification. They are there to show that each
property can fail.

### ThreadPool

The actors are the owner, the clients and the workers; a worker inside a task
commits like a client. The program counters cut the code where another thread
can observe it. `commit` is `CommitCheck` or `CommitThrow` (the test of `_run`),
`CommitPush` (under `_lock`), `CommitNotify`. A worker goes through `Loop`,
`Lock`, then `Take`, `Leave`, or `TestFails` and `Block`. `TestFails` and `Block` are two steps
because the destructor, which does not take the mutex, can come between them;
`Block` releases the mutex and joins `waiting` at once, as `wait` does. `Uncount`,
`Return` and `Recount` are the atomics around the task and the end of the task.
The constructor is `AddThread` and `CountThread`, the destructor `Stop`,
`NotifyAll`, `Join`.

Not represented: the futures, exceptions of tasks (a `packaged_task` keeps them),
`THREADPOOL_AUTO_GROW` (commented out in the source), a constructor argument
of 0, with which the pool has no workers at all.

### Timer

`Register` is the part of the three `run_*` calls before the mutex: drawing the
id, entering it into the map, computing the due time. `Push` is the rest, under
`tm_mutex`. The ticker's `hand` is the local `s`. `TickerSleep` is the release of
the mutex by `wait` or `wait_for`; whatever wakes it (`TickerTimeout`,
`TickerWakesSpuriously`, `Push`, `NotifyAll`) it returns to the test of
`tm_running`. `TickerKeep` looks the id up and puts a recurring node back;
`TickerCommit` commits, after the unlock. The owner's steps are the destructor
and then the destruction of the members; `StopPool` and `JoinPool` are the
destructor of the pool as the service sees it.

Time is a counter; `MS` units of it are a millisecond, so instants within one
exist and the truncation of `duration_cast` is visible. The clock stops at
`MaxClock`, which stands for everything later; a sleep that would end after it
may end there. The equality of two due times leaves the choice of `top()` open.

Assumptions: clients call `cancel` with ids that `run_*` has returned; the timer
is destroyed when no client is inside a call, and none calls it afterwards (a
callback that registers or cancels is a client, since it holds no lock of the
timer); `hash_map`'s operations are atomic (each is under its own mutex); periodic
timers have a period above 0; `run` is called once.

### ObjectPool

One step per operation on a member, so that racing threads interleave where the
code does when the mutex is a `NullMutex` (`Locking = FALSE`); list operations
are atomic, which is kinder than the C++ is. Objects are numbered as constructed.
`IncreaseFull`, `IncreaseClip`, `Allocate`, `AllocateFails`, `Construct`,
`IncreaseDone` are `IncreaseObjects`. The locking mutex stands for `ThreadMutex`,
which the repository holds only as a comment. `Lock(true)` returns 0: the
`LockGuard` is new, `NullMutex::Acquire` returns nothing else, and
`pthread_mutex_lock` fails only for a mutex that was not made or that the caller
holds. The two returns after a failed `Lock` (`objectpool.h:55`, `:74`) are
therefore not in the model.

Assumptions (`ObjectPoolAssumption`): a pool that can grow has an increment. The
setters are called while no thread is inside `Create` or `Destroy`; a thread
destroys only what it was given. `LockGuard::Unlock` and `IsLocked` have no caller.

### Snowflake

`Lock` takes the spin lock and reads the clock; `Spin` reads it again while it is
behind `last_ms_`; `SameMs` and `NewMs` compose the id; `SleepEnds` is the loop
that sleeps a full millisecond out; `Return` stores `last_ms_` and releases the
lock. An id is its millisecond and its sequence field (the machine is the same
in all). `SeqSize` stands for 0x1000.

### StockFactory

`get` and `removeStock` run under `m_mutex` and call nobody: each is one step
(`GetLive` finds a stock that somebody owns, `GetNew` makes one, over a dead
entry too). `Release` lets a shared pointer go; the last owner's thread goes
through `Lock` (upgrade of the weak pointer to the factory), `removeStock` and
`Delete`. The factory lives as long as a client or a deleter has hold of it; what
the map holds after that is of no consequence. Strong counts are the sets
`owns` and `factory`. `overtaken` remembers that a stock was made over one whose
deleter had not erased it yet.

Assumption: a thread that is inside the deleter does nothing else; each thread
holds one shared pointer to a stock at most (a second one changes nothing but
the count).

### Pipe

`WriteData` posts to the queue of the writer thread, which exists from
`PeekMessage` on; earlier posts are lost, as `PostThreadMessage` has it. A byte
is its post and its place in the package, so that `DataSizes` (`BytesToInt` of
the first bytes of the cache) is the length only if the header is there whole,
and any number otherwise. `ReadFile` takes any part of what is in the pipe and
appends it to the cache, `HandleData` is one turn of its loop, `HandleEnds` the
two ways out of it. `ConnectNamedPipe` fails if the client came first, and the
thread then gives up a pipe that is connected. The destructor closes a handle
that nothing ever set: the pipe may or may not be closed by it. After `WM_QUIT`
the thread closes that member and not the pipe, which stays open until the
process ends. `ServerEnds` is the end of the process, killed or at the end of
the half second the destructor waits.

`WriteFile` may fail with the pipe open, and does with the pipe closed. The code
has deleted the post before (`WritePipe.cpp:97`), prints the error and takes the
next message (`:110-118`): that one post is gone. `accepted` has the posts that met
a queue, in order, without those whose own write failed, so the properties say
that a failed write costs this post and nothing else: no other post, no order, no
byte of another package. A write that fails writes nothing (external: a blocking
pipe of Windows takes a message or refuses it).

Assumptions (`PipeAssumption`): a post fits `bufferWrite`, which the code does not
check; the cache holds two read buffers (4096 and 1024 in the code). One client,
each process lives once. Not represented: the exit callback, which nothing sets.

### SharedMsg

Each system call is a step. An object under the key is identified by the run of
the server that created it, so that a client may hold the segment of one run and
the queue of another. No result of `msgrcv`, `msgsnd` and `semop` is looked at:
with a removed object they do nothing and the program goes on. `adj` is the
adjustment that `SEM_UNDO` keeps for each process; `Crash` and `QuitCommand` apply it.
`Write` is the end of `scanf` inside the critical section.

Assumptions: one server at a time; a client lives once (a second one is another
member of `Clients`). The contents of the segment are the set of writes it has
seen.

### CriticalSections

The id generator and the shared memory programs share nothing and are checked in
one run. `section` says which of them a behaviour is of; the other stays in its
initial state, in which nobody calls or is started, so the reachable states are
those of the two and not their product. Both are extended, so the properties are
theirs, and what `SnowflakeProofs` and `SharedMsgProofs` show of `Spec` and
`MsgSpec` is about the steps this run takes. The fairness of the generator is asked
of its own behaviours only, since its clock would advance in the others too.

### WorkerProcess

`proc` is the kernel's table: a pid is free, a worker's, a dead worker's that has
not been waited for, or a stranger's. `ForkWorker` and `Assign` are two steps
because a signal may come between them; the worker keeps the old `g_pidWorker`
(`inherited`). `Signal` is the handler in the master or in a worker. `Wait`
includes `Reset`; `Pause` is the postfix `++`; times are in seconds, the
microseconds of `CTimeInterval` are 0 in `main`.

Assumption: fork does not fail more than `MaxFails` times in a row, and finds a
free pid.

### Daemon

A process is an instance and a role: the parent that was started, the child of
the first fork and that of the second. `already_running` is cut at the calls
another process can come between: taking the lock, truncating, writing. A record
lock belongs to a process: `Fork` gives the child none, `Dies` gives it back
(external: `fcntl`). `TestFails`, `TruncateOrWriteFails`, `DaemonizeFails` and
`Kill` share the bound `MaxKills`. `dmUnlocked` remembers who was told to go on
after the descriptor, and the lock with it, had been closed; `dmOwnParent` that a
child met the lock of its own parent, which had forked but not yet ended.

### LruMap and LruCache

The iterators and list positions of the index are looked up as places of nodes.
History variables hold the keys in the order of their last use and what was put
last, and nothing about capacities: the property says that the map is always the
end of that order, whatever `vacate`, `erase`, expiry or a new capacity did.
`SetCapacity` does not vacate, as the code does not, except at 0. `get` of
`LruMap` takes the argument `erasing_expired`. In `LruCache` a capacity of 0 is
left out: `evict` would read the back of an empty list.

### FreeRing, PointerPool and Arena

`FreeRing` has the ring's buffer with its two ends; the object whose slot is used
last comes from the heap (`GetFromHeap`), since the last index is never taken.
`PointerPool` is the vector of owned objects and what its deleters give back. An
address of `Arena` is a block and an offset; blocks are aligned as `new` aligns
them (external).

### OwnedValue

`Status` and `hyper_function` own one block through a pointer that may be null
and differ in their assignments, so one module has both (`ovType`). Objects come
and go in three places. `ovMeant` is the value each was given last.

### AtomicSharedPtr

A `shared_ptr` is copied in two steps, reading the pointer and counting up, and
the object is deleted when the count reaches 0; its number may then be made
again. `load` and `exchange` do both under the mutex, `ScopeGuard` and the
results of calls let go outside it.

### AsioTimer

`set_timer` of the main thread is cut at the calls between which the io thread may
run (`SetBegins`, `Post`, `Arm`, `Insert`); callbacks, on the io thread, set and
kill in one step, since no completion runs before they return. `asioQueue` is the
`io_service` (external): a wait that ended is queued, and a cancel no longer
reaches it. Calls of both threads on the map that overlap are a data race in the
code and taken for atomic here. `asioMissed` has the ids of which a completion
was handled between `Arm` and `Insert`.

### Download

`dlFile` is what is on the disk, `dlBuffer` what `fwrite` has taken. libcurl
(external) calls the two callbacks, `Receive` with a block of the range that was
asked for, `ErrorPage` with the body of an error answer, which it hands on as any
other since nothing asks it not to. `fclose` may fail unnoticed. `Crash` ends the
process anywhere and starts it again with the file that is there. `dlRefuses` is
a server that answers 416 to a range that starts at the end of the file.

### ClientWriter

Posting to the thread before it has a queue, or after its end, loses the string
(external: `PostThreadMessage`). The destructor's `CloseHandle`, `PostQuit` and
`WaitEnds` are three steps; what the thread does to a destroyed object is
undefined and not modelled. The repository's client does not start this writer
(`PipeClient.cpp:15` is commented out), so it has no peer in the model.

### Toolbox

The parts that share nothing are checked in one run. `part` says which of them a
behaviour is of; the variables of the others are idle in it and never change, so
that the reachable states are the disjoint union of those of the parts, not their
product. Each property names the part it is about. `WorkerProcess` and `Daemon`
are extended, the others instantiated: what is proved of the two is stated with
the definitions the run checks. An idle master is dead without a worker, idle
daemons were killed.

## Runs

| run | instance | shows |
|---|---|---|
| `threadpool` | 2 workers (constructor asked for 4, `MaxNum` 2), 2 clients, 3 tasks | `WorkConserving`, `IdleCount`, `NobodyInsideWhenGone`, and `TaskService` implemented with its fairness |
| `threadpool_shutdown` | 2 workers, 1 client, 1 task | violation: `DestructorReturns` |
| `timer` | 2 clients, 2 timers, a clock of 3 instants with 2 to the millisecond, 2 pool threads | six properties of firing, cancelling and sleeping |
| `objectpool` | 2 threads, 1 object growing by 1 or 2 to 3 or 4, failing allocations | sharing, conservation (the maximum included), every call returns |
| `objectpool_nullmutex` | 2 threads, 2 objects, no locking | violation: `NoSharing` |
| `critical_sections` | `Snowflake`: 2 threads, sequence of 2, 5 instants, 1 set-back, 5 ids | `MillisecondsInOrder`, `RepeatsOnlyTheFirst`, `SpinEnds` |
| | `SharedMsg`: 2 clients, a server started twice, 2 writes, anybody killed anywhere | `Exclusive`, `SemaphoreCounts`, `AnnouncedIsStored`, `GoesOn` |
| `snowflake_duplicates` | 1 thread, clock only advances | violation: `NoDuplicates` |
| `stockfactory` | 3 threads, 2 keys, 3 stocks | ends, the map, the life of the factory, reclaiming |
| `stockfactory_twice` | the same | violation: `SameStock` |
| `pipe` | 4 posts of 0 or 2 bytes, headers of 2, reads of up to 4, a cache of 8, any write failing | `Framing`, `Conserved`, `Handled`, and the size of the cache |
| `daemon_twice` | 2 instances, 1 failed call or kill | violation: `OneServes` |
| `toolbox` | the parts of `Toolbox`, each with the constants of `Toolbox.cfg` | see below |

What `toolbox` shows of each part:

| part | instance | properties |
|---|---|---|
| caches | 3 keys, 2 values, capacities 0 to 2 (`LruMap`, 1 node vacated, a clock of 2 instants) or 1 and 2 (`LruCache`) | `Recency`, `WithinCapacity` |
| pools, arena, owning values, shared pointer | a ring of 4 slots and 8 gets; 4 objects; 4 requests of 1, 2, 3 or 5 bytes from blocks of 12; 3 places, 2 contents and 3 blocks; 2 threads and 3 objects | `Ownership` |
| asio timer | 2 ids, a queue of 2 | `StaysArmed` |
| download, client side writer | 3 blocks, 2 crashes or failed closes; 3 strings | `InOrder`, `Reports` |
| daemon | 3 instances, 1 failed call or kill | `LockedServesAlone`, `SomebodyServes` |
| worker process | 3 pids, pauses from 1 to 5, up to 4 failures of fork | `Ours`, `Backoff`, `Respawn` |

`ToolboxTypes` is the type invariant of all of them.

*Bounds.* Two workers and two clients are enough for each pair of steps that the
code can interleave, and the third task lets a task wait while both workers are
busy or one is on its way to sleep; the constructor's argument is above the
maximum so that the cut of `addThread` is taken. Two timers give an earlier and a
later one, and one cancelled beside one that is not; a clock of two units to the
millisecond has instants less than one, exactly one and more than one millisecond
from a due time; `run_at` may ask for an instant that has passed. The object pool reaches its
maximum, clips its last chunk (`SetIncNum` 2 with one place left), and has its
maximum raised and lowered to what exists. A sequence of two wraps within a
millisecond, and after a set-back the clock can catch up. Three threads let one
get a stock while another is in the deleter and a third still owns one; three
stocks are two of one key in a row and one to race with. Four posts fill a read
buffer with two packages and a half; a read may end inside a header. Two lives of
the server and two clients give a client that has opened objects of both. In `toolbox`,
three keys overflow a capacity of two and leave the order of the rest visible; the
ring goes round twice; of the requests one is larger than a quarter of a block, one
needs slop, and four of them leave a block; three places let an object be copied,
its copy assigned and the first destroyed; two threads and three objects let one
thread exchange under another's load while the number of a dead object is used
again; two ids let one callback set another's timer while the main thread does; two
faults let a download crash, lose its buffer and resume; two instances can race
for the lock while the third finds it taken, and the failure may be any call or
the death of the daemon. Three
pids let a stranger take the pid of a dead worker while another worker runs.

*Deadlock.* Checked in `objectpool`, which never stops. The
others may stop: `threadpool` and `timer` when the owner is done, and earlier in
the hang of `threadpool_shutdown`; `critical_sections` at `MaxIds`; `stockfactory` when
everything has been let go; `pipe` and `critical_sections` when the processes have ended
or wait for a user; `toolbox` where a part does (a download that has reported, a
daemon that serves, an arena at `MaxAllocations`).

*Fairness.* Weak fairness of every thread that has something to do: the operating
system schedules it. Strong fairness of taking a mutex (`Lock`, `CommitPush`,
`Push`, `CreateLock`, `DestroyLock`): a thread that waits for a mutex which is
released again and again is served in the end. The C++ standard does not promise
this, the schedulers of the systems this code is written for make the opposite
have no probability; without it spurious wakeups without end could keep a client
out. In `critical_sections` the strong fairness of `sem_p` is that of
the kernel, which serves the waiters of a semaphore in their order, and the weak
fairness of `Write` says that the user types what `scanf` asks for. In `toolbox` some process of the daemon goes on while one can; the master goes on
(`WF(Master)`); the thread of the download goes on, and a file that can be opened
and a transfer that can bring a block or end are not kept from it for ever (strong
fairness of `DownloadBegins(TRUE)`, `Receive` and `PerformEnds(TRUE)`: a network
that breaks every single transfer would never let one end). No fairness for what nobody owes: clients' calls, the owner's decision to
destroy, spurious wakeups, failing allocations, a clock set back.

### The five violations

- `threadpool_shutdown`: a worker has found `_run` true and the queue empty and is
  about to block; the owner stores `_run` and notifies; the worker blocks. The
  comments at `threadpool.h:35` and `:39` say that all threads are woken and
  awaited. Taking `_lock` around the store would repair it. `~Timer` has the same
  pattern (`timer.h:44-45`), and so does the model of it.
- `objectpool_nullmutex`: `README.md:32` of the repository says the pool supports
  several threads; with the default mutex two calls of `Create` return the same object.
- `snowflake_duplicates`: `generate` sets the sequence to 0 when a millisecond
  begins, after having given 0 to the id; the next id gets 0 again.
  `RepeatsOnlyTheFirst` shows that nothing else repeats while the clock advances.
- `stockfactory_twice`: `removeStock` erases by key, after a `get` has put a new
  stock there; the next `get` makes a second one. Erasing only an entry that has
  expired would repair it. `FoundUnlessOvertaken` shows that this is the only way.
- `daemon_twice`: `README.md:40` of the repository calls the daemon a single
  instance. When truncating or writing the pid file fails, `already_running` closes
  the descriptor, which gives up the lock, and returns `false` as if the lock were
  held (`daemon.h:136-147`); the process serves, and the next instance takes the lock
  and serves too. `LockedServesAlone` shows that those that keep the lock are alone.

Some behaviours no line of the repository denies are in the models without a run
of their own; the properties name them as their exceptions:

- a post to the pipe whose write fails is lost, and the failure only printed (`WriteFile`);
- a server of `linux-sharedMsg` that is started again sets the semaphore to 1
  while a client is inside (`reset` in `Exclusive`);
- a client of the pipe that comes before `ConnectNamedPipe` is given up, and
  `IsConnected` is true before a post can succeed;
- outside `waitpid` the handler of `workerprocess` may kill a stranger;
- a child of the daemon that meets the lock of its own parent gives up, and if every
  instance does nobody serves (`dmOwnParent` in `SomebodyServes`);
- a `hyper_function` assigned to itself is empty afterwards (`SelfAssign`);
- a timer whose wait ends before `set_timer` has inserted it never fires
  (`asioMissed` in `StaysArmed`);
- a download stores the page of an error answer as the file, reports success after
  a failed `fclose`, and asks for an empty range again and again when the last
  transfer broke after its last block (`dlUnnoticed` in `InOrder`, `dlRefuses` in
  `Reports`);
- `LruMap` stays above a capacity that was lowered until nodes are vacated
  (`WithinCapacity` says that it does not grow).

## Proofs

| theorem | statement | rests on |
|---|---|---|
| `ThreadPoolProofs!Inductive` | `Spec => []IInv` | `PoolAssumption` |
| `ThreadPoolProofs!PoolTyping` | `Spec => []TypeOK` | `Inductive` |
| `ThreadPoolProofs!NoTaskOverlooked` | `Spec => []WorkConserving` | `Inductive`, `Counted`, `NobodyLost` |
| `ThreadPoolProofs!IdleIsCounted` | `Spec => []IdleCount` | `Inductive`, `SameCount` |
| `ThreadPoolProofs!NobodyIsInside` | `Spec => []NobodyInsideWhenGone` | `Inductive`, `IdleIsCounted` |
| `ThreadPoolProofs!OnePlaceEach` | `Spec => []PlaceInv` | `Inductive`, `Fresh`, `SamePlaces` |
| `ThreadPoolProofs!PoolIsBounded` | `Spec => [](Cardinality(Pool) <= PoolSize)` | `Inductive` |
| `ThreadPoolProofs!PoolImplementsService` | `Spec` implies the initial predicate and, step by step, the next-state relation of `TaskService` | `Inductive`, `OnePlaceEach`, `PoolIsBounded`, `RoomToStart`, `Unseen` |
| `TimerProofs!TimerInductive` | `Spec => []TInv` | `TimerAssumption`, `NodeAssumption`, `Span`, `Registered` |
| `TimerProofs!TimerTyping`, `NeverOversleeps`, `TickerNeverThrows` | `TypeOK`, `SleepsOnEarliest`, `CommitsToOpenPool` always hold | `TimerInductive` |
| `TimerProofs!CancelHolds` | `Spec => CancelIsFinal` | `TimerInductive`, `Registered` |
| `TimerProofs!FiringsInductive` | `Spec => []FInv` | `TimerInductive`, `OneNode`, `Undisturbed`, `Unconcerned` |
| `TimerProofs!FiringsAreAccounted` | `Spec => []FiringsAccounted` | `FiringsInductive`, `AccountsSuffice` |
| `TimerProofs!NeverTooSoon` | `Spec => []NeverBeforeAsked` | `FiringsInductive`, `EarliestNext`, `PromiseKept`, one lemma for each step that moves a node |
| `ObjectPoolProofs!ObjectPoolInductive` | `Locking => (Spec => []IInv)` | `ObjectPoolAssumption`, `MoveKeeps` |
| `ObjectPoolProofs!ObjectPoolTyping`, `ObjectsAreNotShared` | with `Locking`, `TypeOK`, `NoSharing` always hold | `ObjectPoolInductive` |
| `ObjectPoolProofs!ConservedInductive` | `Locking => (Spec => []CInv)` | `ObjectPoolInductive`, `PlacesKept` |
| `ObjectPoolProofs!ObjectsAreConserved` | `Locking => (Spec => []ObjectsConserved)` | `ConservedInductive`, `PlacesSuffice` |
| `SnowflakeProofs!SnowflakeInductive` | `Spec => []IInv` | `SnowflakeAssumption`, `SequenceWraps`, `ThreadKeeps` |
| `SnowflakeProofs!SnowflakeTyping`, `MillisecondsNeverGoBack` | `TypeOK`, `MillisecondsInOrder` always hold | `SnowflakeInductive` |
| `SnowflakeProofs!OnlyTheFirstRepeats` | `Spec => []RepeatsOnlyTheFirst` | `SnowflakeInductive`, `IdsTyped`, `MayKept`, `OneHolder` |
| `StockFactoryProofs!StockInductive` | `Spec => []IInv` | `StockAssumption` |
| `StockFactoryProofs!StockTyping`, `NoResurrection`, `FactoryIsKept`, `MapIsTidy`, `OnlyByOvertaking` | `TypeOK`, `EndsOnce`, `FactoryOutlivesRemoval`, `NoEntryLeftBehind`, `FoundUnlessOvertaken` always hold | `StockInductive` |
| `SharedMsgProofs!SharedMsgInductive` | `MsgSpec => []IInv` | `OutsideKeeps`, `MoveOutside`, `MoveInside` |
| `SharedMsgProofs!SharedMsgTyping`, `SegmentIsExclusive` | `MsgTypeOK`, `Exclusive` always hold | `SharedMsgInductive` |
| `SharedMsgProofs!SemaphoreIsCounted` | `MsgSpec => []SemaphoreCounts` | `SharedMsgInductive`, `FreeKept` |
| `SharedMsgProofs!AnnouncementsAreStored` | `MsgSpec => []AnnouncedIsStored` | `SharedMsgInductive`, `FewerMessages`, `OneMoreMessage` |
| `PipeProofs!PipeInductive` | `Spec => []IInv` | `PipeAssumption`, one lemma for each kind of step |
| `PipeProofs!PipeTyping`, `PackagesArriveWhole` | `TypeOK`, `Framing` always hold | `PipeInductive` |
| `PipeProofs!NothingIsLost` | `Spec => []Conserved` | `PipeInductive`, `StreamJoined`, `AllAccounted`, `PackedJoin` |
| `ToolboxProofs!WorkerInductive` | `Spec => []WorkerIInv` | `WorkerAssumption`, `WorkerKeeps` |
| `ToolboxProofs!WorkerTyping`, `WorkerIsOurs` | `TypeOK`, `Ours` always hold | `WorkerInductive` |
| `ToolboxProofs!PausesDouble` | `Spec => []Backoff` | `WorkerInductive`, `PauseKeeps`, `TwiceSteps` |
| `ToolboxProofs!DaemonInductive` | `DaemonSpec => []DaemonIInv` | `ChildIsAnother`, `EndKeeps`, `DaemonKeeps` |
| `ToolboxProofs!DaemonTyping`, `LockedDaemonIsAlone` | `DaemonTypeOK`, `LockedServesAlone` always hold | `DaemonInductive` |
| `ToolboxProofs!OursInTheToolbox`, `PausesDoubleInTheToolbox`, `LockedServesAloneInTheToolbox` | `ToolboxSpec` implies `[]Ours`, `[]Backoff`, `[]LockedServesAlone` | `OnePart`, `WorkerKeeps`, `PauseKeeps`, `DaemonKeeps` |
| `ToolboxProofs!TimersStayArmed` | `ToolboxSpec => []StaysArmed` | `OnePart`, `AsioKeeps` |
| `ToolboxProofs!ArrivesInOrder` | `ToolboxSpec => []InOrder` | `OnePart`, `DownloadKeeps`, `WriterKeeps` |
| `ToolboxProofs!SharedObjectsLive` | `ToolboxSpec` implies the part of `Ownership` about `AtomicSharedPtr` | `OnePart`, `SharedKeeps` |
| `ToolboxProofs!HandedOutOnce` | `ToolboxSpec => []Ownership` | `OnePart`, `RingKeeps`, `PoolKeeps`, `ArenaKeeps`, `ValueKeeps`, `SharedKeeps` |
| `ToolboxProofs!CachesHoldTheLatest` | `ToolboxSpec => []Recency` | `OnePart`, `LruKeeps`, `CacheKeeps` |
| `ToolboxProofs!MapStaysWithinCapacity` | `ToolboxSpec => WithinCapacity` | `OnePart`, `LruKeeps`, `LruGrows` |
| `ToolboxProofs!ToolboxTyping` | `ToolboxSpec => []ToolboxTypes` | `OnePart`, the invariants of all parts |

They hold for all values of the constants that satisfy the assumptions: any
number of workers, clients, tasks, timers, threads, objects, keys, stocks, ids,
posts, instances, kills or pids, any delays, sizes of buffers and bound of the
clock. The assumptions are `ASSUME`s of the modules that declare the constants, and
TLC evaluates each of them in a run. `ToolboxAssumption` says of which type the
bounds are, that a block of the arena is a multiple of its alignment (4096 and the
size of a pointer in the code), that the ring has two slots at least, that the
threads of `AtomicSharedPtr` and the places of `OwnedValue` are finitely many, that
the heap of `OwnedValue` has a block for each place (`new` there does not fail), and
that null pointers and missing values are no objects, blocks or contents.

Every invariant and every action property that a run checks is the statement of a
theorem here; what is left to TLC is liveness, see the end of this section.

*Induction.* The library's induction theorems take an operator as parameter, which
the provers cannot instantiate. `AllNumbers` states induction for a set instead: a
set that has 0, and with each number the next, has all of them. It rests on
`LeastNumber`, which the library's `WFMin`, a theorem about sets, gives for the
intervals `0 .. n` ordered by inclusion. So what a recursive function computes can
be proved here. Two steps are needed each time: by induction over `n` there is a
function that satisfies the equations up to `n` (`JoinsExist`, `SumsExist`,
`DoubledSteps`), so the one that is defined does; by induction again it has the
value that is claimed. For this reason the models use recursive functions and those
of the community modules, and no `RECURSIVE` operator.

*Thread pool.* `WorkConserving` is not inductive alone. A worker that blocks
leaves the set of those who are coming, and only because the queue is then empty
is nothing lost. `MutexInv` provides this: whoever tests or is about to block
holds the mutex, and a worker about to block has found a queue that nobody could
fill since. `HoldInv` says who holds a task, an argument or a call, `PhaseInv`
that nobody is inside before construction or after destruction. Given these, a push raises the length of the queue and the
number of pending notifications by one, a notification turns a pending one into a
worker on its way, a worker that takes a task leaves with it; the lemma
`NobodyLost` disposes of the other steps. `IdleCount` is inductive given `IInv`:
the atomics are the only steps that change it, and each moves one worker into or
out of the busy ones. With it `PhaseInv` gives `NobodyInsideWhenGone`, since join
has seen every worker exit.

*The refinement.* A task of the service is queued when it is in `_tasks`, running
when a worker has it, done after its call. `PlaceInv` makes that a function: a
task that is pushed is in no other place (`Fresh`), and one that is taken leaves the queue and is
with one worker. `RoomToStart` is the guard of the service's `Start`: a worker that
tests is in the pool and not among the runners, so there are fewer of these than the pool's
size. All other steps stutter (`Unseen`).

*Timer.* `PhaseInv` ties the flags to the owner's progress: the pool is open as
long as the ticker has not been joined, hence the ticker never commits to a
stopped pool. `SleepsOnEarliest` holds because a push either wakes the ticker or
finds it outside the sleep, and the ticker keeps the mutex from the look at the
queue to the sleep. `FiringsAccounted` speaks of the one node of a timer; `OneNodeEach` says that
there is one, in the queue, in a client's hands or in the ticker's, and
`IssuedInv` that no node has an id that was not drawn. `Accounts` says the same
as the property without choosing the node, so that each step is an equation: a
recurring node put back has one firing less to come and the ticker one in hand.
`NeverBeforeAsked` speaks of callbacks already committed and of the registration
they go back to; `PromiseInv` says of the firing still to come that the node it
will be made of is due no sooner (`Promised`), and of a firing let through that it is
time (`CommitDue`). What a firing loses by the truncation (`TakenInTime` in `TInv`)
moves the next due time, so the loss adds up, by less than a millisecond each time
and by no more; that a timer has one node (`OneNodeEach`) is why no second count
of firings runs beside it.

*Object pool.* `Excluded` says that whoever is between `Acquire` and `Release` holds
the mutex; `Listed` that the free list has no object twice; `Apart` that what a
thread holds, or has given to `Destroy`, nobody else holds and the list does not
have. `Create` reads the front in one step and pops in another: `Apart` keeps the
object read at the head until then, which only the mutex guarantees. Without
`Locking` this is what `objectpool_nullmutex` refutes. For conservation
`NumbersInv` follows the counters through a chunk: it grows from an empty list by
`grow[t] >= 1` objects that fit under the maximum, and what is built is
`iCurrNum` and those made so far; `Placed` says that every object built is listed
or with a thread.

*Snowflake.* `MillisecondsInOrder` needs `Issued`, that no id is of a later
millisecond than `last_ms_`, and `CaughtUp`, that a thread past its spin is not
before `last_ms_`; both because the lock (`Locked`) is held from the reading of the
clock to the store of `last_ms_`. `RepeatsOnlyTheFirst` needs to know what the next
id may be (`May`): between ids the sequence is such that the next one may follow,
or it has wrapped and whoever composes has read a later millisecond (`Counting`);
an id composed and not returned may follow too, and the sequence is already what
the one after it needs (`Composing`). `Forward`, that the clock is not behind what
was read from it, is what a set-back breaks.

*Stock factory.* The properties are inductive together with `MadeInv`: an entry
leads to a stock of its key, and threads own only what was made. A dead entry
has a deleter about to erase it because the release that made it dead started
the deleter, and `removeStock` erases whatever the key leads to. Where no stock
was made over a dead entry, that is the deleter's own stock.

*Shared memory messages.* `Exclusive` follows from `Counted`: until a server resets
a semaphore, its value is at most 1, the adjustment of a process is 1 just while
it is inside, and while one is inside the value is 0. A crash gives back what
`Counted` says was taken. `Fresh` and `Opened` say that an id of a semaphore is of
a run of the server that has made it, so that a new one is known to nobody.
`SemaphoreCounts` adds `Free`, the other half: while the server serves, a value of 0 has
somebody inside. `AnnouncedIsStored` adds that nobody has a segment of a run that
has not begun, and that a client past the end of its `scanf` has its write in the
segment it has.

*Pipe.* The run compares concatenations; the invariant counts places instead, which
each step can be followed in. The stream is the cache followed by what is in the pipe. `IInv` says that there are a
number of posts written and, for each post, a place at which it ends, such that the places are
a header and a body apart and the stream holds each package at its place
(`Framed`), that the posts are in the order they were made in (`Ascending`), and that the posts not written yet are, in order, with the writer and
in its queue, `WM_QUIT` last (`Waiting`). A write adds a place, one that fails takes
the next post out and leaves all places as they are (`WithoutOne`), a read moves bytes
from one half of the stream to the other and changes no place, a turn of
`HandleData` cuts the first package off: its header is whole, so its length is the
one that was posted. `Gathered` bounds the cache: what `HandleData` leaves is less
than a package, so a read fits behind it. `Conserved` follows from `IInv` without a
further invariant. The beginnings of the stream that end at those places join the
packages one after the other, so by `Flattened` the packages joined are the stream
(`StreamJoined`). The other accepted posts are the one in the writer's hand and those
in the queue without its last message, if that is `WM_QUIT` (`QueueHolds`,
`AllAccounted`). To join lists of lists in turn is to join them at once
(`FlattenConcat`, `PackedJoin`).

*Worker process.* `Ours` is inductive with the typing: it says at each place of
the loop who the children are, and no end of a process changes that while the
master lives, since a dead child is kept until it has been waited for. `Backoff` is
inductive with `PauseInv`, which says at each place of the loop how often the pause
in hand was doubled. The code doubles and cuts off at `Max` failure by failure, the
property doubles from the start and cuts off once; `TwiceSteps` shows that they agree.

*Caches.* `Recency` with places: the list is what the history of uses ends with
(`EndsWith`), the history has each key once, and the index has just the keys of the
list (`Holding`). Every operation takes a key out of both, of the history alone, or
off the front of the list, or appends one to both (`EndsCut`, `EndsSkip`, `EndsDrop`,
`EndsAppend`), and each keeps the ending. The list of `lru_cache` has the latest at
its front, so it is read from its back (`Back`). `WithinCapacity` needs `Holding`
too: `put` makes room only for a key the index does not have, which is one the list
does not have.

*Ring and pool.* `RingIInv` looks at the positions from the start of the ring to its
end, the way round if need be: they hold distinct slots, none of them is out, and no
slot is missing. A deleter whose slot is out finds a ring that is not full
(`FullRing`), so the position it writes holds nothing that is free. `PoolIInv` says
the same of a vector, whose length is the number of free objects.

*Arena.* `ArenaPieces` says that what was handed out of the current block ends before
`alloc_ptr`, so that a new piece behind it overlaps nothing; of a new block nobody
has a piece. `ArenaRoom` ties `remaining` to the place in the block, which an aligned
request with its slop moves by just what it takes. That `memory_usage` is the sum of
the blocks is `TotalGrows`, by induction over their number.

*Owning values.* `Owned` says that blocks and owners correspond and each owner means
what its block contains. Each operation loses an owner with its block, adds one
with a fresh block or with none, or exchanges what two own (`OneGoes`, `FreshComes`,
`NullComes`, `TwoSwap`); that there is a fresh block is counting (`FreshIsFree`).

*Daemon.* `LockInv` says who is between the lock and the pid: one process, which
holds the lock. A daemon that serves and was not told to go on without the lock
keeps it, because only its own end gives it back and nobody else passes the test;
so nobody else writes the file.

*Asio timer.* `Armed` is the property with the queue indexed. What it needs besides
is the timer `set_timer` has armed and not inserted yet (`Inserting`): its wait
runs, has ended and is queued, or was handled too early. What leaves the head of
the queue is the completion of one timer only, and if that timer is in the map the handler arms it
again.

*Download and client side writer.* A beginning of the whole is a sequence whose
members follow each other from 0 (`Follow`). `DownloadIInv` says so of the disk,
and of the buffer from the length of the disk on, unless an error page came. In
`WriterIInv` the strings accepted are those of the calls after the first few, which
found no queue (`Accounted`), and what is queued follows what is written.

*Shared pointer.* `CountsOwners` is the count that was meant: an object's count is
the number of threads that keep it, of calls that own it, and one for the storage. A step moves at
most one owner from one object to another (`OwnerMoves`, `Balanced`). A pointer read
and not counted is still the stored one, because the mutex is held (`Guarded`), so
its object has a count above 0.

*The toolbox.* `OnePart` says that `part` never changes and that a step of the toolbox is a step of
its part; the invariants above, each for its own part, are then inductive for
`ToolboxSpec`, which is what the run checks.

*Only model-checked:*

- liveness (`DueTimersFire`, `CallsReturn`, `SpinEnds`, `Reclaimed`, `Handled`,
  `GoesOn`, `Reports`, `SomebodyServes`, `Respawn`) and the fairness part of
  `ImplementsService`, of which `PoolImplementsService` proves the rest: the prover
  has no rule for fairness, nor for `ENABLED`;
- the five violations, which are behaviours.

## Plan

Each invariant and each action property has its proof. To come are models: the object
pool's destructor, with objects still held by callers.
