# Specifications of the three SO_2022 programs

The repository holds three independent C programs, each an exercise of an operating systems course:

| program | directory | what it does |
|---|---|---|
| Thread scheduler | `src/Homeworks/Thread Scheduler` | a user-level round-robin scheduler over pthreads, as a library |
| Executable loader | `src/Homeworks/Executable Loader` | a demand-paging ELF loader built on a SIGSEGV handler |
| Asynchronous web server | `src/Homeworks/Asynchronous_Web_Server` | a single-threaded epoll server sending files with `sendfile()` and Linux AIO |

They share no code and do not talk to each other. This directory models them in TLA+, checks the models with TLC and proves what matters most of all three with TLAPS.

Run a check with `tlc -config <name>.cfg <module>.tla`, a proof with `tlapm <module>.tla`.

## 1. Inventory

### Thread scheduler

| component | state | operations |
|---|---|---|
| API, `so_scheduler.c`, `utils.c` | the global `scheduler` (queue, array of threads, `running_thread`, `time_quantum`, `io`); each thread's priority, state, remaining quantum, event and semaphore | `so_init`, `so_fork`, `so_wait`, `so_signal`, `so_exec`, `so_end`; `thread_task` in every pthread; inside: `schedule_thread`, `check_preempt` |
| Priority queue, `priority_queue.c` | the array `q`, `size`, `capacity` | `enqueue`, `front`, `dequeue`, growth |

Every thread of the client is a real pthread. What makes the system a uniprocessor is a token: a thread whose turn it is finds one unit in its semaphore, every other thread sits in `sem_wait()`. **No lock guards the scheduler.** The call of the running thread itself queues it, picks the front of the queue, posts that thread's semaphore and then waits for its own.

What is hard here: the hand-over has a window between the `sem_post()` and the `sem_wait()`; `check_preempt()`, `schedule_thread()` and `so_exec()` call each other recursively; a waiting thread stays in the queue and is passed over by `front()`; the remaining quantum is unsigned; `so_end()` joins and then frees everything.

What makes it correct: no thread is lost or queued twice; one thread runs at a time, and it is one of the highest priority that can run; threads of one priority take turns; a signal wakes exactly the waiters of its device; nothing is freed that is still used; `so_end()` returns.

### Executable loader

| component | state | operations |
|---|---|---|
| ELF parser, `exec_parser.c` | the array of segments of the executable | `so_parse_exec` (once), `so_start_exec` (once) |
| Fault handler, `loader.c` | the open file, `exec`, the default handler; per segment the array of flags `seg->data`; the kernel's page table | `so_init_loader`, `so_execute`, `segv_handler` with `so_pf_in_segment`, `so_map_page_in_memory`, `so_run_default_handler` |

The program is started with none of its pages mapped; the first to fault is the loader itself, which reads the file's header in the program's memory for the auxiliary vector (`fix_auxv`). Each first access to a page raises SIGSEGV; the handler looks for the segment, maps the page, fills it from the file, sets its permissions and returns, and the processor retries the access. A fault on a page whose flag is raised is a missing permission and goes to the default handler.

What is hard here: everything happens in a signal handler, in an order the program decides, and system calls on the program's behalf touch memory without asking the handler; the flag array, the page table and the file must stay in step; segments begin and end inside pages; `raise()` takes effect only when the handler returns; calls may fail in the middle.

What makes it correct: the program cannot tell the difference from a loader that fills all memory first; a page is mapped only when it is accessed; the flags are the mapped pages; the program starts with its own header and arguments; every access is answered.

### Asynchronous web server

| component | state | operations |
|---|---|---|
| Event loop, `aws.c` | epoll's list of interest; per connection a `struct connection` (state, buffers, file, size, type); the process's descriptors | `handle_new_connection`, `handle_client_request` (`receive_message`, path, `open`), `send_message` (header, `send_static_file`, `send_dynamic_file`), `connection_remove` |
| Socket helpers, `sock_util.c`, `w_epoll.h` | none | wrappers |
| HTTP parser, `http_parser.c` (third-party) | one global parser: state, flags, version, content length; the global `path` its callback fills | `http_parser_init`, `http_parser_execute`, `on_path_cb` |

One thread waits for one epoll event at a time and runs its handler to the end; an event may carry in and out at once. Clients connect, ask once or again, in one segment or more, read, shut down and reset at any moment, also in the middle of a handler: a handler makes many system calls, and the socket may change between any two of them.

What is hard here: partial sends on a socket that does not block; a structure freed by the first half of an event and used by the second; descriptors reused by other connections; errors that end the whole server; fields of a connection that survive its first request; a parser that remembers positions in a buffer which is gone at its next call, and counts down a body over several of them.

What makes it correct: each client gets its own answer, in order and without gaps; nothing freed is watched or used; a connection touches its own descriptors only; one client cannot end the service of the others; who asks and stays is answered; the path is that of the request; a body is neither cut nor taken for a request.

## 2. Modules

| module | kind | models |
|---|---|---|
| `PriorityQueue` | operators | `enqueue`, `front`, `dequeue` on sequences |
| `SoScheduler` | state machine | the scheduler, one action per API call up to the `sem_wait()` that gives the processor away, plus `SemWait`, for clients that keep to a convention |
| `MultilevelQueue` | abstract | what the scheduler promises: one FIFO line per priority, kept as who is ahead of whom |
| `SoSchedulerSteps` | state machine | the same calls statement by statement, also for clients that break it |
| `PqStorage` | state machine | the array, `size`, `capacity` and allocation under the queue |
| `DemandPager` | state machine | ELF parser, start of the executable and fault handler, with the program as an environment |
| `LoadedMemory` | abstract | memory that was filled before the start, as long as the loader can rely on its heap and its calls |
| `AsyncWebServer` | state machine | the start of the server and the event loop, with clients, sockets, epoll and descriptors as environment |
| `HttpRequestParser` | state machine | requests in the parser (the URL and chunk sizes character by character, header lines, bodies, trailers) in buffers cut anywhere, and how `handle_client_request` calls it |
| `NaturalLemmas`, `QueueLemmas` | lemmas | least elements and division; the queue operators |
| `SoScheduler_proof` | proofs | theorems of `SoScheduler`, with its refinement of `MultilevelQueue` |
| `SoSchedulerSteps_proof`, `PqStorage_proof`, `DemandPager_proof`, `HttpRequestParser_proof`, `AsyncWebServer_proof` | proofs | theorems of those specifications |
| `MCSoScheduler`, `MCSoSchedulerSteps`, `MCPqStorage`, `MCDemandPager`, `MCAsyncWebServer`, `MCHttpRequestParser` | instances | definitions the `.cfg` files need |

`SoScheduler`, `SoSchedulerSteps` and `PqStorage` all extend `PriorityQueue`: the first two use its operators as the queue, the third shows that the array holds exactly those sequences. `SoScheduler` instantiates `MultilevelQueue`, `DemandPager` instantiates `LoadedMemory`, each under a refinement mapping.

Operators whose comment says "mistaken" or "Mutant" are deliberate errors, no part of a model: a property is kept only if such an error violates it.

### How the modules correspond to the code

**`SoScheduler`.** The variables `quantum`, `io`, `threads`, `pq`, `running` are the fields of `scheduler`; `prio`, `state`, `left`, `event`, `sem` those of a thread; `at` and `main` are program counters; `joined` is the loop variable of `so_end`; `ret` the value of the last call. The nested calls are unfolded: `Dispatch` is the first branch of `check_preempt()`, `Charge` the `so_exec()` in its last one, which makes a fork cost the caller a unit of its quantum. The second branch, for a front thread that beats the running one, has only its test here (`Preempts`). Refused calls are actions of their own. The DIE exits after failed system calls are left out.

*Client convention.* A call is one action because nobody else is in the library meanwhile, and what sees to that is no lock but the clients: a call is made by the handler of the running thread, or by `main()` while no thread can run (`MainCalls`), and **no handler forks a thread of a higher priority than its own** (`SoForkByThread`). Whoever keeps to it never reaches the second branch of `check_preempt()` (theorem `NoForkPreempts`). That branch posts the new thread (line 69) before its caller has queued itself (line 71) and waited (line 73): from then on two pthreads work on the scheduler, and no property of a call as one step can be trusted. `SoSchedulerSteps` is where this is looked at. Its constants are the two halves of the convention: `UpwardForks` (may a handler fork upward?) and `EagerForks` (may `main()` fork while some pthread can go on? If not, it forks when they are all `Quiet`, as often as it likes). With both FALSE the calls exclude each other (`StatementsExclude`), which is what lets `SoScheduler` take them whole; with either TRUE they do not.

**`SoSchedulerSteps`.** Each pthread has a list of statements to go. A function call pushes the function's statements, a captured local variable travels in the statement. Every pthread that has a statement may take it, so the windows between `sem_post()` and `sem_wait()` are there.

**`PqStorage`.** `want` is a history variable: the sequence the operators of `PriorityQueue` produce from the same calls. The loops of `enqueue()` and `dequeue()` are described by what they leave in each cell.

**`DemandPager`.** `Segment` is the alignment in `so_parse_exec`; `FixAuxv` and `SoStartExec` the start, whose two reads of the header go through `Touch` and the handler like any other access (`by = "loader"`); `Ask`, `Touch`, `CallRefused` and `Fault` are the program, the kernel on its behalf, and the processor; `MapPage`, `MapPageUnnoticed`, `UnknownSegment`, `BadPointer`, `HandlerDies` are the paths through `segv_handler`. `FailingCalls` are the calls that may fail. Failures that the code checks end the process (`HandlerDies`, `SoExecuteRefused`). Nobody checks the `malloc()` of the segments (`SegmentsUnallocated`: the first is written to no address), nor `lseek()`, `mprotect()` and how much `read()` brought: `MapPageUnnoticed` is a mapping after which the page is missing bytes of the file, has bytes from elsewhere (`Astray`), or stays writable and no more. `unnoticed` counts such mappings. A byte of the file is its position, so that an offset error is seen. The value of `seg->data` after `malloc()` is chosen for each segment: NULL, or garbage that reads arbitrary flags or is no pointer at all. `ZeroedHeap` holds where no segment got garbage. `Slack` is the number of cells `malloc()` leaves behind the array of flags. `LoadedMemory` may refuse any call of the kernel, and has `Stray` for the byte behind a segment and what else lies on a page that a region reaches (section 5), and nothing farther; from the moment the heap turns out not to be zeroed, or a call fails unnoticed (`Spoil`), it promises nothing.

**`AsyncWebServer`.** `client`, `script`, `said`, `heard`, `sent`, `taken` are the clients and their sockets; `conn` the structures; `interest` the epoll list; `fds` the descriptor table; `rev` and `server` the event under treatment and the place in the code. `Start` makes the epoll instance and the listener. A client sends the segments of its script: whole requests, requests with a body whose length is announced (`Posted`), or the head and then the tail of one. `Heads` says what the parser may take a head for (`HttpRequestParser` shows why: a part of the URL, the whole of it, or nothing yet); of a tail it takes nothing, and `path` is empty. One `recv()` takes all that has come. Behind a request without a length the parser takes everything for its body, so the first request is served and the second gets no answer; behind a posted one it reads on, and `on_path_cb` copies the next path over the first without a terminator: `Overlays` says what documents may be named by what is left. `Posted` may be followed by anything, also by segments whose path is never copied: more paths than the code can leave, never fewer. `HandleRequest` keeps the fields the code keeps: `header_is_written`, the size, the file of an earlier request. `send_message()` is split at each `send()`, `sendfile()` and block of asynchronous I/O, because clients act between them. `WriteFails` is the choice between an error and SIGPIPE, which nobody ignores. `Junk` is memory that was not filled. `Leftovers` are the numbers `malloc()` may leave in `conn->file`: any, also the descriptor of another connection's socket or file, of the listener or of epoll. `connection_remove()` closes that number; `epoll` forgets a socket that is closed (`RemoveConnection`), without the listener nobody is accepted (`Accept`), without its own descriptor `epoll_wait()` fails and the server ends (`WaitFails`). `MayRead` is whether `sendfile()` or `io_submit()` may find something to read there; if not, `DIE()`. `io_setup()` may be refused whenever it is called (`IocbSetup`). The unprepared last block of `send_dynamic_file()` is undefined behaviour: the server crashes, or sends as if the block were there.

**`HttpRequestParser`.** The call for a buffer is `HandleClientRequest` (the server initialises the parser and `path` each time) or `Resume` (the contract of the parser: it goes on where it stopped). A `Rule` is one `case` of the big switch: the characters it accepts, the next state, the `MARK`s and `CALLBACK`s. `since` holds for each mark the characters since it was set, `given` what each callback got, `body` what `on_body` got. A method, a version and a header line are words. `length` is `content_length` in a `size_t` of `SizeMax + 1` values: the -1 of a new message is its largest. `ChunkLine` is a byte of a chunk's size line or of the line end behind its data, `BodyData` what one call hands to `on_body`. `received`, `asked`, `framing` and `tail` are history: what the peer sent, which the properties compare with. `Offered` leaves out the characters that would begin a word. `Announced` gives each header line with a length its value; a message announces by any of them or by chunks. The module and `AsyncWebServer` are not composed: there a document is a model value, here is why the path of a request names it (`PathLeftToServer`, section 4).

## 3. What is checked

Each run is `tlc -config <cfg> <module>`.

| run | configuration | asks |
|---|---|---|
| `scheduler_calls` | `MCSoScheduler.cfg`: 3 threads, 2 priorities, 2 events, quantum up to 2; no upward forks | 6 invariants, 4 action properties and the refinement of `MultilevelQueue` |
| `scheduler_rotation` | `MCSchedulerRotation.cfg`: 3 threads, 1 event, quantum 1, fair; no upward forks | starvation freedom within a priority; `so_end()` returns if handlers do |
| `scheduler_steps` | `MCSteps.cfg`: 4 threads; `main()` forks when all is quiet, no upward forks | nobody else is inside the library, `running_thread` is not NULL when used, rest states are consistent |
| `steps_upward_fork` | `MCStepsUpward.cfg`: 2 threads | **violated**, see section 5 |
| `pq_storage` | `MCPqStorage.cfg`: 5 threads, 3 priorities | bounds, growth, contents of the array |
| `pager` | `MCDemandPager.cfg`: 4 files, 4 pages of 4 bytes, 9 addresses, any heap, accesses of the program and of the kernel, every call may fail, one of them unnoticed | refinement of `LoadedMemory`, the start, flags, demand, progress |
| `pager_flags_doc` | `MCPagerFlagsDoc.cfg` | **violated** |
| `web` | `MCAsyncWebServer.cfg`: 2 clients, 5 documents; one client asks twice, in two segments or behind a body, and may reset | answers, liveness of structures and descriptors, causes of death, progress |
| `request_parser` | `MCHttpRequestParser.cfg`: URLs of up to 4 characters, 2 messages, each with a body by length (0, 2 or 3) or in chunks, both users | the URL, its parts and the body are reported whole, flags belong to one message |
| `parser_bodiless_doc` | `MCParserBodiless.cfg`: one URL | **violated** |
| `web_second_request_doc` | `MCWebSecondRequest.cfg`: 1 client that asks twice | **violated** |
| `web_halfclose_doc` | `MCWebHalfClose.cfg`: 1 client | **violated** |

### Bounds, and why they are enough

- *Scheduler.* Three threads are two of one priority and one of another: enough for a rotation, a signal that wakes a higher thread and a waiter that is passed over, all at once. A quantum of two distinguishes "some left" from "used up"; two events distinguish the right device from a wrong one. The rotation runs need one event only and keep all threads distinguishable (no symmetry, since they check liveness). Symmetry in the other runs is that of thread identities, which no property names.
- *Steps.* With four threads a handler forks, the forked ones fork again, a waiter remains, and `main()` forks once more when everybody waits or has gone. `Width` bounds the unsigned quantum so that a wrap would be seen.
- *Array.* Five threads pass two growths: one cell, then four, then eight.
- *Pager.* The files have a region inside a page, one over two pages, one that begins inside a page, a zeroed part on a page of its own, one without file bytes, and one with nothing to load. Four bytes are enough for "first, middle, last, behind"; the arithmetic is in `\div` and `*`, the theorems hold for any page size. Three arguments tell the loader's name, the file and an argument apart. The accesses are to `Corners`: of the 16 addresses below `Limit` those that begin, end or lie inside a region, lie before or behind one, or nowhere near (reads of the header by the loader come on top). `MaxUnnoticed`: one mapping may fail unnoticed; after it nothing is promised of contents, and flags and pages do not depend on whether it happened before.
- *Web.* The header is two units so that it can be cut. The socket holds the dynamic response and not the static one, so that sending fails unless the client reads. Ten descriptors are enough for the standard ones, epoll, the listener and all that two connections leave behind (`EnoughFds`). The scripts pair a missing document with one that must be sent in pieces, two documents of different kinds (one of them behind a body, where the path of the second request may be copied over that of the first, and may name another document or none that exists), and a cut request whose head is a path of its own, the whole path, or none. `Garbage`, the numbers in `conn->file`, has the epoll descriptor, the first client's socket and the first file. A wrong `close()` therefore needs no third client: with only two, and `"reset"` alone, TLC finds `OwnFile` and `WatchedIsLive` violated as soon as their premise `AllHeard` is left out. A third client makes more than six million states; for any number the theorems hold.
- *Parser.* `MaxUrl`: four characters reach every state of the URL (`a1:1` has a host and a port, `a1:/` comes to the path behind them, `/?#1` has query and fragment), and bound the URLs of one buffer together; a URL whose last character reaches the bound can end and be served. One letter, one digit, slash and colon are the classes the switch tells apart besides `.`, `-` and `*`, which it treats like a digit or a slash. `MaxMessages`: two messages let flags, marks, length and `path` of the first meet the second; `MaxBodies`: both may announce a body. `UrlOfBody`: a message that does has a URL of one character, since URLs and bodies meet in the state that lies between them only. The announced lengths are 0 (the message is over at once), 2 and 3 (a body that one call may take whole, or that is cut once or more). `MaxTail`: ten bytes of chunks are a chunk of one byte, the chunk of size zero and a trailer, or a chunk of two bytes and no trailer; the line feed of the empty line comes on top. `MaxData`: three bytes are the longest body by length, and enough to see one begin that has no length. A size has at most two digits, a chunk one character of parameters, a message one trailer (`Within`, `HeaderLine`). `SizeMax` stands for the largest `size_t`: it is more than any size that two digits spell, so that as in the code only -1 reaches it; what an announced length that large would do is not tried.

### Deadlock

Most runs say `CHECK_DEADLOCK FALSE` because their systems may really stop: all scheduler threads may wait for events; a refused or killed program does nothing more; a server that has ended, or has no client left, does nothing; a refused parser is not called again. What may not stop is stated as a property (`StuckOnlyWhenWaiting`, `EndReturns`, `Answered`).

### Fairness

- *Scheduler:* a pthread whose semaphore was posted is resumed (`WF` of `SemWait`), a handler keeps executing instructions (`WF` of `SoExec`). Nothing is assumed of forks, waits and signals. For `EndReturns` handlers also end: a thread that gets the processor again and again returns at last (`SF`), and `main()` goes on when `pthread_join()` allows it.
- *Pager:* the processor retries an access when the handler returns, the handler runs to its end, and `so_start_exec()` goes on (`WF`); no call has to fail, and the program need not ask anything.
- *Web:* the server starts (`WF` of `Start`). A handler never blocks (every socket is non-blocking, disk reads end), hence `WF` of the handler. Linux's `epoll_wait()` with one event at a time moves the reported descriptor to the end of its ready list: each descriptor that is ready again and again is reported (`SF` of `WaitEvent` and `Accept`). Nothing is assumed of clients.

## 4. What is proved

For all constants that satisfy the named assumptions, checked by `tlapm`:

- **Scheduler** (`SoScheduler_proof`). `SchedulerInv` is inductive. It consists of type correctness; `Consistent`, which ties queue, running thread, states, semaphores, events and quanta together; `Highest`, that no ready thread of the queue beats the running one and that an idle processor means that everyone waits; and `MainInv`, which knows the thread array and how far `so_end()` has joined. None of the checked invariants is inductive alone: `OneProcessor` needs that the dispatched thread was asleep without a token, which needs `NoThreadLost`, which needs the queue to be free of repetitions and states to agree; `RunningIsHighest` needs the queue to be sorted. The lemmas follow the code: `Dispatch`, `Charge` and the queueing of a thread keep `Consistent` for *any* queue, states and semaphores, because calls go through them with intermediate values; each call is then one lemma. Every invariant of `scheduler_calls` is a theorem, and so are the action properties `FreedOnlyWhenDead` and `IdleOnlyAfterReturn`. Assumption: `LimitsAssumption` (limits are naturals, quantum at least one) and the client convention built into the actions, which is no formality: without it `NoThreadLost`, `OneProcessor`, `QuantumNeverWraps` and the refinement are false of the code (section 5). `NoForkPreempts` proves that the convention is enough for the branch that breaks them never to be taken. All of it is at the grain of a call: between the statements of one the properties do not hold, nor are they meant to. Threads may be any set, also an infinite one.
- **Scheduler, what it promises** (same module). `SoScheduler` implements `MultilevelQueue`: what `enqueue()` and `dequeue()` do to one sorted sequence is, per priority, "the newcomer stands behind everybody of its line" and "the first leaves". The steps map one by one, a call that queues and dispatches at once included. `RoundRobinKept` and `SignalWakesItsWaiters` are the two remaining action properties of `scheduler_calls`: within a priority nobody is overtaken, and a signal wakes exactly the waiters of its device.
- **Scheduler, statement by statement** (`SoSchedulerSteps_proof`). The five invariants of `scheduler_steps`, for any number of threads, priorities and any quantum. `StepsInv` is inductive; it follows the one pthread that may act. Either nobody can go on (`Nobody`), or a token is there for a thread that has not taken it (`Posted`), or a thread is on the processor (`Processing`), or an actor has given the processor up and is picking the next (`Switching`): its statements to go are then known, and so is what the queue, `running_thread` and the semaphores look like at each of them; everybody else rests in `sem_wait()`, has ended, or is `main()` outside the library. None of the five is inductive alone: `OneAtATime` holds because `sem_post()` is the last statement of the library before the poster's own `sem_wait()`, and because no second token exists, which needs the lists of all resting threads; `NoNullDereference` because `running_thread` is NULL only between giving the processor up and taking the front thread; and the branch of `check_preempt()` that preempts is never taken, because the running thread dominates the queue (`Dominates`) except inside `so_signal()`, which gives the processor up first. The premise is `Discipline`: `main()` calls `so_fork()` only while no pthread can go on, and no handler forks a thread of higher priority. Each half is needed (run `steps_upward_fork`, and section 5 for an eager `main()`). Assumption: `StepsAssumption`.
- **Queue** (`QueueLemmas`). `enqueue()` keeps a sorted queue sorted and adds exactly its thread; `dequeue()` removes exactly the front thread and keeps the order; who is ahead of whom changes for nobody else, and is an order.
- **Array** (`PqStorage_proof`). `StorageInv` (three stages of growth: nothing, one cell that claims to be two, doubling) implies that the array is never overrun and that the equality test catches every growth. With it, the cells below `size` hold exactly the sequence the operators produce (`HoldsWhatItShould`), and so the proofs about sequences are proofs about the array.
- **Loader** (`DemandPager_proof`). Pages are whole and aligned (`PagesAreWhole`), and mapped only where the program accesses them (`MappedOnDemand`), with no assumption on heap or headers. With one cell behind the flags (`Slack >= 1`) and while the heap is zeroed (`ZeroedHeap`, a premise of the property), flags and page table agree (`FlagsAreMappings`): two segments on one page, adjacent segments and the last partial page included. The program starts with its own arguments, and with its own header if no call failed unnoticed (`StartsRight`), for any segments and any heap: the invariant behind it says that a page that holds the beginning of the lowest segment was filled from it, whichever fault mapped it, and that nobody writes before the program runs.
- **Loader, what it promises** (same module). `DemandPager` implements `LoadedMemory` (`PagerImplementsMemory`): no access can tell that pages arrive one fault at a time. The mapping makes of page table, file and headers the memory an access would find (`Contents`); `LoadedInv` says that until the program runs this is what the headers fill (`Memory!Filled`), because nobody has written, and ever after that each flag stands for a page its own segment brought in (`FromHeaders`), so that a fault on an unmapped page is the first on it. Then mapping a page changes no byte that the program can see, an access of the program or the kernel is one of the filled memory, and the handler gives up exactly where the filled memory refuses. Premises: `Slack >= 1`, and `Orderly`, that no page belongs to two segments, the byte behind a segment included, and that a segment with any right can be read. Without the first half of `Orderly` a page holds the bytes of the segment whose fault came first and zeros for the other; without the second the bytes of a page would be there for nobody to read. `MCDemandPager` assumes `FilesAreOrderly`, which TLC evaluates: the files of the run `pager` satisfy the premise. That the heap is zeroed and that no call fails unnoticed are premises of the abstract specification itself: after `Spoil` it promises nothing. Types, demand and flags hold after unnoticed failures as well: what a mapping does to the page table is one lemma for every page it may leave (`PutPageFacts`).
- **Parser** (`HttpRequestParser_proof`). For URLs of any length, cut into buffers anywhere, and any number of messages on one parser: `on_url` gets the URL exactly as it came (`UrlWhole`), and the connection is kept exactly as the request asks (`KeptAsAsked`). `PathLeftToServer` says what a buffer leaves in the server's `path`: the URL, query included, of its only message, or that of the last one with the tail of what was there before. That is what `PathsIn` of `AsyncWebServer` builds on; it is what the code does, not what its comments say (section 5), and no run claims it to be right. `ParserInv` adds to them and the type what each place in the code knows: what marks and callbacks hold (`Kinds`), that inside a URL its mark is set while the parser runs (`UrlMarked`), that `path` begins with what the callback of the server got (`PathFilled`), and that flags and version are those of this message (`FlagsOfMessage`). A second invariant on top of it, `PartsFit`, proves that path, query and fragment are reported as the separators mark them off (`PartsOfUrl`): its part `Place` says what each state of the switch knows of the characters read so far, in the terms of the reference and not of the switch (letters only, the scheme's colon at the end or one before it, no path yet, inside the path, inside the query with only question marks so far, and so on), and its part `PartsMarked` that the mark of the part is set there. `Grow` says which part of the reference one more character adds to; the rules are shown to move and to mark exactly so (`Leads`, `KeepsParts`). Assumptions: `ParserAssumption` (the characters are those the switch tells apart, the bounds are naturals, `SizeMax > 17`: a `size_t` holds more than the largest size of two digits of the model) and `MarkAssumption` (NULL is no sequence of characters).
- **Parser, bodies** (same module). `on_body` gets the bytes of the body and no others, announced by length or in chunks, and the message ends with the last of them (`BodyReportedWhole`), for announced lengths up to `SizeMax - 1`, chunks of any number whose sizes have at most two digits, and buffers cut anywhere. The reference (`Dechunked`) reads the complete body from its end; the parser reads it from its beginning, one byte at a time, and knows only `state` and `length`. The invariant `BodyFit` joins the two. `Resumes(t, c, w)` says that before the chunk at `c` the data are `w`, *whatever bytes follow*: so nothing has to be said again of the chunks that are over, and there is no induction over chunks. `AtChunk` says of the chunk at `c` what each state knows: which digits have come and that `length` is their number (`InLine`), or how many bytes of its data are still to come (`InData`). `InTrailer` says that behind the chunk of size zero nothing changes the data, `InIdentity` that `length` is what remains of the announced length, `AsAnnounced` that flags and length are those of the headers, although the trailer goes through the header states once more. That the two recursive functions of the reference exist (the value of a string of digits, the chunks of a sequence) is proved by a least counterexample: no theorem of induction is used.
- **Web server** (`AsyncWebServer_proof`). `ServerInv` is inductive. Besides the types (`TypeOK`, `Shapes`) it has `Stages` (where a connection is in its life and the server in its loop: the event under treatment is of a structure that exists, and lives everywhere but in `send_message()`), `Requested` (a path, a response and an interest in out events come with a request that `recv()` took) and `Reasoned`: every descriptor in use has *a reason of its own*, the socket or eventfd of a connection or one file per segment taken, so that descriptors in use can be counted through the reasons. The last part, `Sound`, is the heart: a live connection is watched, and the descriptor in `conn->file` is its own file, or none. It needs that no connection was removed before something was received on it (`AllHeard`), because then `connection_remove()` closes whatever number `malloc()` left in `conn->file`, and that none was used without a path (`Blind`). `FreedIsNeverWatched` (half of `WatchedIsLive`) and `FilesBounded` (a client leaves at most as many files as it sent segments) hold unconditionally; `WatchedAreLive` and `FilesAreOwn` are `WatchedIsLive` and `OwnFile`, which have `AllHeard` and `~Blind` as premises of their own. Nothing bounds clients, documents, sizes or scripts; the assumptions are `SizesAssumption` and `ScriptsAssumption`.
- **Web server, its end and its answers** (same module). Two more inductive invariants rest on `ServerInv`. `Fate` says how far each response has come (`Written`: the units sent are those counted in `done`, behind the header once it is written, in whole blocks for a dynamic file), that the path of a connection was named by a segment that was received and decides kind and size (`Described`), and that a freed structure reaches `send_message()` only for a client that left (`Treated`). `OnlyClientsEndIt` is `DiesOfClientsOnly`: while its premises hold, each way to end is taken only for its own reason, because reasons are fewer than descriptors (`RoomForSocket`, `RoomForEvent`, `RoomForFile`), and because blocks that run out mean a remainder (`BlocksRunOut`). `Tale` says what the units are: while the header is under way it is that of the document named last; afterwards it stays that of the segment it was made for, and the file behind it is the one named last, unit by unit; a document that can be served goes out in whole blocks that fit (`WholeBlocks`, `BlockFits`). `AnswersAreRight` is `RightAnswer` in every behaviour where no connection is ever without a path. That premise is about the past: a connection that was once treated without a path may have sent the header `HTTP_OK_MSG` for whatever number `malloc()` left in `conn->file`, and a third segment that names a missing document does not take it back. `AnswersToPaths` replaces it by a condition on the scripts (`PathsBegin`: the first segment of a client reaches the end of the path). Clients that neither reset a connection nor leave without a word (`Patient`) make `AllHeard` true (`PatientClientsAreHeard`), and with `PathsBegin` nobody is `Blind` either (`PatientClientsAreSafe`): for them the premises of the four properties are never false.

Only model-checked:

- liveness (`ReadyThreadRuns`, `EndReturns`, both `Answered`), which the prover does not reach: every safety property of a passing run is stated by a theorem;
- what documents say and the code does not do (section 5).

Some theorems state what no run repeats: `QueueStaysSorted`, `FieldsAgree`, `LinesAreOrdered`, `FreedIsNeverWatched`, `FilesBounded`, `NoForkPreempts`, `PathLeftToServer`.

## 5. Where code and documents disagree

Shown by runs:

- *Scheduler, upward forks.* A handler that forks a thread of higher priority posts its semaphore (`so_scheduler.c:69`) before it has queued itself (line 71) and waited (line 73). Two pthreads are inside the library without a lock.
- *Loader, last page.* The flag of a partial last page lies behind the array (`loader.c:89`).
- *Web server, half-closed clients.* In comes before out (`aws.c:520`): a client that shuts down its sending side right after its request is removed unanswered.
- *Web server, second requests.* After a 404 the connection stays open with `header_is_written` set (`aws.c:366`): the file of the next request comes without a header, behind the 404 of the first.
- *Parser, requests without a length.* `content_length` is a `size_t` (`http_parser.h:124`), so that the test `> 0` at `http_parser.c:1421` is true of the -1 of a message that has no Content-Length. Such a request never completes, and what follows it in the buffer goes to `on_body`; the branch for it (line 1424), whose comment says that the next request is read, is dead. The server does not notice: it makes no use of `on_message_complete` and initialises the parser for each buffer.

Found with the same modules, and not kept as runs:

- With upward forks (`UpwardForks = TRUE`, three threads), `NoNullDereference`, `ConsistentAtRest` and `StuckOnlyWhenWaiting` fail as well. What happens to the threads, with a quantum of one: t1 (priority 0) forks t3 (priority 0), is charged and queued, and t3 runs; t3 forks t2 (priority 1), which line 69 posts while the queue is [t1]. t2 returns and clears `running_thread` (line 43); meanwhile t3 queues itself (line 81): [t1, t3]. Both find t1 in front and no running thread (lines 45 and 86), both dequeue, which takes out t1 and then t3, and both post t1. Now t3 is READY and in no queue, t1 has two tokens, and `so_end()` waits for t3 for ever. The same two pthreads may both decrement the quantum of t2 (line 160) before either looks at it, so that an unsigned one passes zero. Hence the convention of `SoScheduler`: `NoThreadLost`, `OneProcessor`, `QuantumNeverWraps`, `ImplementsMultilevelQueue`, `ReadyThreadRuns` and `EndReturns` are false of the code without it.
- With `EagerForks = TRUE`, `OneAtATime` fails without any upward fork: `main()` may not call `so_fork()` while a thread can run. `src/Homeworks/Thread Scheduler/README.md` does not say so.
- `so_wait()` returns -1 also for a valid device, when no other thread is ready; `so_scheduler.h:73` promises -1 only for a missing device.
- A thread of higher priority that a handler forks starts one unit short of its quantum, or is charged later: the caller's nested `so_exec()` charges it (`so_scheduler.c:71`; `README.md:43` of the scheduler).
- The scheduler's `README.md:95` initialises semaphores with `pshared` 0, the code with 1 (`so_scheduler.c:95`); `README.md:173` reschedules on a signal only for a higher priority, the code always yields.
- An access to the byte behind a segment is served instead of refused (`loader.c:60`; the comments at lines 166 and 172 state the same comparison). `LoadedMemory` therefore has the action `Stray`, which allows this byte and what lies on a page that a region reaches; were the comparison off by more than a page's rest, `ImplementsLoadedMemory` would fail. If another segment starts at that byte, its first page gets zeros and the permissions of the first one.
- The results of `lseek()` and `mprotect()` are not looked at, a `read()` that brings less is taken for a whole one (`loader.c:134-140`), and neither is the `malloc()` of the segments (`exec_parser.c:185`). The program then runs on other bytes, or cannot use a page. The refinement ends there (`Spoil`); that flags and pages stay in step, pages come on demand and accesses are answered is checked and proved beyond it.
- `seg->data` is never initialised (`exec_parser.c:185`), while the handler relies on NULL (`loader.c:68`). Without the premise `ZeroedHeap`, `FlagsTellMappings`, `Answered` and the refinement fail.
- A system call given memory that was never touched fails with EFAULT: the kernel does not ask the handler. `LoadedMemory` therefore may refuse any call; if it may refuse only those without right, `ImplementsLoadedMemory` fails.
- `connection_remove()` closes `conn->file` also when it was never set (`aws.c:130`), and that may be another connection's file or socket, the listener, or the epoll descriptor. A client need not leave without a word for that: one that sends its request and is reset before `recv()` is enough. Without the premise `AllHeard` (something was received on every connection that was removed) TLC finds `OwnFile` and `WatchedIsLive` violated in the instance of `web`. So the server keeps its connections apart only for clients that are `Patient`.
- `settings` is initialised by position, and `on_path_cb` lands in the slot of `on_url`, not of `on_path` as the comments have it (`aws.c:42` "Callback is invoked by HTTP request parser when parsing request path.", `aws.c:54` "except for on_path callback", and the name beside the initialiser at `aws.c:59`). Hence a query string becomes part of the file name. With `PathSlot` as commented, `PathLeftToServer` is false of any request with a query; no run keeps this disagreement, the other five were preferred.
- The server ends for reasons no document names: a client that reads more slowly than a static file is sent (`aws.c:229`), a dynamic file larger than a block and no multiple of it, or an empty one (`aws.c:260`), `io_setup()` without a context left (`aws.c:279`), a read or write that cannot be submitted (`aws.c:301`), a descriptor table full of sockets that are shut down and never closed (`aws.c:128`). `DiesOfClientsOnly` and the premises of `RightAnswer` and `Answered` list them. What an asynchronous write did not fit into the socket is lost (`aws.c:308`).
- A request cut within its URL is served with the characters that came (`aws.c:467` ignores where the parser stopped). The second segment is refused by the fresh parser, `path` stays empty, and `set_connection_path_and_file()` leaves the file of the connection as it was (`aws.c:420`). The answer may thus be to a document nobody asked for; `RightAnswer` and `Answered` count it as an answer to what was read.
- Of two requests in one buffer the second is parsed only if the first announces its body's length or chunks; then the tail of a longer first URL stays behind the second one in `path` (`aws.c:49`), and what the two make together is opened (`Overlays`). Otherwise the second gets no answer. A body in a buffer of its own is parsed as a new request.
- A second request opens its file over the first one's descriptor, which is never closed (`aws.c:431`). `OwnFile` therefore allows a client as many files as it has sent segments.
- `nread` is kept modulo 256 between calls (`http_parser.c:1571`), so the limit on the header size does not hold over several buffers. The server parses one buffer, which is smaller than the limit.
- After `C` or `M` a wrong letter of a method is not refused (`http_parser.c:618-633`).

## 6. What is not modelled

- *Loader:* the entries of the auxiliary vector that are constants or copies (their places are fixed, no state depends on them); `so_init_loader`'s success, which the initial state presumes; signals other than SIGSEGV, for which the handler is not installed; which of the header checks of `so_parse_exec` turns a file down (they keep no state).
- *HTTP parser:* responses, which the server never reads; the letters of methods, versions and header names, and CONNECT; `nread`, which counts header bytes; the call with no bytes; callbacks that return an error or skip the body (the server's only callback does neither); sizes of more than two digits, and an announced length of `SizeMax`.
- *Web server:* the path computations of `set_connection_path_and_file` and `determine_file_type`, with the `strtok()` on a copy there: a document and its kind are constants. Asynchronous reads and writes complete within the step that submits them, because `send_dynamic_file` waits for each. Failures of `epoll_ctl()`, which the code either ends on or ignores. `tcp_connect_to_server` and `tcp_close_connection`, which nobody calls; logging.
- *All:* exits on allocation failures of the scheduler and the server.
- *Scheduler:* what becomes of threads once two pthreads are in the library: `SoSchedulerSteps` goes on from there, but nothing is stated of it. The memory of `scheduler->threads` while `so_end()` reads it and `add_thread()` reallocates it.

## 7. Plan

Done in this order: queue operators, scheduler calls and their proof, steps, array, loader and its proofs, web server, request parser; then the start of the executable and accesses of the kernel, second and cut requests of the web server, bodies in the parser. What comes next:

1. *Composition:* the parser with the event loop (what `path` holds decides which file is opened), methods letter by letter.
2. *Web server:* descriptors running out, and the bytes of `path` instead of `Overlays`.
3. *Scheduler:* what can still be said of clients that fork upward, statement by statement (that no thread is freed while it is used, that one which waits is not dispatched).
