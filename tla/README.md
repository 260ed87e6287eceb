# TLA+ verification of unix_network_program

The repository is a study collection: the sample programs of two books on Linux
network programming, small exercises, and one larger program, the load balancer
*springsnail*. There is no single system, but there are several programs with a
concurrent or event-driven core. These are what this project models: the thread
pool and the HTTP server on top of it (chapter 15), springsnail, the HTTP
parsers (chapters 8 and 15), the timer list, the timing wheel and the time heap
(chapter 11) and the server that uses the list, the process pools of chapter 15,
the chat server over shared memory (chapter 13), and the servers that are one
loop around `select`, `poll` or `epoll` (chapter 9 and `unix_network_program`).

Paths below leave out the prefix `src/Linux高性能服务器编程/codes示例/`.

- [Inventory](#inventory)
- [Modules](#modules)
- [How the modules correspond to the code](#how-the-modules-correspond-to-the-code)
- [Runs](#runs)
- [Fairness](#fairness)
- [Proofs](#proofs)
- [What is not modelled](#what-is-not-modelled)
- [Plan](#plan)

To check everything, in this directory: `tlc -config <X>.cfg MC<X>.tla` for
`X` in `ThreadPool`, `HttpServer`, `HttpConn`, `Relay`, `Mgr`, `BalancePool`,
`Timers`, `EventLoops`, `ProcessPool`, `ShmTalk`; `tlc -config Chap8.cfg
MCHttpConn.tla` and `tlc -config SelectCleared.cfg MCEventLoops.tla`, which are
meant to find a violation; and `tlapm <M>_proofs.tla` for `M` in `HttpServer`,
`HttpConn`, `Relay`, `Mgr`, `ProcessPools`, `EventLoops`, `Timers` and `ShmTalk`. `PROJECT.json` lists, for
every definition, the lines it translates; for every property, a defect of the
code that breaks it; and the hazards of the code with their lines.

## Inventory

### Thread pool: `15/15-3threadpool.h`, `14/14-2locker.h`

- *State*: `m_workqueue` (a list of request pointers), `m_queuelocker` (a
  mutex), `m_queuestat` (a semaphore), `m_stop`, the threads.
- *Operations*: the constructor starts and detaches the workers; `append` puts
  a request into the list or refuses it; `run` is the loop of every worker; the
  destructor sets `m_stop`.
- *Interactions*: callers and workers share the list, the lock and the
  semaphore. A worker calls `process()` of the request outside the lock. The
  HTTP server is its only user.
- *Hard*: every interleaving of `append` and `run`; the semaphore is posted
  after the unlock; an interrupted `sem_wait` is not retried and its failure
  is ignored; `front()` and `pop_front()` are two operations; workers never
  joined outlive the object.
- *Correct when*: the list is only used under the lock; `front()` never meets
  an empty list; the bound is kept; no request is lost, run twice or left
  behind with every worker asleep; `append` returns; the pool behaves as a
  bounded FIFO.

### HTTP server: `15/15-6main.cpp`, `15/15-4http_conn.h`, `15/15-5http_conn.cpp`

- *State*: `users`, an array of `http_conn` indexed by the descriptor, with
  `m_sockfd`, buffers, indexes and parser state, `m_iv` with what is to be sent
  and `m_file_address` with the file mapped for it; the static counter
  `m_user_count`; epoll registrations (edge-triggered, one shot); the pool.
- *Operations*: the loop accepts, reads all there is and appends the session
  to the pool, writes the answer, or closes; a worker parses, composes the
  answer and re-arms the socket, or closes.
- *Interactions*: no lock protects a session. `EPOLLONESHOT` and the moments
  at which the socket is re-armed decide who may use it.
- *Hard*: the loop and a worker at the same session; a descriptor number that
  is used again while a worker is still closing it; unsynchronised updates of
  `m_user_count`; `append` refused; a request split over reads; a response
  written in parts; a hang-up while a file is mapped; `mmap` that fails.
- *Correct when*: one holder per session at any time; a session names its own
  socket; the counter counts; what a client sends is read; a client gets its
  whole answer, once and in order; a file is mapped as long as somebody will
  send or unmap it.

### springsnail: `springsnail/*`

A parent accepts nothing: it picks a child for every event on the listening
socket. Children accept clients and relay between each client and a connection
to a backend that was opened in advance.

- *Process pool* (`processpool.h`). State: per child a pid, a pipe and the last
  reported load; in each process `m_stop`, an epoll set and a signal pipe.
  Operations: choose the child with the lowest ratio and send it a byte; read
  reports; reap; pass SIGTERM on; in the child, accept, report, stop. Hard:
  merged edges, several one-byte reports read as one `int`, children that die,
  signals that are merged or arrive before their handler. Correct when: every
  waiting connection is accounted for; the balance never takes a child for
  freer than it is; SIGTERM stops everything.
- *Connection manager* (`mgr.cpp`). State: the maps `m_conns` (idle), `m_used`
  (in a session, under both descriptors) and `m_freed` (to be repaired).
  Operations: build the connections, `pick_conn`, `free_conn`, `process`,
  `recycle_conns`, `get_used_conn_cnt`. Hard: descriptor numbers used again
  within one batch of events; `insert` and `operator[]` of `std::map`; errors
  of `connect`. Correct when: every connection is in one place; events reach
  their owner; every socket is owned once; the load reported is right.
- *Relay of one session* (`conn.cpp`, `mgr::process`, `fdwrapper.cpp`). State:
  two buffers with two indexes each, `m_srv_closed`, the registration of both
  sockets. Operations: read from and write to both sides, and what `process`
  does with each result. Hard: partial reads and writes, edge-triggered events
  with a full buffer, closes in every state. Correct when: bytes are neither
  lost, repeated nor reordered while the session lives; nothing waits for an
  event that will not come.
- *Configuration and log* (`main.cpp`, `log.cpp`): read once, print; no
  behaviour of interest.

### HTTP parsers: `15/15-5http_conn.cpp`, `8/8-3httpparser.cpp`, `chap8/有限状态机.cpp`

- *State*: a buffer with the indexes of what has been read and checked and of
  the line's start; the parser's state; the content length.
- *Operations*: receive; find a line (`parse_line`); parse the request line, a
  header, the body.
- *Interactions*: `http_conn` is driven by the HTTP server's loop and workers;
  the other two are programs of one connection.
- *Hard*: input that is split anywhere, between a CR and its LF or inside the
  body, with all state carried over to the next call; the full buffer.
- *Correct when*: the verdict depends on the bytes alone; a parser waits only
  for a request that may still become complete.

### Sorted timer list and idle-connection server: `11/11-2lst_timer.h`, `11/11-3nonactive_conn.cpp`

- *State*: `head`, `tail`, the nodes with `prev`, `next` and `expire`; in the
  server `users` with a pointer to each session's timer, the flags `timeout` and
  `stop_server`, the signal pipe.
- *Operations*: `add_timer`, `adjust_timer`, `del_timer`, `tick`; accept,
  receive, close, `timer_handler`.
- *Interactions*: the alarm becomes a byte in a pipe and the byte an event; the
  tick closes sessions through `cb_func`; sessions point to timers and timers to
  sessions.
- *Hard*: pointers after any sequence of calls; events that announce input once
  and one `recv` that may leave some; three paths that free a timer.
- *Correct when*: the list is the sorted set of its timers; a session and its
  timer go together; a session is closed when it has been silent long enough,
  not before, and in the end always.

### Timing wheel: `11/11-5tw_timer.h`

- *State*: `slots`, `cur_slot`; in each timer `prev`, `next`, `rotation`,
  `time_slot`.
- *Operations*: `add_timer`, `del_timer`, `tick`.
- *Interactions*: the user keeps the pointer `add_timer` returned and must not
  use it after the timer has fired.
- *Hard*: rotation and slot of a timeout, above all for the slot under the hand;
  timers of one slot deleted in any order while others stay for more turns.
- *Correct when*: every tick calls exactly the timers whose ticks have run out.

### Time heap: `11/11-6time_heap.h`

- *State*: `array`, `capacity`, `cur_size`; in each timer `expire` and `cb_func`.
- *Operations*: two constructors, `add_timer`, `del_timer`, `pop_timer`, `tick`.
- *Hard*: the order after any mixture of insertions and pops; deletion that only
  takes the callback away; the array copied when it is full.
- *Correct when*: a tick calls exactly the timers that are due and not deleted.

### Process pools: `15/15-1processpool.h`, `15/15-2pool_cgi.cpp`

- *State*: `m_sub_process` with pid and pipe per child, `sub_process_counter`,
  `m_stop`; in each child its stop flag, its epoll set and sessions; in the
  CGI server also the processes a child starts.
- *Operations*: tell a child of a new connection, reap, pass SIGTERM on; in the
  child accept, serve, stop.
- *Interactions*: the parent writes to a child's pipe; children accept from the
  shared listening socket; signals in both directions.
- *Hard*: children that crash, SIGCHLDs that merge, SIGTERM at any moment, a
  counter that may point to a dead child. The template watches a pipe for
  signals in the child as well; the CGI server's child only sets a flag, and
  notices it if a call is interrupted.
- *Correct when*: connections are spread evenly over the children that live; a
  stop ends every process.

### Shared-memory chat: `13/13-4shm_talk_server.cpp`

- *State*: `users` (compacted: the last user fills the gap of one that leaves),
  `sub_process` from pid to slot, `user_count`, `terminate`; a segment of
  `share_mem` per slot; in a child its number `idx` and `stop_child`.
- *Operations*: accept and fork; receive a text into one's segment and announce
  the number; pass a number on; send the segment of a number; reap; stop.
- *Interactions*: memory shared by all children without a lock, pipes with
  numbers, signals.
- *Hard*: a child keeps the number it was forked with, also when its user has
  moved; segments change between announcement and use; process numbers are used
  again; SIGTERM at a child that has no handler yet, or is not yet in
  `epoll_wait`.
- *Correct when*: the tables agree with the children; nobody is sent his own
  words; a stop ends every process.

### Select and epoll servers: `src/unix_network_program/08_select.cpp`, `09_epoll.cpp`, `9/9-3mtlt.cpp`, `9/9-4oneshot.cpp`

- *State*: in `08_select.cpp` the descriptors twice, as an `fd_set` and as an
  array; in the others the registrations in epoll; in `9-4oneshot.cpp` a thread
  for every event and the variable its argument is in.
- *Operations*: accept, receive and print, close; the thread reads until EAGAIN
  and arms the socket again.
- *Hard*: an array that is never compacted; sockets that block; one accept for
  one edge; input between EAGAIN and arming; an argument in memory the loop goes
  on using.
- *Correct when*: what is selected on is what is open; nobody is waited for who
  was not announced; no input is forgotten; one reader per socket.

### Poll chat: `9/9-7mytalk_server.cpp`

- *State*: `fds`, an array of `pollfd` kept dense, `user_counter`; `users` by
  descriptor, with the last words of each and a pointer to what he is to be told.
- *Operations*: accept or turn away; fetch an error; remove a user; receive and
  tell the others; send.
- *Hard*: entries that move while the loop goes over them; `users` compacted as
  if it were indexed like `fds`; pointers into the entries of users who speak
  again or leave.
- *Correct when*: `fds` has every connection once; a pointer leads to the last
  words of another user who is there; the branch "code should not come to here"
  is not reached.

### Not modelled

- The other samples of chapters 5, 6, 9, 10, 13, 14 and 16 (one call each, or a
  client), the locks by themselves, notes. See *What is not modelled*.

## Modules

| module | models |
| --- | --- |
| `TaskQueue` | what a caller of the thread pool may rely on: a bounded FIFO whose elements are each run once |
| `ThreadPool` | the pool, its lock and its semaphore, step by step |
| `HttpServer` | the event loop and the workers on sessions; composes with the pool through `TaskQueue`, which `ThreadPool` is proved to implement |
| `HttpParse` | the three parsers, and what a complete or a wrong request is |
| `HttpWrite` | the answers of `http_conn`: the file that is mapped, the iovec, `write` |
| `TimerSet` | what a container of timers promises: a set, and a tick that fires what is due |
| `TimerList` | the linked list of timers, pointer by pointer |
| `TimerWheel` | the timing wheel, pointer by pointer |
| `TimeHeap` | the time heap, cell by cell |
| `IdleServer` | the idle-connection server; composes with the list through `TimerSet`, which `TimerList` implements |
| `SelectServer` | the select server and its two tables |
| `PollChat` | the chat server around `poll` |
| `EpollServers` | four servers around epoll, one with threads |
| `Relay` | one springsnail session, byte by byte |
| `Mgr` | the connection manager of one springsnail child |
| `BalancePool` | springsnail's parent and children |
| `ProcessPool` | the process pool template and the CGI server |
| `ShmTalk` | the chat server: parent, children and shared memory |
| `MC*` | constants and symmetry for TLC |
| `HttpServer_proofs` | theorems about `HttpServer` and `ThreadPool` |
| `Relay_proofs`, `Mgr_proofs`, `ShmTalk_proofs` | theorems about these three |
| `HttpConn_proofs` | theorems about `HttpParse` and `HttpWrite` |
| `ProcessPools_proofs` | theorems about `BalancePool` and `ProcessPool` |
| `EventLoops_proofs` | theorems about `SelectServer`, `PollChat`, `EpollServers` and `IdleServer` |
| `Timers_proofs` | theorems about `TimerList`, `TimerWheel` and `TimeHeap` |

`Relay`, `Mgr` and `BalancePool` are three views of springsnail, separated
where the code is: `BalancePool` knows of a child only how many sessions it
has, `Mgr` knows of a session only which of its sockets is armed and how it
ends, `Relay` knows one session in full. In the same way `HttpServer`, `HttpParse`
and `HttpWrite` are three views of `http_conn`: who may use it, what it reads, what
it sends. `TimerSet` has three specifications: time that passes between ticks
(`Spec`, for the list), ticks that are the clock (`SpecByTicks`, for the wheel),
and a set that may be full at the beginning (`SpecFilled`, for the heap). A
behaviour in which a tick calls nobody looks to a refinement like one without a tick;
the properties of the three containers therefore say as well that each `Tick` of
the code *is* a `Tick` of the set.

`MCTimers`, `MCEventLoops` and `MCHttpConn` hold programs that have nothing to do
with each other. Their variable `which` says which of them runs in a behaviour;
the others stay as they began. It is the sum of their state spaces, not the
product.

Definitions marked *Variant* are not part of a specification. Each is what the
definition after it would be with a plausible defect (a missing guard, a swapped
order); putting it in the place of that definition makes TLC refute the
property it is kept for.

## How the modules correspond to the code

### ThreadPool

One action is one operation on shared memory or one library call, so that
threads interleave where they can. `AppendLock`, `AppendChecks`,
`AppendRefuses`, `AppendPushes`, `AppendUnlocks` and `AppendPosts` are the lines
of `append`; the worker's actions are the lines of `run`. `ppc` and `wpc` are the
program counters. `lockOwner` is the mutex, `m_queuestat` the value of the
semaphore. `life` is the state of the object: `building` while the constructor
creates threads, `ready`, `stopping` after `m_stop` is set, and `destroyed`.
Details of the code kept on purpose:

- The test is `m_workqueue.size() > m_max_requests` and comes before the push:
  the list holds up to `MaxRequests + 1` requests. `Bounded` and the capacity
  in the refinement say so.
- `sem_wait` may return early with EINTR (`SemInterrupted`). Its result is
  ignored, so the worker goes on to the list without a unit of the semaphore.
  The test for an empty list is what makes this harmless.
- A null request can be appended and is skipped.
- The destructor frees the members while detached workers sleep in `sem_wait`
  or run; so does the constructor when a later `pthread_create` fails.
  `TouchDestroyed` is the step of a thread that uses a destroyed member: its
  behaviour is undefined in C++ and it is modelled as a thread that goes
  nowhere from there. Properties are stated for a living pool (`Alive`).

### HttpServer

The pool is an instance of `TaskQueue`; `ThreadPool` implements it, which is
what allows its use here. `mpc` and `wpc` are the counters of the loop and
the workers; `armed`, `inq`, `ended`, `open` are what the kernel knows of a
descriptor; `batch` is the result of the last `epoll_wait`. The actions of the
loop are the branches of `main` and the parts of `init` and `close_conn`; a worker
takes a session, parses (`WorkerNeedsMore`, `WorkerResponds`, `WorkerCloses`: the
outcomes of `process_read` and `process_write`) and re-arms.

`close_conn` is four steps (`removefd` with `close`, `m_sockfd = -1`, load and
store of `m_user_count`), because between them the loop may accept a connection
with the number just closed. History variables name what is *not* promised, so
that the properties claim everything else:

- `raced`: sessions that began while somebody still had the last session of their
  number in hand (`reused` says that there has been one). Two threads may use
  such a session at once, and nothing is claimed of it.
- `torn`: two updates of `m_user_count` have overlapped, so one may be lost.
  Nothing is claimed of the counter from then on.
- `doubled`: how often `close_conn` went through for a socket that was closed
  before. After `close_conn`, `process` goes on to `modfd(m_epollfd, m_sockfd,
  EPOLLOUT)`; the descriptor is usually -1 then and the call fails, but when the
  object has a new session meanwhile, that session is armed while it is in
  hand elsewhere, and two threads may close it, one after the other. Each counts
  it down. No updates need overlap for that; `CountExact` accounts for each one,
  and says that there is none without `reused`.
- `refused`: sessions whose request the full pool refused. `main` ignores the
  result, and the session is neither armed nor closed.

Parsing and composing are reduced to their outcome, and a response to being sent,
failing, or finding the socket full; `HttpParse` and `HttpWrite` have the rest.
`full` says that the client does not read: its socket is not ready for output until
it does (`ClientReads`, which no fairness makes it do) or goes away. A session that
waits for a full socket is armed for output alone, so what its client sends next
is not read (15-5http_conn.cpp:374-380). `MaxStalls` bounds how often clients stop
reading, not for how long.

### HttpParse

One action is one call of `read` or `recv`, or one turn of the loop in
`process_read` or `parse_content`. The text of a line is one or more tokens: what
matters is whether it is a good request line (`R`), a Content-Length header (`L`)
or something else (`x`), and where CR and LF are. `LineFound` and `NoLine` are the
two ways `parse_line` ends; line ends are overwritten with NUL as in the code,
and a line's text is the string up to the first NUL. The three programs share
`parse_line` and differ where the actions name `program`: `http_conn` knows
bodies, drains the socket before parsing and closes when the buffer is full;
the others parse after each `recv`.

The verdicts are checked against a declarative definition of requests
(`Complete`, `BadRequestLine`, `BadLineEnd`) that knows nothing of reads. Two
behaviours of `http_conn` are named in the properties because they are exceptions:

- If the body is not complete, the loop goes on with `parse_line`
  (lines 273-274 after line 311), which moves `m_checked_idx` into the body. Behind
  a line end it finds there it asks for the whole body once more (`Content`'s second
  branch); at the end of what has come the call returns, and the next one demands
  the whole body again from that point. A body that comes in two reads is never
  complete, unless as much again follows; the session waits. `bodySplit` marks it:
  a call of `process_read` began with `m_checked_idx` inside the body. The body that
  comes at once, behind its head or by itself, is not excepted, whatever line
  ends are in it.
- A bad line ends the loop like an open one and `process_read` returns
  NO_REQUEST (line 321), where the parser it came from returns BAD_REQUEST: the
  session waits until the buffer is full.

`chap8` has a `return LINE_BAD` inside the loop of `parse_line` (line 99): it calls
every line bad that does not start with its end. Its comment at line 102
promises LINE_OPEN; the run `chap8_line_open` shows the contradiction.

### HttpWrite

The members of `http_conn` that have to do with answers, for two connections that
share the memory files are mapped into. `Refuse`, `RefuseFile`, `ServeFile` and
`EmptyFile` are the returns of `do_request` together with the case of
`process_write` each leads to; `ServeFile` and `EmptyFile` include `mmap`, whose
failure the code does not look at. `Write` to `WriteDone` are `write`, one action
for each `writev`; the main loop calls it, so that one connection at a time is in it.
An address is a page, a file takes one or more of them, and a header is
`HeaderLength` units of `m_write_buf`. What an iovec leads to (`Units`) is a sequence of
units, and a unit of memory is a page together with the connection it is mapped for *now*:
what `writev` takes from the address of a file that another connection has unmapped and
mapped its own file over is not of the connection's own answer (`File`).

`init()` resets neither `m_file_address` nor `m_file_stat`, and `HttpWrite` keeps
both over the sessions of an object. What the next response is going to set anyway
(`m_iv`) is reset in `Emptied`, and the size of a file is forgotten when no address
is left to unmap: no code reads either before it is written. Three behaviours
of the code are wrong, and named as exceptions:

- `bytes_to_send` starts as the length of the *header*, and the loop ends when what
  was sent is at least half of it (line 387); the iovec is not advanced. A `writev`
  that takes less than it was given may therefore end the answer, or the next one
  sends it again from its start (`split`).
- A hang-up closes the session without `unmap` (`abandoned`): the pages stay mapped,
  and the address stays in the object.
- The next request of that object may be for a file that is refused after `stat`
  has overwritten `m_file_stat`: the old address is then unmapped with the length of
  the refused file, and may take pages of another connection with it. Or another file has been
  mapped where the first one was. `robbed` names the connections that lost pages so; what they
  are sent is what is mapped there next. `MappingsOwned` says that there are none as long as
  no client has hung up.

An empty file is mapped in vain and then falls into `default` (the case has no
`break`): the session is closed. That a process writing to an address nobody has
mapped gets EFAULT is the kernel's (`Faults`).

### TimerList and IdleServer

`TimerList` has one action per public method, and its variables are the members.
`Chain` follows `next`; `InsertFrom` is the private `add_timer`. The members of a
deleted node are reset, since no code may read them (`Forget`); a pointer that
still led to the node would break the refinement. A timer is only ever
postponed, as the server does. The refinement maps `expire - now` to the time
left in `TimerSet`.

`IdleServer` keeps time as time left, which makes it finite without a bound on
the clock: `left` belongs to `TimerSet`, `alarm` is the time to SIGALRM, `idle` a
history of how long nothing was read. `timer` is `users[fd].timer`, `user_data` the
pointer back. `Receive` takes some of what waits in the socket, perhaps not all,
and the rest is not announced again: such a session, also one whose client has
closed, is found by its timer. The `epollfd` that `cb_func` removes from is not the
one `main` uses (line 101 hides it); `close` ends the registration all the same,
which is what `Close` models. A unit of time is one TIMESLOT.

### TimeHeap

`array` has the cells, `cur_size` the number in use; the capacity is the number of
cells. `PercolateDown` and `HoleFor` are the two loops that move a hole, written as
functions of the number of moves. `Init` covers both constructors. `Delete` resets
the members of a deleted timer, as in the list; cells behind the last one keep
their pointers, as in the code. `del_timer` only takes the callback away, so a timer
is pending when it has one. A heap made with capacity 0 (`resize` doubles it, so it
could never grow) is excluded by the assumption on `Cap`.

### SelectServer

One action is one turn of the loop over `anSelectFdSet`, `Select` the call. The array
has no holes, so it is the sequence of its used cells. `ReceiveEnd` is the branch of a
closed connection *with* the loop that is meant to clear the array: it compares
`anSelectFdSet[i]` with `anSelectFdSet[dwSelectFdCnt]`, the cell behind the last
(line 131), which is 0 unless the array has overrun, so no entry changes; and it
would set the wrong one. Two consequences are in the model: when the number is
given out again it is in the array twice, and the second `recv` of the round
waits (`Blocked`); and the array grows with every connection, past its end after
`FD_SETSIZE` of them (`overrun`, where the model stops, for what follows is undefined).
The run `select_cleared` shows that the comment of line 127 does not hold.

### PollChat

`fds` is the array up to `user_counter`; an entry has its descriptor, whether
POLLOUT is asked for, and what `poll` reported. The code means to take events away
with `events |= ~POLLIN` and `events |= ~POLLOUT` (lines 160 and 175), which take
none away: POLLOUT stays asked for. `Revents` and `Tests` are the kernel's report and the order in which the
code asks for it. Clients close in an orderly way or reset. A client is a number;
`buf` has the number of whoever spoke last and `write_buf` the descriptor whose buffer
is pointed to.

When a user leaves, line 123 or 141 copies the data of the *last* user into
`users[connfd]`, where `connfd` is the descriptor that is closed: `users` is indexed
by descriptor, so this overwrites the entry of nobody but the one that left, and
those that still have a pointer to it (`astray`) will send what was copied.

### EpollServers

Four programs in one module, told apart by `program`: they differ in what is
edge-triggered and in who reads. `ready` is epoll's list, `armed` what it watches, `batch`
what `epoll_wait` returned. In `oneshot`, `StartWorker` passes the address of
`fds_for_new_worker`, a variable of the loop's block: `slot` is its memory, which the next
event overwrites, and which the compiler may use for something else between two
turns. `WorkerStarts` reads it; `misread` says that a thread has read the
arguments of another. `merged` says that one edge of the listening socket
stood for two connections.

### Relay

`buf`, `readIdx` and `writeIdx` are the fields of `conn`, indexed by the side the
bytes come from. `ReadClient`, `WriteClient`, `ReadServer` and `WriteServer` are
one event each in `mgr::process` with the function of `conn` it calls, the `switch`
over its result and the changes of registration. `interest`, `edge` and `batch`
are epoll: `Modfd` makes a socket ready again if the new interest is already
satisfied, as EPOLL_CTL_MOD does. `rcvq` and `sndq` are the socket buffers. The
peers write, read, close and reset.

Peers are of two kinds. *Orderly* ones take turns, as in HTTP: a request is
sent after the answer to the one before has been read, and nobody closes.
*Disorderly* ones do what they like. The distinction is in the properties
because the code needs it: when one buffer is emptied, `process` registers
*both* sockets for input only (mgr.cpp:202-207 and 272-276), so with both
directions busy, bytes in the other buffer may be left without anybody waiting
to send them. Without the assumption TLC shows that stall.

Two further behaviours are in the model and are not claimed away: if the
server closes while the client is slow, what is left in the buffer is cut off
(mgr.cpp:197-221), so after the session only `OnlyPrefixes` is promised; and a
client that half-closes after its request loses the answer (conn.cpp:74-77).

### Mgr

Three maps from descriptors to connections or `Absent`; in `m_used` also `NULL`,
which `m_used[fd]` inserts when an event of the batch names a descriptor that
is no longer in the map (mgr.cpp:152). That null entry stays; `insert` of a later
session under the same number does nothing, so the session is not found
under that descriptor. `DispatchedToOwner` states exactly how far that goes.
Descriptors are given out by the kernel, any free one, so that numbers return
as soon as possible. `Process` is an event with every outcome of `mgr::process`
(go on, free the session). `reported` is the last byte sent to the parent, the size
of `m_used` modulo 256. A repair that fails leaves its connection in no map
(`dropped`).

### BalancePool

The parent and each child have their own program counter, epoll edges, signal
pipe and batch. `toChild` and `toParent` are the two directions of the
socketpair; `ReadRatio` takes up to four bytes at once and builds the little-endian
`int` the code reads, whose sign is in the fourth byte. `psigs` and `csigs` are pending signals (a set: two
SIGCHLD are one), `psigpipe` and `csigpipe` what the handlers wrote. The window before a
process installs its handlers is modelled on both sides: SIGTERM kills there, SIGCHLD is not
seen.

A connection may be left in the backlog with nobody to look at it, in each of
these ways, and three counters say how often each has happened:

- `merged`: an arrival that found an event pending. Two connections for one edge of the
  listening socket are one message; two messages for one edge of a child's pipe are
  one `recv` and one `accept`, and the message that is left has no edge.
- `lost`: messages in the pipe of a child that is gone, since `get_most_free_srv` does not
  look at `m_pid`.
- `failed`: accepts that failed although a connection waited (processpool.h:230-235). The
  message has been read by then.

`BacklogAccounted` counts as on its way only what somebody will look at: a message whose edge
is pending (`Announced`), or that a child has an event for (`Reading`).

### TimerWheel

`slots`, `cur_slot`, `next`, `prev`, `rotation` and `time_slot` are the members;
`TickOne` is one turn of the loop in `tick`, folded over the timers of the slot.
`due` keeps what the caller asked for, in ticks, as the code rounds it (`Ticks`):
it is what the refinement maps to the abstract time left. The reference is
therefore the caller's count of ticks and not the rotation the wheel computes.
A timer of a whole multiple of `N` is put in the slot under the hand; the hand
is at the slot whose tick comes next, so its first pass is the tick that counts
one turn down, and the timer is in time. `tick` looks at its slot before the hand
moves on: a timer of `n` ticks is called by the tick after `n` others, for all
`n` alike, which is how `TickAndElapse` counts (it fires what had none left
before).

### ProcessPool

One module for both programs, for they differ in few lines; `program` says which
one runs. The differences are kept where the code has them: whom `Dispatch` tells
(the template skips reaped children and stops when none is left, the CGI server
does not look), what SIGTERM does in a child (`DeliverToChild`: a byte in a pipe,
or `stop_child`), whether the end of a pipe stops the child, whether a session may
end with a CGI process. A child tests its flag (`ChildTests`) and sleeps in
`epoll_wait` in separate steps; a signal in between does not wake the CGI
server's child. `sent` is a history of what each child was told.

The end of a child's pipe shows only when the younger children have gone as
well (`EndOfPipe`): each of them was forked with a copy of the parent's end.

### ShmTalk

`users` holds pids, which stand for the whole entry; `sub_process` is the table
from pid to slot; `idx` the number a child was forked with. `Pids` is small, so
that process numbers are used again. A segment of `share_mem` holds the author of
the text, and `heardSelf` collects the children that were made to send their
client its own words. `PassOn` and `ChildForwards` pass on the number: what the
segment holds is read when it is sent. `RemoveUser` is the body of the loop over
`waitpid`, which may find the children in any order; the entry it leaves behind the last user is overwritten in the model,
since the code never reads it before it is written.

`Tell` is `kill` with what happens in the children: before they have closed their
copies of the parent's pipe they still run the parent's handler, so that the
parent is told once more; after that and before `addsig` the signal is written
to a closed pipe and lost; from `addsig` on it sets `stop_child` and interrupts
`epoll_wait`, if the child is in it. `late`, `deaf` and `shared` name the children that
a property has to except.

## Runs

All passing runs use every action of their specification. `CHECK_DEADLOCK FALSE`
is set where systems may stop rightly: clients and callers have a bounded
number of things to do, and servers then wait. That they do not stop too
early is what the liveness properties say. The runs of `MCHttpConn` have none, so they look
for deadlocks: a parser may be at rest when it has its verdict or has read everything, and
nowhere else (`AtRest`).

| run | instance | states | shows |
| --- | --- | --- | --- |
| `thread_pool` | 2 callers, 2 workers, 2 requests and null, `max_requests` 1, 1 interrupt | 209 000 | safety of the list, no lost wake-up, progress, refinement of `TaskQueue` |
| `http_server` | 2 descriptors, 2 workers, pool of 1, `MAX_FD` 2, 3 clients, 2 sends, 1 client that stops reading | 550 000 | one holder per session, fields, counter, every request read |
| `http_conn` | requests of up to two lines, with right and wrong ends, and up to 3 tokens behind, line ends among them; all splits; buffer of 12; bodies of 3. 2 connections, header of 3, files of up to 2 pages in a memory of 3 | 1 475 000 | verdicts do not depend on splits; answers are right; files are mapped for who sends them |
| `relay` | buffers of 2, socket buffers of 1, requests of 2 and answers of 3 bytes, 2 rounds; 3 bytes each for disorderly peers | 280 000 | bytes conserved and in order, no edge lost, orderly sessions complete |
| `mgr` | 2 connections, 4 descriptors, batches of up to 3 | 967 000 | maps consistent under reuse of numbers, no socket leaked, load right |
| `balance_pool` | 2 children with 1 connection each, 2 clients, 1 crash, 1 SIGTERM | 514 000 | backlog accounted for, no underestimate, SIGTERM stops the pool |
| `timers` | 4 timers, times 0 to 3; wheel of 3 slots, 2 units per tick, timeouts 0 to 13; heaps of 1 and 4 cells | 16 000 | each of the three containers refines `TimerSet` |
| `event_loops` | 2 descriptors; select: 4 cells, 4 clients; chat: 3 descriptors, 2 users, 4 clients; epoll: 2 threads, 3 clients; idle: 2 timers, TIMESLOT 1 | 248 000 | tables agree, nobody is forgotten, sessions and timers together, idle ones closed |
| `process_pool` | both programs, 3 children, 2 clients, 1 crash, 1 SIGTERM | 168 000 | live children share the connections, SIGTERM stops the pool |
| `shm_talk` | 2 users, 2 process numbers, 3 clients, 2 texts or SIGTERMs | 476 000 | tables right, nobody hears himself, SIGTERM stops the server |
| `chap8_line_open` | the requests of `http_conn` for chap8 alone | violation | its comment on LINE_OPEN is wrong |
| `select_cleared` | as `event_loops` | violation | the comment of 08_select.cpp:127 is wrong |

Properties, each with what would break it in the code:

- `thread_pool`. `PoolSafe` joins the type invariant with `MutualExclusion` (breaks
  with a path of `append` or `run` without lock or unlock), `FrontSafe` (no test for
  empty, or pop outside the lock) and `Bounded` (the test outside the lock).
  `Accounting`: wake-ups (units of the semaphore, workers on their way, callers
  about to post) cover the list; breaks when a post or a wait is misplaced.
  `EventuallyFinished`, `AppendReturns`: progress. `ImplementsTaskQueue`: the
  refinement, and with it that no request is lost or run twice.
- `http_server`. `SessionsHeld` (one holder, and fields that match): no EPOLLONESHOT.
  `CountExact`: a path that closes without counting. `RequestRead`: a session that is not armed
  again. Each with the exceptions named above; `RequestRead` excepts the refused, the raced,
  and those whose client never reads again.
- `http_conn`. `VerdictRight`: breaks when a CR at the end of a read is judged
  before its LF has come. `WaitJustified`: a body that must be one byte longer than it is.
  `ResponseRight`: an iovec count that is not set. `MappingsOwned`: an error path
  that returns before it has unmapped.
- `relay`. `BytesKept` joins the types with `Conservation` (got, in our socket, in the
  buffer, and not read yet concatenate to what was written) and `OnlyPrefixes` (the
  same when it ends). `DrainedOrFull`: input that no event announces waits only
  behind a full buffer. `BufferedIsArmed`: what is in a buffer has somebody who will
  send it. `AnswersArrive`.
- `mgr`. `ConnectionsAccounted` (each connection in one place, each socket owned once),
  `DispatchedToOwner`, `LoadReported`.
- `balance_pool`. `BacklogAccounted`: a child that reads all messages and accepts once.
  `NeverUnderestimated`: a report made before the change. `TermStopsAll`: one `waitpid` for
  merged SIGCHLDs.
- `timers`. `ListImplementsTimerSet`, `WheelImplementsTimerSet`,
  `HeapImplementsTimerSet`: a wrong comparison or pointer, a rotation or slot off by
  one, a child that is not looked at on the way down, a timer that is due and not called.
- `event_loops`. `SelectSessionsWatched`: a close without FD_CLR.
  `SelectBlocksOnlyAtDuplicate`: a `recv` of what was not announced.
  `ChatTablesAgree`: a compaction that forgets the counter. `ChatPointsToSpeaker`: a
  speaker told of himself. `ChatShouldNotComeHere`: input looked for before the end.
  `EpollOneReader`: no EPOLLONESHOT. `EpollNothingForgotten`: arming that does not
  look at what has come. `IdleTimerOfSession`: a path that closes without `del_timer`.
  `IdleNotClosedEarly`: input that does not postpone the timer. `IdleClosed`: the alarm
  not set again.
- `process_pool`. `EvenlySpread`: a counter that does not follow the search for a
  live child. `GenericTermStopsAll`: one `waitpid` for merged SIGCHLDs.
- `shm_talk`. `TablesAgree`: a user that moves without its entry in `sub_process`.
  `NeverOwnWords`: a number sent back to where it came from. `TermStopsAll`: as above.

Why the bounds are enough. *thread_pool*: two of each kind give every pairwise
race; a list of two with three things to append is empty, full and refusing;
one interrupt is one unmatched wake-up, and the proofs cover all values.
*http_server*: three clients on two descriptors force a number to be used
again, with a worker still closing it; two sessions and a pool of one force a
refusal; one client that stops reading is enough to hold its session; `MAX_FD` 2 together with the counter's races reaches `show_error`.
*relay*: buffers and messages have lengths 2, 1, 2 and 3, so that every read
and write is split, the buffer wraps to its reset and an answer does not fit;
two rounds use the buffer again. *mgr*: two idle server sockets and one session
leave one number free, so every close is followed by reuse; three events are
both ends of a session and one more. *balance_pool*: one child full or dead
beside one free is every choice of `get_most_free_srv`; the second client merges
its edge, finds an event of the pipe pending, or meets a dead child. *http_conn*: the shortest
request with a Content-Length and its body has eleven tokens, so a buffer of twelve holds it and
longer input fills it; a body of three has room for a line end with a byte before or behind
it; a header of three units has a half that is no half of it,
and a memory of three pages has room for one file of two pages and a second one
beside it, or in its place, so that an address is used again. *timers*: with four nodes
every operation meets the only one, the first, the last and one in between, a heap
has three levels and an array that doubles twice, and four times give ties and every
order; with three slots, timeouts up to six ticks are two full turns and every
slot. *event_loops*: two descriptors and four clients are each number given out
again, twice for one of them; four cells are as many as one more client than
overruns; two users and three descriptors are the table at its limit with one to
turn away; two threads and three clients are a thread that starts while another
event overwrites its argument; two pieces of input are what one `recv` may
split; two sessions with timers can be due together or alone. *process_pool*: with three
children one may be dead between two that live, which is what the search for a
child has to get right; both messages may go to one child. `EvenlySpread` was
also checked with four clients and two crashes. *shm_talk*: the smallest table
in which a user moves is of two; the third client takes the slot, the segment
or the process number of one that left.

## Fairness

Weak fairness only, and only of what the system or the kernel runs:

- `ThreadPool`: each caller inside `append` and each worker. Not the
  constructor, the destructor, the interrupts or the calls themselves. Weak
  fairness is enough for the lock because whoever holds it leaves its
  section without waiting and everybody has finitely many calls to make.
- `HttpServer`: the loop and each worker run. Nothing of clients is assumed; what one that
  never reads brings upon itself is an exception of `RequestRead` and not ruled out by
  fairness.
- `Relay`: the child runs its loop, and peers write what they have to and read
  what they are sent (without the latter no relay can finish).
- `BalancePool`: the processes run and the kernel delivers signals. Nobody need
  connect, crash or send SIGTERM, and sessions need not end.
- `ProcessPool`: the processes run and signals are delivered.
- `ShmTalk`: the processes run. Clients need neither speak nor leave.
- `event_loops`: for the server with timers, the server runs and time passes
  (`D!ServerStep`, `D!Elapse`). Nothing of clients, and nothing of the three others, of
  which only safety is checked.
- `Mgr`, `http_conn`, `timers`: none; only safety is checked.

## Proofs

Every safety invariant that a passing run checks is a theorem about that run's
specification for every value of the constants; so is every action
property (`IdleNotClosedEarly`, and the refinements `ImplementsTaskQueue`,
`HeapImplementsTimerSet`, `ListImplementsTimerSet` and `WheelImplementsTimerSet`). The only
assumptions are the named ones on
the constants, which TLC evaluates in each run: finite sets of descriptors and
processes, bounds that are natural numbers, names that are different. One theorem
assumes more, `NeverUnderestimatedTheorem`, and the reason is below.

The argument is the same everywhere. A property is seldom inductive, so each module has
an inductive invariant (`...Inv`), a conjunction of named parts; a lemma says that
`Init` establishes it; lemmas, one for each action or group of actions, say that a
step preserves it; a theorem says that it always holds; and the theorems about the
properties follow from it. TLC checked the invariants on the runs' instances first.

### `HttpServer_proofs`: the pool

| theorem | says |
| --- | --- |
| `PoolInvariant` | the inductive invariant `PoolInv` |
| `PoolIsSafe` | `PoolSafe`, the invariant the run checks |
| `TypeCorrect`, `ListGuarded`, `FrontNeverEmpty`, `ListBounded` | its parts `TypeOK`, `MutualExclusion`, `FrontSafe`, `Bounded` |
| `NoRequestStranded` | `Accounting`: never fewer wake-ups than requests |
| `PoolImplementsTaskQueue` | every behaviour of the pool is one of `TaskQueue` |

`PoolInv` is `TypeOK`, `MutualExclusion`, `FrontSafe` and `Bounded` together with
`CallersOutside` (nobody is inside `append` while the object is being built or
taken down). None of them is inductive alone. That `front()` finds a request
rests on the test for empty having been made by the same worker under a lock
nobody else has held since, which is `MutualExclusion`; that the popped request
is the one read rests on `FrontSafe`; the type of that request rests on the
list not being empty; and the bound after `push_back` rests on the bound tested
under the same lock. There is one lemma per group of actions (owner, `append`,
`run`, the rest), with one step per action.

`Accounting` is proved relative to `PoolInv`. It adds the semaphore to the
cardinalities of two sets of threads, so four lemmas say what a thread that
enters or leaves one of these sets does to the sum; each action then moves at
most one thread.

The refinement needs one more fact, `ProcessesRequests` (what `process()` is called
on is never null). `PoolImplementsTaskQueue` is the whole safety part:
`TaskQueue!Spec` has no fairness.

### `HttpServer_proofs`: the server

`ServerInvariant`, `SessionsHeldTheorem`, `CountExactTheorem`: for all finite sets of
descriptors and workers, every capacity of the pool and every `MAX_FD`.

`SessionsHeld` says that a session has one holder. Holders are of six kinds (epoll, an
event of the batch, the loop, the queue, a worker, the refused), and two of them are
sequences in which a session might stand twice. The invariant therefore counts
places: `HeldOnce` says that the number of places of a session that did not begin in
a race is one if it is open and none if it is not, and that it stands at most once in
the batch and in the queue. Each action moves a session from one place to
another, and there is a lemma for each of these moves. `HeldOnce` needs to know that
who holds a session holds an open one (`InHandWhereUsed`, `ArmedOpen`,
`ClosingGone`), and that the objects name their sockets (`FieldsMatch`), for what
`close_conn` does depends on `m_sockfd`.

`CountExact` adds `LoadedFresh`: what a thread has loaded is what the counter still
holds, until two updates overlap; and `Balanced`, the equation itself. The sum of what is open
and what is not yet counted is split into the loop's share (`MainOwes`) and the number of workers
inside `close_conn`; a close moves one from the first to the second, or, of a socket that is closed
already, adds one to the second and to `doubled` (`ClosesOne`). That `doubled` is 0 without
`reused` (`DoubledNext`) needs `HeldOnce`: who closes a session that is in one place holds
an open one. It is `RacedReused` that makes this hold of all sessions.

### `HttpConn_proofs`

`ConnInvariant`, `VerdictRightTheorem`, `WaitJustifiedTheorem`, `ResponseRightTheorem`,
`MappingsOwnedTheorem`: for every set of requests, every size of the buffer and of the
body, every way to cut a request into reads, every number of connections, every set of
files and any amount of memory. `ConnInv` is the conjunction of two invariants, of which a
behaviour uses one.

- *the parsers* (`ParseInv`). The reference definition of a request looks at the whole text;
  the parser has looked at a part of it and has erased the line ends it has found. The
  invariant says what the two indexes and the state mean in terms of the text.
  `Unchecked`: from `m_checked_idx` on the buffer is what was received. `WholeLines`: up to
  there are whole lines, none of them blank, and the line that begins at `m_start_line`
  has no end yet. `HeadRead` says that with what the state knows of the first line, and that
  `m_content_length` is set once such a header has been met; `BodyRead` that a head has ended
  before `m_checked_idx` and where the body begins, of which it is `bodySplit` alone that lets a
  call begin anywhere else. `Chap8Waits` is about the third parser. The step that has to be got right is the one from
  `WholeLines` to the reference: that the first blank line of the text is the line the
  parser has met. `First` is a least element, so this takes a lemma that a nonempty set of
  indexes has one, and then three lemmas, `CompleteIs`, `OpenIsFine` and `BadIsBad`, that say
  of a position with these properties which of the reference's verdicts it is. `parse_line`
  looks for the first CR or LF; what it found and that there was none before is one lemma for
  each outcome.
- *the answers* (`WriteInv`). `ResponseInv`: `AnswerLaidOut` (what the iovecs of a connection
  that is written to are laid out for is its answer) and `TakenFromStart` (what was taken is a
  beginning of what they lead to, which is the answer unless the connection was robbed: `GivenIs`).
  That the addresses of an answer lead to the file that was mapped for it, and not to another, is
  `PagesOwned`, which `MapInv` has to carry. A file is a set of
  consecutive pages and needs no induction: `MapInv` is `MappingsOwned` in parts
  (`PagesKnown`, `PagesOwned`, `FileToSend`, `RobbedAfterHangup`) and `LeftByHangup`, which names
  the only way in which an address survives: while a connection is read from, a file that nobody
  hung up on is not mapped.

### `Relay_proofs`

`BytesInvariant`, `BytesKeptTheorem`, `DrainedOrFullTheorem`, `BufferedIsArmedTheorem`: for
every size of the buffers and of the socket buffers, every length of a message and every
number of rounds.

`BytesInv` joins the types and indexes with the equation that what was written is
what was received, is in the socket, in the buffer and on the way, concatenated.
Sequences are taken apart by lemmas (`ReadAppends`, `WriteSplits` and others) that say
once what reading or writing `t` bytes does to the part of a buffer between
the two indexes; the provers never see `SubSeq` of a function update.
`DrainedOrFull` is inductive once the events of the current batch are counted as
announcements (`DrainInv`). `BufferedIsArmed` needs the most: that orderly peers take
turns is a relation between how much each has written and received (`InTurn`), from
which it follows that only one of the two buffers is in use when the other is emptied. It
needs multiplication and division of the lengths by the lengths of the messages,
which the lemmas `DivFacts`, `MulMono` and `DivMono` state once.

### `Mgr_proofs`

`MgrInvariant`, `DispatchedToOwnerTheorem`, `ConnectionsAccountedTheorem`,
`LoadReportedTheorem`: for every set of descriptors and of connections.

`ConnectionsAccounted` is not inductive: that nothing is lost when a connection
moves needs to know what each of the three maps holds at which phase of which
function (`Phases`, `IdleConns`, `BoundConns`, `FreedConns`, `DroppedConns`), and that an open
socket is named by one connection's fields alone (`OneOwner`, `OpenOwned`). With them
`DispatchedToOwner` says which keys of `m_used` may hold NULL. `LoadReported`
compares a cardinality with the number of keys: each session has two keys that no other
has (`TwoEntriesEach`), proved with the finite-set theorems from two injections.

### `ProcessPools_proofs`

Of springsnail: `BalanceInvariant`, `BacklogAccountedTheorem`,
`NeverUnderestimatedTheorem`, for every number of children, of connections of each, of
clients, crashes and stops. Of the two pools of chapter 15: `SpreadInvariant`,
`EvenlySpreadTheorem`, for every number of children, clients and crashes. `MCProcessPool`
gives the generic pool's constants and variables names of their own, so that both can be
in one module.

`BacklogAccounted` counts what is on its way: an edge, an event in the
parent's batch, and the children that have an event of their pipe pending or in hand (`Coming`).
The children are counted by sets, so each step is a child more or less in one of two of
them (`ChildrenCounted`). `MessageThere` is what is missing from it: an event of a pipe in a
child's batch has a message to go with it, and a second one if the next event is pending, so
that a child that dies loses at least as many messages as events. `NeverUnderestimated`
is about the last report only, but the parent reads up to four at once, as
one little-endian `int`. `LastReportTrue` says that the last byte in each
pipe is the child's load; that the `int` is at least its last byte is arithmetic
as long as the fourth byte is not taken for a sign. That is the theorem's assumption
`ConnCnt <= 63`: a load is two for each session, and with 64 sessions a child reports 128.
For more the property is false: four reports read at once can give a negative ratio,
and the parent prefers that child. The constant is not bounded by the code, so the
model does not bound it either; TLC's instances are below.

`EvenlySpread` compares two children; what is inductive is where the difference is
(`TurnsTaken`): of the children that live, those the counter has passed in this
turn have been told of one more than those before it. A child that dies takes its entry out
of the comparison and nothing else, wherever the counter stands.

### `EventLoops_proofs`

`EventLoopsInvariant` and one theorem for each invariant of `event_loops`, and
`IdleNotClosedEarlyTheorem`. The specification runs one of the servers at a time; each has
an invariant, and steps of the others leave it alone.

- *select* (`SelectInv`). `SessionsWatched` needs little more than types. That the server
  waits only at a duplicate needs to know what has happened in the round so far:
  `DuplicateBehind` says that an announced entry that has gone silent was met before
  at a smaller index, and `ListenerFirst` that a descriptor that is accepted in this round is
  not among the announced ones (the listening socket is always entry one, so nothing has
  been closed yet).
- *chat* (`ChatInv`). `Entries` and `Owners` relate the array, which is compacted, with the
  table, which is not: each connection has one entry, and no two belong to the same
  client. `InputThere` says that POLLIN was reported for somebody who has
  input or has ended, which is why the branch that is not to be reached is not.
- *epoll* (`EpollInv`). `OneReader` rests on `EpollRegistered` (what epoll lists it watches,
  and what it watches is open) and `EpollThreads` (what has been reported in one-shot mode is
  disarmed). `NothingForgotten` also needs to know who will notice what comes *next*:
  `Attended` (every open socket is armed, in the batch or in a thread's hands),
  `ListedWhileReadable` for what is level-triggered, and `OneEdgePerClient` for an
  edge-triggered listening socket: at most one event in the list and one with the
  loop, as many as clients wait.
- *timers* (`IdleInv`). `Partners` is the bijection of sessions and timers; `ListedOpen` that
  no event of a closed session is left over; `Room` that `accept` finds a
  descriptor and `new` an address. For the action property, `IdleClock` adds that a session
  has been silent for exactly what its timer has spent, of which `TimerHandler`'s part is
  that whoever is closed has been silent to the limit.

### `Timers_proofs`

`HeapIsTimerSet`, `ListIsTimerSet` and `WheelIsTimerSet`: for every finite set of timers, every
capacity, all times and timeouts, any number of slots and any length of a tick, the heap, the
sorted list and the wheel implement `TimerSet`.

`HeapInv` is: the cells up to `cur_size` hold the allocated timers, each once, and no
timer expires before the one in the parent's cell. Nothing more is needed for the steps
of the heap; the work is in its loops, which the model writes as recursive functions of
the turn. What such a function computes is not given by the provers, which know only that
it is chosen among the functions that satisfy the recursion. `LoopValues` says, once for all loops,
that there is one as long as a set of values is closed under a turn, by least
counterexample; `LoopInduction` carries an invariant of the loop from turn to turn.

- `PercolateDown` (`Percolates`): with the timer that sinks put in the hole, every turn exchanges
  two cells, and the order holds everywhere but below the hole (`OrderedBelow`, `SinksOne`). Every
  turn that does not end the loop goes down, so there are turns enough (`SinkOneStep`).
- `HoleFor` (`AddedHeap`): the way up from the first free cell, with the timers on it moved down by one;
  the order holds but for the timer to be put in (`OrderedAbove`, `RisesOn`).
- `Heapified` (`Heapifies`): the order holds from the cell on that sank last.
- `Tick` (`Ticked`): the first timer is the next to expire (`FirstExpires`), so the loop
  pops exactly those that have expired.

A capacity of 0 is excluded (`TimeHeapAssumption`): `resize` doubles it and it stays 0.

`ListInv` is: there is an order in which `next` leads from each allocated timer to the one
after it and `prev` back (`Linked`), in which no timer expires before the one before it
(`InOrder`), and of which `head` and `tail` are the ends (`Ends`; `tail` of an empty list
may be anything, as `tick` leaves it). What the loops of the code meet is that order from
some place on (`ChainIs`), so each operation is a change of it:

- a timer is put behind a place (`Inserted`, `InsertedOrder`), which is the one `add_timer`'s
  loop stops at (`PlaceIs`);
- one is taken out (`Removed`, `RemovedOrder`): `del_timer`'s four cases are one;
- `adjust_timer` leaves the order (`AdjustInPlace`) or does both (`AdjustMoves`), and
  what it does is a delay of that timer alone;
- `tick` cuts off the first (`CutOff`), and those are the timers that are due (`TickCuts`).

`WheelInv` has two parts. `WheelLists`: the timers of each slot are linked in some order that
begins with the slot's pointer (`SlotLinked`, by the same `Linked`). `WheelTimes`: the ticks
that a timer was asked for and has left are `rotation` times the number of slots, and the slots
from the hand to its own (`Distance`). The second is what the arithmetic of `add_timer` has to
establish (`DivMod`, `ComesRound`) and what a tick has to keep (`HandMoves`: one slot nearer for
all but the slot under the hand, which becomes the farthest and has lost a turn). The first
says that no slot's timers are touched through another's pointers: `SameLinks` for the
slots an operation leaves alone, `InFront` and `Unlinked` for the one it changes, for either end
of the list and the middle alike.

The loop of `tick` changes the list it runs along. `Walking` says where it is: of the slot's
timers, those not called are still linked, `tmp` is past some of them, and these have one turn
less, the others what they had (`At`). A turn of the loop goes on to the next (`WalksOn`)
or takes one out and is no farther along a shorter list (`WalksPast`); either way one fewer is
left to meet, so as many turns as there are timers are enough (`WheelWalked`, `WalkEnds`).

### `ShmTalk_proofs`

`ShmInvariant`, `TablesAgreeTheorem`, `NeverOwnWordsTheorem`: for every number of users,
process numbers, clients and texts.

`Agrees` says that `users` and `sub_process` are inverse to each other, and is stated about a
pair of tables rather than the variables: it must hold between any two removals for one
SIGCHLD. `Reap` is a recursive function, and that each of its values agrees is a proof by
least counterexample (`ReapSteps`), since the library's induction is out of
the prover's reach. `NeverOwnWords` needs to know which numbers can be where:
`NumbersOfOthers` (a number on its way to a child that has not shared is not its own) and
`WordsOfOwner` (a segment that has not been shared holds the words of its owner or
nothing), with `SameSegment`: of two children with the same number, one that runs has
shared.

### What the proofs changed in the model

Four things the proofs found that the runs could not:

- `BalancePool` had bounded the connections of a child by what a byte can report. The code
  does not, so the bound is now in the one theorem that needs it, and `AsInt` has the sign
  of a C `int`.
- In `ShmTalk`, children that have left were reaped in one order; `waitpid` promises none.
  `HandleSignals` now takes any. `shared` had named children that had gone.
- In `HttpServer`, `epoll_ctl` on a descriptor that was closed meanwhile could arm it; it now
  fails, as in the kernel (`Registered`, and `InitAddfd`'s condition).
- Some assumptions on constants were missing that TLC's model values satisfy by
  themselves: that no process is `Nobody`, that no worker is the main thread, that sets
  are finite.

### Only model-checked

- Liveness: `EventuallyFinished`, `AppendReturns`, `RequestRead`, `AnswersArrive`, the two
  `TermStopsAll`, `GenericTermStopsAll`, `IdleClosed`. The prover handles neither fairness
  nor ENABLED.

No module that theorems are about uses a RECURSIVE operator.

## What is not modelled

- What a request says beyond the tokens above, and what a header of an answer says;
  the bound of `m_write_buf`, which no answer of the program reaches (an answer
  is a header with a number or a fixed page, under 300 of 1024 bytes); the array
  bound of `users`: `main` guards `users[connfd]` by the number of sessions and not
  by `connfd` (15-6main.cpp:122), which matters only after 65536 descriptors.
- What threads that run on after the pool was destroyed do to its freed members
  (15-3threadpool.h:67): `TouchDestroyed` says when it happens, nothing is
  claimed of what follows.
- That springsnail's children repair connections only when `epoll_wait` has timed
  out (processpool.h:209), so that a child that is never idle for five seconds never
  does: `recycle_conns` is an action of `Mgr` that may come whenever a child waits; that it comes
  is promised nowhere.
- A failing `accept` in the idle-connection server, whose result it does not
  test, and the destructor of the timer list, which runs at exit.
- `cond` of `14-2locker.h`, which no program uses.
- Failures of memory allocation, and of `epoll_ctl` on valid descriptors.
- Undefined behaviour beyond the points named above: the model keeps the
  threads of a destroyed pool and a torn counter, and claims nothing of them.
- That `kill` with the pid -1 of a reaped child (15-2pool_cgi.cpp:371) reaches
  every process of the machine: only the pool's processes are in the model.
- Reads of a shared segment while it is being written: a text is one value.
- Everything in the inventory under *Not modelled*.

## Plan

In order of importance; all of it is done.

1. `ThreadPool` with `TaskQueue` and proofs.
2. `Relay`.
3. `Mgr`.
4. `HttpServer`.
5. `BalancePool`.
6. `HttpParse`.
7. `TimerList` with `TimerSet`, and `IdleServer`.
8. `TimerWheel` against `TimerSet`.
9. `ProcessPool`.
10. `ShmTalk`.
11. `TimeHeap` against `TimerSet`.
12. `HttpWrite`.
13. `SelectServer`, `PollChat`, `EpollServers`.

Then the theorems, one module after the other, until every safety invariant and every action
property was one. What is left are the liveness properties, which the prover cannot express.

Of the rest of the repository, two programs have a loop of their own that could be
modelled in the same way: `9/9-8multi_port.cpp` (an echo server on two protocols) and
`10/10-1unievent.cpp` (signals as events, which `IdleServer`, `ProcessPool` and
`BalancePool` have as a part).
