# A model of the Docker deployer (CCTAS) and of the messaging library it vendors

TLA+ modules, TLC configurations and TLAPS proofs about two programs of this
repository:

- `src/Deployer.js` with `src/Utilidades/`, which deploys a *service* (a set of
  *components*, each with a number of *instances*) as Docker containers on one
  machine and takes them down again;
- libzmq 3.2.3 in `pruebas/createContainer/zeromq-3.2.3/src/`, over which the
  deployed components and the agents of `src/runtime/` talk. It is built and
  installed into their containers, and it is the concurrent core of the system.

Line numbers without a file are those of `src/Deployer.js`; file names ending in
`.cpp` and `.hpp` are those of libzmq.

## The system

| Component | State | Operations | Hard part |
|---|---|---|---|
| Deployer, first half (12-201) | three JSON databases in `./DB`, read once at the start of the process and written back as a whole; `./Files` | `check_DB`, `check_service_uri`, `read_Service_Json`, `check_Deployer_Parametres`, `check_component_uri`, `check_Service_Runing_DB` | several processes over the same files, stale copies, a crash in a save, a failing extraction, a timer instead of a completion |
| Deployer, second half (205-385) | requests that are open at the Docker daemon; the networks, images and containers of the daemon | `create_network`, `image`, `create_containers`, `runContenedor`, and `run` of dockerode | answers in any order, errors of single requests, exceptions in callbacks, death with open requests |
| `Utilidades/` | the daemon, `ServicesRuning.json` | `stopAndEliminateContainers`, removal of networks, reset of the database | calls that do not wait for each other, a timer, a loop variable used in a callback |
| libzmq: mailbox and queues | chunks of a lock-free queue, three pointers, signals | `send`, `recv`, destructor | lock-free reads, wake-ups, memory that is freed and used again |
| libzmq: pipe | counters, watermarks, a state of seven values at each end | `read`, `write`, `flush`, `rollback`, `hiccup`, `terminate`, five commands | two ends in two threads that terminate each other |
| libzmq: context and ownership | slots, sockets, tree of owned objects, sequence numbers | create, bind, connect, close, reap, `zmq_term` | destruction while commands are on their way |
| libzmq: socket types | arrays of pipes with an active part, a current pipe | `xsend`, `xrecv`, `xhas_in`, and the events of the pipes | pipes that come and go in the middle of a message |
| libzmq: publish/subscribe | two tries, ranges of pipes, reference counts | subscribe, send, receive, notify | dropped subscriptions, pipes that go in the middle of a message |
| libzmq: engine and codec | greeting, encoder, decoder, buffers | `in_event`, `out_event`, `activate_in`, `activate_out`, `terminate` | streams cut anywhere, old peers, back-pressure, the end of a connection |
| libzmq: session and connecter | pipe, engine, timers, the interval | attach, detach, reconnect, linger, terminate | all of these at the same time |
| libzmq: pollers and timers | registrations, events of a batch, a multimap | `add_fd`, `rm_fd`, `set_pollin`..., `add_timer`, `cancel_timer`, `loop` | callbacks that change what is being iterated |
| libzmq: calls, poll, proxy, options, listener | ticks, time stamps, options | `zmq_send`, `zmq_recv`, `zmq_poll`, `zmq_proxy`, `zmq_setsockopt`, `zmq_getsockopt`, bind | throttled commands, timeouts, signals, termination |
| `runtime/`, example service, `Clases/download.js`, `Clases/spec_helper.js`, the rest of `pruebas/` | | | see "Not modelled" |

The first half of the deployer ends in `create_network(ServiceIDName)`; the name
that `check_Service_Runing_DB` chose is the name of the network and a part of
the name of every container. The utilities undo both halves. In libzmq an
application calls a *socket*; the socket exchanges messages with *sessions* in
I/O threads through *pipes* and commands through *mailboxes*; a session has an
*engine* on a connection, driven by a *poller*; the *context* owns them all, and
its *reaper* destroys closed sockets.

## Modules

| Module | Models | Extends |
|---|---|---|
| `InstanceNames` | names of instances: stem of a URI and a count | |
| `RuningDB` | abstract: a deployment is given the first free name, in one step | `InstanceNames` |
| `RuningScan` | the loop of `check_Service_Runing_DB`, statement by statement, with its theorems | `InstanceNames` |
| `ServiceRegistry` | the first half of `Deployer.js`, many processes | `InstanceNames` |
| `Launcher` | the second half and `docker.run` | |
| `Utilidades` | `elinimateNetwork.js` and `stopAllContainers.js` beside the deployers | `Launcher` |
| `Yqueue`, `Ypipe`, `Signaler` | `yqueue_t`, `ypipe_t`, `signaler_t`, one access at a time | |
| `Mailbox` | `mailbox_t` with its senders and its reader | the three above |
| `CommandQueue` | abstract: a queue of commands | |
| `Pipe` | a pair of `pipe_t` | |
| `Own` | `own_t`: owned objects, sequence numbers, acknowledgements | |
| `Ctx` | `ctx_t`, `socket_base_t`, `reaper_t`, a listener and its session | `Own` |
| `PipeArray` | `array_t`, `fq_t` and `lb_t` | |
| `Patterns` | PULL, PUSH, PAIR, DEALER, ROUTER, REQ, REP | `PipeArray` |
| `Trie`, `Dist` | `trie_t` and `mtrie_t`, `dist_t` with the shared contents of `msg_t` | |
| `PubSub` | PUB, XPUB, SUB, XSUB | the two above |
| `Codec` | `encoder_t`, `decoder_t` and their v1 forms | |
| `StreamEngine` | two `stream_engine_t` on a connection | `Codec` |
| `Session` | `session_base_t`, `tcp_connecter_t`, engines, a socket | `Own` |
| `Epoll`, `Kqueue`, `PollSet`, `SelectSet`, `DevPoll` | the five pollers | |
| `Poller` | `poller_base_t` and the loop over each of them | instances of the five |
| `Options` | `options_t` and `tcp_listener_t` | |
| `SocketApi` | calls of an application, `zmq_poll`, `zmq_proxy` | `Options` |
| `..._proofs` | theorems | the module they are named after |
| `MC...` | constants for TLC, where a `.cfg` alone cannot give them | the module they are named after |

Operators whose comment begins with "Mutation" or "Mutant" are wrong variants of
an operator that follows. No specification uses them; putting one in the place
of its original makes a run fail, which shows that the property depends on the
code (`PROJECT.json`, "mutants").

### InstanceNames, RuningDB, RuningScan

A URI loses its separators and is followed by a count. What the strings tell
apart is kept: counts of one service give distinct names
(`InstanceNameAssumption`), two services may meet in a name. `RuningScan` has
the variables of the function: `count`, `incremented`, the position `i` in the
`for ... in` over the keys, and `db`, the keys in their order of insertion.

### ServiceRegistry

`status` and `disk` are the files, `mem[p]` the copies of process `p`, `pc[p]`
the function it is in, `name[p]` its `ServiceIDName`. One step is what a process
does between two operations on the file system. `fs.writeFileSync` is two: the
file is emptied (`Truncate`), then written (`WriteText`); when another process
has written in between, the end of a longer text may stay behind and the file
is no JSON (`"torn"`). `require` of such a file, or of an empty one, throws and
ends the process. The extraction of the archive runs beside the process
(`unpacking`), its callback may come before the last file is on the disk, and
the code waits two seconds: `SaveService` waits for the files unless the fault
`"slow flush"` is on.

| Action | Code |
|---|---|
| `Start`, `FindDB`, `OpenNewDB`, `WriteNewDB`, `RequireDB` | 12-32, three times |
| `KnownService`, `NewService`, `ExtractCallback`, `SaveService`, `WriteService` | 63-103 |
| `read_Service_Json` (with `RejectsParametres`) | 108-143 |
| `SaveComponent`, `WriteComponent` | 147-167 |
| `check_Service_Runing_DB`, `WriteRuning` | 173-201 |
| `Flush`, `Crash` | environment |

`Exclusive` states that no process starts while another one is in this half
(the operator waits for the network before the next deployment). It is a
constant, which the theorems use. The run has both kinds of behaviours: in
`MCServiceRegistry` the variable `turns` says whether deployers take turns, with
crashes only, or the first two run together with every fault.

### Launcher

`net`, `task` and `run` are the requests a deployer has open: for its network,
for the image of each component, for the container of each instance. The
daemon's own state is `networks`, `images` and `container`. A step carries a
request out and runs the callback. A callback that throws ends the process:
`networkResult` without an id (213), a type of the cardinality that the service
does not have (217), an image without a tag anywhere on the machine (245, fault
"untagged"), a build file that cannot be read (255, fault "no file"),
`container.remove` without a container (302). The run has the faults of the
network, of both lists, "untagged", of the build and its stream, of attach, and
kills; the faults "create", "start", "wait" and "no file" are in the theorems
only ("no file" ends a deployer at the same place as "untagged"). Requests of
a dead process may still be carried out; nobody makes the next one. The daemon
is modelled from its use: it accepts networks of the same name, refuses a
container whose image is missing or whose name is in use, refuses to start a
container on a network name that is missing or ambiguous, and refuses to remove
a running container.

| Action | Code |
|---|---|
| `Launch`, `create_network` | 125, 205-221 |
| `image`, `buildImage`, `endBuild` (with `create_containers`) | 223-288 |
| `createContainer` | 290-384 and lines 384-388 of dockerode's `docker.js` |
| `attach`, `start`, `wait` | lines 389-414 of dockerode's `docker.js` |
| `remove` | 295-310, the callback of `docker.run` |
| `Exit`, `Kill` | environment |

### Utilidades

`recorded` is `ServicesRuning.json`. A deployer reaches `create_network` by a
step of `RuningDB`, which `ServiceRegistry` implements when deployers do not
start together. The utility has its requests open at once: `lists` (of the
containers and of the networks), `stops`, `removes`, `netRemoves`, and `timer`.
`known` is the copy of the database it read when it started; the timer empties
that as well as the file, so a list of networks that is answered later finds
nothing to remove. The removal of a network is carried out by the daemon
(`RemoveNetwork`) and its answer (`netAnswers`) taken in a later step
(`NetworkRemoved`). The callbacks throw after an error of a list, and the
callback of every removal throws because `i` has left the array (line 18); the
open requests are then still carried out, and the timer is gone. `earlier`
records who was registered when the utility started: only their networks may be
removed (`SparesLater`). The containers of a deployer may disappear at any time, so
`attach`, `start` and `wait` of `Launcher` have an alternative for a container
that is gone. The utility is run once.

### Mailbox

A step is one access to memory or to a descriptor that another thread sees:
taking `sync`, writing an element, the exchange of the spare chunk, linking a
chunk, the compare-and-swap of `flush` and of `check_read`, a signal. `heap` are
the chunks that `malloc` returned; a freed address is returned again. The reader
destroys the mailbox when it has every command. `CommandQueue` is what the other
modules take a mailbox to be: `sent` are the commands of all threads, `queue` those
that wait, `received` those that were taken. In `Mailbox` a command is sent when it
is published, so that `queue` is a part of `written`, the history of all writes. The memory is sequentially consistent, as the
atomic operations of `atomic_ptr.hpp` with their barriers on x86 are.

### Pipe

Each end has the members of `pipe_t`; `upipe` are the ypipes by number, with what
is flushed and what is not; `cmds` are the commands on their way to each end. One
step is one method, `terminate` is two: the command `pipe_term` is sent before
the delimiter is written.

### Ctx

Objects have an `own_t` part (`Own`: owned objects, `sent_seqnum`,
`processed_seqnum`, `term_acks`) and a life. `mail` holds the mailboxes of the
slots, of the I/O thread, of the reaper and of `zmq_term`. `create_socket`,
`bind_inproc`, `bind_tcp`, `find_endpoint` and `connect_inproc` (two steps, since
the endpoint is used after the lock is released), `unbind_tcp`,
`disconnect_inproc`, `close`, `accept`, `detach`, `process_reap`,
`process_reaped`, `destroy_socket`, `terminate` and `stop_sockets` (two steps,
`ctx.cpp` 94-108) are actions; `SocketCommand` and `IoCommand` process one
command of the mailbox, whatever it is. Of the pipes only the handshake of their
termination is kept.

### Patterns and PubSub

`w` is the state of a socket and of its ends of the pipes; the methods are
operators from `w` to a result and a new `w`, so that `xsend` of REP is the one of
ROUTER as in the code. Peers deliver whole messages and read whole messages; the
application works part by part, and between two of its calls the socket may
process `bind`, `activate_read`, `activate_write`, `pipe_term` and
`pipe_term_ack`. In `PubSub` both ends are complete: subscriptions are parts that
travel up, messages travel down, each queue has its watermark, and `hist` records
what was told, seen, lost and leaked. The tries of `Trie` have the tables of the
code (`min`, `count`, `next`, `live_nodes`).

### Codec and StreamEngine

Bytes have four values and a long length has two bytes (`Byte`, `Long`), so that
the boundaries of both framings are at 2, 3 and 4 bytes. An encoder and a decoder
are the state machines of the code with their `to_read`, `to_write` and `next`.
The greeting, the recognition of an old peer by its first bytes, the identity
message whose header was sent as a greeting, and the header of a long length are
bytes on a wire. `in_event`, `out_event`, `activate_in`, `activate_out` and
`terminate` are actions; a read and a write move any number of bytes up to the
buffer. Peers of kind "old" and "rev0" are external.

### Session

One connecting session with its socket, pipe, the connecters it launches one
after the other and an engine per connection. `session_base_t`
(`attach`, `detach`, `detached`, `reconnect`, `clean_pipes`, `process_term`,
`timer_event`, `pull_msg`, `push_msg`, `terminated`) and `tcp_connecter_t`
(`process_plug`, `process_term`, `in_event`, `out_event`, `timer_event`, `close`,
`add_reconnect_timer`) are actions or operators called by them. Messages have two
parts. Bytes are left to `StreamEngine`, watermarks to `Pipe`.

### Poller

`obj` is what the objects of the thread believe, `poller` what the poller keeps
and what the kernel was told. A descriptor that is closed may come back with
another file at once. `at` is where the loop is: calling timers, waiting,
dispatching an event of the batch, or in a callback, in which the objects call
the poller as they like. Registrations and descriptors are numbered from 1, so
that 0 marks a hole or an empty row (`retired_fd`).

### SocketApi and Options

One thread in a call of PAIR sockets `f`, `b` and `c`, each with a mailbox and a
pipe to a peer. `call.pc` is where `send`, `recv` or `zmq_poll` is. Whether
`process_commands` is throttled by the time stamp is a choice. The peer reads part
by part (`PeerReads`, `pipe_t::read`) and tells the writer of the messages it has
read whenever their number is a multiple of `compute_lwm` (`told`), so between the
two a full pipe may have space its writer does not know of. Time is counted in
milliseconds from the start of the call; `clock_t::now_ms` may return its cached
value. `Options` has every option of `setsockopt` with its size and range and the
listener of a bound socket with a copy of the options.

## Runs

| Run | Instance | Shows |
|---|---|---|
| `scan` | services `a`, `a1` that meet in `a10`, up to 12 keys | the loop stops, and at the first free name; it implements `RuningDB` |
| `registry` | up to four deployments in turn with crashes, or two at once with every fault | dense counts; in turn, names as `RuningDB` promises, no lost record and nothing registered without its files; every deployer settles |
| `teardown` | three deployers, two sharing an image and two a name, the utility, failing requests, kills | requests in order and once; no container forgotten; names held in the database and apart until its reset; the networks of later deployments spared; deployments end |
| `mailbox` | two senders of three commands, chunks of two | a queue, memory that is not used after it is freed, no lost wake-up |
| `pipe` | watermark 2, one and three messages, one hiccup | no assertion fails, nothing dangles, whole messages, both ends go, a stopped writer resumes |
| `ctx` | three sockets in two slots, inproc and tcp, one interruption | nothing is left, `zmq_term` returns |
| `patterns` | each of seven types, two pipes, watermark 1, three messages | no assertion fails, every pipe has its turn, whole messages to the right peer |
| `pubsub` | two subscribers, six plans, more subscriptions than `SNDHWM` | all sides agree on the subscriptions, those who match get it, whole, and contents are freed once |
| `engine` | seven plans: framings, old peers, limit, close, break | the messages of one end are those of the other, none is stuck or lost by a close |
| `session` | six plans: breaks, failures, late pipes, disconnection | whole messages over all connections, one attempt at a time, linger, the end |
| `poller` | five pollers, three descriptors, four registrations with input only or three with all events (`poll` and `select`: three with input and errors, two with all events); two timers | events reach their owner, the loop watches what it was asked to and wakes in time |
| `api` | receive, send, poll, proxy, options; watermark 3 | calls give up only in time and for nothing, proxy and options are faithful, calls return |

A property with the name of a module and `Sound` is the conjunction of the type
invariant, of the assertions of the source (`AssertsHold`) and of named parts
that the module states before it; the other conjunctions are named for their
theme, and their parts are commented one by one.

Bounds. `MaxCount` and `MaxKeys` exceed what the deployments of an instance can
use; 12 keys are what it takes for the eleventh instance of `a` to meet `a1`. The
races over the databases need two processes; the theorems hold for any number.
Chunks of two and three commands make the queue link, free and reuse chunks, and
two senders are what a signal outside of the lock needs. Watermark 2 with three
messages makes a pipe full, with a low watermark of 1. Three sockets in two slots
make a slot be used again. Two pipes suffice for a swap in an array and for a
message that moves to another pipe; three are not affordable for all types.
Three prefixes with `SNDHWM` 2 make a pipe full at its connection. Watermark 3 of a
call gives the low watermark 2 of `compute_lwm`, the least at which a peer has read
what it has not told of. The third deployer of `teardown` takes the name of the
first, before the reset of the database (it is refused it) or after; it and the
second exclude each other (`MCNext`), and it has no components. The
bytes of the codec are scaled so that every length from 0 to past the boundary of
each framing occurs, and buffers cut every header. Three connecters let a session
reconnect twice; two parts per message and one part on the wire let a connection
break in every place. Four registrations over three descriptors make a number
come back within a batch. `Rate` 3 and three messages make `recv` reach its poll of
commands. `MixTransports` and `MidMessage` are FALSE: see the disagreements.
Deadlock is not checked: deployments, applications and contexts end.

Fairness. `RuningScan` and `ServiceRegistry`: weak fairness of the steps of each
process, none of `Start` and `Crash`. `Launcher` and `Utilidades`: a deployer that
has an open request is answered again and again as long as it lives (the daemon
answers, the event loop runs the callback); none for the utility, the end of a
program in a container, kills, or requests of the dead.
`Mailbox`: each thread goes on, and a sender that waits for the mutex gets it in
the end (strong fairness, as the mutex is free again and again). `Pipe`: threads
process commands, finish methods, read and flush. `Ctx` and `Session`: as long as
some thread can run, some thread does; timers expire, a peer reads, applications
close their sockets. `Poller`: the loop runs, callbacks return, time passes.
`SocketApi`: the thread and the clock go on, peers read. `Patterns`, `PubSub` and
`StreamEngine` have no fairness: their progress is stated as invariants on states
in which nobody can move.

## Proofs

For every value of the constants that satisfies the assumptions named in the
modules. Each module of proofs has one inductive invariant, one lemma per action,
and theorems that follow from it; the lemmas on queues, chunks and pipes come
first.

- `ScanIsCorrect`, `ScanRefinesRuningDB` (`RuningScan`). The invariant `IInv`:
  every count below the counter is taken; in a pass that has not moved the
  counter, the keys already compared differ from the current name. The property
  alone is not inductive because it says nothing in the middle of a pass.
  Assumption: counts of one service give distinct names.
- `RegistryTypes`, `CountsAreDense` (`ServiceRegistry_proofs`). In every mode,
  for any number of processes: a save writes a whole dense copy or leaves no
  JSON, and an entry made for the first free count keeps a database dense.
- `NamesStayUnique`, `RegistryRefinesRuningDB` (`ServiceRegistry_proofs`),
  assuming `Exclusive`, with crashes. The invariant `XInv` says where the issued
  names are recorded at each moment: in the file while it can be read; in the
  copy of the one process that runs, once it has opened the databases; nowhere
  after a save that was cut short, and then no process gets past `check_DB`.
  That the names stay unique after a crash is thus paid for with a deployer that
  does not start any more until somebody repairs the file.
- `RunningStaysRecorded`, `RegisteredStaysExtracted` (`ServiceRegistry_proofs`),
  the other two parts of `TurnsKeepDatabases`, assuming `Exclusive`, with crashes;
  the second also that no extraction fails and no flush takes longer than the two
  seconds (`GoodArchives`), without which the code registers services whose files
  are not there. `RunningIsRecorded` follows from `XInv` and that a deployer past
  the choice of its name has one. `RegisteredIsExtracted` is not inductive: a
  deployer empties the directory of a service that its copy of `ServiceURI.json`
  does not have, and `ComponentURI.json` may name that directory. `RegInv` says
  why it does not: the services in `ComponentURI.json` are in `ServiceURI.json`
  while this can be read (`FilesRegister`), the copy of the deployer that runs
  holds both (`CopyRegisters`), and it names nothing but what is extracted, the
  service whose archive is being unpacked excepted (`CopyExtracted`).
- `LauncherTypes`, `InstancesAreRequestedOnce` (`Launcher_proofs`), for any
  number of deployers, components and instances and every set of faults. The
  invariant `Stages`: nothing is open for images before the network is answered,
  nothing for the containers of a component before its image is done, no
  container before its creation was asked for. A second call of `docker.run`
  would come from an image that is done already, and no action starts from one.
- `ContainersAreFollowed` (`Launcher_proofs`), assuming that `container.wait`
  does not fail for a running container: every container of a live deployer has
  an open request that fits its state. `FollowedAll` is inductive together with
  `Stages`. The assumption is needed: after a failed wait the callback asks for
  the removal of a container that runs, which Docker refuses, and nobody asks
  again.
- `TeardownSafe`, `RequestedOnceBesideUtility`, `FollowedBesideUtility`
  (`Utilidades_proofs`), for any number of deployers and
  every set of faults, with the utility at work beside them. The invariant
  `SysInv` adds to `Stages` that the utility removes what was created, and
  `Database`: until the reset the file has the name of every deployment, no two
  are the same, and the copy is a part of the file; a deployer that came after the
  utility read its copy has a name that is not in the copy; after the reset the
  copy is empty. From this the removals that the utility asks for are of
  `earlier` deployers, although names are compared and, after the reset, given
  again.
- `MailboxSafe`, `MailboxIsQueue` (`Mailbox_proofs`), for any number of senders
  and commands, any addresses and any size of a chunk from two
  (`ChunkAssumption`; `config.hpp` has 16 and 256). `MailboxSound` says nothing of
  the elements and is not inductive. `Inv` numbers the items ever written: `pl[i]`
  is the place of item `i`, a chunk and an index; the pointers of the queue are
  the places of four numbers in order (begin, `r`, `w`, end). From this follow
  that the chunks in use are exactly those of the places, one after the other
  (`Live`, a set closed under `next`, is shown to be that set by induction on the
  least element), that the spare chunk is none of them, and that what the reader
  takes is what was written at the place of its number. `Signals` counts the
  signals against the sleeping reader, `Ending` follows the destructor past the
  last sender. The refinement maps `queue` to `SubSeq` of the history of writes.
- `PipeSafe`, `PipeKeepsMessages` (`Pipe_proofs`), for every watermark, bound and
  choice of who writes, hiccups and lingers. `PipeSound` and `MessagesKept` are
  far from inductive: why `pipe_term_ack` never meets an active end depends on
  the commands on their way. The parts of `Inv`:
  `Handshake` determines from the states of the two ends which commands of the
  termination are on their way (`Together` lists the pairs of states that occur);
  `Lines` and `Memory` follow the ypipes from the one an end writes, over those
  that hiccups bring, to the one its peer reads, each newer than the one before,
  no one on two lines, and those allocated are those on the line of an end that
  exists; `Contents` and `Balance` say that at most one ypipe of a line holds
  items (`Data`), and that these are the messages after those read and dropped,
  numbered without a gap up to the last that was written, the delimiter after
  them; `Watermark` bounds the counts in commands on their way by what both ends
  know; `Inside` and `ReadAll` are `WholeMessages` and `DelayKeepsMessages` with
  what they need of the peer.

- `CallsSound`, `OptionsSafe` (`SocketApi_proofs`), for any number of sockets,
  any watermark, polling rate and timeouts and every plan of an application, with
  `zmq_proxy` and `zmq_term` at any moment. `NothingOverlooked` compares the end of
  a call with its beginning, and `Deadlines` with a clock that may be cached, so
  `IInv` says what is known in between. `Reading`: a reader of a pipe is active,
  or asleep before an empty pipe, or an `activate_read` waits in the mailbox of its
  socket; hence a message that was there when `zmq_recv` or `zmq_poll` began is
  seen after the commands are taken, and every path to EAGAIN takes them first.
  `Writing`: the last `activate_write` on its way tells all that the peer has told
  of, which is no more than it has read, and the pipe holds as many ends of messages
  as were written and not read.
  `Receiving`, `Sending` and `Polling` carry the message, the space or the item that
  was there through the places of each call (`Ahead`: one item of those the pass
  has not come to), and `Timed` bounds the end of a wait by its beginning, its
  timeout and the millisecond of `clock_t`. `Drained` follows the loop of
  `process_commands` over any number of commands. For the options `OInv` adds
  that those stored are those accepted (`Remembered`) and that a listener has the
  filters of the moment it was bound (`Bound`).
  `SocketApiAssumption` says that the clock may not run further before a wait than
  in it (`Early <= MaxTime`), which is about the bounds and not the code.

- `ProxyIsFaithful` (`SocketApi_proofs`), for any number of messages of both peers,
  of one part if their number is odd and of two if it is even, with and without a
  capture socket, and for every way in which polls, waits, signals, `zmq_term` and
  the peers come between the steps of the loop. `ProxyFaithful` speaks of the end of
  the way only; `PInv` says where the parts are at each point of the loop:
  `Streams`, what was forwarded from a peer, then the part in hand, then what waits
  in the pipe is all that the peer has sent; `InLoop`, when a part is in hand, which
  call the loop is in and what that call has done; `Taped`, that the capture socket
  has what was forwarded from each side and the part in hand once it was given it,
  and that it stops within a message only while the loop is in that message. A step
  of a call moves nothing, takes a part from a pipe or adds one to a pipe
  (`CallGives`), whatever the commands it takes, so the steps of the loop need to
  look at no more than that. After a call that failed the loop is over and a part
  may be lost, as in the code; order and completeness of what went before stay.
  What `FlattenSeq` and `Among` compute is proved by the least length at which it
  would be wrong (`FlattenAppend`, `AmongAppend`, `AllIs`, `AllGrows`). TLC checked
  `PInv` on the instance of the run first.

- `PollerSafe`, `EventsReachOwner` (`Poller_proofs`), for each of the five pollers,
  any number of registrations, descriptors, sinks and timers, and callbacks that
  register, change and remove what they like. `PollerSound` compares what the
  poller watches with what the objects asked for only where the loop sleeps, and
  `EventsReachTheirOwner` looks only at the moment of a call, so neither is
  inductive. `IInv` has four parts. `Values` are the types. `Registrations` says
  that the state of the poller represents the registrations of the objects, in
  terms of its own (`Rep`): the entries of epoll and kqueue are freed neither while
  open nor before the end of the pass in which they were retired, and an event of
  the batch points to the entry of its file; the array and the table of `poll_t` point
  to each other; each descriptor has one row of `select_t`, none is above `maxfd`, and
  one that select has returned belongs to the file it belonged to then; a
  descriptor of `devpoll_t` with an event in the batch is accepted only while it
  belongs to the object the event was reported for, because one that is added again
  in a pass waits in `pending`. The assertions of all five are covered
  (`devpoll.cpp` 73 and 91 too); what is excepted is the pointer of `devpoll_t` into
  its table when that grows (`moved`), which no property uses. `Timers` keeps the timers in order, and that only the first of them runs
  while its callback is called. `Place` relates the place of the loop to the
  batch. For each poller there is a lemma per function that `Rep` is kept
  (`add_fd`, `rm_fd`, `set_poll`, `begin`, `wait`, `cleanup`) and one that what it
  dispatches is right; the steps of the loop follow from these whatever the
  poller is. `PollerAssumption` numbers registrations and descriptors from 1, as
  `poll_t` needs for the index 0 of a hole. TLC checked `IInv` on the instance of the
  run first.

Only model-checked. The liveness properties, because fairness and ENABLED are out
of the prover's reach.
`CtxSound`, which depends on the order of termination over the whole tree of
objects. Those of `Patterns`, `PubSub`, `StreamEngine` and
`Session`: they use recursive operators for tables, encoders and loops (`Trie`,
`Patterns`, `StreamEngine`, `Session`), so that no theorem can be stated in modules
that reach them.

## Known disagreements

What the models showed the code to do against a comment, an assertion or a
document. The properties above except each of them by name, by a history variable
or by a bound; everything else about them is checked.

Deployer:

- Two deployers that start together take the same name (190), against 291 and
  `README.md` 340: the name is chosen from a copy that is two seconds old when it
  is saved. Hence `turns`.
- A failed extraction is registered all the same (83), against `README.md` 208.
- An image without a tag anywhere on the machine ends the deployer: `RepoTags` has
  no first element (245).
- One failed creation ends the deployer by an exception (302), and the containers
  of its other components are never removed, against 301.
- Two deployments that list the images at the same time both build one (252),
  against `README.md` 227.
- The utility resets `ServicesRuning.json` whether or not the networks are gone
  (`elinimateNetwork.js` 31), and the next deployment takes the name of a network
  that exists, against `README.md` 340.

libzmq:

- `ctx.cpp` 94-108: between the publication of `terminating` and the look at the
  sockets the last socket may be destroyed, which stops the reaper; `zmq_term`
  stops it again, and its mailbox is removed from the poller twice
  (`DoubleStop`).
- `pipe.cpp` 429: a hiccup replaces the pipe in which the delimiter of the peer
  is; the end that waits for it waits for ever (`delimiterLost`).
- `pipe.cpp` 219-240: the messages in the pipe that a hiccup replaces are never
  read, so the writer counts them against the watermark for ever: the pipe holds
  fewer messages from then on, and none after enough hiccups (`dropped`).
- `lb.cpp` 97: a pipe that begins to terminate after the first part of a message
  refuses the next one, and the assertion `!more` fails ("lb: !more").
- `fq.cpp` 102: `zmq_disconnect` in the middle of a received message takes away the
  pipe with the rest of it, and the assertion `!more` fails (`MidMessage`).
- `req.cpp` 93-96: a reply of a single part is skipped by a second receive that is
  asserted to succeed; over inproc nobody filters such replies. The peers of the
  model send replies with a bottom part.
- `dist.cpp` 79-90: with three pipes or more, the last pipe takes the place of the
  erased one and may come into a range to which it does not belong. The run has
  two.
- `mtrie.cpp` 292: a subscription that was dropped at the watermark and is then
  cancelled makes the publisher abort on `erased == 1` (`hist.lost`).
- `xsub.cpp` 58: the subscriptions sent again to a new pipe are written past
  `dist_t`. When there are more than `SNDHWM`, the pipe is full while `dist_t` counts
  it as eligible, and `dist_t::activated` (`dist.cpp` 92-104) later swaps it with the
  place after the last of the array (`hist.cut`).
- `dist.cpp`: a part that was written and not flushed is never closed when its
  peer goes in the middle of a message (`hist.leaked`).
- `stream_engine.cpp` 174-183: of a closed engine only the bytes in the encoder are
  sent; it may then be called after its session is gone, and `activate_out` may
  use a handle that was removed (faults "session" and "handle").
- `stream_engine.cpp` 238-240: a connection that ends while the socket does not
  read is not reported, and the session does not reconnect until it does.
- `session_base.cpp` 226-229: the rest of a half-read message is asserted to be in
  the pipe ("half-read message"); 352-355: a session whose pipe has gone ends
  while the pipe that it gave up still needs it ("sink"); 396: the linger timer
  expires without a pipe ("timer, no pipe").
- `tcp_connecter.cpp` 190: `ZMQ_RECONNECT_IVL` may be 0, a division by zero, and the
  random part may take an interval past `ZMQ_RECONNECT_IVL_MAX`.
- `own.cpp` 111-123 and `session_base.cpp` 370: a session that is announced to a
  closing socket, or is disconnected, gets linger 0 and drops its messages.
- `devpoll.cpp` 168-180: the pointer into `fd_table` dangles when a callback makes
  the table grow; `select.cpp` 70 compares the number of entries, not the
  descriptor, with `FD_SETSIZE`; `poller_base.cpp` 48-62, 89-94: a negative timeout
  is passed over, and a sink that starts and cancels its timer in its own callback
  erases the one that runs.
- `socket_base.cpp` 716-720: an interruption at the call that takes the commands
  leaves `ticks` at the rate, the next call passes it, and commands are not taken
  while messages keep coming; 845: a throttled `zmq_send` that does not block says
  EAGAIN although space was announced. `pipe.cpp` 143: with a watermark of 3 or more
  any `zmq_send`, also one with a timeout, says EAGAIN although there is space, when
  the peer has read less than the low watermark since it last told of it
  (`NothingOverlooked` is about the space that was told of).
- `zmq.cpp` 633: `zmq_poll` without items and without a timeout sleeps for
  `usleep (-1000)`. `tcp_listener.cpp` 163: an old `errno` decides whether an open
  descriptor is replaced. `options.cpp` 235: keepalive options are accepted and not
  stored where the platform has none. `socket_base.cpp` 1216-1236: the monitor
  socket is closed while I/O threads send through it.

## Not modelled

Deployer: the text of names, paths and log messages; the options of a container
(environment and ports, 315-348), which no property tells apart; the commented
`create_DockerFile`; `spec_helper.js`; `download.js`, which nothing calls; the
agents of `runtime/` and the example service, small programs over the REQ and REP
sockets of `Patterns`. `require` caches a file for the life of a process; a
deployer requires each file once. The current directory is taken to be that of
`Deployer.js`. The directory `./DB` is taken to exist (22-24): of two deployers that
find none, the second would throw. `TurnsKeepDatabases` is about deployers that take
turns and, for the files, archives that are extracted within the two seconds; what
deployers do that overlap and archives that fail is under the disagreements.

libzmq: `pgm_*` (needs OpenPGM), `ipc_*` (the tcp classes with another address),
`tcp_address.cpp` and the other parsing of addresses, the monitor and its events,
devices other than the proxy, the variants for Windows and OpenVMS, the choice of
an I/O thread by affinity, `ZMQ_ROUTER_MANDATORY`, weak memory orders, a lack of
memory, and lengths beyond `size_t` (`decoder.cpp` 116-134). The branch of
`dist_t::distribute` for very small messages (143-152), which copies them to the
same pipes without references. `Ctx`: a session with linger 0 (`Session` has it).
`SocketApi`: a watermark of 0, which is no limit. `TimersFire` is checked with epoll
only; the timers are those of `poller_base_t`, the same for all five.

## Plan

Done: the deployer and the utilities with their proofs, the core of libzmq, and
proofs about its mailbox, its pipe, its pollers, its calls, its proxy and its
options.

1. Proofs about `Ctx` (who is announced to whom, `CtxSound`).
2. Lemmas about `PipeArray` and `Codec`, on which `Patterns` and `StreamEngine` rest.
3. `Runtime`: `agenteServer.js` and `agente.js` over REQ and REP.
