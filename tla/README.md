# A TLA+ model of rctl

rctl manages many Linux machines from one server.  The server (`server/`) keeps a
directory of the clients that have registered, by class; its operator sends a command to a
class or opens a shell on one machine.  The client (`client/`) connects to a server by
itself, registers, and runs the commands it is sent.  Both sides use SSL over TCP (`lib/`).

This directory holds TLA+ modules of the program, the TLC configurations that check them,
and TLAPS proofs.  `tlc -config X.cfg M` checks a configuration; `tlapm M.tla` checks the
proofs of the modules `ServerLists` and `*Proofs`; `PROJECT.json` lists the runs, the source
lines behind every definition, the mutations that each property was shown to catch, and the
hazards of the code.

## 1. Inventory

| part | code | state | operations | what is hard | what makes it right |
|---|---|---|---|---|---|
| directory | `server/serd.c`, `serd.h` | `classhead`, `tothead`, `class->clilist`, `class->count`, mutexes `classlock`, `totlock`, `class->lock`, `cli->lock` | `newclass`, `getclass`, `putclass`, link in `accept_newcli`, `cli_free` | three threads, four kinds of mutex, objects freed by one thread and used by others | counts match lists; both lists agree; nobody stands on freed memory; no race, no deadlock, no leak |
| registration thread (R) | `serd.c` `rctlreg`, `accept_newcli` | its locals, listening sockets | accept, handshake, read the `reg_t`, register | failures at five places; a silent peer; a port that cannot be opened | every error path releases what it holds; a registration ends |
| epoll thread (E) | `server/epoll.c` | interest list, one batch of events | read and log output, free the dead | events point to clients; batches of `PARA_NUM`; the batch is dropped after a free | no event outlives its client; every dead client is freed |
| console (M) | `server/main.c`, `bash.c` | `op`, the walk | menu entries 1 to 4 | walks lists others change; writes that fail, or block with `classlock` held | a command reaches the members at one moment; its outcome comes to be logged; the menu comes back |
| log files | `serd.c`, `epoll.c`, `main.c` | `cli->outfd`, `cli->outfile`, the descriptor table | `open_outfd`, write, `close_outfd` | descriptors are shared by all threads | a record goes to the log of its client, a command before its output |
| client daemon | `client/rctl.c` | one connection, one command | `r_connect`, `getmac`, register, read, `popen`, relay | the connection may end anywhere | start over with nothing left open; output relayed whole; a server that is there is found |
| remote shell | `bash.c`, `rctl.c`, `lib/exchange.c` | listening socket, forked processes, the pty | ask, listen, accept, check, session, relay | request and listen race; late children; addresses that several machines share; a shell that ends before its relay listens for that | the shell is on the machine that was typed; a session ends with its shell |
| processes of a client | `client/cli.c`, `rctl.c` | the lock of the pid file | start, `one_instance`, fork, `pause` | the lock is inherited by every child; processes are killed one by one; the pid file may not open | one client per machine |
| lists | `include/list.h` | circular pointer lists | `list_add_tail`, `list_del`, `list_for_each_entry` | poisoned pointers after `list_del` | implements sequences |
| SSL wrappers | `lib/ssltcp.c` | | read, write, shutdown | blocking, SIGPIPE | passes errors on |
| options, wrappers, build | `arg.ggo`, `lib/common.c`, `Makefile`s, `srctl` | none | | | |

How the parts meet: R, E and M are threads of one process and share the directory under
its mutexes; E learns of a client through the pointer R put in the epoll instance; M and E
write to the same connections.  The server and a client share one TCP connection for
commands and output, and one more per shell session, which the client makes to port 6001
when it reads the command `rctlbash`.  Nothing is kept on disk: a process that dies forgets
everything, and the clients connect again.

## 2. Modules

| module | what it is |
|---|---|
| `Directory.tla` | the abstract specification of the directory, without threads, locks or memory |
| `Server.tla`, `MCServer.tla` | the server: the threads R, E and M, step by step between mutex operations |
| `ServerLists.tla` | lemmas about the list operators |
| `ServerProofs.tla` | the inductive invariant of `Server`: counts, lists, locks, races, deadlock |
| `DirectoryProofs.tla` | extends it: leaks, names, freed classes; `Server` implements `Directory` |
| `LogFiles.tla`, `MCLogFiles.tla` | the log files at the level of system calls and descriptors |
| `LogFilesProofs.tla` | its theorems |
| `Client.tla` | the client daemon, one connection, and the registration threads of its servers |
| `ClientProofs.tla` | its theorems |
| `Bash.tla`, `MCBash.tla` | the remote shell: the console, and the processes on the clients' machines |
| `BashProofs.tla` | its theorems |
| `ListHead.tla` | `list.h` with its pointers |
| `ListHeadProofs.tla` | theorems: the pointers implement the sequences of `Server` |
| `Flow.tla`, `MCFlow.tla` | console, epoll thread and clients with commands and output under way between them |
| `FlowProofs.tla` | its theorems, with those of `ListHeadProofs` for the list it walks |

### Server

`Conn` and `ClassObj` are the addresses `malloc` returns; an address is used again after
`free`, which is what makes a stale pointer dangerous.  `res[c]` says what is held for a
client (memory, socket, SSL), `net[c]` the state of its connection: `up`; `gone`, closed by
the peer; `broken`, reset, by the peer or in answer to a write.  A list is the sequence of
its entries.  Each thread has a program counter (`rpc`, `epc`, `mpc`) and the C locals that
outlive a step.

A step takes one mutex, or does what the code does from there to the next mutex operation
or blocking call.  Two unlocks without anything in between that the other threads could see
are one step, except in `cli_free()`, where the class may have been freed: `EUnTot`, `EUnCls`
and `EUnClass` are the three unlocks of `serd.c:237-239`.  The actions follow the code from
top to bottom: `RMalloc` ... `RUnlock` and `RGiveUp` are `accept_newcli()` with `newclass()`
inlined, `EWait` ... `EFree` are `epoll_loop()` with `epoll_recv()`, `write_outfd()` and
`cli_free()`, `MCommand` ... `MSession` are `command()` and the four entries of the menu.

The ways the process dies are part of the model (`Killed`): SIGPIPE at a write on a broken
connection, `fclose(NULL)` when a log file cannot be opened, and the use of freed memory.  The
memory of classes is a pool of its own, so `FreedClassUnshared` says that `newclass()` has not
been given the memory of a freed class again; what other calls of `malloc` get is not
modelled. `Start` is the operator starting the server again.

The sockets are blocking and none has a timeout.  `WaitsForPeer(t)` says that thread `t` is in a
call that only its peer can end: R in `ssltcp_accept()`, in `ssltcp_read()` of the `reg_t`, or in
the `ssltcp_shutdown()` of `clean4`; E in `ssltcp_read()` or in the `ssltcp_shutdown()` of
`cli_free()`; M in `ssltcp_write()`, at `write` with `classlock` and the class's lock held, at
`bash` with none.  The model never forces a thread out of such a call while the connection is up.

`Directory` has the names of the listed classes, the members of each, and the clients the
last command was written to.  `Server` implements it (`IsDirectory`) with `listed` the names
of the classes on `classhead`, `members` the clients on the `clilist` of the class of that
name, and `reached` the clients written to by the last walk that was completed.  The step
that matters is `Send`: although clients register and leave all the time, the walk of
`cmd_sendcmd()` takes place as if at the moment it ends.

### LogFiles

One table of descriptors, the lowest free number first.  `close_outfd()` is two steps, the
two `close()` calls of the same number that it makes.  The mutexes of the directory are
reduced to one fact: E frees no client while M is at work on one.

### Client

The connection is as in `Server`.  A command is the number of units its output is long,
`BufLen` units fit in the buffer; `sent` and `told` record what was written for it.  Open
descriptors are counted, because `getmac()` loses one per registration; `getmac()` ends the
process when it gets no socket (`GetMac`) or when the interface is not there (`GetMacFails`).

Each server of the client's list has its registration thread, `reg[s]`: the process is down;
it runs but could not open its port, `deaf` (`rctlreg()` goes on after any failure); it is in
`select()`; or it serves the client or some other machine.  One thread serves one machine at
a time, so the client's handshake waits while it serves another.  A server may die and be
started again at any time.

### Bash

`ppc[p]` is where process `p` of some machine is: starting, in the command loop, forked,
waiting in the accept queue, shaking hands, relaying for a shell.  A child whose connection
fails goes to `reset` and from there to `loop`, as `return` in `bashfrom()` does.  `shell[p]`
is the shell that `p` has forked: `new`, `tty` when it has opened the terminal, `ended`, or
`failed` before that.  The steps `Spawn`, `Handlers` and `TtyClosed` are the relay's:
between the first two a `SIGCHLD` or `SIGHUP` finds no handler, and `exchange()` has to learn
of the end of its shell from the terminal, or its connection, later.  A relay whose
connection ends exits and leaves the shell behind (`left`), which holds the socket open.

`paused` and `daemon` are the two processes that `rctlcli` consists of, the one in `pause()`
and the one `rctl()` forks.  All that come from them share the open pid file (`holds`), whose
`flock()` is free again when the last has ended (`Locked`).  `StartUnlocked` is a start whose
`open()` of the pid file fails: `flock(-1)` gives `EBADF`, `one_instance()` tests for
`EWOULDBLOCK` only, and the process goes on without a lock (`rctl.c:305-313`).  `MaxFault` bounds
the processes killed, one at a time, and the starts without the lock, together.  With two
daemons a machine has two connections; `unread` has what is unread on all of them, and what is
on a connection is lost with its last reader.

The operator types a MAC, or its first bytes, from the list that entry 2 prints.
`getmacstr()`, `strtol()` and `macstr_to_mac()` are written out on sequences of digits and colons;
`macstr_to_mac()` leaves bytes it does not reach as they were, and the model tries every
value a lookup before could have left there.  A MAC that matches no client changes nothing.

`Addr[d]` is the address that the connections of machine `d` come from.  Several machines may have
the same one, as behind a NAT, and the check of `bash.c:77` does not tell them apart.
`connect()` of a child may fail whether or not the server listens (`ConnectFails`).

### ListHead and Flow

`ListHead` has the functions of `list.h` that the program calls, each as the heap after the
call, one assignment after the other.  `IsList(h, head, s)` says that the pointers of `h` make
`head` the head of the list `s`: `next` and `prev` of neighbours point to each other all
round the circle.  The theorems of section 4 connect it to `Append` and `RemoveAt`, which
`Server` uses.

`Flow` has what `Server` leaves out, data under way.  `down[c]` and `up[c]` are the records in
the sockets between the server and client `c`, at most `Cap`; a write waits for room.  M
walks `clilist` by its pointers, records the command in the log file of each client and
writes it, with `classlock` held all the time.  E takes events as `epoll_wait()` found them,
reads one record per event and writes it to the log file, and needs `classlock` to free a client.
`wrote[c]` is what M and E have come to write to the log file of `c`: that it gets into the file
is not said here, as the double `close()` may take the file away (`LogFiles`).  `ELogFails` is the
end of the server when the file cannot be opened, and of its connections with it.  A client
reads a command when it has written all output of the one before.  The clients are of one
class and registered from the start, in any order: `Registered` has every well-formed list of
them, which is what `INIT_LIST_HEAD()` and a `list_add_tail()` for each make (`InitIsEmptyList`
and `AddTailAppends` of `ListHeadProofs`); `class->lock` and `totlock` are not represented, as E and
M take them inside `classlock` here, and `cli->lock` is not, as it is held only around the
writing of a record, which does not wait.

## 3. Runs

| run | bounds | shows |
|---|---|---|
| `Server_safety` | 2 clients, 2 class objects, 2 names, 1 MAC, `PARA_NUM` 2, symmetry | the invariants below and `IsDirectory` |
| `Server_live` | 2 clients, 1 class, `PARA_NUM` 1 | `CleanedUp`, `CommandEnds`, `RegistrationEnds` |
| `Server_sendall` | 2 clients, 1 class | violated: `SentToAll` |
| `Server_bash` | as `Server_safety` | violated: `BashToClient` |
| `LogFiles_safety` | 3 clients, 4 descriptors, symmetry | `NoLogLeak` |
| `LogFiles_own` | the same | violated: `OwnLog` |
| `Client_safety` | 2 servers, buffer 2, output up to 5, 3 descriptors | `CleanRestart`, `OutputWhole`, `LossNoticed`, `FindsServer` |
| `Client_reconnects` | 1 server, 3 descriptors | violated: `Reconnects` |
| `Bash_session` | 2 machines, 3 processes, 1 unread request, 2 faults, MACs of 2 bytes | `AskedDevice`, `OneLockHolder`, `Answered`, `SessionOver` |
| `Bash_onereader` | 4 processes, 2 unread requests, no fault | violated: `OneReader` |
| `Flow_live` | 2 clients, 3 commands, output of 1 or 2 records, 1 record per socket | `OnList`, `RecordFirst`, `CommandReturns`, `OutcomeWritten` |
| `Flow_stall` | the same | violated: `ReachesAll` |

Properties of the server: `RefCount`, the count of a class is the number of its linked
clients and of those in flight between two locks; `Registered`, a client is on both lists or
on neither; `ClassIndex`, listed classes are the allocated ones and have different names;
`WalkSafe` and `EventsLive`, no pointer of the console or of a batch of events leads to a client
that is unlinked or freed; `FreedClassUnshared`, when the last lines of `cli_free()` unlock the
mutex of a class that was freed, nobody waits for it and `newclass()` has not been given its memory
again; `NoCircularWait`; `NoDataRace`; `NoLeak`.

`CleanedUp`, `RegistrationEnds` and `CommandEnds` say what the server itself does not prevent: if
new work stops arriving (`Quiet`) and the peers let go the threads that wait for them
(`LetGo`), clients are freed, registrations end and commands end, whatever locks the threads
take, whatever fails, and whichever events the batch lost.  Each names the threads whose peers
it depends on: all three need the console's, because it writes with `classlock` held, and
`CommandEnds` needs no other, so neither a registration nor a clean-up that hangs keeps a
command.  The premise is a real one: `Flow_stall` shows the console in `ssltcp_write()` for ever.

Properties of the other modules that are less obvious from their names: `FindsServer`, when
servers and network have settled, the client gets registered with whichever server listens,
past those that are down or deaf; `SessionOver`, the end of the shell brings the menu back
whether or not its `SIGCHLD` came too early, if the shell had opened its terminal;
`AskedDevice`, the session is with a machine whose MAC was typed or with one behind the same
address, however late the children of other requests connect; `OneLockHolder`, however the
processes of a client are killed, `rctlcli` started again does not get the lock while a daemon
that has it is there (children that become readers are the subject of `OneReader`); `OnList`,
the list is well formed and the walk is on it at every step; `RecordFirst`, in a log file a
command never comes after its own output; `CommandReturns` and `OutcomeWritten`, while
connections stay up, M, E and the clients, which all block on full sockets, do not block each
other, unless the server dies at a log file.

Why the bounds are enough.  Two clients and two class objects give every pair of actors the
chance to be at the same class, at different ones, or at a class and at one that reuses its
memory, and fill a list so that an entry has a neighbour; two names make a class come and go
while another stays.  With one MAC any two clients can be a machine that has reconnected.
`PARA_NUM` 1 makes every second event one that did not fit in the batch.  Four descriptors
for three clients let the table fill up.  An output of up to five units against a buffer of
two has every number of full buffers up to two with and without a rest, and none.  Three
processes for two machines leave one to be a late child, a relay, or the client that is
started again; two faults kill both processes of `rctlcli`, or one of them and start another
without the lock.  MACs of two bytes, the first the
same, can be typed whole or as a prefix of both.  In `Flow`, one command that runs, one that
waits in the socket and one that does not fit any more make M block, which takes three; two
clients let one connection end while M waits for the other.  Three descriptors let a client
register twice, with a pipe for its command the first time only.  The safety theorems of
section 4 do not depend on the bounds.

Fairness.  The three threads are scheduled by the kernel: `WF` of each, except while it waits
for its peer (`WaitsForPeer`).  Nothing is assumed of peers but what a property names as its
premise.  A pthread mutex is not fair, so a thread may lose it to the others as long as they
have something to do: the liveness properties are stated for behaviours in which from some
time on no client connects, none sends output, and the operator types nothing (`Quiet`).  In
`Client`, a call that waits for the server while the connection is up, and `fread()`, need
never return (`Waits`); `LossNoticed`, `FindsServer` and `Reconnects` say what they need of
commands that end.  Strong fairness of `ConnectOk`, `SslNew`, `HandshakeOk`, `Register` and
`Accepts` says that a server that listens is reached in the end; `OtherDone`, that the other
machines do their part of a registration: against one that says nothing the code has no
timeout.  In `Bash` the console thread, while no call waits for a child, and the relays keep
running, and nothing forces the operator or a shell to end a session.  In `Flow` every thread
that is not waiting for a lock, for room or for a record goes on, and commands end; nothing
forces `ELogFails`.  `CHECK_DEADLOCK` is off for `Client`, which can exit and be killed, and
for `Flow`, where the operator sends `MaxCmd` commands and no more.

## 4. Proofs

`ServerProofs` proves, for any sets `Conn`, `ClassObj`, `Name` and `Mac`, finite or not, and
any `ParaNum` in `Nat \ {0}`, from `ServerAssumption` alone (`Nil` is none of the values, and
the threads' names are not values):

| theorem | states |
|---|---|
| `Invariance` | `Spec => []IInv` |
| `TypeCorrect` | `[]TypeOK` |
| `ReferenceCounted` | `[]RefCount` |
| `RegisteredOnBoth` | `[]Registered` |
| `WalksAreSafe` | `[]WalkSafe` |
| `EventsAreLive` | `[]EventsLive` |
| `RaceFree` | `[]NoDataRace` |
| `DeadlockFree` | `[]NoCircularWait` |

None of the invariants is inductive.  `RefCount` is kept by `list_del()` only if the client is
on the list it is taken from, which is `Registered`; that in turn needs to know that two
threads do not change one list together, which follows from who holds which mutex; and the
types need that a pointer that is followed is not null.  `IInv` has one part for each of
these: `LockInv`, a mutex is held by exactly the thread that is between its lock and its
unlock; `LocalInv`, the locals that are set at each program counter; `OwnInv`, what is true of
the client R registers, of the one E serves or frees, and of the events not yet looked at;
`ListInv`, the two kinds of client lists; `ClassInv`, allocated, listed and counted agree;
`WalkInv`, where the console stands.  There is one lemma per part (`TypeStep`, `LockStep`, ...),
with one step per action.  A step that kills the process establishes the initial values, and
is treated once (`KilledInv`).  What lists do is proved once in `ServerLists`, on sequences:
`ListAddTail`, `ListDel`, and `WalkEntries` for a walk.

`ListHeadProofs` proves about `list.h`, for any nodes and lists of any length: if
`IsList(h, head, s)`, then after `list_add_tail()` of a node that is not on the list it is
`Append(s, new)` (`AddTailAppends`), and after `list_del()` of its entry `k` it is `s` without
that entry (`DelRemoves`); `INIT_LIST_HEAD()` makes the empty list (`InitIsEmptyList`).  This is
why `Server` may take the lists for sequences.

### The directory

`DirectoryProofs` has the same assumption and any sets, and starts from `IInv`:

| theorem | states |
|---|---|
| `DirInvariance` | `Spec => [](IInv /\ DirInv)` |
| `NothingLeaks` | `[]NoLeak` |
| `ClassesIndexed` | `[]ClassIndex` |
| `FreedClassesUnshared` | `[]FreedClassUnshared` |
| `ServerIsDirectory` | `Spec => IsDirectory`, the refinement |

`IInv` says which classes are listed and counted, but neither who has a client that is on no
list, nor what the classes are called, nor how far a walk has come.  `DirInv` adds these:
`HeldInv`, whoever is on no list is in the hands of R or E; `NameInv`, listed classes have
different names, the class `newclass()` makes will have a name that is not listed, and the one
it has found has a client; `WalkedInv`, the console is at the `i`-th client of the class and has
written to those before.  `FreedClassUnshared` needs in addition (`InUse`) that a class that is
allocated is listed or is R's, and follows from the counts.

The refinement maps the state of `Server` to `listed`, `members`, `reached` (section 2).
`DirectoryStep` has one case per step that changes one of these.  `RPublish` of a new class is
`Open`; `RLink` is `Join`, `EUnlink` is `Leave` (`OneClassChanges`); `EPutClass` that frees a class is
`Retire` (`ClassGoes`); `MClsDone`, the step that ends the walk, is `Send`, and by `WalkedInv` the
command has been written to all members, because `class->lock` keeps the list as it is
(`WalkWriters`); a step that kills the process is `Forget` (`KilledForgets`).  Choosing the memory
of a new class is nothing to the directory (`FindNewStutters`), and all other steps leave the
mapped state alone (`DirectoryWriters`).

### Log files

`LogFilesProofs`, for any clients and any number of descriptors: `LogTypeCorrect` and
`NoLogStaysOpen` (`[]NoLogLeak`).  A thread closes a number without looking what it refers to, so
the invariant is not inductive by itself.  `LogInv` adds `LockInv`, a thread at a log file has
the lock of its client, and `FileInv`, `cli->outfile` and `cli->outfd` are equal, and `NULL` unless
somebody is between `open_outfd()` and `close_outfd()`.  A second close that hits a foreign log
file makes fewer files open, never more; that it hits one at all is `OwnLog`, which is violated.
`LogFilesAssumption` says that `Nil`, which stands for -1 and `NULL`, is no client, no number
and no thread.  That the lowest free descriptor is one that is free (`LowestFree`) is an
argument on the least element of a set of numbers.

### Client

`ClientProofs`, for any `TotSer`, `BufLen`, `MaxOut` and `FdLimit`: `ClientTypeCorrect`,
`RestartsClean` (`[]CleanRestart`) and `OutputArrives` (`Spec => OutputWhole`).  `CInv` adds to
the types `OpenInv`, which of SSL, stream and socket is open at each place in `rctl()`; `LinkInv`;
and `OutputInv`, the sum of what is still in the pipe, in the buffer, and written is the output,
and the loop goes on only while the buffer was full.  The last one is what a multiple of
`BUFLEN` depends on.

### Remote shell

`BashProofs`, for any machines, addresses, MACs, processes and bounds: `BashTypeCorrect`,
`LockKeepsOne` (`[]OneLockHolder`) and `SessionIsAsked` (`[]AskedDevice`).  `DaemonInv`: the
daemons of one machine that have the lock are one process, and it runs.  `PeerInv`: between
`accept()` and the check of its address (`bash.c:77`) nothing is known of the child but where
it waits; from then on it is on a machine with the address of the one that was asked.
`AskedInv`: the one that was asked has a MAC that `macstr_to_mac()` read from what was typed,
with some bytes left over from before.

That such a MAC begins with the text is about what the text functions compute.  `MacText` and
`TextFacts` say where the digits and colons of each byte are; `ByteEnds` and `ByteRead`, that
`strtol()` started there stops after two digits and gives the byte; `ByteBegins`, that the loop
of `macstr_to_mac()` starts there; `TypedBytes` and `SameText` put this together.  `strtol()` and the
loop are recursive functions (`val`, `Macstr`).  To know that such a function exists, the lemmas
give the function it is and check the equation; that the loop is where they say is shown by
the first byte at which it would not be (`LeastNumber`), with no theorem about induction.

`BashAssumption` says that every machine has an address and a MAC, and that there are as many
processes as machines, since each runs `rctlcli` at first.  Nothing is assumed of the addresses:
two machines may have the same one.

### Flow

`FlowProofs`, for any finite set of clients, any room in the sockets and any numbers of commands
and records: `FlowTypeCorrect`, `WalkKeepsToList` (`[]OnList`) and `RecordPrecedesOutput`
(`Spec => RecordFirst`).  `OnList` is about pointers, and is proved from `DelRemoves`:
`cli_free()` takes one entry out of a well-formed list (`FreeTakesOne`), and the successor of
somebody who is on the list is on it or is its head (`WalkOnList`).  It is not inductive:
`list_del()` of a client that is already unlinked would follow its null pointers.  `EventInv`
excludes that: a batch has one event per client, only of linked ones, and none of the client that
is being freed.  `TraceInv` is for `RecordFirst`: every command that a socket, a client or E has
got hold of is recorded in that client's log file, so no output can come before its record.

### What stays with TLC

The liveness properties (`CleanedUp`, `CommandEnds`, `RegistrationEnds`, `LossNoticed`,
`FindsServer`, `Answered`, `SessionOver`, `CommandReturns`, `OutcomeWritten`): the prover has no
fairness and no `ENABLED`.  Every safety property of the passing runs, invariant, action property
or refinement, is a theorem.

## 5. What the violated properties show

- `SentToAll`: of two clients of a class, entry 3 writes first to the one whose connection was
  reset; SIGPIPE kills the server before the other, whose connection is up, has been written to.
- `BashToClient`: entry 4 uses the client it has found after giving `totlock` back.
- `OwnLog`: the double `close()` of `close_outfd()` takes away a log file that another
  thread opened in between.
- `Reconnects`: the socket `getmac()` opens is never closed; after enough registrations the
  client exits.
- `ReachesAll`: M waits for room in the socket of a client, with `classlock` held; that client
  waits for room to write its output; and E, which would read it, waits for `classlock` because
  another connection has ended.  The three wait for ever.
- `OneReader`: a forked child that cannot connect falls back into the command loop.

Three more things the code does not do are in the model, each as the limit of a property that
holds.  A machine behind the address of another one passes the check of `bash.c:77` with a late
child: `AskedDevice` says "or the same address".  A start that cannot open the pid file
(`StartUnlocked`; only root can write in `/var/run`) makes a second daemon: `OneLockHolder` counts
those with the lock.  A shell that fails before it has opened its terminal, and before its relay
has a handler for `SIGCHLD`, is noticed by nobody, and relay and console wait for ever:
`SessionOver` is about the others.

## 6. Not modelled

The text of commands and output, with the lengths of the buffers it is put in; reading lines
and numbers at the console; what certificates say; what is typed and printed in a shell
session, and the terminal modes; options, wrappers, build files; the functions of `list.h`
that nothing calls.  A failed `epoll_ctl()` is modelled (`RInsert`): the test `< -1` of
`epoll.c:37` never sees it and the client is not watched; `CleanedUp` is therefore about
watched clients.  Concurrent use of one SSL object by E (read) and M (write) is not
represented: what the library then does is undefined.  The sockets and SSL objects that a
shell session loses are not counted.  A command that the client runs with `popen()` inherits
the open pid file as well and may outlive the client; that keeps the lock longer, never
shorter, and is not represented.  That entry 4 waits in `accept()` for ever when no child
comes is in `Bash`, but no property is about it: nothing bounds that wait.

## 7. Plan

Done: `Directory`, `Server`, `LogFiles`, `Client` with its servers, `Bash` with the processes of
a client, `ListHead`, `Flow`, and proofs of every safety property the runs check.  Next, in this
order:

1. The order of what one client gets: commands arrive and are answered in the order in which
   they were typed (`Flow`), as an action property and a theorem.
2. Lengths in `rctl.c` (`cmd[ret] = 0`, `strncat`, `sprintf`) and `getmacstr()`.
