# A TLA+ verification of ecaludp

ecaludp sends messages of up to 4 GiB over UDP. The sender cuts a message into
datagrams, the receiver collects them, in whatever order they arrive, and gives
the message to the user when it is complete. It does not retransmit: a message
that loses a datagram is lost, and its remains are thrown away after a while.

This directory has TLA+ modules for the core of that, TLC configurations that
check them on small instances, and proofs, checked by TLAPS, for all instances.
`PROJECT.json` lists the runs, the theorems, the hazards the properties are
aimed at, what has been found, and, for each definition, the lines of the source
it models. Source paths below are relative to the repository's root.

    tlc -config MCLink.cfg MCLink         # a run: a configuration and its module
    tlapm EcaludpLink_proofs.tla          # the proofs

## The system's parts

| Part | State | Operations | Module |
|---|---|---|---|
| Wire protocol v5 (`ecaludp/src/protocol/header_common.h`, `header_v5.h`, `datagram_description.h`, `error.h`) | none | header layouts, 32-bit fields, error codes | `ProtocolV5` |
| `v5::Reassembly` (`reassembly_v5.cpp`) | `fragmented_packages_`: for each (endpoint, id) the info, a counter, the vector of fragments, the time of the last access | `handle_datagram` (info, fragment, whole message), `remove_old_packages` | `Reassembly` |
| `Socket`, one datagram (`socket.cpp`) | `max_reassembly_age_`, magic bytes, the reassembly | `handle_datagram`, `set_max_reassembly_age` | `Socket` |
| `Socket`, calls of several datagrams (`socket.cpp`) | the operations under way in asio and in the user's threads; what the captured references refer to | `receive_from`, `async_receive_from`, `async_send_to`, `cancel`, `close`, `shutdown`, the destruction | `SocketOperations` |
| Datagram builder v5 (`datagram_builder_v5.cpp`) | none that outlives a call but the random generator's | `create_datagram_list` | `DatagramBuilder` |
| Sender, network, receiver together | the above, `send_to`, and what UDP has in flight | | `EcaludpLink`, `MessageChannel` |
| `AsyncUdpcapSocket` (`async_udpcap_socket.cpp`) | request queue, wait thread, closed flag | `bind`, `close`, `asyncReceiveFrom`, `receiveFrom`, the wait loop, the destructor | `AsyncUdpcapSocket`, `RequestQueue` |
| `SocketNpcap` (`socket_npcap.cpp`) | an `AsyncUdpcapSocket`, a reassembly, a buffer pool | `receive_from`, `async_receive_from`, `bind`, `close`, the destructor | `SocketNpcap` |
| `RawMemory` (`raw_memory.h`) | pointer, capacity, size; the heap | constructors, assignments, `swap`, `reserve`, `resize`, writing through `data()` | `RawMemory`, `ByteStrings` |
| `OwningBuffer`, the pool of recycle | a shared owner, a pointer and a size | | immutable values in `Reassembly` |
| Perftool (`samples/ecaludp_perftool`) | per object: a worker, a statistics thread, counters, `is_stopped_` | `start`, the worker's loop or handler, `print_statistics`, the destructors | `Perftool` |
| v6 header; Npcap helpers; command line and socket builders of the perftool, sample; endianness, build files, tests | | | not modelled |

How they interact. A send call gives the user's buffers to the builder, which
returns a list of datagrams that refer to those buffers, and hands the list to
the operating system one datagram after the other: in a loop (`send_to`) or in a
chain of completion handlers (`async_send_to`), so that the datagrams of several
calls interleave. A receive call reads a datagram into a buffer from the pool and
calls `Socket::handle_datagram`, which removes the packages that have expired,
compares the magic bytes, looks at the version, and calls the reassembly. If that
returns a message, the receive call completes; otherwise it reads the next
datagram. The receiver knows a message only by the sender's endpoint and the id
in the header.

What makes it hard, with the lines in `PROJECT.json` under `hazards`:

  - datagrams come in any order, twice, late or never, interleaved with those of
    other messages; the completion test is reached from two handlers;
  - the completion test compares two numbers, and then every slot of a vector is
    dereferenced: that the numbers imply the slots is an invariant nobody states;
  - the id is a random number with no record of those in use;
  - packages expire by the time of their last access, some of them are made with
    no access at all, and what arrives after the expiry must not revive them;
  - a send call can fail with half of the message on its way;
  - header fields are `uint32_t`, and sums and roundings on them wrap;
  - buffer boundaries and datagram boundaries fall anywhere relative to each other;
  - a call is a chain of handlers that captures the socket by reference, while
    threads of the user's cancel, close, shut down and destroy it;
  - a condition variable whose predicate depends on a flag that is changed
    without the mutex, and a thread that looks at that flag twice;
  - memory owned by hand, with a `malloc` that may fail in the middle of an
    assignment;
  - destructors that join threads nobody has told to stop.

What makes each part correct:

  - *Reassembly*: the counter stands for the slots; whichever datagram is last
    completes the package; nothing announced or stored is ever overwritten; no
    null slot is dereferenced.
  - *Socket*: expired packages never contribute again; rejected datagrams leave
    nothing behind that accumulates; alien traffic has no effect.
  - *Builder*: the payloads put together are the user's bytes; every datagram is
    within the limit and all fragments but the last exhaust it; the info agrees
    with the fragments.
  - *Link*: a message is delivered whole or not at all, from its sender, only
    after all of it was sent, more than once only by the network's duplication;
    and if nothing of it is lost it is delivered.
  - *Calls of Socket and SocketNpcap*: a call completes once, with a message of
    one sender and that sender's endpoint; a blocked call can be ended; what is
    undefined happens only to a user who makes two calls at once or destroys the
    socket under one.
  - *AsyncUdpcapSocket*: requests are answered in turn and at most once, no
    wake-up is lost, and the destructor returns.
  - *RawMemory*: each block has one owner and is as large as that thinks;
    objects behave as values, also when memory runs out.
  - *Perftool*: no message is reported twice or lost to a race; nothing a worker
    uses is destroyed before the worker has ended.

## The modules

Definitions bear the names of the functions and members they model.

**`ProtocolV5`** has no state. It has the layouts, the datagram types, the error
codes, increment in `uint32_t` arithmetic (`Inc32`; the width is the constant
`UINT32_MAX`) and `StrncmpEqual`, which is what `strncmp` does with four bytes:
it stops at a NUL that both have.

**`Reassembly`** is the class. A package is a record with the members of
`FragmentedPackage`; a fragment is a view, `[data, size]`: a token for the bytes
behind the header and the number of bytes the header claims; a message is the
sequence of the views it is made of. Every handler is an action over the map
`pkgs` it starts from, with one disjunct for each way out of it. The early returns
of `handle_datagram_fragment` keep the package they have just made, as the code
does. `handle_fragmented_package_if_complete` is the last conjunct of both
handlers, as it is the last call in both. Dereferencing a null slot ends the
program: `alive` becomes `FALSE` and nothing happens any more.

**`Socket`** is `Socket::handle_datagram` as one step: `Cleaned` is the map after
`remove_old_packages`, and it is over `Cleaned` that the reassembly's handlers
run. `set_max_reassembly_age` may be called at any time, and the clock ticks.

**`DatagramBuilder`** is `create_datagram_list` as an algorithm: a first step for
all that comes before the loop, and one step for each round of it. A buffer is
its size and a part of a datagram is a slice of a buffer, so the bytes of a
message are pairs (buffer, place) that can be told apart.

**`EcaludpLink`** composes `Socket` with the senders and a network.
`StartSending` is the creation of the list, with the draw of an id;
`SendDatagram` is a round of `send_to`'s loop or a link of `async_send_to`'s
chain, `SendFails` the error that ends either. The network is a set of datagrams,
of which it delivers any (`Receive`), delivers one and keeps it (`ReceiveCopy`),
or loses one (`Lose`). `HandOver` is the receive call: the socket handles the
datagram, and a message, if there is one, is appended to `delivered` with the
endpoint it came from. What the builder makes of a message is there in closed form
(`DatagramOf`), written from what `DatagramBuilder` is proved to make: an info that
agrees with its fragments, at least two of them, numbered from 0 as in the code
(the repository's `README.md` says from 1: see `builder_documented` below).

**`MessageChannel`** is the abstract specification: messages are sent, each once
and as a whole, and a sent message is delivered, as a whole, at most
`MaxCopies[m]` times. `EcaludpLink` refines it with `sent` as the calls that have
succeeded and `MaxCopies[m]` as one more than the number of times the network's
duplicates suffice for all datagrams of `m`.

**`SocketOperations`** has the calls that take several datagrams. A call is
carried on by operations, one per datagram: an asynchronous one is pending in
asio, then ready, then its lambda runs on one of `IoThreads` threads; a
synchronous one asks, blocks, and gets its datagram in a thread of the user's.
`handle_datagram` is split there into its beginning and its end, since it works
on the reassembly without a lock; two operations inside it at once are a data
race, after which nothing is said (`Sound`). `cancel`, `close`, `shutdown` and
`destroy` are actions between any two of these steps. What they do to a call
that blocks differs between operating systems, so the system is a variable that
never changes. Two history variables say which calls the destruction hurts:
`busy` has the calls for which asio had received or sent a datagram at that
moment and whose lambda, running or yet to be taken by a thread, had more to do;
`missed` has the calls whose lambda then touches the socket that is gone. The
lambda of a call's last sent datagram only compares iterators and calls the
user's handler (`IsLastSent`), so it touches nothing.

**`AsyncUdpcapSocket`** has the wait thread in the steps other threads can see:
its look at the predicate, the pop and the second look at `isClosed()`, the
blocking receive, and the handler. Code under `wait_thread_trigger_mutex_` is
one step, except between the pop and the second look, where `close`, which
changes the flag without the mutex, may come in: `MutexIsFree` keeps the others
out. `close` is two steps, closing and notifying, and it may be called by the
owner and by a handler. Udpcap's socket is modelled from its use here: it
returns the oldest packet, fails when it is closed or unbound, or fails for a
reason of its own. **`RequestQueue`** is the abstract specification: requests
are answered in order, each once, and a closed socket may forget the one that is
waiting if it is the only one. The code does forget it: see below.

**`SocketNpcap`** composes the two: the wait thread's handler is the lambda of
`receive_next_datagram_from`, which calls `handle_datagram` (the same as
`Socket`'s) and either completes the call or asks for the next datagram, from the
wait thread itself. The destruction is in the order of the members: the
reassembly and the pool go before the `AsyncUdpcapSocket`, whose destructor joins
the thread that uses them.

**`RawMemory`** has the objects' members and a heap, in which `malloc` and
`realloc` take a new place, the old one, or fail. Each constructor, assignment
and operation is one action, with the path on which it throws. **`ByteStrings`**
is what it promises: values.

**`Perftool`** has one sender or receiver of each of the six implementations,
with its worker (a loop of blocking calls, or a chain of handlers), the thread of
`print_statistics`, and the destructors: the implementation's, that of its member
`socket_`, and the base class's. The socket is what the modules above promise of
it: an operation succeeds or fails. `main` never destroys these objects, it
sleeps for ever; the destructors show what a user of the classes would get.

The modules `MC...` give the constants values for TLC.

A definition with the comment `Fault:` is a plausible mistake in the definition
that follows it: no specification uses it. Each stands for a bug the properties
have to notice. `PROJECT.json` lists, under "mutants", for each property of each
passing run, the definition that is replaced by its fault; TLC then finds the
property violated. It is how we know that a property says something about the
code.

## The runs

| Run | Module, configuration | Result | Distinct states |
|---|---|---|---|
| `reassembly` | `MCReassembly`, `MCReassembly.cfg` | holds | 21,801 |
| `socket` | `MCSocket`, `MCSocket.cfg` | holds | 12,392 |
| `link` | `MCLink`, `MCLink.cfg` | holds | 79,026 |
| `link_expiry` | `MCLink`, `MCLinkExpiry.cfg` | holds | 132,528 |
| `builder` | `MCDatagramBuilder`, `MCDatagramBuilder.cfg` | holds | 15,858 |
| `receive` | `MCSocketOperations`, `MCSocketOperations.cfg` | holds | 277,839 |
| `async_udpcap` | `AsyncUdpcapSocket`, `AsyncUdpcapSocket.cfg` | holds | 15,652 |
| `socket_npcap` | `MCSocketNpcap`, `MCSocketNpcap.cfg` | holds | 240,356 |
| `raw_memory` | `RawMemory`, `RawMemory.cfg` | holds | 14,998 |
| `perftool` | `Perftool`, `Perftool.cfg` | holds | 3,262 |
| `link_collision` | `MCLink`, `MCLinkCollision.cfg` | violated | |
| `builder_documented` | `MCDatagramBuilder`, `MCDatagramBuilderDocumented.cfg` | violated | |

`reassembly` asks what the class does with *any* datagrams: infos that contradict
each other, fragments outside of what was announced, at the largest number, or
shorter than they say. The program can die there, but only of a package whose info has cut off
a fragment that was counted (`DiesOnlyOfCutOffFragments`); the counter never lags
behind the vector, nothing complete lingers, and what came first stays. Two
endpoints and one id are enough, since the map is keyed by the pair and no handler
touches a second key; three slots and `UINT32_MAX = 3` let every vector
be short, right, and too long, and `num + 1` wrap to 0.

`socket` adds the clock and the user's age. The clock starts past every age, as a
steady clock does after the first seconds of the machine's uptime; three more
ticks with ages of 1 and 2 let a package expire, be made again, and expire
again. Among the datagrams are one that is rejected as a first fragment, alien
ones, one of version 6, and one too short.

`link` and `link_expiry` are the composition. `link` has two
fragmented messages of one endpoint (of 3 and of 2 fragments), in all
interleavings, with a loss, a duplicate, errors in sending and alien datagrams;
there every message of which nothing is lost arrives (`UndamagedMessagesArrive`).
`link_expiry` has a message of 2 fragments, so 3 datagrams, and a whole message
in one datagram, of another endpoint, with 3 duplicates, which is what a second
copy of the former takes, and a clock that lets its package expire between any
two of its datagrams. There the refinement of `MessageChannel` is checked. Two
messages suffice for interference: a step of the receiver
touches the package of one message, and the proofs, for any number of
messages, agree.

`builder` has every sequence of up to four buffers of 0 to 4 bytes, and
limits at which the header does not fit, or with 1, 2, 3 or 5 bytes of payload
(5: more than any one buffer). Every case of the loop's arithmetic is among
these: a buffer that ends within, at, and beyond the end of a datagram, empty
buffers in every place, and an empty message. `UINT32_MAX` is 15, so messages
reach the limit and exceed it by one. It checks what the receiver relies on: the
announced length, the announced number except where the code's rounding
overflows (`FarFromTheLimit`), and consecutive numbers from wherever they start;
that a sender's numbers and the receiver's slots agree is
`HonestTrafficIsNotMalformed` in `link`. An empty fragment, should the builder
make one, shows as one more than announced. `builder_documented`
checks what the repository's `README.md` says of the same fields, for messages of
exactly 15 bytes.

`receive` has two calls of any kind, two io threads, one packet waiting, which is
a whole message or a datagram of 0 bytes, after which the call needs another, and
a list of two datagrams to send, on each of three operating systems. Two calls are what a race takes, and two io threads what
it takes within one call, which is shown not to happen. With two, one can also
wait in asio while the other is between its datagrams as the socket is destroyed. It checks who can be hit
by undefined behaviour and who cannot, that `receive_from` can be unblocked the
way the comments and tests say, and that closing completes what is asynchronous.

`async_udpcap` has three requests, two binds and one packet: one request being
worked on, one in the queue and one added between any two steps of the thread; a
second bind is what its double look at `isClosed()` needs to go wrong.
`socket_npcap` has two calls and four requests, enough for both calls to need a
second datagram; the messages of two endpoints share an id. The clock stands still: expiry is `Socket`'s.

`raw_memory` has two objects and three addresses, so that `realloc` may move, and
sizes up to 3, so that what is assigned is smaller, equal and larger.

`perftool` has each of the six implementations and up to four operations that
succeed; every step of the worker comes between any two of the destructor and
the statistics thread.

Runs that may stop have `CHECK_DEADLOCK FALSE`: in `reassembly`, `link_collision`
and `socket_npcap` the program may be dead; in the link's runs everything may
have been sent and received and the clock be at its bound; the builder's
algorithm ends; in `receive` and `async_udpcap` the object may have been
destroyed and all calls made; in `perftool` a destructor may wait for an
operation that never ends. In `socket` and `raw_memory` deadlock is checked.

A type invariant is checked for `Reassembly`, `Socket` (within `LinkTypeOK`),
`EcaludpLink`, `AsyncUdpcapSocket` and `RawMemory`. The other modules have only
properties that say more than that.

### What was found

With a run that shows a doc or comment to be wrong:

  - `link_collision`: the id of a fragmented message "must be unique for each
    fragmented message" (`README.md:122`), but the builder draws it with a
    pseudo-random generator and keeps no record. If two messages of an endpoint
    draw the same id and overlap, the shorter one's info truncates the vector
    (`reassembly_v5.cpp:109`) but not the counter, which then reaches the announced
    number with empty slots left, and the size check dereferences a null pointer
    (`reassembly_v5.cpp:225`). With different ids this cannot happen: it is the
    theorem `NoHoleIsDereferenced`.
  - `builder_documented` shows two disagreements at once, in a message of 15 bytes
    in three fragments. The info's `num` is "the amount of fragments"
    (`README.md:123`), for messages "up to 4 GiB" (`README.md:7`), but it is rounded
    up in 32-bit arithmetic (`datagram_builder_v5.cpp:140`), which wraps for messages
    within a datagram's payload of that limit: their info announces 0 fragments. A
    receiver that gets it first takes it for a whole message of the wrong size and
    drops it. The theorem `InfoIsRight` says that all smaller messages are counted
    right. And a fragment's `num` is "1 to n" (`README.md:132`), but the builder
    numbers from 0 (`datagram_builder_v5.cpp:211`), and the receiver, for which `num`
    is the index of a slot, rejects number n (`reassembly_v5.cpp:144`). Builder and
    receiver agree with each other; an implementation after the `README.md` would
    not work with them.

Part of what a passing property states:

  - A request that the wait thread has popped when the socket is closed, and that
    is the last, is dropped without an answer (`async_udpcap_socket.cpp:155`), and
    so is one made after the thread has ended. `RequestQueue` allows exactly that
    (`Abandon`).
  - If a closed socket is bound again between the thread's two looks at
    `isClosed()`, the thread calls an empty handler (`EmptyHandlersNeedARebind`).
  - `bind` after `close` resets the closed flag before it joins the old thread,
    which may then wait for requests again (`async_udpcap_socket.cpp:117`): the
    owner waits in `bind` until somebody asks for a datagram or closes the socket.
  - A handler that asks again after each error keeps the wait thread of a closed
    socket going, and the destructor waiting. The model's bound on requests ends
    such chains.
  - A call that is between datagrams when the socket is destroyed uses the
    destroyed socket. For `Socket` a call that merely waits in asio does not, even
    if another one does (`OnlyBusyCallsMissTheSocket`); for `SocketNpcap` a call that is
    finished, with its handler, does not (`OnlyUnfinishedCallsMissMembers`).
  - `is_stopped_` of the perftool never ends a loop, because it is set only after
    the loop has been joined (`WorkersEndBeforeTheirBase`), and `cancel()` ends the
    asynchronous workers only if it finds an operation pending.

Seen and in the model, but not a property:

  - Fragments can be stored longer than `max_reassembly_age_`, because each fragment
    renews its package (`reassembly_v5.cpp:179`); the comment in `socket_npcap.h:113`
    says they are dropped.
  - The magic bytes are compared with `strncmp` (`socket.cpp:297`), which stops at a
    NUL: with a magic such as `{'E', 0, 'A', 'L'}` every datagram that begins with
    `'E', 0` is taken in, although the magic is for "dropping alien traffic"
    (`README.md:93`; also `socket_npcap.h:112`). `StrncmpEqual` does the same; no
    run has such a magic.

## Fairness

  - **Link** (`link`). Some started call gets on
    with its next datagram (`send_to` is a loop, and the handler of a completed send
    starts the next one), and some datagram that is in flight and is not lost
    arrives, at a receiver that always has a receive call pending. Both are weak: a call that has
    started can always take its next step, and a datagram in flight can always be
    received. Fairness is to sending and receiving as a whole; since there
    are finitely many datagrams, each gets its turn. No user is obliged to send, no
    clock to tick, no call to fail and nothing to be lost. Two outcomes are excepted in
    `UndamagedMessagesArrive`: calls that failed, which never count as sent, and
    messages of which a datagram was lost.
  - **Builder** (`builder`): a sequential loop, its next step happens.
  - **Calls of Socket** (`receive`): the threads that run the io_context and those
    inside `receive_from` go on (weak). No packet need arrive, and nobody need
    cancel, close or shut down.
  - **AsyncUdpcapSocket** (`async_udpcap`): the wait thread goes on when it can, who
    has closed the socket notifies, and the owner gets on with `bind` and the
    destructor (weak). Read handlers return: strongly, because a handler's own
    calls disable and enable its return, and it makes finitely many. No packet
    need arrive and nobody need ask or close. That the condition variable wakes
    up spuriously is possible and not assumed.
  - **Perftool** (`perftool`): the worker, the statistics thread, whose wait ends
    after a second, and a destructor that has begun go on (weak). Operations need
    not end, and nobody need destroy anything.

## What is proved

All eight proof modules are checked completely; they hold for all values of
the constants that satisfy the assumptions.

**`Socket_proofs`** has two parts. The first is about `Spec` of `Reassembly`, for any
datagrams, any endpoints and ids, and any width of the header fields:

| Theorem | States |
|---|---|
| `TypeCorrect` | `[]TypeOK` |
| `CounterIsSound` | `[]CounterCoversSlots` |
| `CompletePackagesLeave` | `[]NoCompletePackageLingers` |
| `OnlyCutOffFragmentsKill` | `[]DiesOnlyOfCutOffFragments` |
| `FirstDatagramStays` | `FirstDatagramWins` |

`TypeOK` is not inductive: `received_fragments_` is a `uint32_t` that is
incremented, and were it to wrap, it would be less than the number of filled slots. It
does not, because a fragment is only counted when it fills an empty slot. The
invariant says so: until the info is known the counter is the number of filled
slots, and after it the counter plus the number of empty slots is at most
`UINT32_MAX`, each increment taking one gap. Truncation by an info does not break this, as
the counter then is at most what the vector had, and the vector is only ever as
long as `UINT32_MAX`. Together with "no package of a running program is complete"
(`Settled`) and "a dead program has a package that lacks counted fragments"
(`CutOff`) it is inductive. The proof has one lemma for each way a handler ends and one for the
map without the old packages, so that `Socket` and `EcaludpLink`, which use
the same handlers over other maps, can use the same lemmas. `FirstDatagramStays`
is about a step: what a handler does to the package of its datagram is to
truncate or extend the vector when the info comes, once, or to fill one
empty slot.

The second part is about `SocketSpec`, for any datagrams, senders, ages and times:

| Theorem | States |
|---|---|
| `SocketTypeCorrect` | `[]SocketTypeOK` |
| `RejectedPackagesAreFew` | `[]RejectedPackagesDoNotPileUp` |
| `ExpiredStayDead` | `ExpiredPackagesStayDead` |

The first half of the argument is that a datagram concerns one key of the map: all
other packages are those the cleaning has left (`OthersAreLeftAlone`). The second
is what the cleaning leaves. While the clock is past every age in use, `now` minus
the age is positive, so no package with `last_access_` at the epoch survives it, and
what is at the epoch after the datagram is at the datagram's key. And when the package
of that key has expired, the datagram meets a new package, of which it makes an
info without fragments or one fragment without an info; neither is a complete
message of two or more. The invariant is that of the first part, reused over the
cleaned map, with the clock and the age added.

**`EcaludpLink_proofs`**, about `LinkSpec`, for any number of messages,
fragments, ids, losses, duplicates, ticks and changes of the age, under the
assumption `IdsAreUnique`:

| Theorem | States |
|---|---|
| `LinkTypeCorrect` | `[]LinkTypeOK` |
| `IntegrityHolds` | `[]Integrity` |
| `NoHoleIsDereferenced` | `[]CompletePackagesHaveNoHoles` |
| `HonestTrafficIsAccepted` | `HonestTrafficIsNotMalformed` |
| `CopiesCostDuplicates` | `[]CopiesNeedDuplicates` |
| `LinkImplementsChannel` | `ImplementsChannel` |

The invariant (`LinkInv`) says that every package in the receiver's map belongs
to one message, the one with its key, and *fits* it: no longer than the message,
each slot empty or holding the chunk that belongs there, its filled slots
fragments that have been sent, its counter their number, and, with the info, length and
size those of the message. A package that fits and whose counter equals its
length has no empty slot, so it is the message; its sizes add up; and with
the info and all fragments handed to the operating system the message is sent.
Removing packages keeps the invariant, whichever they are, so expiry needs no
argument about time. `IdsAreUnique` enters in one place: an id that is drawn has
no package yet. Without it the theorems are false, as `link_collision` shows.

The last two have a second hypothesis, `DistinctContents`: no two messages have
the same sender and chunks. Deliveries are counted by what the user sees, and of
two messages that look the same nobody can say which was delivered.
`CopiesNeedDuplicates` is not inductive, since a package in progress has taken
datagrams and has not delivered yet. The invariant (`Balance`) is an account for each message: the datagrams that its
delivered copies took, plus those its package holds (`Weight`: the counter, and
one for the info), are at most those that have arrived plus the duplicates. A
delivery empties the package and adds a copy; expiry gives up what was paid. For the refinement, a delivery
is `Deliver`, the last datagram of a call is `Send`, and everything else is a
stutter, for which it is enough that nothing else changes `delivered`; the
bound on the copies comes from `CopiesCostDuplicates`.

**`SocketOperations_proofs`**, about `OperationsSpec`, for any number of calls, io
threads, packets and datagrams to send, and each operating system:

| Theorem | States |
|---|---|
| `EveryCallHasOneResult` | `[]CallsAreInProgressOrCompleted` |
| `OneCallNeverRaces` | `[]RacesNeedTwoCalls` |
| `WaitingCallsSurviveDestruction` | `[]OnlyBusyCallsMissTheSocket` |
| `EmptyResultsMeanShutdown` | `[]NothingWithoutErrorMeansShutdown` |

An operation that runs the user's completion handler has given its call a
result; any other is live. The invariant (`CallsInv`) says that no two live
operations are of one call, that a call with a live operation has no result,
that none has two results, and that each has one or the other. A step replaces
one operation by another of the same call, or completes it. For the destruction
(`Orphaned`): once the socket is gone, nothing is pending in asio, and each
operation that has a datagram, no error and more to do is one of a call in
`busy`; no new one comes, since a lambda needs the socket for that. All that was
pending has an error, on which a lambda returns to the user without a
look at the socket. So the call that is added to `missed` is in `busy`. For the empty results, a `receive_from` gets a
datagram of no bytes from a socket that was not shut down only with a
sender, and then it goes on to the next one.

**`AsyncUdpcapSocket_proofs`**, about `AsyncSpec`, for any number of requests,
binds and packets:

| Theorem | States |
|---|---|
| `AsyncTypeCorrect` | `[]AsyncTypeOK` |
| `WakeUpsAreNotLost` | `[]NoWakeUpIsLost` |
| `NoEmptyHandlerWithoutRebind` | `[]EmptyHandlersNeedARebind` |
| `AsyncImplementsRequestQueue` | `ImplementsRequestQueue` |

`NoWakeUpIsLost` is inductive by itself: who pushes a request does so and
notifies under the mutex, and who closes is in `closing` until it has notified.
For the empty handler the invariant (`EmptyInv`) follows the thread from the pop:
if it has found no request, the predicate was true because the socket was closed,
nobody can add a request while it holds the mutex, and so only a second bind
lets its second look fail. The refinement maps the abstract queue to the popped
request followed by the queue; the pop then is a stutter, the call of the handler
is `Answer`, and the return from the thread with a popped request is `Abandon`,
which the code's test allows only when nothing else waits.

**`SocketNpcap_proofs`**, about `NpcapSpec`, for any number of calls, requests,
binds and packets, and any failures of Udpcap:

| Theorem | States |
|---|---|
| `MessagesComeFromTheirEndpoint` | `[]EndpointsBelongToMessages` |
| `FinishedCallsMissNothing` | `[]OnlyUnfinishedCallsMissMembers` |
| `CallsNeverDouble` | a call has at most one request or result |
| `CallsAreCarriedOnOnce` | `[]CallsHaveOneRequestOrResult` |

The module uses the invariants of both components: what `Socket_proofs` says of the
reassembly, where every fragment of a package comes from the package's endpoint
(`Origins`), and what `AsyncUdpcapSocket_proofs` says of the queue, where requests
are in the order of their making (`InOrder`), so the one the thread holds is not in
the queue any more. That a call never doubles (`AtMostOne`) then follows from
the lambda, which either completes its call or makes one new request for it.
That none is forgotten while the wait thread runs holds if the socket is bound once, or
cannot be bound again after a close (`BoundOnce`): a second `bind` starts a new
thread, and calls that the first one has dropped are then without a request
although a thread is running. `CallsAreCarriedOnOnce` has that as a hypothesis, the
other three have none.

**`RawMemory_proofs`**, about `RawMemorySpec`, for any objects, addresses, bytes
and sizes:

| Theorem | States |
|---|---|
| `MemoryTypeCorrect` | `[]RawMemoryTypeOK` |
| `BlocksAreOwnedOnce` | `[]BlocksHaveOneOwner` |
| `SizesAreWithinBlocks` | `[]SizesFitTheirBlocks` |
| `RawMemoryImplementsByteStrings` | `ImplementsByteStrings` |

The first three together, as a formula over objects and heap (`MemoryInv`), are
inductive. The proof says once what a change of one object's block may do to the
heap (`Relocated`) and shows that this keeps the invariant; each operation is
then a relocation, or a sequence of them, as the copy assignment with its
`resize` and `memcpy`. The refinement maps an object to the first `size_` bytes of
its block. Since blocks are not shared, a relocation changes the value of
one object only (`BecomesGets`); what is left is the new value of each
operation, and that one that throws has the old members and the old heap.

**`Perftool_proofs`**, about `Perftool`'s `Spec`, for any number of messages:

| Theorem | States |
|---|---|
| `MessagesReportedOnce` | `[]MessagesAreReportedOnce` |
| `WorkersEndFirst` | `[]WorkersEndBeforeTheirBase` |

The invariant adds that a statistics thread that waits holds no count, and that
`is_stopped_` is set only by a base destructor that has begun, hence after the
worker has ended.

**`DatagramBuilder_proofs`**, about `DatagramBuilder`'s `Spec`, for any sequence of
buffers, any maximum size and any width of the header's fields:

| Theorem | States |
|---|---|
| `DatagramSizes` | `[]DatagramsAreAsLargeAsAllowed` |
| `InfoIsRight` | `[]InfoAnnouncesTheFragments` |
| `NoByteIsLostOrMoved` | `[]PayloadIsTheUsersBytes` |

These are about sums and concatenations over sequences of any length, so they need
induction. Theorems that take an operator cannot be instantiated, but those
about sets can: `SetInduction` is derived from the library's `WFMin` (of the numbers
a set does not have, take the least), `SeqInduction` from that, and the
induction hypothesis is a set. `Sum` and `FlattenSeq` are recursive functions chosen
by `CHOOSE`; the lemmas first show that such a function exists for every length
(`SumTableExists`, `FlatTableExists`) and that two of them agree where their sequences do,
and then what one more element at the end adds (`SumOfAppend`, `FlatGrows`). The rest
only uses these.

The invariant (`LoopInv`) is the loop's: the position is within a buffer that has
bytes left, or behind the last; all fragments but the last are full and none is
empty; a fragment's `len` is its number of bytes and its `num` its place; and
the fragments hold together the bytes before the position (`Taken`). Zero-sized
buffers must be gone, else a round may take nothing and leave an empty fragment.
`InfoIsRight` then is arithmetic: full fragments and a last one add up
to the total, so the division that rounds up gives their number, if the
addition in it does not wrap. `PayloadInv` says of the payload what `Taken` says of its size: it is
the whole buffers before the position and the first bytes of the one it is in.

The proofs rest on the named assumptions of the modules, all of which TLC evaluates for
its instances:

  - `UInt32Assumption`, `TimeAssumption`: widths and times are numbers;
    `NullAssumption`: the null pointers are no fragments and no messages;
  - `DatagramsAssumption`, `ArrivalsAssumption`: datagrams from outside have the header's
    fields, with values in their range;
  - `MagicAssumption`: four magic bytes; `AgesAssumption`: ages are numbers of ticks;
  - `MessagesAssumption`: a message has between one and `UINT32_MAX` chunks and
    its size fits the header's `len` (far enough from the limit for the builder's rounding);
  - `IdAssumption`, `BoundsAssumption`: `NoId` is no id; bounds are numbers;
  - `AlienAssumption`: traffic that is not from a sender of the model is
    recognisably alien (too short, other magic bytes, another version);
  - `PacketsAssumption`, `UdpcapAssumption`, `AsyncBoundsAssumption`: no packet is
    the absence of one, and Udpcap does not fail with "OK";
  - `InputAssumption`: buffers have sizes, and the maximum size is one;
  - `RawMemoryAssumption`: `NULL` is no address, an object that is not constructed
    has no members and no value.

Only checked by TLC, because it is out of the prover's reach, is liveness under
fairness: `UndamagedMessagesArrive`, `BuilderTerminates`, `RequestsAreTakenUp`,
`DestructorReturns`, `ReceiveFromCanBeUnblocked`, `ClosedSocketsCompleteTheirCalls` and
`FailedWorkersLetTheDestructorEnd`. Of the definitions, `SumOfSizes`,
the size of a message in the link, is used in its proof only in that equal
sequences have equal sums.

## What is abstracted

  - Bytes are tokens with a size; a view on a datagram's memory is a value. The pool
    and the reference counts that make this true are not modelled.
  - A call of `handle_datagram` reads the clock twice, to expire and to note the
    access; here both give the same tick.
  - In `EcaludpLink` one receiver handles one datagram at a time; loops, several
    receive calls and threads are in `SocketOperations`.
  - Memory runs out in `RawMemory` only.
  - asio is modelled as `socket.cpp` uses it: an operation of a socket that is
    closed or cancelled while it waits completes with an error, others complete
    as they would have. Asynchronous operations are not ended by `shutdown`.
    Whether `cancel`, `close` and `shutdown` end a `receive_from` that blocks
    depends on the operating system, as the comment at `socket.cpp:196` and the
    tests say.
  - A `SocketNpcap` is used with `receive_from` or with `async_receive_from`, not
    both, and nobody binds or destroys it from a read handler (the thread would
    join itself).
  - A perftool socket that cannot be created ends the program, and the thread that
    destroys an asynchronous worker's object races with the worker's use of its
    asio socket; neither is modelled. `cancel()` there is one step.
  - Endpoints, ids and messages are model values or small numbers; the random generator is a
    choice from `Ids`, either among those an endpoint has not used or among all.
  - In `EcaludpLink` the network's losses and duplicates (`MaxLosses`,
    `MaxDuplicates`), the clock (`MaxTime`) and the messages are bounded; nothing else is.

## The plan

Done, in the order of their weight: the reassembly and the socket, which decide
what the user gets; the builder and the link; the threads and calls around them
(`AsyncUdpcapSocket`, `SocketNpcap`, `SocketOperations`); the memory below
(`RawMemory`); the perftool.

Worth adding:

 1. The buffer pool: which views exist when memory returns to it, with
    `OwningBuffer` as a reference and not as a value.
 2. `SocketNpcap` with a clock, so that packages expire between the calls that
    share them.
 3. In the perftool, the race of `cancel()` with the handler inside asio's socket.

Of the proofs, one is left: that the datagrams of `DatagramBuilder` are those that
`EcaludpLink` has in closed form (`DatagramOf`). What the two theorems on info and
sizes say of the builder is what `DatagramOf` is written from; that it is the same is
for the reader to see.

## Not modelled

  - The v6 header: nothing uses it; the receiver answers it with
    `UNSUPPORTED_PROTOCOL_VERSION`, which `Socket` has.
  - The Npcap helpers and the setters of `Socket` and `SocketNpcap` that pass
    through to asio or udpcap: they forward to a library and keep no state.
  - The perftool's command line and socket builders, and the sample: pure
    input, output and configuration around the calls that are modelled.
  - The endianness macros, the build files and the tests, which were read as
    documentation of what the code is meant to do.
