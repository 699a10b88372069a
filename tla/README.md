# Verification of dukserver in TLA+

dukserver is a small http server in C that runs JavaScript applications in a
Duktape interpreter: `libhttpd` (threads, messages, a WSGI-like layer),
`libsocket`, and `duktape/dukpylib.c`, a Python-like library for scripts.  This
directory holds its models, the TLC configurations that check them and the
TLAPS proofs about them.

## 1. The system

| Part | State it keeps | Operations | Interacts with |
|---|---|---|---|
| multi-processing module, `http_mpm.c` | 6 events, a mutex, two interwork cells, the loop variables of its threads | create, set_process, start, close; the accepter, fastcgi and frontend loops | http_sys (calls), callbacks into WSGI, http_server and http_sendrecv |
| threads, mutex, events, memory, `http_sys_*.c` | semaphores or auto-reset events, a table of allocations under a mutex | event set / wait / trywait / waittimeout, mutex take / give, begin_thread, malloc / realloc / free / exit | everything |
| WSGI layer, `wsgi_server.c` | an interpreter; globals `__file__`, status, headers, `environ`; its value stack | initialize, process, finalize, `start_response` | called by fastcgi; calls dukpylib |
| script library, `dukpylib.c` | `Modules.traces`, `__file__`, file and subprocess objects | include, require, path functions, file objects, subprocess, encodings, time | Duktape, operating system |
| messages, `http_sendrecv.c`, `http_content.c`, `http_string.c` | header and body buffers, body pointer and size, the temporary file | recv_headers, recv_body, recv_request, send_* | libsocket, http_parse, http_map |
| header parser, `http_parse.c` | none | request line, response line, headers | http_map |
| header map, `http_map.c` | a table of pairs, iterators | set, get, erase, iterate | http_sys memory |
| form codecs, `http_urlencode.c`, `http_urldecode.c` | an output buffer | quote, unquote, encode, decode | http_map, http_sys memory |
| connections, `http_server.c`, `http_client.c` | listening and connected sockets | create, destroy, accept, close, connect | libsocket, http_sys memory |
| sockets, `usocket.c`, `wsocket.c` | descriptor, blocking mode, last error | connect, accept, send, recv with timeouts | operating system |
| child processes, `subprocess_linux.c` | pid, two descriptors | psopen, pswait, psclose | kernel, dukpylib objects |
| hash map, `hashmap.c` | slots of chains, iterators | set, get, del, iterate | nothing (not linked into the server) |
| programs in `test/`, scripts, manual, makefiles, Duktape | | | |

What is hard about it:

* **the handshake** (`http_mpm.c:163`): every frontend thread hands its request to
  the one fastcgi thread through ONE pair of cells, with a mutex and two events.
  Order, lost or left-over wake-ups, failing scripts and closing while requests
  are under way decide whose answer a client sees;
* **closing**: the accepter and fastcgi are joined, the frontends are not; the cells
  are on the accepter's stack; handles are freed while frontends use them;
* **one interpreter for many requests**: whatever a request leaves in globals, in
  `Modules.traces` or on the value stack is there for the next one, and
  exceptions take short cuts past the code that puts things back;
* **framing and sending**: requests are cut out of a byte stream that is segmented
  at will, with buffers of fixed size, a file as the alternative, `100-continue` and
  timeouts; answers go out in blocks, and a block that was cut is not tried again;
* **ownership**: every block of memory is in one table that ends the process when it
  is full or asked for something it does not know; blocks are taken by one thread
  and freed by another, and every call of the sockets may fail in between;
* **descriptors**: script objects keep numbers, not descriptors; numbers are given
  out again; children inherit everything that is open;
* **texts**: parsers and codecs that walk over buffers with pointers.

`PROJECT.json` ("hazards") lists, line by line, what can go wrong, with the
properties that are about it.

## 2. Modules

```
RequestService     what the threads promise to clients (abstract)
HttpMpm            http_mpm.c with http_sys events, mutex, threads
  MCHttpMpm, HttpMpmProofs (safety; implements RequestService)
WsgiContext        wsgi_server.c and include(): one interpreter, many requests
  MCWsgiContext, WsgiContextProofs
HttpRecv           http_recv_request on one connection
  MCHttpRecv, HttpRecvProofs
HttpSend           http_send_response, http_send_request and socket_send
  MCHttpSend, HttpSendProofs
Dictionary         what a map promises (abstract)
HttpMap            http_map.c: table, heap blocks, iterator
HashMap            hashmap.c: slots, chains, iterator
  MCMaps, MapProofs (safety; both implement Dictionary)
MemoryTable        the table of allocations of http_sys
Connections        a client and a server of one thread, over MemoryTable and the sockets
ServerMemory       what the threads of duk_server take and give back
  MCConnections, ConnectionsProofs    both
FormCodec          http_urlencode.c and http_urldecode.c
PathNames          os.path.join, normpath, abspath
HttpParse          http_parse.c, and the header lines http_sendrecv.c writes
  MCText           FormCodec, PathNames and HttpParse
  TextProofs       FormCodec, PathNames and HttpParse
Subprocess         subprocess_linux.c and its objects, the descriptor table
  MCSubprocess, SubprocessProofs
```

An operator preceded by a comment `MUTANT` is a plausible bug in the definition that
follows it.  It is used by no specification; put in the place of that definition it
breaks the property `PROJECT.json` names, which shows that the property depends on
the code.

### HttpMpm

One program counter per thread: `mpc` (main), `apc` (accepter), `fpc` (fastcgi),
`pc[f]` (a frontend, which is identified with its connection).  A label names what
its thread does next, and one action is one call that touches shared state:
a cell, an event, the mutex.  The correspondence is
`Main*` = `http_mpm_set_process`, `http_mpm_start`, `http_mpm_close`; `Ac*` =
`_worker_accepter`; `Fc*` = `_worker_fastcgi`; `Fe*` = `_worker_frontend`.
`sem` holds the events (with `AutoReset` they saturate at 1, as on Windows), `mutex` its
owner.  `slotReq` and `slotRes` are the cells; `AcEnd`, the end of the accepter,
leaves in them whatever the stack happens to hold (`Junk`, NULL, or the old value), and
threads that touch them later may also fault (`StackUnmapped`, `FcWild`, `FeWild`).
`alive` are the handles `http_mpm_close` has not deleted; `intact` those whose memory,
freed or not, still reads as a handle: a call on another one fails at once.
`process_cb` is `FcProcess`: a response to the request or NULL.  A request is
`<<connection, number>>` and a response is named by its request.

Left out: time (a timeout may fire whenever what it waits for has not happened),
failures of `sem_wait` by signals, the end of the process after `http_mpm_close`
(frontends may go on), and how a request is received and a response sent.
`SpawnMayFail` covers `pthread_create` failing, after which an uninitialised thread id
is detached (nothing, or `fault`).

`RequestService` knows connections and requests only: absent, open, pending, executing,
executed, closed.  One request is executing at a time, none twice, the answer to
a client is its own last request or an error, which closes the connection.
`HttpMpm` defines the mapping (`phaseBar`) and `ServiceSpec`.

### WsgiContext

The state of the interpreter that outlives a request.  `Begin` is `_put_request` and
the evaluation of `include(__file__)`; `Include`, `Return`, `Catch`, `Throw` are what
scripts make of `include()` (`_include` pushes `__file__` on `Modules.traces`, and pops it
only when the file was evaluated without an exception); `Call` is the evaluation
of `application(...)`; `StartResponse` and `Respond` are `_start_response` and
`_get_response` with their early returns; `Initialize` and `Finalize` bracket
the life of a heap.  The fields `_put_request` gives `environ` are abstracted away, and its copy of the body
with them, which is in `HttpRecv` (`CopyFaults`).  Values in globals are named by the request that put them there.
`stack` counts values left behind on the value stack.
Scripts may do anything but write to the library's own globals.

### HttpRecv

A byte is its position in the stream of the connection; a message is a start, a
header length and a body length.  `RecvHeaders` is one round of `http_recv_headers`
(any number of bytes, the search with `start_pos`), `Parse` the header parser, the
100 response and the choice of `http_recv_body` (no body, body already there,
buffer, file, file that cannot be created), `RecvBody` a round of
`http_recv_binary` or `http_recv_file`, `RecvBodyStops` its end by timeout or
hang-up, `Handle` the caller's turn to the next request.
What the caller of the server does with a body is to copy `size` bytes from its pointer
(`_put_request`, `wsgi_server.c:161-188`); a body in a file has a size and the pointer NULL, and the action `CopyFaults` ends
the process there (`crashed`).  `Handle` is for all other bodies.
`slip` records the four ways in which the server gets out of step with the stream: bytes beyond a
message that has a body, or has none, are dropped with the buffers; the rest of a body comes after the
timeout; the temporary file is not created and the body stays in the socket.
A first segment of 1 or 2 bytes makes the search leave the buffer; the outcome is
left open, and the behaviour ends there (`fault`).  `linux` is the build: accepted
sockets block there, so that a receive has no timeout.
Clients are well-behaved apart from stopping: bodies contain no empty line and
`Content-Length` is right.

### HttpSend

`Start` is everything up to the first call of `socket_send` (the refusals, the body `None`
of an empty 200 or 404, Content-Length from the buffer or from the file),
`NextBlock` a round of `http_send_binary` or `http_send_file`, `Copy`, `Copied`, `TakePart`,
`Wait`, `Writable`, `TimesOut` and `Broken` are `send` and the loop around it in
`socket_send`.  A byte is its position in header and body; `wire` is what the kernel
took.  The kernel's buffer (`held`, `Room`), the peer (reads, stalls, goes away) and
other programs that write the file are external.  Accepted sockets, and those of
`http_connect`, block on Linux; both modes are modelled.  The text of the header is
in `HttpParse`.  The head is assumed to fit in the one block it is built in, which the code's `sprintf`
does not check (section 6).

### HttpMap, HashMap, Dictionary

`HttpMap` has the table of pairs of pointers, the heap those pointers point into,
and one iterator.  `http_strdup` may give any free block, also one that was freed a moment ago.
`HashMap` has the chains of each slot.  Its hash is a function of the key given by a
constant, its number of slots `MaxSlot` what `hashmap_create` makes of the argument.
Each defines what `get` returns for each key (`dictBar`, `hashBar`) and states that it
is a dictionary (`IsDictionary`, `HashIsDictionary`): `set` and `erase` are `Put` and
`Remove` of `Dictionary`, growing and iterating is nothing.

### MemoryTable, Connections, ServerMemory

`MemoryTable` is `http_malloc_`, `http_realloc_` and `http_free_`: `entry` is `_memory_map`,
`inUse` the blocks of the C library, `died` the message with which the process
has ended.

Who calls it is modelled twice, at two levels.  `Connections` has the programs of one thread, `test_post` of
`simple_client.c` and the server of `simple_server.c`, call by call and address by address: every function they use of
`http_server.c`, `http_client.c`, `http_content.c`, `http_sendrecv.c`, `http_map.c` and the form codecs is the list of its memory
and socket calls, in order, each with the list it goes on with when the call fails (`CreateCode`,
`AcceptCode`, `ReceiveCode`, `RequestCode`, `AnswerCode`, `PairCode`, ...).  `ptr` is what the program's pointers hold; the keys
and values of a map are one pointer to several blocks, which `http_map_delete` frees one by one (`DoClear`).  `made` is what a block
was allocated for, the file and line of its entry.

`ServerMemory` has the threads of `duk_server.c`, with all they take from the table: the handle,
six events and the mutex of `http_mpm_create`, the listener, the chains and arguments of `wsgi_server.c`, the
handle each thread is given, the interpreter's heap, and for each connection its three blocks, the request and its
pairs, the map of its form, the response or the `Fastcgi Error`, and the block its head is built in.  A block is
`<<whose, object, field>>`: which address it has, and in which entry, is `MemoryTable`'s concern and makes no difference to
who owns it.  What the interpreter has at a time is one block.  A step takes or frees what
a function takes or frees between two points where a call may fail or another thread may get hold of something.
`held` is what is in the table and can be reached, `lost` what is in the table and cannot, `sockets` what is
open.  The handshake is there in outline: one frontend inside, fastcgi at its request, the cell, `res`; events and joins are in `HttpMpm`.
A thread may not be created (`MainStarts`, `AcSpawns`, `AcStarts`), a script may fail or set headers that are no object,
an escape may be cut short, the table may be full at any `malloc` (`Full`), the close may come at any time, and after the end
of the accepter the cells may read as NULL or lead anywhere (`FeTakes`, `Wild`).

### FormCodec, PathNames, HttpParse

Algorithms over texts, one action per round of their loops.  `FormCodec` works on
bytes, with the sign extension of `c >> 4`; its encoder and decoder are composed.
`PathNames` works on words and separators, `HttpParse` on words, blanks, colons and CRLF; what
`http_find_*` do with characters is done with these.  Buffers that are read behind their
terminator or beyond a line (`strstr`) show what stands there.
What the models assume of their inputs: a form is a map, so that its keys are distinct; a text is a sequence of
bytes and NULL is none; a path has no NUL in it, and two words of it are apart by a separator; the headers handed to
the writer have distinct names, which are words, and values and first lines of one line.  The last is
what callers owe: neither `start_response` nor the loop that writes the lines checks it.

### Subprocess

The descriptor table `fd` (lowest free number first), what children have inherited
(`holds`), the two pipes of each child, the handle and the script objects (`ps`), and
the call the one script thread is in (`op`), so that other threads may open and close
connections between any two steps of `psopen`.  `_create_pipe_*` includes the
unchecked `dup`, and is one step: no other thread takes a descriptor between its `pipe` and its `close`.
A child that dies gives up all ends it holds; a process it has forked itself, which would keep them, is left out.
Stale numbers in `stdin` and `stdout` objects reach whatever the
number means now.

## 3. Runs

| Run | Question | Bounds |
|---|---|---|
| `mpm_safety` | handshake, ownership, joins; refinement of `RequestService` | 2 connections, 2 requests each, restart after 2 rounds, semaphores, threads that cannot be created |
| `mpm_fair` | `http_mpm_close` returns, answers arrive | 2 connections, 1 request each, restart after every round, auto-reset events |
| `wsgi_context` | traces, `__file__`, value stack, response globals | 3 requests, 2 scripts, 2 nested includes, 4 traces |
| `recv_framing` | framing, buffers, body pointer; 100-continue and complete messages are served | 2 messages, pipelined, both builds; buffer of 6, headers of 4 and 7, bodies of 0, 1, 2 and 7 |
| `send` | order, counts and lengths; sending ends | blocks of 3, a header of 2, bodies of 0, 1, 6 and 7, room for 2 in the kernel |
| `maps` | owners of blocks, iterations, both maps are dictionaries | 3 keys, 1 value, 6 blocks, a table that starts with one entry; 4 keys in 4 slots, two of them in one |
| `connections` | the table; what the programs and the server's threads take, give back and lose | programs: 46 addresses, of which `malloc` takes the lowest that is free, 45 entries, 2 sockets, a form of two names; server: 2 connections, 2 requests each |
| `text` | buffers, round trips, reference definitions | buffer of 8, forms of two pairs, received texts to 5 bytes; paths to 6 cells, joins of 3 arguments; first lines to 9 cells, headers to 3 |
| `subprocess` | leaks, double closes, stray uses, end of output | 2 children, 2 connections, 5 descriptors |
| `wsgi_file`, `wsgi_status`, `connections_form` | what a comment or a message says and the code does not do (section 6) | as above; `connections_form` with a form whose second name has a value, and the two lowest free addresses |

Why the bounds are enough: two frontends make every conflict over the mutex, the
cells and the events, and with a second request a frontend meets what its own
first one left behind; two rounds per
interpreter let a request arrive in the last round, in the middle of a restart and
after it.  Three requests let one leave something, one inherit it and one inherit
that.  A buffer of six bytes with headers of 4 and 7 and bodies of 0, 1, 2 and 7 meets
every comparison from both sides, and puts the end of one message and all of a second
into one segment.  Bodies of 6 and 7 with blocks of 3 end with a full and with a short block, and room for
2 bytes cuts every block.  A table that starts with one entry grows twice under three keys.
Forty-five entries suffice for the client, with a connection, a content and a form, and for the simple server, until enough
requests with an escape that is cut short have each left a block in the table: then it fills, and the server exits.  Two connections with two
requests each let a frontend wait for another, begin again, and meet the close at every point.  Five descriptors let every
`pipe`, `dup` and `psopen` both succeed and fail.  What is proved needs no bound.

Deadlock is not
reported where the program really stops: a closed server, a dead process, a message that
was sent, a text that was read, a client
that sends nothing more, a script that waits for a child that waits for it;
`wsgi_context` and `maps` check it.

Fairness.  `HttpMpm!FairSpec`: each thread runs when it is not blocked (the scheduler),
`process_cb` returns (a script that loops stops the server, by design), main
goes on once it has begun to close; nothing about clients, and a client may
leave `recv` for ever.  Weak fairness is enough: requests are finite in number,
so that every wait for the mutex ends without a fair mutex, which the code does not
have; freedom from starvation among endless requests is not claimed.
`HttpRecv!FairSpec`: the frontend thread runs.  `HttpSend!FairSpec`: the sender runs, and a
peer that is reading again and again does read (strong fairness, since it may stall in
between); a peer that stalls for good owes nothing.  `Subprocess!FairSpec`: the fastcgi
thread goes on with the call it is in.  Scripts, children and clients owe nothing.

## 4. Proofs

All proofs hold for every value of the constants that meets the `ASSUME`s of the modules.

* `HttpMpmProofs`: `Spec => []IInv`, and from it `TypeOK`, `NoCrossDelivery`, `RequestHeld`,
  `OneWakeup`, `EventsBinary`, `QuietAtDelete` and `NoCrashWhileServing`.  None of these
  is inductive.  `IInv` says who has been joined (`JoinInv`), that a request is
  polled for only with an interpreter and rounds left (`RoundInv`), which events are
  set once (`OnceInv`), whose turn it is (`TurnInv`: as long as the done event exists, fire, done
  and a busy fastcgi are ONE token, which exists only while the owner of the mutex waits),
  what a frontend holds (`HoldInv`) and what cells and copies contain at each point of
  the turn (`CellInv`, with `Wild` values admitted once the accepter is gone).  There
  is one lemma per conjunct and in it one step per action or thread.
  In the same module, `Spec => ServiceSpec`: a second invariant, `ExecInv`, ties
  responses to executions; then main, accepter and fastcgi steps change nothing
  a client sees except `FcRead`, `FcProcess`, `AcConnection`, and every frontend step is a step
  of the service or none.
* `WsgiContextProofs`: `Spec => []IInv`, and `TracesNeverShort`, `Nested`, `StackBounded`, `OneCall`.
  `Nested` (`traces` and `__file__` are the chain of scripts being evaluated) rests on
  lemmas about taking the last element off a concatenation; `StackBounded` needs
  `Unspent`, `OneCall` needs `SetTogether`.
* `HttpRecvProofs`: `Framed`, `BuffersSuffice`, and the action property `BodyInMemory` (how a body is handed on), from `RInv`.  `BuffersSuffice` and
  `BodyInMemory` are not inductive: a body fits because of what `RecvHeaders` and `Parse` know when they choose
  where it goes (`BufferInv`), and that rests on the header found being the next one of the stream and lying
  behind the one before (`CountInv`, on messages without gaps, `StreamInv`).  `Framed` needs
  `OrderInv`: while nothing has been dropped, the buffer begins where a message begins, and
  `taken` is its header and the part of the body received, unless the client has hung up.
* `HttpSendProofs`: `InOrder`, `CountCovers`, `LengthTold`, from an invariant about what is on
  the wire (ascending, below the block in hand, complete up to it if nothing was cut), how a
  message begins and what has been counted.
* `MapProofs`: for the header map, `Owned`, `ShowsAll` and `Spec => IsDictionary`.  The
  invariant adds that keys are in one entry each, that there is always room for one more,
  and what the iterator has shown.  The refinement reads the dictionary before
  and after each step through lemmas about `Overwrite`, `Insert` and `Erase`.
  For the hash map, `HashShowsAll` and `HashSpec => HashIsDictionary`, for every hash
  function and number of slots, from `HInv`: a node is in the chain of its key, and no key in two
  nodes (`Chained`), `length` counts the keys (`Counted`), and what an iteration has still to show is
  behind its cursor, in the same chain or a later slot (`LeftBehind`), which `set` and `del`
  keep although they change the chain under the cursor.
* `ConnectionsProofs`: the table is exact, alone and under the programs of `Connections`: every
  step of a program is a call of the table or leaves it alone.  For the threads of `ServerMemory`, `Accounted` for any number of
  connections and requests.  It is not inductive; `ServerInv` adds `Agree`, which places of the threads go together: one
  frontend is inside, fastcgi is at work exactly when one is served, and `answer`, the cell and `res` lead to the response of
  the frontend they are for, or to nothing.  `Owned` says, at each place of each thread, which blocks that thread is going to free, and
  `BlocksHeld` that the table holds these and no others.  Blocks are named by whose they are, so that what two threads own is apart
  (`Apart`), and a step that takes and frees only its own thread's blocks keeps the rest (`OneChanges`, `OwnStep`).  The
  steps in which something goes from one thread to another (a handle to the thread it is for, a connection to its
  frontend, a request to fastcgi, a response back) have lemmas of their own (`HandOver...`).  `NothingLeft` draws the
  conclusion: when all threads have ended `held` is empty.
* `SubprocessProofs`: `PipesAccounted`, `OnlyOwnUsed`, for any number of objects, connections and
  descriptors.  `SInv` ties every open end of a pipe to one number of an object in use or to one of
  `psopen`'s locals, and the other way round (`FdInv`), at each point of `psopen` (`CallInv`); that numbers of
  objects in use are distinct follows, and with it that a close never hits somebody else.
* `TextProofs`: `WritesFit`.  The invariant is a budget: before each write at most the size
  of the buffer is in use, and a doubling makes room for one short key or value.
  `BuffersFreed` is the second half of `DecodesPieces`, for every text; `EscapesRead` says what becomes of each
  byte that is escaped.
  `Complete` and `HeadersApart`, for every head in which a
  line ends (`HeadAssumption`, which `MCText` assumes of its own and TLC evaluates): what `http_find_char` finds
  lies where it was looked for, so that a key begins with a letter.

  The other five properties of texts compare a loop with what it is for, on texts of any length.  The
  induction theorems of the library take an operator as a parameter and cannot be used; what replaces them
  is `AllOfNat`, induction over a SET of naturals, given by a comprehension for each fact.  From it come the
  lemmas about recursive functions, folds and concatenations: `FlattenSeq` is described by a chain of
  growing beginnings (`Grows`, `Nested`, `Covered`), of which each element of the sequence adds its own.
  - `RoundTrip` (`TripInv`).  The encoder's text is the beginning that belongs to the pairs and keys written; the decoder is,
    at each byte, in one part of the finished text, a key or a value of a pair known by its
    number (`KeyAt`, `ValueAt`), and its dictionary is what was sent of the pairs before.  That a part ends where it should
    rests on escaped text containing no sign, that it reads back on the inverse of `Quoted`, byte for byte.
  - `DecodesPieces` (`DecodeInv`).  After each sign the dictionary pairs the keys up to there with the values behind
    the last of their places (`Paired`), but for the key in hand (`Settled`).
  - `HeadersArrive` (`ArriveInv`).  The head is its first line followed by the lines of the headers that are written at all;
    while it is parsed, what stands behind the cursor is a line of that list, and the dictionary holds the
    first line's entries and the headers before.  It needs that the search for a colon or for the
    end of a line stops at the one that was put there.
  - `JoinRight` (`JoinState`).  The buffer has room for the arguments left and a separator each, counting what is
    overwritten; all behind `used` is zero, and before it stand the arguments joined or, after one from the root, that one
    and the tail of what it has overwritten.  The same
    invariant holds for the call `abspath` makes.
  - `SamePlace`.  The first pass cuts the path into its tokens (`ScanState`); the second (`Resolving`) keeps a stack that is the token of the root,
    the names that lead where the tokens so far lead, and the tokens still to come; once a path has led back to
    at it starts, and beyond, only that it consists of single words.  What is written of the stack
    leads to the same place, since no `..` is left above a name.  The property, and with it the proof, leaves out paths with two
    separators side by side (section 6).

Model-checked only: liveness, all of it, which the provers do not reach; and `NoLeak` of the programs of one thread, which holds
of the client only for forms without values (section 6, 3), and whose calls are folds over forms.
Every other property of a run that is to pass is a theorem; `TypeOK` of each module with a proof is part of its invariant.

## 5. What the checks show

A frontend's handshake is right, with semaphores and with auto-reset events, for any number
of clients, across restarts of the interpreter and with failing scripts, and up to the
moment the accepter ends.  Include nests correctly until something is
thrown, and even then its pop never meets an empty array.  A response never mixes
two requests' status and headers, which rests on a check that never rejects.  Messages are framed
until one of four listed things happens.  What is sent arrives in its order; after a timeout the rest of the message goes out with a
hole in it, on sockets that do not block, and a body from memory is
reported as sent whole.  The map is a dictionary whose iteration survives `set` and
misses only entries that `erase` moves.  What the threads of a server take they give back, once, whichever
calls fail, but for what is listed as lost: the handle and the connection of a thread that was not created; a response whose
headers are no object; the answer nobody waits for any more after the close; what was allocated for
an escape that is cut short.  That the table has room is not claimed, since the interpreter takes as much as its scripts ask for: the process may end with the
table's message at any `malloc`.  A request whose body is in a file does end the process, when `_put_request` copies it.
The parser never lets a header replace the first line's entries.
Descriptors are neither leaked nor closed twice, and reading a finished child's output ends.

## 6. Where code and comments disagree

1. `FileRestored`: an exception in an included file leaves `__file__` there, and the next request runs that file.
2. `StatusOfThisRequest`: a request that does not call `start_response` gets an earlier status.
3. `FreesKnown`: `http_urlencode` frees the encoded key a second time instead of the encoded value
   (`http_urlencode.c:167`), and the table ends the process with `not exist in memory map!`.

Smaller observations, which the models contain and no run is about:

* the interwork cells are variables on the stack of the accepter (`http_mpm.c:212`), which ends before the threads that
  use them, while `http_mpm.c:70-77` describes them as created and deleted by frontend and fastcgi;
  `http_mutex_take` (`http_sys_linux.c:248`) has no timeout, so that the message for a mutex timeout is never reached and a
  frontend queued at close waits for ever;
* idle rounds count towards the restart of the interpreter; `_get_response` forgets a response it has allocated;
* `http_begin_thread` (`http_sys_linux.c:359`) reports a thread that was not created to nobody: the handle and the connection are
  lost, the socket stays open, and an uninitialised id is detached;
* `_put_request` copies a body from its pointer (`wsgi_server.c:161-188`), which is NULL when the body is in a file, or hands it to
  `http_urldecode`;
* the head of a response and of a request is written with `sprintf` into one block of `HTTP_MAX_SEND_BLOCK` bytes
  (`http_sendrecv.c:673-705`, `854-886`), and its length is not looked at;
* bytes of the next request that came with this one are dropped (`http_sendrecv.c:437`); a body in a
  file has a size and no pointer; accepted sockets block on Linux, so that timeouts are never reached;
* `http_connect` forgets `conn->host` when there is no socket (`http_client.c:59`);
* bytes from 128 on are quoted with a wrong first digit where `char` is signed (`http_urlencode.c:105`), and
  an escape that is cut short leaves the earlier result in place and what was allocated for it in the table (`http_urldecode.c:79`);
* a slash at the beginning, or a second one, becomes part of a token, so that `normpath("/a/../b")` is `b`;
  `join` with an absolute later argument keeps the tail of what it has overwritten;
* a head that begins with an empty line is accepted with nothing in it; the version is searched beyond the
  line; a response's version is kept without `HTTP/`; a value of blanks becomes NULL;
* children never see the end of their input, since they hold its other end themselves, and
  a close without wait leaves a zombie.

## 7. Not modelled

* Duktape (`duktape.c`, third-party, nine tenths of all lines), the example scripts, the manual and the makefiles:
  none of it is the server's own logic.  What the server uses of Duktape (value stack, exceptions,
  finalizers) is modelled where it is used.
* The Windows variants (`wsocket.c`, `http_sys_w32.c`, `subprocess_w32.c`), except for what sets them apart in
  a way a property can see: auto-reset events, sockets that do not block.
* In `dukpylib.c`: file objects, `stat`, `listdir`, time, encodings, which hand their
  arguments to the platform; the search for modules, which asks the file system.
* In `wsgi_server.c`: the fields of `environ` and what the chains of user callbacks call.
* In `http_sendrecv.c`: `http_send_headers`, the text of the headers a client adds itself
  (`_preprocess_request`; their blocks are in `Connections`), a head longer than its block, the wording of messages and dumps.
* How much of the table of allocations is used: each block of the interpreter, and its capacity in a server.
* Descendants of children, and descriptors taken between the `pipe`, `dup` and `close` of `_create_pipe_*`.
* In the sockets: name lookup, addresses, and calls a signal interrupts, which start
  their whole timeout again.
* `http_fini`, `hashmap_destroy` and the dumps, which walk over everything once at the end; the interactive shells.
