# gudb-server: verification

TLA+ models of gudb-server, a single-threaded Redis-like key-value server in C++
(`src/src/`), their TLC configurations, and theorems checked by TLAPS. Paths below
are relative to the repository; `Server.cpp:139` means line 139 of
`src/net/Server.cpp` there.

## The system

One process, one thread, one edge-triggered epoll instance. A request travels:

```
 socket --readv--> Connection::readBuf_ --Parser--> cmd::Registry --handler--> Database
 socket <--write-- Connection::writeBuf_ <--Encoder--------------------------'
```

| Part | State | Operations | What is hard | What makes it correct |
|---|---|---|---|---|
| Event loop `net/Server.cpp` | epoll set, `connections_` (descriptor -> Connection) | `run`, `acceptConnection`, `removeConnection` | a batch of events handled one by one while handlers close descriptors and `accept4` hands the numbers out again; edges that come once | no event meets the wrong connection, no descriptor leaked or shared, no wakeup lost |
| Connection `net/Connection.cpp` | `readBuf_`, `writeBuf_`, `listeningEpollOut_` | `handleRead`, `processCommands`, `handleWrite` | EAGAIN, partial writes, arming and disarming EPOLLOUT while the client reads, end of stream or reset at any point | every complete request answered once and in order; departed clients released; healthy clients kept |
| Byte buffer `core/Buffer.cpp` | vector, read and write index | `append`, `retrieve`, `readFd` | `readv` into the tail and a stack buffer; dead prefix | a first-in first-out stream |
| Parser `protocol/Parser.cpp` | none (it peeks at a buffer) | `parse` | input cut at any byte and parsed again from the start of the request; malformed input | what is run does not depend on the cuts; it waits only if more bytes can help |
| Encoder `protocol/Encoder.cpp` | none | `encode*` | - | - |
| Registry `cmd/Registry.cpp` | command table, filled by static constructors | `getCommand` | - | known names run, others are refused |
| Database `db/Database.h`, `db/Object.h` | `data_`: key -> object with deadline | `get`, `exists`, `set`, `remove`, `rename`, `setExpire`, `persist`, `ttl`, ... | lazy deletion: an expired key stays until a call looks at it; each look reads the clock again | a key is invisible from its deadline on |
| Commands `cmd/*.cpp` | none of their own | one handler per command | a deadline falling between two looks of one command; 64-bit overflow; commands that fail half way | reply and effect are those of a store without laziness |
| Skip list `ds/ZSkipList.cpp` | linked lists per level with spans, `dict_`, `size_` | `insertOrUpdate`, `incrBy`, `eraseByValue`, rank, count and range queries | spans after long histories of towers of all heights; levels added and trimmed; NaN | a sorted set of scored members |
| Logger, `main.cpp` | - | - | - | - |

Clients act through sockets only; the kernel (sockets, epoll, the descriptor
table) is modelled from how the code uses it and marked external in the map.
The database is touched only from inside `processCommands`, between two system
calls, so a command is atomic with respect to every other command. It is not
atomic with respect to the clock, and that is where its hazards lie.

## Modules

| Module | Models | How |
|---|---|---|
| `ByteStream` | what a buffer promises | a stream: what leaves is the beginning of what entered |
| `ByteBuffer` | `core::Buffer` | the vector and its two indices; `AppendData`, `Retrieve`, `ReadFd` = `ReadFits` or `ReadSpills`. `written` and `taken` are history |
| `Parser` | `Parser`, and `processCommands` around it | bytes are one-character strings; `HandleRead(n)` is one `handleRead` that finds n bytes and runs `processCommands` on them |
| `Ranking` | scores and the order of scored members | doubles as integers between two infinities, and NaN; queries on a function from members to scores |
| `SortedSet` | what `ZSkipList` promises | that function, and the result of every call |
| `ZSkipList` | `ds::ZSkipList` | `levels[l]` is the linked list of level l, `span[l]` the spans of its links, header first; `randomLevel()` is any height |
| `Values` | objects, replies, integers, bounds | an object is a tagged value and a deadline; a reply is its kind and content; `Wrap` is 64-bit arithmetic that overflows as it does in two's complement builds |
| `Database` | `class Database` | operators from a store and a clock reading to a store |
| `Execution` | the frame of a command | `data`, `clock`, `up`, and the last call and reply as history; `Readings(n)` are the n clock readings one command makes; the server commands |
| `KeyCommands`, `StringCommands`, `CollectionCommands`, `ZSetCommands` | `cmd/key.cpp`, `string.cpp` with `utils.h`, `list.cpp`, `set.cpp` and `hash.cpp`, `zset.cpp` | one action per command, every early return a disjunct |
| `Commands` | the command table | `Next`, the properties, the refinement |
| `TtlStore` | what the database promises its clients | a store in which keys vanish exactly at their deadline |
| `EventLoop` | `Server.cpp`, `Connection.cpp` | one step of the thread per system call or parsed command; clients and kernel move in between |
| `MC*` | small instances | constants for TLC |
| `ByteBufferProofs`, `ParserProofs`, `CommandProofs`, `TtlViewProofs`, `TtlStoreProofs`, `ZSkipListProofs`, `EventLoopProofs`, `ReplyProofs` | theorems | see below |

Correspondence in brief:

- `Commands`: `data` is `Database::data_`; an action is one pass through the loop
  body of `processCommands` (`Connection.cpp:47-84`) for one parsed command. A
  handler that looks at the database n times takes n clock readings
  t[1] <= ... <= t[n], so a deadline may fall between any two of them.
  `up = FALSE` is the death of the process on a null `Object*`. A sorted set is
  a function from members to scores here; that the skip list is one is what
  `ZSkipList` shows, for scores that are numbers.
- `ZSkipList`: a tower is the pair of its score and member, present in the
  sequences of all its levels; `down_` leads to the same tower one level below.
  `Walk` is the descent every method makes, given the set of nodes, each with
  the rank it would be passed at, that the method's test lets it pass; the sums
  of crossed spans along it are the code's `curRank`, `cnt` and `rank_`.
- `Parser`: `at` is where the `BufferReader` stands, `wants` (history) says
  what a WAIT is for. Nothing leaves the buffer unless the result is OK. A loop
  of the code over n things is a function of the number of turns made,
  `upTo[i]`; the client that writes the requests (`Encode`: any bytes as an
  argument, as many arguments as an `int` can count) is external.
- `EventLoop`: `pc` says where the thread is (`wait` in `epoll_wait`, `loop`
  between two events, `accept`, `read`, `parse` at the head of the loop of
  `processCommands`, `reply` and `write` in `handleWrite` called by
  `processCommands` or for EPOLLOUT, `... arm` between the `write()`
  that returned EAGAIN and `epoll_ctl`, `finish` at the last test of the loop
  body). A turn of the loop of `processCommands` is `Execute`, `AwaitMore` or
  `Resynchronise`. `batch` is the rest of the events array; its order is arbitrary, as the
  kernel's is. Bytes are units: a request is one unit or two halves, a reply is
  one unit and carries the number of its request; 0 is the reply to a protocol
  error. The parser appears only as complete, incomplete or malformed, which
  `CutsDoNotMatter` justifies up to the first error.

Definitions marked `Mutant:` are bugs one could write in that place. No
specification uses them; each is there to show that a property notices it.

## The abstract specifications

`ByteStream`: `ByteBuffer` implements it with `in <- written`, `out <- taken`.

`SortedSet`: `ZSkipList` implements it with `scores <- list.dict`. Results are
compared too, so every rank, count and range is that of the members sorted by
score and string. Ranges of members are defined, as the code has them, on the
members that share the lowest score (`ZSkipList.cpp:259`).

`TtlStore` knows no laziness and no lookups: its `view` never holds a dead key, a
command on one key sees it at one instant between the call's first and last
clock reading, and a command on several keys sees each at one instant, in order.
Beside it the store has `stale`, the keys that died and may linger: each was in
the view or was given a deadline by the call that had passed at its end (`Doomed`),
DEL and FLUSHDB take them away, and the only reply that depends on them is DEL's,
which is exact.
`Commands` implements it with `view <- Live(data, clock)` and
`stale <- Purgeable`, what has expired and not been looked at since. The reply is
compared as well as the view. It was written from the command comments and the
README's command table rather than from the handlers; where the handlers
disagree, the disagreement is a named departure in it, and these are the only
ones:

| Departure | The code |
|---|---|
| Race (crash) | a key expires between `exists()` and `get()`: LPOP, SMEMBERS and HGET die (`list.cpp:45`, `set.cpp:54`, `hash.cpp:51`); run `dies_on_expiry` |
| Race (rename) | the source expires inside RENAME, which ignores what `rename()` returned and replies OK (`key.cpp:209`), or RENAMENX, which replies 0 |
| Stale | DEL counts keys that had expired and were still in the map: `remove()` never asks (`key.cpp:19`) |
| Wrapped | a lifetime whose deadline leaves 64 bits wraps, to none at all when it meets -1, which stands for no deadline (`string.cpp:25`): SET EX and PX, SETEX, PSETEX (`string.cpp:55`, `61`, `278`, `331`), where PEXPIRE saturates (`key.cpp:65`); so does DECRBY of the smallest integer (`string.cpp:435`) |
| Bare | EXPIRE and EXPIREAT append "000" to the text, so "" and "-" are taken for 0 (`key.cpp:118`, `key.cpp:129`) |

## Runs

Passing:

| Run | Instance | Shows |
|---|---|---|
| `buffer` | 2 byte values, stack buffer of 3, 8 bytes in chunks of up to 4 | indices ordered, no byte lost, a drained buffer restarts at its front, refinement of `ByteStream` |
| `parser` | 3 scripts; the stream intact, with one byte replaced by any of 8, or with one byte missing; every way of cutting it; `int` up to 12 | requests run intact and in order, independent of the cuts, waits that can end |
| `skip_list` | 4 members, scores 0 and 1 and their sums, 3 levels | spans are distances, levels agree with `dict_`, refinement of `SortedSet` |
| `lifetimes` | 2 keys, strings, clock 0..4, 4-bit integers, arguments -1, 1, 3, 7, "a", "" | every key and expiry command and MGET, MSET, MSETNX refine `TtlStore` |
| `strings` | 1 key, clock 0..2, 4-bit integers, thirteen option lists of SET | every string command refines `TtlStore`; a list value gives the WRONGTYPE branches |
| `collections` | 2 keys, clock 0..2, integers -3..2, lists up to 2, 2 fields or members | lists, sets, hashes and sorted sets refine `TtlStore`; no empty collection survives |
| `event_loop_safety` | 3 clients, 2 descriptors, 2 events per wait, 1-unit reads and sockets | `OneDescriptorEach`, `EventsAreCurrent`, `NoLostWakeup`, `RepliesInOrder`, `KeepsHealthyConnections` |
| `event_loop_live` | 1 client pipelining three requests, a malformed one and another in two halves over a 1-unit socket; reads of up to 2 units | every request before the malformed one is answered, every departed client released; `NoLostWakeup`, `RepliesInOrder` and `KeepsHealthyConnections` when the request behind it is discarded whole or half |

Why the bounds are enough. In the command runs the width of integers is a
parameter: with so few values and a second of two milliseconds both ends of the
type, overflow of the product and of the sum, and deadlines at, before and after
the clock all occur. No single-key command makes more than three clock readings
of that key, so few instants place every reading before, at and after a deadline. No command
relates more than two keys except by repeating one step; the key lists contain
repeated keys. `last` is history that no guard reads, so the state view drops it;
every transition's reply is still compared. In the skip list a link's span is
changed by what happens under it, before it or at its ends; with four towers of
up to three levels every link can be passed over, split and joined with towers on
either side of it, and two scores make members tie. The parser's scripts hold
payloads that look like headers, empty and null arguments, a length of two
digits, and pipelined requests. The buffer's 8 bytes let a
read spill with dead bytes in front, unread ones behind them and room left at the
end of the vector, which takes 7. The event loop needs two clients for events of
one batch to interfere and a third connection, for which there is no descriptor
until one is freed, to take it over, possibly while the batch is being handled; a
one-unit socket makes every second reply meet EAGAIN; a request in two halves
meets every read boundary; two events per wait leave events behind. Half a valid
request is discarded after a protocol error only by a read of two units, which
`event_loop_live` has; one client is enough for it. The code's
constants are 64 events, 65536 bytes and 32 levels.

CHECK_DEADLOCK is FALSE in every run because each may rightly stop: the clock
reaches its bound, the clients have said all they say, or the process has died.

Violations, each a property that a comment or the README states and the code
does not keep:

| Run | Property | The code |
|---|---|---|
| `dies_on_expiry` | `NeverDies` | `list.cpp:45`, `set.cpp:54`, `hash.cpp:51`: `exists()` said yes, `get()` reads the clock again and returns null, which is dereferenced |
| `nan_breaks_order` | `NodesAreOrdered` | `ZSkipList.cpp:386`: `incrBy` adds without a test for NaN; a NaN node is before and after nothing, so it is never found again, and what is inserted later stands on the wrong side of it |
| `accept_spins` | `AcceptReturns` | `Server.cpp:139`: EMFILE is logged and retried at once, for ever, even when no connection is pending (the kernel looks for a descriptor before it looks at the queue); nobody is served meanwhile |
| `fin_drops_requests` | `ReceivedAreExecuted` | `Connection.cpp:28`: end of stream returns before `processCommands`, dropping requests read by the same call |

Two more divergences have no run of their own, because the properties name them
as their exceptions. After a protocol error the whole read buffer is discarded
(`Connection.cpp:60`), possibly with the first half of a valid request in it,
whose second half is then the next error: `RepliesInOrder` demands gap-free
replies up to the first malformed request and ascending ones after it, and
`CutsDoNotMatter` ends with the first error. And an empty line in the place of a bulk header is taken for a line that
has not ended (`Parser.cpp:98`), so that the connection waits although no byte can
help: `EmptyHeader` in `WaitsAreHonest`.

## Fairness

Only `event_loop_live` and `accept_spins` need it. `WF_vars(ServerStep)`: the
one thread runs whenever it is not blocked in `epoll_wait`, which returns when
the ready list is not empty. `WF_vars(Receive(c))`: the client reads what it was
sent, without which no server can deliver; clients need not send, shut down or
reset. There is no fairness between the events of a batch nor between items of
the ready list. `epoll_wait` here takes any set of ready items (the kernel's
first-in first-out ready list is not modelled), so with more clients than
MaxEvents one of them could be passed over for ever, which the real kernel does
not do; the liveness run has one client for that reason, and what several
clients can do to each other is left to `NoLostWakeup` and `EventsAreCurrent`,
which are safety properties, checked with three and proved for any number.

## Proofs

`ByteBufferProofs`:

- `BufferCorrect`: `Spec => [](TypeOK /\ NothingLost /\ DrainedIsReset)` for every
  set of bytes, every size of the stack buffer (assumed positive) and every
  sequence of calls. The conjunction is inductive as it stands: `NothingLost`
  needs the index order of `TypeOK`, and `DrainedIsReset` needs that appending and
  spilling never leave a non-empty buffer looking drained.
- `BufferImplementsStream`: `Spec => ImplementsStream`. The initial states agree;
  an append or a read is a `Put`, a retrieve is a `Take`, by `NothingLost` before
  and after the step.

`CommandProofs`:

- `KeyspaceCorrect`: `Spec => [](TypeOK /\ NoEmptyCollection)` for every set of
  keys, strings and fields, every integer width, every clock bound and all
  argument lists, under every command of the table. The invariant `IInv` says of
  each key that its object is sound (of its type, finite, and not an empty
  collection), which is what makes LPOP work: a list of one element loses its key, a longer one
  has a non-empty tail, and length 0 never happens. Each command builds its store
  by removing keys, by putting sound objects and by giving new deadlines; one
  lemma for each of these, and one per command that its new objects are sound. For
  the deadlines the lemmas `WrapInRange`, `SaturateInRange` and
  `IncrementInRange` say that wrapping, PEXPIRE's saturation and INCR's overflow
  test stay inside 64 bits.
- `LookIsInvisible`: a look that purges an expired key changes nothing that can be
  seen from then on. The refinement of `TtlStore` rests on it.

`TtlViewProofs` and `TtlStoreProofs`:

- `CommandsImplementTtlStore`: `Spec => ImplementsTtlStore`, for all keys, texts,
  scores, widths of integers, argument and option lists, and all clock readings
  the commands may make: whatever a deadline does in the middle of a command, its
  reply and the view it leaves are those of a store without laziness, or a named
  departure. Two stores agree at a time (`Agree`) when the same objects are seen
  in both then; a store and what the looks of a command have left of it
  (`Purged`) agree at the last of them, because a purge takes only what nobody
  sees and deadlines do not come back. Writing the same object or taking the same
  keys out of stores that agree leaves them agreeing, so what a handler writes to
  what is left of `data` is what the promise writes to its view. The invariant of
  `KeyspaceCorrect` is needed for the objects a handler finds: that LPOP's list
  has an element, and that the members ZINTERSTORE reads are finite.
  `stale` is followed on its own: the keys of the store a command leaves were there
  before, or have no deadline, or are doomed (`Known`), since looks and removals
  only take keys away (`Within`) and a writer of a collection keeps the deadline
  it found. What lingers afterwards therefore did before, or was alive, or is
  doomed (`CommandLingers`).
  A command on one key then follows from `ReadOnce` or `UpdateOnce`: one of its
  clock readings is the instant the promise chooses. DEL, EXISTS, MGET, MSET and
  MSETNX are followed key by key, SET's options one by one, and ZADD pair by
  pair, the promise's recursive function and the code's loop advancing
  together (`CountingUp`).

  The attempt found three faults of the models. A `CASE` in SET's options had
  overlapping guards and left open which error is replied when an option is both
  repeated and malformed. A wrapped deadline of exactly -1 means no deadline to
  the code (`string.cpp:36` and `63` test `expireTime != -1`), which no run had met, and
  which is part of the departure now. And option lists were any sequences,
  though their parts are texts.

`ParserProofs`, for every alphabet that holds the marks of the protocol, every
width of `int`, all scripts, every damage to one byte and every way of cutting
the stream:

- `CutsRight`: `Spec => []CutsDoNotMatter`, and `TypesRight`: `Spec => []TypeOK`.
  `Parser::parse` never changes its mind (`ParseStays`, from `LineStays`,
  `BulkStays` and `ArrayStays`): OK and ERROR stay what they are whatever bytes
  arrive behind those that led to them. So the loop of `processCommands`,
  unfolded request by request (`ProcessIs`, `RequestByRequest`), does with two
  pieces one after the other what it does with both at once, unless the first
  ends in an error (`Splitting`); and what it leaves is an end of its input that
  is not yet a request (`RestIs`). The invariant `BufInv` is that conjunction:
  what is left parses to WAIT and is the end of what has arrived, and what was
  run is what would have been run at once. `CutsDoNotMatter` alone is not
  inductive: it does not say that the rest waits.
- `RequestsRight`: `Spec => []RequestsIntact`. A number that has been written in
  decimal is read as itself (`DecimalRead`), so a header, an argument and a
  request are read as the client meant them and up to their last byte
  (`BulkRead`, `RequestRead`), whatever bytes a payload holds: the length decides,
  not the content. A part of a request runs nothing, for if it did it would have
  done so with the rest behind it (`PartOfRequest`). With `CutsDoNotMatter` this
  gives what has been run after any number of reads (`StartOfScript`).
- `WaitsRight`: `Spec => []WaitsAreHonest`. Behind whatever waits, more bytes `x`
  than any payload has and a CRLF are an answer (`FillerAnswers`). With exactly
  `IntMax` of them, as the property first had it, this is false: a payload of the
  greatest length would still wait for its CRLF's second byte.

`ZSkipListProofs`, for all members, scores, bounds and increments, any number of
levels and whatever heights `randomLevel()` draws:

- `ListIsKept`: `Spec /\ []NumbersOnly => [](TypeOK /\ SpansAreDistances /\
  TowersAgree /\ NodesAreOrdered)`, where `NumbersOnly` says that no score in
  `dict_` is NaN. The inductive invariant `Kept` names the places `P[l][i]` at which
  the nodes of level l stand on the bottom level: they ascend, spans are their
  differences (`Placed`), the bottom level ascends by score and member
  (`Ascending`), what is on a level is on the one below, and the bottom level and
  `dict_` hold the same (`Agrees`). The four properties follow from it and are not
  inductive themselves: they say nothing of where a walk ends. That is `WalkIs`: if
  the nodes that pass are the first c of the bottom level (`Cut`), the walk of every
  level, with however many levels above it, ends at the last node that does not
  stand behind c, and the spans it has summed are that node's place. So insert
  knows how to split the link it breaks (`PutIn`) and which links pass over the
  tower (`PassOver`), up to header levels that did not exist before, and
  eraseByValue what to join (`TakeOut`, `PassUnder`); both leave a list that stands
  at new places (`InsertShape`, `UnlinkedShape`), of which empty levels can be
  dropped (`UpToShape`).
- `ListIsASortedSet`: `Spec /\ []NumbersOnly => ImplementsSortedSet`. The writes
  leave in `dict_` what the plain function has. For the queries, the bottom level is
  the ranking of the members (`RankedIs`: the rank of a member counts those of the
  nodes before its node), a range by place, score or member is a piece of it between
  two cuts (`Piece`, `ScorePiece`, `LexPiece`), its length is what the two ranks
  differ by (`SizeIs`), and its nodes, read off the list, are the members ranked
  (`PieceIs`), also where a bound is excluded, the range is crossed or empty, or
  several members share the bound's score.
- `FiniteIncrementsAreSafe`: if no increment is infinite, both hold of `Spec` with no
  condition on its behaviour. So the defect that `nan_breaks_order` shows is the only
  way to break the list: an infinite increment to a score of the other infinity.
  `NumbersOnly` cannot be left out, since that run violates `NodesAreOrdered`.

`EventLoopProofs`, for any clients, descriptors, scripts, sizes of reads, batches
and socket buffers:

- `EventsMeetTheirConnections`: `Spec => [](OneDescriptorEach /\ EventsAreCurrent)`.
  Neither part is inductive. `IInv` adds that the backlog holds waiting
  connections once each (so `accept4` opens one that has no descriptor), that the
  events left in a batch and the one in hand are for different descriptors (so
  closing one leaves the others current), and that the thread has an event in hand
  exactly while it runs a handler.
- `HealthyConnectionsAreKept`: `Spec => KeepsHealthyConnections`. `IInv` also says
  that an event with HUP or RDHUP is about a client that has gone, since neither is
  ever undone; with `EventsAreCurrent` the connection closed is that client's.
- `NoWakeupIsLost`: `Spec => []NoLostWakeup`. The invariant `NothingForgotten` says
  where each open connection is in its cycle. Between two of its events its
  buffers are at rest, EPOLLOUT is armed exactly when replies are left, and what
  epoll would report of it is on the ready list or in the batch. While its event is
  handled, what the handler has passed and will not look at again is at rest: after
  the read loop's EAGAIN nothing is unread unless it is on the ready list, after
  `epoll_ctl(MOD)` the socket is full or on the ready list. This is the argument
  for edge triggering: the code reads to EAGAIN, writes to EAGAIN, and arms before
  it forgets.

`ReplyProofs`, for the same:

- `RepliesComeInOrder`: `Spec => []RepliesInOrder`. What has been received, what the
  kernel holds and what waits in the write buffer form one row of replies. The
  invariant `Streams` ties that row to the script through `Consumed`, the number of
  units run or discarded so far: the read buffer followed by the receive queue is
  the piece of the script after them (`Aligned`); every reply in the row has a
  smaller number than any request still to come (`Below`); as long as what has been
  consumed is well-formed the row is 1, 2, ... up to the number of the last request
  run, whose last half has been consumed (`Covers`), and later on it still begins
  with the replies to the requests before the first malformed one (`Tracks`,
  `Leads`). A read, a write or a receive moves the boundaries of the row or of the
  piece and not the whole; a turn of `processCommands` takes a request off one and
  adds its reply to the other; removing a connection leaves a front part of the row. `NoErrors` shows that
  nothing is resynchronised before the first malformed request.
- `EventLoopTypes`: `Spec => []TypeOK`, the types of that invariant and of `IInv`
  together.

Assumptions: the widths are positive, and `std::to_string` followed by
`std::from_chars` gives a number back (`ToCharsAssumption`); a text read as a
double is a score or refused (`FromCharsDoubleAssumption`); what stands for no
number is none (`NotNumberAssumption`), and keys and arguments are texts
(`StrAssumption`); argument lists hold at least one element, which the argument
counts guarantee; the listening socket is no client and descriptors are numbers.
The parser's alphabet holds the bytes of the protocol (`ByteAssumption`), and a
request has a command name, and no more arguments and no longer ones than an
`int` can count (`ScriptsAssumption`). TLC evaluates all of them on the
instances. A script's requests are numbered in the order they are sent
(`ScriptAssumption`). Members and the strings that bound their ranges are
totally ordered, as `std::string` is (`LexOrderAssumption`), and members are finite
in number (`MembersAssumption`).

Only model-checked: everything about liveness (run `event_loop_live`), which with
ENABLED is outside the prover's reach. Every other property of the passing runs is
stated by a theorem.

## Not modelled

- The text of replies. An unknown command's name is echoed into the error line as
  it came (`Connection.cpp:76`), also with CRLF in it.
- `reserve(count)` with a count the client chose (`Parser.cpp:82`), which throws
  when the memory is refused, and nobody catches it.
- Sums of scores that are NaN in `Commands`: ZINCRBY and ZINTERSTORE are bounded to
  sums that are numbers there, and `nan_breaks_order` shows what others do to the
  list. Rounding of doubles.
- The break of `run` on a failure of `epoll_wait` other than EINTR
  (`Server.cpp:92-95`), which ends the loop and with it the process.
- The test for an empty argument list in `processCommands` (`Connection.cpp:64`): no
  command without arguments leaves the parser, so the branch is never taken.
- Case folding of command names, logging, `main`, the build and the unit tests.
- Failures of start-up, `epoll_create1`, `bind` and `listen`, which end the process;
  failures of `epoll_ctl`; EINTR; running out of memory; the depth of recursion when
  a long list is destroyed (`ZSkipList.cpp:122`).
- A wall clock that is set back: expired keys that have not been purged would come
  alive again. `clock` never decreases here.
- Growth of `writeBuf_` for a client that never reads: the code sets no limit.
- Parser and event loop in one state space: the event loop's units stand for what
  `Parser` establishes about the bytes.
- A second definition of rank, range and count for sorted sets in `TtlStore`:
  ZCOUNT, ZLEXCOUNT, ZRANGE and ZRANGEBYSCORE are read off the sorted set with the operators
  of `Ranking` there as in `ZSetCommands`, so that `collections` checks their
  arguments, errors, lookups and clipping, and `skip_list` and `ListIsASortedSet` the
  ranks and ranges themselves, against walks over levels and spans.

## Plan

Done: buffer, commands on strings, keys, collections and sorted sets, parser, skip
list, event loop and connection, with the proofs above. Left: a composition of event
loop, connection buffers and parser on one connection, in place of the abstract units.
