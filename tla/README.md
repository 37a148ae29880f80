# Among Us STE edition: TLA+ models, checks and proofs

The repository is a small multiplayer game: a server (`src/Server.cpp`), a client with a map
and a moving player (`src/Client.cpp`), an offline map designer (`src/MapDesigner.cpp`), and
between server and client a home-made networking layer over asio (`src/networking/`). This
directory holds TLA+ models of it, the TLC configurations that check them on small instances,
and proofs of the main safety results for instances of any size.

Paths below are relative to the repository; `net_x.h` stands for `src/networking/net_x.h`.

## 1. Inventory

### 1.1 The components

| Component | Source | State | Operations | Modelled by |
|---|---|---|---|---|
| Thread-safe queue | `net_tsqueue.h` | a deque, `muxQueue`, `muxBlocking`, `cvBlocking` | `push_back`, `pop_front`, `empty`, `wait`, and others the incoming queue does not use | `FifoChannel`, `TsQueue` |
| Message codec | `net_message.h` | header (id, size), body bytes | `operator<<` and `operator>>`, a byte stack | header and body in `Connection`, what the stack does to a text in `Replication` |
| Connection | `net_connection.h` | socket, `m_qMessagesOut`, `m_msgTemporaryIn`, the reference to the incoming queue | `ConnectToClient`, `ConnectToServer`, `Disconnect`, `Send`, the handler chains of reads and writes | `Connection` |
| Server framework | `net_server.h` | acceptor, `connectionsContainer`, incoming queue, id counter | `Start`, `Stop`, accept handler, `MessageClient`, `MessageAllClients`, `Update` | accept, `MessageAllClients`, `Update` in `Server` and `TsQueue` |
| Game server | `src/Server.cpp` | `clientStatus` (status and count of each client), `timersContainer`, `clientStatusLock`, the game database | `OnClientConnect`, `checkClientConnStatus`, `pingClient`, `OnMessage` | `SharedLock`, `Server`; its database in `Replication` |
| Game state | `src/helper/GameInstance.*` | a json database, one in the server and one in each client | constructor, `UpdateDatabase`, `PrintDatabase` | `Replication` |
| Client framework | `net_client.h` | asio context, its thread, one connection, incoming queue | `Connect`, `Disconnect`, `IsConnected`, `Send` | `ClientLifecycle` |
| Client game | `src/Client.cpp` | screen state, player, world, network thread | `OnUserUpdate`, `handleNetworking`, `UpdateGameState`, `resolveCollision`, `LoadMap` | its messages in `Server` and `Replication`, its network thread in `ClientLifecycle`, `LoadMap` in `MapDesigner`, the screens and the walk in `GameWorld` |
| Map designer, world | `src/MapDesigner.cpp`, `src/helper/olcExtended.h` | the world that is drawn, the dictionary that is saved, the map file | faces, toggling a wall, moving, save, load, `World::GetCell` | `MapDesigner` |
| Collision | `src/helper/olcCollision.h` | none | `RayVsRect`, `DynamicRectVsRect`, `ResolveDynamicRectVsRect` | `GameWorld` |
| asio, json, PixelGameEngine, `src/pgex`, `src/assets` | vendored | | | asio and json only as far as the program relies on them; the standard library and what lies outside of the processes are marked external in the map |

### 1.2 How they interact

```
   client process                                        server process
 main thread --Send--> connection ==== TCP ==== connection --push--> m_qMessagesIn
 (OnUserUpdate)          ^   |                    ^   |                   |
                         |   | push               |   |                   | wait, pop
 network thread <--wait--+- m_qMessagesIn         |   +-- asio thread     v
 (handleNetworking)                               |     (accept handler) main thread
                                         Send, Disconnect                (Update, OnMessage)
                                                  |                       |
                                             timer thread ----------- clientStatus,
                                        (checkClientConnStatus)       clientStatusLock
```

* An application thread never touches a socket: `Send` and `Disconnect` post a lambda to the
  asio context of the connection, and the context's one thread runs lambdas and handlers.
* A complete message goes from the asio thread to the handling thread through a `tsqueue`.
* On the server three threads share `clientStatus` and the containers: asio (a new client is
  entered by the accept handler), the timer thread (one `steady_timer` for each client, whose
  handler arms it again), and the main thread (every answer of a client makes it live and
  clears its count).
* On the client the main thread assigns and releases `m_connection`, the network thread reads it, and
  the asio thread runs the handlers of the object it points to. No lock protects it.
* The designer and the client share the map file: one truncates it and writes it, the other parses it.

### 1.3 What is hard, and what makes each part correct

* **Queue.** Two mutexes and a condition variable whose predicate is not tested under the mutex
  it is waited with. Correct: FIFO, no message lost, no pop of an empty deque, no deadlock, and
  no wakeup lost (this last one does not hold: a push repairs it).
* **Connection.** The test "the queue of messages to send is not empty" stands for "a write is
  in progress"; the writer judges by the body, the reader by the header, whether a body follows;
  a close can come between a post and its lambda. Correct: one write at a time, framing never
  lost, FIFO each way, delivery on a working connection, both ends close.
* **Supervision of clients.** Timers, answers and closes of the same client race; an entry is
  read before the lock and written back under it; a `std::unique_lock`, meant for one thread, is
  shared. Correct: one check coming for a client that is supervised, one disconnect, accept before
  live before ping, a vanished client given up, the loop alive.
* **Game state.** The text of an update is pushed backwards, popped, pushed forwards, popped and
  reversed, in two programs; an update is relayed once, to whoever is connected then, its sender left
  out. Correct: every text can be parsed, updates are applied in one order, nobody misses or doubles
  one, and all databases agree in the end (this last one does not hold).
* **Client life cycle.** Three threads share `m_connection`; `Disconnect` stops the context that
  should close the socket, and nothing restarts it or wakes the network thread. Correct: `Disconnect`
  returns, no handler runs without a connection, no deleted object is used (this does not hold when
  `Connect` is called twice in a row), the socket is closed in the end (this does not hold).
* **Map.** The designer draws one copy of the map and saves another, under the key `y + x*mapSize.x`,
  and a client reads the file into a world of its own. Correct: the file says what was drawn (but for
  two kinds of frames, and for the faces of a new wall) and a client shows it.
* **World and collision.** A swept test of rectangles, with its divisions by zero, ties and contacts
  in the past, against the walls around a truncated position, one wall after another. Correct: the
  character stays off the walls, and comes out of one that it has slipped into.

`PROJECT.json` lists the hazards line by line, each with the properties that watch it.

## 2. The modules

### `FifoChannel`: what a message path promises
Two histories, `sent` and `delivered`; the second is always a prefix of the first. It is the
abstract specification of the queue (from `push_back` to the handler) and of each direction of
a connection (from `Send` to the incoming queue).

### `TsQueue`: the queue and its consumer
The grain is one step for each acquisition or release of a mutex. `push_back` is five steps
(`PushBack` takes `muxQueue` and pushes; `PushLockBlocking`, `PushNotify`, `PushUnlockBlocking`,
`PushUnlockQueue`), because it takes the second mutex while holding the first and the two
`scoped_lock`s die in reverse order. `wait()` is `WaitTest` (`empty()`, under `muxQueue` only),
`WaitLock`, `WaitBlock`, then `WaitNotified` or `WaitSpurious`, `WaitRelock`, `WaitUnlock`, and
the test again. The consumer's loop (`Update` on the server, `handleNetworking` on the client)
is `DrainTest`, `PopFront`, `Handle`. `asleep` is the wait set of `cvBlocking`: a notification
that finds nobody in it is lost. `front()` of an empty deque, undefined in C++, yields `None`,
which the type invariant does not allow to be handled. `pop_back`, `push_front`, `count`,
`clear` and the others are not used on the incoming queue and are left out.

### `Connection`: both ends of one TCP connection
One copy of the code runs at each end. `posted` holds the lambdas of `Send` and `Disconnect` in
order; `writes` and `read` the asynchronous operations under way with their outcome (`pending`,
`ok`, `error`: completed operations wait for their handler); `wire` the chunks in flight. A
message is a header chunk and a body chunk, as the program writes and reads it; `header.size`
is kept as zero or one, which is all the program asks of it. Handlers are one step each:
`HeaderWritten`, `MessageWritten`, `WriteFailed`, `HeaderRead`, `MessageRead`, `ReadFailed`.
`WriteHeader` and `WriteBody` share their second half, so `MessageWritten` and `WriteFailed`
stand for both; likewise `ReadFailed`. `close()` aborts what is pending and leaves what has
completed. `LinkFails` breaks the connection at any time; either end may then see a reset, or
nothing. `cancel()` and `shutdown()` are the throwing overloads, `RunDisconnect` may therefore
end the process (`Die`), and so may `remote_endpoint()` in the accept handler (`AcceptThrows`).
The incoming queue is the history `incoming`; its inside is `TsQueue`'s.

### `SharedLock`: one `std::unique_lock` object used by several threads
A `unique_lock` is a mutex pointer and a plain flag. `lock()` is `TestOwns` (throws if the flag is
set), `Acquire`, `Claim` (sets the flag); `unlock()` is `Release` (throws if the flag is clear, else
unlocks), `Disclaim` (clears the flag). The flag is read and written outside of the mutex, a data
race: every access is a step, so all interleavings are there.

### `Server`: supervision of the clients
It instantiates `SharedLock` for the threads `Timer` and `Main` and shares its variables; a
critical section is one step with the `unlock()` that ends it (`Leave`). That loses no
interleaving the properties could see: what it writes of `clientStatus` no other thread writes
meanwhile, except `Accept` for a client that has no job yet, and of the unlocked state it uses
the socket and the container's entry once each. Correspondence:

| Variable | Code |
|---|---|
| `status`, `count` | `clientStatus[id][0]` and `[1]`; `"New"` before the entry exists |
| `waits`, `tracked` | pending `async_wait`s of the client's timer; the client is in `timersContainer` |
| `entry` | its entry in `connectionsContainer`: none, a connection, or a null pointer |
| `socket`, `pending` | the connection's socket; lambdas of `Disconnect` posted and not run |
| `toClient`, `inbox` | messages sent and not answered; `m_qMessagesIn` |
| `job` | the check, or the message, a thread is at, with the status and count it has read |
| `fault` | why the process ended, exceptions of the lock apart |

`Accept` is the accept handler with `OnClientConnect`; `TimerExpires` the start of
`checkClientConnStatus`, which reads the entry before the lock, status and count one after the other: while
the main thread is writing both (`Answering`) it may find either value of each; `CheckExpired`, `CheckWaiting`,
`CheckLive` its three outcomes; `Ping` is `pingClient`; `TakeAnswer` and `HandleAnswer` are
`Update` and `OnMessage` for `ClientAccept` and `ClientPing`; `HandleForAll` is every message that
ends in `MessageAllClients`, which also erases closed connections. The client is seen from
outside: it answers in order, talks, and may vanish without a reset. The pair of queues of a
`Connection` is one queue here, and `inbox` is a FIFO: what the other modules show of them.

Time is not measured: an armed timer may expire at any moment, so every relation between the
interval of the pings and the delay of an answer is covered.

### `Replication`: the game database and its copies
`database` is the server's, `copy[c]` a client's; both are constructed alike. `UpdateGameState(c)`
announces an update, some values for some keys, among them keys no database has. `HandleUpdate`
is `OnMessage` for `ClientUpdateGS`: it unpacks the text, parses it (an exception ends the process),
applies it, sends the sender an acknowledgement and everybody else a relay. `HandleRelay` and `HandleAck`
are the client's `handleNetworking`. A body is a stack; the text of an update is three tokens, two
brackets around it, so that a text read backwards is recognised and refused. `Packed`, `Unpacked`,
`Relayed` and `Received` are the four loops over characters. Clients connect and disconnect at any
time. Channels are FIFO, as `Connection` and `TsQueue` show. The histories `log` and `joined` serve the
properties only.

### `ClientLifecycle`: connections made and given up
`app`, `net` and `thr` say where the application, the network thread and the context's thread are;
`conn` is `m_connection`, and the objects it has pointed to are numbered in the order they were made,
each with its socket (`open`), its asynchronous operation (`op`), its posted lambdas and whether
it has been deleted (`alive`). `Connect` is `ConnectCreates` (`make_unique`, which deletes what was
there, and `ConnectToServer`) and `ConnectStarts` (the assignment to `thrContext`, which ends the process
when that is joinable, or fails). Handlers and lambdas of a deleted object use it all the same (`HandlerDangles`). `Disconnect` is `DisconnectPosts`, `DisconnectStops`, `DisconnectJoins`,
`DisconnectReleases`. A call through `m_connection` by the network thread is a test and a use (`NetTests`,
`NetAsks`, `NetPosts`, `NetCrashes`); the use may see the pointer tested or the one there is now. `RunReturns`
is `run()` out of work or stopped: a context that has stopped is never restarted, so the handlers of a second
connection never run. `Exit` is the return of `Start`: `networkThread` is joinable, and the destructor of
the game ends the process.

### `MapDesigner`: drawing, saving, loading
A frame with all its keys is `Frame`, in the order of `OnUserUpdate`: faces, cursor, block, save, load.
Opening the file truncates it, so a frame that saves stops there and `Write` completes it; a crash
(`Quit`), a restart (`Start`) or a client (`ClientLoads`) may come in between. `world` is what is drawn,
`mapDict` what is saved. `strayed` records the two kinds of frames after which the two differ: a block
toggled in a frame that also moves the cursor, which is recorded under the cell the cursor has left,
and a load over walls that the file does not mention. A third difference is there in every run: a new wall's faces are
recorded blank whatever is drawn (`Agree`). `drawn` is what the designer had drawn when it saved.

### `GameWorld`: screens, walking, collision
The four screens of `OnUserUpdate`, each shown in one frame and left in the next, with `late` for the
frame that follows a sleep of a second, whose elapsed time includes it. `Move` is `RenderGameFg`: the
keys, `resolveCollision`, the border. `Hits`, `Contact` and `Resolve` are the swept test of
`olcCollision.h` in exact fractions, with a division by zero an infinity, or no hit when it is 0/0.
`Resolved` is a fold over the walls hit, in the order of their times (`MetLast`): each is
resolved with what those before have left. `strayed` records the frames the properties exclude, each
of which can carry the character into a wall: a diagonal frame, a moving frame after the
sleep, a frame shorter than the character is deep in a wall, and a frame that passes the far border, which
puts the character back by a whole tile.

### Proofs and instances
`TsQueueProofs`, `ConnectionProofs`, `SharedLockProofs`, `ServerProofs`, `ReplicationProofs`, `ClientLifecycleProofs`,
`MapDesignerProofs` and `GameWorldProofs` hold the theorems, section 5. `MCTsQueue`, `MCConnection`,
`MCServer`, `MCReplication`, `MCClientLifecycle`, `MCMapDesigner` and `MCGameWorld` are the modules TLC is run on.

## 3. The runs

| Run | Configuration | What it shows |
|---|---|---|
| `queue` | 2 producers, 4 pushes of 2 messages, fair | `PopNonEmpty`, `LockOrder`, `Conserved`; `ImplementsFifo`: the refinement of `FifoChannel`; `OnlyMissedNotifyStalls`: nothing but a missed notification leaves a message unhandled; `NextPushEndsStall`: the next push repairs it |
| `connection` | 2 messages shared between the directions in every way, bodies present or not, disconnects, link failures, fair | `Framed`, `OneWriter`, `ImplementsFifo` in both directions; `HealthyDelivers`: what is sent on a connection that keeps working is delivered; `PeerCloses` |
| `server` | 1 client, limits of `Constants.h`, 4 answers, 2 broadcasts, fair | `LockExclusive`, `LockReturns`; `OneTimer`, `AcceptFirst`, `DisconnectOnce`, `CountBounded`; `GoneDies`: a supervised client that vanishes is given up; `GivenUpForGood`: one that was given up is not supervised again, though a late answer makes its record `Live` |
| `server_null_entry` | 2 clients, 1 broadcast each | refutes `ContainerOfConnections` |
| `server_lock` | 1 client, 2 answers | refutes `LoopSurvives` |
| `replication` | 3 clients that come and go, 2 announcements of 2 overlapping updates, 2 ids, fair | `AlwaysParsed`; `CopiesHoldOthersValues`; `CopyIsOthersView`: a connected client's copy, with what is on the way to it, is what the others' updates since it connected make of a fresh database; `AcksInOrder`: a connected client is acknowledged the ids of its own updates, each once, in the order it announced them; `BystandersConverge`: who connects before any update and only listens comes to agree with the server |
| `replication_sender` | 2 clients, 1 update, fair | refutes `ChangesReflected` |
| `lifecycle` | 2 connects, 2 messages in, 1 out, fair | `QuietWithoutConnection`: no handler runs while the client has no connection; `OnlyReconnectDangles`: only a `Connect` over a connection in place lets a thread use a deleted one; `OnlyDisconnectNulls`: the network thread calls through a null pointer only if a `Disconnect` fell between its test and its use; `DisconnectReturns` |
| `lifecycle_disconnect` | same | refutes `DisconnectIsGraceful` |
| `designer` | 4 cells, one face, 2 tiles, 2 edits | `OnlyStraysDiverge`: what is saved is what is drawn but for the three cases of section 2; `ClientSeesDesign`: a client gets the walls drawn at the save |
| `game` | 9 cells, 36 maps of one or two walls, 4 units to a tile, frames of 1 and 3 units | `StaysOffWalls`: the character never stands on a wall's tile and reaches into one by less than a step; `HeldComesOut`: walking on puts it out again; `OnlyCornersLetIn`: of the frames that start outside all walls, diagonal ones included, only one that meets both sides of a wall at once ends on a wall's tile |
| `game_free` | same | refutes `StartsFree` |

**Bounds.** `MaxPushes`, `MaxSends`, `MaxTalk`, `MaxAnswers`, `MaxUpdates`, `MaxConnects`, `MaxMessages` and `MaxEdits` bound the work the environment gives;
`Disconnect` is pending at most once at each end of a connection. Four pushes from two producers let a push meet every
stage of `wait()`, with a queue of several messages and after a missed notification. Two messages
of a connection are enough for a send during a write, a message that follows one with a
body, both directions at once, and a send after a failure; each of the mutations and refutations
needs no more. Four answers are one accept and three pings, one more than a count can reach with
`MAX_FAIL_PINGS = 1`, so answers arrive early, late and after the client is given up. One client is enough for the liveness of the supervision; that the
safety properties hold for any number of clients is proved, and `server_null_entry` runs two. Two announcements by up to
two of three clients, of the same update or of two that set a shared key differently, are enough for updates that
cross, undo each other, or meet a client that connects or
leaves in between, with a third client that only listens; two ids tell the acknowledgements of one client apart. Two connects are a connect, a disconnect and a connect
again, or two in a row, against every place of the network thread and the context; two messages let
one arrive while another is handled. Two edits by frames of any keys are enough to draw a wall, save it, take it
away or draw another elsewhere, save or load again. Two walls are enough for walls met at the same
time, for a corner between two, for one wall met after another was resolved, and for a wall out of sight of the
truncated position; steps of one and three units of four give depths shorter and longer than the next frame, and
`LongStep`, forty units, crosses the map. Symmetry is used in `server_null_entry` only, which has no liveness
property.

**Deadlock.** TLC checks it in the queue's run, where the consumer can always be woken spuriously, and in the
designer's, where a client may always load. The other systems do stop, when the work allowed by the bounds is done or when an
exception ends the process, and their configurations say `CHECK_DEADLOCK FALSE`. That threads do not
block each other there is stated by `LockReturns`, `HealthyDelivers`, `PeerCloses` and `DisconnectReturns`.

**Fairness.** Queue: each thread that can go on does (weak fairness of the consumer and of a push
under way); nobody has to push, and no spurious wakeup is counted on. Connection: each context's
thread runs its lambdas and handlers, and a working link carries data and the end of the stream;
nothing obliges an application to send, or a broken link to report. Server: armed timers expire and
the timer thread handles them in the order of expiry (strong fairness for each client's timer, which is disabled
whenever the thread is busy); a thread that asks for the mutex again and again gets it in the end
(strong fairness: the other holds it for moments, every half second or so); lambdas and the handling loop run (weak
fairness). Clients owe the server nothing. Replication: the server's loop and the network thread of a
connected client run (weak fairness). Here and in `Server` that loop is the consumer of a `TsQueue`, which may sleep
over a message until the next push; the fairness stands because the pings keep pushing, on both sides, every half
second. Client life cycle: a `Disconnect` that has begun goes on, and `run()` returns once it may (weak fairness); neither
a handler nor the server is asked to do anything, for `Disconnect` must not depend on them. The designer and the game have
no liveness property.

## 4. Findings

Each is a run TLC refutes; the line quoted is what the program says of itself.

1. **A null connection is called** (`server_null_entry`, `Server.cpp:98`). A broadcast erases a
   closed connection while its timer is armed; `operator[]` then makes a null entry.
2. **The shared lock throws** (`server_lock`, `Server.cpp:46`). Two threads use one `unique_lock`.
3. **A client never gets its own change** (`replication_sender`, `Server.cpp:185`). The relay leaves the sender
   out and `UpdateGameState` does not apply the update locally; `README.md:18` promises that any change
   is reflected on all clients. In the trace the client that announced the change stays connected, and its copy keeps
   the old value for ever. The run `replication` shows what holds instead: `CopyIsOthersView` and
   `BystandersConverge`.
4. **`Disconnect` leaves the socket open** (`lifecycle_disconnect`, `net_client.h:108`). It posts the lambda that
   closes the socket and stops the context, which need not have run it, then gives up the object without deleting it;
   the comment at `net_client.h:103` promises to disconnect gracefully.
5. **A frame starts in collision** (`game_free`, `Client.cpp:219`). The cells looked at surround the truncated position,
   the character covers up to four of them; `olcCollision.h:92` assumes that rectangles do not start in collision.
   `HeldComesOut` and `StaysOffWalls` show why the game bears it.

Other weaknesses met while modelling are part of the models, and the properties say what holds in spite of them:
a wakeup of the queue is lost when a push falls between the emptiness test and the block
(`OnlyMissedNotifyStalls`, `NextPushEndsStall`); a message without a body is pushed with the body of the one
before it, which only the size in its header tells (`ImplementsFifo` reads a message by its size, as the program does, and so does not see it); the lambda of the connection's
`Disconnect` may throw on a socket closed meanwhile (`RunDisconnect`, `RunBye`); a late answer makes the record of a client that was given
up live for good (`GivenUpForGood`); a client is judged by a record read before the lock (`CountBounded` and `AcceptFirst` hold even so). Two more are in the models
and no property speaks of them, because the repository says nothing of what should happen: a client that connects again runs
a context that is stopped, is never served, and leaves its network thread waiting for ever; a client that connects late
never gets the changes made before.

## 5. What is proved

All theorems hold for every value of the constants, under the assumptions named in the modules:
threads and messages are distinct from the value that stands for none, bounds and limits are
natural numbers, a map is not higher than it is wide (the program's is square). The walk of the game has two more.
`ShortFrames`: a frame that does not follow a sleep moves the character by less than a tile, since it walks ten tiles a
second; a slower frame is covered only where it follows a sleep. `StartIsFree`: no map has a wall on the first cell, where the
character starts; `map.json` has none, and one that had would start the character inside it.

* `TsQueueProofs`: `TypeCorrect`, `PopsAreSafe`, `LocksAreOrdered`, `NothingIsLost`,
  `QueueImplementsFifo`. The invariant `Inv` adds to the types who holds which mutex at which place
  (`QueueOwner`, `BlockingOwner`), that the hand is full exactly while handling, that a consumer
  about to pop has a message to pop (nobody else removes), and the account of all messages, each
  by position. The refinement follows from the account: each step delivers the next message sent.
* `ConnectionProofs`: `TypeCorrect`, `OneAtATime`, `StaysFramed`. That the next chunk is the one the reader waits for is
  not inductive: it depends on every chunk behind it and on what the writer sends next. `ConnInv` follows a
  direction from end to end: what the reader `Expects` is at the front of the wire, a chunk is followed by the
  one it announces, and what the writer `Emits` next follows the last, or meets the reader when the wire is
  empty. An end that failed is asked nothing. Most actions keep both ends of a direction (`Kept`).
  `ConnectionImplementsFifo` is the refinement of `FifoChannel` in both directions. The same message may be sent
  twice, so contents do not tell which message a chunk is of. `FifoInv` numbers messages by their place in `sent`: there are a
  number `b` of messages that have left the writer, and functions `g` and `h` from places among the
  posted lambdas and on the wire to numbers, such that posted, queued, travelling, half read and delivered
  messages are consecutive ones of `sent`. Each action gives new witnesses; what is delivered is a prefix of what was
  sent, and grows by one message at a time.
* `SharedLockProofs`: `Exclusion`, `FlagClears`, for any number of threads. The point is that
  exclusion needs nothing of the flag: `Holds`, that a thread which has acquired the mutex
  holds it until its own `unlock()`, is inductive by itself. The race on the flag can end the
  process but not let two threads in.
* `ServerProofs`:
  * `CriticalSectionsExclude`: every step of `Server` is a step of `SharedLock` or leaves the lock
    alone, so `Exclusion` carries over;
  * `TypeCorrect`, by kinds of steps;
  * `TimersAreUnique` and `OneDisconnect` from `TimerInv`. `OneTimer` is not inductive: it needs that a
    client not accepted yet has no timer, that a supervised client is `Waiting` or `Live` (only its own
    check could declare it dead, and late answers only make it live), and that a client which was
    disconnected is no longer supervised;
  * `NoRevival` (`GivenUpForGood`), an action property, from the same invariant: only `Accept` makes a client
    tracked, and only of a socket that is new;
  * `CountsStayBounded`: `CountBounded` is inductive beside the types, since the check compares the
    same stale value that it writes back;
  * `AcceptComesFirst` from `OrderInv`, which says of everything a live status or a ping can come
    from (pings sent, their answers in the incoming queue or in the main thread's hand, the status
    the timer thread has read) that its client has been accepted. The status read is the one exception: it may be
    the `Live` that the main thread is writing at that moment, and then the lock keeps the timer thread out until the
    answer is handled. So this theorem needs `CriticalSectionsExclude`.
* `ReplicationProofs`: `TypeCorrect`, `EveryTextIsParsed`, `CopiesComeFromOthers`, from `RepInv`: an announced body is
  an update's text backwards, a relayed body the text, forwards, of an update the server has applied for
  another client. `ReverseTwice` and `TextIsRead` are the lemmas about the stack. `CopiesFollowTheOthers` and
  `UpdatesAreAcknowledged` (`CopyIsOthersView`, `AcksInOrder`) come from `ViewInv`. Each property is an equation between sequences, or folds of
  sequences, spread over a log, a channel, the incoming queue and a copy, and each step moves an element from one part to
  the next: the server appends to `log` the update whose relay it appends to `down[c]` (or the acknowledgement, for its
  sender), and a client's handler takes the first relay and applies it to the copy. The equations are inductive
  beside `RepInv` once it is known that a client outside has an empty past (`NotYet`) and joined within the log
  (`JoinedInTime`). What they need of the operators: a filter and a fold of a sequence with one more element at its end, or one
  less at its front (`WithinLast`, `WithinFirst`, `MadeLast`, `MadeFirst`).
* `ClientLifecycleProofs`: `TypeCorrect`; `NoHandlerWithoutConnection`, from `QuietInv`, which says that the context's thread is
  gone once `Disconnect` has joined it; `DanglingNeedsReconnect`, from `ObjectInv`: an object not made yet has nothing pending,
  and without a second `Connect` over a connection nothing that is made is deleted, so no pointer, however old, dangles;
  `NullNeedsDisconnect` (`OnlyDisconnectNulls`), from `NullInv`: the pointer tested stays what it was until the use, `m_connection`
  becomes null again only at the end of a `Disconnect`, when the context is stopped and its thread joined, and a use of null ends the process before anything changes that.
* `MapDesignerProofs`: `KeyIsReadBack` (on a map not higher than wide a key is read back as its cell, by the uniqueness
  of division, so no two cells share a key); `TypeCorrect`; `SavedIsDrawn` and `ClientSeesTheDesign`, from `MapInv`: beside
  `OnlyStraysDiverge`, that the walls of the file are those drawn when it was written.

* `GameWorldProofs`: `TypeCorrect` (the character stays on the map, whatever the collision leaves of a displacement),
  `StaysOff` (`StaysOffWalls`) and `ComesOut` (`HeldComesOut`), for maps and tiles of any size, any walls, and frames of any length
  within `ShortFrames`. The first half of the module follows the swept test: fractions are ordered (`TimesAreOrdered`),
  where the times of a displacement along one axis fall (`AxisTimes`), which of the eight cells such a displacement hits (`StepHits`), and
  that the first wall ahead takes it back to its edge whatever else it meets (`StepLeaves`). The second half is the
  invariant. `StaysOffWalls` is not inductive: it must be known how the character came to reach into a wall.
  `Slipped` says it, seen from the cell of the truncated position: that cell is free, the character reaches into the
  next cell, the one below or the one across by less than one frame's step, and is never in a corner between the first
  two. `WalkInv` keeps `Slipped` until a frame strays, with the types and the start in the first cell, which the screens leave
  alone. `ComesOut` then follows from where a frame towards a wall can end. `OnlyCorners` (`OnlyCornersLetIn`) is about one frame,
  along both axes or one. Each wall leaves a displacement along an axis as it is, or leaves the way to the corner of
  the character's cell or of the next (`Parts`); `PartsKeep` carries a fact along any order of resolving. To end on a wall's
  tile from outside all walls a frame must still lead to the left, or up, by all its length (`FrameEnds`, `FreeWalls`). If the wall there is
  met first by its other side, it turns what leads to it whenever it is resolved (`LeftIsTurned`, `CornerIsTurned`); if it
  is not, either the frame is past it and can only end beyond it (`PastBeside`, `PastBelow`), or both sides are met at once. The order of
  the walls, which the sort in `resolveCollision` gives, turns out not to matter to this property.

**Induction.** The induction theorems of the library take an operator as a parameter, which the provers cannot instantiate. Where a
proof needs induction it is over a set: `Least` says that a set of numbers that is not empty has a least element (from the
well-foundedness of `<`, stated of relations), `Induction` that a set which holds 0 and is closed under successor holds all
numbers, `AlongSets` the same of the subsets of a finite set, by their sizes. Formulas enter as sets
(`{n \in Nat : ...}`). `SetRecursion` shows by such an induction that the recursive function inside a fold of the community
modules exists, so that `CHOOSE` picks a function with its equations. So the folds of `Replication` and `GameWorld` are reasoned about for
every sequence and every set of walls.

**Model-checked only**: liveness (`OnlyMissedNotifyStalls`, `NextPushEndsStall`, `HealthyDelivers`,
`PeerCloses`, `LockReturns`, `GoneDies`, `DisconnectReturns`, `BystandersConverge`), which is out of the prover's reach.
Every other property of a passing run is proved.

## 6. What is not modelled

* `net_server.h` `Start` and `Stop`, and the life of the server's objects: handlers capture `this`, and erasing the last
  pointer to a connection while an aborted operation waits for its handler leaves it dangling; `Server` and `Connection` keep objects
  for ever. The client's objects are followed by `ClientLifecycle`.
* Data races inside the json map and the containers: each access is one step here, and a broken
  container is not followed. The race on `m_connection` is modelled.
* Byte counts of `operator<<` and `operator>>`: every pop of the program is of the type that was pushed for
  the same kind of message, so the unsigned subtraction never wraps.
* The system clock: timers expire in any order, and a ping's round trip is not measured.
* Rounding of floats: `GameWorld` computes exactly, so a contact that rounding would make or miss by a hair is not seen.
  The contact pointers of rectangles, `PointVsRect` and `RectVsRect` are not used by the program.
* Drawing, the camera, sprites, assets, log output, formatting and the vendored libraries.
* A `ClientUpdateGS` whose text is not json: no client of this repository sends one.
* `MessageClient` and `PingServer`, which nothing calls, queue operations nobody calls on the incoming queue, and the screens that are
  empty cases of `OnUserUpdate`.

Some of what is modelled has no caller in the shipped client either: its call of `Connect` is commented out (`Client.cpp:67`),
nothing calls `UpdateGameState` or `MessageAll`, and `client_interface::Disconnect` is called only by the destructor. The models call
them whenever the classes allow it, so what they show is about those classes as any client would use them.

## 7. Plan

Modules meant to be proved about use no `RECURSIVE` operator and take every parameter as a constant with a named assumption.

Done: every component above is modelled as far as section 6 says, and every safety property the runs check is proved.

Left, the most useful first:

1. The life of the server's objects, as a composition of `Server` with the endings of `Connection`: when the last pointer to
   a connection is erased, and which handlers of it are still to come.
