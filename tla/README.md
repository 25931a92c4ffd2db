# TLA+ models of zproxy

This directory holds TLA+ models of zproxy's response cache (`src/src/cache/HttpCacheManager.cpp`), its control plane (`ControlManager.cpp`, `backend.cpp`), its socket I/O (`connection.cpp`) and its listener (`listener.cpp`), and the TLC configurations that check them. The cache decides whether an HTTP response can be cached and stores it in a RAM tier or a disk tier. It also works out freshness, decides whether a request may be served from the cache, rebuilds the cached response, and removes entries on a control-plane `DELETE`.

## 1. Inventory of the system

| Component | Source | State it keeps | Operations |
|---|---|---|---|
| CacheEngine (freshness and serve decision) | `HttpCacheManager.cpp` 40-104, 164-207, 269-401 | per URL, a `CacheObject` (`date, max_age, expires, etag, content_length, headers_size, revalidate, staled, heuristic, storage`); `cache_timeout` | `handleResponse`, `storeResponse`, `updateResponse`, `isFresh`, `updateContentStale`, `canBeServed`, `createCacheResponse` |
| CacheIndex | `HttpCacheManager.cpp` 3-38 | `cache`: `unordered_map<hash(url), CacheObject*>` | `isCached`, `getCachedObject`, insert at line 246, erase at line 447 |
| Tier selection and accounting | `HttpCacheManager.cpp` 105-116, 209-240 | `ram_storage->current_size / max_size`, `disk_storage->current_size` | `getStorageType`, subtract the old object's size on replace |
| StorageBackend tiers (RAMFS, disk) | not in the repository (the spec, section 4.2) | files keyed `service/hash(url)`, `current_size` | `putInStorage`, `appendData`, `getFromStorage`, `deleteInStorage`, `isStored` |
| Streaming append | `HttpCacheManager.cpp` 250-267 | none of its own | `appendData`: the rest of a streamed body |
| ControlAdapter (cache invalidation) | `HttpCacheManager.cpp` 403-458 | none of its own | `handleCacheTask(DELETE)` |
| ControlManager | `src/src/ctl/ControlManager.cpp` | `is_running`, control listener, control thread | `init`, `start`, `stop`, `HandleEvent`, `handleCommand`, `setTaskTarget` (URL path parsed into a `CtlTask`) |
| Backend control handler | `src/src/service/backend.cpp` | `status` (UP/DOWN/DISABLED) | `handleTask` (GET and UPDATE of status) |
| Connection | `src/connection/connection.cpp` | socket fd, `string_buffer` | `read`, `write`, `writeTo`, `doConnect`, `doAccept`, `listen` |
| Listener | `src/stream/listener.cpp`, `src/src/stream/listener.h` | StreamManager set, round-robin counter | `HandleEvent(CONNECT)`, `getManager`, `start`, `stop` |
| SSLConnectionManager, Config | `.h` files only | declarations only | none (no code to model) |
| http_parser (`HttpData`) | `src/src/http/http_parser.h` | `extra_headers`, `permanent_extra_headers`, parse state | `addHeader` (inline); the parser is only declared |

How the parts interact:

* Each StreamManager runs its own worker thread, one per hardware thread, created by the Listener's constructor (`listener.cpp` 44-50) and handed accepted connections round-robin by `getManager`. Workers call `handleResponse` for backend responses. They call `canBeServed` and then `createCacheResponse` for client requests, and `appendData` as later chunks of a streamed body arrive.
* The ControlManager runs a separate thread (`ControlManager.cpp` 46-51). It dispatches control tasks to observers. A cache `DELETE` reaches `handleCacheTask` on that thread.
* All of these threads share the `cache` map, the `CacheObject`s it points to, and the tiers' `current_size`. None of this code takes a lock.
* `handleResponse` is synchronous, but a streamed body arrives over later event-loop turns. So the index entry is published before the body is complete.

What makes this code hard:

* **Freshness precedence.** The stored `max_age` comes from the response max-age, the configured timeout, Last-Modified or a default, in a fixed order of branches (lines 175-193).
* **Lazy staleness.** `updateContentStale` runs only when someone asks. The clock moves between `canBeServed` and `createCacheResponse`.
* **Serve decision.** Four request directives interact with the entry's `staled` and `revalidate` flags, in an order that matters.
* **Tier accounting.** `current_size` is size_t arithmetic. On a replace, the old size is subtracted before the put, and from the tier chosen for the new object.
* **No locking.** Steps of a store, a serve, an append and a control delete interleave freely, and a `CacheObject*` looked up twice may be null the second time.
* **Partial failure.** A failed put still publishes the index entry. A failed physical delete keeps it.

Properties that make each component correct:

* **CacheEngine:** the stored max-age follows the precedence rules; `staled` is set only on an expired entry; the serve decision follows the four rules; a rebuilt response of an expired entry carries Warning 110; `Expires` bounds the lifetime of an entry judged fresh.
* **CacheIndex and tiers:** `current_size` equals the bytes a tier holds; RAM never holds more than `max_size`; a cache hit serves the bytes described by the indexed object, and the whole of them; no file is left that the index no longer names; no handler dereferences a null object.
* **ControlAdapter:** the index entry is erased only after its physical delete, and it is the same object that was deleted.
* **ControlManager and backends:** every path of the control API is parsed to the target it names, a malformed path is refused, a status update reaches only the backends it addresses, and no request can end the process. `stop()` returns, every control request that arrives is answered or dropped, closing a control connection never closes another thread's socket, and leaving the program never ends in `std::terminate`.
* **Connection:** `write` always returns, the reply it sends is the whole reply, and `read` stays inside its buffer and appends what it received.
* **Listener:** the accept loop ends, connections are spread evenly over the managers, and neither a missing manager nor the destructor ends the process.

## 2. Modules

### `CacheFreshness.tla`: one URL's metadata life cycle (sequential)

Each variable corresponds to a part of the code:

* `now` is `gmtTimeNow()`.
* `cache_timeout` is `HttpCacheManager::cache_timeout`, chosen once in `Init`, as `cacheInit` does.
* `entry` is the `CacheObject`.
* `hit` records that `canBeServed` said yes.
* `response` is the last result of `createCacheResponse`: the parsed headers with their `header_off` flags, `extra_headers` and `permanent_extra_headers`, and whether the entry was expired.

The actions match the handlers:

* `HandleResponse("GET", r)` is `storeResponse`. `StoredMaxAge` is the branch chain of lines 175-193 as written, and the heuristic uses `TruncTenth`, the conversion of `* 0.1` to `long`.
* `HandleResponse("HEAD", r)` is `updateResponse`.
* `CanBeServed(q)` is `isFresh`, which updates `staled`, followed by the rules of `canBeServed`.
* `CreateCacheResponse` is `updateContentStale`, then `Rebuild`, the header code of lines 352-397:
  * `DateLoop` (RECURSIVE) is the loop over the parsed headers. A header whose string compares equal to "date" is switched off and a Date is added with `AddHeader`; then every header is switched back on.
  * The string is `NameCString`: `std::string(headers[j].name)` on a `phr_header` name, which is not NUL-terminated. It runs from the name to the end of the stored bytes, so it never equals "date", and the loop adds no Date header. (`http_parser.h` has `cmp_header_name`, which compares with `name_len` and ignores case.)
  * `AddWarnings` adds one Warning per code of `WarningCodes`, and `Rebuild` ends with Age.
  * `AddHeader` is `HttpData::addHeader` (`http_parser.h` 55-64). It appends to `extra_headers`, or to `permanent_extra_headers` when the header is permanent.
* `Tick` advances the clock.

Deliberate abstractions:

* The cacheability filters are left out: `cacheable`, Pragma, status code and method are stateless guards. The size filter is in CacheStore.
* Storage is left out.
* The Date and Age header values are one constant, `Stamp`: no property reads them.
* `parseResponse` of the stored bytes succeeds. They are the first buffer of a response that parsed when it was stored, so the FAILED and INCOMPLETE branches are not taken.
* `no_cache_response` is never read by the code, so it is not modelled.
* The stored bytes always carry a Date header, since origin servers send one.
* Fields of `CacheObject` that `storeResponse` never assigns keep the default (`heuristic = FALSE`). `HttpCacheManager.h` is not in the repository, and this is the reading the code suggests.

### `CacheStore.tla`: index, tiers and accounting under concurrency

Each handler is split at every read or write of shared state:

* **Store:** `HandleResponse`, which applies the size filter and `getStorageType`; then `StoreSubtractOld`, which is `isCached` plus the `current_size -=` of lines 216-232; then `StorePut`, which is `putInStorage` and may fail; then `StoreCommit`, which is line 246. `AppendData` follows for a streamed body.
* **Serve:** `ServeCheck`, which is `isCached` in `canBeServed`; then `ServeLookup`, which is the second `getCachedObject`, `getFromStorage` and parse.
* **Control delete:** `CtlDelete`, then `CtlDeleteInStorage`, then `CtlErase`.

Variables:

* `index[u]` holds the store number (`gen`), tier and size of the indexed `CacheObject`.
* `files[t][u]` is the tier's file. It records which store wrote it, its declared size, and whether the body is complete.
* `used[t]` is `current_size` modulo `2^SizeBits`.
* `crashed` records a null-pointer dereference.

The tiers' `put`, `append` and `delete` are modelled from the spec, since their code is not in the repository. A put adds the declared size, and a delete subtracts the file's declared size.

### `StaleFlag.tla`: what the cache promises about staleness (abstract)

An entry is `absent`, `fresh` or `stale`. `Store` and `Refresh` make it fresh and date it, `Expire` turns a fresh entry stale only once `clock - born > limit`, and `Tick` moves the clock. Serving only reads the flag, so it is no step of this machine.

`CacheFreshness` instantiates it (`Abstract == INSTANCE StaleFlag WITH ...`). The refinement mapping is: `clock <- now`, `flag <-` absent / `staled` / not `staled`, `born <- entry.date`, `limit <- AgeLimit(entry)`. The property `ImplementsStaleFlag == Abstract!Spec` is checked in the `freshness` run. A HEAD refresh that forgets to clear `staled` breaks it.

### `CtlCommand.tla`: control requests and backend status

* **State:** `status[b]` is each `Backend::status`; `last` is the last request handled (method, path, body, reply, task); `crashed` records an exception that escaped the control thread.
* **Path parsing** is pure, so it is a set of operators, not actions:
  * `SetTaskTarget` is RECURSIVE. It is the `getline` scan of `setTaskTarget`: a keyword hands the rest of the stream to its parser, whose failure resumes the scan where that parser stopped.
  * `SetListenerTarget`, `SetServiceTarget` and `SetBackendTarget` follow lines 215-282, including the order of their branches.
  * The task is passed by reference in the code, so a failed parse keeps what it already set; each operator returns `[ok, task, rest]`.
  * `Numerals` plays `try_lexical_cast<int>`: a token in its domain is an integer, any other is a name.
* **`Decide`** is `handleCommand` up to `notify`: the method switch (unknown → MethodNotAllowed), then the BadRequest test of line 159.
* **`HandleCommand`** is one whole request: `Decide`, then `notify` to the backends that take the task (`IsHandler`, line 78), then their `handleTask` UPDATE/STATUS branch (lines 43-68).
  * An unknown status value leaves the status unchanged and still replies OK.
  * A body without the key (`nokey`) throws from `at()` and sets `crashed`.
* **Assumptions** (that code is not in the repository):
  * The `CtlTask` defaults are target and subject NONE and ids -1, the sentinels the code compares against.
  * A task reaches the backends exactly when its target is BACKEND (`Delivered`).
  * Backends start UP.
* **Reference grammar:** `WellFormed` enumerates every path of the API, `/listener/<n>[/service/<id>[/backend/<id>]][/subject]`, with its intended task. `ParserMatchesGrammar` compares the parser with it on all of them, not only on the small `Paths` set the requests are drawn from.

### `ControlPlane.tla`: the control thread, composed with `CtlCommand`

`ControlPlane` EXTENDS `CtlCommand`: a READ event whose request parses runs `HandleCommand`, so the command handler's properties are checked inside the control loop.

* **State:**
  * `main` is where the main thread is in the life cycle: new, ready (after `init`), running, in `stop`'s join, stopped, in the destructor's stop, exited.
  * `thread` is `control_thread`: none, `check` (the `while (is_running)` test), `poll` (in `loopOnce`), `dtor` (between the handler's close and `~Connection`'s), done, joined.
  * `fdtab` is the process fd table, shared with one other thread (a listener's accept, a worker's connect); the kernel hands out the lowest free number.
  * `lfd`, `backlog`, `conns` and `readable` are the control listener fd, the queued clients, the registered client fds, and those with a request to read.
* **Actions:**
  * `ControlInit` is the static instance and the constructor.
  * `CtlInit` is `init`. It calls `Listen`, which is `Connection::listen`: the socket takes the lowest free fd, or a failed bind closes it. `init` returns true with fd -1 either way.
  * `Start` is `start`; `StopBegin` and `Join` are the two statements of `stop`; `Exit` is the destructor calling `stop` again.
  * `Join` of a thread never started, or already joined, throws and terminates the process.
  * `Check` is `doWork`'s test. `HandleEvent` (`AcceptEvent` or `ReadEvent`) is one `loopOnce` that returned an event: the CONNECT case or the READ case. `Timeout` is a `loopOnce` that returned without one, possible whenever no client fd is readable.
  * `ReadEvent` merges the read-failure, parse-failure and command branches. All of them deregister and close the fd. `ConnectionDtor` is `~Connection`, which closes the same number again.
  * `ClientConnect`, `ClientSend`, `OtherOpen` and `OtherClose` are the environment.
* **Assumptions:** `epoll_manager` is not in the repository. `loopOnce` returns one ready event, or returns without one; its timeout and trigger mode are unknown, so a return without an event is possible but never assumed to happen (the comment at line 116 says it should not). `Connection::read` and `HttpRequest::parseRequest`, as `HandleEvent` uses them, do not match this repository's `Connection`, so their results are nondeterministic.

### `ConnectionIO.tla`: `Connection::read`, `write` and `writeTo`

Each loop iteration is one `recv` or `send`, and the kernel picks its result:

* `RecvData` takes 1 to `MAX_DATA_SIZE` pending bytes into `buffer + buffer_size`. `overflow` records a write past the stack buffer.
* `RecvEnd` is 0 (peer closed) or EAGAIN on an empty queue; `RecvError` is a reset after the peer closed.
* `ReadReturn` is `string_buffer << buffer`. The buffer is not NUL-terminated, so the number of bytes appended is a nondeterministic choice in `0..r_size+1`: it stops at a zero byte in the data, or runs one byte past it. This is the outcome set of that undefined read.
* `WriteStart` (`write`) and `WriteToStart` (`writeTo`, which sends `string_buffer`) share one loop:
  * `SendData` sends part of `data + sent` and adds it to `sent`.
  * `SendZero` is the send of 0 remaining bytes, which returns 0.
  * `SendAgain` is EAGAIN on a full send buffer; `SendError` is EPIPE or ECONNRESET after the peer closed.
  * `WriteReturn` is `erase(sent)` for `writeTo`, and returns `sent`.
* The peer sends (`PeerSend`), closes (`PeerClose`) and drains the send buffer (`PeerDrain`).
* A Connection is used by one thread, so a call starts only when none is running (`Idle`).

### `Listener.tla`: the listener

* `Init` is the constructor: `size` is any value of `hardware_concurrency()`, with one StreamManager per hardware thread.
* `Start`, `Stop` and `LoopExit` are `start`, `stop` and the end of `doWork`.
* `HandleConnect` and `AcceptOne` are `HandleEvent(CONNECT)`, one `doAccept` per step:
  * EAGAIN returns 0 and ends the loop.
  * A peer that reset before accept has no INET family: `doAccept` returns -1 and the loop ends.
  * A new fd goes to `GetManager`: `++c % size`, with `c` wrapping at `2^CounterBits`. A size of 0 is SIGFPE.
* `Destroy` is `~Listener`. It joins `worker_thread`, which `start` never launched (line 77 is commented out), and that is `std::terminate`.
* `epoll_manager.h` is not in the repository. The CONNECT event is taken as level-triggered: it is delivered while a connection is queued.

## 3. Runs

The project lists twelve runs in `PROJECT.json`: five that pass, and the seven most consequential violations. The other violation cfgs are kept beside them. Each reproduces a finding that `PROJECT.json` records with an empty `run`, and names its cfg.

| Run | Cfg | Checks | Result | What it shows |
|---|---|---|---|---|
| `freshness` | `MC_CacheFreshness.cfg` | `TypeOK`, `StaleImpliesExpired`, `StaleResponseWarned`, `ServeDecisionFollowsRules`, `ImplementsStaleFlag` | pass, 14,391 states | Staleness is sound, the serve decision equals the spec's rules, expired entries are warned, and the life cycle refines `StaleFlag`. |
| `store` | `MC_CacheStore.cfg` | `TypeOK` | pass | All store, serve and delete interleavings of two workers and the control thread. |
| `ctl_plane` | `MC_ControlPlane.cfg` | `ControlTypeOK`, `ParserMatchesGrammar`, `RequestSettled` | pass, 17,610 states, about 1.5 min | Inside the control loop, every well-formed path gets the task the grammar assigns, and every request that arrives is served or dropped and its fd deregistered, with no assumption that `loopOnce` ever returns without an event. |
| `conn_io` | `MC_ConnectionIO.cfg` | `TypeOK`, `WriteTerminates` | pass, 142,916 states | Under every `recv`/`send` outcome, every `write` and `writeTo` returns: each send advances towards the length or ends the loop. |
| `listener` | `MC_Listener.cfg` | `TypeOK`, `Balanced`, `AcceptLoopEnds` | pass, 37,137 states | With 1, 2 or 4 managers, the accept loop ends and dispatch stays even across a counter wrap. |
| `freshness_expires` | `MC_CacheFreshness_FreshServeWithinLifetime.cfg` | `FreshServeWithinLifetime` | violation | A response with Expires and no max-age, whose Last-Modified is ahead of the clock, gets a negative heuristic max-age (line 189). `updateContentStale` then uses the absolute `Expires` time as an age limit (line 323), and the entry is served fresh after it expired. The cfg has no cache timeout and no response max-age, so the trace does not pass through line 177. |
| `store_accounting` | `MC_CacheStore_AccountingExact.cfg` | `AccountingExact` | violation | `current_size` drifts from the bytes a tier holds. |
| `store_index_bytes` | `MC_CacheStore_IndexMatchesBytes.cfg` | `IndexMatchesBytes` | violation | The index describes a response other than the stored one. |
| `store_null_deref` | `MC_CacheStore_NoNullDeref.cfg` | `NoNullDeref` | violation | A control `DELETE` races a worker into a null dereference. |
| `ctl_backend_scope` | `MC_CtlCommand_UpdateOnlyAddressed.cfg` | `UpdateOnlyAddressed` | violation | `PUT /service/0/backend/web/status` changes every backend: a name sets `backend_id` -1 (line 268), which `isHandler` takes as every backend (`backend.cpp:78`). `Addressed` gives the -1 id itself all backends, as `isHandler` intends. |
| `ctl_double_close` | `MC_ControlPlane_NoForeignClose.cfg` | `NoForeignClose` | violation | The READ handler closes the client fd and `~Connection` closes it again (`connection.cpp:14`); another thread given that number in between loses its socket. |
| `conn_read_overflow` | `MC_ConnectionIO_NoBufferOverflow.cfg` | `NoBufferOverflow` | violation | A second `recv` in one `read` writes past the stack buffer (`connection.cpp:29`). |

Additional counterexamples (cfgs kept beside the runs above):

| Cfg | Property | Shows |
|---|---|---|
| `MC_CacheFreshness_MaxAgePrecedence.cfg` | `MaxAgePrecedence` | A response max-age is stored as -1 when no timeout is configured. |
| `MC_CacheFreshness_HeuristicFlagged.cfg` | `HeuristicFlagged` | A heuristic max-age is never flagged, so Warning 111 is unreachable. |
| `MC_CacheStore_RamWithinCapacity.cfg` | `RamWithinCapacity` | RAM is filled beyond `max_size`. |
| `MC_CacheStore_ServedWhole.cfg` | `ServedWhole` | A hit serves a body that is still being appended. |
| `MC_CacheStore_NoOrphanFile.cfg` | `NoOrphanFile` | A replace into the other tier leaves the old file. |
| `MC_ControlPlane_NoLeakedConn.cfg` | `NoLeakedConn` | With fd 0 free (standard input closed), the CONNECT handler's `new_fd > 0` test leaves an accepted client unregistered and open for ever (line 70). |
| `MC_CtlCommand_SubjectFromPath.cfg` | `SubjectFromPath` | `/service/<id>/session` is parsed as a status request (line 254). |
| `MC_CtlCommand_AcceptOnlyWellFormed.cfg` | `AcceptOnlyWellFormed` | `/listener/web/status` is accepted with a default listener id (line 159). |
| `MC_CtlCommand_NoUncaughtException.cfg` | `NoUncaughtException` | A status body without the key throws out of the control thread (`backend.cpp:51`). |
| `MC_ControlPlane_CleanExit.cfg` | `CleanExit` | Exiting before `start()` makes the destructor's `stop()` join a thread never started, which ends in `std::terminate` (line 21). |
| `MC_ControlPlane_StopTerminates.cfg` | `StopTerminates` | With no control traffic, the destructor's `stop()` at exit joins a control thread blocked in `loopOnce`, and never returns: nothing brings `doWork` back to its test of `is_running`. |
| `MC_ConnectionIO_WriteComplete.cfg` | `WriteComplete` | `write` returns short on EAGAIN, and `ControlManager.cpp:98` ignores it and closes. |
| `MC_ConnectionIO_ReadAppendsReceived.cfg` | `ReadAppendsReceived` | The unterminated buffer makes `string_buffer` differ from the bytes received. |
| `MC_Listener_Balanced.cfg` | `Balanced` | With 3 managers, the counter wrap hands one manager two connections in a row. |
| `MC_Listener_NoDivByZero.cfg` | `NoDivByZero` | `hardware_concurrency() == 0` divides by zero on the first connection. |
| `MC_Listener_CleanDestroy.cfg` | `CleanDestroy` | The destructor joins a thread that was never started. |

`MC_CtlCommand.cfg` still checks `TypeOK` and `ParserMatchesGrammar` on the parser alone, with eight request paths. It is not a listed run, because `ctl_plane` checks the same grammar inside the control loop.

Bounds:

* **CacheFreshness:** a 5-second window starting at t = 20, so Last-Modified = 0 gives the heuristic max-age 2.
  * Configured timeouts {-1 (none), 0, 2}.
  * Response max-age {-1, 1, 3}, Expires {-1, 22}, two ETags, two lengths.
  * Request directives each absent or set.
  * `Day` = 2 stands for 86400.
  * These values reach every branch of `StoredMaxAge`, `AgeLimit` and `Serveable`.
  * The `freshness_expires` cfg uses no cache timeout, no response max-age and Last-Modified {-1, 40}, 20 s ahead of the clock, so that the Expires line is reached only through a negative heuristic max-age.
* **CacheStore:** two workers, two URLs, at most 2 stores, a 40-byte RAM tier and an 8-bit size_t.
  * Content lengths {1, 4} and header lengths {2, 20}, so both tiers are chosen and a counter can wrap.
* **CtlCommand:** requests use GET, PUT and an unknown method, bodies up/down/bogus/nokey, two backends (ids 0 and 1, one named `web`), and eight paths covering ids, names, -1, nesting, a non-numeric listener id, a trailing word and `session`. The grammar check covers every well-formed path over the numerals {0, 1, -1} and the name `web`.
* **ControlPlane:** fds {3, 4, 5}: the control listener, one client and the other thread's socket use them all, so a second client finds no free fd. At most 2 clients connect. GET and PUT requests, bodies `down` and `nokey`, and four paths. That is enough for a reused fd, a failed join and a crash from the command handler.
* **ConnectionIO:** `MAX_DATA_SIZE` 2, so a second chunk overflows; 3 incoming bytes; write lengths {1, 3}, so 3 exceeds the send buffer of 2 and hits EAGAIN; 3 `read` calls.
* **Listener:** a 2-bit counter and 8 connections, so the counter wraps twice; manager counts {1, 2, 4} for the pass run, and 3 and 0 for the counterexamples.

Fairness:

* **ConnectionIO:** `WF_vars(ReadLoop)` and `WF_vars(WriteLoop)`. Once called, `read`/`write` run to their end on the calling thread on a non-blocking socket. Nothing is assumed of the peer, or of whether the program calls them.
* **Listener:** `WF_vars(AcceptOne)`, for the same reason: inside `HandleEvent` nothing blocks. Clients, `start`, `stop` and wake-ups are not assumed to happen.
* **ControlPlane:** weak fairness on the control thread's steps (`Check`, `HandleEvent`, `ConnectionDtor`) and on `Join`. A runnable thread is scheduled, an event that stays ready is returned by `loopOnce`, and a join whose thread has returned returns. `Timeout` has no fairness: `loopOnce` may block for ever when no event is ready. Nothing is assumed of the main thread, the clients or the other thread.
* **CacheFreshness and CacheStore** check no liveness and assume no fairness.

Deadlock:

* `CacheStore`, `CtlCommand`, `ControlPlane` and `Listener` runs set `CHECK_DEADLOCK FALSE`. Their states with no successor are a crashed or terminated process, or, for `CtlCommand`, a state after an uncaught exception; for `ControlPlane`, the process after the destructor's join.
* `ConnectionIO` checks deadlock: a new `write` can always start.

## 4. Not modelled, and why

* The storage tiers' code is not in the repository; their effect is modelled from the spec.
* `ControlManager::getInstance`: the static initializer has already created the instance. `HandleEvent`'s default case and foreign event groups are never delivered by the control epoll set.
* What `HandleEvent`'s `read` returns and whether a request parses: the API it calls is not this repository's `Connection`, so these are nondeterministic. A request split over two reads is therefore dropped in the model as it is in the code, but no property tells it apart.
* `Connection::doConnect`: a one-shot connect-with-timeout sequence whose callers are not in the repository. `Connection::listen` is modelled as `ControlPlane`'s `Listen`.
* StreamManager, the service manager that dispatches control tasks, and the epoll trigger mode: not in the repository.
* The Memcached build option, header text, JSON and logging.
* The data race inside `unordered_map`, and lost updates on `current_size`: each map access and each size update is atomic in the model, which is optimistic.
* `Config` and `SSLConnectionManager` are headers with declarations only. Of `http_parser.h`, only the inline `addHeader` has code; `parseRequest` and `parseResponse` are declared without a body in the repository.

## 5. Plan

Done:
* **First sitting:** `CacheFreshness` and `CacheStore`.
* **Second sitting:** `CtlCommand`, `ConnectionIO`, `Listener`, and the `StaleFlag` refinement.
* **Third sitting:** `ControlPlane`, the control thread composed with `CtlCommand`, with the fd double close and the destructor's join.
* **Fourth sitting:** the response rebuilt by `createCacheResponse` is modelled header by header (`DateLoop`, `AddWarnings`, `Rebuild`), with `HttpData::addHeader` from `http_parser.h`. `StaleResponseWarned` now reads the built message.
* **Fifth sitting:** review fixes.
  * `DateLoop` compares the unterminated header name as the code does, so `DateHeaderUnique` was dropped.
  * `Timeout` lost its level-triggered guard and its fairness. `StopTerminates` became a counterexample for the join in `stop()` and `AcceptsQueued` was dropped.
  * The restating properties `WriteDeliversPrefix` and `ForwardConserves` were dropped.
  * `freshness_expires` and `ctl_backend_scope` now show the cases their findings describe.

Next:
1. **`CacheSerialized.tla`:** an abstract cache with atomic handlers, as the spec's section 5 requires, and a refinement check against `CacheStore`.
2. The size-filter boundary at `HttpCacheManager.cpp:59` (`>=` against "exceeds").
3. The Listener's accept path in the same fd table as `ControlPlane`, so that the other thread is the real `Listener` model.
