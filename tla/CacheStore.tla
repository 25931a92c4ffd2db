----------------------------- MODULE CacheStore -----------------------------
(***************************************************************************)
(* Index, storage tiers and size accounting of HttpCacheManager             *)
(* (src/src/cache/HttpCacheManager.cpp) under the threads that reach them:  *)
(* worker threads storing GET responses (handleResponse -> storeResponse,   *)
(* then appendData for the rest of a streamed body) and serving hits        *)
(* (isCached -> canBeServed -> createCacheResponse), and the control thread *)
(* deleting an entry (handleCacheTask). Nothing in HttpCacheManager takes a *)
(* lock, so each handler is split at the points where it reads or writes   *)
(* shared state. Freshness metadata is abstracted away (CacheFreshness).    *)
(* The storage tiers' put/append/delete/isStored come from the              *)
(* specification (their code is not in the repository).                    *)
(***************************************************************************)
EXTENDS Integers, FiniteSetsExt

CONSTANTS
    Urls,            \* URLs of one service
    Workers,         \* worker threads (one StreamManager each)
    ContentLengths,  \* response Content-Length values
    HeaderLengths,   \* response header block lengths
    MessageLength,   \* response status line length (http_message_length)
    RamMax,          \* ram_storage->max_size
    CacheMaxSize,    \* cache_max_size (0 = unlimited)
    SizeBits,        \* width of size_t in the model
    MaxStores        \* bound on the number of stores explored

VARIABLES
    index,    \* `cache`: URL -> CacheObject pointer, or NoObj
    files,    \* tier -> URL -> file of the tier, or NoFile
    used,     \* tier -> current_size (size_t)
    worker,   \* worker thread -> its place in a handler and its locals
    ctl,      \* the control thread's handleCacheTask and its locals
    stores,   \* number of stores begun; also names each store's bytes
    served,   \* the last response createCacheResponse built, or NoServe
    crashed   \* a null CacheObject pointer was dereferenced

vars == <<index, files, used, worker, ctl, stores, served, crashed>>

Tiers == {"RAMFS", "DISK"}
NoObj == [none |-> TRUE]
NoFile == [none |-> TRUE]
NoServe == [none |-> TRUE]
SizeMod == 2 ^ SizeBits
Gens == 1..MaxStores

\* Mutant: current_size as a signed counter.
SubSigned(a, b) == a - b

Sub(a, b) == (a - b) % SizeMod
Add(a, b) == (a + b) % SizeMod

\* A CacheObject as far as storage is concerned: the store that made it,
\* its tier and its content_length + headers_size.
Obj == [gen: Gens, storage: Tiers, size: Nat]
\* A file of a tier: the store whose bytes it holds (0 = bytes of two
\* stores mixed), its declared size, and whether the whole body is in.
File == [gen: 0..MaxStores, declared: Nat, complete: BOOLEAN]

Resp == [content_length: ContentLengths, headers_length: HeaderLengths]
Declared(r) == r.content_length + r.headers_length

WorkerPcs == {"idle", "sub", "put", "commit", "append", "lookup"}

\* A worker between handlers: its locals are gone.
Idle == [pc |-> "idle"]

(***************************************************************************)
(* getStorageType, with size_t arithmetic and max_size * 0.05 as the       *)
(* exact rational (20 * size > max_size).                                  *)
(***************************************************************************)
GetStorageType(r) ==
    LET ram_size_left == Sub(RamMax, used["RAMFS"])
        response_size == MessageLength + r.content_length
    IN  IF 20 * response_size > RamMax \/ response_size >= ram_size_left
        THEN "DISK" ELSE "RAMFS"

\* isCached(url): an index entry whose tier still stores the URL.
IsCached(u) ==
    index[u] # NoObj /\ files[index[u].storage][u] # NoFile

-----------------------------------------------------------------------------
(* storeResponse, as called by handleResponse for a GET response *)

\* handleResponse's size filter, then getStorageType on the shared counter.
\* `whole`: the response buffer already holds the whole body.
HandleResponse(w, u, r, whole) ==
    /\ ~crashed
    /\ worker[w].pc = "idle"
    /\ stores < MaxStores
    /\ ~(Declared(r) >= CacheMaxSize /\ CacheMaxSize # 0)
    /\ worker' = [worker EXCEPT ![w] = [pc |-> "sub", url |-> u, resp |-> r,
                     whole |-> whole, tier |-> GetStorageType(r),
                     gen |-> stores + 1, ok |-> FALSE]]
    /\ stores' = stores + 1
    /\ UNCHANGED <<index, files, used, ctl, served, crashed>>

\* if (isCached(request)) the old object's size leaves the counter of the
\* tier chosen for the NEW object.
StoreSubtractOld(w) ==
    LET me == worker[w]
        u  == me.url
    IN  /\ ~crashed
        /\ me.pc = "sub"
        /\ used' = IF IsCached(u)
                   THEN [used EXCEPT ![me.tier] = Sub(@, index[u].size)]
                   ELSE used
        /\ worker' = [worker EXCEPT ![w].pc = "put"]
        /\ UNCHANGED <<index, files, ctl, stores, served, crashed>>

\* putInStorage(rel_path, first buffer, declared size) in the chosen tier.
\* The put may fail (StorageFailure).
StorePut(w) ==
    LET me == worker[w]
    IN  /\ ~crashed
        /\ me.pc = "put"
        /\ \/ /\ files' = [files EXCEPT ![me.tier][me.url] =
                            [gen |-> me.gen, declared |-> Declared(me.resp),
                             complete |-> me.whole]]
              /\ used' = [used EXCEPT ![me.tier] = Add(@, Declared(me.resp))]
              /\ worker' = [worker EXCEPT ![w].pc = "commit", ![w].ok = TRUE]
           \/ /\ UNCHANGED <<files, used>>
              /\ worker' = [worker EXCEPT ![w].pc = "commit", ![w].ok = FALSE]
        /\ UNCHANGED <<index, ctl, stores, served, crashed>>

\* cache[hashStr(url)] = c_object runs whether or not the put succeeded;
\* headers_size is only assigned on success (otherwise indeterminate).
StoreCommit(w) ==
    LET me == worker[w]
    IN  /\ ~crashed
        /\ me.pc = "commit"
        /\ \E hs \in IF me.ok THEN {me.resp.headers_length}
                     ELSE {0} \cup HeaderLengths :
              index' = [index EXCEPT ![me.url] =
                          [gen |-> me.gen, storage |-> me.tier,
                           size |-> me.resp.content_length + hs]]
        /\ worker' = [worker EXCEPT ![w] = IF me.whole THEN Idle
                                          ELSE [@ EXCEPT !.pc = "append"]]
        /\ UNCHANGED <<files, used, ctl, stores, served, crashed>>

\* appendData(msg, size, url): the rest of the body goes to the tier of the
\* object the index holds NOW for the URL.
AppendData(w) ==
    LET me == worker[w]
        o  == index[me.url]
    IN  /\ ~crashed
        /\ me.pc = "append"
        /\ IF o = NoObj
           THEN /\ crashed' = TRUE
                /\ UNCHANGED files
           ELSE /\ LET f == files[o.storage][me.url]
                   IN  files' =
                         IF f = NoFile THEN files
                         ELSE [files EXCEPT ![o.storage][me.url] =
                                 [f EXCEPT !.complete = TRUE,
                                           !.gen = IF f.gen = me.gen THEN f.gen ELSE 0]]
                /\ UNCHANGED crashed
        /\ worker' = [worker EXCEPT ![w] = Idle]
        /\ UNCHANGED <<index, used, ctl, stores, served>>

-----------------------------------------------------------------------------
(* Serving a hit: isCached, then canBeServed / createCacheResponse *)

\* canBeServed's !isCached(request) test.
ServeCheck(w, u) ==
    /\ ~crashed
    /\ worker[w].pc = "idle"
    /\ IsCached(u)
    /\ worker' = [worker EXCEPT ![w] = [pc |-> "lookup", url |-> u]]
    /\ UNCHANGED <<index, files, used, ctl, stores, served, crashed>>

\* getCachedObject again (canBeServed dereferences c_object->revalidate),
\* then getFromStorage in the object's tier and parseResponse.
ServeLookup(w) ==
    LET u == worker[w].url
        o == index[u]
    IN  /\ ~crashed
        /\ worker[w].pc = "lookup"
        /\ IF o = NoObj
           THEN /\ crashed' = TRUE
                /\ UNCHANGED served
           ELSE /\ served' =
                     IF files[o.storage][u] = NoFile
                     THEN [url |-> u, gen |-> o.gen, bytes |-> "empty"]
                     ELSE [url |-> u, gen |-> o.gen,
                           bytes |-> IF files[o.storage][u].gen # o.gen THEN "other"
                                     ELSE IF files[o.storage][u].complete
                                          THEN "whole" ELSE "truncated"]
                /\ UNCHANGED crashed
        /\ worker' = [worker EXCEPT ![w] = Idle]
        /\ UNCHANGED <<index, files, used, ctl, stores>>

-----------------------------------------------------------------------------
(* handleCacheTask: DELETE of a URL from the control thread *)

\* getCachedObject(url); an unknown URL is reported as an error.
CtlDelete(u) ==
    /\ ~crashed
    /\ ctl.pc = "idle"
    /\ IF index[u] = NoObj
       THEN UNCHANGED ctl
       ELSE ctl' = [pc |-> "delete", url |-> u, storage |-> index[u].storage]
    /\ UNCHANGED <<index, files, used, worker, stores, served, crashed>>

\* deleteInStorage(path) in the tier read from the object.
CtlDeleteInStorage ==
    LET t == ctl.storage
        u == ctl.url
    IN  /\ ~crashed
        /\ ctl.pc = "delete"
        /\ IF files[t][u] = NoFile
           THEN /\ ctl' = Idle
                /\ UNCHANGED <<files, used>>
           ELSE /\ files' = [files EXCEPT ![t][u] = NoFile]
                /\ used' = [used EXCEPT ![t] = Sub(@, files[t][u].declared)]
                /\ ctl' = [ctl EXCEPT !.pc = "erase"]
        /\ UNCHANGED <<index, worker, stores, served, crashed>>

\* this->cache.erase(hash_url) after a successful delete.
CtlErase ==
    /\ ~crashed
    /\ ctl.pc = "erase"
    /\ index' = [index EXCEPT ![ctl.url] = NoObj]
    /\ ctl' = Idle
    /\ UNCHANGED <<files, used, worker, stores, served, crashed>>

-----------------------------------------------------------------------------
Init ==
    /\ index = [u \in Urls |-> NoObj]
    /\ files = [t \in Tiers |-> [u \in Urls |-> NoFile]]
    /\ used = [t \in Tiers |-> 0]
    /\ worker = [w \in Workers |-> Idle]
    /\ ctl = Idle
    /\ stores = 0
    /\ served = NoServe
    /\ crashed = FALSE

Next ==
    \/ \E w \in Workers :
          \/ \E u \in Urls, r \in Resp, whole \in BOOLEAN :
                HandleResponse(w, u, r, whole)
          \/ StoreSubtractOld(w)
          \/ StorePut(w)
          \/ StoreCommit(w)
          \/ AppendData(w)
          \/ \E u \in Urls : ServeCheck(w, u)
          \/ ServeLookup(w)
    \/ \E u \in Urls : CtlDelete(u)
    \/ CtlDeleteInStorage
    \/ CtlErase

Spec == Init /\ [][Next]_vars

-----------------------------------------------------------------------------
(* Properties *)

TypeOK ==
    /\ index \in [Urls -> Obj \cup {NoObj}]
    /\ files \in [Tiers -> [Urls -> File \cup {NoFile}]]
    /\ used \in [Tiers -> 0..(SizeMod - 1)]
    /\ \A w \in Workers : worker[w].pc \in WorkerPcs
    /\ ctl.pc \in {"idle", "delete", "erase"}
    /\ stores \in 0..MaxStores
    /\ crashed \in BOOLEAN

\* Bytes a tier really holds: the declared sizes of its files.
StoredBytes(t) ==
    MapThenSumSet(LAMBDA u : files[t][u].declared,
                  {u \in Urls : files[t][u] # NoFile})

\* No storeResponse or handleCacheTask is half done.
Quiescent ==
    /\ \A w \in Workers : worker[w].pc \in {"idle", "append", "lookup"}
    /\ ctl.pc = "idle"

\* Whenever no store or delete is half done, current_size of each tier
\* equals the bytes its files take: a replace changes the counter by
\* new - old, never counting an object twice or in the wrong tier.
AccountingExact ==
    Quiescent => \A t \in Tiers : used[t] = StoredBytes(t) % SizeMod

\* The RAM tier never holds more than its max_size.
RamWithinCapacity ==
    StoredBytes("RAMFS") <= RamMax

\* Whenever no store or delete is half done and isCached says yes, the tier
\* holds the bytes of the very store whose CacheObject the index holds
\* (its content_length, headers_size and metadata describe those bytes).
IndexMatchesBytes ==
    Quiescent =>
        \A u \in Urls : IsCached(u) => files[index[u].storage][u].gen = index[u].gen

\* Whenever no store or delete is half done, every file a tier holds is the
\* one the index names for its URL: no file is left behind, unreachable by
\* handleCacheTask and counted in current_size forever.
NoOrphanFile ==
    Quiescent =>
        \A t \in Tiers, u \in Urls :
            files[t][u] # NoFile => index[u] # NoObj /\ index[u].storage = t

\* No handler dereferences a null CacheObject pointer.
NoNullDeref == ~crashed

\* A response rebuilt from the cache holds the whole stored response.
ServedWhole ==
    served # NoServe => served.bytes = "whole"

=============================================================================
