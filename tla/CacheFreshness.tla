--------------------------- MODULE CacheFreshness ---------------------------
(***************************************************************************)
(* Metadata life cycle of one cached URL in HttpCacheManager                *)
(* (src/src/cache/HttpCacheManager.cpp): storing a GET response with the    *)
(* max-age precedence of storeResponse, refreshing it from a HEAD response  *)
(* (updateResponse), the lazy staleness flag (updateContentStale), the      *)
(* request-side decision canBeServed and the reconstruction of a cached     *)
(* response with Warning/Age/Date headers (createCacheResponse).            *)
(* Physical storage, tiers and concurrency are in CacheStore.               *)
(* Times are integers in seconds (scaled: Day stands for 86400).            *)
(***************************************************************************)
EXTENDS Integers, Sequences, FiniteSets

CONSTANTS
    Base,            \* clock value at start
    MaxTime,         \* last clock value explored
    CacheTimeouts,   \* possible values of the service's configured cache timeout
    DEFAULT_TIMEOUT, \* fixed default max-age when nothing else applies
    Day,             \* the 86400 s threshold of the heuristic warning
    MaxAges,         \* response Cache-Control max-age values (-1 = absent)
    LastMods,        \* response Last-Modified values (-1 = absent)
    ExpiresVals,     \* response Expires values (-1 = absent)
    Etags,           \* response ETag values
    ContentLengths,  \* response Content-Length values
    ReqMaxAges,      \* request max-age values (-1 = absent)
    ReqMinFresh,     \* request min-fresh values (-1 = absent)
    ReqMaxStale      \* request max-stale values (-1 = absent)

VARIABLES
    now,           \* timeHelper::gmtTimeNow()
    cache_timeout, \* HttpCacheManager::cache_timeout, fixed by cacheInit
    entry,         \* the CacheObject of the URL in `cache`, or NoEntry
    hit,           \* canBeServed answered true and createCacheResponse is due
    response       \* last response rebuilt by createCacheResponse, or NoResponse

vars == <<now, cache_timeout, entry, hit, response>>

NoEntry == [none |-> TRUE]
NoResponse == [none |-> TRUE]

Times == (Base - 1)..MaxTime

\* A GET response; date_off places its Date header relative to the clock.
Response == [max_age: MaxAges, last_mod: LastMods, expires: ExpiresVals,
             date_off: {-1, 0}, etag: Etags, content_length: ContentLengths,
             revalidate: BOOLEAN]

\* A HEAD response: updateResponse reads only these two fields.
HeadResponse == [etag: Etags, content_length: ContentLengths]

Request == [no_cache: BOOLEAN, cache_control: BOOLEAN, pragma: BOOLEAN,
            max_age: ReqMaxAges, min_fresh: ReqMinFresh, max_stale: ReqMaxStale]

CacheObject == [date: Times, max_age: Int, expires: ExpiresVals, etag: Etags,
                content_length: ContentLengths, revalidate: BOOLEAN,
                staled: BOOLEAN, heuristic: BOOLEAN]

Min2(a, b) == IF a < b THEN a ELSE b

\* (now - last_mod) * 0.1 converted to long: truncation toward zero.
TruncTenth(x) == IF x >= 0 THEN x \div 10 ELSE -((-x) \div 10)

(***************************************************************************)
(* storeResponse: the max-age precedence, exactly as the branches are       *)
(* ordered in the code.                                                     *)
(***************************************************************************)
StoredMaxAge(r) ==
    CASE r.max_age >= 0 /\ cache_timeout # 0 ->
             IF r.max_age > cache_timeout THEN cache_timeout ELSE r.max_age
      [] cache_timeout >= 0 -> cache_timeout
      [] r.max_age >= 0 -> r.max_age
      [] r.last_mod >= 0 -> TruncTenth(now - r.last_mod)
      [] OTHER -> DEFAULT_TIMEOUT

\* heuristic is never assigned by storeResponse: the CacheObject default stays.
StoredHeuristic(r) == FALSE

NewObject(r) ==
    [date |-> now + r.date_off, max_age |-> StoredMaxAge(r),
     expires |-> r.expires, etag |-> r.etag,
     content_length |-> r.content_length, revalidate |-> r.revalidate,
     staled |-> FALSE, heuristic |-> StoredHeuristic(r)]

StoreResponse(r) == entry' = NewObject(r)

\* Mutant: the HEAD refresh moves the date but forgets to clear `staled`.
UpdateResponseNoReset(r) ==
    IF r.content_length = entry.content_length /\ r.etag = entry.etag
    THEN entry' = [entry EXCEPT !.date = now]
    ELSE UNCHANGED entry

\* updateResponse: a HEAD whose Content-Length and ETag match refreshes the date.
UpdateResponse(r) ==
    IF r.content_length = entry.content_length /\ r.etag = entry.etag
    THEN entry' = [entry EXCEPT !.staled = FALSE, !.date = now]
    ELSE UNCHANGED entry

\* handleResponse after the cacheability filters (modelled in CacheStore):
\* GET stores, HEAD updates an existing entry, other methods are ignored.
HandleResponse(method, r) ==
    /\ \/ method = "GET" /\ StoreResponse(r)
       \/ method = "HEAD" /\ entry # NoEntry /\ UpdateResponse(r)
    /\ UNCHANGED <<now, cache_timeout, hit, response>>

(***************************************************************************)
(* updateContentStale: the age limit the code compares the age against.    *)
(***************************************************************************)
AgeLimit(o) ==
    CASE o.max_age >= 0 /\ ~o.heuristic -> o.max_age
      [] o.expires >= 0 -> o.expires
      [] o.max_age >= 0 /\ o.heuristic -> o.max_age
      [] OTHER -> 0

Expired(o) == now - o.date > AgeLimit(o)

UpdateContentStale(o) ==
    IF ~o.staled /\ Expired(o) THEN [o EXCEPT !.staled = TRUE] ELSE o

(***************************************************************************)
(* canBeServed, with isFresh's staleness update as its first state change. *)
(***************************************************************************)
CacheDisallowed(q) == q.no_cache \/ (~q.cache_control /\ q.pragma)

\* Mutant: the max-stale comparison made inclusive.
ServeableStaleInclusive(o, q) ==
    LET fresh    == ~o.staled
        age      == now - o.date
        byMaxAge == IF q.max_age >= 0 /\ ~o.staled /\ age > q.max_age
                    THEN FALSE ELSE fresh
        byStale  == IF q.max_stale >= 0 /\ o.staled /\ ~o.revalidate
                       /\ age - o.max_age <= q.max_stale
                    THEN TRUE ELSE byMaxAge
    IN  CASE ~fresh /\ o.revalidate -> FALSE
          [] q.min_fresh >= 0 /\ ~o.staled /\ age > q.min_fresh -> FALSE
          [] OTHER -> byStale

Serveable(o, q) ==
    LET fresh    == ~o.staled
        age      == now - o.date
        byMaxAge == IF q.max_age >= 0 /\ ~o.staled /\ age > q.max_age
                    THEN FALSE ELSE fresh
        byStale  == IF q.max_stale >= 0 /\ o.staled /\ ~o.revalidate
                       /\ age - o.max_age < q.max_stale
                    THEN TRUE ELSE byMaxAge
    IN  CASE ~fresh /\ o.revalidate -> FALSE
          [] q.min_fresh >= 0 /\ ~o.staled /\ age > q.min_fresh -> FALSE
          [] OTHER -> byStale

\* Mutant: the early return for a URL that is not cached is dropped.
CanBeServedNoCachedCheck(q) ==
    /\ ~hit
    /\ IF CacheDisallowed(q)
       THEN UNCHANGED <<entry, hit>>
       ELSE LET o == IF entry = NoEntry THEN entry ELSE UpdateContentStale(entry)
            IN  /\ entry' = o
                /\ hit' = (o = NoEntry \/ Serveable(o, q))
    /\ UNCHANGED <<now, cache_timeout, response>>

CanBeServed(q) ==
    /\ ~hit
    /\ IF CacheDisallowed(q) \/ entry = NoEntry
       THEN UNCHANGED <<entry, hit>>
       ELSE LET o == UpdateContentStale(entry)
            IN  /\ entry' = o
                /\ hit' = Serveable(o, q)
    /\ UNCHANGED <<now, cache_timeout, response>>

(***************************************************************************)
(* createCacheResponse: recompute staleness, parse the stored bytes back,  *)
(* and add headers with HttpData::addHeader: the Date loop, the Warnings,  *)
(* and Age.  The stored bytes are the first buffer of *)
(* a response that parsed when it was stored, so parseResponse succeeds.    *)
(***************************************************************************)
\* The header block of the stored origin response, with its Date header,
\* names cased as the origin sent them.
StoredHeaders == <<"Date", "Cache-Control">>

\* The parsed response: its headers with their header_off flags, and the
\* extra_headers and permanent_extra_headers vectors.
Parsed == [headers   |-> [j \in DOMAIN StoredHeaders |->
                            [name |-> StoredHeaders[j], off |-> FALSE]],
           extra     |-> <<>>,
           permanent |-> <<>>]

\* A header value that no property tells apart.
Stamp == "stamp"

\* HttpData::addHeader(name, value, permanent).
AddHeader(msg, name, value, permanent) ==
    LET h == [name |-> name, value |-> value] IN
    IF permanent THEN [msg EXCEPT !.permanent = Append(@, h)]
                 ELSE [msg EXCEPT !.extra = Append(@, h)]

\* std::string(headers[j].name): a phr_header name points into the stored
\* bytes and is not NUL-terminated, so the string runs from the name through
\* ": ", the value and the rest of the bytes (Stamp) to their terminating NUL.
NameCString(h) == h.name \o ": " \o Stamp

\* The loop over the parsed headers: a header whose string compares equal to
\* "date" is switched off and a Date carrying the entry's date is added;
\* then, for every header, header_off = false.
RECURSIVE DateLoop(_, _, _)
DateLoop(msg, j, o) ==
    IF j > Len(msg.headers) THEN msg
    ELSE LET m == IF NameCString(msg.headers[j]) = "date"
                  THEN AddHeader([msg EXCEPT !.headers[j].off = TRUE], "Date", Stamp, FALSE)
                  ELSE msg
         IN  DateLoop([m EXCEPT !.headers[j].off = FALSE], j + 1, o)

\* The warning codes, in the order they are pushed.
WarningCodes(o) ==
    (IF o.staled THEN <<110>> ELSE <<>>)
    \o (IF o.heuristic /\ o.max_age >= Day /\ o.staled THEN <<111>> ELSE <<>>)

\* One Warning header per code.
RECURSIVE AddWarnings(_, _)
AddWarnings(msg, codes) ==
    IF codes = <<>> THEN msg
    ELSE AddWarnings(AddHeader(msg, "Warning", Head(codes), FALSE), Tail(codes))

\* The response rebuilt from entry o: Date loop, Warnings, then Age =
\* getAge(date) clamped at 0.  No property reads the Date and Age values
\* (strTime of the entry's date, the age in seconds): they are Stamp.
Rebuild(o) ==
    LET m == AddWarnings(DateLoop(Parsed, 1, o), WarningCodes(o))
    IN  AddHeader(m, "Age", Stamp, FALSE)

\* Mutant: the cached response is built without recomputing staleness.
CreateCacheResponseNoRecompute ==
    /\ hit
    /\ response' = [msg |-> Rebuild(entry), expired |-> Expired(entry)]
    /\ hit' = FALSE
    /\ UNCHANGED <<now, cache_timeout, entry>>

CreateCacheResponse ==
    /\ hit
    /\ LET o == UpdateContentStale(entry)
       IN  /\ entry' = o
           /\ response' = [msg |-> Rebuild(o), expired |-> Expired(o)]
    /\ hit' = FALSE
    /\ UNCHANGED <<now, cache_timeout>>

Tick ==
    /\ now < MaxTime
    /\ now' = now + 1
    /\ UNCHANGED <<cache_timeout, entry, hit, response>>

Init ==
    /\ now = Base
    /\ cache_timeout \in CacheTimeouts
    /\ entry = NoEntry
    /\ hit = FALSE
    /\ response = NoResponse

Next ==
    \/ \E r \in Response : HandleResponse("GET", r)
    \/ \E r \in HeadResponse : HandleResponse("HEAD", r)
    \/ \E q \in Request : CanBeServed(q)
    \/ CreateCacheResponse
    \/ Tick

Spec == Init /\ [][Next]_vars

-----------------------------------------------------------------------------
(* Properties *)

\* Every variable holds a value of its intended kind.
TypeOK ==
    /\ now \in Base..MaxTime
    /\ cache_timeout \in CacheTimeouts
    /\ entry \in CacheObject \cup {NoEntry}
    /\ hit \in BOOLEAN
    /\ hit => entry # NoEntry

\* The staleness flag is never set on an entry whose age (since its current
\* date) is within its limit: a full store and the HEAD refresh in
\* updateResponse both reset `staled` whenever they move `date`, and
\* updateContentStale only sets it after comparing the age.
StaleImpliesExpired ==
    entry # NoEntry /\ entry.staled => Expired(entry)

\* canBeServed decides as the specification's four rules say: starting from
\* the freshness just recomputed by isFresh, stale + must-revalidate refuses,
\* a request max-age or min-fresh exceeded by a fresh entry refuses, and an
\* explicit max-stale tolerating the staleness accepts (only when the entry
\* is stale and needs no revalidation).
SpecServeable(o, q) ==
    LET age == now - o.date
        maxStaleOk == q.max_stale >= 0 /\ o.staled /\ ~o.revalidate
                      /\ age - o.max_age < q.max_stale
        freshOk == ~o.staled
                   /\ ~(q.max_age >= 0 /\ age > q.max_age)
                   /\ ~(q.min_fresh >= 0 /\ age > q.min_fresh)
    IN  freshOk \/ maxStaleOk

ServeDecisionFollowsRules ==
    [][(/\ ~hit /\ UNCHANGED <<now, response>>
        /\ entry # NoEntry => entry' \in {entry, UpdateContentStale(entry)}) =>
       \A q \in Request :
          CanBeServed(q)
              => /\ hit' = (/\ ~CacheDisallowed(q)
                            /\ entry' # NoEntry
                            /\ SpecServeable(entry', q))
                 /\ entry' # NoEntry => entry'.staled = Expired(entry')
       ]_vars

\* The codes of a rebuilt response's Warning headers.
WarningsOf(m) == {m.extra[i].value : i \in {i \in DOMAIN m.extra : m.extra[i].name = "Warning"}}

\* A response rebuilt from an entry whose age is beyond its limit at the
\* moment of createCacheResponse carries the "110 stale" Warning, even when
\* the clock moved between canBeServed and createCacheResponse.
StaleResponseWarned ==
    response # NoResponse /\ response.expired => 110 \in WarningsOf(response.msg)

-----------------------------------------------------------------------------
(* What the specification says and the code does not (violation runs) *)

\* Freshness precedence of the specification: (a) response max-age and the
\* configured timeout -> the smaller, (b) only the timeout, (c) only the
\* response max-age, (d) only Last-Modified -> 10% heuristic, (e) default.
\* A configured timeout is one that is not negative.
SpecMaxAge(r) ==
    CASE r.max_age >= 0 /\ cache_timeout >= 0 -> Min2(r.max_age, cache_timeout)
      [] cache_timeout >= 0 -> cache_timeout
      [] r.max_age >= 0 -> r.max_age
      [] r.last_mod >= 0 -> TruncTenth(now - r.last_mod)
      [] OTHER -> DEFAULT_TIMEOUT

\* storeResponse stores the max-age the precedence rules give: with no
\* configured timeout a response max-age is kept as it is.
MaxAgePrecedence ==
    [][\A r \in Response :
          HandleResponse("GET", r) => entry'.max_age = SpecMaxAge(r)]_vars

\* storeResponse flags an entry whose max-age was derived from
\* Last-Modified as heuristic (rule (d)), which is what enables the
\* "111 heuristic expiration" Warning of createCacheResponse.
HeuristicFlagged ==
    [][\A r \in Response :
          (HandleResponse("GET", r) /\ cache_timeout < 0
           /\ r.max_age < 0 /\ r.last_mod >= 0) => entry'.heuristic]_vars

\* The specification's age limit: Expires counts as an age (Expires - date).
SpecAgeLimit(o) ==
    CASE o.max_age >= 0 /\ ~o.heuristic -> o.max_age
      [] o.expires >= 0 -> o.expires - o.date
      [] o.max_age >= 0 -> o.max_age
      [] OTHER -> 0

\* When canBeServed accepts an entry it judged fresh, the entry's age is
\* within the lifetime the specification gives it.
FreshServeWithinLifetime ==
    [][(hit' /\ ~hit /\ ~entry'.staled) =>
          now - entry'.date <= SpecAgeLimit(entry')]_vars

-----------------------------------------------------------------------------
(* Refinement of the abstract staleness machine *)

\* The entry's flag, date and age limit as the abstract machine sees them.
flagOf == IF entry = NoEntry THEN "absent"
          ELSE IF entry.staled THEN "stale" ELSE "fresh"

Abstract == INSTANCE StaleFlag WITH
    clock <- now,
    flag  <- flagOf,
    born  <- IF entry = NoEntry THEN 0 ELSE entry.date,
    limit <- IF entry = NoEntry THEN 0 ELSE AgeLimit(entry)

\* The cache implements the abstract machine: storeResponse and a matching
\* HEAD in updateResponse make the entry fresh, updateContentStale (run by
\* canBeServed and again by createCacheResponse) turns it stale only past
\* its limit, and nothing else (serving, a mismatching HEAD) changes it.
ImplementsStaleFlag == Abstract!Spec

=============================================================================
