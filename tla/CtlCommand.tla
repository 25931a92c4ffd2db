----------------------------- MODULE CtlCommand -----------------------------
(***************************************************************************)
(* The control-plane command path: ControlManager::handleCommand turns an  *)
(* HTTP request into a CtlTask (method -> command, URL path -> target,     *)
(* ids and subject through setTaskTarget and set{Listener,Service,         *)
(* Backend}Target), notifies the observers, and Backend::handleTask acts   *)
(* on the task.  One request is handled at a time, on the control thread. *)
(*                                                                         *)
(* The URL is the sequence of tokens getline(f, str, '/') yields; a token  *)
(* is a word, an integer (try_lexical_cast<int> succeeds) or a name (it    *)
(* fails).  A JSON body is abstracted to the case it falls into.           *)
(***************************************************************************)
EXTENDS Integers, Sequences, SequencesExt

CONSTANTS
    Methods,        \* request methods, a subset of MethodCommand's domain
    Paths,          \* URL paths, as token sequences
    Bodies,         \* request bodies, by the case of Backend::handleTask
    Backends,       \* backend ids of the service's backends
    BackendName,    \* backend id -> its name
    Numerals,       \* the tokens try_lexical_cast<int> accepts -> their value
    Names           \* tokens it rejects that name a service or a backend

VARIABLES
    status,     \* backend id -> Backend::status
    last,       \* the last request handled and what came of it
    crashed     \* an exception escaped a handler: the process terminated

vars == <<status, last, crashed>>

NoName == ""
NoReq == [none |-> TRUE]

\* CtlTask as constructed: no target, no subject, ids unset.
NoTask == [target |-> "NONE", subject |-> "NONE", command |-> "NONE",
           listener_id |-> -1, service_id |-> -1, backend_id |-> -1,
           service_name |-> NoName, backend_name |-> NoName]

\* handleCommand's switch on the request method; other methods are refused.
MethodCommand == [DELETE |-> "DELETE", POST |-> "ADD", PUT |-> "UPDATE",
                  PATCH |-> "UPDATE", UPDATE |-> "UPDATE", GET |-> "GET",
                  SUBSCRIBE |-> "SUSCRIBE", UNSUBSCRIBE |-> "UNSUSCRIBE"]

BackendStatus == {"UP", "DOWN", "DISABLED"}

(***************************************************************************)
(* Path parsing.  Each set*Target takes the task and the rest of the       *)
(* stream and returns whether it succeeded, the task it left (it is passed *)
(* by reference, so a failed parse keeps what it set) and the stream.      *)
(***************************************************************************)
LexicalCast(tok) == tok \in DOMAIN Numerals

\* The int try_lexical_cast<int> stores (tokens it rejects are kept as names).
IntOf(tok) == IF tok \in DOMAIN Numerals THEN Numerals[tok] ELSE tok

Result(ok, t, s) == [ok |-> ok, task |-> t, rest |-> s]

\* The subject a word after the id sets ("session" sets CTL_SB_STATUS).
SubjectOf(word) ==
    [config |-> "CONFIG", status |-> "STATUS", session |-> "STATUS"][word]

\* The id token after a keyword: an integer is the id, anything else a name
\* (setServiceTarget and setBackendTarget then set the id to -1).
BackendId(t, tok) ==
    IF LexicalCast(tok) THEN [t EXCEPT !.backend_id = IntOf(tok)]
    ELSE [t EXCEPT !.backend_id = -1, !.backend_name = tok]

ServiceIdNoTarget(t, tok) ==
    IF LexicalCast(tok) THEN [t EXCEPT !.service_id = IntOf(tok)]
    ELSE [t EXCEPT !.service_id = -1, !.service_name = tok]

ServiceId(t, tok) ==
    IF LexicalCast(tok) THEN [t EXCEPT !.service_id = IntOf(tok), !.target = "SERVICE"]
    ELSE [t EXCEPT !.service_id = -1, !.service_name = tok, !.target = "SERVICE"]

\* After the id: nothing more, an allowed subject word, or a failure that
\* has consumed the word.  A nested keyword is handled by the caller.
AfterId(t, s, allowed) ==
    CASE s = <<>>               -> Result(TRUE, t, s)
      [] Head(s) \notin allowed -> Result(FALSE, t, Tail(s))
      [] OTHER -> Result(TRUE, [t EXCEPT !.subject = SubjectOf(Head(s))], Tail(s))

\* The word after the id, when it names a nested target.
Nests(s, word) == s # <<>> /\ Head(s) = word

SetBackendTarget(t, s) ==
    LET t1 == [t EXCEPT !.target = "BACKEND"]
    IN  IF s = <<>> THEN Result(TRUE, t1, s)
        ELSE AfterId(BackendId(t1, Head(s)), Tail(s), {"config", "status"})

SetServiceTarget(t, s) ==
    LET t1 == [t EXCEPT !.target = "SERVICE_MANAGER"]
        t2 == ServiceId(t1, Head(s))
    IN  CASE s = <<>>                   -> Result(TRUE, t1, s)
          [] Nests(Tail(s), "backend") -> SetBackendTarget(t2, Tail(Tail(s)))
          [] OTHER -> AfterId(t2, Tail(s), {"config", "status", "session"})

SetListenerTarget(t, s) ==
    LET t1 == [t EXCEPT !.target = "LISTENER"]
        t2 == [t1 EXCEPT !.listener_id = IntOf(Head(s))]
    IN  CASE s = <<>>                   -> Result(TRUE, t1, s)
          [] ~LexicalCast(Head(s))      -> Result(FALSE, t1, Tail(s))
          [] Nests(Tail(s), "service") -> SetServiceTarget(t2, Tail(Tail(s)))
          [] OTHER -> AfterId(t2, Tail(s), {"config", "status"})

\* setTaskTarget: scan the tokens; a keyword hands the stream to its parser,
\* whose success ends the scan and whose failure resumes it where it stopped.
RECURSIVE SetTaskTarget(_, _)
SetTaskTarget(t, s) ==
    IF s = <<>> THEN Result(FALSE, t, s)
    ELSE LET r == CASE Head(s) = "listener" -> SetListenerTarget(t, Tail(s))
                    [] Head(s) = "service"  -> SetServiceTarget(t, Tail(s))
                    [] Head(s) = "backend"  -> SetBackendTarget(t, Tail(s))
                    [] OTHER                -> Result(FALSE, t, Tail(s))
         IN  IF r.ok THEN r ELSE SetTaskTarget(r.task, r.rest)

(***************************************************************************)
(* Backend::handleTask.  Which observers a task reaches is decided by the  *)
(* service, whose code is not in the repository; a task is taken to reach *)
(* the backends exactly when its target is a backend.                      *)
(***************************************************************************)
Delivered(t) == t.target = "BACKEND"

\* Backend::isHandler: the target check is commented out; id -1 is everyone.
IsHandler(b, t) == t.backend_id = b \/ t.backend_id = -1

Handlers(t) == IF Delivered(t) THEN {b \in Backends : IsHandler(b, t)} ELSE {}

UpdatesStatus(t) == t.command = "UPDATE" /\ t.subject = "STATUS"

\* UPDATE/STATUS: an unparsable body is an ERROR, a body without the status
\* key makes JsonObject::at throw (nothing catches it), a non-value status
\* is ignored, and a value other than active/up/down/disabled still replies
\* OK with the status unchanged.
Throws(body) == body = "nokey"

NewStatusUnknown(b, body) ==
    CASE body \in {"up", "active"} -> "UP"
      [] body = "down"              -> "DOWN"
      [] body = "disabled"          -> "DISABLED"
      [] OTHER                      -> "UNKNOWN"

NewStatus(b, body) ==
    CASE body \in {"up", "active"} -> "UP"
      [] body = "down"              -> "DOWN"
      [] body = "disabled"          -> "DISABLED"
      [] OTHER                      -> status[b]

\* handleCommand's answer to a request: the reply and the task it notifies.
Decide(m, p) ==
    LET known == m \in DOMAIN MethodCommand
        r     == SetTaskTarget(NoTask, p)
    IN  [task  |-> [r.task EXCEPT !.command = IF known THEN MethodCommand[m] ELSE "NONE"],
         reply |-> CASE ~known                          -> "MethodNotAllowed"
                     [] ~r.ok /\ r.task.target = "NONE" -> "BadRequest"
                     [] OTHER                           -> "OK"]

\* handleCommand for one request, with the notified backends' handleTask.
HandleCommand(m, p, body) ==
    /\ ~crashed
    /\ LET d  == Decide(m, p)
           hs == IF d.reply = "OK" /\ UpdatesStatus(d.task) THEN Handlers(d.task) ELSE {}
       IN  /\ last' = [method |-> m, path |-> p, body |-> body, reply |-> d.reply, task |-> d.task]
           /\ crashed' = (hs # {} /\ Throws(body))
           /\ status' = IF crashed' THEN status
                        ELSE [b \in Backends |-> IF b \in hs THEN NewStatus(b, body) ELSE status[b]]

Init ==
    /\ status = [b \in Backends |-> "UP"]
    /\ last = NoReq
    /\ crashed = FALSE

Next == \E m \in Methods, p \in Paths, body \in Bodies : HandleCommand(m, p, body)

Spec == Init /\ [][Next]_vars

(***************************************************************************)
(* Reference grammar of the control API paths and the task each one is     *)
(* meant to address, built directly rather than by scanning:               *)
(*   /listener[/<int>[/config|/status|/service...]]                        *)
(*   /service[/<int|name>[/config|/status|/session|/backend...]]            *)
(*   /backend[/<int|name>[/config|/status]]                                *)
(***************************************************************************)
RefSubject == [config |-> "CONFIG", status |-> "STATUS", session |-> "SESSION"]

Entry(path, t) == [path |-> path, task |-> t]

RefId(t, tok, idf, namef) ==
    IF tok \in DOMAIN Numerals THEN [t EXCEPT ![idf] = Numerals[tok]]
    ELSE [t EXCEPT ![namef] = tok]

\* Entries for "<kw> [/id [/subject | nested]]", nested ones prefixed.
RefLevel(kw, tb, tid, ids, idf, namef, subjects, Nested(_)) ==
    {Entry(<<kw>>, tb)} \cup
    UNION {LET ti == RefId(tid, x, idf, namef) IN
             {Entry(<<kw, x>>, ti)}
             \cup {Entry(<<kw, x, w>>, [ti EXCEPT !.subject = RefSubject[w]]) : w \in subjects}
             \cup {Entry(<<kw, x>> \o e.path, e.task) : e \in Nested(ti)}
           : x \in ids}

RefBackend(t) ==
    RefLevel("backend", [t EXCEPT !.target = "BACKEND"], [t EXCEPT !.target = "BACKEND"],
             DOMAIN Numerals \cup Names, "backend_id", "backend_name",
             {"config", "status"}, LAMBDA x : {})

RefService(t) ==
    RefLevel("service", [t EXCEPT !.target = "SERVICE_MANAGER"], [t EXCEPT !.target = "SERVICE"],
             DOMAIN Numerals \cup Names, "service_id", "service_name",
             {"config", "status", "session"}, RefBackend)

RefListener(t) ==
    RefLevel("listener", [t EXCEPT !.target = "LISTENER"], [t EXCEPT !.target = "LISTENER"],
             DOMAIN Numerals, "listener_id", "listener_id",
             {"config", "status"}, RefService)

WellFormed ==
    {Entry(<<"">> \o e.path, e.task) : e \in RefListener(NoTask) \cup RefService(NoTask)
                                           \cup RefBackend(NoTask)}

WellFormedPaths == {e.path : e \in WellFormed}

RefTask(p) == (CHOOSE e \in WellFormed : e.path = p).task

\* The fields that say which object a task is for.
Addressing(t) ==
    [f \in {"target", "listener_id", "service_id", "service_name", "backend_id",
            "backend_name"} |-> t[f]]

\* The backends a path names: the one whose id or name follows "backend";
\* all of them when nothing follows it, or when the id is -1, the wildcard
\* isHandler accepts on purpose.
Addressed(p) ==
    IF p \in WellFormedPaths /\ RefTask(p).target = "BACKEND"
    THEN LET i == SelectInSeq(p, LAMBDA x : x = "backend") IN
         IF i = Len(p) \/ (p[i + 1] \in DOMAIN Numerals /\ Numerals[p[i + 1]] = -1)
         THEN Backends
         ELSE {b \in Backends : \/ p[i + 1] \in DOMAIN Numerals /\ Numerals[p[i + 1]] = b
                               \/ p[i + 1] = BackendName[b]}
    ELSE {}

Task == [target: {"NONE", "LISTENER", "SERVICE_MANAGER", "SERVICE", "BACKEND"},
         subject: {"NONE", "CONFIG", "STATUS"},
         command: {"NONE"} \cup Range(MethodCommand),
         listener_id: Int, service_id: Int, backend_id: Int,
         service_name: STRING, backend_name: STRING]

TypeOK ==
    /\ status \in [Backends -> BackendStatus]
    /\ crashed \in BOOLEAN
    /\ last = NoReq \/ (last.reply \in {"MethodNotAllowed", "BadRequest", "OK"} /\ last.task \in Task)

\* handleCommand/setTaskTarget: every path of the API grammar is accepted and
\* yields a task addressed to exactly the listener, service or backend the
\* path names (ids from integer tokens, names otherwise, nesting kept).  The
\* parser is stateless, so once a request has been handled this is checked,
\* for that request's method, on every path of the grammar.
ParserMatchesGrammar ==
    last # NoReq /\ last.method \in DOMAIN MethodCommand =>
    \A p \in WellFormedPaths :
        LET d == Decide(last.method, p) IN
        d.reply = "OK" /\ Addressing(d.task) = Addressing(RefTask(p))

\* set{Listener,Service,Backend}Target: the subject of a well-formed path is
\* the one its last word names (config, status or session).
SubjectFromPath ==
    (last # NoReq /\ last.reply = "OK" /\ last.path \in WellFormedPaths)
        => last.task.subject = RefTask(last.path).subject

\* handleCommand: a request is carried out (replied OK, observers notified)
\* only when its path is one of the API's paths; anything else is a 400.
AcceptOnlyWellFormed ==
    (last # NoReq /\ last.reply = "OK") => last.path \in WellFormedPaths

\* Backend::isHandler/handleTask: a status update sent on an API path changes
\* only the backends that path names.
UpdateOnlyAddressed ==
    [][last'.path \in WellFormedPaths =>
         \A b \in Backends : status'[b] # status[b] => b \in Addressed(last'.path)]_vars

\* Backend::handleTask: no control request terminates the process.
NoUncaughtException == ~crashed

=============================================================================
