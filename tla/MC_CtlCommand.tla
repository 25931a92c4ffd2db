---------------------------- MODULE MC_CtlCommand ----------------------------
EXTENDS CtlCommand, TLC

MC_Numerals == ("0" :> 0) @@ ("1" :> 1) @@ ("-1" :> -1)
MC_Names == {"web"}

\* Requests reaching the backends by id, by name, by the -1 id and bare, and
\* paths off the grammar: a name where an id is needed, a trailing word, an
\* unknown word, a session subject.
MC_Paths ==
    {<<"", "service", "0", "backend", b, "status">> : b \in {"0", "1", "-1", "web"}}
    \cup {<<"", "backend", "1", "status">>, <<"", "backend">>,
          <<"", "listener", "web", "status">>, <<"", "listener", "0", "status">>,
          <<"", "backend", "0", "status", "status">>, <<"", "status">>,
          <<"", "service", "web", "session">>}
MC_Methods == {"GET", "PUT", "TRACE"}
MC_Bodies == {"up", "down", "bogus", "nokey"}
MC_Backends == {0, 1}
MC_BackendName == (0 :> "api") @@ (1 :> "web")
==============================================================================
