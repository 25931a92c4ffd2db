--------------------------- MODULE MC_ControlPlane ---------------------------
EXTENDS ControlPlane, TLC

MC_Numerals == ("0" :> 0) @@ ("1" :> 1) @@ ("-1" :> -1)
MC_Names == {"web"}
\* A backend addressed by id, by name and bare, and one path off the grammar.
MC_Paths ==
    {<<"", "service", "0", "backend", b, "status">> : b \in {"1", "web"}}
    \cup {<<"", "backend", "1", "status">>, <<"", "listener", "0", "status">>}
MC_Methods == {"GET", "PUT"}
MC_Bodies == {"down", "nokey"}
MC_Backends == {0, 1}
MC_BackendName == (0 :> "api") @@ (1 :> "web")
\* The listener, a control client and the other thread's socket: three fds,
\* so that a second client finds none free.
MC_Fds == {3, 4, 5}
\* A daemon that closed its standard input: fd 0 is free.
MC_FdsStdinClosed == {0, 3, 4}
MC_MaxClients == 2
==============================================================================
