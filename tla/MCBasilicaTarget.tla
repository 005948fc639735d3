--------------------------- MODULE MCBasilicaTarget ---------------------------
(* One wait for the container, two polls and the last chance; one call that *)
(* fails and a restart, or two that fail; with and without an eval command. *)
EXTENDS BasilicaTarget

MCSettings ==
    {s \in [evalCmd : BOOLEAN, failures : 0..2, restarts : 0..1, oddLogs : BOOLEAN] :
        s.failures + s.restarts = 2}

=============================================================================
