--------------------------- MODULE MCServerConfig ---------------------------
(* Instances of ServerConfig for TLC. *)
EXTENDS ServerConfig, TLC

CONSTANTS tcp, ipc, main

MCPort     == tcp :> 5670 @@ ipc :> 0
MCInUse    == {ipc}
MCFiles    == {main}

Quiet == [verbose |-> FALSE, timeout |-> NULL, binds |-> <<tcp>>]
Full  == [verbose |-> TRUE, timeout |-> 5, binds |-> <<ANY, ipc>>]

MCSizes    == {1, 2}
MCWritten  == {Quiet, Full, NULL}
MCSettings == {[path |-> "server/timeout", value |-> 5],
               [path |-> "server/animate", value |-> FALSE],
               [path |-> "bind/endpoint", value |-> ipc]}
=============================================================================
