--------------------------- MODULE MCLocalPostgres ---------------------------
(* Two ports of the project's choice, and the one a cluster that nobody    *)
(* has configured listens at.                                              *)
EXTENDS LocalPostgres
MCPorts == {55432, 55232}
MCDefaultPort == 55432
MCBuiltinPort == 5432
=============================================================================
