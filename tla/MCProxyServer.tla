--------------------------- MODULE MCProxyServer ---------------------------
(***************************************************************************)
(* A client, and a stream whose unit is half a header.                     *)
(***************************************************************************)
EXTENDS ProxyServer

CONSTANTS c1
=============================================================================
