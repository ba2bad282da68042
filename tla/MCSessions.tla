------------------------------ MODULE MCSessions ------------------------------
(* A websocket client, with or without a Session-Id on each connection,    *)
(* and an HTTP client of the same Session-Id.                              *)
EXTENDS Sessions
===============================================================================
