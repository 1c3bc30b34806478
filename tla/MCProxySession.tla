--------------------------- MODULE MCProxySession ---------------------------
(* Sessions of up to three requests: enough for a CONNECT and two requests   *)
(* inside the intercepted connection.  The bodies are long where it matters: *)
(* the first request (the plain one) has two parts, the first response       *)
(* inside an interception two, one more than the cap.                        *)
EXTENDS ProxySession

MCRequestParts == <<2, 0, 1>>
MCResponseParts == <<1, 2, 1>>
=============================================================================
