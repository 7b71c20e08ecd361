---------------------------- MODULE MCRequestRetry ----------------------------
(* RequestRetry with one exception of each kind: the client's timeout, which *)
(* carries the status 408; a lost connection without a status, as Python's   *)
(* own, and with 500, as LiteLLM's; a rate limit with and without a pause;   *)
(* an exhausted quota; an overloaded server; a refused request.              *)
EXTENDS RequestRetry

Exception(ended, status, code, after) ==
  [ended |-> ended, status |-> status, code |-> code, after |-> after]

SomeErrors ==
  {Exception("timeout", 408, "none", 0), Exception("connection", 0, "none", 0),
   Exception("connection", 500, "none", 0),
   Exception("server", 429, "ambiguous", 0), Exception("server", 429, "none", 4),
   Exception("server", 429, "quota", 0), Exception("server", 503, "overloaded", 2),
   Exception("server", 400, "none", 0)}

\* The one exception of a provider that will not be told to call a tool.
RefusedOnly == {Exception("server", 400, "none", 0)}
=============================================================================
