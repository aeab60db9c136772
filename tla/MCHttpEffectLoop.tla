-------------------------- MODULE MCHttpEffectLoop --------------------------
(***************************************************************************)
(* A small instance of HttpEffectLoop: one key, one granted and one other  *)
(* host, and a budget of result bytes that one value fits and two do not.  *)
(***************************************************************************)
EXTENDS HttpEffectLoop

CONSTANTS k1, s1, granted, other

MCResponses == [status : {200}, body : {2, BadPayload}]

Get(k)      == [type |-> "kv.get", key |-> k]
Put(k, v)   == [type |-> "kv.put", key |-> k, value |-> v]
Fetch(h, b) == [type |-> "http.fetch", host |-> h, body |-> b]
Time        == [type |-> "time.now"]
Log         == [type |-> "log.emit"]

\* Two gets of a stored value cross the budget; what is refused stands
\* between effects that are not.
MCEffectLists ==
    {<<>>, <<Put(k1, 2), Time>>, <<Get(k1), Get(k1)>>, <<Fetch(granted, 2)>>,
     <<Put(k1, BadPayload), Log, Fetch(BadUrl, 2), Fetch(other, 2), Fetch(granted, BadPayload)>>}
=============================================================================
