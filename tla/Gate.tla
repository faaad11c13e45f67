-------------------------------- MODULE Gate --------------------------------
(***************************************************************************)
(* What the gateway promises of each request, whatever else it does: a     *)
(* request is decided once; what is decided is recorded in the same step;  *)
(* a request that is held gets that answer and is learned from; one that   *)
(* is let through is called for at most MaxCalls times, and its provider   *)
(* is the only way to be received.  Once closed, nothing happens to it.    *)
(* A step is about one request: requests share no part of the promise.     *)
(***************************************************************************)
EXTENDS Integers

CONSTANTS
    Requests,
    Verdicts,  \* what may be decided of a request
    Holding,   \* the verdicts that turn it away
    MaxCalls   \* of the provider, for one request

VARIABLE state \* [Requests -> [phase, recorded, answer, calls, received, learned]]

vars == <<state>>

Fresh ==
    [phase |-> "open", recorded |-> {}, answer |-> "none", calls |-> 0,
     received |-> FALSE, learned |-> FALSE]

Init == state = [r \in Requests |-> Fresh]

Becomes(r, s) == state' = [state EXCEPT ![r] = s]

Closed(s, answer) == [s EXCEPT !.phase = "closed", !.answer = answer]

\* An error before a verdict, of the client's making or ours: nothing is recorded.
Refuse(r) ==
    /\ state[r].phase = "open"
    /\ Becomes(r, Closed(state[r], "error"))

\* The request is turned away.  The client gets the verdict only if it was learned from.
Hold(r) ==
    /\ state[r].phase = "open"
    /\ \E v \in Holding \cap Verdicts : \E learned \in BOOLEAN :
        \E answer \in IF learned THEN {v, "error"} ELSE {"error"} :
            Becomes(r, [Closed(state[r], answer) EXCEPT !.recorded = {v}, !.learned = learned])

\* The request is let through: to a call, to a stream whose status is out, or to an
\* error because the record cannot be kept.
Pass(r) ==
    /\ state[r].phase = "open"
    /\ \E v \in Verdicts \ Holding :
        \/ \E answer \in {"none", "ok"} :
             Becomes(r, [state[r] EXCEPT !.phase = "passed", !.recorded = {v}, !.answer = answer])
        \/ Becomes(r, [Closed(state[r], "error") EXCEPT !.recorded = {v}])

\* A call that ends the request: an "ok" comes from a provider that has received it.
Call(r) ==
    /\ state[r].phase = "passed" /\ state[r].answer = "none"
    /\ state[r].calls < MaxCalls
    /\ \E received \in {TRUE, state[r].received} :
        \E answer \in IF received THEN {"ok", "error"} ELSE {"error"} :
            Becomes(r, [Closed(state[r], answer) EXCEPT !.calls = @ + 1, !.received = received])

\* A call that fails and is followed by another.
Retry(r) ==
    /\ state[r].phase = "passed" /\ state[r].answer = "none"
    /\ state[r].calls + 1 < MaxCalls
    /\ \E received \in {TRUE, state[r].received} :
        Becomes(r, [state[r] EXCEPT !.calls = @ + 1, !.received = received])

\* A stream ends, well or not; the client has its status.
EndStream(r) ==
    /\ state[r].phase = "passed" /\ state[r].answer = "ok"
    /\ \E received \in {TRUE, state[r].received} :
        Becomes(r, [state[r] EXCEPT !.phase = "closed", !.received = received])

Next == \E r \in Requests :
    Refuse(r) \/ Hold(r) \/ Pass(r) \/ Call(r) \/ Retry(r) \/ EndStream(r)

Spec == Init /\ [][Next]_vars
=============================================================================
