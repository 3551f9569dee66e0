------------------------------ MODULE MCWorker ------------------------------
(* Model-checking instance of Worker: a request without options, and one    *)
(* that sets everything.                                                   *)
EXTENDS Worker

CONSTANTS s1, r1, o1, x1

BlankRequest == [selection |-> Default, sequential |-> None, rate |-> None,
                 options |-> None, trackers |-> {}, cleanup |-> {}]
FullRequest == [selection |-> s1, sequential |-> FALSE, rate |-> r1,
                options |-> o1, trackers |-> {x1}, cleanup |-> {"ratio", "time"}]
SomeRequests == {BlankRequest, FullRequest}
=============================================================================
