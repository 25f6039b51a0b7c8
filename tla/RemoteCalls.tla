---------------------------- MODULE RemoteCalls ----------------------------
(***************************************************************************)
(* What an application may rely on when it calls an object of a peer: no   *)
(* request ids, no messages, no connection.  A call runs at most once, is  *)
(* settled at most once, and what its caller learns agrees with what       *)
(* happened on the other side.                                             *)
(***************************************************************************)
EXTENDS Calls, Naturals

VARIABLES
    promise,     \* what the caller knows of a call
    executed,    \* how often the implementation was entered
    finished     \* what the servant's side did with it

vars == <<promise, executed, finished>>

Init == /\ promise = [c \in Call |-> "none"]
        /\ executed = [c \in Call |-> 0]
        /\ finished = [c \in Call |-> "no"]

\* The caller makes the call; marshalling its arguments may fail.
Issue(c) ==
    /\ promise[c] = "none"
    /\ \E p \in {IF c.twoway THEN "pending" ELSE "oneway", "failed"} :
           promise' = [promise EXCEPT ![c] = p]
    /\ UNCHANGED <<executed, finished>>

\* A call nobody has settled yet is entered, once.
Start(c) ==
    /\ promise[c] \in {"pending", "oneway"}
    /\ finished[c] = "no"
    /\ executed' = [executed EXCEPT ![c] = @ + 1]
    /\ finished' = [finished EXCEPT ![c] = "running"]
    /\ UNCHANGED promise

\* Its arguments do not decode: it is turned down without being entered.
Misfit(c) ==
    /\ promise[c] \in {"pending", "oneway"}
    /\ finished[c] = "no"
    /\ finished' = [finished EXCEPT ![c] = "badArguments"]
    /\ UNCHANGED <<promise, executed>>

Finish(c) ==
    /\ finished[c] = "running"
    /\ \E how \in {"returned", "threw"} :
           finished' = [finished EXCEPT ![c] = how]
    /\ UNCHANGED <<promise, executed>>

\* Success may be reported only of what happened.
Successful(c) ==
    \/ c.method = "_is_a" /\ finished[c] = "no"
    \/ Awaited(c) /\ finished[c] = "returned"
    \/ c.method = "setter" /\ finished[c] \in {"running", "returned", "threw"}

\* Failure may be reported only of a call that is not running any more, and of
\* a setter only when it was never entered.
Unsuccessful(c) ==
    IF c.method = "setter" THEN finished[c] \in {"no", "badArguments"}
                           ELSE finished[c] # "running"

Settle(c) ==
    /\ promise[c] = "pending"
    /\ \/ Successful(c) /\ promise' = [promise EXCEPT ![c] = "resolved"]
       \/ Unsuccessful(c) /\ promise' = [promise EXCEPT ![c] = "rejected"]
       \/ Successful(c) /\ promise' = [promise EXCEPT ![c] = "failed"]
    /\ UNCHANGED <<executed, finished>>

Next == \E c \in Call :
            Issue(c) \/ Start(c) \/ Misfit(c) \/ Finish(c) \/ Settle(c)

Spec == Init /\ [][Next]_vars
=============================================================================
