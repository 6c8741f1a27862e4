----------------------------- MODULE Agreement -----------------------------
(***************************************************************************)
(* What the two ends of a TLS connection promise each other, whatever       *)
(* messages they exchange.  An attempt to connect is open at each end until *)
(* that end completes it with a view of what was negotiated, or fails.  An  *)
(* end completes only with the view the other end completed with, if it     *)
(* did, and an attempt that resumes a session continues a secret the client *)
(* completed an earlier attempt with.                                       *)
(***************************************************************************)
EXTENDS Naturals

CONSTANT None   \* the base of a view that resumes nothing

VARIABLES
    attempt,    \* the number of the current attempt
    is,         \* per end: "open", "failed" or "done"
    view,       \* per end: the set of the one view it completed with, or {}
    founded     \* the secrets the client completed attempts with

vars == <<attempt, is, view, founded>>
Ends == {"client", "server"}

Init ==
    /\ attempt = 1
    /\ is = [e \in Ends |-> "open"]
    /\ view = [e \in Ends |-> {}]
    /\ founded = {}

(* A new attempt begins when both ends have left the last one. *)
Begin ==
    /\ \A e \in Ends : is[e] # "open"
    /\ attempt' = attempt + 1
    /\ is' = [e \in Ends |-> "open"]
    /\ view' = [e \in Ends |-> {}]
    /\ UNCHANGED founded

Fail(e) ==
    /\ is[e] = "open"
    /\ is' = [is EXCEPT ![e] = "failed"]
    /\ UNCHANGED <<attempt, view, founded>>

Complete(e) ==
    /\ is[e] = "open"
    /\ is' = [is EXCEPT ![e] = "done"]
    /\ \E v \in view'[e] :
        /\ view' = [view EXCEPT ![e] = {v}]
        /\ \A f \in Ends : is[f] = "done" => view[f] = {v}
        /\ v.base \in founded \cup {None}
        /\ founded' = IF e = "client" THEN founded \cup {v.secret} ELSE founded
    /\ UNCHANGED attempt

Next == Begin \/ \E e \in Ends : Fail(e) \/ Complete(e)

Spec == Init /\ [][Next]_vars
=============================================================================
