------------------------------ MODULE Requests ------------------------------
(***************************************************************************)
(* What the models of handlers that run beside each other share: the       *)
(* requests, each handled by a task of its own (axum and tokio), and the   *)
(* Option of the code.                                                     *)
(***************************************************************************)

CONSTANTS
    Request,    \* requests that can be in progress at once
    None        \* no value

=============================================================================
