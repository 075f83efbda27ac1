------------------------------ MODULE MCServer ------------------------------
(***************************************************************************)
(* An instance of Server for TLC: two clients, one or two descriptors.     *)
(***************************************************************************)
EXTENDS Server

\* One message of each kind, with either wish among those that are answered.
MCMessages ==
    {[kind |-> k, keepAlive |-> k # "other"] : k \in Kinds}

=============================================================================
