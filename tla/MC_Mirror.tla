------------------------------- MODULE MC_Mirror -------------------------------
(* A small instance of Mirror for TLC. *)
EXTENDS Mirror

(* Two configs name different URLs for one file; another file's is dead. *)
MC_Provider ==
    {[file |-> "ads", url |-> "a"], [file |-> "ads", url |-> "b"],
     [file |-> "geo", url |-> "dead"]}

=============================================================================
