---------------------------- MODULE ConfigProfiles ----------------------------
(***************************************************************************)
(* What the subscription configs promise (openspec, config-ownership): one *)
(* base, at most one custom per user, a custom being a snapshot of the     *)
(* base that lives on its own, and a save that replaces the content of one *)
(* config whole.                                                           *)
(*                                                                         *)
(* Content is what a subscriber would be served: names, never row ids.     *)
(* ConfigStore, with its tables, ids and requests in flight, is shown to   *)
(* implement this module.                                                  *)
(***************************************************************************)
CONSTANTS
    User,     \* users who may own a custom config
    Base,     \* the owner of the base config
    Content,  \* contents an operator may save
    Empty,    \* the content of a config nothing was saved to
    Absent    \* no config

Owner == User \cup {Base}

VARIABLE content  \* content[o]: what the config of o holds

Init == content = [o \in Owner |-> Absent]

(* The base row appears, empty, with the first save that reaches the store. *)
Ensure ==
    /\ content[Base] = Absent
    /\ content' = [content EXCEPT ![Base] = Empty]

Save(o) ==
    /\ content[o] # Absent
    /\ \E d \in Content : content' = [content EXCEPT ![o] = d]

(* A snapshot of the base, or an empty config while there is no base. *)
Clone(u) ==
    /\ content[u] = Absent
    /\ content' = [content EXCEPT
                     ![u] = IF content[Base] = Absent THEN Empty ELSE content[Base]]

Drop(u) ==
    /\ content[u] # Absent
    /\ content' = [content EXCEPT ![u] = Absent]

Next ==
    \/ Ensure
    \/ \E o \in Owner : Save(o)
    \/ \E u \in User : Clone(u) \/ Drop(u)

Spec == Init /\ [][Next]_content

=============================================================================
