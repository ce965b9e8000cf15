--------------------------- MODULE MC_Migrations ---------------------------
(* A fresh file, and one from before the runner: two configs with a        *)
(* provider of the same name, rules that name them, one that names none,   *)
(* one that targets a group with a member.                                 *)
EXTENDS Migrations

Old == Legacy({[id |-> NoRef, config |-> c, name |-> "ads"] : c \in Config},
              {[id |-> 1, config |-> "base", value |-> "ads", provider |-> NoRef, group |-> 1],
               [id |-> 2, config |-> "custom", value |-> "ads", provider |-> NoRef, group |-> NoRef],
               [id |-> 3, config |-> "custom", value |-> "gone", provider |-> NoRef, group |-> NoRef]},
              {1}, {[group |-> 1, inbound |-> 7]})

Files == {Fresh, Old}
ASSUME FilesAssumption == \A f \in Files : Found(f)

Spec == InitFrom(Files) /\ [][Next]_vars /\ Fairness
=============================================================================
