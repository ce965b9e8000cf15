---- MODULE MC_Console ----
EXTENDS Console

(* What an operator is at: the users, a new custom config, those there are, the rest. *)
MCOperators ==
    {{"gotoUserPage", "submitUser", "deleteUser"},
     {"go", "createCustom"},
     {"go", "switchScope", "saveConfig", "deleteCustom"},
     {"go", "recreateUser", "saveNode", "deleteNode", "checkProvider", "logout"}}

(* The one who edits configs.                                              *)
MCEditor == {{"go", "switchScope", "saveConfig", "createCustom"}}
====
