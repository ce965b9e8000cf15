------------------------------ MODULE MC_Store ------------------------------
EXTENDS Store

MCInit == InitFrom({Fresh}) /\ StoreInit
StoreSpec == MCInit /\ [][StoreNext]_allVars /\ StoreFairness

(* One handler calls anything, the other what changes users.               *)
MCMayCall == [c \in Caller |-> IF c = "any" THEN Program
                               ELSE {users_Create, users_ReplaceConnections, users_Delete}]
MCWants == {{1, 2}, {2, 3}}
=============================================================================
