--------------------------- MODULE MCMachineRaises ---------------------------
(* A node that may raise two classes of different categories, one that may raise *)
(* one of them, and try statements that catch a class or its base.               *)
EXTENDS MachineRaises

MCMro == [cls \in Classes |-> {cls} \cup (IF cls = "KeyError" THEN {"LookupError"} ELSE {})]
MCCategoryOf == [cls \in Classes |-> CASE cls = "KeyError"  -> "key"
                                        [] cls = "TypeError" -> "dispatch"
                                        [] OTHER             -> UserCategory]
MCMayRaise == [site \in Sites |-> IF site = 1 THEN {"KeyError", "TypeError"} ELSE {"KeyError"}]
MCCaught == {{"TypeError"}, {"LookupError"}}
=============================================================================
