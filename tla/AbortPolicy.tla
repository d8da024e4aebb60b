---------------------------- MODULE AbortPolicy ----------------------------
(***************************************************************************)
(* Pylate's abort policy (Pylate/Engine/Policy.lean): which exceptions the *)
(* interpreter itself raises are turned into proof obligations instead of  *)
(* exceptional flow, and when an enclosing handler prevents it.  A policy  *)
(* is the set of the categories it models.                                 *)
(***************************************************************************)
EXTENDS Sequences

CONSTANTS Classes,      \* exception classes
          Mro,          \* [Classes -> SUBSET Classes]: a class and its ancestors
          Categories,   \* policyCategories
          CategoryOf    \* [Classes -> Categories \cup {UserCategory}]: excCategory

ASSUME MroAssumption == /\ Mro \in [Classes -> SUBSET Classes]
                        /\ \A cls \in Classes : cls \in Mro[cls]

UserCategory == "user"

\* No policy lists it, so it always aborts: a violated parameter annotation.
ContractCategory == "contract"

ASSUME CategoryAssumption == /\ CategoryOf \in [Classes -> Categories \cup {UserCategory}]
                             /\ ContractCategory \notin Categories
                             /\ UserCategory \notin Categories

Policies == SUBSET Categories

\* Explicit raises are never subject to the policy; a category the policy does
\* not list aborts.
PolicyAborts(policy, cat) == cat # UserCategory /\ cat \notin policy

\* Mutation: only the innermost try statement is consulted.
HandledByInnermost(active, cls) == active # <<>> /\ Head(active) \cap Mro[cls] # {}

\* Some enclosing try statement of the program catches the class.
HandledHere(active, cls) == \E i \in DOMAIN active : active[i] \cap Mro[cls] # {}

Undeclared == "undeclared"

\* A declared category is that of a raise Python itself does not perform.
Category(cls, declared) == IF declared = Undeclared THEN CategoryOf[cls] ELSE declared

\* The verdict of one machine raise in one context: no handler of the program
\* catches a declared one.
Aborts(policy, active, cls, declared) ==
  /\ PolicyAborts(policy, Category(cls, declared))
  /\ declared # Undeclared \/ ~HandledHere(active, cls)
=============================================================================
