---------------------- MODULE ProgramGeneration_proofs ----------------------
(***************************************************************************)
(* For every method, every module it stands in and whatever the functions  *)
(* it calls do: the program generated for it asserts what it asserts, and  *)
(* carries the statements it needs and no other.                           *)
(*                                                                         *)
(* Bodies are nested sequences, and the walks over them are recursive      *)
(* functions.  The library's induction theorems take an operator, so the   *)
(* induction used here is proved for sets: over numbers from the           *)
(* pigeonhole theorem, over bodies by their depth and length.  The method  *)
(* and its code are then run side by side, statement by statement.         *)
(***************************************************************************)
EXTENDS ProgramGeneration, FiniteSetTheorems, SequenceTheorems, TLAPS

-----------------------------------------------------------------------------
(* The prelude *)

\* Every name met is still to be looked up, or its definition is in.
LookedUp == \A n \in seeds \cup NamesOf(chosen) : n \in frontier \/ DefOf(n) \subseteq chosen

\* Where the search stands: a scan begins with an empty frontier, and one that chose
\* nothing was the last.
Standing ==
  /\ phase = "waiting" => seeds = {} /\ frontier = {} /\ chosen = {} /\ changed
  /\ phase \in {"scan", "done"} => frontier = {}
  /\ phase = "done" \/ (phase = "close" /\ ~changed) => frontier = {} /\ Touching \subseteq chosen

\* What is still to be looked up was met, and what is provided is defined.
Grounded == frontier \subseteq seeds \cup NamesOf(chosen) /\ provided \subseteq Bound(chosen)

PreludeInv == PreludeTypeOK /\ LookedUp /\ Standing /\ Grounded /\ NothingExtra

\* Names and bindings grow with the statements.
LEMMA NamesGrow ==
  ASSUME NEW A, NEW B, A \subseteq B
  PROVE  NamesOf(A) \subseteq NamesOf(B) /\ Bound(A) \subseteq Bound(B)
  BY DEF NamesOf, Bound

\* The names of two sets of statements together.
LEMMA NamesOfUnion ==
  ASSUME NEW A, NEW B
  PROVE  NamesOf(A \cup B) = NamesOf(A) \cup NamesOf(B)
  BY DEF NamesOf

\* The statements of a module mention names of it.
LEMMA NamesAreNames ==
  ASSUME mod \in Module, NEW A \in SUBSET Stmts
  PROVE  NamesOf(A) \subseteq Names
  BY DEF NamesOf, Module

\* The search starts from the invariant.
LEMMA PreludeInvInit == PreludeInit => PreludeInv
  <1> SUFFICES ASSUME PreludeInit PROVE PreludeInv
    OBVIOUS
  <1>1. NamesOf({}) = {}
    BY DEF NamesOf
  <1> QED
    BY <1>1, PreludeAssumption
       DEF PreludeInit, PreludeInv, PreludeTypeOK, LookedUp, Standing, Grounded, NothingExtra

\* Looking one name up keeps the invariant.
LEMMA PopKeeps == PreludeInv /\ Pop => PreludeInv'
  <1> SUFFICES ASSUME PreludeInv, Pop PROVE PreludeInv'
    OBVIOUS
  <1> USE DEF PreludeInv
  <1>1. PICK n \in frontier :
          /\ chosen' = chosen \cup Found(n)
          /\ provided' = provided \cup ProvidedBy(n, Found(n))
          /\ frontier' = (frontier \ {n}) \cup NewNames(n, Found(n))
    BY DEF Pop
  <1>2. UNCHANGED <<mod, seeds, changed, phase>> /\ phase = "close" /\ n \in Names
    BY DEF Pop, PreludeTypeOK
  <1>3. Found(n) \subseteq DefOf(n) /\ DefOf(n) \subseteq chosen' /\ Found(n) \subseteq Stmts
    BY <1>1 DEF Found, DefOf, Binders
  <1>4. \A m : DefOf(m)' = DefOf(m)
    BY <1>2 DEF DefOf, Binders
  <1>5. NamesOf(chosen)' = NamesOf(chosen) \cup NamesOf(Found(n))
    BY <1>1, <1>2, NamesOfUnion DEF NamesOf
  <1>6. PreludeTypeOK'
    <2>1. NamesOf(Found(n)) \subseteq Names
      BY <1>3, NamesAreNames DEF PreludeTypeOK
    <2> QED
      BY <1>1, <1>2, <1>3, <2>1 DEF PreludeTypeOK, ProvidedBy, NewNames
  <1>7. LookedUp'
    <2> SUFFICES ASSUME NEW m \in seeds \cup NamesOf(chosen)'
                 PROVE  m \in frontier' \/ DefOf(m) \subseteq chosen'
      BY <1>2, <1>4 DEF LookedUp
    <2>1. CASE m = n
      BY <2>1, <1>3
    <2>2. CASE m # n /\ m \in NamesOf(Found(n))
      BY <2>2, <1>1 DEF NewNames
    <2>3. CASE m # n /\ m \in seeds \cup NamesOf(chosen)
      BY <2>3, <1>1 DEF LookedUp
    <2> QED
      BY <2>1, <2>2, <2>3, <1>5
  <1>8. Standing'
    BY <1>1, <1>2 DEF Standing
  <1>9. Grounded'
    <2>1. frontier' \subseteq seeds' \cup NamesOf(chosen)'
      BY <1>1, <1>2, <1>5 DEF Grounded, NewNames
    <2>2. Bound(chosen)' = Bound(chosen) \cup Bound(Found(n))
      BY <1>1, <1>2 DEF Bound
    <2>3. ProvidedBy(n, Found(n)) \subseteq Bound(Found(n))
      BY <1>3 DEF ProvidedBy, Bound, DefOf, Binders
    <2> QED
      BY <2>1, <2>2, <2>3, <1>1 DEF Grounded
  <1>10. NothingExtra'
    <2> SUFFICES ASSUME NEW S \in SUBSET Stmts, SelfContained(S)'
                 PROVE  chosen' \subseteq S
      BY DEF NothingExtra
    <2>1. SelfContained(S)
      BY <1>2, <1>4 DEF SelfContained, NamesOf, Bound
    <2>2. chosen \subseteq S
      BY <2>1 DEF NothingExtra
    <2>3. n \in seeds \cup NamesOf(S)
      BY <2>2, NamesGrow DEF Grounded
    <2>4. DefOf(n) \subseteq S
      BY <2>1, <2>3 DEF SelfContained
    <2> QED
      BY <2>2, <2>4, <1>1, <1>3
  <1> QED
    BY <1>6, <1>7, <1>8, <1>9, <1>10

\* A scan of the mutators keeps the invariant.
LEMMA ScanKeeps == PreludeInv /\ Scan => PreludeInv'
  <1> SUFFICES ASSUME PreludeInv, Scan PROVE PreludeInv'
    OBVIOUS
  <1> USE DEF PreludeInv
  <1> DEFINE pulled == Touching \ chosen
  <1>1. /\ chosen' = chosen \cup pulled
        /\ frontier' = frontier \cup NamesOf(pulled)
        /\ changed' = (pulled # {})
        /\ phase' = "close" /\ phase = "scan"
        /\ UNCHANGED <<mod, seeds, provided>>
    BY DEF Scan
  <1>2. pulled \subseteq Stmts
    BY DEF Touching, PreludeTypeOK, Module
  <1>3. \A m : DefOf(m)' = DefOf(m)
    BY <1>1 DEF DefOf, Binders
  <1>4. Touching' = Touching
    BY <1>1 DEF Touching
  <1>5. NamesOf(chosen)' = NamesOf(chosen) \cup NamesOf(pulled)
    BY <1>1, NamesOfUnion DEF NamesOf
  <1>6. PreludeTypeOK'
    <2>1. NamesOf(pulled) \subseteq Names
      BY <1>2, NamesAreNames DEF PreludeTypeOK
    <2> QED
      BY <1>1, <1>2, <2>1 DEF PreludeTypeOK
  <1>7. LookedUp'
    BY <1>1, <1>3, <1>5 DEF LookedUp
  <1>8. Standing'
    <2>1. ASSUME ~changed' PROVE frontier' = {} /\ Touching' \subseteq chosen'
      <3>1. pulled = {} /\ NamesOf({}) = {}
        BY <1>1, <2>1 DEF NamesOf
      <3>2. frontier = {}
        BY <1>1 DEF Standing
      <3> QED
        BY <3>1, <3>2, <1>1, <1>4
    <2> QED
      BY <1>1, <2>1 DEF Standing
  <1>9. Grounded'
    <2>1. Bound(chosen) \subseteq Bound(chosen')
      BY <1>1, NamesGrow
    <2>2. Bound(chosen)' = Bound(chosen')
      BY <1>1 DEF Bound
    <2> QED
      BY <1>1, <1>5, <2>1, <2>2 DEF Grounded
  <1>10. NothingExtra'
    <2> SUFFICES ASSUME NEW S \in SUBSET Stmts, SelfContained(S)'
                 PROVE  chosen' \subseteq S
      BY DEF NothingExtra
    <2>1. SelfContained(S)
      BY <1>1, <1>3 DEF SelfContained, NamesOf, Bound
    <2>2. chosen \subseteq S
      BY <2>1 DEF NothingExtra
    <2>3. provided \subseteq Bound(S)
      BY <2>2, NamesGrow DEF Grounded
    <2>4. pulled \subseteq S
      BY <2>1, <2>3 DEF SelfContained, Touching
    <2> QED
      BY <2>2, <2>4, <1>1
  <1> QED
    BY <1>6, <1>7, <1>8, <1>9, <1>10

\* What is said of the search holds on while only its phase changes.
LEMMA SameSearch ==
  ASSUME PreludeInv, phase' \in {"waiting", "close", "scan", "done"},
         UNCHANGED <<mod, seeds, frontier, chosen, provided, changed>>
  PROVE  PreludeTypeOK' /\ LookedUp' /\ Grounded' /\ NothingExtra' /\ Touching' = Touching
  <1>1. /\ \A n : DefOf(n)' = DefOf(n)
        /\ NamesOf(chosen)' = NamesOf(chosen) /\ Bound(chosen)' = Bound(chosen)
        /\ \A S : NamesOf(S)' = NamesOf(S) /\ Bound(S)' = Bound(S)
        /\ Touching' = Touching
    BY DEF DefOf, Binders, NamesOf, Bound, Touching
  <1>2. PreludeTypeOK'
    BY DEF PreludeInv, PreludeTypeOK
  <1>3. LookedUp'
    BY <1>1 DEF PreludeInv, LookedUp
  <1>4. Grounded'
    BY <1>1 DEF PreludeInv, Grounded
  <1>5. ASSUME NEW S \in SUBSET Stmts, SelfContained(S)' PROVE chosen' \subseteq S
    <2>1. SelfContained(S)
      BY <1>1, <1>5 DEF SelfContained
    <2> QED
      BY <2>1 DEF PreludeInv, NothingExtra
  <1> QED
    BY <1>1, <1>2, <1>3, <1>4, <1>5 DEF NothingExtra

\* Every step keeps the invariant.
LEMMA PreludeInvNext == PreludeInv /\ [PreludeNext]_preludeVars => PreludeInv'
  <1> SUFFICES ASSUME PreludeInv, [PreludeNext]_preludeVars PROVE PreludeInv'
    OBVIOUS
  <1>1. ASSUME NEW used \in SUBSET Names, Begin(used) PROVE PreludeInv'
    <2>1. /\ seeds' = used /\ frontier' = used /\ phase' = "close"
          /\ UNCHANGED <<mod, chosen, provided, changed>>
          /\ chosen = {} /\ changed
      BY <1>1 DEF Begin, PreludeInv, Standing
    <2>2. NamesOf(chosen)' = {}
      BY <2>1 DEF NamesOf
    <2>3. PreludeTypeOK' /\ LookedUp' /\ Standing' /\ NothingExtra'
      BY <2>1, <2>2 DEF PreludeInv, PreludeTypeOK, LookedUp, Standing, NothingExtra
    <2>4. Grounded'
      BY <2>1, <2>2 DEF PreludeInv, Grounded, Bound
    <2> QED
      BY <2>3, <2>4 DEF PreludeInv
  <1>2. CASE Pop
    BY <1>2, PopKeeps
  <1>3. CASE Closed
    <2>1. /\ frontier = {} /\ phase' = (IF changed THEN "scan" ELSE "done") /\ phase = "close"
          /\ UNCHANGED <<mod, seeds, frontier, chosen, provided, changed>>
      BY <1>3 DEF Closed, ScanAgain
    <2>2. PreludeTypeOK' /\ LookedUp' /\ Grounded' /\ NothingExtra' /\ Touching' = Touching
      BY <2>1, SameSearch
    <2>3. Standing'
      BY <2>1, <2>2 DEF PreludeInv, Standing
    <2> QED
      BY <2>2, <2>3 DEF PreludeInv
  <1>4. CASE Scan
    BY <1>4, ScanKeeps
  <1>5. CASE UNCHANGED preludeVars
    <2>1. UNCHANGED <<mod, seeds, frontier, chosen, provided, changed, phase>>
      BY <1>5 DEF preludeVars
    <2>2. PreludeTypeOK' /\ LookedUp' /\ Grounded' /\ NothingExtra' /\ Touching' = Touching
      BY <2>1, SameSearch DEF PreludeInv, PreludeTypeOK
    <2>3. Standing'
      BY <2>1, <2>2 DEF PreludeInv, Standing
    <2> QED
      BY <2>2, <2>3 DEF PreludeInv
  <1> QED
    BY <1>1, <1>2, <1>3, <1>4, <1>5 DEF PreludeNext, PreludeStep

\* A finished prelude defines what is mentioned and holds what mutates a name looked up,
\* whatever the module and the order of the frontier.
THEOREM PreludeIsClosed == PreludeSpec => []PreludeClosed
  <1>1. PreludeInv => PreludeClosed
    BY DEF PreludeInv, PreludeClosed, LookedUp, Standing
  <1> QED
    BY <1>1, PreludeInvInit, PreludeInvNext, PTL DEF PreludeSpec

\* A prelude is contained in every set of statements that could serve as one.
THEOREM PreludeIsMinimal == PreludeSpec => []NothingExtra
  <1>1. PreludeInv => NothingExtra
    BY DEF PreludeInv
  <1> QED
    BY <1>1, PreludeInvInit, PreludeInvNext, PTL DEF PreludeSpec

\* A module in which no statement binds two names; a statement that only changes
\* definitions binds none (module_defs indexes no such statement).
SingleBinders ==
  /\ \A s \in Stmts : \A x, y \in mod.binds[s] : x = y
  /\ \A s \in mod.mutators : mod.binds[s] = {}

\* There, every name of a chosen definition is provided.
AllProvided == SingleBinders => Bound(chosen) \subseteq provided

\* A name looked up is the only one its definition binds, and a mutator binds none.
LEMMA AllProvidedNext ==
  ASSUME PreludeInv, AllProvided, [PreludeNext]_preludeVars
  PROVE  AllProvided'
  <1> SUFFICES ASSUME SingleBinders', NEW s \in chosen', NEW x \in mod'.binds[s]
               PROVE  x \in provided'
    BY DEF AllProvided, Bound
  <1>1. mod' = mod
    BY DEF PreludeNext, PreludeStep, Begin, Pop, Closed, Scan, preludeVars
  <1>2. SingleBinders
    BY <1>1 DEF SingleBinders
  <1>3. s \in chosen => x \in provided
    BY <1>1, <1>2 DEF AllProvided, Bound
  <1>4. CASE UNCHANGED <<chosen, provided>>
    BY <1>3, <1>4
  <1>5. CASE Pop
    <2>1. PICK n \in frontier :
            chosen' = chosen \cup Found(n) /\ provided' = provided \cup ProvidedBy(n, Found(n))
      BY <1>5 DEF Pop
    <2>2. CASE s \in Found(n)
      <3>1. s \in Stmts /\ n \in mod.binds[s]
        BY <2>2 DEF Found, DefOf, Binders
      <3>2. x = n
        BY <3>1, <1>1, <1>2 DEF SingleBinders
      <3> QED
        BY <2>1, <2>2, <3>2 DEF ProvidedBy
    <2> QED
      BY <2>1, <2>2, <1>3
  <1>6. CASE Scan
    <2>1. s \in chosen \/ s \in mod.mutators
      BY <1>6 DEF Scan, Touching
    <2>2. provided' = provided
      BY <1>6 DEF Scan
    <2> QED
      BY <2>1, <2>2, <1>1, <1>2, <1>3 DEF SingleBinders
  <1> QED
    BY <1>4, <1>5, <1>6 DEF PreludeNext, PreludeStep, Begin, Closed, preludeVars

\* What prepare.py:386 says of mutators holds of every module without a statement that binds
\* two names: a name chosen under another is the only way to miss a mutator.
THEOREM ClosureHasItsMutators == PreludeSpec => [](SingleBinders => MutatorsOfClosure)
  <1>1. PreludeInit => AllProvided
    BY DEF PreludeInit, AllProvided, Bound
  <1>2. PreludeInv /\ AllProvided /\ [PreludeNext]_preludeVars => AllProvided'
    BY AllProvidedNext
  <1>3. PreludeInv /\ AllProvided => (SingleBinders => MutatorsOfClosure)
    BY DEF PreludeInv, Standing, AllProvided, MutatorsOfClosure, Touching
  <1> QED
    BY <1>1, <1>2, <1>3, PreludeInvInit, PreludeInvNext, PTL DEF PreludeSpec

-----------------------------------------------------------------------------
(* Induction.  A set of numbers that has a gap and no first one would map    *)
(* one to one, by k |-> k - 1, into itself without its last element.         *)

\* A set that holds 0, and with a number the next one, holds every number.
LEMMA NatInduct ==
  ASSUME NEW T, 0 \in T, \A n \in Nat : n \in T => n + 1 \in T
  PROVE  Nat \subseteq T
  <1> SUFFICES ASSUME NEW n \in Nat, n \notin T PROVE FALSE
    OBVIOUS
  <1> DEFINE C == {k \in 0..n : k \notin T}
             down == [k \in C |-> k - 1]
  <1>1. n \in C
    OBVIOUS
  <1>2. \A k \in C : k # 0 /\ k - 1 \in C /\ k - 1 # n
    <2> SUFFICES ASSUME NEW k \in C PROVE k # 0 /\ k - 1 \in C /\ k - 1 # n
      OBVIOUS
    <2>1. k \in Nat /\ k # 0 /\ k <= n
      OBVIOUS
    <2>2. k - 1 \in Nat /\ (k - 1) + 1 = k
      BY <2>1
    <2>3. k - 1 \notin T
      BY <2>2
    <2> QED
      BY <2>1, <2>2, <2>3
  <1>3. IsFiniteSet(C)
    BY FS_Interval, FS_Subset, 0 \in Int, n \in Int
  <1>4. IsFiniteSet(C \ {n}) /\ Cardinality(C \ {n}) = Cardinality(C) - 1
    BY <1>1, <1>3, FS_RemoveElement
  <1>5. down \in Injection(C, C \ {n})
    BY <1>2 DEF Injection, IsInjective
  <1>6. Cardinality(C) <= Cardinality(C) - 1
    BY <1>4, <1>5, FS_Injection
  <1>7. Cardinality(C) \in Nat
    BY <1>3, FS_CardinalityType
  <1> QED
    BY <1>6, <1>7

\* A set of sequences that holds the empty one, and any other together with its tail,
\* holds all of them.
LEMMA SeqInduct ==
  ASSUME NEW S, NEW T, <<>> \in T, \A s \in Seq(S) : s # <<>> /\ Tail(s) \in T => s \in T
  PROVE  Seq(S) \subseteq T
  <1> DEFINE N == {n \in Nat : \A s \in Seq(S) : Len(s) = n => s \in T}
  <1>1. 0 \in N
    BY EmptySeq
  <1>2. ASSUME NEW n \in Nat, n \in N PROVE n + 1 \in N
    <2> SUFFICES ASSUME NEW s \in Seq(S), Len(s) = n + 1 PROVE s \in T
      OBVIOUS
    <2>1. s # <<>>
      BY EmptySeq
    <2>2. Tail(s) \in Seq(S) /\ Len(Tail(s)) = n
      BY <2>1, HeadTailProperties
    <2> QED
      BY <2>1, <2>2, <1>2
  <1>3. Nat \subseteq N
    <2> HIDE DEF N
    <2> QED
      BY <1>1, <1>2, NatInduct
  <1> QED
    BY <1>3, LenProperties

\* Bodies is what its definition says, for every depth.
BodiesEq == Bodies = [d \in Nat |-> IF d = 0 THEN {<<>>} ELSE Seq(Statements(Bodies[d - 1]))]

\* There is such a function: there is one up to every depth, and they agree.
LEMMA BodiesDef == BodiesEq
  <1> DEFINE Up(g, m) == g = [d \in 0..m |-> IF d = 0 THEN {<<>>} ELSE Seq(Statements(g[d - 1]))]
             T == {m \in Nat : \E g : Up(g, m)}
  <1>1. 0 \in T
    <2>1. Up([d \in 0..0 |-> {<<>>}], 0)
      OBVIOUS
    <2> QED
      BY <2>1
  <1>2. ASSUME NEW m \in Nat, m \in T PROVE m + 1 \in T
    <2>1. PICK g : Up(g, m)
      BY <1>2
    <2> DEFINE h == [d \in 0..(m + 1) |-> IF d = m + 1 THEN Seq(Statements(g[m])) ELSE g[d]]
    <2>2. Up(h, m + 1)
      <3>1. \A d \in 0..(m + 1) : d # 0 => d - 1 \in 0..m /\ h[d - 1] = g[d - 1]
        OBVIOUS
      <3>2. \A d \in 0..m : g[d] = IF d = 0 THEN {<<>>} ELSE Seq(Statements(g[d - 1]))
        BY <2>1
      <3>3. ASSUME NEW d \in 0..(m + 1)
            PROVE  h[d] = IF d = 0 THEN {<<>>} ELSE Seq(Statements(h[d - 1]))
        <4>1. CASE d = m + 1
          BY <4>1, <3>1
        <4>2. CASE d # m + 1
          <5>1. d \in 0..m
            BY <4>2
          <5> QED
            BY <5>1, <4>2, <3>1, <3>2
        <4> QED
          BY <4>1, <4>2
      <3> QED
        BY <3>3
    <2>3. \E k : Up(k, m + 1)
      <3> HIDE DEF h
      <3> QED
        BY <2>2
    <2> QED
      BY <2>3
  <1>3. Nat \subseteq T
    <2> HIDE DEF T
    <2> QED
      BY <1>1, <1>2, NatInduct
  <1> DEFINE G(m) == CHOOSE g : Up(g, m)
  <1>4. \A m \in Nat : Up(G(m), m)
    BY <1>3
  <1>5. ASSUME NEW m \in Nat PROVE \A d \in 0..m : G(m)[d] = G(d)[d]
    <2> DEFINE D == {d \in Nat : \A k \in Nat : k >= d => G(k)[d] = G(d)[d]}
    <2>1. \A k \in Nat : \A d \in 0..k :
            G(k)[d] = IF d = 0 THEN {<<>>} ELSE Seq(Statements(G(k)[d - 1]))
      BY <1>4
    <2> HIDE DEF G
    <2>2. 0 \in D
      BY <2>1
    <2>3. ASSUME NEW d \in Nat, d \in D PROVE d + 1 \in D
      <3> SUFFICES ASSUME NEW k \in Nat, k >= d + 1 PROVE G(k)[d + 1] = G(d + 1)[d + 1]
        OBVIOUS
      <3>1. G(k)[d] = G(d)[d] /\ G(d + 1)[d] = G(d)[d]
        BY <2>3
      <3>2. G(k)[d + 1] = Seq(Statements(G(k)[d])) /\ G(d + 1)[d + 1] = Seq(Statements(G(d + 1)[d]))
        BY <2>1
      <3> QED
        BY <3>1, <3>2
    <2>4. Nat \subseteq D
      <3> HIDE DEF D
      <3> QED
        BY <2>2, <2>3, NatInduct
    <2> QED
      BY <2>4
  <1> DEFINE B == [d \in Nat |-> G(d)[d]]
  <1>6. B = [d \in Nat |-> IF d = 0 THEN {<<>>} ELSE Seq(Statements(B[d - 1]))]
    <2> SUFFICES ASSUME NEW d \in Nat
                 PROVE  G(d)[d] = IF d = 0 THEN {<<>>} ELSE Seq(Statements(B[d - 1]))
      OBVIOUS
    <2>1. Up(G(d), d)
      <3> HIDE DEF Up, G
      <3> QED
        BY <1>4
    <2> HIDE DEF G
    <2>2. G(d)[d] = IF d = 0 THEN {<<>>} ELSE Seq(Statements(G(d)[d - 1]))
      BY <2>1, d \in 0..d
    <2>3. ASSUME d # 0 PROVE B[d - 1] = G(d)[d - 1]
      <3>1. d - 1 \in 0..d /\ d - 1 \in Nat
        BY <2>3
      <3>2. G(d)[d - 1] = G(d - 1)[d - 1]
        BY <3>1, <1>5
      <3> QED
        BY <3>1, <3>2
    <2> HIDE DEF B
    <2> QED
      BY <2>2, <2>3
  <1> HIDE DEF B
  <1>7. \E b : b = [d \in Nat |-> IF d = 0 THEN {<<>>} ELSE Seq(Statements(b[d - 1]))]
    BY <1>6
  <1> QED
    BY <1>7, Zenon DEF Bodies, BodiesEq

-----------------------------------------------------------------------------
(* Bodies *)

\* Every body, however deep.
Tree == UNION {Bodies[d] : d \in Nat}

\* The bodies of a depth are made of statements whose bodies are of the depth below.
LEMMA BodiesAt ==
  /\ Bodies[0] = {<<>>}
  /\ \A d \in Nat : Bodies[d + 1] = Seq(Statements(Bodies[d]))
  <1>1. \A d \in Nat : Bodies[d] = IF d = 0 THEN {<<>>} ELSE Seq(Statements(Bodies[d - 1]))
    <2> DEFINE Down(d) == IF d = 0 THEN {<<>>} ELSE Seq(Statements(Bodies[d - 1]))
    <2>1. Bodies = [d \in Nat |-> Down(d)]
      BY BodiesDef DEF BodiesEq
    <2> HIDE DEF Down
    <2>2. \A d \in Nat : Bodies[d] = Down(d)
      BY <2>1
    <2> QED
      BY <2>2 DEF Down
  <1>2. ASSUME NEW d \in Nat PROVE Bodies[d + 1] = Seq(Statements(Bodies[d]))
    <2>1. d + 1 \in Nat /\ d + 1 # 0 /\ (d + 1) - 1 = d
      OBVIOUS
    <2> QED
      BY <1>1, <2>1
  <1> QED
    BY <1>1, <1>2

\* The empty body is of every depth.
LEMMA EmptyBody == ASSUME NEW d \in Nat PROVE <<>> \in Bodies[d]
  <1>1. CASE d = 0
    BY <1>1, BodiesAt
  <1>2. CASE d # 0
    <2>1. d - 1 \in Nat /\ d = (d - 1) + 1
      BY <1>2
    <2> QED
      BY <2>1, BodiesAt, EmptySeq
  <1> QED
    BY <1>1, <1>2

\* More bodies, more statements.
LEMMA StatementsGrow ==
  ASSUME NEW A, NEW B, A \subseteq B
  PROVE  Statements(A) \subseteq Statements(B)
  BY DEF Statements

\* A body is of every greater depth too.
LEMMA BodiesGrow ==
  ASSUME NEW d \in Nat, NEW e \in Nat, d <= e
  PROVE  Bodies[d] \subseteq Bodies[e]
  <1> DEFINE T == {n \in Nat : Bodies[n] \subseteq Bodies[n + 1]}
             U == {n \in Nat : Bodies[d] \subseteq Bodies[d + n]}
  <1>1. 0 \in T
    BY BodiesAt, EmptyBody
  <1>2. ASSUME NEW n \in Nat, n \in T PROVE n + 1 \in T
    <2>1. Seq(Statements(Bodies[n])) \subseteq Seq(Statements(Bodies[n + 1]))
      BY <1>2, StatementsGrow, SeqMonotonic
    <2> QED
      BY <2>1, BodiesAt
  <1>3. Nat \subseteq T
    <2> HIDE DEF T
    <2> QED
      BY <1>1, <1>2, NatInduct
  <1>4. 0 \in U
    OBVIOUS
  <1>5. ASSUME NEW n \in Nat, n \in U PROVE n + 1 \in U
    <2>1. d + n \in T /\ d + (n + 1) = (d + n) + 1
      BY <1>3
    <2> QED
      BY <1>5, <2>1
  <1>6. Nat \subseteq U
    <2> HIDE DEF U
    <2> QED
      BY <1>4, <1>5, NatInduct
  <1>7. e - d \in Nat /\ d + (e - d) = e
    OBVIOUS
  <1> QED
    BY <1>6, <1>7

\* The parts of a body of a depth.
LEMMA BodyParts ==
  ASSUME NEW d \in Nat, NEW b \in Bodies[d], b # <<>>
  PROVE  /\ d - 1 \in Nat
         /\ Head(b) \in Statements(Bodies[d - 1]) /\ Head(b) \in Statements(Bodies[d])
         /\ Head(b).body \in Bodies[d - 1] /\ Head(b).body \in Bodies[d]
         /\ Tail(b) \in Bodies[d]
         /\ b \in Seq(Statements(Bodies[d - 1]))
  <1>1. d # 0
    BY BodiesAt
  <1>2. d - 1 \in Nat /\ d = (d - 1) + 1
    BY <1>1
  <1>3. Bodies[d] = Seq(Statements(Bodies[d - 1]))
    BY <1>2, BodiesAt
  <1>4. Head(b) \in Statements(Bodies[d - 1]) /\ Tail(b) \in Seq(Statements(Bodies[d - 1]))
    BY <1>3, HeadTailProperties
  <1>5. Bodies[d - 1] \subseteq Bodies[d]
    BY <1>2, BodiesGrow
  <1>6. Head(b).body \in Bodies[d - 1]
    BY <1>4 DEF Statements
  <1> QED
    BY <1>2, <1>3, <1>4, <1>5, <1>6, StatementsGrow

\* Head, tail and length of a body built in front.
LEMMA ConsParts ==
  ASSUME NEW S, NEW s \in S, NEW b \in Seq(S)
  PROVE  /\ <<s>> \in Seq(S) /\ <<s>> # <<>> /\ Head(<<s>>) = s /\ Tail(<<s>>) = <<>>
         /\ <<s>> \o b \in Seq(S) /\ <<s>> \o b # <<>>
         /\ Head(<<s>> \o b) = s /\ Tail(<<s>> \o b) = b
  OBVIOUS

\* A set that holds the empty body, and any other together with its tail and the body of
\* its head, holds all bodies of the depth.
LEMMA BodyInduct ==
  ASSUME NEW depth \in Nat, NEW T, <<>> \in T,
         \A b \in Bodies[depth] : b # <<>> /\ Head(b).body \in T /\ Tail(b) \in T => b \in T
  PROVE  Bodies[depth] \subseteq T
  <1> DEFINE D == {d \in Nat : d <= depth => Bodies[d] \subseteq T}
  <1>1. 0 \in D
    BY BodiesAt
  <1>2. ASSUME NEW d \in Nat, d \in D PROVE d + 1 \in D
    <2> SUFFICES ASSUME d + 1 <= depth PROVE Bodies[d + 1] \subseteq T
      OBVIOUS
    <2>1. Bodies[d + 1] = Seq(Statements(Bodies[d])) /\ Bodies[d + 1] \subseteq Bodies[depth]
      BY BodiesAt, BodiesGrow
    <2>2. Bodies[d] \subseteq T
      BY <1>2
    <2>3. ASSUME NEW b \in Seq(Statements(Bodies[d])), b # <<>>, Tail(b) \in T PROVE b \in T
      <3>1. Head(b) \in Statements(Bodies[d])
        BY <2>3, HeadTailProperties
      <3>2. Head(b).body \in T
        BY <3>1, <2>2 DEF Statements
      <3> QED
        BY <3>2, <2>1, <2>3
    <2> QED
      BY <2>1, <2>3, SeqInduct
  <1>3. Nat \subseteq D
    <2> HIDE DEF D
    <2> QED
      BY <1>1, <1>2, NatInduct
  <1> QED
    BY <1>3

-----------------------------------------------------------------------------
(* Walks.  A function on bodies that is given on the empty body, and on any  *)
(* other by its head and its values on the head's own body and on the tail,  *)
(* exists: the smallest relation that holds these values is one.             *)

\* f is nil on the empty body, and cons of the three values on any other.
Walk(f, nil, cons) ==
  /\ f[<<>>] = nil
  /\ \A b \in Body : b # <<>> => f[b] = cons[<<Head(b), f[Head(b).body], f[Tail(b)]>>]

\* There is a walk for every value on the empty body and every way to combine.
LEMMA WalkExists ==
  ASSUME NEW R, NEW nil \in R, NEW cons \in [Statements(Body) \X R \X R -> R]
  PROVE  \E f \in [Body -> R] : Walk(f, nil, cons)
  <1> DEFINE Closing(G) ==
               /\ <<<<>>, nil>> \in G
               /\ \A b \in Body, x \in R, y \in R :
                    b # <<>> /\ <<Head(b).body, x>> \in G /\ <<Tail(b), y>> \in G
                      => <<b, cons[<<Head(b), x, y>>]>> \in G
             All == Body \X R
             Least == {p \in All : \A G \in SUBSET All : Closing(G) => p \in G}
  <1> USE DepthAssumption
  <1>1. /\ <<>> \in Body
        /\ \A b \in Body : b # <<>> =>
             Head(b) \in Statements(Body) /\ Head(b).body \in Body /\ Tail(b) \in Body
    BY EmptyBody, BodyParts DEF Body
  <1>2. \A s \in Statements(Body), x \in R, y \in R : cons[<<s, x, y>>] \in R
    OBVIOUS
  <1>3. Closing(Least)
    <2>1. <<<<>>, nil>> \in Least
      BY <1>1
    <2>2. ASSUME NEW b \in Body, NEW x \in R, NEW y \in R, b # <<>>,
                 <<Head(b).body, x>> \in Least, <<Tail(b), y>> \in Least
          PROVE  <<b, cons[<<Head(b), x, y>>]>> \in Least
      <3>1. <<b, cons[<<Head(b), x, y>>]>> \in All
        BY <2>2, <1>1, <1>2
      <3> QED
        BY <3>1, <2>2
    <2> QED
      BY <2>1, <2>2
  <1>4. \A b \in Body : \E x \in R : <<b, x>> \in Least
    <2> DEFINE T == {b \in Body : \E x \in R : <<b, x>> \in Least}
    <2>1. <<>> \in T
      BY <1>1, <1>3
    <2>2. ASSUME NEW b \in Body, b # <<>>, Head(b).body \in T, Tail(b) \in T PROVE b \in T
      <3>1. PICK x \in R : <<Head(b).body, x>> \in Least
        BY <2>2
      <3>2. PICK y \in R : <<Tail(b), y>> \in Least
        BY <2>2
      <3>3. <<b, cons[<<Head(b), x, y>>]>> \in Least
        <4> HIDE DEF Least
        <4> QED
          BY <3>1, <3>2, <2>2, <1>3
      <3>4. cons[<<Head(b), x, y>>] \in R
        BY <2>2, <1>1, <1>2
      <3> HIDE DEF Least
      <3> QED
        BY <3>3, <3>4
    <2>3. Bodies[Depth] \subseteq T
      <3> HIDE DEF T
      <3> QED
        BY <2>1, <2>2, BodyInduct DEF Body
    <2> QED
      BY <2>3 DEF Body
  <1>5. \A y \in R : <<<<>>, y>> \in Least => y = nil
    <2> SUFFICES ASSUME NEW y \in R, <<<<>>, y>> \in Least, y # nil PROVE FALSE
      OBVIOUS
    <2> DEFINE G == Least \ {<<<<>>, y>>}
    <2>1. G \in SUBSET All
      OBVIOUS
    <2>2. Closing(G)
      <3>1. <<<<>>, nil>> \in G
        BY <1>3
      <3>2. ASSUME NEW b \in Body, NEW x \in R, NEW z \in R, b # <<>>,
                   <<Head(b).body, x>> \in G, <<Tail(b), z>> \in G
            PROVE  <<b, cons[<<Head(b), x, z>>]>> \in G
        <4>1. <<b, cons[<<Head(b), x, z>>]>> \in Least
          <5> HIDE DEF Least
          <5> QED
            BY <3>2, <1>3
        <4> QED
          BY <4>1, <3>2
      <3> QED
        BY <3>1, <3>2
    <2> QED
      BY <2>1, <2>2
  <1>6. ASSUME NEW b \in Body, b # <<>>, NEW w \in R, <<b, w>> \in Least
        PROVE  \E x \in R, y \in R : /\ <<Head(b).body, x>> \in Least /\ <<Tail(b), y>> \in Least
                                     /\ w = cons[<<Head(b), x, y>>]
    <2> SUFFICES ASSUME ~(\E x \in R, y \in R :
                            /\ <<Head(b).body, x>> \in Least /\ <<Tail(b), y>> \in Least
                            /\ w = cons[<<Head(b), x, y>>])
                 PROVE  FALSE
      OBVIOUS
    <2> DEFINE G == Least \ {<<b, w>>}
    <2>1. G \in SUBSET All
      OBVIOUS
    <2>2. Closing(G)
      <3>1. <<<<>>, nil>> \in G
        BY <1>3, <1>6
      <3>2. ASSUME NEW c \in Body, NEW x \in R, NEW z \in R, c # <<>>,
                   <<Head(c).body, x>> \in G, <<Tail(c), z>> \in G
            PROVE  <<c, cons[<<Head(c), x, z>>]>> \in G
        <4> HIDE DEF Least
        <4>1. <<c, cons[<<Head(c), x, z>>]>> \in Least
          BY <3>2, <1>3
        <4>2. <<Head(c).body, x>> \in Least /\ <<Tail(c), z>> \in Least
          BY <3>2
        <4>3. <<c, cons[<<Head(c), x, z>>]>> # <<b, w>>
          BY <4>2
        <4> QED
          BY <4>1, <4>3
      <3> QED
        BY <3>1, <3>2
    <2> QED
      BY <2>1, <2>2, <1>6
  <1> HIDE DEF Least
  <1>7. \A b \in Body : \A x \in R, y \in R : <<b, x>> \in Least /\ <<b, y>> \in Least => x = y
    <2> DEFINE T == {b \in Body : \A x \in R, y \in R :
                                    <<b, x>> \in Least /\ <<b, y>> \in Least => x = y}
    <2>1. <<>> \in T
      BY <1>1, <1>5
    <2>2. ASSUME NEW b \in Body, b # <<>>, Head(b).body \in T, Tail(b) \in T PROVE b \in T
      <3> SUFFICES ASSUME NEW v \in R, NEW w \in R, <<b, v>> \in Least, <<b, w>> \in Least
                   PROVE  v = w
        BY <2>2
      <3>1. PICK x \in R, y \in R : /\ <<Head(b).body, x>> \in Least /\ <<Tail(b), y>> \in Least
                                    /\ v = cons[<<Head(b), x, y>>]
        BY <2>2, <1>6
      <3>2. PICK p \in R, q \in R : /\ <<Head(b).body, p>> \in Least /\ <<Tail(b), q>> \in Least
                                    /\ w = cons[<<Head(b), p, q>>]
        BY <2>2, <1>6
      <3>3. x = p /\ y = q
        BY <3>1, <3>2, <2>2
      <3> QED
        BY <3>1, <3>2, <3>3
    <2>3. Bodies[Depth] \subseteq T
      <3> HIDE DEF T
      <3> QED
        BY <2>1, <2>2, BodyInduct DEF Body
    <2> QED
      BY <2>3 DEF Body
  <1> DEFINE f == [b \in Body |-> CHOOSE x \in R : <<b, x>> \in Least]
  <1>8. \A b \in Body : f[b] \in R /\ <<b, f[b]>> \in Least
    BY <1>4
  <1>9. f \in [Body -> R]
    BY <1>8
  <1> HIDE DEF f
  <1>10. f[<<>>] = nil
    BY <1>1, <1>5, <1>8
  <1>11. ASSUME NEW b \in Body, b # <<>>
         PROVE  f[b] = cons[<<Head(b), f[Head(b).body], f[Tail(b)]>>]
    <2>1. Head(b) \in Statements(Body) /\ Head(b).body \in Body /\ Tail(b) \in Body
      BY <1>1, <1>11
    <2>2. <<b, cons[<<Head(b), f[Head(b).body], f[Tail(b)]>>]>> \in Least
      BY <2>1, <1>3, <1>8, <1>11
    <2>3. cons[<<Head(b), f[Head(b).body], f[Tail(b)]>>] \in R
      BY <2>1, <1>2, <1>8
    <2> QED
      BY <2>2, <2>3, <1>7, <1>8
  <1> QED
    BY <1>9, <1>10, <1>11 DEF Walk

-----------------------------------------------------------------------------
(* The walks exist, and have the types and the values their equations say *)

\* How a run may end.
Flows == {"normal", "return"} \cup Exceptions

\* Changing one field of a run leaves a run.
LEMMA RunFields ==
  ASSUME NEW run \in Runs
  PROVE  /\ run.flow \in Flows /\ run.failed \in BOOLEAN /\ run.binds \in Nat /\ run.cm \in Held
         /\ run.log \in Seq(Callees \cup Held) /\ run.raised \in SUBSET (Nat \X Held)
         /\ run.beh \in [Callees -> Happens]
         /\ \A flow \in Flows : [run EXCEPT !.flow = flow] \in Runs
         /\ \A cm \in Held : [run EXCEPT !.cm = cm] \in Runs
         /\ \A raised \in SUBSET (Nat \X Held) : [run EXCEPT !.raised = raised] \in Runs
         /\ \A what \in Callees \cup Held : Logs(run, what) \in Runs
  <1>1. \A what \in Callees \cup Held : Append(run.log, what) \in Seq(Callees \cup Held)
    BY DEF Runs
  <1> QED
    BY <1>1 DEF Runs, Flows, Logs

\* What the steps make of a run is a run.
LEMMA DoesRun ==
  ASSUME NEW run \in Runs, NEW name \in Callees
  PROVE  Does(run, name) \in Runs
  <1>1. run.beh[name] \in Happens
    BY RunFields
  <1> QED
    BY <1>1, RunFields DEF Does, Ends, Happens, Flows, Exceptions

\* A run that ends is a run.
LEMMA EndsRun ==
  ASSUME NEW run \in Runs, NEW flow \in Flows
  PROVE  Ends(run, flow) \in Runs
  BY RunFields DEF Ends

\* So is what an assertRaises makes of the run of its body,
LEMMA ExpectedRun ==
  ASSUME NEW run \in Runs, NEW s, NEW n
  PROVE  Expected(run, s, n) \in Runs
  <1> DEFINE flow == IF s.regex /\ run.flow # "E" THEN "A" ELSE "normal"
             cm   == IF s.bind /\ run.binds = n THEN run.flow ELSE run.cm
  <1>1. CASE run.flow \in {"normal", "return"}
    BY <1>1, EndsRun DEF Expected, Flows, Exceptions
  <1>2. CASE run.flow \notin {"normal", "return"}
    <2>1. flow \in Flows /\ cm \in Held
      BY <1>2, RunFields DEF Flows, Held, Exceptions
    <2> HIDE DEF flow, cm
    <2>2. [run EXCEPT !.flow = flow, !.cm = cm] \in Runs
      BY <2>1 DEF Runs, Flows
    <2> QED
      BY <1>2, <2>2 DEF Expected, flow, cm
  <1> QED
    BY <1>1, <1>2

\* Naming the manager of a with leaves a run, and changes nothing else.
LEMMA EnteredRun ==
  ASSUME NEW run \in Runs, NEW s
  PROVE  LET e == Entered(run, s)
         IN  /\ e \in Runs /\ e.flow = run.flow /\ e.failed = run.failed /\ e.log = run.log
             /\ e.raised = run.raised /\ e.beh = run.beh
             /\ e.cm = IF s.bind THEN "none" ELSE run.cm
             /\ ~s.bind => e = run
  <1>1. "none" \in Held /\ run.binds + 1 \in Nat
    BY RunFields DEF Held
  <1> QED
    BY <1>1 DEF Entered, Runs

\* and what a subTest makes of one.
LEMMA ReportedRun ==
  ASSUME NEW run \in Runs
  PROVE  Reported(run) \in Runs
  BY DEF Reported, Runs

\* An except clause catches exceptions only.
LEMMA CatchesExceptions ==
  ASSUME NEW exc \in Classes
  PROVE  Catches(exc) \subseteq Exceptions
  BY DEF Classes, Catches, Exceptions

\* What the handler of a scaffold makes of a run is a run.
LEMMA HandledRun ==
  ASSUME NEW run \in Runs, NEW s, s.id \in Nat, s.exc \in Classes
  PROVE  Handled(run, s) \in Runs
  <1> DEFINE held == IF s.bind THEN run.flow ELSE "none"
             flow == IF s.regex /\ run.flow # "E" THEN "A" ELSE "normal"
  <1>1. CASE run.flow \notin Catches(s.exc)
    BY <1>1 DEF Handled
  <1>2. CASE run.flow \in Catches(s.exc)
    <2>1. held \in Held /\ flow \in Flows
      BY <1>2, CatchesExceptions DEF Held, Flows, Exceptions
    <2> HIDE DEF held, flow
    <2>2. run.raised \cup {<<s.id, held>>} \in SUBSET (Nat \X Held)
      BY <2>1, RunFields
    <2>3. [run EXCEPT !.raised = @ \cup {<<s.id, held>>}, !.flow = flow] \in Runs
      BY <2>1, <2>2 DEF Runs, Flows
    <2> QED
      BY <1>2, <2>3 DEF Handled, held, flow
  <1> QED
    BY <1>1, <1>2

\* A statement of a test takes runs to runs, if its own body does.
LEMMA UnittestStmtRun ==
  ASSUME NEW s \in Statements(Body), NEW within \in [Runs -> Runs], NEW run \in Runs
  PROVE  UnittestStmt(s, within, run) \in Runs
  <1>1. s.kind = "call" => Does(run, s.of) \in Runs
    BY DoesRun DEF Statements
  <1>2. Ends(run, "A") \in Runs /\ Ends(run, "return") \in Runs /\ Ends(run, "NameError") \in Runs
    BY EndsRun DEF Flows, Exceptions
  <1>3. Logs(run, run.cm) \in Runs
    BY RunFields
  <1>4. within[run] \in Runs /\ Reported(within[run]) \in Runs
    BY ReportedRun
  <1>5. Entered(run, s) \in Runs
    BY EnteredRun
  <1>6. Expected(within[Entered(run, s)], s, Entered(run, s).binds) \in Runs
    BY <1>5, ExpectedRun
  <1> QED
    BY <1>1, <1>2, <1>3, <1>4, <1>6 DEF UnittestStmt

\* The local of a scaffold keeps what its handler put there, or None.
LEMMA KeptHeld ==
  ASSUME NEW run \in Runs, NEW n
  PROVE  /\ Kept(run, n) \in Held
         /\ <<n, Kept(run, n)>> \in run.raised \/ (~Ran(run, n) /\ Kept(run, n) = "none")
  <1>1. run.raised \in SUBSET (Nat \X Held)
    BY RunFields
  <1>2. \E exc \in Held : <<n, exc>> \in run.raised \/ (~Ran(run, n) /\ exc = "none")
    BY <1>1 DEF Ran, Held
  <1> QED
    BY <1>2 DEF Kept

\* A statement of lowered code takes runs to runs, if its own body does.
LEMMA PlainStmtRun ==
  ASSUME NEW s \in Statements(Body), NEW within \in [Runs -> Runs], NEW run \in Runs
  PROVE  PlainStmt(s, within, run) \in Runs
  <1>1. s.kind = "call" => Does(run, s.of) \in Runs
    BY DoesRun DEF Statements
  <1>2. Ends(run, "A") \in Runs /\ Ends(run, "return") \in Runs /\ Ends(run, "NameError") \in Runs
    BY EndsRun DEF Flows, Exceptions
  <1>3. s.kind = "local" => Logs(run, Kept(run, s.id)) \in Runs
    BY KeptHeld, RunFields
  <1>4. within[run] \in Runs
    OBVIOUS
  <1>5. s.kind = "try" => Handled(within[run], s) \in Runs
    BY HandledRun DEF Statements
  <1>6. [run EXCEPT !.raised = {p \in @ : p[1] # s.id}] \in Runs
    BY RunFields
  <1> QED
    BY <1>1, <1>2, <1>3, <1>4, <1>5, <1>6 DEF PlainStmt

\* The parts of a body of the tests' depth.
LEMMA Parts ==
  /\ <<>> \in Body
  /\ \A b \in Body : b # <<>> =>
       Head(b) \in Statements(Body) /\ Head(b).body \in Body /\ Tail(b) \in Body
  BY DepthAssumption, EmptyBody, BodyParts DEF Body

\* Induction over the bodies of the tests' depth.
LEMMA Induct ==
  ASSUME NEW T, <<>> \in T,
         \A b \in Body : b # <<>> /\ Head(b).body \in T /\ Tail(b) \in T => b \in T
  PROVE  Body \subseteq T
  BY DepthAssumption, BodyInduct DEF Body

\* The statements of a body are those of its head and of its tail.
LEMMA InsideDef ==
  /\ Inside \in [Body -> SUBSET Statements(Body)]
  /\ Inside[<<>>] = {}
  /\ \A b \in Body : b # <<>> =>
       Inside[b] = {Head(b)} \cup Inside[Head(b).body] \cup Inside[Tail(b)]
  <1> DEFINE R == SUBSET Statements(Body)
             cons == [p \in Statements(Body) \X R \X R |-> {p[1]} \cup p[2] \cup p[3]]
  <1>1. cons \in [Statements(Body) \X R \X R -> R]
    OBVIOUS
  <1>2. \A s \in Statements(Body), x \in R, y \in R : cons[<<s, x, y>>] = {s} \cup x \cup y
    OBVIOUS
  <1>3. PICK f \in [Body -> R] : Walk(f, {}, cons)
    <2> HIDE DEF cons
    <2>1. {} \in R
      OBVIOUS
    <2> HIDE DEF R
    <2> QED
      BY <1>1, <2>1, WalkExists
  <1> HIDE DEF cons
  <1>4. f = [stmts \in Body |-> IF stmts = <<>> THEN {}
                              ELSE {Head(stmts)} \cup f[Head(stmts).body] \cup f[Tail(stmts)]]
    <2> SUFFICES ASSUME NEW b \in Body, b # <<>>
                 PROVE  f[b] = {Head(b)} \cup f[Head(b).body] \cup f[Tail(b)]
      BY <1>3 DEF Walk
    <2>1. f[b] = cons[<<Head(b), f[Head(b).body], f[Tail(b)]>>]
      BY <1>3 DEF Walk
    <2> HIDE DEF R
    <2>2. f[Head(b).body] \in R /\ f[Tail(b)] \in R /\ Head(b) \in Statements(Body)
      BY Parts
    <2> QED
      BY <2>1, <2>2, <1>2
  <1>5. \E g : g = [stmts \in Body |-> IF stmts = <<>> THEN {}
                                     ELSE {Head(stmts)} \cup g[Head(stmts).body] \cup g[Tail(stmts)]]
    BY <1>4
  <1>6. Inside = [stmts \in Body |-> IF stmts = <<>> THEN {}
                     ELSE {Head(stmts)} \cup Inside[Head(stmts).body] \cup Inside[Tail(stmts)]]
    BY <1>5, Zenon DEF Inside
  <1>7. /\ Inside[<<>>] = {}
        /\ \A b \in Body : b # <<>> =>
             Inside[b] = {Head(b)} \cup Inside[Head(b).body] \cup Inside[Tail(b)]
    BY <1>6, Parts
  <1>8. Body \subseteq {b \in Body : Inside[b] \in R}
    <2> DEFINE T == {b \in Body : Inside[b] \in R}
    <2>1. <<>> \in T
      BY <1>7, Parts
    <2>2. ASSUME NEW b \in Body, b # <<>>, Head(b).body \in T, Tail(b) \in T PROVE b \in T
      BY <2>2, <1>7, Parts
    <2> HIDE DEF T
    <2> QED
      BY <2>1, <2>2, Induct DEF T
  <1> QED
    BY <1>6, <1>7, <1>8

\* A method under unittest, statement by statement.
LEMMA UnittestDef ==
  /\ Unittest \in [Body -> [Runs -> Runs]]
  /\ \A b \in Body, run \in Runs : b = <<>> \/ run.flow # "normal" => Unittest[b][run] = run
  /\ \A b \in Body, run \in Runs : b # <<>> /\ run.flow = "normal" =>
       Unittest[b][run] = Unittest[Tail(b)][UnittestStmt(Head(b), Unittest[Head(b).body], run)]
  <1> DEFINE R == [Runs -> Runs]
             idle == [run \in Runs |-> run]
             on(s, x, y, run) == IF run.flow # "normal" THEN run ELSE y[UnittestStmt(s, x, run)]
             cons == [p \in Statements(Body) \X R \X R |-> [run \in Runs |-> on(p[1], p[2], p[3], run)]]
  <1>1. \A s \in Statements(Body), x \in R, y \in R, run \in Runs : on(s, x, y, run) \in Runs
    BY UnittestStmtRun
  <1>2. cons \in [Statements(Body) \X R \X R -> R]
    <2> HIDE DEF on
    <2> QED
      BY <1>1
  <1>3. \A s \in Statements(Body), x \in R, y \in R : cons[<<s, x, y>>] = [run \in Runs |-> on(s, x, y, run)]
    <2> HIDE DEF on
    <2> QED
      OBVIOUS
  <1>4. PICK f \in [Body -> R] : Walk(f, idle, cons)
    <2>1. idle \in R
      OBVIOUS
    <2> HIDE DEF R, cons, idle
    <2> QED
      BY <1>2, <2>1, WalkExists
  <1> HIDE DEF cons
  <1> DEFINE Eq(g) == g = [stmts \in Body |-> [run \in Runs |->
                             IF stmts = <<>> \/ run.flow # "normal" THEN run
                             ELSE g[Tail(stmts)][UnittestStmt(Head(stmts), g[Head(stmts).body], run)]]]
  <1>5. Eq(f)
    <2> SUFFICES ASSUME NEW b \in Body
                 PROVE  f[b] = [run \in Runs |->
                                  IF b = <<>> \/ run.flow # "normal" THEN run
                                  ELSE f[Tail(b)][UnittestStmt(Head(b), f[Head(b).body], run)]]
      OBVIOUS
    <2>1. CASE b = <<>>
      BY <2>1, <1>4 DEF Walk
    <2>2. CASE b # <<>>
      <3>1. f[b] = cons[<<Head(b), f[Head(b).body], f[Tail(b)]>>]
        BY <2>2, <1>4 DEF Walk
      <3> HIDE DEF R
      <3>2. f[Head(b).body] \in R /\ f[Tail(b)] \in R /\ Head(b) \in Statements(Body)
        BY <2>2, Parts
      <3> HIDE DEF on
      <3>3. f[b] = [run \in Runs |-> on(Head(b), f[Head(b).body], f[Tail(b)], run)]
        BY <3>1, <3>2, <1>3
      <3> QED
        BY <2>2, <3>3 DEF on
    <2> QED
      BY <2>1, <2>2
  <1>6. Eq(Unittest)
    <2>1. \E g : Eq(g)
      <3> HIDE DEF Eq
      <3> QED
        BY <1>5
    <2> QED
      BY <2>1, Zenon DEF Unittest
  <1>7. /\ \A b \in Body, run \in Runs : b = <<>> \/ run.flow # "normal" => Unittest[b][run] = run
        /\ \A b \in Body, run \in Runs : b # <<>> /\ run.flow = "normal" =>
             Unittest[b][run] = Unittest[Tail(b)][UnittestStmt(Head(b), Unittest[Head(b).body], run)]
        /\ DOMAIN Unittest = Body
        /\ \A b \in Body : Unittest[b] = [run \in Runs |-> Unittest[b][run]]
    <2> DEFINE val(b, run) == IF b = <<>> \/ run.flow # "normal" THEN run
                              ELSE Unittest[Tail(b)][UnittestStmt(Head(b), Unittest[Head(b).body], run)]
    <2>1. Unittest = [b \in Body |-> [run \in Runs |-> val(b, run)]]
      BY <1>6
    <2> HIDE DEF val
    <2>2. /\ \A b \in Body, run \in Runs : Unittest[b][run] = val(b, run)
          /\ \A b \in Body : Unittest[b] = [run \in Runs |-> Unittest[b][run]]
          /\ DOMAIN Unittest = Body
      BY <2>1
    <2>3. /\ \A b \in Body, run \in Runs : b = <<>> \/ run.flow # "normal" => val(b, run) = run
          /\ \A b \in Body, run \in Runs : b # <<>> /\ run.flow = "normal" =>
               val(b, run) = Unittest[Tail(b)][UnittestStmt(Head(b), Unittest[Head(b).body], run)]
      BY DEF val
    <2> QED
      BY <2>2, <2>3
  <1> DEFINE T == {b \in Body : \A run \in Runs : Unittest[b][run] \in Runs}
  <1>8. Body \subseteq T
    <2>1. <<>> \in T
      BY <1>7, Parts
    <2>2. ASSUME NEW b \in Body, b # <<>>, Head(b).body \in T, Tail(b) \in T PROVE b \in T
      <3> SUFFICES ASSUME NEW run \in Runs, run.flow = "normal" PROVE Unittest[b][run] \in Runs
        BY <1>7
      <3>1. Unittest[Head(b).body] \in [Runs -> Runs]
        BY <2>2, <1>7
      <3>2. UnittestStmt(Head(b), Unittest[Head(b).body], run) \in Runs
        BY <3>1, <2>2, Parts, UnittestStmtRun
      <3> QED
        BY <3>2, <2>2, <1>7
    <2> HIDE DEF T
    <2> QED
      BY <2>1, <2>2, Induct DEF T
  <1>9. Unittest \in [Body -> [Runs -> Runs]]
    <2>1. \A b \in Body : Unittest[b] \in [Runs -> Runs]
      BY <1>7, <1>8
    <2> QED
      BY <2>1, <1>6
  <1> QED
    BY <1>7, <1>9

\* The generated program, statement by statement.
LEMMA PlainlyDef ==
  /\ Plainly \in [Body -> [Runs -> Runs]]
  /\ \A b \in Body, run \in Runs : b = <<>> \/ run.flow # "normal" => Plainly[b][run] = run
  /\ \A b \in Body, run \in Runs : b # <<>> /\ run.flow = "normal" =>
       Plainly[b][run] = Plainly[Tail(b)][PlainStmt(Head(b), Plainly[Head(b).body], run)]
  <1> DEFINE R == [Runs -> Runs]
             idle == [run \in Runs |-> run]
             on(s, x, y, run) == IF run.flow # "normal" THEN run ELSE y[PlainStmt(s, x, run)]
             cons == [p \in Statements(Body) \X R \X R |-> [run \in Runs |-> on(p[1], p[2], p[3], run)]]
  <1>1. \A s \in Statements(Body), x \in R, y \in R, run \in Runs : on(s, x, y, run) \in Runs
    BY PlainStmtRun
  <1>2. cons \in [Statements(Body) \X R \X R -> R]
    <2> HIDE DEF on
    <2> QED
      BY <1>1
  <1>3. \A s \in Statements(Body), x \in R, y \in R : cons[<<s, x, y>>] = [run \in Runs |-> on(s, x, y, run)]
    <2> HIDE DEF on
    <2> QED
      OBVIOUS
  <1>4. PICK f \in [Body -> R] : Walk(f, idle, cons)
    <2>1. idle \in R
      OBVIOUS
    <2> HIDE DEF R, cons, idle
    <2> QED
      BY <1>2, <2>1, WalkExists
  <1> HIDE DEF cons
  <1> DEFINE Eq(g) == g = [stmts \in Body |-> [run \in Runs |->
                             IF stmts = <<>> \/ run.flow # "normal" THEN run
                             ELSE g[Tail(stmts)][PlainStmt(Head(stmts), g[Head(stmts).body], run)]]]
  <1>5. Eq(f)
    <2> SUFFICES ASSUME NEW b \in Body
                 PROVE  f[b] = [run \in Runs |->
                                  IF b = <<>> \/ run.flow # "normal" THEN run
                                  ELSE f[Tail(b)][PlainStmt(Head(b), f[Head(b).body], run)]]
      OBVIOUS
    <2>1. CASE b = <<>>
      BY <2>1, <1>4 DEF Walk
    <2>2. CASE b # <<>>
      <3>1. f[b] = cons[<<Head(b), f[Head(b).body], f[Tail(b)]>>]
        BY <2>2, <1>4 DEF Walk
      <3> HIDE DEF R
      <3>2. f[Head(b).body] \in R /\ f[Tail(b)] \in R /\ Head(b) \in Statements(Body)
        BY <2>2, Parts
      <3> HIDE DEF on
      <3>3. f[b] = [run \in Runs |-> on(Head(b), f[Head(b).body], f[Tail(b)], run)]
        BY <3>1, <3>2, <1>3
      <3> QED
        BY <2>2, <3>3 DEF on
    <2> QED
      BY <2>1, <2>2
  <1>6. Eq(Plainly)
    <2>1. \E g : Eq(g)
      <3> HIDE DEF Eq
      <3> QED
        BY <1>5
    <2> QED
      BY <2>1, Zenon DEF Plainly
  <1>7. /\ \A b \in Body, run \in Runs : b = <<>> \/ run.flow # "normal" => Plainly[b][run] = run
        /\ \A b \in Body, run \in Runs : b # <<>> /\ run.flow = "normal" =>
             Plainly[b][run] = Plainly[Tail(b)][PlainStmt(Head(b), Plainly[Head(b).body], run)]
        /\ DOMAIN Plainly = Body
        /\ \A b \in Body : Plainly[b] = [run \in Runs |-> Plainly[b][run]]
    <2> DEFINE val(b, run) == IF b = <<>> \/ run.flow # "normal" THEN run
                              ELSE Plainly[Tail(b)][PlainStmt(Head(b), Plainly[Head(b).body], run)]
    <2>1. Plainly = [b \in Body |-> [run \in Runs |-> val(b, run)]]
      BY <1>6
    <2> HIDE DEF val
    <2>2. /\ \A b \in Body, run \in Runs : Plainly[b][run] = val(b, run)
          /\ \A b \in Body : Plainly[b] = [run \in Runs |-> Plainly[b][run]]
          /\ DOMAIN Plainly = Body
      BY <2>1
    <2>3. /\ \A b \in Body, run \in Runs : b = <<>> \/ run.flow # "normal" => val(b, run) = run
          /\ \A b \in Body, run \in Runs : b # <<>> /\ run.flow = "normal" =>
               val(b, run) = Plainly[Tail(b)][PlainStmt(Head(b), Plainly[Head(b).body], run)]
      BY DEF val
    <2> QED
      BY <2>2, <2>3
  <1> DEFINE T == {b \in Body : \A run \in Runs : Plainly[b][run] \in Runs}
  <1>8. Body \subseteq T
    <2>1. <<>> \in T
      BY <1>7, Parts
    <2>2. ASSUME NEW b \in Body, b # <<>>, Head(b).body \in T, Tail(b) \in T PROVE b \in T
      <3> SUFFICES ASSUME NEW run \in Runs, run.flow = "normal" PROVE Plainly[b][run] \in Runs
        BY <1>7
      <3>1. Plainly[Head(b).body] \in [Runs -> Runs]
        BY <2>2, <1>7
      <3>2. PlainStmt(Head(b), Plainly[Head(b).body], run) \in Runs
        BY <3>1, <2>2, Parts, PlainStmtRun
      <3> QED
        BY <3>2, <2>2, <1>7
    <2> HIDE DEF T
    <2> QED
      BY <2>1, <2>2, Induct DEF T
  <1>9. Plainly \in [Body -> [Runs -> Runs]]
    <2>1. \A b \in Body : Plainly[b] \in [Runs -> Runs]
      BY <1>7, <1>8
    <2> QED
      BY <2>1, <1>6
  <1> QED
    BY <1>7, <1>9

\* Code with statements of bodies.
Codes(bodies) == [out : bodies, next : Nat, ok : BOOLEAN]

\* Two bodies of a depth, one after the other, are a body of it.
LEMMA BodiesConcat ==
  ASSUME NEW d \in Nat, NEW a \in Bodies[d], NEW b \in Bodies[d]
  PROVE  a \o b \in Bodies[d]
  <1>1. CASE d = 0
    <2>1. a = <<>> /\ b = <<>>
      BY <1>1, BodiesAt
    <2>2. a \o b = <<>>
      BY <2>1
    <2> QED
      BY <2>2, EmptyBody
  <1>2. CASE d # 0
    <2>1. d - 1 \in Nat /\ d = (d - 1) + 1
      BY <1>2
    <2>2. Bodies[d] = Seq(Statements(Bodies[d - 1]))
      BY <2>1, BodiesAt
    <2> QED
      BY <2>2, ConcatProperties
  <1> QED
    BY <1>1, <1>2

\* The statements the lowering writes.
LEMMA WrittenStatements ==
  ASSUME NEW bodies, <<>> \in bodies
  PROVE  /\ \A n \in Nat : [Stmt("local", <<>>) EXCEPT !.id = n] \in Statements(bodies)
         /\ \A n \in Nat : [Stmt("assertFlag", <<>>) EXCEPT !.id = n] \in Statements(bodies)
         /\ \A n \in Nat, bind \in BOOLEAN :
              [Stmt("reset", <<>>) EXCEPT !.id = n, !.bind = bind] \in Statements(bodies)
         /\ Stmt("assertFalse", <<>>) \in Statements(bodies)
  BY DEF Stmt, Statements, Written, Emitted, Asserting

\* A statement keeps its place with another body, as a block or as the try of a scaffold.
LEMMA RewrittenStatements ==
  ASSUME NEW bodies, NEW olds, NEW s \in Statements(olds), NEW stmts \in bodies
  PROVE  /\ s.kind = "block" => [s EXCEPT !.body = stmts] \in Statements(bodies)
         /\ Asserting(s) => \A n \in Nat :
              [s EXCEPT !.kind = "try", !.id = n, !.body = stmts] \in Statements(bodies)
  <1>1. ASSUME s.kind = "block" PROVE [s EXCEPT !.body = stmts] \in Statements(bodies)
    BY <1>1 DEF Statements, Asserting
  <1>2. ASSUME Asserting(s), NEW n \in Nat
        PROVE  [s EXCEPT !.kind = "try", !.id = n, !.body = stmts] \in Statements(bodies)
    BY <1>2 DEF Statements, Asserting, Emitted
  <1> QED
    BY <1>1, <1>2

\* What one statement is lowered to is no deeper than the statement.
LEMMA LowerStmtCode ==
  ASSUME NEW d \in Nat, NEW s \in Statements(Bodies[d]), NEW inner \in Codes(Bodies[d]),
         NEW at \in Sight
  PROVE  LowerStmt(s, inner, at) \in Codes(Bodies[d + 1])
  <1> DEFINE S == Statements(Bodies[d])
             ident == inner.next + 1
  <1>1. /\ inner.out \in Bodies[d] /\ inner.next \in Nat /\ inner.ok \in BOOLEAN
        /\ ident \in Nat /\ at.next \in Nat /\ at.cm \in Nat
    BY DEF Codes, Sight
  <1>2. Bodies[d + 1] = Seq(S) /\ Bodies[d] \subseteq Bodies[d + 1] /\ <<>> \in Bodies[d]
    BY BodiesAt, BodiesGrow, EmptyBody
  <1> HIDE DEF ident
  <1>3. CASE s.kind = "subTest"
    BY <1>1, <1>2, <1>3 DEF LowerStmt, Codes, Asserting
  <1>4. CASE s.kind = "fail"
    <2>1. <<Stmt("assertFalse", <<>>)>> \in Bodies[d + 1]
      BY <1>2, WrittenStatements, ConsParts
    <2> QED
      BY <1>1, <1>4, <2>1 DEF LowerStmt, Codes, Code, Asserting
  <1>5. CASE Asserting(s)
    <2>1. /\ [Stmt("reset", <<>>) EXCEPT !.id = ident, !.bind = s.bind] \in S
          /\ [s EXCEPT !.kind = "try", !.id = ident, !.body = inner.out] \in S
          /\ [Stmt("assertFlag", <<>>) EXCEPT !.id = ident] \in S
      <3>1. s.bind \in BOOLEAN
        BY DEF Statements
      <3> QED
        BY <3>1, <1>1, <1>2, <1>5, WrittenStatements, RewrittenStatements
    <2>2. \A x \in S, y \in S, z \in S : <<x, y, z>> \in Seq(S)
      <3> HIDE DEF S
      <3> QED
        OBVIOUS
    <2>3. Scaffold(s, inner.out, ident) \in Bodies[d + 1]
      <3> HIDE DEF S
      <3> QED
        BY <2>1, <2>2, <1>2 DEF Scaffold
    <2>4. LowerStmt(s, inner, at)
            = Code(Scaffold(s, inner.out, ident), ident, inner.ok /\ (s.kind = "raisesCall" => s.body # <<>>))
      BY <1>5 DEF LowerStmt, Asserting, ident
    <2> QED
      BY <1>1, <2>3, <2>4 DEF Codes, Code
  <1>6. CASE s.kind = "block"
    <2>1. <<[s EXCEPT !.body = inner.out]>> \in Bodies[d + 1]
      BY <1>1, <1>2, <1>6, RewrittenStatements, ConsParts
    <2> QED
      BY <1>1, <1>6, <2>1 DEF LowerStmt, Codes, Code, Asserting
  <1>7. CASE s.kind = "read"
    <2>1. RewriteCm(s, at.cm) \in S
      BY <1>1, <1>2, WrittenStatements DEF RewriteCm
    <2>2. <<RewriteCm(s, at.cm)>> \in Bodies[d + 1]
      BY <2>1, <1>2, ConsParts
    <2> QED
      BY <1>1, <1>7, <2>2 DEF LowerStmt, Codes, Code, Asserting
  <1>8. CASE s.kind \notin {"subTest", "fail", "block", "read"} /\ ~Asserting(s)
    <2>1. <<s>> \in Bodies[d + 1]
      BY <1>2, ConsParts
    <2> QED
      BY <1>1, <1>8, <2>1 DEF LowerStmt, Codes, Code
  <1> QED
    BY <1>3, <1>4, <1>5, <1>6, <1>7, <1>8

\* Every body is of some depth, and two are of one.
LEMMA TreeDepth ==
  ASSUME NEW a \in Tree, NEW b \in Tree
  PROVE  \E d \in Nat : d >= Depth /\ a \in Bodies[d] /\ b \in Bodies[d]
  <1>1. PICK x \in Nat : a \in Bodies[x]
    BY DEF Tree
  <1>2. PICK y \in Nat : b \in Bodies[y]
    BY DEF Tree
  <1>3. PICK d \in Nat : x <= d /\ y <= d /\ Depth <= d
    <2>1. x + y + Depth \in Nat /\ x <= x + y + Depth /\ y <= x + y + Depth /\ Depth <= x + y + Depth
      BY DepthAssumption
    <2> QED
      BY <2>1
  <1>4. a \in Bodies[d] /\ b \in Bodies[d]
    BY <1>1, <1>2, <1>3, BodiesGrow
  <1> QED
    BY <1>3, <1>4, DepthAssumption

\* Code of some depth is code.
LEMMA TreeCode ==
  ASSUME NEW d \in Nat, NEW c \in Codes(Bodies[d])
  PROVE  c \in Codes(Tree)
  BY DEF Codes, Tree

\* What a statement is lowered to is code, of some depth.
LEMMA TreeLowerStmt ==
  ASSUME NEW s \in Statements(Body), NEW inner \in Codes(Tree), NEW at \in Sight
  PROVE  LowerStmt(s, inner, at) \in Codes(Tree)
  <1>1. inner.out \in Tree
    BY DEF Codes
  <1>2. PICK d \in Nat : d >= Depth /\ inner.out \in Bodies[d]
    BY <1>1, TreeDepth
  <1>3. Body \subseteq Bodies[d]
    BY <1>2, DepthAssumption, BodiesGrow DEF Body
  <1>4. s \in Statements(Bodies[d]) /\ inner \in Codes(Bodies[d])
    BY <1>2, <1>3, StatementsGrow DEF Codes
  <1>5. LowerStmt(s, inner, at) \in Codes(Bodies[d + 1])
    BY <1>4, LowerStmtCode
  <1> QED
    BY <1>5, TreeCode

\* Code after code is code.
LEMMA TreeThen ==
  ASSUME NEW a \in Codes(Tree), NEW b \in Codes(Tree)
  PROVE  Then(a, b) \in Codes(Tree)
  <1>1. PICK d \in Nat : a.out \in Bodies[d] /\ b.out \in Bodies[d]
    BY TreeDepth DEF Codes
  <1>2. a.out \o b.out \in Tree
    BY <1>1, BodiesConcat DEF Tree
  <1> QED
    BY <1>2 DEF Then, Code, Codes

\* The code of the first statement of a body, and what the rest is lowered in sight of.
First(s, inner, at) == LET first == LowerStmt(s, inner, at)
                       IN  [first EXCEPT !.ok = @ /\ ~(s.bind /\ at.cm # 0)]
RestAt(s, first, at) == [next |-> first.next, cm |-> IF s.bind THEN first.next ELSE at.cm]

\* The code of a head is code, and what the rest is lowered in sight of can be in sight.
LEMMA FirstRest ==
  ASSUME NEW s \in Statements(Body), NEW inner \in Codes(Tree), NEW at \in Sight
  PROVE  /\ First(s, inner, at) \in Codes(Tree)
         /\ RestAt(s, First(s, inner, at), at) \in Sight
         /\ First(s, inner, at).out = LowerStmt(s, inner, at).out
         /\ First(s, inner, at).next = LowerStmt(s, inner, at).next
         /\ First(s, inner, at).ok <=> LowerStmt(s, inner, at).ok /\ ~(s.bind /\ at.cm # 0)
  <1> DEFINE c == LowerStmt(s, inner, at)
  <1>1. c \in Codes(Tree)
    BY TreeLowerStmt
  <1> HIDE DEF c
  <1>2. [c EXCEPT !.ok = @ /\ ~(s.bind /\ at.cm # 0)] \in Codes(Tree)
    BY <1>1 DEF Codes
  <1>3. c.next \in Nat /\ at.cm \in Nat
    BY <1>1 DEF Codes, Sight
  <1> QED
    BY <1>1, <1>2, <1>3 DEF First, RestAt, c, Codes, Sight

\* A body is lowered statement by statement.
LEMMA LowerBlockDef ==
  /\ LowerBlock \in [Body -> [Sight -> Codes(Tree)]]
  /\ \A at \in Sight : LowerBlock[<<>>][at] = Code(<<>>, at.next, TRUE)
  /\ \A b \in Body, at \in Sight : b # <<>> =>
       LET first == First(Head(b), LowerBlock[Head(b).body][at], at)
       IN  LowerBlock[b][at] = Then(first, LowerBlock[Tail(b)][RestAt(Head(b), first, at)])
  <1> DEFINE R == [Sight -> Codes(Tree)]
             none(at) == Code(<<>>, at.next, TRUE)
             on(s, x, y, at) == LET first == First(s, x[at], at) IN Then(first, y[RestAt(s, first, at)])
             nil == [at \in Sight |-> none(at)]
             cons == [p \in Statements(Body) \X R \X R |-> [at \in Sight |-> on(p[1], p[2], p[3], at)]]
  <1>1. \A s \in Statements(Body), x \in R, y \in R, at \in Sight : on(s, x, y, at) \in Codes(Tree)
    BY FirstRest, TreeThen
  <1>2. cons \in [Statements(Body) \X R \X R -> R]
    <2> HIDE DEF on
    <2> QED
      BY <1>1
  <1>3. \A s \in Statements(Body), x \in R, y \in R : cons[<<s, x, y>>] = [at \in Sight |-> on(s, x, y, at)]
    <2> HIDE DEF on
    <2> QED
      OBVIOUS
  <1>4. \A at \in Sight : none(at) \in Codes(Tree)
    BY EmptyBody DEF Sight, Tree, Codes, Code
  <1>5. nil \in R
    <2> HIDE DEF none
    <2> QED
      BY <1>4
  <1>6. PICK f \in [Body -> R] : Walk(f, nil, cons)
    <2> HIDE DEF R, cons, nil
    <2> QED
      BY <1>2, <1>5, WalkExists
  <1> HIDE DEF cons
  <1> DEFINE val(g, stmts, at) ==
               IF stmts = <<>> THEN Code(<<>>, at.next, TRUE)
               ELSE LET s     == Head(stmts)
                        first == LowerStmt(s, g[s.body][[at EXCEPT !.cm = InNested(@)]], at)
                        again == s.bind /\ at.cm # 0
                        rest  == [next |-> first.next, cm |-> IF s.bind THEN first.next ELSE at.cm]
                    IN  Then([first EXCEPT !.ok = @ /\ ~again], g[Tail(stmts)][rest])
             Eq(g) == g = [stmts \in Body |-> [at \in Sight |-> val(g, stmts, at)]]
  <1>7. \A at \in Sight : [at EXCEPT !.cm = InNested(@)] = at
    BY DEF Sight, InNested
  <1>8. \A g : \A at \in Sight : val(g, <<>>, at) = none(at)
    OBVIOUS
  <1>9. ASSUME NEW g, NEW b \in Body, b # <<>>, NEW at \in Sight,
               g[Head(b).body][at] \in Codes(Tree)
        PROVE  val(g, b, at) = on(Head(b), g[Head(b).body], g[Tail(b)], at)
    <2> DEFINE s == Head(b)
               first == LowerStmt(s, g[s.body][at], at)
    <2>1. s \in Statements(Body)
      BY <1>9, Parts
    <2>2. val(g, b, at)
            = Then([first EXCEPT !.ok = @ /\ ~(s.bind /\ at.cm # 0)],
                   g[Tail(b)][[next |-> first.next, cm |-> IF s.bind THEN first.next ELSE at.cm]])
      BY <1>7, <1>9
    <2>3. [first EXCEPT !.ok = @ /\ ~(s.bind /\ at.cm # 0)] = First(s, g[s.body][at], at)
      BY DEF First
    <2>4. First(s, g[s.body][at], at).next = first.next
      BY <2>1, <1>9, FirstRest
    <2> HIDE DEF first, s
    <2> QED
      BY <2>2, <2>3, <2>4 DEF RestAt, s
  <1> HIDE DEF val
  <1>10. Eq(f)
    <2> SUFFICES ASSUME NEW b \in Body PROVE f[b] = [at \in Sight |-> val(f, b, at)]
      OBVIOUS
    <2>1. CASE b = <<>>
      <3>1. f[b] = nil
        BY <2>1, <1>6 DEF Walk
      <3>2. \A at \in Sight : val(f, b, at) = none(at)
        BY <1>8, <2>1
      <3> HIDE DEF none
      <3> QED
        BY <3>1, <3>2
    <2>2. CASE b # <<>>
      <3>1. f[b] = cons[<<Head(b), f[Head(b).body], f[Tail(b)]>>]
        BY <2>2, <1>6 DEF Walk
      <3>2. \A at \in Sight : f[Head(b).body][at] \in Codes(Tree)
        BY <2>2, Parts
      <3>3. \A at \in Sight : val(f, b, at) = on(Head(b), f[Head(b).body], f[Tail(b)], at)
        <4> HIDE DEF on
        <4> QED
          BY <2>2, <3>2, <1>9
      <3> HIDE DEF R, on
      <3>4. f[Head(b).body] \in R /\ f[Tail(b)] \in R /\ Head(b) \in Statements(Body)
        BY <2>2, Parts
      <3>5. f[b] = [at \in Sight |-> on(Head(b), f[Head(b).body], f[Tail(b)], at)]
        BY <3>1, <3>4, <1>3
      <3> QED
        BY <3>3, <3>5
    <2> QED
      BY <2>1, <2>2
  <1>11. Eq(LowerBlock)
    <2>1. \E g : Eq(g)
      <3> HIDE DEF Eq
      <3> QED
        BY <1>10
    <2> QED
      BY <2>1, Zenon DEF LowerBlock, val
  <1>12. /\ \A b \in Body, at \in Sight : LowerBlock[b][at] = val(LowerBlock, b, at)
         /\ DOMAIN LowerBlock = Body
         /\ \A b \in Body : LowerBlock[b] = [at \in Sight |-> LowerBlock[b][at]]
    BY <1>11
  <1> HIDE DEF Eq
  <1>13. \A at \in Sight : LowerBlock[<<>>][at] = none(at)
    BY <1>8, <1>12, Parts
  <1> DEFINE T == {b \in Body : \A at \in Sight : LowerBlock[b][at] \in Codes(Tree)}
  <1>14. Body \subseteq T
    <2>1. <<>> \in T
      <3> HIDE DEF none
      <3> QED
        BY <1>4, <1>13, Parts
    <2>2. ASSUME NEW b \in Body, b # <<>>, Head(b).body \in T, Tail(b) \in T PROVE b \in T
      <3> SUFFICES ASSUME NEW at \in Sight PROVE LowerBlock[b][at] \in Codes(Tree)
        OBVIOUS
      <3>1. LowerBlock[Head(b).body] \in R /\ LowerBlock[Tail(b)] \in R
        BY <2>2, <1>12
      <3>2. Head(b) \in Statements(Body)
        BY <2>2, Parts
      <3>3. LowerBlock[b][at] = on(Head(b), LowerBlock[Head(b).body], LowerBlock[Tail(b)], at)
        <4> HIDE DEF on
        <4> QED
          BY <2>2, <1>9, <1>12
      <3> HIDE DEF on, R
      <3> QED
        BY <3>1, <3>2, <3>3, <1>1
    <2> HIDE DEF T
    <2> QED
      BY <2>1, <2>2, Induct DEF T
  <1>15. LowerBlock \in [Body -> R]
    <2>1. \A b \in Body : LowerBlock[b] \in R
      BY <1>12, <1>14
    <2> QED
      BY <2>1, <1>12, <1>11 DEF Eq
  <1>16. ASSUME NEW b \in Body, NEW at \in Sight, b # <<>>
         PROVE  LowerBlock[b][at] = on(Head(b), LowerBlock[Head(b).body], LowerBlock[Tail(b)], at)
    <2>1. Head(b).body \in Body
      BY <1>16, Parts
    <2>2. LowerBlock[Head(b).body][at] \in Codes(Tree)
      BY <2>1, <1>14
    <2> HIDE DEF on
    <2> QED
      BY <2>2, <1>16, <1>9, <1>12
  <1> QED
    BY <1>13, <1>15, <1>16

\* Lowered code is no deeper than the body it came from.
LEMMA LowerFitsAt ==
  ASSUME NEW depth \in Nat, NEW b \in Body, b \in Bodies[depth], NEW at \in Sight
  PROVE  LowerBlock[b][at] \in Codes(Bodies[depth])
  <1> DEFINE T == {c \in Body : \A d \in Nat : c \in Bodies[d] =>
                                  \A a \in Sight : LowerBlock[c][a] \in Codes(Bodies[d])}
  <1>1. <<>> \in T
    <2>1. \A d \in Nat : \A a \in Sight : Code(<<>>, a.next, TRUE) \in Codes(Bodies[d])
      BY EmptyBody DEF Code, Codes, Sight
    <2>2. \A a \in Sight : LowerBlock[<<>>][a] = Code(<<>>, a.next, TRUE)
      BY LowerBlockDef
    <2> QED
      BY <2>1, <2>2, Parts
  <1>2. ASSUME NEW c \in Body, c # <<>>, Head(c).body \in T, Tail(c) \in T PROVE c \in T
    <2> SUFFICES ASSUME NEW d \in Nat, c \in Bodies[d], NEW a \in Sight
                 PROVE  LowerBlock[c][a] \in Codes(Bodies[d])
      OBVIOUS
    <2> DEFINE s     == Head(c)
               inner == LowerBlock[s.body][a]
               rest  == LowerBlock[Tail(c)][RestAt(s, First(s, inner, a), a)]
    <2>1. /\ d - 1 \in Nat /\ d = (d - 1) + 1
          /\ s \in Statements(Bodies[d - 1]) /\ s.body \in Bodies[d - 1] /\ Tail(c) \in Bodies[d]
          /\ s \in Statements(Body)
      BY <1>2, BodyParts, Parts
    <2>2. inner \in Codes(Bodies[d - 1]) /\ inner \in Codes(Tree)
      BY <2>1, <1>2, TreeCode
    <2>3. LowerBlock[c][a] = Then(First(s, inner, a), rest)
      BY <1>2, LowerBlockDef
    <2> HIDE DEF s, inner
    <2>4. LowerStmt(s, inner, a) \in Codes(Bodies[d])
      BY <2>1, <2>2, LowerStmtCode
    <2>5. First(s, inner, a).out \in Bodies[d] /\ RestAt(s, First(s, inner, a), a) \in Sight
          /\ First(s, inner, a).ok \in BOOLEAN
      <3>1. First(s, inner, a) \in Codes(Tree) /\ RestAt(s, First(s, inner, a), a) \in Sight
            /\ First(s, inner, a).out = LowerStmt(s, inner, a).out
        BY <2>1, <2>2, FirstRest
      <3> QED
        BY <3>1, <2>4 DEF Codes
    <2>6. rest \in Codes(Bodies[d])
      BY <2>1, <2>5, <1>2
    <2> HIDE DEF rest
    <2>7. First(s, inner, a).out \o rest.out \in Bodies[d]
      BY <2>5, <2>6, BodiesConcat DEF Codes
    <2> QED
      BY <2>3, <2>5, <2>6, <2>7 DEF Then, Code, Codes
  <1>3. Body \subseteq T
    <2> HIDE DEF T
    <2> QED
      BY <1>1, <1>2, Induct DEF T
  <1> QED
    BY <1>3

\* It is a body itself, and so is the code of its first statement.
LEMMA LowerFits ==
  ASSUME NEW b \in Body, NEW at \in Sight
  PROVE  /\ LowerBlock[b][at] \in Codes(Body)
         /\ b # <<>> => First(Head(b), LowerBlock[Head(b).body][at], at).out \in Body
  <1>1. LowerBlock[b][at] \in Codes(Body)
    BY LowerFitsAt, DepthAssumption DEF Body
  <1>2. ASSUME b # <<>> PROVE First(Head(b), LowerBlock[Head(b).body][at], at).out \in Body
    <2> DEFINE s     == Head(b)
               inner == LowerBlock[s.body][at]
    <2>1. /\ Depth - 1 \in Nat /\ Depth = (Depth - 1) + 1
          /\ s \in Statements(Bodies[Depth - 1]) /\ s \in Statements(Body)
          /\ s.body \in Bodies[Depth - 1] /\ s.body \in Body
      <3>1. b \in Bodies[Depth] /\ Depth \in Nat
        BY DepthAssumption DEF Body
      <3>2. Depth - 1 \in Nat /\ s \in Statements(Bodies[Depth - 1]) /\ s.body \in Bodies[Depth - 1]
        BY <3>1, <1>2, BodyParts
      <3>3. s \in Statements(Body) /\ s.body \in Body
        BY <1>2, Parts
      <3> QED
        BY <3>1, <3>2, <3>3
    <2>2. inner \in Codes(Bodies[Depth - 1]) /\ inner \in Codes(Tree)
      BY <2>1, LowerFitsAt, TreeCode
    <2> HIDE DEF s, inner
    <2>3. LowerStmt(s, inner, at) \in Codes(Body)
      BY <2>1, <2>2, LowerStmtCode DEF Body
    <2>4. First(s, inner, at).out = LowerStmt(s, inner, at).out
      BY <2>1, <2>2, FirstRest
    <2> QED
      BY <2>3, <2>4 DEF Codes, s, inner
  <1> QED
    BY <1>1, <1>2

\* Where the reads of a body are in place, those of its parts are.
LEMMA ReadsInBlockDef ==
  ASSUME NEW b \in Body, b # <<>>, NEW scope \in Scopes, ReadsInBlock[b][scope]
  PROVE  LET s     == Head(b)
             inner == [scope EXCEPT !.strict = @ \/ (Asserting(s) /\ s.exc = "Exception")]
             after == [scope EXCEPT !.bound = @ \/ s.bind]
         IN  /\ s.kind = "read" => scope.bound \/ ~scope.strict
             /\ inner \in Scopes /\ ReadsInBlock[s.body][inner]
             /\ after \in Scopes /\ ReadsInBlock[Tail(b)][after]
  <1> DEFINE R == [Scopes -> BOOLEAN]
             in(s, sc)  == [sc EXCEPT !.strict = @ \/ (Asserting(s) /\ s.exc = "Exception")]
             aft(s, sc) == [sc EXCEPT !.bound = @ \/ s.bind]
             on(s, x, y, sc) == (s.kind = "read" => sc.bound \/ ~sc.strict) /\ x[in(s, sc)] /\ y[aft(s, sc)]
             nil == [sc \in Scopes |-> TRUE]
             cons == [p \in Statements(Body) \X R \X R |-> [sc \in Scopes |-> on(p[1], p[2], p[3], sc)]]
  <1>1. \A s \in Statements(Body), sc \in Scopes : in(s, sc) \in Scopes /\ aft(s, sc) \in Scopes
    BY DEF Scopes, Statements, Asserting
  <1>2. \A s, x, y, sc : on(s, x, y, sc) \in BOOLEAN
    OBVIOUS
  <1>3. cons \in [Statements(Body) \X R \X R -> R]
    <2> HIDE DEF on
    <2> QED
      BY <1>2
  <1>4. \A s \in Statements(Body), x \in R, y \in R : cons[<<s, x, y>>] = [sc \in Scopes |-> on(s, x, y, sc)]
    <2> HIDE DEF on
    <2> QED
      OBVIOUS
  <1>5. PICK f \in [Body -> R] : Walk(f, nil, cons)
    <2>1. nil \in R
      OBVIOUS
    <2> HIDE DEF R, cons, nil
    <2> QED
      BY <1>3, <2>1, WalkExists
  <1> HIDE DEF cons
  <1> DEFINE val(g, stmts, scop) ==
               \/ stmts = <<>>
               \/ LET s == Head(stmts)
                  IN  /\ s.kind = "read" => scop.bound \/ ~scop.strict
                      /\ g[s.body][[scop EXCEPT !.strict = @ \/ (Asserting(s) /\ s.exc = "Exception")]]
                      /\ g[Tail(stmts)][[scop EXCEPT !.bound = @ \/ s.bind]]
             Eq(g) == g = [stmts \in Body |-> [scop \in Scopes |-> val(g, stmts, scop)]]
  <1>6. /\ \A g : \A sc \in Scopes : val(g, <<>>, sc) = TRUE
        /\ \A g : \A c \in Body, sc \in Scopes :
             c # <<>> => val(g, c, sc) = on(Head(c), g[Head(c).body], g[Tail(c)], sc)
    OBVIOUS
  <1> HIDE DEF val
  <1>7. Eq(f)
    <2> SUFFICES ASSUME NEW c \in Body PROVE f[c] = [sc \in Scopes |-> val(f, c, sc)]
      OBVIOUS
    <2>1. CASE c = <<>>
      <3>1. f[c] = nil
        BY <2>1, <1>5 DEF Walk
      <3> QED
        BY <3>1, <2>1, <1>6
    <2>2. CASE c # <<>>
      <3>1. f[c] = cons[<<Head(c), f[Head(c).body], f[Tail(c)]>>]
        BY <2>2, <1>5 DEF Walk
      <3> HIDE DEF R, on
      <3>2. f[Head(c).body] \in R /\ f[Tail(c)] \in R /\ Head(c) \in Statements(Body)
        BY <2>2, Parts
      <3>3. f[c] = [sc \in Scopes |-> on(Head(c), f[Head(c).body], f[Tail(c)], sc)]
        BY <3>1, <3>2, <1>4
      <3> QED
        BY <2>2, <3>3, <1>6
    <2> QED
      BY <2>1, <2>2
  <1>8. Eq(ReadsInBlock)
    <2>1. \E g : Eq(g)
      <3> HIDE DEF Eq
      <3> QED
        BY <1>7
    <2> QED
      BY <2>1, Zenon DEF ReadsInBlock, val
  <1>9. ReadsInBlock[b][scope] = val(ReadsInBlock, b, scope)
    <2> DEFINE at(stmts, scop) == val(ReadsInBlock, stmts, scop)
    <2>1. ReadsInBlock = [stmts \in Body |-> [scop \in Scopes |-> at(stmts, scop)]]
      BY <1>8
    <2> HIDE DEF at
    <2>2. ReadsInBlock[b][scope] = at(b, scope)
      BY <2>1
    <2> QED
      BY <2>2 DEF at
  <1>10. on(Head(b), ReadsInBlock[Head(b).body], ReadsInBlock[Tail(b)], scope)
    BY <1>6, <1>9
  <1>11. Head(b) \in Statements(Body)
    BY Parts
  <1> QED
    BY <1>1, <1>10, <1>11

\* Head and tail of two sequences, one after the other.
LEMMA ConcatParts ==
  ASSUME NEW S, NEW a \in Seq(S), NEW b \in Seq(S), a # <<>>
  PROVE  a \o b # <<>> /\ Head(a \o b) = Head(a) /\ Tail(a \o b) = Tail(a) \o b
  <1>1. a \o b # <<>>
    BY ConcatEqualIffEmpty
  <1>2. Head(a \o b) = Head(a)
    OBVIOUS
  <1>3. Tail(a \o b) = Tail(a) \o b
    <2>1. /\ Tail(a \o b) \in Seq(S) /\ Tail(a) \o b \in Seq(S)
          /\ Len(Tail(a \o b)) = Len(Tail(a) \o b)
          /\ \A i \in 1 .. Len(Tail(a \o b)) : Tail(a \o b)[i] = (Tail(a) \o b)[i]
      BY <1>1, ConcatProperties, HeadTailProperties, EmptySeq
    <2> QED
      BY <2>1, SeqEqual
  <1> QED
    BY <1>1, <1>2, <1>3

\* A body after a body is a body, with the head of the first.
LEMMA BodyConcat ==
  ASSUME NEW a \in Body, NEW b \in Body
  PROVE  /\ a \o b \in Body /\ <<>> \o b = b
         /\ a # <<>> => a \o b # <<>> /\ Head(a \o b) = Head(a) /\ Tail(a \o b) = Tail(a) \o b
  <1>1. a \o b \in Body
    BY BodiesConcat, DepthAssumption DEF Body
  <1>2. a \in Seq(Statements(Body)) /\ b \in Seq(Statements(Body))
    <2>1. Depth + 1 \in Nat /\ Body \subseteq Bodies[Depth + 1] /\ Bodies[Depth + 1] = Seq(Statements(Body))
      BY BodiesAt, BodiesGrow, DepthAssumption DEF Body
    <2> QED
      BY <2>1
  <1>3. <<>> \o b = b
    BY <1>2, ConcatEmptySeq
  <1> QED
    BY <1>1, <1>2, <1>3, ConcatParts

\* The statements of two bodies, one after the other.
LEMMA InsideConcat ==
  ASSUME NEW a \in Body, NEW b \in Body
  PROVE  Inside[a \o b] = Inside[a] \cup Inside[b]
  <1> DEFINE T == {c \in Body : Inside[c \o b] = Inside[c] \cup Inside[b]}
  <1>1. <<>> \in T
    BY InsideDef, BodyConcat, Parts
  <1>2. ASSUME NEW c \in Body, c # <<>>, Head(c).body \in T, Tail(c) \in T PROVE c \in T
    <2>1. /\ c \o b \in Body /\ c \o b # <<>>
          /\ Head(c \o b) = Head(c) /\ Tail(c \o b) = Tail(c) \o b
      BY <1>2, BodyConcat
    <2>2. Inside[c \o b] = {Head(c)} \cup Inside[Head(c).body] \cup Inside[Tail(c) \o b]
      BY <2>1, InsideDef
    <2>3. Inside[c] = {Head(c)} \cup Inside[Head(c).body] \cup Inside[Tail(c)]
      BY <1>2, InsideDef
    <2> QED
      BY <2>2, <2>3, <1>2
  <1>3. Body \subseteq T
    <2> HIDE DEF T
    <2> QED
      BY <1>1, <1>2, Induct DEF T
  <1> QED
    BY <1>3

\* Lowered code runs in order.
LEMMA PlainlyConcat ==
  ASSUME NEW a \in Body, NEW b \in Body, NEW run \in Runs
  PROVE  Plainly[a \o b][run] = Plainly[b][Plainly[a][run]]
  <1> DEFINE T == {c \in Body : \A r \in Runs : Plainly[c \o b][r] = Plainly[b][Plainly[c][r]]}
  <1>1. <<>> \in T
    BY PlainlyDef, BodyConcat, Parts
  <1>2. ASSUME NEW c \in Body, c # <<>>, Head(c).body \in T, Tail(c) \in T PROVE c \in T
    <2> SUFFICES ASSUME NEW r \in Runs PROVE Plainly[c \o b][r] = Plainly[b][Plainly[c][r]]
      BY <1>2
    <2>1. /\ c \o b \in Body /\ c \o b # <<>>
          /\ Head(c \o b) = Head(c) /\ Tail(c \o b) = Tail(c) \o b
      BY <1>2, BodyConcat
    <2>2. CASE r.flow # "normal"
      BY <2>1, <2>2, PlainlyDef
    <2>3. CASE r.flow = "normal"
      <3> DEFINE next == PlainStmt(Head(c), Plainly[Head(c).body], r)
      <3>1. next \in Runs
        BY <1>2, Parts, PlainlyDef, PlainStmtRun
      <3>2. Plainly[c \o b][r] = Plainly[Tail(c) \o b][next]
        <4> DEFINE d == c \o b
        <4>1. Plainly[d][r] = Plainly[Tail(d)][PlainStmt(Head(d), Plainly[Head(d).body], r)]
          <5> HIDE DEF d
          <5>1. d \in Body /\ d # <<>>
            BY <2>1 DEF d
          <5> QED
            BY <5>1, <2>3, PlainlyDef
        <4> QED
          BY <4>1, <2>1
      <3>3. Plainly[c][r] = Plainly[Tail(c)][next]
        BY <2>3, <1>2, PlainlyDef
      <3> HIDE DEF next
      <3> QED
        BY <3>1, <3>2, <3>3, <1>2
    <2> QED
      BY <2>2, <2>3
  <1>3. Body \subseteq T
    <2> HIDE DEF T
    <2> QED
      BY <1>1, <1>2, Induct DEF T
  <1> QED
    BY <1>3

\* A body of one statement.
LEMMA Single ==
  ASSUME NEW s, <<s>> \in Body
  PROVE  /\ s \in Statements(Body) /\ s.body \in Body
         /\ Inside[<<s>>] = {s} \cup Inside[s.body]
         /\ \A run \in Runs : run.flow = "normal" =>
              Plainly[<<s>>][run] = PlainStmt(s, Plainly[s.body], run)
  <1>1. <<s>> # <<>> /\ Head(<<s>>) = s /\ Tail(<<s>>) = <<>>
    OBVIOUS
  <1>2. s \in Statements(Body) /\ s.body \in Body
    BY <1>1, Parts
  <1>3. Inside[<<s>>] = {s} \cup Inside[s.body]
    BY <1>1, InsideDef
  <1>4. ASSUME NEW run \in Runs, run.flow = "normal"
        PROVE  Plainly[<<s>>][run] = PlainStmt(s, Plainly[s.body], run)
    <2>1. PlainStmt(s, Plainly[s.body], run) \in Runs
      BY <1>2, PlainlyDef, PlainStmtRun
    <2>2. Plainly[<<s>>][run] = Plainly[<<>>][PlainStmt(s, Plainly[s.body], run)]
      BY <1>1, <1>4, PlainlyDef
    <2> QED
      BY <2>1, <2>2, PlainlyDef, Parts
  <1> QED
    BY <1>2, <1>3, <1>4

\* A subTest that failed stays failed.
LEMMA FailedStays ==
  ASSUME NEW b \in Body, NEW run \in Runs, run.failed
  PROVE  Unittest[b][run].failed
  <1> DEFINE T == {c \in Body : \A r \in Runs : r.failed => Unittest[c][r].failed}
  <1>1. <<>> \in T
    BY UnittestDef, Parts
  <1>2. ASSUME NEW c \in Body, c # <<>>, Head(c).body \in T, Tail(c) \in T PROVE c \in T
    <2> SUFFICES ASSUME NEW r \in Runs, r.failed PROVE Unittest[c][r].failed
      BY <1>2
    <2>1. CASE r.flow # "normal"
      BY <2>1, UnittestDef
    <2>2. CASE r.flow = "normal"
      <3> DEFINE s == Head(c)
                 within == Unittest[s.body]
                 next == UnittestStmt(s, within, r)
      <3>1. s \in Statements(Body) /\ within \in [Runs -> Runs] /\ next \in Runs
        BY <1>2, Parts, UnittestDef, UnittestStmtRun
      <3>2. \A x \in Runs : x.failed => within[x].failed
        BY <1>2
      <3>3. Unittest[c][r] = Unittest[Tail(c)][next]
        BY <1>2, <2>2, UnittestDef
      <3> HIDE DEF within, s
      <3>4. next.failed
        <4>1. \A flow : Ends(r, flow).failed
          BY DEF Ends, Runs
        <4>2. \A what : Logs(r, what).failed
          BY DEF Logs, Runs
        <4>3. \A x \in Runs : \A n : x.failed => Reported(x).failed /\ Expected(x, s, n).failed
          BY DEF Reported, Expected, Ends, Runs
        <4>4. Entered(r, s) \in Runs /\ Entered(r, s).failed
          BY EnteredRun
        <4>5. /\ within[r] \in Runs /\ within[r].failed
              /\ \A x \in Runs : within[x] \in Runs
          BY <3>1, <3>2
        <4> QED
          BY <4>1, <4>2, <4>3, <4>4, <4>5, <3>2 DEF UnittestStmt, Does
      <3> HIDE DEF next
      <3> QED
        BY <3>1, <3>3, <3>4, <1>2
    <2> QED
      BY <2>1, <2>2
  <1>3. Body \subseteq T
    <2> HIDE DEF T
    <2> QED
      BY <1>1, <1>2, Induct DEF T
  <1> QED
    BY <1>3

\* A body without a binding, at any depth.
Unbinding(b) == \A t \in Inside[b] : ~t.bind

\* It leaves cm the manager it names.
LEMMA BindsStay ==
  ASSUME NEW b \in Body, Unbinding(b), NEW run \in Runs
  PROVE  Unittest[b][run].binds = run.binds
  <1> DEFINE T == {c \in Body : Unbinding(c) => \A r \in Runs : Unittest[c][r].binds = r.binds}
  <1>1. <<>> \in T
    BY UnittestDef, Parts
  <1>2. ASSUME NEW c \in Body, c # <<>>, Head(c).body \in T, Tail(c) \in T PROVE c \in T
    <2> SUFFICES ASSUME Unbinding(c), NEW r \in Runs PROVE Unittest[c][r].binds = r.binds
      BY <1>2
    <2>1. CASE r.flow # "normal"
      BY <2>1, UnittestDef
    <2>2. CASE r.flow = "normal"
      <3> DEFINE s == Head(c)
                 within == Unittest[s.body]
                 next == UnittestStmt(s, within, r)
      <3>1. s \in Statements(Body) /\ within \in [Runs -> Runs] /\ next \in Runs
        BY <1>2, Parts, UnittestDef, UnittestStmtRun
      <3>2. ~s.bind /\ Unbinding(s.body) /\ Unbinding(Tail(c))
        BY <1>2, InsideDef DEF Unbinding
      <3>3. \A x \in Runs : within[x].binds = x.binds
        BY <1>2, <3>2
      <3>4. Unittest[c][r] = Unittest[Tail(c)][next]
        BY <1>2, <2>2, UnittestDef
      <3> HIDE DEF within, s
      <3>5. next.binds = r.binds
        <4>1. \A flow : Ends(r, flow).binds = r.binds
          BY DEF Ends, Runs
        <4>2. \A what : Logs(r, what).binds = r.binds
          BY DEF Logs, Runs
        <4>3. \A x \in Runs : \A n : Reported(x).binds = x.binds /\ Expected(x, s, n).binds = x.binds
          BY DEF Reported, Expected, Ends, Runs
        <4>4. Entered(r, s) = r
          BY <3>2 DEF Entered
        <4>5. within[r] \in Runs /\ within[r].binds = r.binds
          BY <3>1, <3>3
        <4> QED
          BY <4>1, <4>2, <4>3, <4>4, <4>5 DEF UnittestStmt, Does
      <3> HIDE DEF next
      <3> QED
        BY <3>1, <3>2, <3>4, <3>5, <1>2
    <2> QED
      BY <2>1, <2>2
  <1>3. Body \subseteq T
    <2> HIDE DEF T
    <2> QED
      BY <1>1, <1>2, Induct DEF T
  <1> QED
    BY <1>3

\* Numbers are given in order.
LEMMA NextGrows ==
  ASSUME NEW b \in Body, NEW at \in Sight
  PROVE  at.next <= LowerBlock[b][at].next
  <1> DEFINE T == {c \in Body : \A a \in Sight : a.next <= LowerBlock[c][a].next}
  <1>1. <<>> \in T
    <2>1. \A a \in Sight : a.next \in Nat /\ LowerBlock[<<>>][a].next = a.next
      <3>1. \A a \in Sight : LowerBlock[<<>>][a] = Code(<<>>, a.next, TRUE)
        BY LowerBlockDef
      <3>2. \A a \in Sight : a.next \in Nat /\ Code(<<>>, a.next, TRUE).next = a.next
        BY DEF Code, Sight
      <3> QED
        BY <3>1, <3>2
    <2> QED
      BY <2>1, Parts
  <1>2. ASSUME NEW c \in Body, c # <<>>, Head(c).body \in T, Tail(c) \in T PROVE c \in T
    <2> SUFFICES ASSUME NEW a \in Sight PROVE a.next <= LowerBlock[c][a].next
      BY <1>2
    <2> DEFINE s     == Head(c)
               inner == LowerBlock[s.body][a]
               to    == RestAt(s, First(s, inner, a), a)
    <2>1. s \in Statements(Body) /\ inner \in Codes(Tree) /\ a.next <= inner.next
      BY <1>2, Parts, LowerBlockDef
    <2>2. LowerBlock[c][a] = Then(First(s, inner, a), LowerBlock[Tail(c)][to])
      BY <1>2, LowerBlockDef
    <2> HIDE DEF s, inner
    <2>3. a.next <= LowerStmt(s, inner, a).next
      <3>1. a.next \in Nat /\ inner.next \in Nat
        BY <2>1 DEF Sight, Codes
      <3> QED
        BY <2>1, <3>1 DEF LowerStmt, Code, Asserting
    <2>4. to \in Sight /\ to.next = LowerStmt(s, inner, a).next
      BY <2>1, FirstRest DEF RestAt
    <2> HIDE DEF to
    <2>5. to.next <= LowerBlock[Tail(c)][to].next /\ LowerBlock[Tail(c)][to].next \in Nat
          /\ a.next \in Nat /\ to.next \in Nat
      BY <2>4, <1>2, Parts, LowerBlockDef DEF Codes, Sight
    <2>6. LowerBlock[c][a].next = LowerBlock[Tail(c)][to].next
      BY <2>2 DEF Then, Code
    <2> QED
      BY <2>3, <2>4, <2>5, <2>6
  <1>3. Body \subseteq T
    <2> HIDE DEF T
    <2> QED
      BY <1>1, <1>2, Induct DEF T
  <1> QED
    BY <1>3

\* What the body of a scaffold, run from a cleared flag, and its handler make of a run.
Tried(q, s, stmts, n) ==
  Handled(Plainly[stmts][[q EXCEPT !.raised = {p \in @ : p[1] # n}]], [s EXCEPT !.id = n])
\* A scaffold holds what its body holds, and runs as Tried and the assert of the flag say.
LEMMA ScaffoldRuns ==
  ASSUME NEW s \in Statements(Body), Asserting(s), NEW stmts \in Body, NEW n \in Nat,
         Scaffold(s, stmts, n) \in Body
  PROVE  /\ Inside[stmts] \subseteq Inside[Scaffold(s, stmts, n)]
         /\ \A t \in Inside[Scaffold(s, stmts, n)] :
              t \in Inside[stmts] \/ (t.kind \in {"reset", "try", "assertFlag"} /\ t.of \in {s.of, "none"})
         /\ \A q \in Runs : q.flow = "normal" =>
              /\ Tried(q, s, stmts, n) \in Runs
              /\ Plainly[Scaffold(s, stmts, n)][q] =
                   IF Tried(q, s, stmts, n).flow # "normal" \/ Ran(Tried(q, s, stmts, n), n)
                   THEN Tried(q, s, stmts, n) ELSE Ends(Tried(q, s, stmts, n), "A")
  <1> DEFINE x == [Stmt("reset", <<>>) EXCEPT !.id = n, !.bind = s.bind]
             y == [s EXCEPT !.kind = "try", !.id = n, !.body = stmts]
             z == [Stmt("assertFlag", <<>>) EXCEPT !.id = n]
  <1>1. /\ x.kind = "reset" /\ x.id = n /\ x.body = <<>> /\ x.of = "none"
        /\ y.kind = "try" /\ y.id = n /\ y.body = stmts /\ y.of = s.of
        /\ y.exc = s.exc /\ y.regex = s.regex /\ y.bind = s.bind
        /\ z.kind = "assertFlag" /\ z.id = n /\ z.body = <<>> /\ z.of = "none"
    BY DEF Stmt, Statements
  <1>2. Scaffold(s, stmts, n) = <<x, y, z>>
    BY DEF Scaffold
  <1> HIDE DEF x, y, z
  <1>3. /\ <<x, y, z>> # <<>> /\ Head(<<x, y, z>>) = x /\ Tail(<<x, y, z>>) = <<y, z>>
        /\ <<y, z>> # <<>> /\ Head(<<y, z>>) = y /\ Tail(<<y, z>>) = <<z>>
    OBVIOUS
  <1>4. <<x, y, z>> \in Body /\ <<y, z>> \in Body /\ <<z>> \in Body
    BY <1>2, <1>3, Parts
  <1>5. x \in Statements(Body) /\ y \in Statements(Body) /\ z \in Statements(Body)
    BY <1>3, <1>4, Parts, Single
  <1>6. Inside[<<x, y, z>>] = {x, y, z} \cup Inside[stmts]
    <2>1. Inside[<<x, y, z>>] = {x} \cup Inside[x.body] \cup Inside[<<y, z>>]
      BY <1>3, <1>4, InsideDef
    <2>2. Inside[<<y, z>>] = {y} \cup Inside[y.body] \cup Inside[<<z>>]
      BY <1>3, <1>4, InsideDef
    <2>3. Inside[<<z>>] = {z} \cup Inside[z.body]
      BY <1>4, Single
    <2>4. Inside[x.body] = {} /\ Inside[z.body] = {} /\ Inside[y.body] = Inside[stmts]
      BY <1>1, InsideDef
    <2> QED
      BY <2>1, <2>2, <2>3, <2>4
  <1>7. ASSUME NEW q \in Runs, q.flow = "normal"
        PROVE  /\ Tried(q, s, stmts, n) \in Runs
               /\ Plainly[<<x, y, z>>][q] =
                   IF Tried(q, s, stmts, n).flow # "normal" \/ Ran(Tried(q, s, stmts, n), n)
                   THEN Tried(q, s, stmts, n) ELSE Ends(Tried(q, s, stmts, n), "A")
    <2> DEFINE q1 == [q EXCEPT !.raised = {p \in @ : p[1] # n}]
               q3 == Tried(q, s, stmts, n)
    <2>1. q1 \in Runs /\ q1.flow = "normal"
      BY <1>7 DEF Runs
    <2>2. PlainStmt(x, Plainly[x.body], q) = q1
      BY <1>1 DEF PlainStmt
    <2>3. Handled(Plainly[stmts][q1], y) = q3
      BY <1>1 DEF Tried, Handled, Statements
    <2> HIDE DEF q1, q3
    <2>4. PlainStmt(y, Plainly[y.body], q1) = q3
      BY <1>1, <2>3 DEF PlainStmt
    <2>5. q3 \in Runs
      BY <1>1, <1>4, <1>5, <2>1, <2>4, PlainlyDef, PlainStmtRun
    <2>6. Plainly[<<x, y, z>>][q] = Plainly[<<z>>][q3]
      <3>1. Plainly[<<x, y, z>>][q] = Plainly[<<y, z>>][q1]
        BY <1>3, <1>4, <1>7, <2>2, PlainlyDef
      <3>2. Plainly[<<y, z>>][q1] = Plainly[<<z>>][q3]
        BY <1>3, <1>4, <2>1, <2>4, PlainlyDef
      <3> QED
        BY <3>1, <3>2
    <2>7. CASE q3.flow # "normal"
      BY <2>5, <2>6, <2>7, <1>4, PlainlyDef DEF q3
    <2>8. CASE q3.flow = "normal"
      <3>1. Plainly[<<z>>][q3] = PlainStmt(z, Plainly[z.body], q3)
        BY <1>4, <2>5, <2>8, Single
      <3>2. PlainStmt(z, Plainly[z.body], q3) = IF Ran(q3, n) THEN q3 ELSE Ends(q3, "A")
        BY <1>1 DEF PlainStmt
      <3> QED
        BY <2>5, <2>6, <2>8, <3>1, <3>2 DEF q3
    <2> QED
      BY <2>7, <2>8
  <1> QED
    BY <1>1, <1>2, <1>6, <1>7

-----------------------------------------------------------------------------
(* A run of a body and one of its lowered code, side by side *)

\* They have done the same, and no subTest failed on the way.
SameStep(r, q) == /\ r.flow = q.flow /\ r.log = q.log /\ r.beh = q.beh
                  /\ ~r.failed /\ ~q.failed

\* The local of scaffold n keeps what the manager cm holds.
Keeps(r, q, n) == r.cm # "none" /\ \A exc : <<n, exc>> \in q.raised <=> exc = r.cm

\* Runs a body and its code may start from, with the binding cm in sight.
Related(r, q, cm) == SameStep(r, q) /\ r.flow = "normal" /\ (cm # 0 => Keeps(r, q, cm))

\* Only the handlers of scaffolds numbered on the way have run since.
NewOnly(q2, q, from, to) ==
  \A n \in Nat : n <= from \/ n > to => \A exc : <<n, exc>> \in q2.raised <=> <<n, exc>> \in q.raised

\* What the two made of related runs r and q: the same, with the binding in sight kept.
Agree(r2, q2, r, q, at, next, inside) ==
  /\ SameStep(r2, q2)
  /\ at.cm # 0 => r2.cm = r.cm
  /\ NewOnly(q2, q, at.next, next)
  /\ inside => r2.flow # "return"

\* The program ended with an exception nothing catches, in a test that failed or on a
\* name out of sight.
Lost(r2, q2, strict, inside) ==
  /\ q2.flow \in Exceptions
  /\ (~inside /\ r2.failed) \/ (~strict /\ q2.flow = "NameError")

\* What a step makes of the fields.
LEMMA StepFields ==
  ASSUME NEW r \in Runs
  PROVE  /\ \A flow : LET e == Ends(r, flow)
                      IN  /\ e.flow = flow /\ e.failed = r.failed /\ e.cm = r.cm /\ e.log = r.log
                          /\ e.raised = r.raised /\ e.beh = r.beh
         /\ \A what : LET e == Logs(r, what)
                      IN  /\ e.flow = r.flow /\ e.failed = r.failed /\ e.cm = r.cm
                          /\ e.log = Append(r.log, what) /\ e.raised = r.raised /\ e.beh = r.beh
  BY DEF Ends, Logs, Runs

\* Where the body of an assertRaises and its lowered body agree, so do the assertRaises and
\* the scaffold: in a return-free body, an exception, its class and its pattern decide both,
\* if cm, when the with binds it, still names the manager of the with, own.
LEMMA ScaffoldAgrees ==
  ASSUME NEW s \in Statements(Body), Asserting(s), NEW n \in Nat, NEW at \in Sight,
         at.cm <= at.next, at.next < n, at.cm # 0 => ~s.bind,
         NEW r \in Runs, NEW q \in Runs, Related(r, q, at.cm),
         NEW r2 \in Runs, NEW q2 \in Runs, NEW q1 \in Runs,
         q1 = [q EXCEPT !.raised = {p \in @ : p[1] # n}],
         SameStep(r2, q2), at.cm # 0 => r2.cm = r.cm, NewOnly(q2, q1, at.next, n - 1),
         r2.flow # "return", NEW own, s.bind => r2.binds = own,
         NEW qq \in Runs,
         LET tried == Handled(q2, [s EXCEPT !.id = n])
         IN  qq = IF tried.flow # "normal" \/ Ran(tried, n) THEN tried ELSE Ends(tried, "A"),
         NEW inside \in BOOLEAN
  PROVE  LET rr == Expected(r2, s, own)
         IN  /\ Agree(rr, qq, r, q, at, n, inside)
             /\ s.bind /\ rr.flow = "normal" => Keeps(rr, qq, n)
  <1> DEFINE rr    == Expected(r2, s, own)
             t     == [s EXCEPT !.id = n]
             tried == Handled(q2, t)
             held  == IF s.bind THEN q2.flow ELSE "none"
  <1>1. t.id = n /\ t.exc = s.exc /\ t.regex = s.regex /\ t.bind = s.bind /\ s.bind \in BOOLEAN
        /\ s.exc \in Classes
    BY DEF Statements
  <1>2. qq = IF tried.flow # "normal" \/ Ran(tried, n) THEN tried ELSE Ends(tried, "A")
    OBVIOUS
  <1> HIDE DEF t
  <1>3. Catches(s.exc) \subseteq Exceptions
    BY <1>1, CatchesExceptions
  <1>4. /\ q1.raised = {p \in q.raised : p[1] # n}
        /\ q.raised \subseteq Nat \X Held /\ q2.raised \subseteq Nat \X Held
    BY RunFields DEF Runs
  <1>5. ~Ran(q2, n)
    <2>1. \A exc : <<n, exc>> \notin q2.raised
      BY <1>4 DEF NewOnly
    <2> QED
      BY <2>1, <1>4 DEF Ran
  <1>6. NewOnly(q2, q, at.next, n)
    <2> SUFFICES ASSUME NEW m \in Nat, m <= at.next \/ m > n, NEW exc
                 PROVE  <<m, exc>> \in q2.raised <=> <<m, exc>> \in q.raised
      BY DEF NewOnly
    <2>1. m # n /\ (m <= at.next \/ m > n - 1) /\ at.next \in Nat
      BY DEF Sight
    <2>2. <<m, exc>> \in q2.raised <=> <<m, exc>> \in q1.raised
      BY <2>1 DEF NewOnly
    <2> QED
      BY <2>1, <2>2, <1>4
  <1>7. r2.flow \in Flows /\ r2.flow = q2.flow
    BY RunFields DEF SameStep
  <1>8. CASE r2.flow = "normal"
    <2>1. "normal" \notin Catches(s.exc)
      BY <1>3 DEF Exceptions
    <2>2. tried = q2
      BY <1>1, <1>7, <1>8, <2>1 DEF Handled
    <2>3. qq = Ends(q2, "A")
      BY <1>2, <1>5, <1>7, <1>8, <2>2
    <2>4. rr = Ends(r2, "A")
      BY <1>8 DEF Expected
    <2> QED
      BY <1>6, <2>3, <2>4, StepFields DEF Agree, SameStep, NewOnly
  <1>9. CASE r2.flow # "normal" /\ r2.flow \notin Catches(s.exc)
    <2>1. tried = q2
      BY <1>1, <1>7, <1>9 DEF Handled
    <2>2. qq = q2
      BY <1>2, <1>7, <1>9, <2>1
    <2>3. rr = r2
      BY <1>7, <1>9 DEF Expected
    <2> QED
      BY <1>6, <1>9, <2>2, <2>3 DEF Agree
  <1>10. CASE r2.flow # "normal" /\ r2.flow \in Catches(s.exc)
    <2>1. /\ tried.flow = (IF s.regex /\ q2.flow # "E" THEN "A" ELSE "normal")
          /\ tried.raised = q2.raised \cup {<<n, held>>}
          /\ tried.log = q2.log /\ tried.beh = q2.beh /\ tried.failed = q2.failed
      BY <1>1, <1>7, <1>10 DEF Handled, Runs
    <2>2. Ran(tried, n)
      <3>1. <<n, held>> \in tried.raised /\ <<n, held>>[1] = n
        BY <2>1
      <3> HIDE DEF tried, held
      <3> QED
        BY <3>1 DEF Ran
    <2>3. qq = tried
      BY <1>2, <2>2
    <2>4. /\ rr.flow = (IF s.regex /\ q2.flow # "E" THEN "A" ELSE "normal")
          /\ rr.log = r2.log /\ rr.beh = r2.beh /\ rr.failed = r2.failed
          /\ rr.cm = IF s.bind THEN r2.flow ELSE r2.cm
      BY <1>7, <1>10 DEF Expected, Runs
    <2>5. NewOnly(tried, q, at.next, n)
      <3> SUFFICES ASSUME NEW m \in Nat, m <= at.next \/ m > n, NEW exc
                   PROVE  <<m, exc>> \in tried.raised <=> <<m, exc>> \in q.raised
        BY DEF NewOnly
      <3>1. m # n
        BY DEF Sight
      <3> HIDE DEF tried, held
      <3> QED
        BY <3>1, <2>1, <1>6 DEF NewOnly
    <2>6. ASSUME s.bind, rr.flow = "normal" PROVE Keeps(rr, qq, n)
      <3>1. rr.cm = q2.flow /\ held = q2.flow /\ q2.flow # "none"
        BY <2>4, <2>6, <1>3, <1>7, <1>10 DEF Exceptions
      <3>2. \A exc : <<n, exc>> \in tried.raised <=> exc = q2.flow
        BY <2>1, <3>1, <1>5 DEF Ran
      <3> QED
        BY <3>1, <3>2, <2>3 DEF Keeps
    <2> HIDE DEF rr, tried
    <2> QED
      BY <2>1, <2>3, <2>4, <2>5, <2>6, <1>1 DEF Agree, SameStep, rr
  <1> QED
    BY <1>8, <1>9, <1>10

\* Nothing leaves b by a return, and no subTest hides what one of its statements raises.
NoEscape(b) == \A t \in Inside[b] : t.kind \notin {"return", "subTest"}

\* A body that is taken and lowered, in what is in sight of it: inside an asserting with
\* or not, with its reads in place and no binding in the body of another.
Lowers(b, at, scope, inside) ==
  /\ LowerBlock[b][at].ok
  /\ \A s \in Inside[LowerBlock[b][at].out] : s.kind \notin {"custom", "value", "raises"}
  /\ \A s \in Inside[b] : /\ s.kind \in Written \ {"odd", "readOther"}
                          /\ Asserting(s) => NoEscape(s.body)
                          /\ s.bind => Unbinding(s.body)
  /\ inside => NoEscape(b)
  /\ ReadsInBlock[b][scope]
  /\ scope.bound <=> at.cm # 0
  /\ at.cm <= at.next

\* From related runs, the method and its code end alike, or the code is lost.
Simulates(b) ==
  \A at \in Sight, scope \in Scopes, inside \in BOOLEAN, r \in Runs, q \in Runs :
    Lowers(b, at, scope, inside) /\ Related(r, q, at.cm) =>
      \/ Agree(Unittest[b][r], Plainly[LowerBlock[b][at].out][q], r, q, at, LowerBlock[b][at].next, inside)
      \/ Lost(Unittest[b][r], Plainly[LowerBlock[b][at].out][q], scope.strict, inside)

\* A step that only ends a run or logs, on both sides.
LEMMA SameEnds ==
  ASSUME NEW r \in Runs, NEW q \in Runs, NEW at \in Sight, Related(r, q, at.cm), NEW flow, NEW next,
         NEW inside \in BOOLEAN, inside => flow # "return"
  PROVE  Agree(Ends(r, flow), Ends(q, flow), r, q, at, next, inside)
  BY StepFields DEF Agree, SameStep, Related, NewOnly

\* A step that logs the same on both sides.
LEMMA SameLogs ==
  ASSUME NEW r \in Runs, NEW q \in Runs, NEW at \in Sight, Related(r, q, at.cm), NEW what, NEW next,
         NEW inside \in BOOLEAN
  PROVE  Agree(Logs(r, what), Logs(q, what), r, q, at, next, inside)
  <1> DEFINE x == Logs(r, what)
             y == Logs(q, what)
  <1>1. /\ x.flow = r.flow /\ x.failed = r.failed /\ x.cm = r.cm /\ x.log = Append(r.log, what)
        /\ x.beh = r.beh
        /\ y.flow = q.flow /\ y.failed = q.failed /\ y.log = Append(q.log, what)
        /\ y.raised = q.raised /\ y.beh = q.beh
    BY StepFields
  <1> HIDE DEF x, y
  <1>2. Agree(x, y, r, q, at, next, inside)
    BY <1>1 DEF Agree, SameStep, Related, NewOnly
  <1> QED
    BY <1>2 DEF x, y

\* The same call on both sides.
LEMMA SameDoes ==
  ASSUME NEW r \in Runs, NEW q \in Runs, NEW at \in Sight, Related(r, q, at.cm), NEW name \in Callees,
         NEW next, NEW inside \in BOOLEAN
  PROVE  Agree(Does(r, name), Does(q, name), r, q, at, next, inside)
  <1>1. r.beh = q.beh /\ r.beh[name] \in Happens
    BY RunFields DEF Related, SameStep
  <1>2. CASE r.beh[name] = "ok"
    BY <1>1, <1>2, SameLogs DEF Does
  <1>3. CASE r.beh[name] # "ok"
    <2>1. r.beh[name] # "return"
      BY <1>1 DEF Happens
    <2> QED
      BY <1>1, <1>3, <2>1, SameEnds DEF Does
  <1> QED
    BY <1>2, <1>3

\* One statement and what it is lowered to.
LEMMA HeadSimulates ==
  ASSUME NEW s \in Statements(Body), s.body \in Body, Simulates(s.body),
         NEW at \in Sight, NEW scope \in Scopes, NEW inside \in BOOLEAN,
         NEW r \in Runs, NEW q \in Runs, Related(r, q, at.cm),
         NEW first, first = First(s, LowerBlock[s.body][at], at),
         first.ok, first.out \in Body,
         \A t \in Inside[first.out] : t.kind \notin {"custom", "value", "raises"},
         s.kind \in Written \ {"odd", "readOther"},
         Asserting(s) => NoEscape(s.body), s.bind => Unbinding(s.body),
         \A t \in Inside[s.body] : /\ t.kind \in Written \ {"odd", "readOther"}
                                   /\ Asserting(t) => NoEscape(t.body)
                                   /\ t.bind => Unbinding(t.body),
         inside => s.kind \notin {"return", "subTest"} /\ NoEscape(s.body),
         s.kind = "read" => scope.bound \/ ~scope.strict,
         ReadsInBlock[s.body][[scope EXCEPT !.strict = @ \/ (Asserting(s) /\ s.exc = "Exception")]],
         scope.bound <=> at.cm # 0, at.cm <= at.next
  PROVE  LET r2 == UnittestStmt(s, Unittest[s.body], r)
             q2 == Plainly[first.out][q]
         IN  \/ /\ Agree(r2, q2, r, q, at, first.next, inside)
                /\ s.bind /\ r2.flow = "normal" => Keeps(r2, q2, first.next)
             \/ Lost(r2, q2, scope.strict, inside)
  <1> DEFINE inner == LowerBlock[s.body][at]
             r2 == UnittestStmt(s, Unittest[s.body], r)
             q2 == Plainly[first.out][q]
  <1>1. /\ inner \in Codes(Body) /\ inner \in Codes(Tree)
        /\ inner.out \in Body /\ inner.next \in Nat /\ inner.ok \in BOOLEAN
        /\ at.next <= inner.next /\ at.next \in Nat /\ at.cm \in Nat
        /\ r.flow = "normal" /\ q.flow = "normal"
    <2>1. inner \in Codes(Body) /\ inner \in Codes(Tree) /\ at.next <= inner.next
      BY LowerFits, LowerBlockDef, NextGrows
    <2> HIDE DEF inner
    <2> QED
      BY <2>1 DEF Codes, Sight, Related, SameStep
  <1>2. /\ first.out = LowerStmt(s, inner, at).out /\ first.next = LowerStmt(s, inner, at).next
        /\ LowerStmt(s, inner, at).ok /\ ~(s.bind /\ at.cm # 0)
    BY <1>1, FirstRest
  <1>3. s.bind => s.kind = "raises"
    BY DEF Statements, Written
  <1>4. ASSUME NEW out, first.out = <<out>>
        PROVE  q2 = PlainStmt(out, Plainly[out.body], q) /\ out \in Statements(Body)
               /\ out \in Inside[first.out] /\ Inside[out.body] \subseteq Inside[first.out]
               /\ out.body \in Body
    BY <1>1, <1>4, Single
  <1>5. CASE s.kind = "call"
    <2>1. first.out = <<s>>
      BY <1>2, <1>5 DEF LowerStmt, Code, Asserting
    <2>2. q2 = Does(q, s.of) /\ r2 = Does(r, s.of) /\ s.of \in Callees
      BY <1>4, <1>5, <2>1 DEF PlainStmt, UnittestStmt, Asserting, Statements
    <2> QED
      BY <1>3, <1>5, <2>2, SameDoes
  <1>6. CASE s.kind = "fail"
    <2>1. first.out = <<Stmt("assertFalse", <<>>)>>
      BY <1>2, <1>6 DEF LowerStmt, Code, Asserting
    <2>2. q2 = Ends(q, "A")
      <3>1. Stmt("assertFalse", <<>>).kind = "assertFalse"
        BY DEF Stmt
      <3> QED
        BY <1>4, <2>1, <3>1 DEF PlainStmt
    <2>3. r2 = Ends(r, "A")
      BY <1>6 DEF UnittestStmt, Asserting
    <2> QED
      BY <1>3, <1>6, <2>2, <2>3, SameEnds
  <1>7. CASE s.kind = "return"
    <2>1. first.out = <<s>>
      BY <1>2, <1>7 DEF LowerStmt, Code, Asserting
    <2>2. q2 = Ends(q, "return") /\ r2 = Ends(r, "return")
      BY <1>4, <1>7, <2>1 DEF PlainStmt, UnittestStmt, Asserting
    <2> QED
      BY <1>3, <1>7, <2>2, SameEnds
  <1>8. CASE s.kind = "read"
    <2>1. first.out = <<RewriteCm(s, at.cm)>>
      BY <1>2, <1>8 DEF LowerStmt, Code, Asserting
    <2>2. r2 = IF r.cm = "none" THEN Ends(r, "NameError") ELSE Logs(r, r.cm)
      BY <1>8 DEF UnittestStmt, Asserting
    <2>3. CASE at.cm = 0
      <3>1. q2 = Ends(q, "NameError")
        BY <1>4, <1>8, <2>1, <2>3 DEF PlainStmt, RewriteCm
      <3> QED
        BY <1>8, <2>3, <3>1, StepFields DEF Lost, Exceptions
    <2>4. CASE at.cm # 0
      <3>1. q2 = Logs(q, Kept(q, at.cm))
        <4>1. RewriteCm(s, at.cm).kind = "local" /\ RewriteCm(s, at.cm).id = at.cm
          BY <2>4 DEF RewriteCm, Stmt
        <4> QED
          BY <1>4, <2>1, <4>1 DEF PlainStmt
      <3>2. Kept(q, at.cm) = r.cm /\ r.cm # "none"
        <4>1. r.cm # "none" /\ \A exc : <<at.cm, exc>> \in q.raised <=> exc = r.cm
          BY <2>4 DEF Related, Keeps
        <4>2. Ran(q, at.cm)
          <5>1. <<at.cm, r.cm>> \in q.raised /\ <<at.cm, r.cm>>[1] = at.cm
            BY <4>1
          <5> QED
            BY <5>1 DEF Ran
        <4> QED
          BY <4>1, <4>2, KeptHeld
      <3> QED
        BY <1>3, <1>8, <2>2, <3>1, <3>2, SameLogs
    <2> QED
      BY <2>3, <2>4
  <1>9. CASE s.kind = "block"
    <2>1. first.out = <<[s EXCEPT !.body = inner.out]>> /\ first.next = inner.next /\ inner.ok
      BY <1>2, <1>9 DEF LowerStmt, Code, Asserting
    <2>2. [s EXCEPT !.body = inner.out].kind = "block" /\ [s EXCEPT !.body = inner.out].body = inner.out
      BY <1>9 DEF Statements
    <2>3. q2 = Plainly[inner.out][q] /\ Inside[inner.out] \subseteq Inside[first.out]
      BY <1>4, <2>1, <2>2 DEF PlainStmt
    <2>4. r2 = Unittest[s.body][r]
      BY <1>9 DEF UnittestStmt, Asserting
    <2>5. [scope EXCEPT !.strict = @ \/ (Asserting(s) /\ s.exc = "Exception")] = scope
      BY <1>9 DEF Scopes, Asserting
    <2>6. Lowers(s.body, at, scope, inside)
      BY <2>1, <2>3, <2>5 DEF Lowers
    <2> QED
      BY <1>3, <1>9, <2>1, <2>3, <2>4, <2>6 DEF Simulates
  <1>10. CASE s.kind = "subTest"
    <2>1. first.out = inner.out /\ first.next = inner.next /\ inner.ok
      BY <1>2, <1>10 DEF LowerStmt, Code, Asserting
    <2>2. r2 = Reported(Unittest[s.body][r]) /\ Unittest[s.body][r] \in Runs
      BY <1>10, UnittestDef DEF UnittestStmt, Asserting
    <2>3. [scope EXCEPT !.strict = @ \/ (Asserting(s) /\ s.exc = "Exception")] = scope
      BY <1>10 DEF Scopes, Asserting
    <2>4. Lowers(s.body, at, scope, inside)
      BY <2>1, <2>3 DEF Lowers
    <2>5. \/ Agree(Unittest[s.body][r], q2, r, q, at, first.next, inside)
          \/ Lost(Unittest[s.body][r], q2, scope.strict, inside)
      BY <2>1, <2>4 DEF Simulates
    <2>6. CASE Agree(Unittest[s.body][r], q2, r, q, at, first.next, inside)
      BY <1>3, <1>10, <2>2, <2>6 DEF Agree, SameStep, Lost, Reported, Runs
    <2>7. CASE Lost(Unittest[s.body][r], q2, scope.strict, inside)
      BY <1>3, <1>10, <2>2, <2>7 DEF Lost, Reported, Runs
    <2> QED
      BY <2>5, <2>6, <2>7
  <1>11. CASE Asserting(s)
    <2> DEFINE n  == inner.next + 1
               strict == scope.strict \/ s.exc = "Exception"
               sc == [scope EXCEPT !.strict = strict]
               r1 == Entered(r, s)
               q1 == [q EXCEPT !.raised = {p \in @ : p[1] # n}]
               r3 == Unittest[s.body][r1]
               q3 == Plainly[inner.out][q1]
    <2>1. first.out = Scaffold(s, inner.out, n) /\ first.next = n /\ inner.ok /\ n \in Nat
      BY <1>1, <1>2, <1>11 DEF LowerStmt, Code, Asserting
    <2>2. /\ r1 \in Runs /\ r1.flow = r.flow /\ r1.log = r.log /\ r1.beh = r.beh /\ r1.failed = r.failed
          /\ r1.cm = IF s.bind THEN "none" ELSE r.cm
          /\ q1 \in Runs /\ q1.flow = q.flow /\ q1.log = q.log /\ q1.beh = q.beh /\ q1.failed = q.failed
          /\ q1.raised = {p \in q.raised : p[1] # n}
      <3>1. [q EXCEPT !.raised = {p \in @ : p[1] # n}] \in Runs
        BY RunFields
      <3> QED
        BY <3>1, EnteredRun DEF Runs
    <2>3. r2 = Expected(r3, s, r1.binds)
      BY <1>11 DEF UnittestStmt, Asserting
    <2>4. Inside[inner.out] \subseteq Inside[first.out]
      BY <1>1, <1>11, <2>1, ScaffoldRuns
    <2>5. LET tried == Handled(q3, [s EXCEPT !.id = n])
          IN  q2 = IF tried.flow # "normal" \/ Ran(tried, n) THEN tried ELSE Ends(tried, "A")
      <3>1. Tried(q, s, inner.out, n) = Handled(q3, [s EXCEPT !.id = n])
        BY DEF Tried
      <3> HIDE DEF inner, n, q3
      <3>2. q2 = IF Tried(q, s, inner.out, n).flow # "normal" \/ Ran(Tried(q, s, inner.out, n), n)
                 THEN Tried(q, s, inner.out, n) ELSE Ends(Tried(q, s, inner.out, n), "A")
        BY <1>1, <1>11, <2>1, ScaffoldRuns
      <3> QED
        BY <3>1, <3>2
    <2>6. /\ sc \in Scopes /\ sc.bound = scope.bound /\ sc.strict = strict
          /\ [scope EXCEPT !.strict = @ \/ (Asserting(s) /\ s.exc = "Exception")] = sc
      BY <1>11 DEF Scopes
    <2> HIDE DEF sc, r1, q1
    <2>7. Lowers(s.body, at, sc, TRUE)
      BY <1>11, <2>1, <2>4, <2>6 DEF Lowers
    <2>8. Related(r1, q1, at.cm)
      <3>1. SameStep(r1, q1) /\ r1.flow = "normal"
        BY <2>2 DEF Related, SameStep
      <3>2. ASSUME at.cm # 0 PROVE Keeps(r1, q1, at.cm)
        <4>1. r1.cm = r.cm /\ Keeps(r, q, at.cm) /\ at.cm # n
          BY <1>1, <1>2, <2>2, <3>2 DEF Related
        <4> QED
          BY <4>1, <2>2 DEF Keeps
      <3> QED
        BY <3>1, <3>2 DEF Related
    <2>9. r3 \in Runs /\ q3 \in Runs /\ q2 \in Runs
      BY <1>1, <2>2, UnittestDef, PlainlyDef
    <2>10. Agree(r3, q3, r1, q1, at, inner.next, TRUE) \/ Lost(r3, q3, strict, TRUE)
      BY <2>2, <2>6, <2>7, <2>8 DEF Simulates
    <2>11. CASE Agree(r3, q3, r1, q1, at, inner.next, TRUE)
      <3>1. /\ SameStep(r3, q3) /\ NewOnly(q3, q1, at.next, n - 1) /\ r3.flow # "return"
            /\ at.cm # 0 => r3.cm = r.cm
            /\ at.next < n /\ (at.cm # 0 => ~s.bind)
            /\ s.bind => r3.binds = r1.binds
        BY <1>1, <1>2, <2>2, <2>11, BindsStay DEF Agree
      <3>2. q1 = [q EXCEPT !.raised = {p \in @ : p[1] # n}]
        BY DEF q1
      <3> HIDE DEF r3, q3, r2, q2, n, inner
      <3>3. LET rr == Expected(r3, s, r1.binds)
            IN  /\ Agree(rr, q2, r, q, at, n, inside)
                /\ s.bind /\ rr.flow = "normal" => Keeps(rr, q2, n)
        BY <1>11, <2>1, <2>2, <2>5, <2>9, <3>1, <3>2, ScaffoldAgrees
      <3> QED
        BY <2>1, <2>3, <3>3 DEF r2, q2
    <2>12. CASE Lost(r3, q3, strict, TRUE)
      <3>1. q3.flow = "NameError" /\ ~scope.strict /\ s.exc # "Exception" /\ s.exc \in Classes
        BY <1>11, <2>12 DEF Lost, Statements
      <3>2. "NameError" \notin Catches(s.exc)
        BY <3>1 DEF Catches, Classes
      <3>3. Handled(q3, [s EXCEPT !.id = n]) = q3
        BY <3>1, <3>2 DEF Handled, Statements
      <3>4. q2 = q3
        BY <2>5, <3>1, <3>3
      <3> QED
        BY <3>1, <3>4 DEF Lost, Exceptions
    <2> QED
      BY <2>10, <2>11, <2>12
  <1>12. CASE s.kind \in {"custom", "value"}
    <2>1. first.out = <<s>>
      BY <1>2, <1>12 DEF LowerStmt, Code, Asserting
    <2> QED
      BY <1>4, <1>12, <2>1
  <1> QED
    BY <1>5, <1>6, <1>7, <1>8, <1>9, <1>10, <1>11, <1>12 DEF Written, Asserting

\* What agrees after one statement and after the rest agrees after both.
LEMMA AgreeThen ==
  ASSUME NEW r, NEW q, NEW r1, NEW q1, NEW r2, NEW q2, NEW at \in Sight, NEW to \in Sight,
         NEW s, to.cm = IF s.bind THEN to.next ELSE at.cm, ~(s.bind /\ at.cm # 0),
         NEW next \in Nat, at.next <= to.next, to.next <= next, NEW inside,
         Agree(r1, q1, r, q, at, to.next, inside), Agree(r2, q2, r1, q1, to, next, inside)
  PROVE  Agree(r2, q2, r, q, at, next, inside)
  <1>1. at.next \in Nat /\ to.next \in Nat
    BY DEF Sight
  <1>2. at.cm # 0 => r2.cm = r.cm
    BY DEF Agree
  <1>3. NewOnly(q2, q, at.next, next)
    <2> SUFFICES ASSUME NEW n \in Nat, n <= at.next \/ n > next, NEW exc
                 PROVE  <<n, exc>> \in q2.raised <=> <<n, exc>> \in q.raised
      BY DEF NewOnly
    <2>1. (n <= to.next \/ n > next) /\ (n <= at.next \/ n > to.next)
      BY <1>1
    <2> QED
      BY <2>1 DEF Agree, NewOnly
  <1> QED
    BY <1>2, <1>3 DEF Agree

\* Every body that is taken and lowered is simulated by its code.
THEOREM LoweringSimulates == \A b \in Body : Simulates(b)
  <1> DEFINE T == {b \in Body : Simulates(b)}
  <1>1. <<>> \in T
    <2> SUFFICES ASSUME NEW at \in Sight, NEW scope \in Scopes, NEW inside \in BOOLEAN,
                        NEW r \in Runs, NEW q \in Runs, Related(r, q, at.cm)
                 PROVE  Agree(Unittest[<<>>][r], Plainly[LowerBlock[<<>>][at].out][q], r, q, at,
                              LowerBlock[<<>>][at].next, inside)
      BY Parts DEF Simulates
    <2>1. LowerBlock[<<>>][at].out = <<>>
      <3>1. LowerBlock[<<>>][at] = Code(<<>>, at.next, TRUE)
        BY LowerBlockDef
      <3> QED
        BY <3>1 DEF Code
    <2>2. Unittest[<<>>][r] = r /\ Plainly[<<>>][q] = q
      BY UnittestDef, PlainlyDef, Parts
    <2> QED
      BY <2>1, <2>2 DEF Related, SameStep, Agree, NewOnly
  <1>2. ASSUME NEW b \in Body, b # <<>>, Head(b).body \in T, Tail(b) \in T PROVE b \in T
    <2> SUFFICES ASSUME NEW at \in Sight, NEW scope \in Scopes, NEW inside \in BOOLEAN,
                        NEW r \in Runs, NEW q \in Runs,
                        Lowers(b, at, scope, inside), Related(r, q, at.cm)
                 PROVE  \/ Agree(Unittest[b][r], Plainly[LowerBlock[b][at].out][q], r, q, at,
                                 LowerBlock[b][at].next, inside)
                        \/ Lost(Unittest[b][r], Plainly[LowerBlock[b][at].out][q], scope.strict, inside)
      BY DEF Simulates
    <2> DEFINE s     == Head(b)
               inner == LowerBlock[s.body][at]
               first == First(s, inner, at)
               to    == RestAt(s, first, at)
               rest  == LowerBlock[Tail(b)][to]
               r1    == UnittestStmt(s, Unittest[s.body], r)
               q1    == Plainly[first.out][q]
               after == [scope EXCEPT !.bound = @ \/ s.bind]
    <2>1. s \in Statements(Body) /\ s.body \in Body /\ Tail(b) \in Body
      BY <1>2, Parts
    <2>2. inner \in Codes(Body) /\ inner \in Codes(Tree)
      BY <2>1, LowerFits, LowerBlockDef
    <2>3. first \in Codes(Tree) /\ to \in Sight /\ first.next = LowerStmt(s, inner, at).next
          /\ (first.ok <=> LowerStmt(s, inner, at).ok /\ ~(s.bind /\ at.cm # 0))
      BY <2>1, <2>2, FirstRest
    <2>4. first.out \in Body
      BY <1>2, LowerFits
    <2>5. LowerBlock[b][at] = Then(first, rest)
      BY <1>2, LowerBlockDef
    <2> HIDE DEF first
    <2>6. rest \in Codes(Body) /\ rest.out \in Body /\ rest.next \in Nat /\ to.next <= rest.next
      BY <2>1, <2>3, LowerFits, NextGrows DEF Codes
    <2>7. LowerBlock[b][at].out = first.out \o rest.out /\ LowerBlock[b][at].next = rest.next
          /\ first.ok /\ rest.ok
      <3> HIDE DEF rest
      <3>1. /\ Then(first, rest).out = first.out \o rest.out /\ Then(first, rest).next = rest.next
            /\ Then(first, rest).ok = (first.ok /\ rest.ok)
        BY DEF Then, Code
      <3>2. Then(first, rest).ok
        BY <2>5 DEF Lowers
      <3> QED
        BY <2>5, <3>1, <3>2
    <2>8. to.next = first.next /\ to.cm = (IF s.bind THEN to.next ELSE at.cm)
      BY DEF RestAt
    <2>9. at.next \in Nat /\ at.cm \in Nat /\ to.next \in Nat /\ inner.next \in Nat /\ at.next <= inner.next
      BY <2>1, <2>2, <2>3, NextGrows DEF Sight, Codes
    <2>10. /\ at.next <= to.next
           /\ s.bind => to.next > 0
      <3>1. s.bind => s.kind \in {"raises", "reset", "try"}
        BY <2>1 DEF Statements
      <3>2. s \in Inside[b] => s.kind \in Written
        BY DEF Lowers
      <3>3. s \in Inside[b]
        BY <1>2, InsideDef
      <3> HIDE DEF s, inner
      <3> QED
        BY <2>3, <2>8, <2>9, <3>1, <3>2, <3>3 DEF LowerStmt, Code, Asserting, Written
    <2>11. /\ Inside[b] = {s} \cup Inside[s.body] \cup Inside[Tail(b)]
           /\ Inside[LowerBlock[b][at].out] = Inside[first.out] \cup Inside[rest.out]
      BY <1>2, <2>4, <2>6, <2>7, InsideDef, InsideConcat
    <2>12. /\ s.kind = "read" => scope.bound \/ ~scope.strict
           /\ ReadsInBlock[s.body][[scope EXCEPT !.strict = @ \/ (Asserting(s) /\ s.exc = "Exception")]]
           /\ after \in Scopes /\ ReadsInBlock[Tail(b)][after]
      BY <1>2, ReadsInBlockDef DEF Lowers
    <2>13. r1 \in Runs /\ q1 \in Runs
      BY <2>1, <2>4, UnittestDef, PlainlyDef, UnittestStmtRun
    <2>14. \/ /\ Agree(r1, q1, r, q, at, first.next, inside)
              /\ s.bind /\ r1.flow = "normal" => Keeps(r1, q1, first.next)
           \/ Lost(r1, q1, scope.strict, inside)
      <3>1. Simulates(s.body)
        BY <1>2
      <3>2. \A t \in Inside[first.out] : t.kind \notin {"custom", "value", "raises"}
        BY <2>11 DEF Lowers
      <3>3. /\ s.kind \in Written \ {"odd", "readOther"}
            /\ Asserting(s) => NoEscape(s.body)
            /\ s.bind => Unbinding(s.body)
            /\ \A t \in Inside[s.body] : /\ t.kind \in Written \ {"odd", "readOther"}
                                         /\ Asserting(t) => NoEscape(t.body)
                                         /\ t.bind => Unbinding(t.body)
            /\ inside => s.kind \notin {"return", "subTest"} /\ NoEscape(s.body)
        BY <2>11 DEF Lowers, NoEscape
      <3>4. (scope.bound <=> at.cm # 0) /\ at.cm <= at.next
        BY DEF Lowers
      <3>5. first = First(s, LowerBlock[s.body][at], at)
        BY DEF first
      <3> HIDE DEF s, inner
      <3> QED
        BY <2>1, <2>4, <2>7, <2>12, <3>1, <3>2, <3>3, <3>4, <3>5, HeadSimulates
    <2>15. Unittest[b][r] = Unittest[Tail(b)][r1]
      BY <1>2, UnittestDef DEF Related
    <2>16. Plainly[LowerBlock[b][at].out][q] = Plainly[rest.out][q1]
      BY <2>4, <2>6, <2>7, PlainlyConcat
    <2>17. Lowers(Tail(b), to, after, inside)
      <3>1. rest.ok /\ \A t \in Inside[rest.out] : t.kind \notin {"custom", "value", "raises"}
        BY <2>7, <2>11 DEF Lowers
      <3>2. /\ \A t \in Inside[Tail(b)] : /\ t.kind \in Written \ {"odd", "readOther"}
                                          /\ Asserting(t) => NoEscape(t.body)
                                          /\ t.bind => Unbinding(t.body)
            /\ inside => NoEscape(Tail(b))
        BY <2>11 DEF Lowers, NoEscape
      <3>3. after.bound <=> to.cm # 0
        <4>1. (scope.bound <=> at.cm # 0) /\ (after.bound <=> scope.bound \/ s.bind)
          BY <2>1 DEF Lowers, Scopes
        <4> QED
          BY <4>1, <2>8, <2>9, <2>10
      <3>4. to.cm <= to.next
        BY <2>8, <2>9, <2>10 DEF Lowers
      <3> QED
        BY <2>12, <3>1, <3>2, <3>3, <3>4 DEF Lowers
    <2> HIDE DEF r1, q1, rest, to, inner, s
    <2>18. CASE Lost(r1, q1, scope.strict, inside)
      <3>1. q1.flow # "normal"
        BY <2>18 DEF Lost, Exceptions
      <3>2. Plainly[rest.out][q1] = q1
        BY <2>6, <2>13, <3>1, PlainlyDef
      <3>3. r1.failed => Unittest[Tail(b)][r1].failed
        BY <2>1, <2>13, FailedStays
      <3> QED
        BY <2>15, <2>16, <2>18, <3>2, <3>3 DEF Lost
    <2>19. CASE Agree(r1, q1, r, q, at, first.next, inside) /\ r1.flow # "normal"
      <3>1. Unittest[Tail(b)][r1] = r1 /\ Plainly[rest.out][q1] = q1
        BY <2>1, <2>6, <2>13, <2>19, UnittestDef, PlainlyDef DEF Agree, SameStep
      <3>2. NewOnly(q1, q, at.next, rest.next)
        BY <2>6, <2>8, <2>9, <2>19 DEF Agree, NewOnly
      <3> QED
        BY <2>7, <2>15, <2>16, <2>19, <3>1, <3>2 DEF Agree
    <2>20. CASE /\ Agree(r1, q1, r, q, at, first.next, inside) /\ r1.flow = "normal"
                /\ s.bind /\ r1.flow = "normal" => Keeps(r1, q1, first.next)
      <3>1. ~(s.bind /\ at.cm # 0)
        BY <2>3, <2>7
      <3>2. Related(r1, q1, to.cm)
        <4>1. CASE s.bind
          BY <2>8, <2>20, <4>1 DEF Related, Agree
        <4>2. CASE ~s.bind
          <5>1. to.cm = at.cm
            BY <2>8, <4>2
          <5>2. ASSUME at.cm # 0 PROVE Keeps(r1, q1, at.cm)
            <6>1. Keeps(r, q, at.cm) /\ r1.cm = r.cm /\ at.cm <= at.next
              BY <2>20, <5>2 DEF Related, Agree, Lowers
            <6>2. \A exc : <<at.cm, exc>> \in q1.raised <=> <<at.cm, exc>> \in q.raised
              BY <2>9, <2>20, <6>1 DEF Agree, NewOnly
            <6> QED
              BY <6>1, <6>2 DEF Keeps
          <5> QED
            BY <2>20, <5>1, <5>2 DEF Related, Agree
        <4> QED
          BY <4>1, <4>2
      <3>3. Simulates(Tail(b))
        BY <1>2
      <3>4. \/ Agree(Unittest[Tail(b)][r1], Plainly[rest.out][q1], r1, q1, to, rest.next, inside)
            \/ Lost(Unittest[Tail(b)][r1], Plainly[rest.out][q1], after.strict, inside)
        BY <2>3, <2>12, <2>13, <2>17, <3>2, <3>3 DEF Simulates, rest
      <3>5. after.strict = scope.strict
        BY DEF Scopes
      <3>6. CASE Agree(Unittest[Tail(b)][r1], Plainly[rest.out][q1], r1, q1, to, rest.next, inside)
        <4>1. Agree(r1, q1, r, q, at, to.next, inside)
          BY <2>8, <2>20
        <4>2. Agree(Unittest[Tail(b)][r1], Plainly[rest.out][q1], r, q, at, rest.next, inside)
          BY <2>3, <2>6, <2>8, <2>10, <3>1, <3>6, <4>1, AgreeThen
        <4> QED
          BY <2>7, <2>15, <2>16, <4>2
      <3>7. CASE Lost(Unittest[Tail(b)][r1], Plainly[rest.out][q1], after.strict, inside)
        BY <2>15, <2>16, <3>5, <3>7
      <3> QED
        BY <3>4, <3>6, <3>7
    <2> QED
      BY <2>14, <2>18, <2>19, <2>20
  <1>3. Body \subseteq T
    <2> HIDE DEF T
    <2> QED
      BY <1>1, <1>2, Induct DEF T
  <1> QED
    BY <1>3

-----------------------------------------------------------------------------
(* From a selected method to an emitted program *)

\* No number given and no binding in sight.
AtStart == [next |-> 0, cm |-> 0]

\* Where a method stands: what was checked of it when it was taken, what its code is, and
\* that the prelude was collected for the names the code mentions.
GenInv ==
  /\ PreludeInv
  /\ body \in Body /\ \A s \in Inside[body] : s.kind \in Written
  /\ importRe \in BOOLEAN
  /\ outcome \in {"new", "rejected", "selected", "lowered", "emitted", "skipped"}
  /\ outcome \in {"new", "rejected", "selected"} => phase = "waiting"
  /\ outcome \in {"selected", "lowered", "emitted"} => Lowerable(body) /\ ~Unresolvable
  /\ outcome \in {"lowered", "emitted"} =>
       code = LowerBlock[body][AtStart] /\ code.ok /\ seeds = Mentioned
  /\ outcome = "emitted" => phase = "done" /\ Generated(code) /\ importRe = ImportsRe

\* Lowered code calls what the method calls.
LEMMA LoweredCalls ==
  ASSUME NEW b \in Body, NEW at \in Sight
  PROVE  Called(LowerBlock[b][at].out) \subseteq Called(b)
  <1> DEFINE Calls(t, c) == t.kind = "call" => t.of \in Called(c)
             T == {c \in Body : \A a \in Sight : \A t \in Inside[LowerBlock[c][a].out] : Calls(t, c)}
  <1>1. <<>> \in T
    <2>1. \A a \in Sight : Inside[LowerBlock[<<>>][a].out] = {}
      <3> SUFFICES ASSUME NEW a \in Sight PROVE Inside[LowerBlock[<<>>][a].out] = {}
        OBVIOUS
      <3>1. LowerBlock[<<>>][a] = Code(<<>>, a.next, TRUE)
        BY LowerBlockDef
      <3>2. Code(<<>>, a.next, TRUE).out = <<>>
        BY DEF Code
      <3>3. LowerBlock[<<>>][a].out = <<>>
        BY <3>1, <3>2
      <3> QED
        BY <3>3, InsideDef
    <2> QED
      BY <2>1, Parts
  <1>2. ASSUME NEW c \in Body, c # <<>>, Head(c).body \in T, Tail(c) \in T PROVE c \in T
    <2> SUFFICES ASSUME NEW a \in Sight, NEW t \in Inside[LowerBlock[c][a].out], t.kind = "call"
                 PROVE  t.of \in Called(c)
      BY <1>2
    <2> DEFINE s     == Head(c)
               inner == LowerBlock[s.body][a]
               first == First(s, inner, a)
               to    == RestAt(s, first, a)
               rest  == LowerBlock[Tail(c)][to]
    <2>1. s \in Statements(Body) /\ s.body \in Body /\ Tail(c) \in Body
      BY <1>2, Parts
    <2>2. inner \in Codes(Body) /\ inner \in Codes(Tree)
      BY <2>1, LowerFits, LowerBlockDef
    <2>3. to \in Sight /\ first.out = LowerStmt(s, inner, a).out
      BY <2>1, <2>2, FirstRest
    <2>4. first.out \in Body /\ rest.out \in Body /\ inner.out \in Body /\ inner.next \in Nat
      <3>1. first.out \in Body
        BY <1>2, LowerFits
      <3>2. rest \in Codes(Body)
        BY <2>1, <2>3, LowerFits
      <3> QED
        BY <2>2, <3>1, <3>2 DEF Codes
    <2>5. LowerBlock[c][a] = Then(first, rest)
      BY <1>2, LowerBlockDef
    <2>6. t \in Inside[first.out] \/ t \in Inside[rest.out]
      <3> HIDE DEF first, rest
      <3>1. Then(first, rest).out = first.out \o rest.out
        BY DEF Then, Code
      <3>2. LowerBlock[c][a].out = first.out \o rest.out
        BY <2>5, <3>1
      <3>3. Inside[first.out \o rest.out] = Inside[first.out] \cup Inside[rest.out]
        BY <2>4, InsideConcat
      <3> QED
        BY <3>2, <3>3
    <2>7. /\ Called(s.body) \subseteq Called(c) /\ Called(Tail(c)) \subseteq Called(c)
          /\ \A u \in Inside[c] : Calls(u, c)
          /\ s \in Inside[c] /\ Inside[s.body] \subseteq Inside[c]
      BY <1>2, InsideDef DEF Called
    <2>8. \A u \in Inside[inner.out] : Calls(u, c)
      BY <1>2, <2>7
    <2>9. CASE t \in Inside[rest.out]
      BY <1>2, <2>3, <2>7, <2>9
    <2>10. CASE t \in Inside[first.out]
      <3> HIDE DEF s, inner, first, Calls
      <3>1. \A out : first.out = <<out>> => t = out \/ t \in Inside[out.body]
        BY <2>4, <2>10, Single
      <3>2. CASE s.kind = "subTest"
        BY <2>3, <2>8, <2>10, <3>2 DEF LowerStmt, Asserting, Calls
      <3>3. CASE s.kind = "fail"
        <4>1. first.out = <<Stmt("assertFalse", <<>>)>>
          BY <2>3, <3>3 DEF LowerStmt, Asserting, Code
        <4> QED
          BY <3>1, <4>1, InsideDef DEF Stmt
      <3>4. CASE Asserting(s)
        <4>1. first.out = Scaffold(s, inner.out, inner.next + 1)
          BY <2>3, <3>4 DEF LowerStmt, Asserting, Code
        <4>2. t \in Inside[inner.out]
          BY <2>1, <2>4, <2>10, <3>4, <4>1, ScaffoldRuns
        <4> QED
          BY <2>8, <4>2 DEF Calls
      <3>5. CASE s.kind = "block"
        <4>1. first.out = <<[s EXCEPT !.body = inner.out]>>
          BY <2>3, <3>5 DEF LowerStmt, Asserting, Code
        <4>2. [s EXCEPT !.body = inner.out].kind = "block" /\ [s EXCEPT !.body = inner.out].body = inner.out
          BY <2>1, <3>5 DEF Statements
        <4> QED
          BY <2>8, <3>1, <4>1, <4>2 DEF Calls
      <3>6. CASE s.kind = "read"
        <4>1. first.out = <<RewriteCm(s, a.cm)>>
          BY <2>3, <3>6 DEF LowerStmt, Asserting, Code
        <4>2. /\ [Stmt("local", <<>>) EXCEPT !.id = a.cm].kind = "local"
              /\ [Stmt("local", <<>>) EXCEPT !.id = a.cm].body = <<>>
          BY DEF Stmt
        <4> QED
          BY <2>7, <3>1, <4>1, <4>2, InsideDef DEF RewriteCm, Calls
      <3>7. CASE s.kind \notin {"subTest", "fail", "block", "read"} /\ ~Asserting(s)
        <4>1. first.out = <<s>>
          BY <2>3, <3>7 DEF LowerStmt, Code
        <4> QED
          BY <2>7, <3>1, <4>1 DEF Calls
      <3> QED
        BY <3>2, <3>3, <3>4, <3>5, <3>6, <3>7
    <2> QED
      BY <2>6, <2>9, <2>10
  <1>3. Body \subseteq T
    <2> HIDE DEF T
    <2> QED
      BY <1>1, <1>2, Induct DEF T
  <1> QED
    BY <1>3 DEF Called

\* A finite set of numbers that is not empty has a greatest one.
LEMMA Greatest ==
  ASSUME NEW S \in SUBSET Int, IsFiniteSet(S), S # {}
  PROVE  \E m \in S : \A n \in S : n <= m
  <1> DEFINE T == {k \in Nat : \A Q \in SUBSET S : Q # {} /\ Cardinality(Q) <= k =>
                                 \E m \in Q : \A n \in Q : n <= m}
  <1>1. \A Q \in SUBSET S : IsFiniteSet(Q) /\ Cardinality(Q) \in Nat
    BY FS_Subset, FS_CardinalityType
  <1>2. 0 \in T
    BY <1>1, FS_EmptySet
  <1>3. ASSUME NEW k \in Nat, k \in T PROVE k + 1 \in T
    <2> SUFFICES ASSUME NEW Q \in SUBSET S, Q # {}, Cardinality(Q) <= k + 1
                 PROVE  \E m \in Q : \A n \in Q : n <= m
      OBVIOUS
    <2>1. PICK x \in Q : TRUE
      OBVIOUS
    <2>2. Cardinality(Q \ {x}) = Cardinality(Q) - 1 /\ Q \ {x} \in SUBSET S
      BY <1>1, FS_RemoveElement
    <2>3. CASE Q \ {x} = {}
      BY <2>3
    <2>4. CASE Q \ {x} # {}
      <3>1. PICK m \in Q \ {x} : \A n \in Q \ {x} : n <= m
        BY <1>1, <1>3, <2>2, <2>4
      <3>2. m \in Int /\ x \in Int
        OBVIOUS
      <3> QED
        BY <3>1, <3>2
    <2> QED
      BY <2>3, <2>4
  <1>4. Nat \subseteq T
    <2> HIDE DEF T
    <2> QED
      BY <1>2, <1>3, NatInduct
  <1> QED
    BY <1>1, <1>4

\* A name that is bound has a definition.
LEMMA BoundIsDefined ==
  ASSUME NEW n, Binders(n) # {}
  PROVE  DefOf(n) # {} /\ DefOf(n) \subseteq Binders(n)
  <1>1. Binders(n) \in SUBSET Int /\ Binders(n) \in SUBSET Stmts /\ IsFiniteSet(Stmts)
    BY PreludeAssumption DEF Binders
  <1>2. IsFiniteSet(Binders(n))
    BY <1>1, FS_Subset
  <1> QED
    BY <1>1, <1>2, Greatest DEF DefOf

\* A finished prelude is closed.
LEMMA ClosedWhenDone == PreludeInv => PreludeClosed
  BY DEF PreludeInv, PreludeClosed, LookedUp, Standing

\* An emitted class misses no name.
LEMMA EmittedIsSupplied == GenInv /\ outcome = "emitted" => NamesSupplied
  <1> SUFFICES ASSUME GenInv, outcome = "emitted", \A s \in mod.imports : "re" \in mod.binds[s],
                      NEW n \in Mentioned
               PROVE  n \in Supplied
    BY DEF NamesSupplied
  <1>1. /\ PreludeInv /\ body \in Body /\ ~Unresolvable /\ phase = "done" /\ seeds = Mentioned
        /\ importRe = ImportsRe /\ code = LowerBlock[body][AtStart]
    BY DEF GenInv
  <1>2. CASE n \in Called(code.out) /\ n \notin Builtins
    <2>1. AtStart \in Sight
      BY DEF AtStart, Sight
    <2>2. n \in Called(body)
      BY <1>1, <1>2, <2>1, LoweredCalls
    <2>3. Binders(n) # {}
      BY <1>1, <1>2, <2>2 DEF Unresolvable
    <2>4. PICK s \in DefOf(n) : s \in Binders(n)
      BY <2>3, BoundIsDefined
    <2>5. s \in chosen
      BY <1>1, <2>4, ClosedWhenDone DEF PreludeClosed
    <2> QED
      BY <2>4, <2>5 DEF Supplied, Bound, Binders
  <1>3. CASE n = "re"
    <2>1. CASE chosen \cap mod.imports = {}
      BY <1>1, <1>3, <2>1 DEF ImportsRe, Supplied
    <2>2. CASE chosen \cap mod.imports # {}
      BY <1>3, <2>2 DEF Supplied, Bound
    <2> QED
      BY <2>1, <2>2
  <1>4. CASE n \in Builtins
    BY <1>4 DEF Supplied
  <1> QED
    BY <1>2, <1>3, <1>4 DEF Mentioned

\* A run starts as a run, and both start alike.
LEMMA FreshRun ==
  ASSUME NEW beh \in [Callees -> Happens]
  PROVE  Fresh(beh) \in Runs /\ Related(Fresh(beh), Fresh(beh), 0)
  <1>1. <<>> \in Seq(Callees \cup Held)
    OBVIOUS
  <1> QED
    BY <1>1 DEF Fresh, Runs, Held, Related, SameStep

\* The method and its program, from the start.
LEMMA EmittedSimulates ==
  ASSUME GenInv, outcome = "emitted", Straight, NotRebound, NEW strict \in BOOLEAN,
         ReadsInBlock[body][[bound |-> FALSE, strict |-> strict]], NEW beh \in Behaviours
  PROVE  LET r == ByUnittest(beh)
             q == ByLowered(beh)
         IN  \/ SameStep(r, q)
             \/ q.flow \in Exceptions /\ (r.failed \/ ~strict)
  <1> DEFINE scope == [bound |-> FALSE, strict |-> strict]
  <1>1. /\ body \in Body /\ \A s \in Inside[body] : s.kind \in Written
        /\ Lowerable(body) /\ code = LowerBlock[body][AtStart] /\ Generated(code)
    BY DEF GenInv
  <1>2. scope \in Scopes /\ AtStart \in Sight /\ AtStart.cm = 0 /\ AtStart.next = 0
    BY DEF Scopes, Sight, AtStart
  <1>3. Lowers(body, AtStart, scope, FALSE)
    <2>1. code.ok /\ \A s \in Inside[code.out] : s.kind \notin {"custom", "value", "raises"}
      BY <1>1 DEF Generated
    <2>2. \A s \in Inside[body] : /\ s.kind \in Written \ {"odd", "readOther"}
                                  /\ Asserting(s) => NoEscape(s.body)
                                  /\ s.bind => Unbinding(s.body)
      BY <1>1 DEF Lowerable, Straight, NoEscape, NotRebound, Unbinding
    <2> QED
      BY <1>1, <1>2, <2>1, <2>2 DEF Lowers
  <1>4. beh \in [Callees -> Happens]
    BY DEF Behaviours, Happens
  <1>5. Simulates(body)
    BY <1>1, LoweringSimulates
  <1>6. Fresh(beh) \in Runs /\ Related(Fresh(beh), Fresh(beh), AtStart.cm)
    BY <1>2, <1>4, FreshRun
  <1>7. \/ Agree(ByUnittest(beh), ByLowered(beh), Fresh(beh), Fresh(beh), AtStart, code.next, FALSE)
        \/ Lost(ByUnittest(beh), ByLowered(beh), scope.strict, FALSE)
    <2> HIDE DEF scope
    <2> QED
      BY <1>1, <1>2, <1>3, <1>5, <1>6 DEF Simulates, ByUnittest, ByLowered
  <1> QED
    BY <1>7 DEF Agree, Lost

\* An emitted program asserts what its test asserts.
LEMMA EmittedIsFaithful == GenInv => NothingStronger /\ NothingWeaker
  <1> SUFFICES ASSUME GenInv, outcome = "emitted" PROVE NothingStronger /\ NothingWeaker
    BY DEF NothingStronger, NothingWeaker
  <1>1. NamesSupplied
    BY EmittedIsSupplied
  <1>2. ASSUME Straight, ReadsBound, NotRebound, NEW beh \in Behaviours, Clean(ByUnittest(beh))
        PROVE  Clean(ByLowered(beh)) /\ ByLowered(beh).log = ByUnittest(beh).log
    <2>1. SameStep(ByUnittest(beh), ByLowered(beh))
      BY <1>2, EmittedSimulates DEF ReadsBound, Clean
    <2> QED
      BY <1>2, <2>1 DEF SameStep, Clean
  <1>3. ASSUME Straight, NoReadIsCaught, NotRebound, NEW beh \in Behaviours, Clean(ByLowered(beh))
        PROVE  Clean(ByUnittest(beh)) /\ ByLowered(beh).log = ByUnittest(beh).log
    <2>1. ByLowered(beh).flow \notin Exceptions
      BY <1>3 DEF Clean, Exceptions
    <2>2. SameStep(ByUnittest(beh), ByLowered(beh))
      BY <1>3, <2>1, EmittedSimulates DEF NoReadIsCaught
    <2> QED
      BY <1>3, <2>2 DEF SameStep, Clean
  <1> QED
    BY <1>1, <1>2, <1>3 DEF NothingStronger, NothingWeaker, Follows

-----------------------------------------------------------------------------
(* Every behaviour *)

\* A method as it is found has been checked for nothing.
LEMMA GenInvInit == Init => GenInv
  <1> SUFFICES ASSUME Init PROVE GenInv
    OBVIOUS
  <1>1. PICK file \in Files : mod = file.mod /\ body = file.body
    BY DEF Init
  <1>2. body \in Body /\ \A s \in Inside[body] : s.kind \in Written
    BY <1>1, GenerationAssumption
  <1>3. PreludeInv
    BY PreludeInvInit DEF Init
  <1>4. outcome = "new" /\ importRe = FALSE /\ phase = "waiting"
    BY DEF Init, PreludeInit
  <1> QED
    BY <1>2, <1>3, <1>4 DEF GenInv

\* A name is unresolvable for the method and the module, which do not change.
LEMMA SameMethod ==
  ASSUME UNCHANGED <<body, mod>>
  PROVE  Unresolvable' = Unresolvable
  BY DEF Unresolvable, Binders, Called

\* Selection keeps the invariant.
LEMMA SelectKeeps == GenInv /\ Select => GenInv'
  <1> SUFFICES ASSUME GenInv, Select PROVE GenInv'
    OBVIOUS
  <1>1. /\ outcome = "new"
        /\ outcome' = IF Lowerable(body) /\ ~Unresolvable THEN "selected" ELSE "rejected"
        /\ UNCHANGED <<mod, seeds, frontier, chosen, provided, changed, phase, body, code, importRe>>
    BY DEF Select, preludeVars
  <1>2. PreludeInv'
    BY <1>1, PreludeInvNext DEF GenInv, preludeVars
  <1>3. Unresolvable' = Unresolvable
    BY <1>1, SameMethod
  <1> QED
    BY <1>1, <1>2, <1>3 DEF GenInv

\* What lowered code mentions are names.
LEMMA LoweredMentions == GenInv /\ Lower => Mentioned' \subseteq Names
  <1> SUFFICES ASSUME GenInv, Lower PROVE Mentioned' \subseteq Names
    OBVIOUS
  <1>1. body \in Body /\ AtStart \in Sight /\ code' = LowerBlock[body][AtStart]
    BY DEF GenInv, Lower, AtStart, Sight
  <1>2. code'.out \in Body
    BY <1>1, LowerFits DEF Codes
  <1>3. \A s \in Inside[code'.out] : s.kind = "call" => s.of \in Callees
    BY <1>2, InsideDef DEF Statements
  <1> QED
    BY <1>3, GenerationAssumption DEF Mentioned, Called

\* Lowering keeps the invariant.
LEMMA LowerKeeps == GenInv /\ Lower => GenInv'
  <1> SUFFICES ASSUME GenInv, Lower PROVE GenInv'
    OBVIOUS
  <1>1. /\ outcome = "selected" /\ code' = LowerBlock[body][AtStart]
        /\ UNCHANGED <<body, importRe>>
    BY DEF Lower, AtStart
  <1>2. /\ body \in Body /\ \A s \in Inside[body] : s.kind \in Written
        /\ importRe \in BOOLEAN /\ phase = "waiting" /\ Lowerable(body) /\ ~Unresolvable
        /\ PreludeInv
    BY <1>1 DEF GenInv
  <1>3. CASE code'.ok /\ Begin(Mentioned') /\ outcome' = "lowered"
    <2>1. Mentioned' \subseteq Names
      BY LoweredMentions
    <2>2. PreludeInv'
      BY <1>2, <1>3, <2>1, PreludeInvNext DEF PreludeNext
    <2>3. seeds' = Mentioned' /\ mod' = mod
      BY <1>3 DEF Begin
    <2>4. Unresolvable' = Unresolvable
      BY <1>1, <2>3, SameMethod
    <2> QED
      BY <1>1, <1>2, <1>3, <2>2, <2>3, <2>4 DEF GenInv
  <1>4. CASE outcome' = "skipped" /\ UNCHANGED preludeVars
    <2>1. PreludeInv'
      BY <1>2, <1>4, PreludeInvNext
    <2> QED
      BY <1>1, <1>2, <1>4, <2>1 DEF GenInv
  <1> QED
    BY <1>3, <1>4 DEF Lower

\* The search for the prelude keeps the invariant: it changes neither the method nor its code.
LEMMA CollectKeeps == GenInv /\ Collect => GenInv'
  <1> SUFFICES ASSUME GenInv, Collect PROVE GenInv'
    OBVIOUS
  <1>1. outcome = "lowered" /\ PreludeStep /\ UNCHANGED <<body, code, importRe, outcome>>
    BY DEF Collect
  <1>2. PreludeInv'
    BY <1>1, PreludeInvNext DEF GenInv, PreludeNext
  <1>3. seeds' = seeds /\ mod' = mod
    BY <1>1 DEF PreludeStep, Pop, Closed, Scan
  <1>4. Unresolvable' = Unresolvable
    BY <1>1, <1>3, SameMethod
  <1>5. Mentioned' = Mentioned
    BY <1>1 DEF Mentioned, Called
  <1> QED
    BY <1>1, <1>2, <1>3, <1>4, <1>5 DEF GenInv

\* The checks that follow the prelude keep the invariant.
LEMMA EmitKeeps == GenInv /\ Emit => GenInv'
  <1> SUFFICES ASSUME GenInv, Emit PROVE GenInv'
    OBVIOUS
  <1>1. /\ outcome = "lowered" /\ phase = "done"
        /\ UNCHANGED <<mod, seeds, frontier, chosen, provided, changed, phase, body, code>>
    BY DEF Emit, preludeVars
  <1>2. PreludeInv'
    BY <1>1, PreludeInvNext DEF GenInv, preludeVars
  <1>3. Unresolvable' = Unresolvable
    BY <1>1, SameMethod
  <1>4. Mentioned' = Mentioned
    BY <1>1 DEF Mentioned, Called
  <1>5. CASE Generated(code) /\ importRe' = ImportsRe /\ outcome' = "emitted"
    <2>1. ImportsRe' = ImportsRe
      BY <1>1, <1>4 DEF ImportsRe
    <2> QED
      BY <1>1, <1>2, <1>3, <1>4, <1>5, <2>1 DEF GenInv, ImportsRe
  <1>6. CASE outcome' = "skipped" /\ UNCHANGED importRe
    BY <1>1, <1>2, <1>3, <1>4, <1>6 DEF GenInv
  <1> QED
    BY <1>5, <1>6 DEF Emit

\* Every step keeps the invariant.
LEMMA GenInvNext == GenInv /\ [Next]_vars => GenInv'
  <1> SUFFICES ASSUME GenInv, [Next]_vars PROVE GenInv'
    OBVIOUS
  <1>1. CASE Next
    BY <1>1, SelectKeeps, LowerKeeps, CollectKeeps, EmitKeeps DEF Next
  <1>2. CASE UNCHANGED vars
    <2>1. UNCHANGED <<mod, seeds, frontier, chosen, provided, changed, phase, body, code,
                      importRe, outcome>>
      BY <1>2 DEF vars, preludeVars
    <2>2. PreludeInv'
      BY <2>1, PreludeInvNext DEF GenInv, preludeVars
    <2>3. Unresolvable' = Unresolvable
      BY <2>1, SameMethod
    <2>4. Mentioned' = Mentioned /\ ImportsRe' = ImportsRe
      BY <2>1 DEF Mentioned, Called, ImportsRe
    <2> QED
      BY <2>1, <2>2, <2>3, <2>4 DEF GenInv
  <1> QED
    BY <1>1, <1>2

\* The invariant of generation holds in every behaviour.
THEOREM GenerationKeepsGenInv == Spec => []GenInv
  BY GenInvInit, GenInvNext, PTL DEF Spec

\* The variables keep their types, and an emitted class was lowered and has its prelude.
THEOREM GenerationIsTyped == Spec => []TypeOK
  <1>1. GenInv => TypeOK
    BY DEF GenInv, TypeOK, PreludeInv
  <1> QED
    BY <1>1, GenerationKeepsGenInv, PTL

\* Lowering makes no assertion stronger and misses no name, whatever the method's body, the
\* module it stands in and what the functions it calls do.
THEOREM NeverStronger == Spec => []NothingStronger
  <1>1. GenInv => NothingStronger
    BY EmittedIsFaithful
  <1> QED
    BY <1>1, GenerationKeepsGenInv, PTL

\* Lowering makes no assertion weaker.
THEOREM NeverWeaker == Spec => []NothingWeaker
  <1>1. GenInv => NothingWeaker
    BY EmittedIsFaithful
  <1> QED
    BY <1>1, GenerationKeepsGenInv, PTL

\* Generation searches as the prelude's own specification says: it begins with names and
\* leaves the search alone afterwards.
THEOREM GenerationSearchesPrelude == Spec => PreludeSpec
  <1>1. Init => PreludeInit
    BY DEF Init
  <1>2. GenInv /\ [Next]_vars => [PreludeNext]_preludeVars
    <2> SUFFICES ASSUME GenInv, [Next]_vars PROVE [PreludeNext]_preludeVars
      OBVIOUS
    <2>1. CASE Lower /\ code'.ok
      BY <2>1, LoweredMentions DEF Lower, PreludeNext, preludeVars
    <2>2. CASE Lower /\ ~code'.ok
      BY <2>2 DEF Lower
    <2>3. CASE Collect
      BY <2>3 DEF Collect, PreludeNext
    <2>4. CASE Select \/ Emit \/ UNCHANGED vars
      BY <2>4 DEF Select, Emit, vars
    <2> QED
      BY <2>1, <2>2, <2>3, <2>4 DEF Next
  <1> QED
    BY <1>1, <1>2, GenerationKeepsGenInv, PTL DEF Spec, PreludeSpec

\* The prelude collected for a method is closed.
THEOREM GeneratedPreludeIsClosed == Spec => []PreludeClosed
  BY GenerationSearchesPrelude, PreludeIsClosed, PTL

\* It has no statement it could do without.
THEOREM GeneratedPreludeIsMinimal == Spec => []NothingExtra
  BY GenerationSearchesPrelude, PreludeIsMinimal, PTL

-----------------------------------------------------------------------------
(* What is refused *)

\* No binding is made in sight of another of its name.
BindsOnce[b \in Body] ==
  [bound \in BOOLEAN |->
     \/ b = <<>>
     \/ LET s == Head(b)
        IN  ~(s.bind /\ bound) /\ BindsOnce[s.body][bound] /\ BindsOnce[Tail(b)][bound \/ s.bind]]

\* Whether a body binds once is decided by its head and its tail.
LEMMA BindsOnceDef ==
  /\ BindsOnce \in [Body -> [BOOLEAN -> BOOLEAN]]
  /\ \A bound \in BOOLEAN : BindsOnce[<<>>][bound]
  /\ \A b \in Body, bound \in BOOLEAN : b # <<>> =>
       LET s == Head(b)
       IN  BindsOnce[b][bound] <=> /\ ~(s.bind /\ bound) /\ BindsOnce[s.body][bound]
                                   /\ BindsOnce[Tail(b)][bound \/ s.bind]
  <1> DEFINE R == [BOOLEAN -> BOOLEAN]
             on(s, x, y, bd) == ~(s.bind /\ bd) /\ x[bd] /\ y[bd \/ s.bind]
             nil == [bd \in BOOLEAN |-> TRUE]
             cons == [p \in Statements(Body) \X R \X R |-> [bd \in BOOLEAN |-> on(p[1], p[2], p[3], bd)]]
  <1>1. \A s, x, y, bd : on(s, x, y, bd) \in BOOLEAN
    OBVIOUS
  <1>2. cons \in [Statements(Body) \X R \X R -> R]
    <2> HIDE DEF on
    <2> QED
      BY <1>1
  <1>3. \A s \in Statements(Body), x \in R, y \in R : cons[<<s, x, y>>] = [bd \in BOOLEAN |-> on(s, x, y, bd)]
    <2> HIDE DEF on
    <2> QED
      OBVIOUS
  <1>4. PICK f \in [Body -> R] : Walk(f, nil, cons)
    <2>1. nil \in R
      OBVIOUS
    <2> HIDE DEF R, cons, nil
    <2> QED
      BY <1>2, <2>1, WalkExists
  <1> HIDE DEF cons
  <1> DEFINE val(g, c, bd) ==
               \/ c = <<>>
               \/ LET s == Head(c)
                  IN  ~(s.bind /\ bd) /\ g[s.body][bd] /\ g[Tail(c)][bd \/ s.bind]
             Eq(g) == g = [c \in Body |-> [bd \in BOOLEAN |-> val(g, c, bd)]]
  <1>5. /\ \A g : \A bd \in BOOLEAN : val(g, <<>>, bd) = TRUE
        /\ \A g : \A c \in Body, bd \in BOOLEAN :
             c # <<>> => val(g, c, bd) = on(Head(c), g[Head(c).body], g[Tail(c)], bd)
    OBVIOUS
  <1> HIDE DEF val
  <1>6. Eq(f)
    <2> SUFFICES ASSUME NEW c \in Body PROVE f[c] = [bd \in BOOLEAN |-> val(f, c, bd)]
      OBVIOUS
    <2>1. CASE c = <<>>
      <3>1. f[c] = nil
        BY <2>1, <1>4 DEF Walk
      <3> QED
        BY <3>1, <2>1, <1>5
    <2>2. CASE c # <<>>
      <3>1. f[c] = cons[<<Head(c), f[Head(c).body], f[Tail(c)]>>]
        BY <2>2, <1>4 DEF Walk
      <3> HIDE DEF R, on
      <3>2. f[Head(c).body] \in R /\ f[Tail(c)] \in R /\ Head(c) \in Statements(Body)
        BY <2>2, Parts
      <3>3. f[c] = [bd \in BOOLEAN |-> on(Head(c), f[Head(c).body], f[Tail(c)], bd)]
        BY <3>1, <3>2, <1>3
      <3> QED
        BY <2>2, <3>3, <1>5
    <2> QED
      BY <2>1, <2>2
  <1>7. Eq(BindsOnce)
    <2>1. \E g : Eq(g)
      <3> HIDE DEF Eq
      <3> QED
        BY <1>6
    <2> QED
      BY <2>1, Zenon DEF BindsOnce, val
  <1>8. \A b \in Body, bd \in BOOLEAN : BindsOnce[b][bd] = val(BindsOnce, b, bd)
    <2> DEFINE at(c, bd) == val(BindsOnce, c, bd)
    <2>1. BindsOnce = [c \in Body |-> [bd \in BOOLEAN |-> at(c, bd)]]
      BY <1>7
    <2> HIDE DEF at
    <2>2. \A b \in Body, bd \in BOOLEAN : BindsOnce[b][bd] = at(b, bd)
      BY <2>1
    <2> QED
      BY <2>2 DEF at
  <1>9. BindsOnce \in [Body -> [BOOLEAN -> BOOLEAN]]
    <2>1. \A c \in Body, bd \in BOOLEAN : val(BindsOnce, c, bd) \in BOOLEAN
      <3>1. \A c \in Body, bd \in BOOLEAN : c = <<>> \/ c # <<>>
        OBVIOUS
      <3> QED
        BY <3>1, <1>1, <1>5
    <2> DEFINE at(c, bd) == val(BindsOnce, c, bd)
    <2>2. BindsOnce = [c \in Body |-> [bd \in BOOLEAN |-> at(c, bd)]]
      BY <1>7
    <2>3. \A c \in Body, bd \in BOOLEAN : at(c, bd) \in BOOLEAN
      BY <2>1
    <2> HIDE DEF at
    <2> QED
      BY <2>2, <2>3
  <1>10. \A bd \in BOOLEAN : BindsOnce[<<>>][bd]
    BY <1>5, <1>8, Parts
  <1>11. \A b \in Body, bd \in BOOLEAN : b # <<>> =>
           BindsOnce[b][bd] = on(Head(b), BindsOnce[Head(b).body], BindsOnce[Tail(b)], bd)
    BY <1>5, <1>8
  <1> QED
    BY <1>9, <1>10, <1>11

\* What the lowering or the check after it has no form for.
Unfit(s) == s.kind \in {"custom", "value"} \/ (s.kind = "raisesCall" /\ s.body = <<>>)

\* A selected body, what generate takes, and what there is to say for taking it.
Selected(b)    == \A s \in Inside[b] : s.kind \in Written \ {"odd", "readOther"}
Fit(b, bound)  == (\A s \in Inside[b] : ~Unfit(s)) /\ BindsOnce[b][bound]

\* The code of a statement is taken if that of its body is, the statement has a form and it
\* is no second binding.
LEMMA HeadGenerated ==
  ASSUME NEW s \in Statements(Body), s.body \in Body, s.kind \in Written \ {"odd", "readOther"},
         NEW at \in Sight, NEW inner, inner = LowerBlock[s.body][at],
         NEW first, first = First(s, inner, at), first.out \in Body
  PROVE  /\ Generated(first) <=> Generated(inner) /\ ~Unfit(s) /\ ~(s.bind /\ at.cm # 0)
         /\ s.bind => first.next # 0
  <1> DEFINE code0 == LowerStmt(s, inner, at)
             Plain(t) == t.kind \notin {"custom", "value", "raises"}
  <1>1. inner \in Codes(Body) /\ inner \in Codes(Tree)
    BY LowerFits, LowerBlockDef
  <1>2. inner.out \in Body /\ inner.next \in Nat /\ inner.ok \in BOOLEAN /\ Inside[<<>>] = {}
    BY <1>1, InsideDef DEF Codes
  <1>3. /\ first.out = code0.out /\ first.next = code0.next
        /\ first.ok <=> code0.ok /\ ~(s.bind /\ at.cm # 0)
    BY <1>1, FirstRest
  <1>4. s.bind => s.kind = "raises"
    BY DEF Statements, Written
  <1> HIDE DEF code0
  <1>5. Generated(first) <=> code0.ok /\ ~(s.bind /\ at.cm # 0) /\ \A t \in Inside[code0.out] : Plain(t)
    BY <1>3 DEF Generated
  <1>6. Generated(inner) <=> inner.ok /\ \A t \in Inside[inner.out] : Plain(t)
    BY DEF Generated
  <1>7. \A out : code0.out = <<out>> =>
          ((\A t \in Inside[code0.out] : Plain(t)) <=> Plain(out) /\ \A t \in Inside[out.body] : Plain(t))
    <2> SUFFICES ASSUME NEW out, code0.out = <<out>>
                 PROVE  (\A t \in Inside[code0.out] : Plain(t))
                           <=> Plain(out) /\ \A t \in Inside[out.body] : Plain(t)
      OBVIOUS
    <2>1. Inside[code0.out] = {out} \cup Inside[out.body]
      BY <1>3, Single
    <2> QED
      BY <2>1
  <1>8. s.kind \in {"call", "fail", "return", "read"} =>
          inner.ok /\ \A t \in Inside[inner.out] : Plain(t)
    <2> SUFFICES ASSUME s.kind \in {"call", "fail", "return", "read"}
                 PROVE  inner.ok /\ Inside[inner.out] = {}
      OBVIOUS
    <2>1. s.body = <<>>
      BY DEF Statements
    <2>2. inner = Code(<<>>, at.next, TRUE)
      BY <2>1, LowerBlockDef
    <2> QED
      BY <2>2, <1>2 DEF Code
  <1>9. CASE s.kind = "subTest"
    <2>1. code0 = inner
      BY <1>9 DEF code0, LowerStmt, Asserting
    <2> QED
      BY <2>1, <1>4, <1>5, <1>6, <1>9 DEF Unfit
  <1>10. CASE s.kind = "fail"
    <2>1. code0 = Code(<<Stmt("assertFalse", <<>>)>>, at.next, TRUE)
      BY <1>10 DEF code0, LowerStmt, Asserting
    <2>2. code0.out = <<Stmt("assertFalse", <<>>)>> /\ code0.ok
      BY <2>1 DEF Code
    <2>3. Plain(Stmt("assertFalse", <<>>)) /\ Stmt("assertFalse", <<>>).body = <<>>
      BY DEF Stmt
    <2> QED
      BY <2>2, <2>3, <1>2, <1>4, <1>5, <1>6, <1>7, <1>8, <1>10 DEF Unfit
  <1>11. CASE Asserting(s)
    <2>1. code0 = Code(Scaffold(s, inner.out, inner.next + 1), inner.next + 1,
                       inner.ok /\ (s.kind = "raisesCall" => s.body # <<>>))
      BY <1>11 DEF code0, LowerStmt, Asserting
    <2>2. /\ code0.out = Scaffold(s, inner.out, inner.next + 1) /\ code0.next = inner.next + 1
          /\ code0.ok <=> inner.ok /\ (s.kind = "raisesCall" => s.body # <<>>)
      BY <2>1 DEF Code
    <2>3. (\A t \in Inside[code0.out] : Plain(t)) <=> \A t \in Inside[inner.out] : Plain(t)
      <3>1. /\ Inside[inner.out] \subseteq Inside[code0.out]
            /\ \A t \in Inside[code0.out] :
                 t \in Inside[inner.out] \/ t.kind \in {"reset", "try", "assertFlag"}
        <4>1. inner.next + 1 \in Nat /\ Scaffold(s, inner.out, inner.next + 1) \in Body
          BY <1>2, <1>3, <2>2
        <4> QED
          BY <4>1, <1>2, <1>11, <2>2, ScaffoldRuns
      <3> QED
        BY <3>1
    <2>4. ~Unfit(s) <=> (s.kind = "raisesCall" => s.body # <<>>)
      BY <1>11 DEF Unfit, Asserting
    <2> QED
      BY <2>2, <2>3, <2>4, <1>2, <1>3, <1>5, <1>6
  <1>12. CASE s.kind = "block"
    <2>1. code0 = Code(<<[s EXCEPT !.body = inner.out]>>, inner.next, inner.ok)
      BY <1>12 DEF code0, LowerStmt, Asserting
    <2>2. code0.out = <<[s EXCEPT !.body = inner.out]>> /\ (code0.ok <=> inner.ok)
      BY <2>1 DEF Code
    <2>3. Plain([s EXCEPT !.body = inner.out]) /\ [s EXCEPT !.body = inner.out].body = inner.out
      BY <1>12 DEF Statements
    <2> QED
      BY <2>2, <2>3, <1>4, <1>5, <1>6, <1>7, <1>12 DEF Unfit
  <1>13. CASE s.kind = "read"
    <2>1. code0 = Code(<<RewriteCm(s, at.cm)>>, at.next, TRUE)
      BY <1>13 DEF code0, LowerStmt, Asserting
    <2>2. code0.out = <<RewriteCm(s, at.cm)>> /\ code0.ok
      BY <2>1 DEF Code
    <2>3. Plain(RewriteCm(s, at.cm)) /\ RewriteCm(s, at.cm).body = <<>>
      BY <1>13 DEF RewriteCm, Stmt, Statements
    <2> QED
      BY <2>2, <2>3, <1>2, <1>4, <1>5, <1>6, <1>7, <1>8, <1>13 DEF Unfit
  <1>14. CASE s.kind \in {"call", "return"}
    <2>1. code0 = Code(<<s>>, at.next, TRUE) /\ s.body = <<>>
      BY <1>14 DEF code0, LowerStmt, Asserting, Statements
    <2>2. code0.out = <<s>> /\ code0.ok
      BY <2>1 DEF Code
    <2> QED
      BY <2>1, <2>2, <1>2, <1>4, <1>5, <1>6, <1>7, <1>8, <1>14 DEF Unfit
  <1>15. CASE s.kind \in {"custom", "value"}
    <2>1. code0 = Code(<<s>>, at.next, TRUE)
      BY <1>15 DEF code0, LowerStmt, Asserting
    <2>2. code0.out = <<s>>
      BY <2>1 DEF Code
    <2> QED
      BY <2>2, <1>4, <1>5, <1>7, <1>15 DEF Unfit
  <1> QED
    BY <1>9, <1>10, <1>11, <1>12, <1>13, <1>14, <1>15 DEF Written, Asserting

\* Of a selected body, what is refused is what has no form and what binds again.
LEMMA GeneratedWhenFit ==
  ASSUME NEW b \in Body, Selected(b), NEW at \in Sight
  PROVE  Generated(LowerBlock[b][at]) <=> Fit(b, at.cm # 0)
  <1> DEFINE T == {c \in Body : Selected(c) => \A a \in Sight : Generated(LowerBlock[c][a]) <=> Fit(c, a.cm # 0)}
  <1>1. <<>> \in T
    <2> SUFFICES ASSUME NEW a \in Sight PROVE Generated(LowerBlock[<<>>][a]) /\ Fit(<<>>, a.cm # 0)
      BY Parts
    <2>1. LowerBlock[<<>>][a] = Code(<<>>, a.next, TRUE)
      BY LowerBlockDef
    <2>2. LowerBlock[<<>>][a].ok /\ LowerBlock[<<>>][a].out = <<>>
      BY <2>1 DEF Code
    <2> QED
      BY <2>2, InsideDef, BindsOnceDef DEF Generated, Fit
  <1>2. ASSUME NEW c \in Body, c # <<>>, Head(c).body \in T, Tail(c) \in T PROVE c \in T
    <2> SUFFICES ASSUME Selected(c), NEW a \in Sight
                 PROVE  Generated(LowerBlock[c][a]) <=> Fit(c, a.cm # 0)
      OBVIOUS
    <2> DEFINE s     == Head(c)
               inner == LowerBlock[s.body][a]
               first == First(s, inner, a)
               to    == RestAt(s, first, a)
               rest  == LowerBlock[Tail(c)][to]
    <2>1. s \in Statements(Body) /\ s.body \in Body /\ Tail(c) \in Body
      BY <1>2, Parts
    <2>2. Inside[c] = {s} \cup Inside[s.body] \cup Inside[Tail(c)]
      BY <1>2, InsideDef
    <2>3. Selected(s.body) /\ Selected(Tail(c)) /\ s.kind \in Written \ {"odd", "readOther"}
      BY <2>2 DEF Selected
    <2>4. inner \in Codes(Tree) /\ to \in Sight
      BY <2>1, LowerBlockDef, FirstRest
    <2>5. first.out \in Body /\ rest \in Codes(Body) /\ rest.out \in Body
      <3>1. rest \in Codes(Body)
        BY <2>1, <2>4, LowerFits
      <3> QED
        BY <3>1, <1>2, LowerFits DEF Codes
    <2>6. /\ Generated(first) <=> Generated(inner) /\ ~Unfit(s) /\ ~(s.bind /\ a.cm # 0)
          /\ s.bind => first.next # 0
      BY <2>1, <2>3, <2>5, HeadGenerated
    <2>7. to.cm # 0 <=> a.cm # 0 \/ s.bind
      BY <2>6 DEF RestAt
    <2>8. /\ Generated(inner) <=> Fit(s.body, a.cm # 0)
          /\ Generated(rest) <=> Fit(Tail(c), to.cm # 0)
      BY <1>2, <2>3, <2>4
    <2>9. LowerBlock[c][a] = Then(first, rest)
      BY <1>2, LowerBlockDef
    <2>10. BindsOnce[c][a.cm # 0] <=> /\ ~(s.bind /\ a.cm # 0) /\ BindsOnce[s.body][a.cm # 0]
                                      /\ BindsOnce[Tail(c)][a.cm # 0 \/ s.bind]
      BY <1>2, BindsOnceDef
    <2> HIDE DEF s, inner, first, to, rest
    <2>11. Generated(Then(first, rest)) <=> Generated(first) /\ Generated(rest)
      <3>1. Then(first, rest).out = first.out \o rest.out /\ (Then(first, rest).ok <=> first.ok /\ rest.ok)
        BY DEF Then, Code
      <3>2. Inside[first.out \o rest.out] = Inside[first.out] \cup Inside[rest.out]
        BY <2>5, InsideConcat
      <3> QED
        BY <3>1, <3>2 DEF Generated
    <2>12. Fit(c, a.cm # 0) <=> /\ ~Unfit(s) /\ ~(s.bind /\ a.cm # 0) /\ Fit(s.body, a.cm # 0)
                                /\ Fit(Tail(c), a.cm # 0 \/ s.bind)
      BY <2>2, <2>10 DEF Fit
    <2>13. Fit(Tail(c), to.cm # 0) <=> Fit(Tail(c), a.cm # 0 \/ s.bind)
      <3>1. (to.cm # 0) = (a.cm # 0 \/ s.bind)
        BY <2>1, <2>7 DEF Statements
      <3> QED
        BY <3>1
    <2> QED
      BY <2>6, <2>8, <2>9, <2>11, <2>12, <2>13
  <1>3. Body \subseteq T
    <2> HIDE DEF T
    <2> QED
      BY <1>1, <1>2, Induct
  <1> QED
    BY <1>3

\* A selected method becomes a program if its body fits and its prelude has nothing dynamic,
\* and is skipped otherwise: the two outcomes exclude each other.
Acceptable == Fit(body, FALSE) /\ NamesOf(chosen) \cap Dynamic = {}
RefusedForCause ==
  /\ outcome = "emitted" => Acceptable
  /\ outcome = "skipped" => ~Acceptable

\* A step that gives a method its outcome gives the one its body and prelude call for.
LEMMA RefusedNext == GenInv /\ RefusedForCause /\ [Next]_vars => RefusedForCause'
  <1> SUFFICES ASSUME GenInv, RefusedForCause, [Next]_vars PROVE RefusedForCause'
    OBVIOUS
  <1>1. AtStart \in Sight /\ AtStart.cm = 0
    BY DEF AtStart, Sight
  <1>2. body \in Body /\ outcome \in {"selected", "lowered"} => Selected(body)
    BY DEF GenInv, Selected, Lowerable
  <1>3. outcome \in {"selected", "lowered"} =>
          (Generated(LowerBlock[body][AtStart]) <=> Fit(body, FALSE))
    <2>1. (AtStart.cm # 0) = FALSE
      BY <1>1
    <2> QED
      BY <1>1, <1>2, <2>1, GeneratedWhenFit DEF GenInv
  <1>4. CASE Select
    BY <1>4 DEF Select, RefusedForCause
  <1>5. CASE Lower
    <2>1. outcome = "selected" /\ code' = LowerBlock[body][AtStart] /\ body' = body
      BY <1>5 DEF Lower, AtStart
    <2>2. CASE outcome' = "lowered"
      BY <2>2 DEF RefusedForCause
    <2>3. CASE outcome' = "skipped" /\ ~code'.ok
      <3>1. ~Generated(LowerBlock[body][AtStart])
        BY <2>1, <2>3 DEF Generated
      <3> QED
        BY <1>3, <2>1, <2>3, <3>1 DEF RefusedForCause, Acceptable
    <2> QED
      BY <1>5, <2>2, <2>3 DEF Lower
  <1>6. CASE Collect
    BY <1>6 DEF Collect, RefusedForCause
  <1>7. CASE Emit
    <2>1. /\ outcome = "lowered" /\ code = LowerBlock[body][AtStart]
          /\ body' = body /\ chosen' = chosen /\ mod' = mod
      BY <1>7 DEF Emit, GenInv, preludeVars
    <2>2. Acceptable' <=> Generated(code) /\ NamesOf(chosen) \cap Dynamic = {}
      BY <1>3, <2>1 DEF Acceptable, NamesOf
    <2> QED
      BY <1>7, <2>2 DEF Emit, RefusedForCause
  <1>8. CASE UNCHANGED vars
    BY <1>8 DEF vars, preludeVars, RefusedForCause, Acceptable, NamesOf
  <1> QED
    BY <1>4, <1>5, <1>6, <1>7, <1>8 DEF Next

\* What selection took and generation refused has a body that a form or a second binding
\* unfits, or an exec in its prelude; whatever else was selected is emitted.
THEOREM SelectedIsEmitted == Spec => []RefusedForCause
  <1>1. Init => RefusedForCause
    BY DEF Init, RefusedForCause
  <1> QED
    BY <1>1, RefusedNext, GenInvInit, GenInvNext, PTL DEF Spec
=============================================================================
