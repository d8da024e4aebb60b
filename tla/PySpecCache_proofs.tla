-------------------------- MODULE PySpecCache_proofs --------------------------
(***************************************************************************)
(* For every set of modules, every depth of imports and every number of    *)
(* runs, edits, kills and failed writes: what counts as up to date is      *)
(* current, what is kept was translated cleanly, what fails has a cause    *)
(* among its imports and what overflows the stack has imports in a circle. *)
(*                                                                         *)
(* IInv is about what is kept.  No modification time is ahead of the       *)
(* clock, and each translation under way holds the text of its source,     *)
(* unless that was edited during a run, has come to some point of its      *)
(* imports, and is without errors only if all of them so far are there.    *)
(* CauseInv, further down, is about what fails, and DoneInv about what a   *)
(* run has come to.                                                        *)
(***************************************************************************)
EXTENDS PySpecCache, SequenceTheorems, FiniteSetTheorems, TLAPS

SourceOK ==
  /\ source \in [Sourced -> [at : Nat, text : UNION {TextsOf[m] : m \in Modules}]]
  /\ \A m \in Sourced : source[m].at <= now

FileOK ==
  /\ DOMAIN file = Files
  /\ \A f \in Files : file[f].at \in Nat /\ file[f].at <= now

FrameFields == {"mod", "into", "text", "left", "found", "failed", "bad"}

\* An import of a module that has a source, and declares the name as far as a run can tell.
Kept(imp) == /\ imp.from \in Sourced
             /\ imp.from \notin raced => imp.name \in Provides(source[imp.from].text)

\* The imports left are the last ones of the text; without errors, those before are kept.
LeftOK(fr) ==
  \E n \in Nat :
    /\ n + Len(fr.left) = Len(fr.text.imports)
    /\ \A j \in 1..Len(fr.left) : fr.left[j] = fr.text.imports[n + j]
    /\ ~fr.bad => \A i \in 1..n : Kept(fr.text.imports[i])

FrameOK(fr) ==
  /\ DOMAIN fr = FrameFields
  /\ fr.mod \in Sourced
  /\ fr.into \in {Asked(fr.mod), Imported(fr.mod)}
  /\ fr.text \in Text /\ fr.left \in Seq(Import) /\ fr.bad \in BOOLEAN
  /\ fr.mod \notin raced => fr.text = source[fr.mod].text
  /\ DOMAIN fr.found \subseteq Sourced
  /\ \A k \in DOMAIN fr.found \ raced : fr.found[k] = Provides(source[k].text)
  /\ (fr.failed # {} \/ ~fr.text.sound) => fr.bad
  /\ LeftOK(fr)

FramesOK(s) ==
  /\ \E S : s \in Seq(S)
  /\ \A i \in 1..Len(s) : FrameOK(s[i])

IInv ==
  /\ now \in Nat
  /\ SourceOK
  /\ FileOK
  /\ FramesOK(stack)
  /\ todo \subseteq Sourced
  /\ asked \subseteq Sourced
  /\ raced \subseteq Sourced
  /\ writing => stack # <<>> /\ Top.left = <<>> /\ ~Top.bad
  /\ NewerIsCurrent
  /\ ImportsHold

\* The file of a translation is of no other module.
LEMMA OwnFile ==
  ASSUME NEW m \in Sourced, NEW k \in Sourced, NEW f \in {Asked(m), Imported(m)},
         f \in {Asked(k), Imported(k)}
  PROVE  m = k
  BY DEF Asked, Imported

\* The files of a module with a source are among those a directory may hold.
LEMMA FilesOf ==
  ASSUME NEW m \in Sourced
  PROVE  Asked(m) \in Files /\ Imported(m) \in Files
  BY DEF Asked, Imported, Files, Sourced

\* Between modules no translation is under way.
LEMMA NoFrames == FramesOK(<<>>)
  <1>1. <<>> \in Seq({})
    OBVIOUS
  <1> QED BY <1>1 DEF FramesOK

\* Nothing is translated yet, and no specification is there.
LEMMA InitOK == Init => IInv
  <1> SUFFICES ASSUME Init PROVE IInv
    OBVIOUS
  <1>1. now \in Nat /\ todo \subseteq Sourced /\ asked \subseteq Sourced /\ raced \subseteq Sourced
    BY DEF Init
  <1>2. SourceOK
    BY DEF Init, SourceOK
  <1>3. FileOK
    BY DEF Init, FileOK, Absent
  <1>4. FramesOK(stack)
    BY NoFrames DEF Init
  <1>5. NewerIsCurrent
    BY FilesOf DEF Init, NewerIsCurrent, Newer, Absent
  <1>6. ImportsHold
    BY FilesOf DEF Init, ImportsHold, Newer, Absent
  <1> QED BY <1>1, <1>2, <1>3, <1>4, <1>5, <1>6 DEF IInv, Init

\* A frame put on the stack is the last.
LEMMA PushedAt ==
  ASSUME NEW s, FramesOK(s), NEW fr
  PROVE  /\ Len(s) \in Nat /\ Len(Append(s, fr)) = Len(s) + 1
         /\ \A i \in 1..Len(s) + 1 : Append(s, fr)[i] = IF i <= Len(s) THEN s[i] ELSE fr
  <1>1. PICK S : s \in Seq(S)
    BY DEF FramesOK
  <1> DEFINE T == S \cup {fr}
  <1>2. s \in Seq(T) /\ fr \in T
    BY <1>1
  <1> QED BY <1>2

\* What is under the innermost frame is the stack but for it.
LEMMA PoppedAt ==
  ASSUME NEW s, FramesOK(s), s # <<>>
  PROVE  /\ Len(s) \in Nat \ {0} /\ Len(SubSeq(s, 1, Len(s) - 1)) = Len(s) - 1
         /\ \A i \in 1..Len(s) - 1 : SubSeq(s, 1, Len(s) - 1)[i] = s[i]
         /\ \E S : SubSeq(s, 1, Len(s) - 1) \in Seq(S)
  <1>1. PICK S : s \in Seq(S)
    BY DEF FramesOK
  <1>2. Len(s) \in Nat \ {0} /\ \A i \in 1..Len(s) : s[i] \in S
    BY <1>1
  <1> DEFINE n == Len(s) - 1
             t == SubSeq(s, 1, n)
  <1>3. n \in Nat /\ \A i \in 1..n : s[i] \in S
    BY <1>2
  <1>4. /\ t \in Seq(S)
        /\ Len(t) = IF 1 <= n THEN n - 1 + 1 ELSE 0
        /\ \A i \in 1..(n - 1 + 1) : t[i] = s[1 + i - 1]
    BY <1>3, SubSeqProperties
  <1>5. n \in Nat
    BY <1>3
  <1> HIDE DEF n, t
  <1>6. Len(t) = n
    BY <1>4, <1>5
  <1>7. ASSUME NEW i \in 1..n PROVE t[i] = s[i]
    <2>1. i \in 1..(n - 1 + 1) /\ 1 + i - 1 = i
      BY <1>5
    <2>2. t[i] = s[1 + i - 1]
      BY <1>4, <2>1
    <2> QED BY <2>1, <2>2
  <1> QED BY <1>2, <1>4, <1>6, <1>7 DEF n, t

\* A frame put on the stack, and one taken off it.
LEMMA Pushed ==
  ASSUME NEW s, FramesOK(s), NEW fr, FrameOK(fr)
  PROVE  FramesOK(Append(s, fr))
  <1>1. PICK S : s \in Seq(S)
    BY DEF FramesOK
  <1>2. s \in Seq(S \cup {fr}) /\ fr \in S \cup {fr}
    BY <1>1
  <1>3. Append(s, fr) \in Seq(S \cup {fr})
    BY <1>2
  <1>4. \A i \in 1..Len(Append(s, fr)) : FrameOK(Append(s, fr)[i])
    BY PushedAt DEF FramesOK
  <1> QED BY <1>3, <1>4 DEF FramesOK

\* What is under the innermost frame is a stack, and the innermost frame a good one.
LEMMA Popped ==
  ASSUME NEW s, FramesOK(s), s # <<>>
  PROVE  /\ FramesOK(SubSeq(s, 1, Len(s) - 1)) /\ FrameOK(s[Len(s)])
         /\ Len(s) \in Nat \ {0} /\ Len(SubSeq(s, 1, Len(s) - 1)) = Len(s) - 1
  <1> DEFINE t == SubSeq(s, 1, Len(s) - 1)
  <1>1. /\ Len(s) \in Nat \ {0} /\ Len(t) = Len(s) - 1 /\ \E S : t \in Seq(S)
        /\ \A i \in 1..Len(s) - 1 : t[i] = s[i]
    BY PoppedAt
  <1> HIDE DEF t
  <1>2. \A i \in 1..Len(t) : t[i] = s[i] /\ i \in 1..Len(s)
    BY <1>1
  <1>3. Len(s) \in 1..Len(s)
    BY <1>1
  <1> QED BY <1>1, <1>2, <1>3 DEF FramesOK, t

\* A sequence that is not empty is its first element and the rest.
LEMMA HeadAndTail ==
  ASSUME NEW S, NEW s \in Seq(S), s # <<>>
  PROVE  /\ Len(s) \in Nat \ {0} /\ Head(s) = s[1] /\ Head(s) \in S
         /\ Tail(s) \in Seq(S) /\ Len(Tail(s)) = Len(s) - 1
         /\ \A j \in 1..Len(Tail(s)) : Tail(s)[j] = s[j + 1]
  OBVIOUS

\* The import at hand taken, the imports left are one fewer, and it was kept if there is
\* no error.
LEMMA Taken ==
  ASSUME NEW fr, FrameOK(fr), fr.left # <<>>,
         Head(fr.left).from \in DOMAIN fr.found \cup fr.failed
  PROVE  FrameOK(Take(fr))
  <1> DEFINE i == Head(fr.left)
             g == Take(fr)
  <1>1. /\ DOMAIN g = FrameFields /\ g.mod = fr.mod /\ g.into = fr.into /\ g.text = fr.text
        /\ g.found = fr.found /\ g.failed = fr.failed /\ g.left = Tail(fr.left)
        /\ g.bad = (fr.bad \/ (i.from \notin fr.failed /\ i.name \notin fr.found[i.from]))
    BY DEF FrameOK, FrameFields, Take
  <1>2. /\ Len(fr.left) \in Nat \ {0} /\ i = fr.left[1] /\ i \in Import
        /\ Tail(fr.left) \in Seq(Import) /\ Len(Tail(fr.left)) = Len(fr.left) - 1
        /\ \A j \in 1..Len(Tail(fr.left)) : Tail(fr.left)[j] = fr.left[j + 1]
    BY HeadAndTail DEF FrameOK
  <1>3. g.bad \in BOOLEAN /\ (fr.bad => g.bad)
    BY <1>1 DEF FrameOK
  <1>4. ~g.bad => Kept(i)
    BY <1>1 DEF FrameOK, Kept
  <1>5. PICK n \in Nat :
          /\ n + Len(fr.left) = Len(fr.text.imports)
          /\ \A j \in 1..Len(fr.left) : fr.left[j] = fr.text.imports[n + j]
          /\ ~fr.bad => \A h \in 1..n : Kept(fr.text.imports[h])
    BY DEF FrameOK, LeftOK
  <1> HIDE DEF i, g
  <1>6. /\ n + 1 \in Nat
        /\ n + 1 + Len(g.left) = Len(g.text.imports)
        /\ \A j \in 1..Len(g.left) : g.left[j] = g.text.imports[n + 1 + j]
    <2>1. n + 1 \in Nat /\ n + 1 + Len(g.left) = Len(g.text.imports)
      <3>1. \A l \in Nat \ {0} : n + 1 \in Nat /\ n + 1 + (l - 1) = n + l
        BY <1>5
      <3>2. Len(g.left) = Len(fr.left) - 1 /\ Len(g.text.imports) = Len(fr.text.imports)
        BY <1>1, <1>2
      <3>3. n + Len(fr.left) = Len(fr.text.imports)
        BY <1>5
      <3> QED BY <1>2, <3>1, <3>2, <3>3
    <2>2. ASSUME NEW j \in 1..Len(g.left) PROVE g.left[j] = g.text.imports[n + 1 + j]
      <3>1. j + 1 \in 1..Len(fr.left) /\ n + (j + 1) = n + 1 + j
        BY <1>1, <1>2
      <3>2. g.left[j] = fr.left[j + 1]
        BY <1>1, <1>2
      <3>3. fr.left[j + 1] = fr.text.imports[n + (j + 1)]
        BY <1>5, <3>1
      <3> QED BY <1>1, <3>1, <3>2, <3>3
    <2> QED BY <2>1, <2>2
  <1>7. ~g.bad => \A h \in 1..n + 1 : Kept(g.text.imports[h])
    <2>1. i = fr.text.imports[n + 1]
      BY <1>2, <1>5
    <2>2. \A h \in 1..n + 1 : h \in 1..n \/ h = n + 1
      OBVIOUS
    <2> QED BY <1>1, <1>3, <1>4, <1>5, <2>1, <2>2
  <1>8. LeftOK(g)
    BY <1>6, <1>7 DEF LeftOK
  <1> QED BY <1>1, <1>2, <1>3, <1>8 DEF FrameOK, g

\* What a translation learns of a module is what that module provides.
LEMMA Learnt ==
  ASSUME NEW fr, FrameOK(fr), NEW k \in Sourced, NEW names,
         k \notin raced => names = Provides(source[k].text)
  PROVE  FrameOK(Learn(fr, k, names))
  <1> DEFINE g == Learn(fr, k, names)
  <1>1. /\ DOMAIN g = FrameFields /\ g.mod = fr.mod /\ g.into = fr.into /\ g.text = fr.text
        /\ g.failed = fr.failed /\ g.left = fr.left /\ g.bad = fr.bad
        /\ g.found = [j \in DOMAIN fr.found \cup {k} |-> IF j = k THEN names ELSE fr.found[j]]
    BY DEF FrameOK, FrameFields, Learn
  <1> HIDE DEF g
  <1>2. /\ DOMAIN g.found = DOMAIN fr.found \cup {k}
        /\ \A j \in DOMAIN g.found : g.found[j] = IF j = k THEN names ELSE fr.found[j]
    BY <1>1
  <1>3. LeftOK(g)
    BY <1>1 DEF FrameOK, LeftOK
  <1> QED BY <1>1, <1>2, <1>3 DEF FrameOK, g

\* A module refused to a translation is an error in it.
LEMMA Refused ==
  ASSUME NEW fr, FrameOK(fr), NEW k
  PROVE  FrameOK(Refuse(fr, k))
  <1> DEFINE g == Refuse(fr, k)
  <1>1. /\ DOMAIN g = FrameFields /\ g.mod = fr.mod /\ g.into = fr.into /\ g.text = fr.text
        /\ g.found = fr.found /\ g.left = fr.left /\ g.bad = TRUE
    BY DEF FrameOK, FrameFields, Refuse
  <1> HIDE DEF g
  <1>2. LeftOK(g)
    BY <1>1 DEF FrameOK, LeftOK
  <1> QED BY <1>1, <1>2 DEF FrameOK, g

\* A source says one of the texts of its module.
LEMMA SourceText ==
  ASSUME SourceOK, NEW m \in Sourced
  PROVE  source[m].text \in Text
  BY PySpecAssumption DEF SourceOK

\* A translation that starts holds the text its source has then.
LEMMA NewFrame ==
  ASSUME SourceOK, NEW m \in Sourced, NEW f \in {Asked(m), Imported(m)}, NEW bad \in BOOLEAN
  PROVE  FrameOK(Frame(m, f, source[m].text, bad))
  <1> DEFINE t == source[m].text
             g == Frame(m, f, t, bad)
  <1>1. t \in Text /\ t.sound \in BOOLEAN /\ t.imports \in Seq(Import) /\ Len(t.imports) \in Nat
    BY SourceText DEF Text
  <1> HIDE DEF t
  <1>2. /\ DOMAIN g = FrameFields /\ g.mod = m /\ g.into = f /\ g.text = t
        /\ g.left = t.imports
        /\ g.found = [k \in {} |-> {}] /\ g.failed = {} /\ g.bad = (bad \/ ~t.sound)
    BY DEF Frame, FrameFields
  <1> HIDE DEF g
  <1>3. g.left \in Seq(Import) /\ g.bad \in BOOLEAN /\ DOMAIN g.found = {}
    BY <1>1, <1>2
  <1>4. LeftOK(g)
    BY <1>1, <1>2 DEF LeftOK
  <1> QED BY <1>1, <1>2, <1>3, <1>4 DEF FrameOK, g, t

\* While only sources edited during a run change, the frames stay as good as they were.
LEMMA SameFrames ==
  ASSUME raced \subseteq raced', \A k \in Sourced \ raced' : source'[k] = source[k],
         NEW s, FramesOK(s), stack' = s
  PROVE  FramesOK(stack)'
  <1>1. ASSUME NEW i \in 1..Len(s) PROVE FrameOK(stack[i])'
    <2> DEFINE fr == s[i]
    <2>1. FrameOK(fr) /\ stack'[i] = fr
      BY <1>1 DEF FramesOK
    <2>2. \A imp : Kept(imp) => Kept(imp)'
      BY DEF Kept
    <2>3. LeftOK(stack[i])'
      BY <2>1, <2>2 DEF FrameOK, LeftOK
    <2> QED BY <2>1, <2>3 DEF FrameOK
  <1> QED BY <1>1 DEF FramesOK

\* When a translation ends, its importer's frame is the only one that changes.
LEMMA Returned ==
  ASSUME IInv, stack # <<>>, NEW good, NEW lost, Return(good, lost), UNCHANGED <<source, raced>>
  PROVE  FramesOK(stack)' /\ todo' \subseteq Sourced /\ asked' \subseteq Sourced
  <1>1. FramesOK(Under) /\ FrameOK(Top) /\ Len(stack) \in Nat \ {0} /\ Len(Under) = Len(stack) - 1
    BY Popped DEF IInv, Under, Top
  <1>2. CASE Len(stack) = 1
    <2>1. stack' = <<>> /\ todo' \subseteq Sourced /\ asked' \subseteq Sourced
      BY <1>2 DEF Return, Proceed, Over, Remaining, IInv
    <2> QED BY <2>1, NoFrames, SameFrames
  <1>3. CASE Len(stack) # 1
    <2> DEFINE importer == Under[Len(Under)]
               below    == SubSeq(Under, 1, Len(Under) - 1)
               told     == IF good THEN Learn(importer, Top.mod, Provides(Top.text))
                                   ELSE Refuse(importer, Top.mod)
    <2>1. stack' = Append(below, told) /\ todo' = todo /\ asked' = asked
      BY <1>3 DEF Return
    <2>2. Under # <<>>
      BY <1>1, <1>3
    <2>3. FramesOK(below) /\ FrameOK(importer)
      BY <1>1, <2>2, Popped
    <2>4. FrameOK(told)
      <3>1. Top.mod \in Sourced /\ (Top.mod \notin raced => Top.text = source[Top.mod].text)
        BY <1>1 DEF FrameOK
      <3>2. FrameOK(Learn(importer, Top.mod, Provides(Top.text)))
        BY <2>3, <3>1, Learnt
      <3>3. FrameOK(Refuse(importer, Top.mod))
        BY <2>3, Refused
      <3> QED BY <3>2, <3>3
    <2>5. FramesOK(Append(below, told))
      BY <2>3, <2>4, Pushed
    <2> QED BY <2>1, <2>5, SameFrames DEF IInv
  <1> QED BY <1>2, <1>3

\* A step that leaves sources, files and the clock alone has only the frames to keep.
LEMMA FramesOnly ==
  ASSUME IInv, UNCHANGED <<source, file, now, raced>>, FramesOK(stack)',
         todo' \subseteq Sourced, asked' \subseteq Sourced,
         ~writing' \/ UNCHANGED <<writing, stack>>
  PROVE  IInv'
  <1>1. SourceOK' /\ FileOK' /\ NewerIsCurrent'
    BY DEF IInv, SourceOK, FileOK, NewerIsCurrent, Newer
  <1>2. ImportsHold'
    BY DEF IInv, ImportsHold, Newer
  <1>3. (writing => stack # <<>> /\ Top.left = <<>> /\ ~Top.bad)'
    BY DEF IInv, Top
  <1> QED BY <1>1, <1>2, <1>3 DEF IInv

\* A translation that is through without errors has found everything it imports.
LEMMA Finished ==
  ASSUME NEW fr, FrameOK(fr), fr.left = <<>>, ~fr.bad
  PROVE  fr.text.sound /\ \A i \in DOMAIN fr.text.imports : Kept(fr.text.imports[i])
  <1>1. PICK n \in Nat : n + Len(fr.left) = Len(fr.text.imports)
                         /\ \A i \in 1..n : Kept(fr.text.imports[i])
    BY DEF FrameOK, LeftOK
  <1>2. Len(fr.left) = 0 /\ fr.text.imports \in Seq(Import)
    BY DEF FrameOK, Text
  <1>3. DOMAIN fr.text.imports = 1..n
    BY <1>1, <1>2
  <1> QED BY <1>1, <1>3 DEF FrameOK

\* The innermost translation's file is written: either not whole, or of a source that is
\* current and whose imports were all found.
LEMMA Written ==
  ASSUME IInv, stack # <<>>, UNCHANGED <<source, now, raced>>, NEW whole, NEW text,
         file' = [file EXCEPT ![Top.into] = [there |-> TRUE, whole |-> whole, at |-> now, text |-> text]],
         whole = FALSE \/ (text = Top.text /\ Top.left = <<>> /\ ~Top.bad)
  PROVE  FileOK' /\ NewerIsCurrent' /\ ImportsHold'
  <1>1. FrameOK(Top)
    BY Popped DEF IInv, Top
  <1>2. Top.mod \in Sourced /\ Top.into \in Files
    BY <1>1, FilesOf DEF FrameOK
  <1>3. FileOK'
    BY <1>2 DEF IInv, FileOK
  <1>4. ASSUME NEW m \in Sourced, NEW f \in {Asked(m), Imported(m)}, Newer(f, m)', file'[f].whole
        PROVE  \/ Newer(f, m) /\ file[f].whole /\ file'[f] = file[f]
               \/ /\ m = Top.mod /\ file'[f].text = Top.text
                  /\ Top.left = <<>> /\ ~Top.bad
    <2>1. f \in Files
      BY FilesOf
    <2>2. CASE f = Top.into
      <3>1. m = Top.mod
        BY <2>2, <1>1, OwnFile DEF FrameOK
      <3> QED BY <1>2, <1>4, <2>1, <2>2, <3>1 DEF IInv, FileOK
    <2>3. CASE f # Top.into
      <3>1. file'[f] = file[f]
        BY <2>1, <2>3 DEF IInv, FileOK
      <3> QED BY <1>4, <3>1 DEF Newer
    <2> QED BY <2>2, <2>3
  <1>5. NewerIsCurrent'
    <2>1. ASSUME NEW m \in Sourced \ raced, NEW f \in {Asked(m), Imported(m)},
                 Newer(f, m)', file'[f].whole
          PROVE  file'[f].text = source[m].text
      BY <1>1, <1>4, <2>1 DEF FrameOK, IInv, NewerIsCurrent
    <2> QED BY <2>1 DEF NewerIsCurrent, Asked, Imported
  <1>6. ImportsHold'
    <2>1. ASSUME NEW m \in Sourced, NEW f \in {Asked(m), Imported(m)}, Newer(f, m)', file'[f].whole,
                 ({m} \cup From(source[m].text)) \cap raced = {},
                 \A k \in From(source[m].text) \cap Sourced : Newer(f, k)'
          PROVE  /\ source[m].text.sound
                 /\ \A i \in DOMAIN source[m].text.imports :
                      LET imp == source[m].text.imports[i]
                      IN  imp.from \in Sourced /\ imp.name \in Provides(source[imp.from].text)
      <3>1. CASE Newer(f, m) /\ file[f].whole /\ file'[f] = file[f]
        <4>1. \A k \in From(source[m].text) \cap Sourced : Newer(f, k)
          BY <2>1, <3>1 DEF Newer
        <4> QED BY <2>1, <3>1, <4>1 DEF IInv, ImportsHold, From
      <3>2. CASE m = Top.mod /\ Top.left = <<>> /\ ~Top.bad
        <4>1. Top.text = source[m].text
          BY <1>1, <2>1, <3>2 DEF FrameOK
        <4>2. Top.text.sound /\ \A i \in DOMAIN Top.text.imports : Kept(Top.text.imports[i])
          BY <1>1, <3>2, Finished
        <4>3. \A i \in DOMAIN Top.text.imports : Top.text.imports[i].from \in From(Top.text)
          BY DEF From
        <4> QED BY <2>1, <4>1, <4>2, <4>3 DEF Kept
      <3> QED BY <1>4, <2>1, <3>1, <3>2
    <2> QED BY <2>1 DEF ImportsHold, From, Newer
  <1> QED BY <1>3, <1>5, <1>6

\* Every action keeps the invariant.
LEMMA StepOK == IInv /\ [Next]_vars => IInv'
  <1> SUFFICES ASSUME IInv, [Next]_vars PROVE IInv'
    OBVIOUS
  <1> USE RequestsAssumption
  <1>1. ASSUME Begin PROVE IInv'
    <2>1. UNCHANGED <<source, file, now, raced>> /\ stack' = stack /\ writing' = writing
      BY <1>1 DEF Begin
    <2>2. todo' \subseteq Sourced /\ asked' \subseteq Sourced
      BY <1>1 DEF Begin
    <2>3. FramesOK(stack)'
      BY <2>1, SameFrames DEF IInv
    <2> QED BY <2>1, <2>2, <2>3, FramesOnly DEF IInv
  <1>2. ASSUME NextModule PROVE IInv'
    <2>1. UNCHANGED <<source, file, now, raced>> /\ writing' = writing /\ stack = <<>>
      BY <1>2 DEF NextModule
    <2>2. PICK m \in todo : \/ Proceed(todo \ {m}, failures, unwritten)
                           \/ /\ todo' = todo \ {m} /\ asked' = asked
                              /\ stack' = <<Frame(m, Asked(m), source[m].text, FALSE)>>
      BY <1>2 DEF NextModule
    <2>3. CASE Proceed(todo \ {m}, failures, unwritten)
      <3>1. stack' = <<>> /\ todo' \subseteq Sourced /\ asked' \subseteq Sourced
        BY <2>3 DEF Proceed, Over, IInv
      <3> QED BY <2>1, <3>1, NoFrames, SameFrames, FramesOnly DEF IInv
    <2>4. CASE /\ todo' = todo \ {m} /\ asked' = asked
               /\ stack' = <<Frame(m, Asked(m), source[m].text, FALSE)>>
      <3> DEFINE fr == Frame(m, Asked(m), source[m].text, FALSE)
      <3>1. FrameOK(fr)
        BY NewFrame DEF IInv
      <3>2. FramesOK(Append(<<>>, fr))
        BY <3>1, NoFrames, Pushed
      <3> HIDE DEF fr
      <3>4. Append(<<>>, fr) = <<fr>>
        OBVIOUS
      <3>3. FramesOK(stack)'
        BY <2>1, <2>4, <3>2, <3>4, SameFrames DEF fr
      <3> QED BY <2>1, <2>4, <3>3, FramesOnly DEF IInv
    <2> QED BY <2>2, <2>3, <2>4
  <1>3. ASSUME Resolve PROVE IInv'
    <2> DEFINE k == Head(Top.left).from
    <2>1. UNCHANGED <<source, file, now, raced>> /\ writing' = writing /\ ~writing /\ stack # <<>>
      BY <1>3 DEF Resolve
    <2>2. FramesOK(Under) /\ FrameOK(Top)
      BY <2>1, Popped DEF IInv, Under, Top
    <2>3. \/ /\ \E fr : stack' = Append(Under, fr) /\ FrameOK(fr)
             /\ UNCHANGED <<asked, todo>>
          \/ /\ k \in Sourced
             /\ stack' = Append(stack, Frame(k, Imported(k), source[k].text, ErrorsBefore))
             /\ UNCHANGED <<asked, todo>>
          \/ Over("overflow")
      <3> DEFINE with(fr) == stack' = Append(Under, fr) /\ UNCHANGED <<asked, todo>>
      <3>1. \/ k \in DOMAIN Top.found \cup Top.failed /\ with(Take(Top))
            \/ with(Refuse(Top, k))
            \/ /\ k \in Sourced /\ Newer(Imported(k), k) /\ file[Imported(k)].whole
               /\ with(Learn(Top, k, Provides(file[Imported(k)].text)))
            \/ /\ k \in Sourced
               /\ stack' = Append(stack, Frame(k, Imported(k), source[k].text, ErrorsBefore))
               /\ UNCHANGED <<asked, todo>>
            \/ Over("overflow")
        BY <1>3 DEF Resolve, SourceOf
      <3>2. ASSUME k \in DOMAIN Top.found \cup Top.failed PROVE FrameOK(Take(Top))
        BY <1>3, <2>2, <3>2, Taken DEF Resolve
      <3>3. FrameOK(Refuse(Top, k))
        BY <2>2, Refused
      <3>4. ASSUME k \in Sourced, Newer(Imported(k), k), file[Imported(k)].whole
            PROVE  FrameOK(Learn(Top, k, Provides(file[Imported(k)].text)))
        <4>1. k \notin raced => file[Imported(k)].text = source[k].text
          BY <3>4 DEF IInv, NewerIsCurrent
        <4> QED BY <2>2, <3>4, <4>1, Learnt
      <3> QED BY <3>1, <3>2, <3>3, <3>4
    <2>4. CASE /\ \E fr : stack' = Append(Under, fr) /\ FrameOK(fr)
               /\ UNCHANGED <<asked, todo>>
      <3>1. PICK fr : stack' = Append(Under, fr) /\ FrameOK(fr)
        BY <2>4
      <3>2. FramesOK(stack)'
        BY <2>1, <2>2, <3>1, Pushed, SameFrames
      <3> QED BY <2>1, <2>4, <3>2, FramesOnly DEF IInv
    <2>5. CASE /\ k \in Sourced
               /\ stack' = Append(stack, Frame(k, Imported(k), source[k].text, ErrorsBefore))
               /\ UNCHANGED <<asked, todo>>
      <3>1. FrameOK(Frame(k, Imported(k), source[k].text, ErrorsBefore))
        BY <2>5, NewFrame DEF IInv, ErrorsBefore
      <3>2. FramesOK(stack)'
        BY <2>1, <2>5, <3>1, Pushed, SameFrames DEF IInv
      <3> QED BY <2>1, <2>5, <3>2, FramesOnly DEF IInv
    <2>6. CASE Over("overflow")
      <3>1. stack' = <<>> /\ todo' = {} /\ asked' = {}
        BY <2>6 DEF Over
      <3> QED BY <2>1, <3>1, NoFrames, SameFrames, FramesOnly
    <2> QED BY <2>3, <2>4, <2>5, <2>6
  <1>4. ASSUME Fail PROVE IInv'
    <2>1. /\ UNCHANGED <<source, file, now, raced>> /\ writing' = writing /\ ~writing
          /\ stack # <<>> /\ Return(FALSE, unwritten)
      BY <1>4 DEF Fail
    <2> QED BY <2>1, Returned, FramesOnly
  <1>5. ASSUME OpenFile PROVE IInv'
    <2>1. /\ UNCHANGED <<source, now, raced, stack, todo, asked>> /\ stack # <<>>
          /\ file' = [file EXCEPT ![Top.into] = [there |-> TRUE, whole |-> FALSE, at |-> now, text |-> <<>>]]
      BY <1>5 DEF OpenFile
    <2>2. FileOK' /\ NewerIsCurrent' /\ ImportsHold'
      BY <2>1, Written
    <2>3. FramesOK(stack)'
      BY <2>1, SameFrames DEF IInv
    <2>4. (Top.left = <<>> /\ ~Top.bad)'
      BY <1>5, <2>1 DEF OpenFile, Translated, Top
    <2> QED BY <2>1, <2>2, <2>3, <2>4 DEF IInv, SourceOK
  <1>6. ASSUME WriteFile PROVE IInv'
    <2>1. /\ UNCHANGED <<source, now, raced>> /\ stack # <<>> /\ writing' = FALSE
          /\ Return(TRUE, unwritten)
          /\ file' = [file EXCEPT ![Top.into] = [there |-> TRUE, whole |-> TRUE, at |-> now, text |-> Top.text]]
      BY <1>6 DEF WriteFile, IInv
    <2>2. FileOK' /\ NewerIsCurrent' /\ ImportsHold'
      BY <1>6, <2>1, Written DEF IInv, WriteFile
    <2>3. FramesOK(stack)' /\ todo' \subseteq Sourced /\ asked' \subseteq Sourced
      BY <2>1, Returned
    <2> QED BY <2>1, <2>2, <2>3 DEF IInv, SourceOK
  <1>7. ASSUME WriteFails PROVE IInv'
    <2>1. /\ UNCHANGED <<source, file, now, raced>> /\ writing' = FALSE
          /\ stack # <<>> /\ Return(FALSE, unwritten \cup {Top.mod})
      BY <1>7 DEF WriteFails
    <2> QED BY <2>1, Returned, FramesOnly
  <1>8. ASSUME Kill PROVE IInv'
    <2>1. /\ UNCHANGED <<source, file, now, raced>> /\ writing' = FALSE
          /\ stack' = <<>> /\ todo' = {} /\ asked' = {}
      BY <1>8 DEF Kill, Over
    <2> QED BY <2>1, NoFrames, SameFrames, FramesOnly
  <1>9. ASSUME Tick PROVE IInv'
    <2>1. now' = now + 1 /\ UNCHANGED <<source, file, raced, runVars>>
      BY <1>9 DEF Tick
    <2>2. FramesOK(stack)'
      BY <2>1, SameFrames DEF IInv, runVars
    <2>3. SourceOK'
      BY <2>1 DEF IInv, SourceOK
    <2>4. FileOK'
      BY <2>1 DEF IInv, FileOK
    <2>5. NewerIsCurrent' /\ ImportsHold' /\ (writing => stack # <<>> /\ Top.left = <<>> /\ ~Top.bad)'
      BY <2>1 DEF IInv, runVars, NewerIsCurrent, ImportsHold, Newer, Top
    <2> QED BY <2>1, <2>2, <2>3, <2>4, <2>5 DEF IInv, runVars
  <1>10. ASSUME Edit PROVE IInv'
    <2>1. PICK m \in Sourced : \E t \in TextsOf[m] :
            /\ source' = [source EXCEPT ![m] = [at |-> now, text |-> t]]
            /\ raced' = IF Running THEN raced \cup {m} ELSE raced
      BY <1>10 DEF Edit
    <2>2. PICK t \in TextsOf[m] :
            /\ source' = [source EXCEPT ![m] = [at |-> now, text |-> t]]
            /\ raced' = IF Running THEN raced \cup {m} ELSE raced
      BY <2>1
    <2>3. UNCHANGED <<file, now, runVars>>
      BY <1>10 DEF Edit
    <2>4. SourceOK'
      BY <2>2, <2>3 DEF IInv, SourceOK, Sourced
    <2>5. \A k \in Sourced \ {m} : source'[k] = source[k]
      BY <2>2 DEF IInv, SourceOK
    <2>6. source'[m].at = now
      BY <2>2 DEF IInv, SourceOK
    <2>7. FramesOK(stack)'
      <3>1. CASE stack = <<>>
        BY <3>1, <2>3, NoFrames DEF runVars, FramesOK
      <3>2. CASE stack # <<>>
        <4>1. raced' = raced \cup {m}
          BY <3>2, <2>2 DEF Running
        <4> QED BY <4>1, <2>3, <2>5, SameFrames DEF IInv, runVars
      <3> QED BY <3>1, <3>2
    <2>8. NewerIsCurrent'
      <3> SUFFICES ASSUME NEW k \in Sourced \ raced', NEW f \in {Asked(k), Imported(k)},
                          Newer(f, k)', file'[f].whole
                   PROVE  file'[f].text = source'[k].text
        BY DEF NewerIsCurrent, Asked, Imported
      <3>1. f \in Files
        BY FilesOf
      <3>2. k # m
        BY <3>1, <2>3, <2>6 DEF IInv, FileOK, Newer
      <3> QED BY <3>2, <2>2, <2>3, <2>5 DEF IInv, NewerIsCurrent, Newer
    <2>9. raced' \subseteq Sourced
      BY <2>2 DEF IInv
    <2>10. ImportsHold'
      <3> SUFFICES ASSUME NEW k \in Sourced, NEW f \in {Asked(k), Imported(k)},
                          Newer(f, k)', file'[f].whole,
                          ({k} \cup From(source'[k].text)) \cap raced' = {},
                          \A h \in From(source'[k].text) \cap Sourced : Newer(f, h)'
                   PROVE  /\ source'[k].text.sound
                          /\ \A i \in DOMAIN source'[k].text.imports :
                               LET imp == source'[k].text.imports[i]
                               IN  imp.from \in Sourced /\ imp.name \in Provides(source'[imp.from].text)
        BY DEF ImportsHold, From
      <3>1. f \in Files
        BY FilesOf
      <3>2. ~Newer(f, m)'
        BY <3>1, <2>3, <2>6 DEF IInv, FileOK, Newer
      <3>3. k # m /\ source'[k] = source[k] /\ m \notin From(source[k].text)
        BY <3>2, <2>5
      <3>4. \A h \in Sourced \ {m} : Newer(f, h)' => Newer(f, h)
        BY <2>3, <2>5 DEF Newer
      <3>5. ({k} \cup From(source[k].text)) \cap raced = {}
        BY <3>3, <2>2
      <3>6. /\ source[k].text.sound
            /\ \A i \in DOMAIN source[k].text.imports :
                 LET imp == source[k].text.imports[i]
                 IN  imp.from \in Sourced /\ imp.name \in Provides(source[imp.from].text)
        BY <3>3, <3>4, <3>5, <2>3 DEF IInv, ImportsHold, From
      <3>7. \A i \in DOMAIN source[k].text.imports : source[k].text.imports[i].from # m
        BY <3>3 DEF From
      <3> QED BY <3>3, <3>6, <3>7, <2>5
    <2>11. (writing => stack # <<>> /\ Top.left = <<>> /\ ~Top.bad)'
      BY <2>3 DEF IInv, runVars, Top
    <2> QED BY <2>3, <2>4, <2>7, <2>8, <2>9, <2>10, <2>11 DEF IInv, runVars, FileOK
  <1>11. ASSUME UNCHANGED vars PROVE IInv'
    <2>1. FramesOK(stack)'
      BY <1>11, SameFrames DEF IInv, vars
    <2> QED BY <1>11, <2>1, FramesOnly DEF IInv, vars
  <1> QED BY <1>1, <1>2, <1>3, <1>4, <1>5, <1>6, <1>7, <1>8, <1>9, <1>10, <1>11 DEF Next, Work

\* A specification newer than its source is of that source (Specs.lean, resolveModule;
\* StrataPython.lean, pySpecsDir), unless the source was edited during a run.
THEOREM NewerCurrent == Spec => []NewerIsCurrent
  <1>1. IInv => NewerIsCurrent
    BY DEF IInv
  <1> QED BY <1>1, InitOK, StepOK, PTL DEF Spec

\* A specification newer than its source and than the modules that imports from is one a
\* clean translation would have made (Specs.lean, translateModule and resolveModule):
\* whatever the order of edits, failures, kills and half-written files.
THEOREM ImportsAreThere == Spec => []ImportsHold
  <1>1. IInv => ImportsHold
    BY DEF IInv
  <1> QED BY <1>1, InitOK, StepOK, PTL DEF Spec

-----------------------------------------------------------------------------
(* Why a module fails: while no source is edited during a run, the modules     *)
(* under translation import each the next, and each error in one of them, each *)
(* module refused to one and each failure of the run has a cause among the     *)
(* modules reached.  A half-written file is a cause only when no translation   *)
(* into it is under way: one that is is about to replace it.                   *)

\* Something is wrong with the module that the translations under way do not mend.
Hopeless ==
  {m \in Modules :
     \/ m \notin Sourced
     \/ ~source[m].text.sound
     \/ m \in unwritten
     \/ /\ Newer(Imported(m), m) /\ ~file[Imported(m)].whole
        /\ \A i \in 1..Len(stack) : stack[i].into # Imported(m)
     \/ \E i \in DOMAIN source[m].text.imports :
          LET imp == source[m].text.imports[i]
          IN  imp.from \in Sourced /\ imp.name \notin Provides(source[imp.from].text)}

\* The modules that reach such a one.
Doomed == {m \in Modules : \E k \in Reached(m) : k \in Hopeless}

\* A translation has errors, and modules are refused to it, for a cause.
Explained(s, D) == \A i \in 1..Len(s) : s[i].failed \subseteq D /\ (s[i].bad => s[i].mod \in D)

\* Each translation under way is of a module the one below it imports.
Chained(s) ==
  \A i, j \in 1..Len(s) :
    /\ i <= j => s[j].mod \in Reached(s[i].mod)
    /\ i + 1 = j => s[j].mod \in From(source[s[i].mod].text)

\* The file of a translation under way is not one it could have read instead, but for the
\* one it is writing or has failed to write.
Opened(fr) == \/ ~Newer(fr.into, fr.mod) \/ file[fr.into].whole \/ fr.mod \in unwritten
              \/ writing /\ fr.into = Top.into

CauseInv ==
  raced = {} =>
    /\ Chained(stack)
    /\ Explained(stack, Doomed)
    /\ \A i \in 1..Len(stack) : Opened(stack[i])
    /\ Running => failures \subseteq Doomed

\* A module reaches itself.
LEMMA ReachedSelf == ASSUME NEW m \in Modules PROVE m \in Reached(m)
  BY DEF Reached

\* What is reached through a module reached is reached.
LEMMA ReachedOn ==
  ASSUME NEW m, NEW k, NEW j, k \in Reached(m), j \in Reached(k)
  PROVE  j \in Reached(m)
  BY DEF Reached

\* A module reaches what it imports.
LEMMA ReachedImport ==
  ASSUME SourceOK, NEW m \in Sourced, NEW k \in From(source[m].text)
  PROVE  k \in Modules /\ k \in Reached(m)
  <1>1. k \in Modules
    <2>1. source[m].text.imports \in Seq(Import)
      BY SourceText DEF Text
    <2>2. \A i \in DOMAIN source[m].text.imports : source[m].text.imports[i] \in Import
      BY <2>1
    <2> QED BY <2>2 DEF From, Import
  <1> QED BY <1>1 DEF Reached, Closed

\* What is doomed is a module; importers of what is doomed are; and what is hopeless is.
LEMMA DoomedFacts ==
  ASSUME SourceOK
  PROVE  /\ Doomed \subseteq Modules /\ Hopeless \subseteq Doomed
         /\ \A m \in Sourced : \A k \in From(source[m].text) : k \in Doomed => m \in Doomed
  <1>1. Doomed \subseteq Modules
    BY DEF Doomed
  <1>2. Hopeless \subseteq Doomed
    BY ReachedSelf DEF Doomed, Hopeless
  <1>3. ASSUME NEW m \in Sourced, NEW k \in From(source[m].text), k \in Doomed
        PROVE  m \in Doomed
    <2>1. PICK j \in Reached(k) : j \in Hopeless
      BY <1>3 DEF Doomed
    <2>2. j \in Reached(m)
      BY <2>1, ReachedImport, ReachedOn
    <2> QED BY <2>1, <2>2 DEF Doomed, Sourced
  <1> QED BY <1>1, <1>2, <1>3

\* A step that starts translations only into files that are not newer.
Started ==
  \A i \in 1..Len(stack') :
    \/ \E j \in 1..Len(stack) : stack'[i].into = stack[j].into /\ stack'[i].mod = stack[j].mod
    \/ ~Newer(stack'[i].into, stack'[i].mod)

\* A step that writes only the files of translations under way mends nothing else.
LEMMA DoomedStays ==
  ASSUME IInv, IInv', UNCHANGED source, unwritten \subseteq unwritten', Started,
         \A f \in Files : (\A i \in 1..Len(stack) : stack[i].into # f) => file'[f] = file[f]
  PROVE  Doomed \subseteq Doomed'
  <1>1. ASSUME NEW m \in Hopeless PROVE m \in Hopeless'
    <2>1. m \in Modules /\ Imported(m) \in Files
      BY DEF Hopeless, Imported, Files
    <2>2. CASE /\ m \in Sourced
               /\ Newer(Imported(m), m) /\ ~file[Imported(m)].whole
               /\ \A i \in 1..Len(stack) : stack[i].into # Imported(m)
      <3>1. file'[Imported(m)] = file[Imported(m)]
        BY <2>1, <2>2
      <3>2. Newer(Imported(m), m)' /\ ~file'[Imported(m)].whole
        BY <2>2, <3>1 DEF Newer
      <3>3. ASSUME NEW i \in 1..Len(stack'), stack'[i].into = Imported(m) PROVE FALSE
        <4>1. ~Newer(stack'[i].into, stack'[i].mod)
          BY <2>2, <3>3 DEF Started
        <4>2. stack'[i].mod = m
          <5>1. FrameOK(stack[i])'
            BY DEF IInv, FramesOK
          <5>2. stack'[i].mod \in Sourced /\ stack'[i].into \in {Asked(stack'[i].mod), Imported(stack'[i].mod)}
            BY <5>1 DEF FrameOK
          <5> QED BY <2>2, <3>3, <5>2, OwnFile
        <4> QED BY <2>2, <3>3, <4>1, <4>2
      <3> QED BY <2>1, <3>2, <3>3 DEF Hopeless
    <2>3. CASE ~ (/\ m \in Sourced
                  /\ Newer(Imported(m), m) /\ ~file[Imported(m)].whole
                  /\ \A i \in 1..Len(stack) : stack[i].into # Imported(m))
      BY <2>3 DEF Hopeless
    <2> QED BY <2>2, <2>3
  <1>2. \A m : Reached(m) = Reached(m)'
    BY DEF Reached, Closed
  <1> QED BY <1>1, <1>2 DEF Doomed

\* The innermost translation with another frame: the others are as they were.
LEMMA ReplacedAt ==
  ASSUME NEW s, FramesOK(s), s # <<>>, NEW fr
  PROVE  LET t == Append(SubSeq(s, 1, Len(s) - 1), fr)
         IN  /\ Len(s) \in Nat \ {0} /\ Len(t) = Len(s)
             /\ \A i \in 1..Len(s) : t[i] = IF i < Len(s) THEN s[i] ELSE fr
  <1> DEFINE u == SubSeq(s, 1, Len(s) - 1)
             t == Append(u, fr)
  <1>1. /\ FramesOK(u) /\ Len(s) \in Nat \ {0} /\ Len(u) = Len(s) - 1
        /\ \A i \in 1..Len(s) - 1 : u[i] = s[i]
    BY Popped, PoppedAt
  <1> HIDE DEF u
  <1>2. Len(t) = Len(u) + 1 /\ \A i \in 1..Len(u) + 1 : t[i] = IF i <= Len(u) THEN u[i] ELSE fr
    BY <1>1, PushedAt
  <1> HIDE DEF t
  <1>3. Len(u) + 1 = Len(s)
    BY <1>1
  <1>4. ASSUME NEW i \in 1..Len(s) PROVE t[i] = IF i < Len(s) THEN s[i] ELSE fr
    <2>1. i < Len(s) <=> i <= Len(u)
      BY <1>1
    <2>2. i < Len(s) => i \in 1..Len(s) - 1
      BY <1>1
    <2> QED BY <1>1, <1>2, <1>3, <2>1, <2>2
  <1> QED BY <1>1, <1>2, <1>3, <1>4 DEF t, u

\* The translations under way still import each the next when one is started for an import
\* of the innermost.
LEMMA ChainPushed ==
  ASSUME SourceOK, NEW s, FramesOK(s), Chained(s), NEW fr, fr.mod \in Sourced,
         s # <<>> => fr.mod \in From(source[s[Len(s)].mod].text)
  PROVE  Chained(Append(s, fr))
  <1> DEFINE t == Append(s, fr)
  <1>1. /\ Len(s) \in Nat /\ Len(t) = Len(s) + 1
        /\ \A i \in 1..Len(s) + 1 : t[i] = IF i <= Len(s) THEN s[i] ELSE fr
    BY PushedAt
  <1>2. \A i \in 1..Len(s) : s[i].mod \in Sourced
    BY DEF FramesOK, FrameOK
  <1>3. fr.mod \in Reached(fr.mod)
    BY ReachedSelf DEF Sourced
  <1>4. ASSUME NEW i \in 1..Len(s) PROVE fr.mod \in Reached(s[i].mod)
    <2>1. Len(s) \in 1..Len(s) /\ s # <<>> /\ i <= Len(s)
      BY <1>1
    <2>2. s[Len(s)].mod \in Reached(s[i].mod)
      BY <2>1 DEF Chained
    <2>3. fr.mod \in Reached(s[Len(s)].mod)
      BY <1>2, <2>1, ReachedImport
    <2> QED BY <2>2, <2>3, ReachedOn
  <1> HIDE DEF t
  <1>5. ASSUME NEW i \in 1..Len(t), NEW j \in 1..Len(t)
        PROVE  /\ i <= j => t[j].mod \in Reached(t[i].mod)
               /\ i + 1 = j => t[j].mod \in From(source[t[i].mod].text)
    <2>1. CASE j <= Len(s)
      <3>1. i <= j \/ i + 1 = j => i \in 1..Len(s)
        BY <1>1, <2>1
      <3>2. j \in 1..Len(s) /\ t[j] = s[j] /\ (i \in 1..Len(s) => t[i] = s[i])
        BY <1>1, <2>1
      <3> QED BY <3>1, <3>2 DEF Chained
    <2>2. CASE ~(j <= Len(s))
      <3>1. j = Len(s) + 1 /\ t[j] = fr
        BY <1>1, <2>2
      <3>2. CASE i = j
        BY <1>1, <1>3, <3>1, <3>2
      <3>3. CASE i # j
        <4>1. i \in 1..Len(s) /\ t[i] = s[i] /\ (i + 1 = j => i = Len(s) /\ s # <<>>)
          BY <1>1, <3>1, <3>3
        <4> QED BY <1>4, <3>1, <4>1
      <3> QED BY <3>2, <3>3
    <2> QED BY <2>1, <2>2
  <1> QED BY <1>5 DEF Chained, t

\* They do when the innermost ends.
LEMMA ChainPopped ==
  ASSUME NEW s, FramesOK(s), s # <<>>, Chained(s)
  PROVE  Chained(SubSeq(s, 1, Len(s) - 1))
  <1> DEFINE t == SubSeq(s, 1, Len(s) - 1)
  <1>1. /\ Len(s) \in Nat \ {0} /\ Len(t) = Len(s) - 1
        /\ \A i \in 1..Len(s) - 1 : t[i] = s[i]
    BY PoppedAt
  <1> HIDE DEF t
  <1>2. \A i \in 1..Len(t) : i \in 1..Len(s) /\ t[i] = s[i]
    BY <1>1
  <1> QED BY <1>2 DEF Chained, t

\* They do when the innermost learns something.
LEMMA ChainReplaced ==
  ASSUME NEW s, FramesOK(s), s # <<>>, Chained(s), NEW fr, fr.mod = s[Len(s)].mod
  PROVE  Chained(Append(SubSeq(s, 1, Len(s) - 1), fr))
  <1> DEFINE t == Append(SubSeq(s, 1, Len(s) - 1), fr)
  <1>1. /\ Len(s) \in Nat \ {0} /\ Len(t) = Len(s)
        /\ \A i \in 1..Len(s) : t[i] = IF i < Len(s) THEN s[i] ELSE fr
    BY ReplacedAt
  <1> HIDE DEF t
  <1>2. \A i \in 1..Len(t) : i \in 1..Len(s) /\ t[i].mod = s[i].mod
    BY <1>1
  <1> QED BY <1>2 DEF Chained, t

\* What is explained stays so when a frame that is explained is put on the stack.
LEMMA ExplainedPushed ==
  ASSUME NEW D, NEW C, C \subseteq D, NEW s, FramesOK(s), Explained(s, C),
         NEW fr, fr.failed \subseteq D, fr.bad => fr.mod \in D
  PROVE  Explained(Append(s, fr), D)
  <1> DEFINE t == Append(s, fr)
  <1>1. /\ Len(s) \in Nat /\ Len(t) = Len(s) + 1
        /\ \A i \in 1..Len(s) + 1 : t[i] = IF i <= Len(s) THEN s[i] ELSE fr
    BY PushedAt
  <1> HIDE DEF t
  <1>2. \A i \in 1..Len(t) : t[i] = fr \/ (i \in 1..Len(s) /\ t[i] = s[i])
    BY <1>1
  <1> QED BY <1>2 DEF Explained, t

\* It stays so when a frame is taken off it.
LEMMA ExplainedPopped ==
  ASSUME NEW D, NEW s, FramesOK(s), s # <<>>, Explained(s, D)
  PROVE  Explained(SubSeq(s, 1, Len(s) - 1), D)
  <1> DEFINE t == SubSeq(s, 1, Len(s) - 1)
  <1>1. /\ Len(s) \in Nat \ {0} /\ Len(t) = Len(s) - 1
        /\ \A i \in 1..Len(s) - 1 : t[i] = s[i]
    BY PoppedAt
  <1> HIDE DEF t
  <1>2. \A i \in 1..Len(t) : i \in 1..Len(s) /\ t[i] = s[i]
    BY <1>1
  <1> QED BY <1>2 DEF Explained, t

\* After a step that edits no source, importers of what is doomed are, and what is hopeless is.
LEMMA DoomedNext ==
  ASSUME SourceOK, UNCHANGED source
  PROVE  /\ Hopeless' \subseteq Doomed'
         /\ \A m \in Sourced : \A k \in From(source[m].text) : k \in Doomed' => m \in Doomed'
  <1>1. \A m : Reached(m)' = Reached(m)
    BY DEF Reached, Closed
  <1>2. Doomed' = {m \in Modules : \E k \in Reached(m) : k \in Hopeless'}
    BY <1>1 DEF Doomed
  <1>3. Hopeless' \subseteq Modules
    BY DEF Hopeless
  <1>4. Hopeless' \subseteq Doomed'
    BY <1>2, <1>3, ReachedSelf
  <1>5. ASSUME NEW m \in Sourced, NEW k \in From(source[m].text), k \in Doomed'
        PROVE  m \in Doomed'
    <2>1. PICK j \in Reached(k) : j \in Hopeless'
      BY <1>2, <1>5
    <2>2. j \in Reached(m)
      BY <2>1, ReachedImport, ReachedOn
    <2> QED BY <1>2, <2>1, <2>2 DEF Sourced
  <1> QED BY <1>4, <1>5

\* What a translation learns does not make it one of another module or another file.
LEMMA TakeStep ==
  ASSUME NEW fr, FrameOK(fr)
  PROVE  /\ Take(fr).mod = fr.mod /\ Take(fr).into = fr.into /\ Take(fr).failed = fr.failed
         /\ LET i == Head(fr.left)
            IN  Take(fr).bad = (fr.bad \/ (i.from \notin fr.failed /\ i.name \notin fr.found[i.from]))
  BY DEF FrameOK, FrameFields, Take

\* Nor does what it is told by a module that is there.
LEMMA LearnStep ==
  ASSUME NEW fr, FrameOK(fr), NEW k, NEW names
  PROVE  /\ Learn(fr, k, names).mod = fr.mod /\ Learn(fr, k, names).into = fr.into
         /\ Learn(fr, k, names).failed = fr.failed /\ Learn(fr, k, names).bad = fr.bad
  BY DEF FrameOK, FrameFields, Learn

\* Nor does a module that is refused to it, which is an error in it.
LEMMA RefuseStep ==
  ASSUME NEW fr, FrameOK(fr), NEW k
  PROVE  /\ Refuse(fr, k).mod = fr.mod /\ Refuse(fr, k).into = fr.into
         /\ Refuse(fr, k).failed = fr.failed \cup {k} /\ Refuse(fr, k).bad = TRUE
  BY DEF FrameOK, FrameFields, Refuse

\* Of a run that is over nothing is left to explain.
LEMMA CauseOver ==
  ASSUME stack' = <<>>, ~Running' \/ failures' \subseteq Doomed'
  PROVE  CauseInv'
  <1>1. Len(stack') = 0 /\ 1..0 = {}
    OBVIOUS
  <1> QED BY <1>1 DEF CauseInv, Chained, Explained

\* A frame that replaces the innermost keeps the step one that starts nothing.
LEMMA ReplacedStarts ==
  ASSUME NEW s, FramesOK(s), s # <<>>, NEW fr, fr.mod = s[Len(s)].mod, fr.into = s[Len(s)].into,
         Len(s) <= Len(stack), \A i \in 1..Len(s) : s[i] = stack[i], Len(stack) \in Nat,
         stack' = Append(SubSeq(s, 1, Len(s) - 1), fr)
  PROVE  /\ Started /\ Len(stack') = Len(s)
         /\ \A i \in 1..Len(s) : stack'[i].mod = stack[i].mod /\ stack'[i].into = stack[i].into
  <1>1. /\ Len(s) \in Nat \ {0} /\ Len(stack') = Len(s)
        /\ \A i \in 1..Len(s) : stack'[i] = IF i < Len(s) THEN s[i] ELSE fr
    BY ReplacedAt
  <1>2. \A i \in 1..Len(s) : i \in 1..Len(stack) /\ (i < Len(s) \/ i = Len(s))
    BY <1>1
  <1>3. \A i \in 1..Len(s) : stack'[i].mod = stack[i].mod /\ stack'[i].into = stack[i].into
    BY <1>1, <1>2
  <1> QED BY <1>1, <1>2, <1>3 DEF Started

\* Files as they were, what was open stays so and what is started is.
LEMMA SameOpened ==
  ASSUME UNCHANGED <<source, file>>, ~writing, unwritten \subseteq unwritten', Started,
         \A i \in 1..Len(stack) : Opened(stack[i])
  PROVE  (\A i \in 1..Len(stack) : Opened(stack[i]))'
  <1>1. ASSUME NEW i \in 1..Len(stack') PROVE Opened(stack[i])'
    <2>1. CASE \E j \in 1..Len(stack) : stack'[i].into = stack[j].into /\ stack'[i].mod = stack[j].mod
      <3>1. PICK j \in 1..Len(stack) : stack'[i].into = stack[j].into /\ stack'[i].mod = stack[j].mod
        BY <2>1
      <3> QED BY <3>1 DEF Opened, Newer
    <2>2. CASE ~Newer(stack'[i].into, stack'[i].mod)
      BY <2>2 DEF Opened, Newer
    <2> QED BY <2>1, <2>2 DEF Started
  <1> QED BY <1>1

\* A translation ends: without errors, or for a cause.
LEMMA ReturnedCause ==
  ASSUME IInv, IInv', CauseInv, raced = {}, UNCHANGED <<source, raced>>, stack # <<>>,
         NEW good \in BOOLEAN, NEW lost, Return(good, lost), unwritten \subseteq lost,
         ~good => Top.bad \/ Top.mod \in lost,
         \A f \in Files : f # Top.into => file'[f] = file[f],
         ~writing',
         file'[Top.into].whole \/ Top.mod \in lost \/ (file' = file /\ ~writing)
  PROVE  CauseInv'
  <1>1. /\ FramesOK(stack) /\ FramesOK(Under) /\ FrameOK(Top)
        /\ Len(stack) \in Nat \ {0} /\ Len(Under) = Len(stack) - 1
        /\ \A i \in 1..Len(Under) : Under[i] = stack[i]
    BY Popped, PoppedAt DEF IInv, Under, Top
  <1>2. /\ Chained(stack) /\ Explained(stack, Doomed) /\ \A i \in 1..Len(stack) : Opened(stack[i])
        /\ failures \subseteq Doomed
    BY DEF CauseInv, Running
  <1>3. Len(stack) \in 1..Len(stack) /\ Top.mod \in Sourced /\ (Top.bad => Top.mod \in Doomed)
    BY <1>1, <1>2 DEF Explained, Top, FrameOK
  <1>4. \A f \in Files : (\A i \in 1..Len(stack) : stack[i].into # f) => file'[f] = file[f]
    BY <1>3 DEF Top
  <1>5. ASSUME unwritten' = lost, Doomed \subseteq Doomed', ~good PROVE Top.mod \in Doomed'
    <2>1. Top.mod \in lost => Top.mod \in Hopeless'
      BY <1>3, <1>5 DEF Hopeless, Sourced
    <2> QED BY <1>3, <1>5, <2>1, DoomedNext DEF IInv
  <1>6. CASE Len(stack) = 1
    <2>1. CASE todo = {}
      <3>1. stack' = <<>> /\ todo' = {}
        BY <1>6, <2>1 DEF Return, Proceed, Over, Remaining
      <3> QED BY <3>1, CauseOver DEF Running
    <2>2. CASE todo # {}
      <3>1. /\ stack' = <<>> /\ unwritten' = lost
            /\ failures' = IF good THEN failures ELSE failures \cup {Top.mod}
        BY <1>6, <2>2 DEF Return, Proceed, Remaining
      <3>2. Len(stack') = 0 /\ 1..0 = {}
        BY <3>1
      <3>3. Started
        BY <3>2 DEF Started
      <3>4. Doomed \subseteq Doomed'
        BY <1>4, <3>1, <3>3, DoomedStays
      <3> QED BY <1>2, <1>5, <3>1, <3>4, CauseOver
    <2> QED BY <2>1, <2>2
  <1>7. CASE Len(stack) # 1
    <2> DEFINE importer == Under[Len(Under)]
               below    == SubSeq(Under, 1, Len(Under) - 1)
               told     == IF good THEN Learn(importer, Top.mod, Provides(Top.text))
                                   ELSE Refuse(importer, Top.mod)
    <2>1. stack' = Append(below, told) /\ unwritten' = lost /\ failures' = failures
      BY <1>7 DEF Return
    <2>2. Under # <<>> /\ Len(Under) \in Nat \ {0} /\ Len(Under) + 1 = Len(stack)
      BY <1>1, <1>7
    <2>3. FrameOK(importer) /\ FramesOK(below)
      BY <1>1, <2>2, Popped
    <2>4. /\ told.mod = importer.mod /\ told.into = importer.into
          /\ told.failed \subseteq importer.failed \cup (IF good THEN {} ELSE {Top.mod})
          /\ told.bad => importer.bad \/ ~good
      <3> HIDE DEF importer
      <3>1. CASE good
        <4>1. told = Learn(importer, Top.mod, Provides(Top.text))
          BY <3>1
        <4> HIDE DEF told
        <4> QED BY <2>3, <3>1, <4>1, LearnStep
      <3>2. CASE ~good
        <4>1. told = Refuse(importer, Top.mod)
          BY <3>2
        <4> HIDE DEF told
        <4> QED BY <2>3, <3>2, <4>1, RefuseStep
      <3> QED BY <3>1, <3>2
    <2>5. Chained(Under) /\ Explained(Under, Doomed)
      BY <1>1, <1>2, ChainPopped, ExplainedPopped DEF Under
    <2>6. Started /\ Len(stack') = Len(Under)
          /\ \A i \in 1..Len(Under) : stack'[i].mod = stack[i].mod /\ stack'[i].into = stack[i].into
      <3>1. Len(Under) <= Len(stack) /\ Len(stack) \in Nat
        BY <1>1
      <3> HIDE DEF told
      <3> QED BY <1>1, <2>1, <2>2, <2>4, <3>1, ReplacedStarts
    <2>7. Doomed \subseteq Doomed'
      BY <1>4, <2>1, <2>6, DoomedStays
    <2>8. Chained(stack)'
      <3>1. Chained(Append(below, told))
        <4> HIDE DEF told
        <4> QED BY <1>1, <2>2, <2>4, <2>5, ChainReplaced
      <3>2. Chained(stack')
        BY <2>1, <3>1
      <3>3. \A m : Reached(m)' = Reached(m)
        BY DEF Reached, Closed
      <3> QED BY <3>2, <3>3 DEF Chained
    <2>9. Explained(stack', Doomed')
      <3>1. Len(Under) \in 1..Len(Under) /\ Len(Under) \in 1..Len(stack) /\ importer = stack[Len(Under)]
        BY <1>1, <2>2
      <3>2. Top.mod \in From(source[importer.mod].text)
        BY <1>2, <1>3, <2>2, <3>1 DEF Chained, Top
      <3>3. ~good => Top.mod \in Doomed' /\ importer.mod \in Doomed'
        BY <1>5, <2>1, <2>3, <2>7, <3>2, DoomedNext DEF IInv, FrameOK
      <3>4. importer.failed \subseteq Doomed /\ (importer.bad => importer.mod \in Doomed)
        BY <2>5, <3>1 DEF Explained
      <3>5. told.failed \subseteq Doomed' /\ (told.bad => told.mod \in Doomed')
        BY <2>4, <2>7, <3>3, <3>4
      <3>6. Explained(below, Doomed)
        BY <1>1, <2>2, <2>5, ExplainedPopped
      <3> HIDE DEF told, below
      <3> QED BY <2>1, <2>3, <2>7, <3>5, <3>6, ExplainedPushed
    <2>10. ASSUME NEW i \in 1..Len(stack') PROVE Opened(stack[i])'
      <3>1. /\ i \in 1..Len(stack) /\ stack'[i].mod = stack[i].mod /\ stack'[i].into = stack[i].into
            /\ FrameOK(stack[i])
        BY <1>1, <2>2, <2>6 DEF FramesOK
      <3>2. Opened(stack[i]) /\ stack[i].into \in Files
        BY <1>2, <3>1, FilesOf DEF FrameOK
      <3>3. CASE stack[i].into = Top.into
        <4>1. stack[i].mod = Top.mod
          BY <1>1, <3>1, <3>3, OwnFile DEF FrameOK
        <4> QED BY <2>1, <3>1, <3>2, <3>3, <4>1 DEF Opened, Newer
      <3>4. CASE stack[i].into # Top.into
        <4>1. file'[stack[i].into] = file[stack[i].into]
          BY <3>2, <3>4
        <4> QED BY <2>1, <3>1, <3>2, <3>4, <4>1 DEF Opened, Newer
      <3> QED BY <3>3, <3>4
    <2>11. Explained(stack, Doomed)'
      BY <2>9 DEF Explained
    <2> QED BY <1>2, <2>1, <2>7, <2>8, <2>10, <2>11 DEF CauseInv
  <1> QED BY <1>6, <1>7

\* The import at hand is one of the module's, while no source is edited during a run.
LEMMA NextImport ==
  ASSUME NEW fr, FrameOK(fr), fr.left # <<>>, raced = {}
  PROVE  /\ Head(fr.left) \in Import /\ Head(fr.left).from \in Modules
         /\ \E i \in DOMAIN source[fr.mod].text.imports :
              Head(fr.left) = source[fr.mod].text.imports[i]
         /\ Head(fr.left).from \in From(source[fr.mod].text)
  <1>1. Head(fr.left) = fr.left[1] /\ Len(fr.left) \in Nat \ {0} /\ fr.left[1] \in Import
    BY HeadAndTail DEF FrameOK
  <1>2. PICK n \in Nat : /\ n + Len(fr.left) = Len(fr.text.imports)
                         /\ \A j \in 1..Len(fr.left) : fr.left[j] = fr.text.imports[n + j]
    BY DEF FrameOK, LeftOK
  <1>3. fr.left[1] = fr.text.imports[n + 1] /\ n + 1 \in 1..Len(fr.text.imports)
    BY <1>1, <1>2
  <1>4. DOMAIN fr.text.imports = 1..Len(fr.text.imports) /\ fr.text = source[fr.mod].text
    BY DEF FrameOK, Text
  <1>5. PICK i \in DOMAIN source[fr.mod].text.imports : Head(fr.left) = source[fr.mod].text.imports[i]
    BY <1>1, <1>3, <1>4
  <1>6. Head(fr.left).from \in From(source[fr.mod].text)
    BY <1>5 DEF From
  <1> QED BY <1>1, <1>5, <1>6 DEF Import

\* The next import is taken, learnt, refused for a cause, or translated on the way.
LEMMA ResolveCause ==
  ASSUME IInv, IInv', CauseInv, raced = {}, Resolve
  PROVE  CauseInv'
  <1> DEFINE k == Head(Top.left).from
             f == Imported(k)
             fresh == Frame(k, f, source[k].text, ErrorsBefore)
  <1>1. /\ UNCHANGED <<source, file, now, raced>> /\ writing' = writing /\ ~writing
        /\ stack # <<>> /\ Top.left # <<>>
    BY DEF Resolve
  <1>2. /\ FramesOK(stack) /\ FramesOK(Under) /\ FrameOK(Top) /\ SourceOK
        /\ Len(stack) \in Nat \ {0} /\ Len(stack) \in 1..Len(stack)
    BY <1>1, Popped DEF IInv, Under, Top
  <1>3. /\ Chained(stack) /\ Explained(stack, Doomed) /\ \A i \in 1..Len(stack) : Opened(stack[i])
        /\ failures \subseteq Doomed
        /\ Top.failed \subseteq Doomed /\ (Top.bad => Top.mod \in Doomed)
    BY <1>1, <1>2 DEF CauseInv, Running, Explained, Top
  <1>4. Top.mod \in Sourced /\ k \in From(source[Top.mod].text) /\ k \in Modules
    BY <1>1, <1>2, NextImport DEF FrameOK
  <1>5. \A m \in Sourced : \A h \in From(source[m].text) : h \in Doomed => m \in Doomed
    BY <1>2, DoomedFacts
  <1>6. CASE \E g : /\ stack' = Append(Under, g)
                    /\ UNCHANGED <<asked, todo, failures, unwritten, outcome>>
                    /\ g.mod = Top.mod /\ g.into = Top.into
                    /\ g.failed \subseteq Doomed /\ (g.bad => g.mod \in Doomed)
    <2>1. PICK g : /\ stack' = Append(Under, g)
                   /\ UNCHANGED <<asked, todo, failures, unwritten, outcome>>
                   /\ g.mod = Top.mod /\ g.into = Top.into
                   /\ g.failed \subseteq Doomed /\ (g.bad => g.mod \in Doomed)
      BY <1>6
    <2>2. Started
      <3>1. Len(stack) <= Len(stack) /\ \A i \in 1..Len(stack) : stack[i] = stack[i]
        BY <1>2
      <3> QED BY <1>1, <1>2, <2>1, <3>1, ReplacedStarts DEF Top, Under
    <2>3. Doomed \subseteq Doomed'
      BY <1>1, <2>1, <2>2, DoomedStays
    <2>4. Chained(stack)'
      <3>1. Chained(stack')
        BY <1>1, <1>2, <1>3, <2>1, ChainReplaced DEF Top, Under
      <3>2. \A m : Reached(m)' = Reached(m)
        BY <1>1 DEF Reached, Closed
      <3> QED BY <1>1, <3>1, <3>2 DEF Chained
    <2>5. Explained(stack', Doomed')
      <3>1. Explained(Under, Doomed)
        BY <1>1, <1>2, <1>3, ExplainedPopped DEF Under
      <3>2. g.failed \subseteq Doomed' /\ (g.bad => g.mod \in Doomed')
        BY <2>1, <2>3
      <3> QED BY <1>2, <2>1, <2>3, <3>1, <3>2, ExplainedPushed
    <2>6. (\A i \in 1..Len(stack) : Opened(stack[i]))'
      BY <1>1, <1>3, <2>1, <2>2, SameOpened
    <2>7. Explained(stack, Doomed)'
      BY <2>5 DEF Explained
    <2> QED BY <1>3, <2>1, <2>3, <2>4, <2>6, <2>7 DEF CauseInv
  <1>7. CASE /\ k \in Sourced /\ ~Newer(f, k) /\ stack' = Append(stack, fresh)
             /\ UNCHANGED <<asked, todo, failures, unwritten, outcome>>
    <2>1. /\ fresh.mod = k /\ fresh.into = f /\ fresh.failed = {}
          /\ fresh.bad => k \in Doomed
      <3>1. /\ fresh.mod = k /\ fresh.into = f /\ fresh.failed = {}
            /\ fresh.bad = (FALSE \/ ~source[k].text.sound)
        BY DEF Frame, ErrorsBefore
      <3>2. ~source[k].text.sound => k \in Hopeless
        BY <1>4 DEF Hopeless
      <3> QED BY <1>2, <3>1, <3>2, DoomedFacts
    <2> HIDE DEF fresh
    <2>2. /\ Len(stack') = Len(stack) + 1
          /\ \A i \in 1..Len(stack) + 1 : stack'[i] = IF i <= Len(stack) THEN stack[i] ELSE fresh
      BY <1>2, <1>7, PushedAt
    <2>3. Started
      <3>1. \A i \in 1..Len(stack') : (i \in 1..Len(stack) /\ stack'[i] = stack[i]) \/ stack'[i] = fresh
        BY <1>2, <2>2
      <3> QED BY <1>7, <2>1, <3>1 DEF Started
    <2>4. Doomed \subseteq Doomed'
      BY <1>1, <1>7, <2>3, DoomedStays
    <2>5. Chained(stack)'
      <3>1. Chained(stack')
        BY <1>2, <1>3, <1>4, <1>7, <2>1, ChainPushed DEF Top
      <3>2. \A m : Reached(m)' = Reached(m)
        BY <1>1 DEF Reached, Closed
      <3> QED BY <1>1, <3>1, <3>2 DEF Chained
    <2>6. Explained(stack', Doomed')
      <3>1. fresh.failed \subseteq Doomed' /\ (fresh.bad => fresh.mod \in Doomed')
        BY <2>1, <2>4
      <3> QED BY <1>2, <1>3, <1>7, <2>4, <3>1, ExplainedPushed
    <2>7. (\A i \in 1..Len(stack) : Opened(stack[i]))'
      BY <1>1, <1>3, <1>7, <2>3, SameOpened
    <2>8. Explained(stack, Doomed)'
      BY <2>6 DEF Explained
    <2> QED BY <1>3, <1>7, <2>4, <2>5, <2>7, <2>8 DEF CauseInv
  <1>8. CASE Over("overflow")
    BY <1>8, CauseOver DEF Over, Running
  <1>9. ASSUME k \in Doomed,
               stack' = Append(Under, Refuse(Top, k)) /\ UNCHANGED <<asked, todo, failures, unwritten, outcome>>
        PROVE  CauseInv'
    <2>1. Top.mod \in Doomed
      BY <1>4, <1>5, <1>9
    <2> DEFINE g == Refuse(Top, k)
    <2>2. g.mod = Top.mod /\ g.into = Top.into /\ g.failed \subseteq Doomed /\ (g.bad => g.mod \in Doomed)
      <3> HIDE DEF k
      <3>1. g.mod = Top.mod /\ g.into = Top.into /\ g.failed = Top.failed \cup {k}
        BY <1>2, RefuseStep
      <3> HIDE DEF g
      <3> QED BY <1>3, <1>9, <2>1, <3>1
    <2>3. stack' = Append(Under, g) /\ UNCHANGED <<asked, todo, failures, unwritten, outcome>>
      BY <1>9
    <2> HIDE DEF g
    <2> QED BY <1>6, <2>2, <2>3
  <1>10. CASE /\ k \in DOMAIN Top.found \cup Top.failed
              /\ stack' = Append(Under, Take(Top)) /\ UNCHANGED <<asked, todo, failures, unwritten, outcome>>
    <2>1. ASSUME k \notin Top.failed, Head(Top.left).name \notin Top.found[k] PROVE Top.mod \in Doomed
      <3>1. k \in Sourced /\ Top.found[k] = Provides(source[k].text)
        BY <1>2, <1>10, <2>1 DEF FrameOK
      <3>2. PICK i \in DOMAIN source[Top.mod].text.imports : Head(Top.left) = source[Top.mod].text.imports[i]
        BY <1>1, <1>2, NextImport
      <3>3. Top.mod \in Hopeless
        BY <1>4, <2>1, <3>1, <3>2 DEF Hopeless, Sourced
      <3> QED BY <1>2, <3>3, DoomedFacts
    <2>2. Take(Top).bad => Take(Top).mod \in Doomed
      BY <1>2, <1>3, <2>1, TakeStep
    <2> QED BY <1>2, <1>3, <1>6, <1>10, <2>2, TakeStep
  <1>11. CASE /\ k \notin Sourced
              /\ stack' = Append(Under, Refuse(Top, k)) /\ UNCHANGED <<asked, todo, failures, unwritten, outcome>>
    <2>1. k \in Hopeless
      BY <1>4, <1>11 DEF Hopeless
    <2> QED BY <1>2, <1>9, <1>11, <2>1, DoomedFacts
  <1>12. CASE /\ stack' = Append(Under, Learn(Top, k, Provides(file[f].text)))
              /\ UNCHANGED <<asked, todo, failures, unwritten, outcome>>
    <2> DEFINE names == Provides(file[f].text)
               g     == Learn(Top, k, names)
    <2>1. g.mod = Top.mod /\ g.into = Top.into /\ g.failed = Top.failed /\ g.bad = Top.bad
      <3> HIDE DEF names
      <3> QED BY <1>2, LearnStep
    <2>2. stack' = Append(Under, g) /\ UNCHANGED <<asked, todo, failures, unwritten, outcome>>
      BY <1>12
    <2> HIDE DEF g
    <2> QED BY <1>3, <1>6, <2>1, <2>2
  <1>13. CASE /\ k \in Sourced /\ Newer(f, k) /\ ~file[f].whole
              /\ stack' = Append(Under, Refuse(Top, k)) /\ UNCHANGED <<asked, todo, failures, unwritten, outcome>>
    <2>1. ASSUME NEW i \in 1..Len(stack), stack[i].into = f PROVE k \in unwritten
      <3>1. FrameOK(stack[i]) /\ Opened(stack[i])
        BY <1>2, <1>3 DEF FramesOK
      <3>2. stack[i].mod = k
        BY <1>13, <2>1, <3>1, OwnFile DEF FrameOK
      <3> QED BY <1>1, <1>13, <2>1, <3>1, <3>2 DEF Opened
    <2>2. k \in Hopeless
      BY <1>4, <1>13, <2>1 DEF Hopeless
    <2> QED BY <1>2, <1>9, <1>13, <2>2, DoomedFacts
  <1> HIDE DEF f
  <1>14. \/ /\ k \in DOMAIN Top.found \cup Top.failed
            /\ stack' = Append(Under, Take(Top)) /\ UNCHANGED <<asked, todo, failures, unwritten, outcome>>
         \/ /\ k \notin Sourced
            /\ stack' = Append(Under, Refuse(Top, k)) /\ UNCHANGED <<asked, todo, failures, unwritten, outcome>>
         \/ /\ stack' = Append(Under, Learn(Top, k, Provides(file[f].text)))
            /\ UNCHANGED <<asked, todo, failures, unwritten, outcome>>
         \/ /\ k \in Sourced /\ Newer(f, k) /\ ~file[f].whole
            /\ stack' = Append(Under, Refuse(Top, k)) /\ UNCHANGED <<asked, todo, failures, unwritten, outcome>>
         \/ /\ k \in Sourced /\ ~Newer(f, k) /\ stack' = Append(stack, fresh)
            /\ UNCHANGED <<asked, todo, failures, unwritten, outcome>>
         \/ Over("overflow")
    BY DEF Resolve, SourceOf, f
  <1> QED BY <1>7, <1>8, <1>10, <1>11, <1>12, <1>13, <1>14

\* While no source is edited during a run, every step keeps each error explained.
LEMMA CauseStep == IInv /\ IInv' /\ CauseInv /\ [Next]_vars => CauseInv'
  <1> SUFFICES ASSUME IInv, IInv', CauseInv, [Next]_vars, raced' = {} PROVE CauseInv'
    BY DEF CauseInv
  <1>1. Len(<<>>) = 0 /\ 1..0 = {}
    OBVIOUS
  <1>2. CASE Edit
    <2>1. ~Running /\ UNCHANGED runVars
      BY <1>2 DEF Edit
    <2>2. stack = <<>> /\ ~Running'
      BY <2>1 DEF Running, runVars
    <2> QED BY <2>1, <2>2, CauseOver DEF runVars
  <1>3. CASE Begin
    BY <1>3, CauseOver DEF Begin, Running
  <1>4. CASE NextModule
    <2>1. stack = <<>> /\ UNCHANGED <<source, file, writing, raced>> /\ raced = {}
      BY <1>4 DEF NextModule
    <2>2. PICK m \in todo :
            \/ Proceed(todo \ {m}, failures, unwritten)
            \/ /\ ~Newer(Asked(m), m) /\ UNCHANGED <<asked, failures, unwritten, outcome>>
               /\ stack' = <<Frame(m, Asked(m), source[m].text, FALSE)>>
      BY <1>4 DEF NextModule
    <2>3. failures \subseteq Doomed /\ m \in Sourced
      BY <2>1, <2>2 DEF CauseInv, Running, IInv
    <2>4. CASE Proceed(todo \ {m}, failures, unwritten)
      <3>1. CASE todo \ {m} = {}
        BY <2>4, <3>1, CauseOver DEF Proceed, Over, Running
      <3>2. CASE todo \ {m} # {}
        <4>1. stack' = <<>> /\ failures' = failures /\ unwritten' = unwritten
          BY <2>4, <3>2 DEF Proceed
        <4>2. Started
          BY <1>1, <4>1 DEF Started
        <4> QED BY <2>1, <2>3, <4>1, <4>2, DoomedStays, CauseOver
      <3> QED BY <3>1, <3>2
    <2>5. CASE /\ ~Newer(Asked(m), m) /\ UNCHANGED <<asked, failures, unwritten, outcome>>
               /\ stack' = <<Frame(m, Asked(m), source[m].text, FALSE)>>
      <3> DEFINE fr == Frame(m, Asked(m), source[m].text, FALSE)
      <3>1. /\ fr.mod = m /\ fr.into = Asked(m) /\ fr.failed = {}
            /\ fr.bad = (FALSE \/ ~source[m].text.sound)
        BY DEF Frame
      <3>2. stack' = <<fr>>
        BY <2>5
      <3> HIDE DEF fr
      <3>3. Len(stack') = 1 /\ stack'[1] = fr /\ \A i \in 1..1 : i = 1
        BY <3>2
      <3>4. Started
        BY <2>5, <3>1, <3>3 DEF Started
      <3>5. Doomed \subseteq Doomed'
        BY <2>1, <2>5, <3>4, DoomedStays
      <3>6. fr.bad => m \in Doomed'
        <4>1. ~source[m].text.sound => m \in Hopeless'
          BY <2>1, <2>3 DEF Hopeless, Sourced
        <4> QED BY <2>1, <3>1, <4>1, DoomedNext DEF IInv
      <3>7. Chained(stack)'
        <4>1. m \in Reached(m)
          BY <2>3, ReachedSelf DEF Sourced
        <4>2. m \in Reached(m)'
          BY <2>1, <4>1 DEF Reached, Closed
        <4> QED BY <3>1, <3>3, <4>2 DEF Chained
      <3>8. Explained(stack, Doomed)'
        BY <3>1, <3>3, <3>6 DEF Explained
      <3>9. (\A i \in 1..Len(stack) : Opened(stack[i]))'
        BY <2>1, <2>5, <3>1, <3>3 DEF Opened, Newer
      <3> QED BY <2>3, <2>5, <3>5, <3>7, <3>8, <3>9 DEF CauseInv
    <2> QED BY <2>2, <2>4, <2>5
  <1>5. CASE Resolve
    BY <1>5, ResolveCause DEF Resolve
  <1>6. CASE Fail
    <2>1. /\ stack # <<>> /\ ~writing /\ Top.bad /\ Return(FALSE, unwritten)
          /\ UNCHANGED <<source, file, writing, raced>> /\ raced = {}
      BY <1>6 DEF Fail, Translated
    <2> QED BY <2>1, ReturnedCause
  <1>7. CASE OpenFile
    <2>1. /\ stack # <<>> /\ ~writing /\ writing' /\ raced = {}
          /\ file' = [file EXCEPT ![Top.into] = [there |-> TRUE, whole |-> FALSE, at |-> now, text |-> <<>>]]
          /\ UNCHANGED <<source, todo, stack, failures, unwritten, raced>>
      BY <1>7 DEF OpenFile
    <2>2. /\ FramesOK(stack) /\ FrameOK(Top) /\ Len(stack) \in 1..Len(stack)
      BY <2>1, Popped DEF IInv, Top
    <2>3. \A f \in Files : f # Top.into => file'[f] = file[f]
      BY <2>1 DEF IInv, FileOK
    <2>4. Started
      BY <2>1 DEF Started
    <2>5. Doomed \subseteq Doomed'
      <3>1. \A f \in Files : (\A i \in 1..Len(stack) : stack[i].into # f) => file'[f] = file[f]
        BY <2>2, <2>3 DEF Top
      <3> QED BY <2>1, <2>4, <3>1, DoomedStays
    <2>6. Chained(stack)'
      BY <2>1 DEF CauseInv, Chained, Reached, Closed
    <2>7. Explained(stack, Doomed)'
      BY <2>1, <2>5 DEF CauseInv, Explained
    <2>8. ASSUME NEW i \in 1..Len(stack') PROVE Opened(stack[i])'
      <3>1. i \in 1..Len(stack) /\ stack'[i] = stack[i] /\ Top' = Top
        BY <2>1 DEF Top
      <3>2. Opened(stack[i]) /\ stack[i].into \in Files
        BY <2>1, <2>2, <3>1, FilesOf DEF CauseInv, FramesOK, FrameOK
      <3> QED BY <2>1, <2>3, <3>1, <3>2 DEF Opened, Newer
    <2> QED BY <2>1, <2>5, <2>6, <2>7, <2>8 DEF CauseInv, Running
  <1>8. CASE WriteFile
    <2>1. /\ stack # <<>> /\ writing' = FALSE /\ raced = {} /\ Return(TRUE, unwritten)
          /\ UNCHANGED <<source, raced>>
          /\ file' = [file EXCEPT ![Top.into] = [there |-> TRUE, whole |-> TRUE, at |-> now, text |-> Top.text]]
      BY <1>8 DEF WriteFile, IInv
    <2>2. Top.into \in Files
      BY <2>1, Popped, FilesOf DEF IInv, Top, FrameOK
    <2>3. (\A f \in Files : f # Top.into => file'[f] = file[f]) /\ file'[Top.into].whole
      BY <2>1, <2>2 DEF IInv, FileOK
    <2> QED BY <2>1, <2>3, ReturnedCause
  <1>9. CASE WriteFails
    <2>1. /\ stack # <<>> /\ writing' = FALSE /\ raced = {} /\ Return(FALSE, unwritten \cup {Top.mod})
          /\ UNCHANGED <<source, file, raced>>
      BY <1>9 DEF WriteFails
    <2>2. Top.mod \in unwritten \cup {Top.mod} /\ unwritten \subseteq unwritten \cup {Top.mod}
      OBVIOUS
    <2> QED BY <2>1, <2>2, ReturnedCause
  <1>10. CASE Kill
    BY <1>10, CauseOver DEF Kill, Over, Running
  <1>11. ASSUME UNCHANGED <<source, file, raced, runVars>> PROVE CauseInv'
    <2>1. UNCHANGED <<stack, todo, failures, unwritten, writing>> /\ raced = {}
      BY <1>11 DEF runVars
    <2>2. \A m : Reached(m)' = Reached(m)
      BY <1>11 DEF Reached, Closed
    <2>3. Hopeless' = Hopeless
      BY <1>11, <2>1 DEF Hopeless, Newer
    <2>4. Doomed' = Doomed
      BY <2>2, <2>3 DEF Doomed
    <2>5. Chained(stack)'
      BY <1>11, <2>1, <2>2 DEF CauseInv, Chained
    <2>6. Explained(stack, Doomed)'
      BY <2>1, <2>4 DEF CauseInv, Explained
    <2>7. (\A i \in 1..Len(stack) : Opened(stack[i]))'
      BY <1>11, <2>1 DEF CauseInv, Opened, Newer, Top
    <2> QED BY <2>1, <2>4, <2>5, <2>6, <2>7 DEF CauseInv, Running
  <1>12. CASE Tick
    BY <1>11, <1>12 DEF Tick
  <1>13. CASE UNCHANGED vars
    BY <1>11, <1>13 DEF vars, runVars
  <1> QED BY <1>2, <1>3, <1>4, <1>5, <1>6, <1>7, <1>8, <1>9, <1>10, <1>12, <1>13 DEF Next, Work

\* Both invariants hold throughout.
LEMMA BothHold == Spec => []IInv /\ []CauseInv
  <1>1. Init => CauseInv
    <2>1. Init => Len(stack) = 0 /\ 1..0 = {} /\ failures = {}
      BY DEF Init
    <2> QED BY <2>1 DEF CauseInv, Chained, Explained
  <1> QED BY <1>1, InitOK, StepOK, CauseStep, PTL DEF Spec

\* A module is reported, or refused to an importer, only for something wrong with a module
\* it reaches (Specs.lean, resolveModule gives every translation errors of its own).
THEOREM FailuresHaveCauses == Spec => []FailureHasCause
  <1>1. IInv /\ CauseInv => FailureHasCause
    <2> SUFFICES ASSUME IInv, CauseInv, Running, raced = {},
                        NEW m \in failures \cup UNION {fr.failed : fr \in Frames}
                 PROVE  \E k \in Reached(m) : Broken(k)
      BY DEF FailureHasCause
    <2>1. m \in Doomed
      <3>1. CASE m \in failures
        BY <3>1 DEF CauseInv
      <3>2. CASE m \in UNION {fr.failed : fr \in Frames}
        <4>1. PICK i \in DOMAIN stack : m \in stack[i].failed
          BY <3>2 DEF Frames
        <4>2. DOMAIN stack = 1..Len(stack)
          BY DEF IInv, FramesOK
        <4> QED BY <4>1, <4>2 DEF CauseInv, Explained
      <3> QED BY <3>1, <3>2
    <2>2. PICK k \in Reached(m) : k \in Hopeless
      BY <2>1 DEF Doomed
    <2> QED BY <2>2 DEF Hopeless, Broken
  <1> QED BY <1>1, BothHold, PTL

\* There are n numbers from 1 to n.
LEMMA CountTo ==
  ASSUME NEW n \in Nat
  PROVE  IsFiniteSet(1..n) /\ Cardinality(1..n) = n
  <1>1. 1 \in Int /\ n \in Int
    OBVIOUS
  <1>2. IsFiniteSet(1..n) /\ Cardinality(1..n) = IF 1 > n THEN 0 ELSE n - 1 + 1
    BY <1>1, FS_Interval, Zenon
  <1> QED
    BY <1>2

\* As many translations as there are modules, each of a module the one below imports, and
\* an import of one more: some module is among them twice, and so reaches itself.
LEMMA Repeated ==
  ASSUME SourceOK, NEW s, FramesOK(s), s # <<>>, Chained(s), Len(s) > Cardinality(Modules)
  PROVE  \E m \in Sourced : Cyclic(m) /\ m \in Reached(s[1].mod)
  <1> USE PySpecAssumption
  <1>1. Len(s) \in Nat /\ Len(s) >= 1
    <2>1. PICK S : s \in Seq(S)
      BY DEF FramesOK
    <2> QED BY <2>1
  <1>2. \A i \in 1..Len(s) : s[i].mod \in Sourced /\ s[i].mod \in Modules
    BY DEF FramesOK, FrameOK, Sourced
  <1> DEFINE f == [i \in 1..Len(s) |-> s[i].mod]
  <1>3. f \in [1..Len(s) -> Modules]
    BY <1>2
  <1>4. IsFiniteSet(1..Len(s)) /\ Cardinality(1..Len(s)) = Len(s)
    BY <1>1, CountTo
  <1>5. PICK a \in 1..Len(s), b \in 1..Len(s) : a # b /\ f[a] = f[b]
    <2> HIDE DEF f
    <2> QED BY <1>3, <1>4, FS_PigeonHole
  <1>6. ASSUME NEW i \in 1..Len(s), NEW j \in 1..Len(s), i < j, s[i].mod = s[j].mod
        PROVE  \E m \in Sourced : Cyclic(m) /\ m \in Reached(s[1].mod)
    <2>1. i + 1 \in 1..Len(s) /\ i + 1 <= j /\ 1 \in 1..Len(s) /\ 1 <= i
      BY <1>1, <1>6
    <2>2. s[i + 1].mod \in From(source[s[i].mod].text) /\ s[j].mod \in Reached(s[i + 1].mod)
      BY <2>1 DEF Chained
    <2>3. Cyclic(s[i].mod)
      BY <1>6, <2>2 DEF Cyclic
    <2>4. s[i].mod \in Reached(s[1].mod)
      BY <2>1 DEF Chained
    <2> QED BY <1>2, <2>3, <2>4
  <1>7. s[a].mod = s[b].mod /\ (a < b \/ b < a)
    BY <1>1, <1>5
  <1> QED BY <1>6, <1>7

\* The stack of the process overflows only in imports that lead back to themselves: one more
\* translation than there are modules is not of different ones (Specs.lean, resolveModule).
THEOREM CyclesOverflow == Spec => OverflowsOnCycles
  <1>1. ASSUME IInv, CauseInv, Next, outcome = "running", outcome' = "overflow", raced = {}
        PROVE  \E m \in Sourced : Cyclic(m) /\ m \in Reached(stack[1].mod)
    <2> DEFINE k     == Head(Top.left).from
               fresh == Frame(k, Imported(k), source[k].text, ErrorsBefore)
               s     == Append(stack, fresh)
    <2>1. Resolve
      BY <1>1 DEF Next, Work, Begin, NextModule, Fail, OpenFile, WriteFile, WriteFails, Kill,
                  Tick, Edit, Return, Proceed, Over, runVars
    <2>2. /\ stack # <<>> /\ Top.left # <<>> /\ k \in Sourced /\ Len(stack) = MaxDepth
      BY <1>1, <2>1 DEF Resolve
    <2>3. FramesOK(stack) /\ FrameOK(Top) /\ Chained(stack) /\ SourceOK
      BY <1>1, <2>2, Popped DEF IInv, CauseInv, Top
    <2>4. k \in From(source[Top.mod].text)
      BY <1>1, <2>2, <2>3, NextImport
    <2>5. FrameOK(fresh) /\ fresh.mod = k
      <3>1. FrameOK(fresh)
        BY <2>2, <2>3, NewFrame DEF ErrorsBefore
      <3> QED BY <3>1 DEF Frame
    <2> HIDE DEF fresh, k
    <2>6. FramesOK(s) /\ Chained(s)
      BY <2>2, <2>3, <2>4, <2>5, Pushed, ChainPushed DEF Top
    <2>7. Len(stack) \in Nat /\ Len(s) = Len(stack) + 1 /\ (1 <= Len(stack) => s[1] = stack[1])
      BY <2>3, PushedAt
    <2>8. Len(stack) >= 1
      BY <2>2, <2>3, Popped
    <2>9. Len(s) > Cardinality(Modules) /\ s # <<>>
      <3>1. Cardinality(Modules) \in Nat
        BY PySpecAssumption, FS_CardinalityType
      <3>2. Len(<<>>) = 0
        OBVIOUS
      <3> QED BY <2>2, <2>7, <3>1, <3>2, PySpecAssumption
    <2> HIDE DEF s
    <2>10. \E m \in Sourced : Cyclic(m) /\ m \in Reached(s[1].mod)
      BY <2>3, <2>6, <2>9, Repeated
    <2> QED BY <2>7, <2>8, <2>10
  <1> QED BY <1>1, BothHold, PTL DEF Spec, OverflowsOnCycles

-----------------------------------------------------------------------------
(* Types: with the invariants above only the bounds are left. *)

\* A step of a run that reports only modules with a source and starts no translation too
\* deep keeps the types.
LEMMA TypesOfRun ==
  ASSUME IInv', TypeOK, UNCHANGED <<source, now>>, failures' \subseteq Sourced,
         Len(stack') <= MaxDepth, outcome' \in {outcome, "running", "succeeded", "failed", "overflow", "killed"},
         \A f \in Files : file'[f] = file[f] \/ (file'[f].at = now /\ file'[f].whole \in BOOLEAN)
  PROVE  TypeOK'
  <1>1. \A fr \in Frames' : fr.mod \in Sourced /\ fr.into \in Files
    <2>1. DOMAIN stack' = 1..Len(stack')
      BY DEF IInv, FramesOK
    <2>2. ASSUME NEW i \in 1..Len(stack') PROVE stack'[i].mod \in Sourced /\ stack'[i].into \in Files
      <3>1. FrameOK(stack[i])'
        BY DEF IInv, FramesOK
      <3> QED BY <3>1, FilesOf DEF FrameOK
    <2> QED BY <2>1, <2>2 DEF Frames
  <1>2. \A f \in Files : file'[f] = Absent \/ (file'[f].at \in 1..MaxTime /\ file'[f].whole \in BOOLEAN)
    BY DEF TypeOK
  <1>3. todo' \subseteq Sourced
    BY DEF IInv
  <1> QED BY <1>1, <1>2, <1>3 DEF TypeOK

\* A translation that ends leaves none deeper.
LEMMA TypesOfReturn ==
  ASSUME IInv, TypeOK, stack # <<>>, NEW good, NEW lost, Return(good, lost)
  PROVE  /\ failures' \subseteq Sourced /\ Len(stack') <= MaxDepth
         /\ outcome' \in {outcome, "succeeded", "failed"}
  <1>1. /\ FramesOK(stack) /\ FramesOK(Under) /\ Top.mod \in Sourced
        /\ Len(stack) \in Nat \ {0} /\ Len(Under) = Len(stack) - 1
    BY Popped DEF IInv, Under, Top, FrameOK
  <1>2. Len(stack) <= MaxDepth /\ MaxDepth \in Nat /\ failures \subseteq Sourced
    BY PySpecAssumption DEF TypeOK
  <1>3. CASE Len(stack) = 1
    <2>1. stack' = <<>> /\ Len(<<>>) = 0
      BY <1>3 DEF Return, Proceed, Over
    <2> QED BY <1>1, <1>2, <1>3, <2>1 DEF Return, Proceed, Over
  <1>4. CASE Len(stack) # 1
    <2>1. Under # <<>> /\ failures' = failures /\ outcome' = outcome
      BY <1>1, <1>4 DEF Return
    <2>2. \E fr : stack' = Append(SubSeq(Under, 1, Len(Under) - 1), fr)
      BY <1>4 DEF Return
    <2>3. Len(stack') = Len(Under)
      BY <1>1, <2>1, <2>2, ReplacedAt
    <2> QED BY <1>1, <1>2, <2>1, <2>3
  <1> QED BY <1>3, <1>4

\* Every step keeps the types.
LEMMA TypeStep == IInv /\ IInv' /\ TypeOK /\ [Next]_vars => TypeOK'
  <1> SUFFICES ASSUME IInv, IInv', TypeOK, [Next]_vars PROVE TypeOK'
    OBVIOUS
  <1>1. /\ MaxDepth \in Nat /\ MaxTime \in Nat \ {0} /\ Len(<<>>) = 0
        /\ Len(stack) <= MaxDepth /\ failures \subseteq Sourced
    BY PySpecAssumption DEF TypeOK
  <1>2. CASE Begin
    BY <1>1, <1>2, TypesOfRun DEF Begin
  <1>3. CASE NextModule
    <2>1. UNCHANGED <<source, file, now>>
      BY <1>3 DEF NextModule
    <2>2. failures' \subseteq Sourced /\ outcome' \in {outcome, "succeeded", "failed"}
      BY <1>1, <1>3 DEF NextModule, Proceed, Over
    <2>3. Len(stack') <= MaxDepth
      <3>1. PICK m \in todo : \/ stack' = <<>>
                             \/ stack' = <<Frame(m, Asked(m), source[m].text, FALSE)>>
        BY <1>3 DEF NextModule, Proceed, Over
      <3>2. MaxDepth >= 1
        <4>1. m \in Modules
          BY DEF IInv, Sourced
        <4>2. Cardinality(Modules) # 0 /\ Cardinality(Modules) \in Nat
          BY <4>1, PySpecAssumption, FS_CardinalityType, FS_EmptySet
        <4> QED BY <1>1, <4>2, PySpecAssumption
      <3>3. CASE stack' = <<>>
        BY <1>1, <3>3
      <3>4. CASE stack' = <<Frame(m, Asked(m), source[m].text, FALSE)>>
        <4>1. Len(stack') = 1
          BY <3>4
        <4> QED BY <3>2, <4>1
      <3> QED BY <3>1, <3>3, <3>4
    <2> QED BY <2>1, <2>2, <2>3, TypesOfRun
  <1>4. CASE Resolve
    <2>1. stack # <<>> /\ UNCHANGED <<source, file, now>>
      BY <1>4 DEF Resolve
    <2>2. failures' \subseteq Sourced /\ outcome' \in {outcome, "overflow"}
      BY <1>1, <1>4 DEF Resolve, Over
    <2>3. \/ \E fr : stack' = Append(Under, fr)
          \/ Len(stack) < MaxDepth /\ \E fr : stack' = Append(stack, fr)
          \/ stack' = <<>>
      BY <1>4 DEF Resolve, Over
    <2>4. Len(stack') <= MaxDepth
      <3>1. FramesOK(stack) /\ Len(stack) \in Nat
        BY <2>1, Popped DEF IInv
      <3>2. ASSUME NEW fr, stack' = Append(Under, fr) PROVE Len(stack') = Len(stack)
        BY <2>1, <3>1, <3>2, ReplacedAt DEF Under
      <3>3. ASSUME NEW fr, stack' = Append(stack, fr) PROVE Len(stack') = Len(stack) + 1
        BY <3>1, <3>3, PushedAt
      <3> QED BY <1>1, <2>3, <3>1, <3>2, <3>3
    <2> QED BY <2>1, <2>2, <2>4, TypesOfRun
  <1>5. CASE Fail
    BY <1>5, TypesOfReturn, TypesOfRun DEF Fail
  <1>6. CASE OpenFile
    <2>1. \A f \in Files : file'[f] = file[f] \/ (file'[f].at = now /\ file'[f].whole \in BOOLEAN)
      BY <1>6 DEF OpenFile, IInv, FileOK
    <2> QED BY <1>1, <1>6, <2>1, TypesOfRun DEF OpenFile
  <1>7. CASE WriteFile
    <2>1. \A f \in Files : file'[f] = file[f] \/ (file'[f].at = now /\ file'[f].whole \in BOOLEAN)
      BY <1>7 DEF WriteFile, IInv, FileOK
    <2>2. stack # <<>> /\ Return(TRUE, unwritten) /\ UNCHANGED <<source, now>>
      BY <1>7 DEF WriteFile, IInv
    <2> QED BY <2>1, <2>2, TypesOfReturn, TypesOfRun
  <1>8. CASE WriteFails
    BY <1>8, TypesOfReturn, TypesOfRun DEF WriteFails
  <1>9. CASE Kill
    BY <1>1, <1>9, TypesOfRun DEF Kill, Over
  <1>10. CASE Tick
    <2>1. now' = now + 1 /\ now < MaxTime /\ UNCHANGED <<source, file, runVars>>
      BY <1>10 DEF Tick
    <2>2. Frames' = Frames /\ now' \in 1..MaxTime
      BY <1>1, <2>1 DEF Frames, runVars, TypeOK
    <2> QED BY <2>1, <2>2 DEF TypeOK, runVars
  <1>11. CASE Edit
    <2>1. PICK m \in Sourced : \E t \in TextsOf[m] : source' = [source EXCEPT ![m] = [at |-> now, text |-> t]]
      BY <1>11 DEF Edit
    <2>2. UNCHANGED <<file, now, runVars>>
      BY <1>11 DEF Edit
    <2>3. \A k \in Sourced : source'[k].at \in 0..MaxTime /\ source'[k].text \in TextsOf[k]
      BY <1>1, <2>1 DEF TypeOK, IInv, SourceOK
    <2>4. Frames' = Frames
      BY <2>2 DEF Frames, runVars
    <2> QED BY <2>2, <2>3, <2>4 DEF TypeOK, runVars
  <1>12. CASE UNCHANGED vars
    BY <1>12 DEF vars, TypeOK, Frames, Sourced
  <1> QED BY <1>2, <1>3, <1>4, <1>5, <1>6, <1>7, <1>8, <1>9, <1>10, <1>11, <1>12 DEF Next, Work

\* Type correctness: the state keeps to what the variables are declared for; in particular
\* only modules with a source are reported, and no imports are deeper than the stack is.
THEOREM CacheTypeOK == Spec => []TypeOK
  <1>1. Init => TypeOK
    <2> SUFFICES ASSUME Init PROVE TypeOK
      OBVIOUS
    <2>1. DOMAIN stack = {} /\ Len(stack) = 0
      BY DEF Init
    <2>2. \A m \in Sourced : source[m].at \in 0..MaxTime
      BY PySpecAssumption DEF Init
    <2> QED BY <2>1, <2>2, PySpecAssumption DEF Init, TypeOK, Frames
  <1> QED BY <1>1, BothHold, TypeStep, PTL DEF Spec

-----------------------------------------------------------------------------
(* What a successful run has brought up to date. *)

\* What the run makes of a module it is asked for is of its source.
UpToDate(m) == file[Asked(m)].whole => file[Asked(m)].text = source[m].text

\* Every module come to is the one at hand, was reported, or is up to date.
DoneInv ==
  raced = {} /\ Running =>
    \A m \in asked :
      \/ m \in todo \/ m \in failures \/ UpToDate(m)
      \/ stack # <<>> /\ stack[1].mod = m /\ stack[1].into = Asked(m)

\* Whatever a translation writes, what was up to date stays so.
LEMMA UpToDateStays ==
  ASSUME IInv, raced = {}, stack # <<>>, UNCHANGED source, NEW whole, NEW text,
         file' = [file EXCEPT ![Top.into] = [there |-> TRUE, whole |-> whole, at |-> now, text |-> text]],
         whole = FALSE \/ text = Top.text
  PROVE  /\ \A m \in Sourced : UpToDate(m) => UpToDate(m)'
         /\ \A m \in Sourced : m = Top.mod /\ Top.into = Asked(m) => UpToDate(m)'
  <1>1. FrameOK(Top) /\ Top.mod \in Sourced /\ Top.into \in Files
    BY Popped, FilesOf DEF IInv, Top, FrameOK
  <1>2. Top.text = source[Top.mod].text
    BY <1>1 DEF FrameOK
  <1>3. file'[Top.into].whole => file'[Top.into].text = source[Top.mod].text
    BY <1>1, <1>2 DEF IInv, FileOK
  <1>4. ASSUME NEW m \in Sourced, UpToDate(m) PROVE UpToDate(m)'
    <2>1. CASE Asked(m) = Top.into
      <3>1. m = Top.mod
        BY <1>1, <2>1, OwnFile DEF FrameOK
      <3> QED BY <1>3, <2>1, <3>1 DEF UpToDate
    <2>2. CASE Asked(m) # Top.into
      <3>1. file'[Asked(m)] = file[Asked(m)]
        BY <2>2, FilesOf DEF IInv, FileOK
      <3> QED BY <1>4, <3>1 DEF UpToDate
    <2> QED BY <2>1, <2>2
  <1> QED BY <1>3, <1>4 DEF UpToDate

\* A translation ends, reported or up to date: its module is done with, or so is the run.
LEMMA ReturnedDone ==
  ASSUME IInv, DoneInv, raced = {}, UNCHANGED source, stack # <<>>,
         NEW good \in BOOLEAN, NEW lost, Return(good, lost),
         \A m \in Sourced : UpToDate(m) => UpToDate(m)',
         \A m \in Sourced : good /\ m = Top.mod /\ Top.into = Asked(m) => UpToDate(m)'
  PROVE  /\ raced' = {} => DoneInv'
         /\ outcome' # outcome /\ outcome' = "succeeded" => \A m \in asked : UpToDate(m)'
  <1>1. /\ FramesOK(stack) /\ FramesOK(Under) /\ Len(stack) \in Nat \ {0} /\ Len(Under) = Len(stack) - 1
        /\ \A i \in 1..Len(Under) : Under[i] = stack[i]
        /\ asked \subseteq Sourced
    BY Popped, PoppedAt DEF IInv, Under
  <1>2. \A m \in asked :
          \/ m \in todo \/ m \in failures \/ UpToDate(m)'
          \/ stack[1].mod = m /\ stack[1].into = Asked(m)
    BY <1>1 DEF DoneInv, Running
  <1>3. CASE Len(stack) = 1
    <2> DEFINE failed == IF good THEN failures ELSE failures \cup {Top.mod}
    <2>1. Proceed(todo, failed, lost) /\ Top = stack[1]
      BY <1>3 DEF Return, Remaining, Top
    <2>2. \A m \in asked : m \in todo \/ m \in failed \/ UpToDate(m)'
      <3> SUFFICES ASSUME NEW m \in asked, m \notin todo, m \notin failures, ~UpToDate(m)'
                   PROVE  m \in failed
        OBVIOUS
      <3>1. Top.mod = m /\ Top.into = Asked(m) /\ m \in Sourced
        BY <1>1, <1>2, <2>1
      <3>2. ~good
        BY <3>1
      <3> QED BY <3>1, <3>2
    <2>3. CASE todo = {}
      <3>1. /\ todo' = {} /\ stack' = <<>> /\ outcome' = IF failed = {} THEN "succeeded" ELSE "failed"
        BY <2>1, <2>3 DEF Proceed, Over
      <3> QED BY <2>2, <2>3, <3>1 DEF DoneInv, Running
    <2>4. CASE todo # {}
      <3>1. todo' = todo /\ failures' = failed /\ asked' = asked /\ outcome' = outcome
        BY <2>1, <2>4 DEF Proceed
      <3> QED BY <2>2, <3>1 DEF DoneInv
    <2> QED BY <2>3, <2>4
  <1>4. CASE Len(stack) # 1
    <2> DEFINE importer == Under[Len(Under)]
               told == IF good THEN Learn(importer, Top.mod, Provides(Top.text))
                               ELSE Refuse(importer, Top.mod)
    <2>1. /\ stack' = Append(SubSeq(Under, 1, Len(Under) - 1), told)
          /\ UNCHANGED <<asked, todo, failures, outcome>>
      BY <1>4 DEF Return
    <2>2. Under # <<>> /\ Len(Under) \in Nat \ {0}
      BY <1>1, <1>4
    <2>3. told.mod = importer.mod /\ told.into = importer.into
      <3>1. FrameOK(importer)
        BY <1>1, <2>2, Popped
      <3> HIDE DEF importer
      <3>2. CASE good
        <4>1. told = Learn(importer, Top.mod, Provides(Top.text))
          BY <3>2
        <4> HIDE DEF told
        <4> QED BY <3>1, <4>1, LearnStep
      <3>3. CASE ~good
        <4>1. told = Refuse(importer, Top.mod)
          BY <3>3
        <4> HIDE DEF told
        <4> QED BY <3>1, <4>1, RefuseStep
      <3> QED BY <3>2, <3>3
    <2> HIDE DEF told
    <2>4. Len(Under) <= Len(stack) /\ Len(stack) \in Nat
      BY <1>1
    <2>5. /\ Len(stack') = Len(Under)
          /\ \A i \in 1..Len(Under) : stack'[i].mod = stack[i].mod /\ stack'[i].into = stack[i].into
      BY <1>1, <2>1, <2>2, <2>3, <2>4, ReplacedStarts
    <2>6. stack' # <<>> /\ stack'[1].mod = stack[1].mod /\ stack'[1].into = stack[1].into
      <3>1. 1 \in 1..Len(Under) /\ Len(<<>>) = 0
        BY <2>2
      <3> QED BY <2>2, <2>5, <3>1
    <2> QED BY <1>2, <2>1, <2>6 DEF DoneInv
  <1> QED BY <1>3, <1>4

\* A step of a run: the modules come to are still done with, and so are all when it succeeds.
LEMMA DoneStep ==
  ASSUME IInv, IInv', DoneInv, [Next]_vars
  PROVE  /\ DoneInv'
         /\ (outcome = "running" /\ outcome' = "succeeded" /\ raced = {}) => \A m \in asked : UpToDate(m)'
  <1>1. CASE Begin
    BY <1>1 DEF Begin, DoneInv
  <1>2. CASE NextModule
    <2>1. stack = <<>> /\ UNCHANGED <<source, file, raced>>
      BY <1>2 DEF NextModule
    <2>2. PICK m \in todo :
            \/ Newer(Asked(m), m) /\ Proceed(todo \ {m}, failures, unwritten)
            \/ /\ todo' = todo \ {m} /\ UNCHANGED <<asked, failures, unwritten, outcome>>
               /\ stack' = <<Frame(m, Asked(m), source[m].text, FALSE)>>
      BY <1>2 DEF NextModule
    <2>3. raced = {} => \A k \in asked : k \in todo \/ k \in failures \/ UpToDate(k)'
      BY <2>1, <2>2 DEF DoneInv, Running, UpToDate
    <2>4. CASE Newer(Asked(m), m) /\ Proceed(todo \ {m}, failures, unwritten)
      <3>1. raced = {} => UpToDate(m)'
        BY <2>1, <2>2, <2>4 DEF IInv, NewerIsCurrent, UpToDate
      <3>2. raced = {} => \A k \in asked : k \in todo \ {m} \/ k \in failures \/ UpToDate(k)'
        BY <2>3, <3>1
      <3>3. CASE todo \ {m} = {}
        <4>1. /\ todo' = {} /\ stack' = <<>> /\ outcome' = IF failures = {} THEN "succeeded" ELSE "failed"
          BY <2>4, <3>3 DEF Proceed, Over
        <4> QED BY <3>2, <3>3, <4>1 DEF DoneInv, Running
      <3>4. CASE todo \ {m} # {}
        <4>1. UNCHANGED <<asked, failures, outcome>> /\ todo' = todo \ {m}
          BY <2>4, <3>4 DEF Proceed
        <4> QED BY <2>1, <3>2, <4>1 DEF DoneInv
      <3> QED BY <3>3, <3>4
    <2>5. CASE /\ todo' = todo \ {m} /\ UNCHANGED <<asked, failures, unwritten, outcome>>
               /\ stack' = <<Frame(m, Asked(m), source[m].text, FALSE)>>
      <3> DEFINE fr == Frame(m, Asked(m), source[m].text, FALSE)
      <3>1. fr.mod = m /\ fr.into = Asked(m)
        BY DEF Frame
      <3> HIDE DEF fr
      <3>2. stack' # <<>> /\ stack'[1] = fr
        BY <2>5 DEF fr
      <3> QED BY <2>1, <2>3, <2>5, <3>1, <3>2 DEF DoneInv
    <2> QED BY <2>2, <2>4, <2>5
  <1>3. CASE Resolve
    <2> DEFINE k == Head(Top.left).from
    <2>1. stack # <<>> /\ Top.left # <<>> /\ UNCHANGED <<source, file, raced>>
      BY <1>3 DEF Resolve
    <2>2. FramesOK(stack) /\ FrameOK(Top) /\ Len(stack) \in Nat \ {0}
      BY <2>1, Popped DEF IInv, Top
    <2>3. \/ /\ UNCHANGED <<asked, todo, failures, unwritten, outcome>>
             /\ \E fr : /\ stack' = Append(Under, fr)
                        /\ fr = Take(Top) \/ fr = Refuse(Top, k) \/ \E names : fr = Learn(Top, k, names)
          \/ /\ UNCHANGED <<asked, todo, failures, unwritten, outcome>>
             /\ \E fr : stack' = Append(stack, fr)
          \/ Over("overflow")
      BY <1>3 DEF Resolve
    <2>4. CASE Over("overflow")
      BY <2>4 DEF Over, DoneInv, Running
    <2>5. CASE /\ UNCHANGED <<asked, todo, failures, unwritten, outcome>>
               /\ stack' # <<>> /\ stack'[1].mod = stack[1].mod /\ stack'[1].into = stack[1].into
      BY <2>1, <2>5 DEF DoneInv, UpToDate, Running
    <2>6. ASSUME NEW fr, stack' = Append(Under, fr), fr.mod = Top.mod, fr.into = Top.into
          PROVE  stack' # <<>> /\ stack'[1].mod = stack[1].mod /\ stack'[1].into = stack[1].into
      <3>1. \A i \in 1..Len(stack) : stack[i] = stack[i]
        OBVIOUS
      <3>2. /\ Len(stack') = Len(stack)
            /\ \A i \in 1..Len(stack) : stack'[i].mod = stack[i].mod /\ stack'[i].into = stack[i].into
        BY <2>1, <2>2, <2>6, <3>1, ReplacedStarts DEF Top, Under
      <3>3. 1 \in 1..Len(stack) /\ Len(<<>>) = 0
        BY <2>2
      <3> QED BY <2>2, <3>2, <3>3
    <2>7. ASSUME NEW fr, stack' = Append(stack, fr)
          PROVE  stack' # <<>> /\ stack'[1].mod = stack[1].mod /\ stack'[1].into = stack[1].into
      <3>1. /\ Len(stack') = Len(stack) + 1
            /\ \A i \in 1..Len(stack) + 1 : stack'[i] = IF i <= Len(stack) THEN stack[i] ELSE fr
        BY <2>2, <2>7, PushedAt
      <3>2. 1 \in 1..Len(stack) + 1 /\ 1 <= Len(stack) /\ Len(<<>>) = 0
        BY <2>2
      <3> QED BY <2>2, <3>1, <3>2
    <2>8. ASSUME NEW fr, fr = Take(Top) \/ fr = Refuse(Top, k) \/ \E names : fr = Learn(Top, k, names)
          PROVE  fr.mod = Top.mod /\ fr.into = Top.into
      <3> HIDE DEF k
      <3>1. CASE fr = Take(Top)
        BY <2>2, <3>1, TakeStep
      <3>2. CASE fr = Refuse(Top, k)
        BY <2>2, <3>2, RefuseStep
      <3>3. CASE \E names : fr = Learn(Top, k, names)
        BY <2>2, <3>3, LearnStep
      <3> QED BY <2>8, <3>1, <3>2, <3>3
    <2> QED BY <2>3, <2>4, <2>5, <2>6, <2>7, <2>8
  <1>4. CASE Fail
    <2>1. stack # <<>> /\ Return(FALSE, unwritten) /\ UNCHANGED <<source, file, raced>>
      BY <1>4 DEF Fail
    <2>2. \A m \in Sourced : UpToDate(m) => UpToDate(m)'
      BY <2>1 DEF UpToDate
    <2> QED BY <2>1, <2>2, ReturnedDone DEF DoneInv
  <1>5. CASE OpenFile
    <2>1. /\ stack # <<>> /\ UNCHANGED <<source, stack, asked, todo, failures, outcome, raced>>
          /\ file' = [file EXCEPT ![Top.into] = [there |-> TRUE, whole |-> FALSE, at |-> now, text |-> <<>>]]
      BY <1>5 DEF OpenFile
    <2>2. raced = {} => \A m \in Sourced : UpToDate(m) => UpToDate(m)'
      BY <2>1, UpToDateStays
    <2> QED BY <2>1, <2>2 DEF DoneInv, Running, IInv
  <1>6. CASE WriteFile
    <2>1. /\ stack # <<>> /\ Return(TRUE, unwritten) /\ UNCHANGED <<source, raced>>
          /\ file' = [file EXCEPT ![Top.into] = [there |-> TRUE, whole |-> TRUE, at |-> now, text |-> Top.text]]
      BY <1>6 DEF WriteFile, IInv
    <2>2. raced = {} => /\ \A m \in Sourced : UpToDate(m) => UpToDate(m)'
                        /\ \A m \in Sourced : m = Top.mod /\ Top.into = Asked(m) => UpToDate(m)'
      BY <2>1, UpToDateStays
    <2> QED BY <2>1, <2>2, ReturnedDone DEF DoneInv
  <1>7. CASE WriteFails
    <2>1. /\ stack # <<>> /\ Return(FALSE, unwritten \cup {Top.mod}) /\ UNCHANGED <<source, file, raced>>
      BY <1>7 DEF WriteFails
    <2>2. \A m \in Sourced : UpToDate(m) => UpToDate(m)'
      BY <2>1 DEF UpToDate
    <2> QED BY <2>1, <2>2, ReturnedDone DEF DoneInv
  <1>8. CASE Kill
    BY <1>8 DEF Kill, Over, DoneInv, Running
  <1>9. CASE Tick
    BY <1>9 DEF Tick, runVars, DoneInv, UpToDate, Running
  <1>10. CASE Edit
    <2>1. UNCHANGED runVars /\ (Running => raced' # {})
      BY <1>10 DEF Edit
    <2> QED BY <2>1 DEF runVars, DoneInv, Running
  <1>11. CASE UNCHANGED vars
    BY <1>11 DEF vars, DoneInv, UpToDate, Running
  <1> QED BY <1>1, <1>2, <1>3, <1>4, <1>5, <1>6, <1>7, <1>8, <1>9, <1>10, <1>11 DEF Next, Work

\* After a run that succeeds, the file it brings up to date for a module is of its source
\* (StrataPython.lean, pySpecsDir): only the name under which readers look for a package's
\* makes SuccessIsCurrent fail.
THEOREM SuccessCurrentAsked == Spec => SuccessIsCurrentAsked
  <1>1. Init => DoneInv
    BY DEF Init, DoneInv
  <1>2. ASSUME IInv, IInv', DoneInv, [Next]_vars, outcome = "running", outcome' = "succeeded", raced = {}
        PROVE  \A m \in asked : file'[Asked(m)].whole => file'[Asked(m)].text = source[m].text
    <2>1. \A m \in asked : UpToDate(m)'
      BY <1>2, DoneStep
    <2>2. source' = source
      BY <1>2 DEF Next, Work, Begin, NextModule, Resolve, Fail, OpenFile, WriteFile, WriteFails, Kill,
                  Tick, Edit, runVars, vars
    <2> QED BY <2>1, <2>2 DEF UpToDate
  <1> QED BY <1>1, <1>2, BothHold, DoneStep, PTL DEF Spec, SuccessIsCurrentAsked
=============================================================================
