------------------------ MODULE ArtifactBuildProofs ------------------------
(***************************************************************************)
(* The safety properties of ArtifactBuild for every sequence of command    *)
(* lines and every number of source generations.                           *)
(*                                                                         *)
(* A pipeline is judged step by step by what it needs, takes away and      *)
(* gives: files that are complete and made of nothing old, or go back to   *)
(* what a program has left as it was that exited with 0, and files that    *)
(* have been digested or described since.  A pipeline is supplied when there is *)
(* a set of these for every place in it, each following from the one       *)
(* before.  That is shown once for every function of the code; an          *)
(* invocation then keeps it for the steps that are left, wherever it       *)
(* jumps.                                                                  *)
(***************************************************************************)
EXTENDS ArtifactBuild, SequenceTheorems, WellFoundedInduction, TLAPS

\* What a step may rely on: a file that is there, complete and not old, one of
\* which only a look is missing, one that is described or was the last to be
\* digested; and, whatever has failed before, a file that is complete, and a
\* digest that is of a complete file or none.  Nothing is said here of the
\* content of a file that was only claimed to have been written.
Fine(f)      == <<"fine", f>>
Left(f)      == <<"left", f>>
Described(p) == <<"described", p>>
Noted(f)     == <<"noted", f>>
Whole(f)     == <<"whole", f>>
Sound        == <<"sound", "none">>

Lasting == {Whole(f) : f \in Files} \cup {Sound}
Passing == {Fine(f) : f \in Files} \cup {Left(f) : f \in Files} \cup {Noted(f) : f \in Files}
           \cup {Described(p) : p \in Products}
Things  == Lasting \cup Passing
Of(f)   == {Fine(f), Left(f), Noted(f), Described(f), Whole(f)}

\* What a command, and the building of a solve component, owes.
Owed(c)    == {Fine(p) : p \in Goals(c)} \cup (IF c.manifest THEN {Described(p) : p \in Goals(c)} ELSE {})
SolveOwed  == {Fine("solve"), Described("solve")}
Temps      == Scratch \cup Outputs
SolveFiles == Temps \cup Objects \cup {"solve"}
SolveTakes == Lasting \cup {Noted(f) : f \in Files} \cup (UNION {Of(f) : f \in SolveFiles})

Needs(x) ==
    CASE x.op \in {"make", "run", "copy"} -> {Fine(f) : f \in x.reads \cap Files}
      [] x.op = "look"     -> {Left(x.file)}
      [] x.op = "digest"   -> {Fine(x.file)}
      [] x.op = "manifest" -> {Noted(x.file), Sound}
      [] x.op = "check"    -> {Fine(f) : f \in x.reads}
      [] x.op = "rename"   -> {Fine("tmp"), Whole("tmp")}
      [] x.op = "return" /\ x.file = "solve" -> SolveOwed
      [] OTHER             -> {}

Takes(x) ==
    CASE x.op \in {"make", "run", "copy", "unlink"} -> Of(x.file)
      [] x.op = "digest"               -> {Sound} \cup {Noted(f) : f \in Files}
      [] x.op = "rename"               -> Of(x.file) \cup Of("tmp")
      [] x.op \in {"clean", "emit"}    -> Things
      [] x.op = "solve"                -> SolveTakes
      [] OTHER                         -> {}

Gives(x, H) ==
    CASE x.op = "make"     -> {Fine(x.file)} \cup (IF x.fail = "note" THEN {} ELSE {Whole(x.file)})
      [] x.op = "run"      -> {Left(x.file), Whole(x.file)}
      [] x.op = "look"     -> {Fine(x.file)}
      [] x.op = "copy"     -> {Fine(x.file)} \cup (IF Whole("built") \in H THEN {Whole(x.file)} ELSE {})
      [] x.op = "digest"   -> {Noted(x.file)} \cup (IF Whole(x.file) \in H THEN {Sound} ELSE {})
      [] x.op = "manifest" -> {Described(x.file)}
      [] x.op = "rename"   -> {Fine(x.file), Whole(x.file)}
      [] x.op = "solve"    -> SolveOwed
      [] OTHER             -> {}

\* From H to K over one step; "emit" is replaced by the steps of the command.
\* At the end of a function, where one that fails lands, nothing lasting is
\* relied upon.
Over(x, H, K) ==
    /\ Needs(x) \subseteq H
    /\ K \subseteq (H \ Takes(x)) \cup Gives(x, H) \/ x.op = "emit"
    /\ x.op \in {"return", "answer"} => H \cap Lasting = {}

Supplied(s, H, G) ==
    \E h \in [1..(Len(s) + 1) -> SUBSET Things] :
       /\ h[1] \subseteq H
       /\ G \subseteq h[Len(s) + 1]
       /\ \A i \in 1..Len(s) : Over(s[i], h[i], h[i + 1])

\* t is what is left of s after its first k elements.
Suffix(t, s, k) ==
    /\ k \in 0..Len(s) /\ Len(t) = Len(s) - k
    /\ \A i \in 1..Len(t) : t[i] = s[i + k]

-----------------------------------------------------------------------------
(* Sequences.                                                              *)

LEMMA TailFacts ==
    ASSUME NEW S, NEW s \in Seq(S), s # <<>>
    PROVE  /\ Len(s) \in Nat \ {0} /\ Head(s) = s[1] /\ s[1] \in S
           /\ Tail(s) \in Seq(S) /\ Suffix(Tail(s), s, 1)
  <1>1. Len(s) \in Nat \ {0}
    BY EmptySeq
  <1>2. /\ Tail(s) \in Seq(S) /\ Len(Tail(s)) = Len(s) - 1
        /\ \A i \in 1 .. Len(Tail(s)) : Tail(s)[i] = s[i + 1]
    BY HeadTailProperties
  <1>3. Head(s) = s[1] /\ s[1] \in S
    BY <1>1
  <1> QED BY <1>1, <1>2, <1>3 DEF Suffix

\* A jump goes to the first of the steps it looks for, or to the end.
LEMMA FromFacts ==
    ASSUME NEW S, NEW s \in Seq(S), NEW those
    PROVE  /\ From(s, those) \in Seq(S)
           /\ \E k \in 0..Len(s) :
                 /\ Suffix(From(s, those), s, k)
                 /\ \A i \in 1..k : s[i] \notin those
                 /\ k < Len(s) => s[k + 1] \in those
  <1> DEFINE ends == {i \in DOMAIN s : s[i] \in those}
             n == Len(s)
  <1>1. DOMAIN s = 1..n /\ n \in Nat
    OBVIOUS
  <1>2. CASE ends = {}
    <2>1. From(s, those) = <<>>
      BY <1>2 DEF From
    <2>2. Suffix(<<>>, s, n)
      BY <1>1 DEF Suffix
    <2>3. \A i \in 1..n : s[i] \notin those
      BY <1>1, <1>2
    <2> QED BY <1>1, <2>1, <2>2, <2>3
  <1>3. CASE ends # {}
    <2>1. ends \subseteq Nat
      BY <1>1
    <2>2. \E i \in ends : \A j \in ends : ~(<<j, i>> \in OpToRel(<, Nat))
      BY <1>3, <2>1, WFMin, NatLessThanWellFounded, Zenon
    <2>3. \E i \in ends : \A j \in ends : i <= j
      <3> HIDE DEF ends
      <3>1. PICK i \in ends : \A j \in ends : ~(<<j, i>> \in OpToRel(<, Nat))
        BY <2>2
      <3>2. ASSUME NEW j \in ends PROVE i <= j
        <4>1. i \in Nat /\ j \in Nat /\ <<j, i>> \in Nat \X Nat
          BY <2>1
        <4>2. j < i => <<j, i>> \in OpToRel(<, Nat)
          BY <4>1 DEF OpToRel
        <4>3. ~(j < i)
          BY <3>1, <4>2
        <4> QED BY <4>1, <4>3
      <3> QED BY <3>2
    <2> DEFINE m == CHOOSE i \in ends : \A j \in ends : i <= j
    <2>4. m \in ends /\ \A j \in ends : m <= j
      BY <2>3
    <2>5. From(s, those) = SubSeq(s, m, n)
      BY <1>3 DEF From
    <2> HIDE DEF m
    <2>6. m \in 1..n /\ s[m] \in those
      BY <1>1, <2>4
    <2>7. /\ SubSeq(s, m, n) \in Seq(S)
          /\ Len(SubSeq(s, m, n)) = n - m + 1
          /\ \A i \in 1 .. (n - m + 1) : SubSeq(s, m, n)[i] = s[m + i - 1]
      <3>1. \A i \in m..n : s[i] \in S
        BY <1>1, <2>6
      <3> QED BY <1>1, <2>6, <3>1, SubSeqProperties
    <2>8. Suffix(SubSeq(s, m, n), s, m - 1)
      <3>1. m - 1 \in 0..n /\ n - m + 1 = n - (m - 1)
        BY <1>1, <2>6
      <3>2. \A i \in 1..(n - m + 1) : m + i - 1 = i + (m - 1)
        BY <1>1, <2>6
      <3> QED BY <2>7, <3>1, <3>2 DEF Suffix
    <2>9. \A i \in 1..(m - 1) : s[i] \notin those
      <3> SUFFICES ASSUME NEW i \in 1..(m - 1), s[i] \in those PROVE FALSE
        OBVIOUS
      <3>1. i \in ends
        BY <1>1, <2>6
      <3> QED BY <2>4, <2>6, <3>1
    <2>10. m - 1 \in 0..n /\ (m - 1) + 1 = m
      BY <1>1, <2>6
    <2> QED BY <2>5, <2>6, <2>7, <2>8, <2>9, <2>10
  <1> QED BY <1>2, <1>3

-----------------------------------------------------------------------------
(* What is supplied.                                                       *)

LEMMA SuppliedEmpty ==
    ASSUME NEW H, NEW G
    PROVE  /\ Supplied(<<>>, H, G) => G \subseteq H
           /\ G \subseteq H /\ G \subseteq Things => Supplied(<<>>, H, G)
  <1>1. Len(<<>>) = 0
    OBVIOUS
  <1>2. ASSUME Supplied(<<>>, H, G) PROVE G \subseteq H
    BY <1>1, <1>2 DEF Supplied
  <1>3. ASSUME G \subseteq H, G \subseteq Things PROVE Supplied(<<>>, H, G)
    <2> DEFINE h == [i \in 1..1 |-> G]
    <2>1. h \in [1..(0 + 1) -> SUBSET Things] /\ h[1] = G
      BY <1>3
    <2> HIDE DEF h
    <2> QED BY <1>1, <1>3, <2>1 DEF Supplied
  <1> QED BY <1>2, <1>3

LEMMA SuppliedWeaker ==
    ASSUME NEW s, NEW H, NEW G, Supplied(s, H, G), NEW I, H \subseteq I, NEW F, F \subseteq G
    PROVE  Supplied(s, I, F)
  BY DEF Supplied

\* The first step, and what it leaves for the others.
LEMMA SuppliedHead ==
    ASSUME NEW s, NEW t, Suffix(t, s, 1), Len(s) \in Nat, NEW H, NEW G, Supplied(s, H, G)
    PROVE  \E J \in SUBSET Things, K \in SUBSET Things :
              J \subseteq H /\ Over(s[1], J, K) /\ Supplied(t, K, G)
  <1>1. PICK h \in [1..(Len(s) + 1) -> SUBSET Things] :
           /\ h[1] \subseteq H /\ G \subseteq h[Len(s) + 1]
           /\ \A i \in 1..Len(s) : Over(s[i], h[i], h[i + 1])
    BY DEF Supplied
  <1>2. Len(s) \in Nat \ {0} /\ Len(t) = Len(s) - 1 /\ \A i \in 1..Len(t) : t[i] = s[i + 1]
    BY DEF Suffix
  <1> DEFINE g == [i \in 1..(Len(t) + 1) |-> h[i + 1]]
  <1>3. g \in [1..(Len(t) + 1) -> SUBSET Things] /\ g[1] = h[2] /\ g[Len(t) + 1] = h[Len(s) + 1]
    BY <1>2
  <1>4. ASSUME NEW i \in 1..Len(t) PROVE Over(t[i], g[i], g[i + 1])
    <2>1. g[i] = h[i + 1] /\ g[i + 1] = h[(i + 1) + 1] /\ i + 1 \in 1..Len(s)
      BY <1>2
    <2> HIDE DEF g
    <2> QED BY <1>1, <1>2, <2>1
  <1> HIDE DEF g
  <1>5. Supplied(t, h[2], G)
    BY <1>1, <1>3, <1>4 DEF Supplied
  <1>6. Over(s[1], h[1], h[2]) /\ h[1] \in SUBSET Things /\ h[2] \in SUBSET Things
    <2>1. 1 \in 1..Len(s) /\ 1 \in 1..(Len(s) + 1) /\ 2 \in 1..(Len(s) + 1) /\ 1 + 1 = 2
      BY <1>2
    <2> QED BY <1>1, <2>1
  <1> QED BY <1>1, <1>5, <1>6

\* Who lands at the end of a function needs nothing that lasts.
LEMMA SuppliedLanding ==
    ASSUME NEW s, NEW t, Len(s) \in Nat, NEW k, Suffix(t, s, k), k < Len(s),
           s[k + 1].op \in {"return", "answer"}, NEW H, NEW G, Supplied(s, H, G)
    PROVE  Supplied(t, Passing, G)
  <1>1. PICK h \in [1..(Len(s) + 1) -> SUBSET Things] :
           /\ h[1] \subseteq H /\ G \subseteq h[Len(s) + 1]
           /\ \A i \in 1..Len(s) : Over(s[i], h[i], h[i + 1])
    BY DEF Supplied
  <1>2. k \in Nat /\ Len(t) = Len(s) - k /\ \A i \in 1..Len(t) : t[i] = s[i + k]
    BY DEF Suffix
  <1> DEFINE g == [i \in 1..(Len(t) + 1) |-> h[i + k]]
  <1>3. /\ g \in [1..(Len(t) + 1) -> SUBSET Things] /\ g[1] = h[k + 1]
        /\ g[Len(t) + 1] = h[Len(s) + 1]
    <2>1. \A i \in 1..(Len(t) + 1) : i + k \in 1..(Len(s) + 1)
      BY <1>2
    <2>2. 1 \in 1..(Len(t) + 1) /\ Len(t) + 1 \in 1..(Len(t) + 1) /\ (Len(t) + 1) + k = Len(s) + 1
          /\ 1 + k = k + 1
      BY <1>2
    <2> QED BY <1>1, <2>1, <2>2
  <1>4. ASSUME NEW i \in 1..Len(t) PROVE Over(t[i], g[i], g[i + 1])
    <2>1. g[i] = h[i + k] /\ g[i + 1] = h[(i + k) + 1] /\ i + k \in 1..Len(s)
      <3>1. i + k \in 1..Len(s) /\ i \in 1..(Len(t) + 1) /\ i + 1 \in 1..(Len(t) + 1)
            /\ (i + 1) + k = (i + k) + 1
        BY <1>2
      <3> QED BY <3>1
    <2> HIDE DEF g
    <2> QED BY <1>1, <1>2, <2>1
  <1> HIDE DEF g
  <1>5. k + 1 \in 1..Len(s) /\ k + 1 \in 1..(Len(s) + 1)
    BY <1>2
  <1>6. h[k + 1] \cap Lasting = {}
    BY <1>1, <1>5 DEF Over
  <1>7. h[k + 1] \subseteq Passing
    BY <1>1, <1>5, <1>6 DEF Things
  <1> QED BY <1>1, <1>3, <1>4, <1>7 DEF Supplied

LEMMA SuppliedConcat ==
    ASSUME NEW S, NEW s \in Seq(S), NEW t \in Seq(S), NEW H, NEW K, NEW G,
           Supplied(s, H, K), Supplied(t, K, G)
    PROVE  Supplied(s \o t, H, G)
  <1> DEFINE n == Len(s)
             m == Len(t)
             c == s \o t
  <1>1. /\ n \in Nat /\ m \in Nat /\ Len(c) = n + m
        /\ \A i \in 1..(n + m) : c[i] = IF i <= n THEN s[i] ELSE t[i - n]
    BY ConcatProperties
  <1>2. PICK g \in [1..(n + 1) -> SUBSET Things] :
           /\ g[1] \subseteq H /\ K \subseteq g[n + 1]
           /\ \A i \in 1..n : Over(s[i], g[i], g[i + 1])
    BY DEF Supplied
  <1>3. PICK h \in [1..(m + 1) -> SUBSET Things] :
           /\ h[1] \subseteq K /\ G \subseteq h[m + 1]
           /\ \A i \in 1..m : Over(t[i], h[i], h[i + 1])
    BY DEF Supplied
  <1> HIDE DEF n, m, c
  <1> DEFINE f == [i \in 1..((n + m) + 1) |-> IF i <= n THEN g[i] ELSE h[i - n]]
  <1>4. f \in [1..((n + m) + 1) -> SUBSET Things]
    <2>1. ASSUME NEW i \in 1..((n + m) + 1) PROVE (IF i <= n THEN g[i] ELSE h[i - n]) \in SUBSET Things
      <3>1. CASE i <= n
        BY <1>1, <3>1
      <3>2. CASE ~(i <= n)
        <4>1. i - n \in 1..(m + 1)
          BY <1>1, <3>2
        <4> QED BY <3>2, <4>1
      <3> QED BY <3>1, <3>2
    <2> QED BY <2>1
  <1>5. f[1] \subseteq H
    <2>1. 1 \in 1..((n + m) + 1)
      BY <1>1
    <2>2. CASE n = 0
      <3>1. f[1] = h[1]
        BY <2>1, <2>2
      <3> HIDE DEF f
      <3> QED BY <1>2, <1>3, <2>2, <3>1
    <2>3. CASE n # 0
      <3>1. f[1] = g[1]
        BY <1>1, <2>1, <2>3
      <3> HIDE DEF f
      <3> QED BY <1>2, <3>1
    <2> QED BY <2>2, <2>3
  <1>6. G \subseteq f[(n + m) + 1]
    <2>1. f[(n + m) + 1] = h[m + 1]
      <3>1. (n + m) + 1 \in 1..((n + m) + 1) /\ ~((n + m) + 1 <= n) /\ ((n + m) + 1) - n = m + 1
        BY <1>1
      <3> QED BY <3>1
    <2> HIDE DEF f
    <2> QED BY <1>3, <2>1
  <1>7. ASSUME NEW i \in 1..(n + m) PROVE Over(c[i], f[i], f[i + 1])
    <2>1. i \in 1..((n + m) + 1) /\ i + 1 \in 1..((n + m) + 1)
      BY <1>1
    <2>2. CASE i < n
      <3>1. c[i] = s[i] /\ f[i] = g[i] /\ f[i + 1] = g[i + 1] /\ i \in 1..n
        BY <1>1, <2>1, <2>2
      <3> HIDE DEF f
      <3> QED BY <1>2, <3>1
    <2>3. CASE i = n
      <3>1. c[i] = s[i] /\ f[i] = g[i] /\ f[i + 1] = h[1] /\ i \in 1..n
        BY <1>1, <2>1, <2>3
      <3> HIDE DEF f
      <3>2. Over(s[i], g[i], g[i + 1]) /\ h[1] \subseteq g[i + 1]
        BY <1>2, <1>3, <2>3, <3>1
      <3> QED BY <3>1, <3>2 DEF Over
    <2>4. CASE i > n
      <3>1. c[i] = t[i - n] /\ i - n \in 1..m /\ (i + 1) - n = (i - n) + 1
        BY <1>1, <2>4
      <3>2. f[i] = h[i - n] /\ f[i + 1] = h[(i - n) + 1]
        BY <1>1, <2>1, <2>4, <3>1
      <3> HIDE DEF f
      <3> QED BY <1>3, <3>1, <3>2
    <2> QED BY <1>1, <2>2, <2>3, <2>4
  <1> HIDE DEF f
  <1>8. Len(c) = n + m
    BY <1>1
  <1>9. Supplied(c, H, G)
    BY <1>4, <1>5, <1>6, <1>7, <1>8 DEF Supplied
  <1> QED BY <1>9 DEF c

\* What a pipeline does not touch outlives it.
LEMMA SuppliedBeside ==
    ASSUME NEW s, Len(s) \in Nat, NEW H, NEW G, Supplied(s, H, G), NEW R \in SUBSET Passing,
           \A i \in 1..Len(s) : Takes(s[i]) \cap R = {}
    PROVE  Supplied(s, H \cup R, G \cup R)
  <1>1. PICK h \in [1..(Len(s) + 1) -> SUBSET Things] :
           /\ h[1] \subseteq H /\ G \subseteq h[Len(s) + 1]
           /\ \A i \in 1..Len(s) : Over(s[i], h[i], h[i + 1])
    BY DEF Supplied
  <1> DEFINE g == [i \in 1..(Len(s) + 1) |-> h[i] \cup R]
  <1>2. g \in [1..(Len(s) + 1) -> SUBSET Things]
    BY <1>1 DEF Things
  <1>3. g[1] \subseteq H \cup R /\ G \cup R \subseteq g[Len(s) + 1]
    BY <1>1
  <1>4. R \cap Lasting = {}
    BY DEF Passing, Lasting, Fine, Left, Noted, Described, Whole, Sound
  <1>5. ASSUME NEW i \in 1..Len(s) PROVE Over(s[i], g[i], g[i + 1])
    <2> DEFINE x == s[i]
               A == h[i]
               B == h[i + 1]
    <2>1. Over(x, A, B) /\ Takes(x) \cap R = {}
      BY <1>1
    <2>2. g[i] = A \cup R /\ g[i + 1] = B \cup R
      BY <1>5
    <2> HIDE DEF x, A, B, g
    <2>3. Gives(x, A) \subseteq Gives(x, A \cup R)
      BY DEF Gives
    <2>4. Over(x, A \cup R, B \cup R)
      BY <1>4, <2>1, <2>3 DEF Over
    <2> QED BY <2>2, <2>4 DEF x
  <1> HIDE DEF g
  <1> QED BY <1>2, <1>3, <1>5 DEF Supplied

LEMMA Supplied1 ==
    ASSUME NEW a, NEW H \in SUBSET Things, NEW I \in SUBSET Things, Over(a, H, I)
    PROVE  Supplied(<<a>>, H, I)
  <1> DEFINE s == <<a>>
             h == [i \in 1..2 |-> IF i = 1 THEN H ELSE I]
  <1>1. Len(s) = 1 /\ s[1] = a
    OBVIOUS
  <1>2. h \in [1..(1 + 1) -> SUBSET Things] /\ h[1] = H /\ h[2] = I
    OBVIOUS
  <1> HIDE DEF s, h
  <1>3. \A i \in 1..1 : Over(s[i], h[i], h[i + 1])
    BY <1>1, <1>2
  <1>4. Supplied(s, H, I)
    BY <1>1, <1>2, <1>3 DEF Supplied
  <1> QED BY <1>4 DEF s

LEMMA Supplied2 ==
    ASSUME NEW a, NEW b, NEW H \in SUBSET Things, NEW I \in SUBSET Things, NEW J \in SUBSET Things,
           Over(a, H, I), Over(b, I, J)
    PROVE  Supplied(<<a, b>>, H, J)
  <1> DEFINE s == <<a, b>>
             h == [i \in 1..3 |-> IF i = 1 THEN H ELSE IF i = 2 THEN I ELSE J]
  <1>1. Len(s) = 2 /\ s[1] = a /\ s[2] = b
    OBVIOUS
  <1>2. h \in [1..(2 + 1) -> SUBSET Things] /\ h[1] = H /\ h[2] = I /\ h[3] = J
    OBVIOUS
  <1> HIDE DEF s, h
  <1>3. \A i \in 1..2 : Over(s[i], h[i], h[i + 1])
    <2>1. \A i \in 1..2 : i = 1 \/ i = 2
      OBVIOUS
    <2> QED BY <1>1, <1>2, <2>1
  <1>4. Supplied(s, H, J)
    BY <1>1, <1>2, <1>3 DEF Supplied
  <1> QED BY <1>4 DEF s

LEMMA Supplied3 ==
    ASSUME NEW a, NEW b, NEW c, NEW H \in SUBSET Things, NEW I \in SUBSET Things,
           NEW J \in SUBSET Things, NEW K \in SUBSET Things,
           Over(a, H, I), Over(b, I, J), Over(c, J, K)
    PROVE  Supplied(<<a, b, c>>, H, K)
  <1> DEFINE s == <<a, b, c>>
             h == [i \in 1..4 |-> IF i = 1 THEN H ELSE IF i = 2 THEN I ELSE IF i = 3 THEN J ELSE K]
  <1>1. Len(s) = 3 /\ s[1] = a /\ s[2] = b /\ s[3] = c
    OBVIOUS
  <1>2. h \in [1..(3 + 1) -> SUBSET Things] /\ h[1] = H /\ h[2] = I /\ h[3] = J /\ h[4] = K
    OBVIOUS
  <1> HIDE DEF s, h
  <1>3. \A i \in 1..3 : Over(s[i], h[i], h[i + 1])
    <2>1. \A i \in 1..3 : i = 1 \/ i = 2 \/ i = 3
      OBVIOUS
    <2> QED BY <1>1, <1>2, <2>1
  <1>4. Supplied(s, H, K)
    BY <1>1, <1>2, <1>3 DEF Supplied
  <1> QED BY <1>4 DEF s

LEMMA Supplied4 ==
    ASSUME NEW a, NEW b, NEW c, NEW d, NEW H \in SUBSET Things, NEW I \in SUBSET Things,
           NEW J \in SUBSET Things, NEW K \in SUBSET Things, NEW L \in SUBSET Things,
           Over(a, H, I), Over(b, I, J), Over(c, J, K), Over(d, K, L)
    PROVE  Supplied(<<a, b, c, d>>, H, L)
  <1> DEFINE s == <<a, b, c, d>>
             h == [i \in 1..5 |-> IF i = 1 THEN H ELSE IF i = 2 THEN I ELSE IF i = 3 THEN J
                                  ELSE IF i = 4 THEN K ELSE L]
  <1>1. Len(s) = 4 /\ s[1] = a /\ s[2] = b /\ s[3] = c /\ s[4] = d
    OBVIOUS
  <1>2. /\ h \in [1..(4 + 1) -> SUBSET Things]
        /\ h[1] = H /\ h[2] = I /\ h[3] = J /\ h[4] = K /\ h[5] = L
    OBVIOUS
  <1> HIDE DEF s, h
  <1>3. \A i \in 1..4 : Over(s[i], h[i], h[i + 1])
    <2>1. \A i \in 1..4 : i = 1 \/ i = 2 \/ i = 3 \/ i = 4
      OBVIOUS
    <2> QED BY <1>1, <1>2, <2>1
  <1>4. Supplied(s, H, L)
    BY <1>1, <1>2, <1>3 DEF Supplied
  <1> QED BY <1>4 DEF s

-----------------------------------------------------------------------------
(* One step of each kind.                                                  *)

\* A program makes a file.
LEMMA OverMake ==
    ASSUME NEW reads, NEW file, NEW fail \in {"stop", "raise"}, NEW H, NEW K,
           \A f \in reads \cap Files : Fine(f) \in H,
           \A r \in K : (r \in H /\ r \notin Of(file)) \/ r = Fine(file) \/ r = Whole(file)
    PROVE  Over(Make(reads, file, fail), H, K)
  BY DEF Over, Needs, Takes, Gives, Make, Step

LEMMA OverMakeNoted ==
    ASSUME NEW reads, NEW file, NEW H, NEW K,
           \A f \in reads \cap Files : Fine(f) \in H,
           \A r \in K : (r \in H /\ r \notin Of(file)) \/ r = Fine(file)
    PROVE  Over(Make(reads, file, "note"), H, K)
  BY DEF Over, Needs, Takes, Gives, Make, Step

\* A program that may leave its output as it was, the look for that, and a copy.
LEMMA OverRun ==
    ASSUME NEW reads, NEW file, NEW H, NEW K, \A f \in reads \cap Files : Fine(f) \in H,
           \A r \in K : (r \in H /\ r \notin Of(file)) \/ r = Left(file) \/ r = Whole(file)
    PROVE  Over(Run(reads, file), H, K)
  BY DEF Over, Needs, Takes, Gives, Run, Step

LEMMA OverLook ==
    ASSUME NEW file, NEW H, NEW K, Left(file) \in H, \A r \in K : r \in H \/ r = Fine(file)
    PROVE  Over(Look(file), H, K)
  BY DEF Over, Needs, Takes, Gives, Look, Step

LEMMA OverCopy ==
    ASSUME NEW H, NEW K, Fine("built") \in H, Whole("built") \in H,
           \A r \in K : r = Fine("tmp") \/ r = Whole("tmp")
    PROVE  Over(Copy("built", "tmp"), H, K)
  BY DEF Over, Needs, Takes, Gives, Copy, Step

LEMMA OverDigest ==
    ASSUME NEW file, NEW fail, NEW H, NEW K, Fine(file) \in H,
           \A r \in K : \/ r \in H /\ r # Sound /\ \A f \in Files : r # Noted(f)
                        \/ r = Noted(file)
                        \/ r = Sound /\ Whole(file) \in H
    PROVE  Over(Digest(file, fail), H, K)
  BY DEF Over, Needs, Takes, Gives, Digest, Step

LEMMA OverManifest ==
    ASSUME NEW file, NEW fail, NEW H, NEW K, Noted(file) \in H, Sound \in H,
           \A r \in K : r \in H \/ r = Described(file)
    PROVE  Over(Manifest(file, fail), H, K)
  BY DEF Over, Needs, Takes, Gives, Manifest, Step

LEMMA OverCheck ==
    ASSUME NEW fail, NEW H, NEW K, K \subseteq H
    PROVE  Over(Check(fail), H, K) /\ Over(Gate, H, K) /\ Over(Call, H, K)
  BY DEF Over, Needs, Takes, Gives, Check, Gate, Call, Step

LEMMA OverRequire ==
    ASSUME NEW files_, NEW H, NEW K, K \subseteq H, \A f \in files_ : Fine(f) \in H
    PROVE  Over(Require(files_), H, K)
  BY DEF Over, Needs, Takes, Gives, Require, Step

LEMMA OverAdapter ==
    ASSUME NEW name, NEW H, NEW K
    PROVE  /\ (\A r \in K : r \in H /\ r \notin Of(name)) => Over(Step("unlink", {}, name, "stop"), H, K)
           /\ /\ Fine("tmp") \in H /\ Whole("tmp") \in H
              /\ \A r \in K : \/ r \in H /\ r \notin Of(name) /\ r \notin Of("tmp")
                              \/ r = Fine(name) \/ r = Whole(name)
              => Over(Step("rename", {"tmp"}, name, "stop"), H, K)
  <1>1. (\A r \in K : r \in H /\ r \notin Of(name)) => Over(Step("unlink", {}, name, "stop"), H, K)
    BY DEF Over, Needs, Takes, Gives, Step
  <1>2. /\ Fine("tmp") \in H /\ Whole("tmp") \in H
        /\ \A r \in K : \/ r \in H /\ r \notin Of(name) /\ r \notin Of("tmp")
                        \/ r = Fine(name) \/ r = Whole(name)
        => Over(Step("rename", {"tmp"}, name, "stop"), H, K)
    BY DEF Over, Needs, Takes, Gives, Step
  <1> QED BY <1>1, <1>2

\* The end of a function.
LEMMA OverReturn ==
    ASSUME NEW file, NEW fail, NEW H, NEW K, K \subseteq H, H \cap Lasting = {},
           file = "solve" => SolveOwed \subseteq H
    PROVE  Over(Return(file, fail), H, K)
  BY DEF Over, Needs, Takes, Gives, Return, Step

LEMMA OverAnswer ==
    ASSUME NEW H, NEW K, K \subseteq H, H \cap Lasting = {}
    PROVE  Over(Answer, H, K)
  BY DEF Over, Needs, Takes, Gives, Answer, Step

LEMMA OverSolve ==
    ASSUME NEW H, NEW K, \A r \in K : (r \in H /\ r \notin SolveTakes) \/ r \in SolveOwed
    PROVE  Over(SolveStep, H, K)
  BY DEF Over, Needs, Takes, Gives, SolveStep, Step

LEMMA OverClean ==
    ASSUME NEW H, NEW K
    PROVE  /\ Over(Step("clean", {}, "none", "note"), H, {})
           /\ Over(Step("emit", {}, "none", "stop"), H, K)
  BY DEF Over, Needs, Takes, Gives, Step

-----------------------------------------------------------------------------
(* What the pipelines consist of.                                          *)

\* Two of these are the same only when they look it.
LEMMA Differ ==
    /\ \A f, g : Fine(f) = Fine(g) <=> f = g
    /\ \A f, g : Whole(f) = Whole(g) <=> f = g
    /\ \A f, g : Left(f) = Left(g) <=> f = g
    /\ \A f, g : /\ Left(f) # Fine(g) /\ Left(f) # Whole(g) /\ Left(f) # Noted(g)
                 /\ Left(f) # Described(g) /\ Left(f) # Sound
    /\ \A f, g : Noted(f) = Noted(g) <=> f = g
    /\ \A f, g : Described(f) = Described(g) <=> f = g
    /\ \A f, g : /\ Fine(f) # Whole(g) /\ Fine(f) # Noted(g) /\ Fine(f) # Described(g)
                 /\ Whole(f) # Noted(g) /\ Whole(f) # Described(g) /\ Noted(f) # Described(g)
    /\ \A f : Fine(f) # Sound /\ Whole(f) # Sound /\ Noted(f) # Sound /\ Described(f) # Sound
  BY DEF Fine, Left, Whole, Noted, Described, Sound

LEMMA AreThings ==
    /\ \A f \in Files : {Fine(f), Left(f), Whole(f), Noted(f)} \subseteq Things
    /\ \A p \in Products : Described(p) \in Things /\ p \in Files
    /\ Sound \in Things
    /\ {"program.c", "glue.c", "emit.o", "shim.o", "raw", "core", "built", "tmp", "program.o"} \subseteq Files
    /\ {"solve glue.o", "http glue.o", "cli glue.o"} \subseteq Files
    /\ {"wasm", "solve", "http", "cli"} \subseteq Products /\ Adapters \subseteq Products
  BY DEF Things, Lasting, Passing, Files, Products, Scratch, Outputs, Objects

\* Made, not looked for yet, and digested.
Got(f)    == {Fine(f), Whole(f)}
Said(f)   == {Left(f), Whole(f)}
Judged(f) == {Fine(f), Noted(f), Sound}

\* A step that a function of the code contains.
Lawful ==
    {x \in Steps :
       /\ x.op \in {"make", "run", "look", "copy", "digest", "unlink", "rename"} => x.file \in Files
       /\ x.op = "manifest" => x.file \in Products
       /\ x.op = "check" => x.reads \subseteq Files
       /\ x.op \in {"run", "look", "copy"} => x.fail = "stop"
       /\ x.op = "copy" => x.reads = {"built"} /\ x.file = "tmp"
       /\ x.op = "rename" => x.reads = {"tmp"} /\ x.file # "tmp" /\ x.fail = "stop"}

Builds == {"make", "run", "look", "copy", "digest", "manifest", "check", "gate", "unlink", "rename"}

\* Those of a function that calls no other and writes the given files only.
Works(fs) ==
    {x \in Lawful :
       /\ x.op \in Builds
       /\ x.op # "digest" => x.file \in fs \cup {"none"}
       /\ x.op = "rename" => "tmp" \in fs}

\* What such a function leaves alone.
Kept(fs) == {Fine(f) : f \in Files \ fs} \cup {Described(p) : p \in Products \ fs}

\* A sequence of such steps that is supplied.
Fit(s, S, H, G) == s \in Seq(S) /\ Supplied(s, H, G)

LEMMA StepKinds ==
    ASSUME NEW fs, NEW file \in Files, file \in fs, NEW fail \in OnFail
    PROVE  /\ \A reads \in SUBSET (Files \cup Inputs) : Make(reads, file, fail) \in Works(fs)
           /\ \A reads \in SUBSET (Files \cup Inputs) : Run(reads, file) \in Works(fs)
           /\ Look(file) \in Works(fs)
           /\ "tmp" \in fs => Copy("built", "tmp") \in Works(fs)
           /\ \A f \in Files : Digest(f, fail) \in Works(fs)
           /\ file \in Products => Manifest(file, fail) \in Works(fs)
           /\ Check(fail) \in Works(fs) /\ Gate \in Works(fs)
           /\ Step("unlink", {}, file, "stop") \in Works(fs)
           /\ file # "tmp" /\ "tmp" \in fs => Step("rename", {"tmp"}, file, "stop") \in Works(fs)
           /\ \A gs \in SUBSET Files : Require(gs) \in Works(fs)
  <1> USE DEF Works, Lawful, Builds, Steps, Ops, OnFail, Step
  <1>1. \A reads \in SUBSET (Files \cup Inputs) : Make(reads, file, fail) \in Works(fs)
    BY DEF Make
  <1>1a. \A reads \in SUBSET (Files \cup Inputs) : Run(reads, file) \in Works(fs)
    BY DEF Run
  <1>1b. Look(file) \in Works(fs)
    BY DEF Look
  <1>1c. "tmp" \in fs => Copy("built", "tmp") \in Works(fs)
    BY AreThings DEF Copy
  <1>2. \A f \in Files : Digest(f, fail) \in Works(fs)
    BY DEF Digest
  <1>3. file \in Products => Manifest(file, fail) \in Works(fs)
    BY DEF Manifest
  <1>4. Check(fail) \in Works(fs) /\ Gate \in Works(fs)
    BY DEF Check, Gate
  <1>5. Step("unlink", {}, file, "stop") \in Works(fs)
    OBVIOUS
  <1>6. file # "tmp" /\ "tmp" \in fs => Step("rename", {"tmp"}, file, "stop") \in Works(fs)
    BY AreThings
  <1>7. \A gs \in SUBSET Files : Require(gs) \in Works(fs)
    BY DEF Require
  <1> QED BY <1>1, <1>1a, <1>1b, <1>1c, <1>2, <1>3, <1>4, <1>5, <1>6, <1>7, Zenon

\* The steps of those that call others.
LEMMA CallKinds ==
    /\ Call \in Lawful /\ Answer \in Lawful /\ SolveStep \in Lawful
    /\ \A f \in Files \cup {"none"} : Return(f, "stop") \in Lawful /\ Return(f, "raise") \in Lawful
    /\ Step("clean", {}, "none", "note") \in Lawful /\ Step("emit", {}, "none", "stop") \in Lawful
    /\ \A fs : Works(fs) \subseteq Lawful
    /\ \A fs, gs : fs \subseteq gs => Works(fs) \subseteq Works(gs)
    /\ \A fs : Check("stop") \in Works(fs) /\ Check("note") \in Works(fs) /\ Gate \in Works(fs)
    /\ \A fs : \A gs \in SUBSET Files : Require(gs) \in Works(fs)
  <1> USE DEF Lawful, Steps, Ops, OnFail, Step
  <1>1. Call \in Lawful /\ Answer \in Lawful /\ SolveStep \in Lawful
    BY DEF Call, Answer, SolveStep
  <1>2. \A f \in Files \cup {"none"} : Return(f, "stop") \in Lawful /\ Return(f, "raise") \in Lawful
    BY DEF Return
  <1>3. Step("clean", {}, "none", "note") \in Lawful /\ Step("emit", {}, "none", "stop") \in Lawful
    OBVIOUS
  <1>4. \A fs : Works(fs) \subseteq Lawful
    BY DEF Works
  <1>5. \A fs, gs : fs \subseteq gs => Works(fs) \subseteq Works(gs)
    BY DEF Works
  <1>6. \A fs : Check("stop") \in Works(fs) /\ Check("note") \in Works(fs) /\ Gate \in Works(fs)
    BY DEF Works, Builds, Check, Gate
  <1>7. \A fs : \A gs \in SUBSET Files : Require(gs) \in Works(fs)
    BY DEF Works, Builds, Require
  <1> QED BY <1>1, <1>2, <1>3, <1>4, <1>5, <1>6, <1>7, Zenon

LEMMA Mentions ==
    /\ \A f \in Files : {f} \in SUBSET (Files \cup Inputs)
    /\ {"project"} \in SUBSET (Files \cup Inputs) /\ {"profile"} \in SUBSET (Files \cup Inputs)
    /\ {"project", "profile"} \in SUBSET (Files \cup Inputs) /\ {"crate"} \in SUBSET (Files \cup Inputs)
    /\ {} \in SUBSET (Files \cup Inputs)
    /\ \A f \in Files : {f, "profile"} \in SUBSET (Files \cup Inputs)
    /\ \A f, g \in Files : {f, g} \in SUBSET (Files \cup Inputs)
    /\ {"project", "profile", "crate"} \cap Files = {}
    /\ Temps \subseteq Files /\ Objects \subseteq Files /\ Products \subseteq Files
    /\ "stop" \in OnFail /\ "note" \in OnFail /\ "raise" \in OnFail
  BY DEF Inputs, Files, Products, OnFail, Temps, Scratch, Outputs, Objects, Adapters

-----------------------------------------------------------------------------
(* Putting them together.                                                  *)

LEMMA Fit1 ==
    ASSUME NEW S, NEW a \in S, NEW H \in SUBSET Things, NEW I \in SUBSET Things, Over(a, H, I)
    PROVE  Fit(<<a>>, S, H, I)
  BY Supplied1 DEF Fit

LEMMA Fit2 ==
    ASSUME NEW S, NEW a \in S, NEW b \in S, NEW H \in SUBSET Things, NEW I \in SUBSET Things,
           NEW J \in SUBSET Things, Over(a, H, I), Over(b, I, J)
    PROVE  Fit(<<a, b>>, S, H, J)
  BY Supplied2 DEF Fit

LEMMA Fit3 ==
    ASSUME NEW S, NEW a \in S, NEW b \in S, NEW c \in S, NEW H \in SUBSET Things,
           NEW I \in SUBSET Things, NEW J \in SUBSET Things, NEW K \in SUBSET Things,
           Over(a, H, I), Over(b, I, J), Over(c, J, K)
    PROVE  Fit(<<a, b, c>>, S, H, K)
  BY Supplied3 DEF Fit

LEMMA Fit4 ==
    ASSUME NEW S, NEW a \in S, NEW b \in S, NEW c \in S, NEW d \in S, NEW H \in SUBSET Things,
           NEW I \in SUBSET Things, NEW J \in SUBSET Things, NEW K \in SUBSET Things,
           NEW L \in SUBSET Things, Over(a, H, I), Over(b, I, J), Over(c, J, K), Over(d, K, L)
    PROVE  Fit(<<a, b, c, d>>, S, H, L)
  BY Supplied4 DEF Fit

LEMMA FitNothing ==
    ASSUME NEW S, NEW H \in SUBSET Things
    PROVE  Fit(<<>>, S, H, H)
  BY SuppliedEmpty DEF Fit

LEMMA FitConcat ==
    ASSUME NEW S, NEW s, NEW t, NEW H, NEW K, NEW G, Fit(s, S, H, K), Fit(t, S, K, G)
    PROVE  Fit(s \o t, S, H, G)
  BY SuppliedConcat, ConcatProperties DEF Fit

LEMMA FitWider ==
    ASSUME NEW S, NEW s, NEW H, NEW G, Fit(s, S, H, G), NEW T, S \subseteq T,
           NEW I, H \subseteq I, NEW F, F \subseteq G
    PROVE  Fit(s, T, I, F)
  BY SuppliedWeaker DEF Fit

\* What no step of a sequence takes away.
LEMMA FitBeside ==
    ASSUME NEW S, NEW s, NEW H, NEW G, Fit(s, S, H, G), NEW R \in SUBSET Passing,
           \A x \in S : Takes(x) \cap R = {}
    PROVE  Fit(s, S, H \cup R, G \cup R)
  <1>1. s \in Seq(S) /\ Supplied(s, H, G) /\ Len(s) \in Nat
    BY DEF Fit
  <1>2. \A i \in 1..Len(s) : s[i] \in S
    BY <1>1
  <1>3. \A i \in 1..Len(s) : Takes(s[i]) \cap R = {}
    BY <1>2
  <1> QED BY <1>1, <1>3, SuppliedBeside DEF Fit

\* What lies beside the files a function writes outlives it.
LEMMA FitAside ==
    ASSUME NEW fs, NEW s, NEW H, NEW G, Fit(s, Works(fs), H, G), NEW R \in SUBSET Kept(fs)
    PROVE  Fit(s, Works(fs), H \cup R, G \cup R)
  <1>1. R \in SUBSET Passing
    BY DEF Kept, Passing
  <1>2. ASSUME NEW x \in Works(fs) PROVE Takes(x) \cap R = {}
    <2>1. \A f \in fs : Of(f) \cap Kept(fs) = {}
      BY Differ DEF Of, Kept
    <2>2. ({Sound} \cup {Noted(f) : f \in Files}) \cap Kept(fs) = {}
      BY Differ DEF Kept
    <2>3. x.op \in Builds /\ (x.op # "digest" => x.file \in fs \cup {"none"})
      BY DEF Works
    <2>4. x.op \in {"make", "run", "copy", "digest", "unlink", "rename"} => x.file \in Files
      BY DEF Works, Lawful
    <2>5. Of("tmp") \cap Kept(fs) = {} \/ x.op # "rename"
      <3>1. x.op = "rename" => "tmp" \in fs
        BY DEF Works
      <3> QED BY <2>1, <3>1
    <2>6. "none" \notin Files
      BY DEF Files, Products, Scratch, Outputs, Objects, Adapters
    <2>7. x.op \in {"make", "run", "copy", "unlink", "rename"} => Of(x.file) \cap Kept(fs) = {}
      BY <2>1, <2>3, <2>4, <2>6
    <2>8. Takes(x) \cap Kept(fs) = {}
      BY <2>2, <2>3, <2>5, <2>7 DEF Takes, Builds
    <2> QED BY <2>8
  <1> QED BY <1>1, <1>2, FitBeside

-----------------------------------------------------------------------------
(* x07-wasm build.                                                         *)

LEMMA WasmBuildFits ==
    ASSUME NEW backend, NEW out \in {"wasm", "raw"}, NEW manifest \in BOOLEAN
    PROVE  Fit(WasmBuild(backend, out, manifest), Works(Temps \cup {out}), {},
               {Fine(out)} \cup (IF manifest /\ out = "wasm" THEN {Described(out)} ELSE {}))
  <1> DEFINE fs == Temps \cup {out}
             G == {Fine(out)} \cup (IF manifest /\ out = "wasm" THEN {Described(out)} ELSE {})
             code == IF backend = "c" THEN Got("program.c") ELSE Said(out)
             parts == {Fine("emit.o"), Fine("shim.o")}
             linked == IF backend = "c" THEN parts ELSE Said(out)
             judged == Judged(out)
  <1>1. /\ out \in Files /\ {"program.c", "glue.c", "emit.o", "shim.o", out} \subseteq fs \cap Files
        /\ out = "wasm" => out \in Products
    BY DEF Files, Products, Temps, Scratch, Outputs
  <1>2. /\ Said(out) \in SUBSET Things /\ code \in SUBSET Things /\ Got("program.c") \in SUBSET Things /\ Got(out) \in SUBSET Things
        /\ parts \in SUBSET Things /\ linked \in SUBSET Things /\ judged \in SUBSET Things
        /\ {} \in SUBSET Things /\ G \in SUBSET Things
    BY <1>1, AreThings DEF Got, Said, Judged
  <1>3. Check("stop") \in Works(fs) /\ Check("note") \in Works(fs)
    BY CallKinds
  <1>4. code = IF backend = "c" THEN Got("program.c") ELSE Said(out)
    OBVIOUS
  <1> HIDE DEF fs, code
  <1>5. Fit(WasmInputs, Works(fs), {}, {})
    BY <1>2, <1>3, OverCheck, Fit1 DEF WasmInputs
  <1>6. Fit(WasmCodegen(backend, out), Works(fs), {}, code)
    <2> DEFINE made == Make({"project", "profile"}, "program.c", "stop")
               asked == Run({"project", "profile"}, out)
    <2>1. made \in Works(fs) /\ asked \in Works(fs)
      BY <1>1, StepKinds, Mentions
    <2>2. Over(made, {}, Got("program.c")) /\ Over(asked, {}, Said(out))
      BY Mentions, OverMake, OverRun DEF Got, Said
    <2>3. Over(Check("stop"), Got("program.c"), Got("program.c")) /\ Over(Check("stop"), Said(out), Said(out))
      BY OverCheck
    <2> HIDE DEF made, asked
    <2>4. Fit(<<made, Check("stop")>>, Works(fs), {}, Got("program.c"))
      BY <1>2, <1>3, <2>1, <2>2, <2>3, Fit2
    <2>5. Fit(<<asked, Check("stop")>>, Works(fs), {}, Said(out))
      BY <1>2, <1>3, <2>1, <2>2, <2>3, Fit2
    <2>6. WasmCodegen(backend, out) = <<IF backend = "c" THEN made ELSE asked, Check("stop")>>
      BY DEF WasmCodegen, made, asked
    <2> QED BY <1>4, <2>4, <2>5, <2>6
  <1>7. Fit(WasmObjects, Works(fs), Got("program.c"), parts)
    <2> DEFINE H == Got("program.c")
               I == {Fine("program.c"), Fine("glue.c")}
               K == {Fine("emit.o"), Fine("glue.c")}
    <2>1. H \in SUBSET Things /\ I \in SUBSET Things /\ K \in SUBSET Things
      BY AreThings DEF Got
    <2>2. Over(Make({}, "glue.c", "stop"), H, I)
      BY OverMake, Differ DEF Got, Of
    <2>3. Over(Check("note"), I, I)
      BY OverCheck
    <2>4. Over(Make({"program.c"}, "emit.o", "stop"), I, K)
      BY OverMake, Differ DEF Of
    <2>5. Over(Make({"glue.c"}, "shim.o", "stop"), K, parts)
      BY OverMake, Differ DEF Of
    <2>6. /\ Make({}, "glue.c", "stop") \in Works(fs) /\ Make({"program.c"}, "emit.o", "stop") \in Works(fs)
          /\ Make({"glue.c"}, "shim.o", "stop") \in Works(fs)
      BY <1>1, StepKinds, Mentions
    <2> HIDE DEF H, I, K, parts
    <2>7. Fit(WasmObjects, Works(fs), H, parts)
      BY <1>2, <1>3, <2>1, <2>2, <2>3, <2>4, <2>5, <2>6, Fit4 DEF WasmObjects
    <2> QED BY <2>7 DEF H
  <1>8. Fit(IF backend = "c" THEN WasmObjects ELSE <<>>, Works(fs), code, linked)
    <2>1. CASE backend = "c"
      BY <1>4, <1>7, <2>1
    <2>2. CASE backend # "c"
      <3>1. Fit(<<>>, Works(fs), Said(out), Said(out))
        BY <1>2, FitNothing
      <3> QED BY <1>4, <2>2, <3>1
    <2> QED BY <2>1, <2>2
  <1>9. Fit(WasmLink(backend, out), Works(fs), linked, Got(out))
    <2>1. CASE backend = "c"
      <3>1. Over(Make({"emit.o", "shim.o"}, out, "stop"), parts, Got(out))
        BY OverMake DEF Got
      <3>2. Make({"emit.o", "shim.o"}, out, "stop") \in Works(fs)
        BY <1>1, StepKinds, Mentions
      <3>3. Fit(<<Make({"emit.o", "shim.o"}, out, "stop")>>, Works(fs), parts, Got(out))
        BY <1>2, <3>1, <3>2, Fit1
      <3> QED BY <2>1, <3>3 DEF WasmLink
    <2>2. CASE backend # "c"
      <3>1. Over(Look(out), Said(out), Got(out))
        BY OverLook DEF Got, Said
      <3>2. Look(out) \in Works(fs)
        BY <1>1, StepKinds, Mentions
      <3>3. Fit(<<Look(out)>>, Works(fs), Said(out), Got(out))
        BY <1>2, <3>1, <3>2, Fit1
      <3> QED BY <2>2, <3>3 DEF WasmLink
    <2> QED BY <2>1, <2>2
  <1>10. Fit(WasmInspect(out), Works(fs), Got(out), judged)
    <2>1. Over(Digest(out, "stop"), Got(out), judged)
      BY OverDigest, Differ DEF Got, Judged
    <2>2. Over(Check("stop"), judged, judged) /\ Over(Check("note"), judged, judged)
      BY OverCheck
    <2>3. Digest(out, "stop") \in Works(fs)
      BY <1>1, StepKinds, Mentions
    <2> HIDE DEF judged
    <2> QED BY <1>2, <1>3, <2>1, <2>2, <2>3, Fit3 DEF WasmInspect
  <1>11. Fit(WasmDescribe(out, manifest), Works(fs), judged, G)
    <2>1. CASE manifest /\ out = "raw"
      <3>1. Over(Check("note"), judged, G)
        BY <2>1, OverCheck DEF Judged
      <3>2. Fit(<<Check("note")>>, Works(fs), judged, G)
        BY <1>2, <1>3, <3>1, Fit1
      <3> QED BY <2>1, <3>2 DEF WasmDescribe
    <2>2. CASE manifest /\ out # "raw"
      <3>1. Over(Manifest(out, "note"), judged, G)
        BY OverManifest DEF Judged
      <3>2. Manifest(out, "note") \in Works(fs)
        BY <1>1, <2>2, StepKinds, Mentions
      <3>3. Fit(<<Manifest(out, "note")>>, Works(fs), judged, G)
        BY <1>2, <3>1, <3>2, Fit1
      <3> QED BY <2>2, <3>3 DEF WasmDescribe
    <2>3. CASE ~manifest
      <3>1. Fit(<<>>, Works(fs), judged, judged) /\ G \subseteq judged
        BY <1>2, <2>3, FitNothing DEF Judged
      <3>2. Fit(<<>>, Works(fs), judged, G)
        BY <3>1, FitWider
      <3> QED BY <2>3, <3>2 DEF WasmDescribe
    <2> QED BY <2>1, <2>2, <2>3
  <1> HIDE DEF G, linked, judged
  <1>12. Fit(WasmInputs \o WasmCodegen(backend, out), Works(fs), {}, code)
    BY <1>5, <1>6, FitConcat
  <1>13. Fit(WasmInputs \o WasmCodegen(backend, out) \o (IF backend = "c" THEN WasmObjects ELSE <<>>),
             Works(fs), {}, linked)
    BY <1>8, <1>12, FitConcat
  <1>14. Fit(WasmInputs \o WasmCodegen(backend, out) \o (IF backend = "c" THEN WasmObjects ELSE <<>>)
             \o WasmLink(backend, out), Works(fs), {}, Got(out))
    BY <1>9, <1>13, FitConcat
  <1>15. Fit(WasmInputs \o WasmCodegen(backend, out) \o (IF backend = "c" THEN WasmObjects ELSE <<>>)
             \o WasmLink(backend, out) \o WasmInspect(out), Works(fs), {}, judged)
    BY <1>10, <1>14, FitConcat
  <1>16. Fit(WasmBuild(backend, out, manifest), Works(fs), {}, G)
    BY <1>11, <1>15, FitConcat DEF WasmBuild
  <1> QED BY <1>16 DEF fs, G

-----------------------------------------------------------------------------
(* x07-wasm component build.                                               *)

Kinds == {"solve", "http", "cli"}

\* Componentize and Describe, of whatever core module there is.
LEMMA DescribeFits ==
    ASSUME NEW kind \in Kinds, NEW fs, kind \in fs
    PROVE  /\ Fit(Componentize(kind), Works(fs), {Fine("core")}, Judged(kind))
           /\ Fit(Describe(kind), Works(fs), Judged(kind), {Fine(kind), Described(kind)})
  <1> DEFINE judged == Judged(kind)
             G == {Fine(kind), Described(kind)}
  <1>1. kind \in Products /\ kind \in Files /\ "core" \in Files
    BY AreThings DEF Kinds
  <1>2. {Fine("core")} \in SUBSET Things /\ Got(kind) \in SUBSET Things /\ judged \in SUBSET Things /\ G \in SUBSET Things
    BY <1>1, AreThings DEF Got, Judged
  <1>3. Fit(Componentize(kind), Works(fs), {Fine("core")}, judged)
    <2>1. Over(Make({"core"}, kind, "stop"), {Fine("core")}, Got(kind))
      BY OverMake DEF Got
    <2>2. Over(Digest(kind, "raise"), Got(kind), judged)
      BY OverDigest, Differ DEF Got, Judged
    <2>3. Make({"core"}, kind, "stop") \in Works(fs) /\ Digest(kind, "raise") \in Works(fs)
      BY <1>1, StepKinds, Mentions
    <2> HIDE DEF judged
    <2> QED BY <1>2, <2>1, <2>2, <2>3, Fit2 DEF Componentize
  <1>4. Fit(Describe(kind), Works(fs), judged, G)
    <2>1. Over(Check("stop"), judged, judged)
      BY OverCheck
    <2>2. Over(Manifest(kind, "raise"), judged, G)
      BY OverManifest DEF Judged
    <2>3. Check("stop") \in Works(fs) /\ Manifest(kind, "raise") \in Works(fs)
      BY <1>1, StepKinds, Mentions
    <2> HIDE DEF judged, G
    <2> QED BY <1>2, <2>1, <2>2, <2>3, Fit2 DEF Describe
  <1> QED BY <1>3, <1>4

LEMMA FromCFits ==
    ASSUME NEW kind \in Kinds
    PROVE  Fit(FromC(kind), Works(Temps \cup Objects \cup {kind}), {}, {Fine(kind), Described(kind)})
  <1> DEFINE fs == Temps \cup Objects \cup {kind}
             object == GlueObject(kind)
             G == {Fine(kind), Described(kind)}
             H == {Fine("program.c")}
             I == {Fine("program.c"), Fine("glue.c")}
             J == {Fine("program.o"), Fine("glue.c")}
             K == {Fine("program.o"), Fine(object)}
             L == {Fine("core")}
  <1>1. /\ object \in {"solve glue.o", "http glue.o", "cli glue.o"}
        /\ {"program.c", "glue.c", "core", "program.o", object, kind} \subseteq fs \cap Files
    BY AreThings DEF GlueObject, Kinds, Temps, Scratch, Objects
  <1>2. /\ H \in SUBSET Things /\ I \in SUBSET Things /\ J \in SUBSET Things /\ K \in SUBSET Things
        /\ L \in SUBSET Things /\ {} \in SUBSET Things /\ Got("program.c") \in SUBSET Things
        /\ Got("core") \in SUBSET Things /\ I \cup Got("glue.c") \in SUBSET Things
    BY <1>1, AreThings DEF Got
  <1>3. Check("stop") \in Works(fs)
    BY CallKinds
  <1>4. object # "glue.c" /\ object # "program.o"
    BY <1>1
  <1>5. object = GlueObject(kind) /\ kind \in fs
    OBVIOUS
  <1> HIDE DEF fs, object
  <1>6. Fit(Codegen, Works(fs), {}, H)
    <2>1. Over(Check("stop"), {}, {})
      BY OverCheck
    <2>2. Over(Make({"project"}, "program.c", "stop"), {}, Got("program.c"))
      BY OverMake, Mentions DEF Got
    <2>3. Over(Digest("program.c", "raise"), Got("program.c"), H)
      BY OverDigest, Differ DEF Got
    <2>4. Make({"project"}, "program.c", "stop") \in Works(fs) /\ Digest("program.c", "raise") \in Works(fs)
      BY <1>1, StepKinds, Mentions
    <2> HIDE DEF H
    <2> QED BY <1>2, <1>3, <2>1, <2>2, <2>3, <2>4, Fit3 DEF Codegen
  <1>7. Fit(Glue, Works(fs), H, I)
    <2>1. Over(Make({"profile"}, "glue.c", "stop"), H, I)
      BY OverMake, Mentions, Differ DEF Of
    <2>2. Over(Digest("glue.c", "raise"), I, I)
      BY OverDigest, Differ
    <2>3. Make({"profile"}, "glue.c", "stop") \in Works(fs) /\ Digest("glue.c", "raise") \in Works(fs)
      BY <1>1, StepKinds, Mentions
    <2> HIDE DEF H, I
    <2> QED BY <1>2, <2>1, <2>2, <2>3, Fit2 DEF Glue
  <1>8. Fit(Objs(kind), Works(fs), I, K)
    <2>1. Over(Make({"program.c"}, "program.o", "note"), I, J)
      BY OverMakeNoted, Differ DEF Of
    <2>2. Over(Make({"glue.c"}, object, "note"), J, K)
      BY <1>4, OverMakeNoted, Differ DEF Of
    <2>3. Make({"program.c"}, "program.o", "note") \in Works(fs) /\ Make({"glue.c"}, object, "note") \in Works(fs)
      BY <1>1, StepKinds, Mentions
    <2> HIDE DEF I, J, K
    <2> QED BY <1>2, <1>5, <2>1, <2>2, <2>3, Fit2 DEF Objs
  <1>9. Fit(Link(kind), Works(fs), K, L)
    <2>1. Over(Make({"program.o", object}, "core", "stop"), K, Got("core"))
      BY OverMake DEF Got
    <2>2. Over(Digest("core", "raise"), Got("core"), L)
      BY OverDigest, Differ DEF Got
    <2>3. Make({"program.o", object}, "core", "stop") \in Works(fs) /\ Digest("core", "raise") \in Works(fs)
      BY <1>1, StepKinds, Mentions
    <2> HIDE DEF K, L
    <2> QED BY <1>2, <1>5, <2>1, <2>2, <2>3, Fit2 DEF Link
  <1>10. Fit(Componentize(kind), Works(fs), L, Judged(kind)) /\ Fit(Describe(kind), Works(fs), Judged(kind), G)
    BY <1>5, DescribeFits
  <1> HIDE DEF G, H, I, J, K, L
  <1>11. Fit(Codegen \o Glue, Works(fs), {}, I)
    BY <1>6, <1>7, FitConcat
  <1>12. Fit(Codegen \o Glue \o Objs(kind), Works(fs), {}, K)
    BY <1>8, <1>11, FitConcat
  <1>13. Fit(Codegen \o Glue \o Objs(kind) \o Link(kind), Works(fs), {}, L)
    BY <1>9, <1>12, FitConcat
  <1>14. Fit(Codegen \o Glue \o Objs(kind) \o Link(kind) \o Componentize(kind), Works(fs), {}, Judged(kind))
    BY <1>10, <1>13, FitConcat
  <1>15. Fit(FromC(kind), Works(fs), {}, G)
    BY <1>10, <1>14, FitConcat DEF FromC
  <1> QED BY <1>15 DEF fs, G

\* The steps that build a solve component, but for the return.
SolveActs == Works(SolveFiles) \cup {Call, Answer}

LEMMA NestedFits ==
    ASSUME NEW S, NEW s, NEW H \in SUBSET Things, NEW G \in SUBSET Things, Fit(s, S, H, G),
           G \cap Lasting = {}, NEW T, S \cup {Call, Answer} \subseteq T
    PROVE  Fit(Nested(s), T, H, G)
  <1>1. Over(Call, H, H)
    BY OverCheck
  <1>2. Over(Answer, G, G)
    BY OverAnswer
  <1>3. Fit(<<Call>>, T, H, H) /\ Fit(<<Answer>>, T, G, G)
    BY <1>1, <1>2, Fit1
  <1>4. Fit(s, T, H, G)
    BY FitWider
  <1>5. Fit(<<Call>> \o s, T, H, G)
    BY <1>3, <1>4, FitConcat
  <1> QED BY <1>3, <1>5, FitConcat DEF Nested

\* Nothing of this lasts.
LEMMA Fleeting ==
    /\ \A f \in Files : Fine(f) \in Passing /\ Left(f) \in Passing /\ Noted(f) \in Passing
    /\ \A p \in Products : Described(p) \in Passing
    /\ Passing \cap Lasting = {} /\ Passing \subseteq Things
    /\ \A fs : Kept(fs) \subseteq Passing
    /\ SolveOwed \subseteq Passing
  <1>1. Passing \cap Lasting = {}
    BY Differ DEF Passing, Lasting
  <1> QED BY <1>1, AreThings DEF Passing, Things, Kept, SolveOwed

LEMMA SolveNativeFits == Fit(SolveNative, SolveActs, {}, SolveOwed)
  <1> DEFINE S == SolveActs
             raw == {Fine("raw")}
             made == {Fine("core")}
             W == WasmBuild("native", "raw", TRUE)
  <1>1. /\ raw \in SUBSET Things /\ raw \cap Lasting = {} /\ made \in SUBSET Things
        /\ Got("core") \in SUBSET Things /\ {} \in SUBSET Things
    BY AreThings, Fleeting DEF Got
  <1>2. Works(Temps \cup {"raw"}) \subseteq S /\ Works(SolveFiles) \subseteq S /\ {Call, Answer} \subseteq S
    <2>1. Temps \cup {"raw"} \subseteq SolveFiles
      BY DEF SolveFiles, Temps, Outputs
    <2> QED BY <2>1, CallKinds DEF SolveActs
  <1>3. Fit(W, Works(Temps \cup {"raw"}), {}, raw)
    BY WasmBuildFits
  <1> HIDE DEF S, raw, W
  <1>4. Fit(Nested(W), S, {}, raw)
    BY <1>1, <1>2, <1>3, NestedFits
  <1>5. Fit(<<Check("stop")>>, S, {}, {})
    <2>1. Check("stop") \in S
      BY <1>2, CallKinds
    <2> QED BY <1>1, <2>1, OverCheck, Fit1
  <1>6. Fit(<<Make({"raw", "profile"}, "core", "raise"), Digest("core", "raise")>>, S, raw, made)
    <2>1. Over(Make({"raw", "profile"}, "core", "raise"), raw, Got("core"))
      BY OverMake, Mentions DEF Got, raw
    <2>2. Over(Digest("core", "raise"), Got("core"), made)
      BY OverDigest, Differ DEF Got
    <2>3. Make({"raw", "profile"}, "core", "raise") \in S /\ Digest("core", "raise") \in S
      <3>1. "core" \in Files /\ "raw" \in Files /\ "core" \in SolveFiles
        BY DEF SolveFiles, Temps, Outputs, Files, Scratch
      <3> QED BY <1>2, <3>1, StepKinds, Mentions
    <2> HIDE DEF made
    <2> QED BY <1>1, <2>1, <2>2, <2>3, Fit2
  <1>7. Fit(Componentize("solve"), S, made, Judged("solve")) /\ Fit(Describe("solve"), S, Judged("solve"), SolveOwed)
    <2>1. "solve" \in SolveFiles /\ "solve" \in Kinds
      BY DEF SolveFiles, Kinds
    <2>2. /\ Fit(Componentize("solve"), Works(SolveFiles), made, Judged("solve"))
          /\ Fit(Describe("solve"), Works(SolveFiles), Judged("solve"), SolveOwed)
      BY <2>1, DescribeFits DEF SolveOwed
    <2> QED BY <1>2, <2>2, FitWider
  <1> HIDE DEF made
  <1>8. Fit(<<Check("stop")>> \o Nested(W), S, {}, raw)
    BY <1>4, <1>5, FitConcat
  <1>9. Fit(<<Check("stop")>> \o Nested(W) \o <<Make({"raw", "profile"}, "core", "raise"), Digest("core", "raise")>>,
            S, {}, made)
    BY <1>6, <1>8, FitConcat
  <1>10. Fit(<<Check("stop")>> \o Nested(W) \o <<Make({"raw", "profile"}, "core", "raise"), Digest("core", "raise")>>
             \o Componentize("solve"), S, {}, Judged("solve"))
    BY <1>7, <1>9, FitConcat
  <1>11. Fit(SolveNative, S, {}, SolveOwed)
    BY <1>7, <1>10, FitConcat DEF SolveNative, W
  <1> QED BY <1>11 DEF S

SolveBody(backend) == IF backend = "c" THEN FromC("solve") ELSE SolveNative

LEMMA SolveFits ==
    ASSUME NEW backend
    PROVE  /\ Fit(SolveBody(backend), SolveActs, {}, SolveOwed)
           /\ Solve(backend) = SolveBody(backend) \o <<Return("solve", "raise")>>
           /\ Fit(Solve(backend), Lawful, {}, SolveOwed)
  <1>1. Fit(FromC("solve"), SolveActs, {}, SolveOwed)
    <2>1. Fit(FromC("solve"), Works(SolveFiles), {}, SolveOwed)
      BY FromCFits DEF Kinds, SolveFiles, SolveOwed
    <2> QED BY <2>1, FitWider DEF SolveActs
  <1>2. Fit(SolveBody(backend), SolveActs, {}, SolveOwed)
    BY <1>1, SolveNativeFits DEF SolveBody
  <1>3. Solve(backend) = SolveBody(backend) \o <<Return("solve", "raise")>>
    BY DEF Solve, SolveBody
  <1>4. Fit(SolveBody(backend), Lawful, {}, SolveOwed)
    BY <1>2, CallKinds, FitWider DEF SolveActs
  <1>5. Fit(<<Return("solve", "raise")>>, Lawful, SolveOwed, SolveOwed)
    <2>1. SolveOwed \in SUBSET Things /\ SolveOwed \cap Lasting = {}
      BY Fleeting
    <2>2. Over(Return("solve", "raise"), SolveOwed, SolveOwed)
      BY <2>1, OverReturn
    <2>3. Return("solve", "raise") \in Lawful
      BY CallKinds, AreThings
    <2> QED BY <2>1, <2>2, <2>3, Fit1
  <1>6. Fit(Solve(backend), Lawful, {}, SolveOwed)
    BY <1>3, <1>4, <1>5, FitConcat
  <1> QED BY <1>2, <1>3, <1>6

LEMMA AdapterFits ==
    ASSUME NEW name \in Adapters, NEW fromSource
    PROVE  Fit(Adapter(name, fromSource), Works(Temps \cup {name}), {}, {Fine(name), Described(name)})
  <1> DEFINE fs == Temps \cup {name}
             G == {Fine(name), Described(name)}
             bytes == IF fromSource THEN Got("built") ELSE {}
             cargo == IF fromSource THEN <<Run({"crate"}, "built"), Look("built")>> ELSE <<>>
             copy == IF fromSource THEN Copy("built", "tmp") ELSE Make({}, "tmp", "stop")
             write == <<Step("unlink", {}, name, "stop"), copy, Step("rename", {"tmp"}, name, "stop")>>
             describe == <<Digest(name, "stop"), Check("stop"), Manifest(name, "stop")>>
  <1>1. /\ name \in Products /\ {name, "built", "tmp"} \subseteq fs \cap Files /\ name # "built" /\ name # "tmp"
    BY AreThings DEF Temps, Scratch, Outputs, Adapters
  <1>2. /\ Got(name) \in SUBSET Things /\ Got("built") \in SUBSET Things /\ Got("tmp") \in SUBSET Things
        /\ Judged(name) \in SUBSET Things /\ G \in SUBSET Things /\ {} \in SUBSET Things
        /\ Said("built") \in SUBSET Things /\ bytes \in SUBSET Things
    BY <1>1, AreThings DEF Got, Said, Judged
  <1>2a. /\ fromSource => bytes = Got("built") /\ copy = Copy("built", "tmp")
                           /\ cargo = <<Run({"crate"}, "built"), Look("built")>>
         /\ ~fromSource => bytes = {} /\ copy = Make({}, "tmp", "stop") /\ cargo = <<>>
    OBVIOUS
  <1> HIDE DEF fs, bytes, cargo, copy
  <1>3. Fit(cargo, Works(fs), {}, bytes)
    <2>1. CASE fromSource
      <3>1. Over(Run({"crate"}, "built"), {}, Said("built"))
        BY OverRun, Mentions DEF Said
      <3>2. Over(Look("built"), Said("built"), Got("built"))
        BY OverLook DEF Got, Said
      <3>3. Run({"crate"}, "built") \in Works(fs) /\ Look("built") \in Works(fs)
        BY <1>1, StepKinds, Mentions
      <3>4. Fit(<<Run({"crate"}, "built"), Look("built")>>, Works(fs), {}, Got("built"))
        BY <1>2, <3>1, <3>2, <3>3, Fit2
      <3> QED BY <1>2a, <2>1, <3>4
    <2>2. CASE ~fromSource
      BY <1>2, <1>2a, <2>2, FitNothing
    <2> QED BY <2>1, <2>2
  <1>4. Fit(write, Works(fs), bytes, Got(name))
    <2>1. Over(Step("unlink", {}, name, "stop"), bytes, bytes)
      <3>1. \A r \in bytes : r \notin Of(name)
        BY <1>1, <1>2a, Differ DEF Got, Of
      <3> QED BY <3>1, OverAdapter
    <2>2. Over(copy, bytes, Got("tmp"))
      <3>1. CASE fromSource
        <4>1. Over(Copy("built", "tmp"), Got("built"), Got("tmp"))
          BY OverCopy DEF Got
        <4> QED BY <1>2a, <3>1, <4>1
      <3>2. CASE ~fromSource
        <4>1. Over(Make({}, "tmp", "stop"), {}, Got("tmp"))
          BY OverMake DEF Got
        <4> QED BY <1>2a, <3>2, <4>1
      <3> QED BY <3>1, <3>2
    <2>3. Over(Step("rename", {"tmp"}, name, "stop"), Got("tmp"), Got(name))
      BY OverAdapter DEF Got
    <2>4. /\ Step("unlink", {}, name, "stop") \in Works(fs) /\ copy \in Works(fs)
          /\ Step("rename", {"tmp"}, name, "stop") \in Works(fs)
      <3>1. Copy("built", "tmp") \in Works(fs) /\ Make({}, "tmp", "stop") \in Works(fs)
        BY <1>1, StepKinds, Mentions
      <3>2. Step("unlink", {}, name, "stop") \in Works(fs) /\ Step("rename", {"tmp"}, name, "stop") \in Works(fs)
        BY <1>1, StepKinds, Mentions
      <3> QED BY <1>2a, <3>1, <3>2
    <2> QED BY <1>2, <2>1, <2>2, <2>3, <2>4, Fit3
  <1>5. Fit(describe, Works(fs), Got(name), G)
    <2>1. Over(Digest(name, "stop"), Got(name), Judged(name))
      BY OverDigest, Differ DEF Got, Judged
    <2>2. Over(Check("stop"), Judged(name), Judged(name))
      BY OverCheck
    <2>3. Over(Manifest(name, "stop"), Judged(name), G)
      BY OverManifest DEF Judged
    <2>4. Digest(name, "stop") \in Works(fs) /\ Check("stop") \in Works(fs) /\ Manifest(name, "stop") \in Works(fs)
      BY <1>1, StepKinds, Mentions
    <2> HIDE DEF G
    <2> QED BY <1>2, <2>1, <2>2, <2>3, <2>4, Fit3
  <1>6. Adapter(name, fromSource) = (cargo \o write) \o describe
    BY DEF Adapter, cargo, copy
  <1> HIDE DEF write, describe, G
  <1>7. Fit(cargo \o write, Works(fs), {}, Got(name))
    BY <1>3, <1>4, FitConcat
  <1>8. Fit(Adapter(name, fromSource), Works(fs), {}, G)
    BY <1>5, <1>6, <1>7, FitConcat
  <1> QED BY <1>8 DEF fs, G

LEMMA ComposeFits ==
    ASSUME NEW adapter \in Adapters, NEW out \in {"http", "cli"}
    PROVE  Fit(Compose(adapter, out), Works({out}), {Fine("solve"), Fine(adapter)}, {Fine(out), Described(out)})
  <1> DEFINE H == {Fine("solve"), Fine(adapter)}
             G == {Fine(out), Described(out)}
             look == <<Digest("solve", "note"), Digest(adapter, "note"), Check("note"), Gate>>
             plug == <<Make({"solve", adapter}, out, "stop"), Digest(out, "note"), Check("stop"),
                       Manifest(out, "note")>>
  <1>1. out \in Products /\ {out, "solve", adapter} \subseteq Files
    BY AreThings
  <1>2. H \in SUBSET Things /\ G \in SUBSET Things /\ Got(out) \in SUBSET Things /\ Judged(out) \in SUBSET Things
    BY <1>1, AreThings DEF Got, Judged
  <1>3. Fit(look, Works({out}), H, H)
    <2>1. Over(Digest("solve", "note"), H, H) /\ Over(Digest(adapter, "note"), H, H)
      BY OverDigest, Differ
    <2>2. Over(Check("note"), H, H) /\ Over(Gate, H, H)
      BY OverCheck
    <2>3. /\ Digest("solve", "note") \in Works({out}) /\ Digest(adapter, "note") \in Works({out})
          /\ Check("note") \in Works({out}) /\ Gate \in Works({out})
      BY <1>1, StepKinds, Mentions
    <2> HIDE DEF H
    <2> QED BY <1>2, <2>1, <2>2, <2>3, Fit4
  <1>4. Fit(plug, Works({out}), H, G)
    <2>1. Over(Make({"solve", adapter}, out, "stop"), H, Got(out))
      BY OverMake DEF Got
    <2>2. Over(Digest(out, "note"), Got(out), Judged(out))
      BY OverDigest, Differ DEF Got, Judged
    <2>3. Over(Check("stop"), Judged(out), Judged(out))
      BY OverCheck
    <2>4. Over(Manifest(out, "note"), Judged(out), G)
      BY OverManifest DEF Judged
    <2>5. /\ Make({"solve", adapter}, out, "stop") \in Works({out}) /\ Digest(out, "note") \in Works({out})
          /\ Check("stop") \in Works({out}) /\ Manifest(out, "note") \in Works({out})
      BY <1>1, StepKinds, Mentions
    <2> HIDE DEF H, G
    <2> QED BY <1>2, <2>1, <2>2, <2>3, <2>4, <2>5, Fit4
  <1>5. Compose(adapter, out) = look \o plug
    BY DEF Compose
  <1> HIDE DEF look, plug, H, G
  <1>6. Fit(Compose(adapter, out), Works({out}), H, G)
    BY <1>3, <1>4, <1>5, FitConcat
  <1> QED BY <1>6 DEF H, G

\* Steps after which a solve component that was returned is still there.
Touches(x) ==
    \/ x.op \in {"clean", "emit"}
    \/ x.file = "solve" /\ x.op \in {"make", "run", "copy", "unlink", "rename", "manifest", "return"}
Quiet == {x \in Lawful : ~Touches(x)}

LEMMA QuietKinds ==
    /\ Call \in Quiet /\ Answer \in Quiet /\ SolveStep \in Quiet
    /\ \A f \in (Files \ {"solve"}) \cup {"none"} : Return(f, "stop") \in Quiet /\ Return(f, "raise") \in Quiet
    /\ \A fs : "solve" \notin fs => Works(fs) \subseteq Quiet
    /\ Quiet \subseteq Lawful
  <1>1. Call \in Quiet /\ Answer \in Quiet /\ SolveStep \in Quiet
    BY CallKinds DEF Quiet, Touches, Call, Answer, SolveStep, Step
  <1>2. \A f \in (Files \ {"solve"}) \cup {"none"} : Return(f, "stop") \in Quiet /\ Return(f, "raise") \in Quiet
    BY CallKinds DEF Quiet, Touches, Return, Step
  <1>3. \A fs : "solve" \notin fs => Works(fs) \subseteq Quiet
    BY DEF Quiet, Touches, Works, Builds
  <1> QED BY <1>1, <1>2, <1>3 DEF Quiet

LEMMA ComposedFits ==
    ASSUME NEW adapter \in Adapters, NEW out \in {"http", "cli"}, NEW fromSource,
           NEW R \in SUBSET Kept(SolveFiles \cup {adapter, out})
    PROVE  Fit(Composed(adapter, out, fromSource), Quiet, R,
               R \cup SolveOwed \cup {Fine(adapter), Described(adapter), Fine(out), Described(out)})
  <1> DEFINE A == R \cup SolveOwed
             B == A \cup {Fine(adapter), Described(adapter)}
             C == B \cup {Fine(out), Described(out)}
             make == Adapter(adapter, fromSource)
             plug == Compose(adapter, out)
  <1>1. /\ adapter \in Products /\ adapter \in Files /\ out \in Products /\ out \in Files
        /\ "solve" \in Products /\ "solve" \in Files
        /\ adapter \notin Temps /\ out \notin Temps /\ "solve" \notin Temps
        /\ adapter # out /\ adapter # "solve" /\ out # "solve"
    BY AreThings DEF Adapters, Temps, Scratch, Outputs
  <1>2. R \subseteq Passing /\ A \subseteq Passing /\ B \subseteq Passing /\ C \subseteq Passing
    BY <1>1, Fleeting
  <1>3. /\ R \in SUBSET Things /\ A \in SUBSET Things /\ B \in SUBSET Things /\ C \in SUBSET Things
        /\ A \cap Lasting = {} /\ B \cap Lasting = {} /\ C \cap Lasting = {}
    BY <1>2, Fleeting
  <1>4. Fit(<<SolveStep>>, Quiet, R, A)
    <2>1. R \cap SolveTakes = {}
      <3>1. Kept(SolveFiles \cup {adapter, out}) \cap Lasting = {}
        BY Fleeting
      <3>2. \A f \in SolveFiles : Kept(SolveFiles \cup {adapter, out}) \cap Of(f) = {}
        BY Differ DEF Kept, Of
      <3>3. Kept(SolveFiles \cup {adapter, out}) \cap {Noted(f) : f \in Files} = {}
        BY Differ DEF Kept
      <3>4. SolveTakes = Lasting \cup {Noted(f) : f \in Files} \cup (UNION {Of(f) : f \in SolveFiles})
        BY DEF SolveTakes
      <3> DEFINE K == Kept(SolveFiles \cup {adapter, out})
                 U == UNION {Of(f) : f \in SolveFiles}
      <3>5. K \cap U = {}
        <4> HIDE DEF K
        <4> SUFFICES ASSUME NEW x \in K, NEW f \in SolveFiles, x \in Of(f) PROVE FALSE
          OBVIOUS
        <4> QED BY <3>2 DEF K
      <3> HIDE DEF U
      <3> QED BY <3>1, <3>3, <3>4, <3>5 DEF U
    <2>2. Over(SolveStep, R, A)
      BY <2>1, OverSolve
    <2> HIDE DEF A
    <2> QED BY <1>3, <2>2, QuietKinds, Fit1
  <1>5. Fit(make, Quiet, A, B)
    <2>1. A \in SUBSET Kept(Temps \cup {adapter})
      BY <1>1 DEF Kept, SolveOwed, SolveFiles
    <2>2. Fit(make, Works(Temps \cup {adapter}), {}, {Fine(adapter), Described(adapter)})
      BY AdapterFits
    <2>3. Fit(make, Works(Temps \cup {adapter}), {} \cup A, {Fine(adapter), Described(adapter)} \cup A)
      BY <2>1, <2>2, FitAside
    <2>4. {} \cup A \subseteq A /\ B \subseteq {Fine(adapter), Described(adapter)} \cup A
      OBVIOUS
    <2>5. Works(Temps \cup {adapter}) \subseteq Quiet
      BY <1>1, QuietKinds
    <2> HIDE DEF A, B, make
    <2> QED BY <2>3, <2>4, <2>5, FitWider
  <1>6. Fit(<<Return(adapter, "raise")>>, Quiet, B, B)
    <2>1. Over(Return(adapter, "raise"), B, B)
      BY <1>1, <1>3, OverReturn
    <2> HIDE DEF B
    <2> QED BY <1>1, <1>3, <2>1, QuietKinds, Fit1
  <1>7. Fit(<<Require({"solve", adapter})>>, Quiet, B, B)
    <2>1. Over(Require({"solve", adapter}), B, B)
      BY OverRequire DEF SolveOwed
    <2>2. Require({"solve", adapter}) \in Quiet
      BY <1>1, CallKinds, QuietKinds
    <2> HIDE DEF B
    <2> QED BY <1>3, <2>1, <2>2, Fit1
  <1>8. Fit(Nested(plug), Quiet, B, C)
    <2>1. B \in SUBSET Kept({out})
      BY <1>1 DEF Kept, SolveOwed, SolveFiles
    <2>2. Fit(plug, Works({out}), {Fine("solve"), Fine(adapter)}, {Fine(out), Described(out)})
      BY ComposeFits
    <2>3. Fit(plug, Works({out}), {Fine("solve"), Fine(adapter)} \cup B, {Fine(out), Described(out)} \cup B)
      BY <2>1, <2>2, FitAside
    <2>4. {Fine("solve"), Fine(adapter)} \cup B \subseteq B /\ C \subseteq {Fine(out), Described(out)} \cup B
      BY DEF SolveOwed
    <2>5. Works({out}) \cup {Call, Answer} \subseteq Quiet
      BY <1>1, QuietKinds
    <2> HIDE DEF B, C, plug
    <2>6. Fit(plug, Works({out}), B, C)
      BY <2>3, <2>4, FitWider
    <2> QED BY <1>3, <2>5, <2>6, NestedFits
  <1>9. Fit(<<Return(out, "stop")>>, Quiet, C, C)
    <2>1. Over(Return(out, "stop"), C, C)
      BY <1>1, <1>3, OverReturn
    <2> HIDE DEF C
    <2> QED BY <1>1, <1>3, <2>1, QuietKinds, Fit1
  <1>10. Composed(adapter, out, fromSource) =
           <<SolveStep>> \o make \o <<Return(adapter, "raise")>> \o <<Require({"solve", adapter})>>
           \o Nested(plug) \o <<Return(out, "stop")>>
    BY DEF Composed
  <1> HIDE DEF A, B, C, make, plug
  <1>11. Fit(<<SolveStep>> \o make, Quiet, R, B)
    BY <1>4, <1>5, FitConcat
  <1>12. Fit(<<SolveStep>> \o make \o <<Return(adapter, "raise")>>, Quiet, R, B)
    BY <1>6, <1>11, FitConcat
  <1>13. Fit(<<SolveStep>> \o make \o <<Return(adapter, "raise")>> \o <<Require({"solve", adapter})>>, Quiet, R, B)
    BY <1>7, <1>12, FitConcat
  <1>14. Fit(<<SolveStep>> \o make \o <<Return(adapter, "raise")>> \o <<Require({"solve", adapter})>>
             \o Nested(plug), Quiet, R, C)
    BY <1>8, <1>13, FitConcat
  <1>15. Fit(Composed(adapter, out, fromSource), Quiet, R, C)
    BY <1>9, <1>10, <1>14, FitConcat
  <1>16. C \subseteq R \cup SolveOwed \cup {Fine(adapter), Described(adapter), Fine(out), Described(out)}
         /\ R \cup SolveOwed \cup {Fine(adapter), Described(adapter), Fine(out), Described(out)} \subseteq C
    BY DEF A, B, C
  <1> QED BY <1>15, <1>16, FitWider

\* The dispatch is only in the pipelines of the commands that build components.
Dispatches(c) == c.emit \notin {"wasm", "compose"}
Plain(c) == {x \in Lawful : x.op = "emit" => Dispatches(c)}

LEMMA PlainKinds ==
    ASSUME NEW c
    PROVE  /\ Quiet \subseteq Plain(c) /\ Plain(c) \subseteq Lawful /\ SolveActs \subseteq Plain(c)
           /\ \A fs : Works(fs) \subseteq Plain(c)
           /\ Return("solve", "raise") \in Plain(c)
  <1>1. \A fs : Works(fs) \subseteq Plain(c)
    BY DEF Works, Builds, Plain
  <1>2. Call \in Plain(c) /\ Answer \in Plain(c) /\ Return("solve", "raise") \in Plain(c)
    BY CallKinds, AreThings DEF Plain, Call, Answer, Return, Step
  <1>3. Quiet \subseteq Plain(c) /\ Plain(c) \subseteq Lawful
    BY DEF Quiet, Plain, Touches
  <1> QED BY <1>1, <1>2, <1>3 DEF SolveActs

\* What a command owes is fine and described.
LEMMA OwedIs ==
    ASSUME NEW c, NEW P, Goals(c) = P
    PROVE  Owed(c) \subseteq {Fine(p) : p \in P} \cup {Described(p) : p \in P}
  BY DEF Owed

LEMMA EmitFits ==
    ASSUME NEW c \in Lines, Dispatches(c)
    PROVE  Fit(Emit(c), Quiet, {}, Owed(c))
  <1>1. c.emit \in Emits /\ c.emit # "wasm" /\ c.emit # "compose"
    BY DEF Lines, Dispatches
  <1>2. /\ {} \in SUBSET Things /\ SolveOwed \in SUBSET Things /\ SolveOwed \cap Lasting = {}
    BY Fleeting
  <1>3. Fit(<<SolveStep, Return("none", "stop")>>, Quiet, {}, SolveOwed)
    <2>1. Over(SolveStep, {}, SolveOwed)
      BY OverSolve
    <2>2. Over(Return("none", "stop"), SolveOwed, SolveOwed)
      BY <1>2, OverReturn
    <2> QED BY <1>2, <2>1, <2>2, QuietKinds, Fit2
  <1>4. ASSUME NEW kind \in {"http", "cli"}
        PROVE  Fit(FromC(kind) \o <<Return(kind, "stop")>>, Quiet, {}, {Fine(kind), Described(kind)})
    <2> DEFINE G == {Fine(kind), Described(kind)}
    <2>1. Fit(FromC(kind), Works(Temps \cup Objects \cup {kind}), {}, G)
      BY FromCFits DEF Kinds
    <2>2. Works(Temps \cup Objects \cup {kind}) \subseteq Quiet
      BY QuietKinds DEF Temps, Scratch, Outputs, Objects
    <2>3. kind \in Products /\ kind \in Files /\ kind # "solve"
      BY AreThings
    <2>4. G \in SUBSET Things /\ G \cap Lasting = {}
      BY <2>3, Fleeting
    <2>5. Over(Return(kind, "stop"), G, G)
      BY <2>3, <2>4, OverReturn
    <2> HIDE DEF G
    <2>6. Fit(<<Return(kind, "stop")>>, Quiet, G, G)
      BY <2>3, <2>4, <2>5, QuietKinds, Fit1
    <2>7. Fit(FromC(kind), Quiet, {}, G)
      BY <2>1, <2>2, FitWider
    <2>8. Fit(FromC(kind) \o <<Return(kind, "stop")>>, Quiet, {}, G)
      BY <2>6, <2>7, FitConcat
    <2> QED BY <2>8 DEF G
  <1>5. ASSUME NEW name \in Adapters
        PROVE  Fit(Adapter(name, c.fromSource) \o <<Return("none", "stop")>>, Quiet, {}, {Fine(name), Described(name)})
    <2> DEFINE G == {Fine(name), Described(name)}
    <2>1. Fit(Adapter(name, c.fromSource), Works(Temps \cup {name}), {}, G)
      BY AdapterFits
    <2>2. Works(Temps \cup {name}) \subseteq Quiet
      BY QuietKinds DEF Temps, Scratch, Outputs, Adapters
    <2>3. name \in Products /\ name \in Files
      BY AreThings
    <2>4. G \in SUBSET Things /\ G \cap Lasting = {}
      BY <2>3, Fleeting
    <2>5. Over(Return("none", "stop"), G, G)
      BY <2>4, OverReturn
    <2> HIDE DEF G
    <2>6. Fit(<<Return("none", "stop")>>, Quiet, G, G)
      BY <2>4, <2>5, QuietKinds, Fit1
    <2>7. Fit(Adapter(name, c.fromSource), Quiet, {}, G)
      <3> DEFINE a == Adapter(name, c.fromSource)
      <3> HIDE DEF a
      <3>1. Fit(a, Works(Temps \cup {name}), {}, G)
        BY <2>1 DEF a
      <3>2. Fit(a, Quiet, {}, G)
        BY <2>2, <3>1, FitWider
      <3> QED BY <3>2 DEF a
    <2>8. Fit(Adapter(name, c.fromSource) \o <<Return("none", "stop")>>, Quiet, {}, G)
      BY <2>6, <2>7, FitConcat
    <2> QED BY <2>8 DEF G
  <1>6. ASSUME NEW adapter \in Adapters, NEW out \in {"http", "cli"}
        PROVE  Fit(Composed(adapter, out, c.fromSource), Quiet, {},
                   SolveOwed \cup {Fine(adapter), Described(adapter), Fine(out), Described(out)})
    <2>1. {} \in SUBSET Kept(SolveFiles \cup {adapter, out})
      OBVIOUS
    <2>2. Fit(Composed(adapter, out, c.fromSource), Quiet, {},
              {} \cup SolveOwed \cup {Fine(adapter), Described(adapter), Fine(out), Described(out)})
      BY <2>1, ComposedFits, Zenon
    <2> QED BY <2>2, FitWider
  <1>7. CASE c.emit = "solve"
    <2>1. Emit(c) = <<SolveStep, Return("none", "stop")>> /\ Goals(c) = {"solve"}
      BY <1>7 DEF Emit, Goals, Adapters
    <2>2. Owed(c) \subseteq SolveOwed
      BY <2>1, OwedIs DEF SolveOwed
    <2> QED BY <1>3, <2>1, <2>2, FitWider
  <1>8. CASE c.emit = "http"
    <2>1. Emit(c) = Composed("http-adapter", "http", c.fromSource) /\ Goals(c) = {"solve", "http-adapter", "http"}
      BY <1>8 DEF Emit, Goals, Adapters
    <2> DEFINE G == SolveOwed \cup {Fine("http-adapter"), Described("http-adapter"), Fine("http"), Described("http")}
    <2>2. Owed(c) \subseteq G
      BY <2>1, OwedIs DEF SolveOwed
    <2>3. Fit(Composed("http-adapter", "http", c.fromSource), Quiet, {}, G)
      BY <1>6 DEF Adapters
    <2> QED BY <2>1, <2>2, <2>3, FitWider
  <1>9. CASE c.emit = "http-state-doc"
    <2>1. /\ Emit(c) = Composed("http-state-doc-adapter", "http", c.fromSource)
          /\ Goals(c) = {"solve", "http-state-doc-adapter", "http"}
      BY <1>9 DEF Emit, Goals, Adapters
    <2> DEFINE G == SolveOwed \cup {Fine("http-state-doc-adapter"), Described("http-state-doc-adapter"),
                                    Fine("http"), Described("http")}
    <2>2. Owed(c) \subseteq G
      BY <2>1, OwedIs DEF SolveOwed
    <2>3. Fit(Composed("http-state-doc-adapter", "http", c.fromSource), Quiet, {}, G)
      BY <1>6 DEF Adapters
    <2> QED BY <2>1, <2>2, <2>3, FitWider
  <1>10. CASE c.emit = "cli"
    <2>1. Emit(c) = Composed("cli-adapter", "cli", c.fromSource) /\ Goals(c) = {"solve", "cli-adapter", "cli"}
      BY <1>10 DEF Emit, Goals, Adapters
    <2> DEFINE G == SolveOwed \cup {Fine("cli-adapter"), Described("cli-adapter"), Fine("cli"), Described("cli")}
    <2>2. Owed(c) \subseteq G
      BY <2>1, OwedIs DEF SolveOwed
    <2>3. Fit(Composed("cli-adapter", "cli", c.fromSource), Quiet, {}, G)
      BY <1>6 DEF Adapters
    <2> QED BY <2>1, <2>2, <2>3, FitWider
  <1>11. CASE c.emit = "http-native"
    <2>1. Emit(c) = FromC("http") \o <<Return("http", "stop")>> /\ Goals(c) = {"http"}
      BY <1>11 DEF Emit, Goals, Adapters, HttpNative
    <2>2. Owed(c) \subseteq {Fine("http"), Described("http")}
      BY <2>1, OwedIs
    <2> QED BY <1>4, <2>1, <2>2, FitWider
  <1>12. CASE c.emit = "cli-native"
    <2>1. Emit(c) = FromC("cli") \o <<Return("cli", "stop")>> /\ Goals(c) = {"cli"}
      BY <1>12 DEF Emit, Goals, Adapters, CliNative
    <2>2. Owed(c) \subseteq {Fine("cli"), Described("cli")}
      BY <2>1, OwedIs
    <2> QED BY <1>4, <2>1, <2>2, FitWider
  <1>13. CASE c.emit \in Adapters
    <2>1. Emit(c) = Adapter(c.emit, c.fromSource) \o <<Return("none", "stop")>> /\ Goals(c) = {c.emit}
      BY <1>13 DEF Emit, Goals, Adapters
    <2>2. Owed(c) \subseteq {Fine(c.emit), Described(c.emit)}
      BY <2>1, OwedIs
    <2>3. Fit(Emit(c), Quiet, {}, {Fine(c.emit), Described(c.emit)})
      BY <1>5, <1>13, <2>1
    <2> QED BY <2>2, <2>3, FitWider
  <1>14. CASE c.emit = "all"
    <2> DEFINE A == {Fine("http-adapter"), Described("http-adapter"), Fine("http"), Described("http")}
               B == {Fine("cli-adapter"), Described("cli-adapter"), Fine("cli"), Described("cli")}
               one == Composed("http-adapter", "http", c.fromSource)
               two == Composed("cli-adapter", "cli", c.fromSource)
    <2>1. /\ Emit(c) = (<<SolveStep, Return("none", "stop")>> \o one) \o two
          /\ Goals(c) = {"solve", "http-adapter", "http", "cli-adapter", "cli"}
      BY <1>14 DEF Emit, Goals, Adapters
    <2>2. Owed(c) \subseteq A \cup SolveOwed \cup B
      BY <2>1, OwedIs DEF SolveOwed
    <2>3. Fit(one, Quiet, SolveOwed, A)
      <3>1. Fit(one, Quiet, {}, SolveOwed \cup A)
        BY <1>6 DEF Adapters
      <3> HIDE DEF A, one
      <3> QED BY <3>1, FitWider
    <2>4. Fit(two, Quiet, A, A \cup SolveOwed \cup B)
      <3>1. A \in SUBSET Kept(SolveFiles \cup {"cli-adapter", "cli"})
        BY DEF Kept, SolveFiles, Temps, Scratch, Outputs, Objects, Files, Products, Adapters
      <3> HIDE DEF A
      <3> QED BY <3>1, ComposedFits DEF Adapters
    <2> HIDE DEF A, B, one, two
    <2>5. Fit(<<SolveStep, Return("none", "stop")>> \o one, Quiet, {}, A)
      BY <1>3, <2>3, FitConcat
    <2>6. Fit(Emit(c), Quiet, {}, A \cup SolveOwed \cup B)
      BY <2>1, <2>4, <2>5, FitConcat
    <2> QED BY <2>2, <2>6, FitWider
  <1>15. \/ c.emit = "solve" \/ c.emit = "http" \/ c.emit = "http-state-doc" \/ c.emit = "cli"
         \/ c.emit = "http-native" \/ c.emit = "cli-native" \/ c.emit \in Adapters \/ c.emit = "all"
    BY <1>1 DEF Emits, Adapters
  <1> QED BY <1>7, <1>8, <1>9, <1>10, <1>11, <1>12, <1>13, <1>14, <1>15, Zenon

\* What a command may find: compose, on its own, has to look whether its
\* parts are there.
Found(c) == IF c.emit = "compose" THEN {Fine("solve"), Fine("http-adapter")} ELSE {}

LEMMA PipelineFits ==
    ASSUME NEW c \in Lines
    PROVE  Fit(Pipeline(c), Plain(c), Found(c), Owed(c))
  <1>1. c.manifest \in BOOLEAN /\ c.emit \in Emits
    BY DEF Lines
  <1>2. \A fs : Works(fs) \subseteq Plain(c)
    BY PlainKinds
  <1>3. CASE c.emit = "wasm"
    <2> DEFINE G == {Fine("wasm")} \cup (IF c.manifest /\ "wasm" = "wasm" THEN {Described("wasm")} ELSE {})
    <2>1. Pipeline(c) = WasmBuild(c.backend, "wasm", c.manifest) /\ Goals(c) = {"wasm"} /\ Found(c) = {}
      BY <1>3 DEF Pipeline, Goals, Found
    <2>2. Owed(c) \subseteq G
      BY <1>1, <2>1 DEF Owed
    <2>3. Fit(WasmBuild(c.backend, "wasm", c.manifest), Works(Temps \cup {"wasm"}), {}, G)
      BY <1>1, WasmBuildFits
    <2> HIDE DEF G
    <2> QED BY <1>2, <2>1, <2>2, <2>3, FitWider
  <1>4. CASE c.emit = "compose"
    <2> DEFINE G == {Fine("http"), Described("http")}
               plug == Compose("http-adapter", "http")
    <2>1. Pipeline(c) = plug \o <<Check("note")>> /\ Goals(c) = {"http"}
          /\ Found(c) = {Fine("solve"), Fine("http-adapter")}
      BY <1>4 DEF Pipeline, Goals, Found, ComposeCommand, Adapters
    <2>2. Owed(c) \subseteq G
      BY <2>1, OwedIs
    <2>3. Fit(plug, Works({"http"}), Found(c), G)
      BY <2>1, ComposeFits DEF Adapters
    <2>4. G \in SUBSET Things
      BY AreThings
    <2> HIDE DEF G, plug
    <2>5. Fit(<<Check("note")>>, Works({"http"}), G, G)
      BY <2>4, OverCheck, CallKinds, Fit1
    <2>6. Fit(plug \o <<Check("note")>>, Works({"http"}), Found(c), G)
      BY <2>3, <2>5, FitConcat
    <2> QED BY <1>2, <2>1, <2>2, <2>6, FitWider
  <1>5. CASE Dispatches(c)
    <2> DEFINE S == Plain(c)
               clean == IF c.clean THEN <<Step("clean", {}, "none", "note")>> ELSE <<>>
               emit == Step("emit", {}, "none", "stop")
    <2>1. Pipeline(c) = <<Check("note"), Check("stop")>> \o clean \o <<Check("note"), Gate, emit>> /\ Found(c) = {}
      BY <1>5 DEF Pipeline, Found, ComponentBuild, Dispatches
    <2>2. Check("note") \in S /\ Check("stop") \in S /\ Gate \in S
      BY <1>2, CallKinds
    <2>3. Step("clean", {}, "none", "note") \in S /\ emit \in S
      BY <1>5, CallKinds DEF Plain, Step
    <2>4. Over(Check("note"), {}, {}) /\ Over(Check("stop"), {}, {}) /\ Over(Gate, {}, {})
      BY OverCheck
    <2>5. Over(Step("clean", {}, "none", "note"), {}, {}) /\ Over(emit, {}, Owed(c))
      BY OverClean
    <2>6. Owed(c) \in SUBSET Things /\ {} \in SUBSET Things
      <3>1. Goals(c) \subseteq Products
        BY <1>1, AreThings DEF Goals, Adapters, Emits
      <3> QED BY <3>1, AreThings DEF Owed
    <2> HIDE DEF S, emit
    <2>7. Fit(<<Check("note"), Check("stop")>>, S, {}, {})
      BY <2>2, <2>4, <2>6, Fit2
    <2>8. Fit(clean, S, {}, {})
      <3>1. Fit(<<Step("clean", {}, "none", "note")>>, S, {}, {})
        BY <2>3, <2>5, <2>6, Fit1
      <3>2. Fit(<<>>, S, {}, {})
        BY <2>6, FitNothing
      <3> QED BY <3>1, <3>2
    <2>9. Fit(<<Check("note"), Gate, emit>>, S, {}, Owed(c))
      BY <2>2, <2>3, <2>4, <2>5, <2>6, Fit3
    <2> HIDE DEF clean
    <2>10. Fit(<<Check("note"), Check("stop")>> \o clean, S, {}, {})
      BY <2>7, <2>8, FitConcat
    <2>11. Fit(Pipeline(c), S, {}, Owed(c))
      BY <2>1, <2>9, <2>10, FitConcat
    <2> QED BY <2>1, <2>11 DEF S
  <1> QED BY <1>3, <1>4, <1>5 DEF Dispatches

-----------------------------------------------------------------------------
(* How calls and answers nest, and how often a solve component is built.    *)

Blocks == {"call", "solve", "emit"}

\* The answer of the command that runs comes before anything is called.
Awaits(s) ==
    \E j \in 1..Len(s) : s[j].op = "answer" /\ \A k \in 1..(j - 1) : s[k].op \notin Blocks

\* So does that of every call.
Closed(s) ==
    \A i \in 1..Len(s) :
       s[i].op = "call" =>
          \E j \in (i + 1)..Len(s) : s[j].op = "answer" /\ \A k \in (i + 1)..(j - 1) : s[k].op \notin Blocks
Shut(s) == s \in Seq(Lawful) /\ Closed(s)

\* What is built once stays.
Solves(x) == x.op = "solve" \/ (x.op = "return" /\ x.file = "solve")
Once(s)   == \A i, j \in 1..Len(s) : i < j /\ Solves(s[i]) => ~Touches(s[j])

LEMMA ShutConcat ==
    ASSUME NEW s, NEW t, Shut(s), Shut(t)
    PROVE  Shut(s \o t)
  <1> DEFINE n == Len(s)
             m == Len(t)
             c == s \o t
  <1>1. /\ n \in Nat /\ m \in Nat /\ Len(c) = n + m /\ c \in Seq(Lawful)
        /\ \A i \in 1..(n + m) : c[i] = IF i <= n THEN s[i] ELSE t[i - n]
    BY ConcatProperties DEF Shut
  <1>2. /\ \A i \in 1..n : s[i].op = "call" =>
                \E j \in (i + 1)..n : s[j].op = "answer" /\ \A k \in (i + 1)..(j - 1) : s[k].op \notin Blocks
        /\ \A i \in 1..m : t[i].op = "call" =>
                \E j \in (i + 1)..m : t[j].op = "answer" /\ \A k \in (i + 1)..(j - 1) : t[k].op \notin Blocks
    BY DEF Shut, Closed
  <1> HIDE DEF n, m, c
  <1>3. ASSUME NEW i \in 1..(n + m), c[i].op = "call"
        PROVE  \E j \in (i + 1)..(n + m) :
                  c[j].op = "answer" /\ \A k \in (i + 1)..(j - 1) : c[k].op \notin Blocks
    <2>1. CASE i <= n
      <3>1. i \in 1..n /\ s[i].op = "call"
        BY <1>1, <1>3, <2>1
      <3>2. PICK j \in (i + 1)..n : s[j].op = "answer" /\ \A k \in (i + 1)..(j - 1) : s[k].op \notin Blocks
        BY <1>2, <3>1
      <3>3. j \in (i + 1)..(n + m) /\ c[j] = s[j]
        BY <1>1, <3>1, <3>2
      <3>4. \A k \in (i + 1)..(j - 1) : c[k] = s[k]
        BY <1>1, <3>1, <3>2
      <3> QED BY <3>2, <3>3, <3>4
    <2>2. CASE ~(i <= n)
      <3>1. i - n \in 1..m /\ t[i - n].op = "call"
        BY <1>1, <1>3, <2>2
      <3>2. PICK j \in ((i - n) + 1)..m :
               t[j].op = "answer" /\ \A k \in ((i - n) + 1)..(j - 1) : t[k].op \notin Blocks
        BY <1>2, <3>1
      <3>3. j + n \in (i + 1)..(n + m) /\ c[j + n] = t[j]
        BY <1>1, <2>2, <3>1, <3>2
      <3>4. \A k \in (i + 1)..((j + n) - 1) : c[k] = t[k - n] /\ k - n \in ((i - n) + 1)..(j - 1)
        BY <1>1, <2>2, <3>1, <3>2
      <3> QED BY <3>2, <3>3, <3>4
    <2> QED BY <2>1, <2>2
  <1>4. Closed(c)
    BY <1>1, <1>3 DEF Closed
  <1> QED BY <1>1, <1>4 DEF Shut, c

LEMMA ShutPlain ==
    ASSUME NEW s \in Seq({x \in Lawful : x.op # "call"})
    PROVE  Shut(s)
  <1>1. \A i \in 1..Len(s) : s[i].op # "call"
    OBVIOUS
  <1>2. s \in Seq(Lawful)
    OBVIOUS
  <1> QED BY <1>1, <1>2 DEF Shut, Closed

LEMMA ShutWorks ==
    ASSUME NEW fs, NEW s \in Seq(Works(fs))
    PROVE  Shut(s) /\ Shut(Nested(s))
  <1>1. Works(fs) \subseteq {x \in Lawful : x.op # "call"} /\ \A x \in Works(fs) : x.op \notin Blocks
    BY DEF Works, Builds, Blocks
  <1>2. Shut(s)
    <2>1. s \in Seq({x \in Lawful : x.op # "call"})
      BY <1>1
    <2> QED BY <2>1, ShutPlain
  <1> DEFINE n == Len(s)
             c == <<Call>> \o s
             d == c \o <<Answer>>
  <1>3. n \in Nat /\ s \in Seq(Lawful) /\ <<Call>> \in Seq(Lawful) /\ <<Answer>> \in Seq(Lawful)
        /\ Len(<<Call>>) = 1 /\ Len(<<Answer>>) = 1
    BY <1>2, CallKinds DEF Shut
  <1>4. /\ c \in Seq(Lawful) /\ Len(c) = 1 + n
        /\ \A i \in 1..(1 + n) : c[i] = IF i <= 1 THEN <<Call>>[i] ELSE s[i - 1]
    BY <1>3, ConcatProperties
  <1>5. /\ d \in Seq(Lawful) /\ Len(d) = (1 + n) + 1
        /\ \A i \in 1..((1 + n) + 1) : d[i] = IF i <= 1 + n THEN c[i] ELSE <<Answer>>[i - (1 + n)]
    <2> HIDE DEF c
    <2> QED BY <1>3, <1>4, ConcatProperties
  <1>6. d = Nested(s)
    BY DEF Nested
  <1>7. \A i \in 2..(1 + n) : i \in 1..(1 + n) /\ i \in 1..((1 + n) + 1) /\ i <= 1 + n /\ i - 1 \in 1..n /\ ~(i <= 1)
    BY <1>3
  <1>8. \A i \in 2..(1 + n) : d[i] = s[i - 1] /\ s[i - 1] \in Works(fs)
    <2> HIDE DEF c, d
    <2> QED BY <1>4, <1>5, <1>7
  <1>9. d[(1 + n) + 1].op = "answer"
    <2>1. /\ (1 + n) + 1 \in 1..((1 + n) + 1) /\ ~((1 + n) + 1 <= 1 + n) /\ ((1 + n) + 1) - (1 + n) = 1
      BY <1>3
    <2>2. <<Answer>>[1].op = "answer"
      BY DEF Answer, Step
    <2> HIDE DEF c, d
    <2> QED BY <1>5, <2>1, <2>2
  <1> HIDE DEF c, d, n
  <1>10. ASSUME NEW i \in 1..Len(d), d[i].op = "call"
         PROVE  \E j \in (i + 1)..Len(d) : d[j].op = "answer" /\ \A k \in (i + 1)..(j - 1) : d[k].op \notin Blocks
    <2>1. i = 1
      <3>1. i \notin 2..(1 + n)
        BY <1>1, <1>8, <1>10
      <3>2. i # (1 + n) + 1
        BY <1>9, <1>10
      <3> QED BY <1>3, <1>5, <3>1, <3>2
    <2>2. (1 + n) + 1 \in (i + 1)..Len(d)
      BY <1>3, <1>5, <2>1
    <2>3. \A k \in (i + 1)..(((1 + n) + 1) - 1) : k \in 2..(1 + n)
      BY <1>3, <2>1
    <2>4. \A k \in (i + 1)..(((1 + n) + 1) - 1) : d[k].op \notin Blocks
      BY <1>1, <1>8, <2>3
    <2> QED BY <1>9, <2>2, <2>4
  <1>11. Shut(d)
    BY <1>5, <1>10 DEF Shut, Closed
  <1> QED BY <1>2, <1>6, <1>11

LEMMA ClosedSuffix ==
    ASSUME NEW s, NEW t, NEW k, Len(s) \in Nat, Suffix(t, s, k)
    PROVE  (Closed(s) => Closed(t)) /\ (Once(s) => Once(t))
  <1>1. /\ k \in Nat /\ Len(t) = Len(s) - k /\ Len(t) \in Nat
        /\ \A i \in 1..Len(t) : t[i] = s[i + k] /\ i + k \in 1..Len(s)
    BY DEF Suffix
  <1>2. ASSUME Closed(s), NEW i \in 1..Len(t), t[i].op = "call"
        PROVE  \E j \in (i + 1)..Len(t) : t[j].op = "answer" /\ \A l \in (i + 1)..(j - 1) : t[l].op \notin Blocks
    <2>1. s[i + k].op = "call" /\ i + k \in 1..Len(s)
      BY <1>1, <1>2
    <2>2. PICK j \in ((i + k) + 1)..Len(s) :
             s[j].op = "answer" /\ \A l \in ((i + k) + 1)..(j - 1) : s[l].op \notin Blocks
      BY <1>2, <2>1 DEF Closed
    <2>3. j - k \in (i + 1)..Len(t) /\ (j - k) + k = j /\ j - k \in 1..Len(t)
      BY <1>1, <2>2
    <2>4. t[j - k].op = "answer"
      BY <1>1, <2>2, <2>3
    <2>5. ASSUME NEW l \in (i + 1)..((j - k) - 1) PROVE t[l].op \notin Blocks
      <3>1. l \in 1..Len(t) /\ l + k \in ((i + k) + 1)..(j - 1)
        BY <1>1, <2>3
      <3> QED BY <1>1, <2>2, <3>1
    <2> QED BY <2>3, <2>4, <2>5
  <1>3. ASSUME Once(s), NEW i \in 1..Len(t), NEW j \in 1..Len(t), i < j, Solves(t[i])
        PROVE  ~Touches(t[j])
    <2>1. i + k \in 1..Len(s) /\ j + k \in 1..Len(s) /\ i + k < j + k /\ t[i] = s[i + k] /\ t[j] = s[j + k]
      BY <1>1, <1>3
    <2> QED BY <1>3, <2>1 DEF Once
  <1> QED BY <1>2, <1>3 DEF Closed, Once

\* What the first step tells of the others.
LEMMA HeadFacts ==
    ASSUME NEW s, NEW t, Len(s) \in Nat \ {0}, Suffix(t, s, 1)
    PROVE  /\ Closed(s) /\ s[1].op = "call" => Awaits(t)
           /\ Awaits(s) /\ s[1].op # "answer" => Awaits(t) /\ s[1].op \notin Blocks
           /\ Once(s) /\ Solves(s[1]) => \A i \in 1..Len(t) : ~Touches(t[i])
  <1>1. /\ Len(t) = Len(s) - 1 /\ Len(t) \in Nat
        /\ \A i \in 1..Len(t) : t[i] = s[i + 1] /\ i + 1 \in 1..Len(s)
    BY DEF Suffix
  <1>2. ASSUME Closed(s), s[1].op = "call" PROVE Awaits(t)
    <2>1. 1 \in 1..Len(s)
      OBVIOUS
    <2>2. PICK j \in (1 + 1)..Len(s) : s[j].op = "answer" /\ \A l \in (1 + 1)..(j - 1) : s[l].op \notin Blocks
      BY <1>2, <2>1 DEF Closed
    <2>3. j - 1 \in 1..Len(t) /\ (j - 1) + 1 = j
      BY <1>1, <2>2
    <2>4. ASSUME NEW l \in 1..((j - 1) - 1) PROVE t[l].op \notin Blocks
      <3>1. l \in 1..Len(t) /\ l + 1 \in (1 + 1)..(j - 1)
        BY <1>1, <2>2
      <3> QED BY <1>1, <2>2, <3>1
    <2> QED BY <1>1, <2>2, <2>3, <2>4 DEF Awaits
  <1>3. ASSUME Awaits(s), s[1].op # "answer" PROVE Awaits(t) /\ s[1].op \notin Blocks
    <2>1. PICK j \in 1..Len(s) : s[j].op = "answer" /\ \A l \in 1..(j - 1) : s[l].op \notin Blocks
      BY <1>3 DEF Awaits
    <2>2. j - 1 \in 1..Len(t) /\ (j - 1) + 1 = j /\ 1 \in 1..(j - 1)
      BY <1>1, <1>3, <2>1
    <2>3. ASSUME NEW l \in 1..((j - 1) - 1) PROVE t[l].op \notin Blocks
      <3>1. l \in 1..Len(t) /\ l + 1 \in 1..(j - 1)
        BY <1>1, <2>1, <2>2
      <3> QED BY <1>1, <2>1, <3>1
    <2> QED BY <1>1, <2>1, <2>2, <2>3 DEF Awaits
  <1>4. ASSUME Once(s), Solves(s[1]), NEW i \in 1..Len(t) PROVE ~Touches(t[i])
    <2>1. 1 \in 1..Len(s) /\ i + 1 \in 1..Len(s) /\ 1 < i + 1
      BY <1>1
    <2> QED BY <1>1, <1>4, <2>1 DEF Once
  <1> QED BY <1>2, <1>3, <1>4

\* A jump to an answer that is awaited.
LEMMA AwaitsLanding ==
    ASSUME NEW s, NEW t, Len(s) \in Nat, NEW k, Suffix(t, s, k), Awaits(s),
           \A i \in 1..k : s[i].op # "answer", k < Len(s) => s[k + 1].op = "answer"
    PROVE  Awaits(t)
  <1>1. PICK j \in 1..Len(s) : s[j].op = "answer"
    BY DEF Awaits
  <1>2. k \in 0..Len(s) /\ Len(t) = Len(s) - k /\ \A i \in 1..Len(t) : t[i] = s[i + k]
    BY DEF Suffix
  <1>3. k < Len(s)
    BY <1>1, <1>2
  <1>4. 1 \in 1..Len(t) /\ t[1] = s[k + 1]
    <2>1. 1 \in 1..Len(t) /\ 1 + k = k + 1
      BY <1>2, <1>3
    <2> QED BY <1>2, <2>1
  <1>5. \A l \in 1..(1 - 1) : FALSE
    OBVIOUS
  <1> QED BY <1>3, <1>4, <1>5 DEF Awaits

LEMMA OncePlain ==
    ASSUME NEW s \in Seq(Lawful), \/ \A i \in 1..Len(s) : ~Solves(s[i])
                                  \/ \A i \in 1..Len(s) : ~Touches(s[i])
    PROVE  Once(s)
  BY DEF Once

LEMMA OnceSolve ==
    ASSUME NEW backend, NEW t \in Seq(Lawful), \A i \in 1..Len(t) : ~Touches(t[i])
    PROVE  Once(Solve(backend) \o t)
  <1> DEFINE body == SolveBody(backend)
             last == Return("solve", "raise")
             n == Len(body)
             s == body \o <<last>>
             c == s \o t
  <1>1. /\ Solve(backend) = s /\ body \in Seq(SolveActs) /\ n \in Nat
        /\ <<last>> \in Seq(Lawful) /\ Len(<<last>>) = 1 /\ body \in Seq(Lawful)
    <2>1. Solve(backend) = s /\ body \in Seq(SolveActs)
      BY SolveFits DEF Fit
    <2>2. SolveActs \subseteq Lawful /\ last \in Lawful
      BY CallKinds, AreThings DEF SolveActs
    <2> HIDE DEF body, last
    <2> QED BY <2>1, <2>2
  <1> HIDE DEF body
  <1>2. s \in Seq(Lawful) /\ Len(s) = n + 1 /\ \A i \in 1..(n + 1) : s[i] = IF i <= n THEN body[i] ELSE <<last>>[i - n]
    BY <1>1, ConcatProperties
  <1> HIDE DEF s
  <1>3. Len(c) = (n + 1) + Len(t) /\ \A i \in 1..((n + 1) + Len(t)) : c[i] = IF i <= n + 1 THEN s[i] ELSE t[i - (n + 1)]
    <2> HIDE DEF n
    <2>1. Len(c) = Len(s) + Len(t) /\ \A i \in 1..(Len(s) + Len(t)) : c[i] = IF i <= Len(s) THEN s[i] ELSE t[i - Len(s)]
      BY <1>2, ConcatProperties
    <2> HIDE DEF c
    <2> QED BY <1>2, <2>1
  <1>4. \A x \in SolveActs : ~Solves(x)
    BY DEF SolveActs, Works, Builds, Solves, Call, Answer, Step
  <1>5. \A i \in 1..n : ~Solves(body[i])
    BY <1>1, <1>4
  <1> HIDE DEF c, last, n
  <1>6. ASSUME NEW i \in 1..Len(c), NEW j \in 1..Len(c), i < j, Solves(c[i]) PROVE ~Touches(c[j])
    <2>1. CASE j <= n + 1
      <3>1. i \in 1..n /\ i <= n /\ i <= n + 1 /\ i \in 1..(n + 1) /\ i \in 1..((n + 1) + Len(t))
        BY <1>1, <1>3, <1>6, <2>1
      <3>2. c[i] = body[i]
        BY <1>2, <1>3, <3>1
      <3> QED BY <1>5, <1>6, <3>1, <3>2
    <2>2. CASE ~(j <= n + 1)
      <3>1. j \in 1..((n + 1) + Len(t)) /\ j - (n + 1) \in 1..Len(t)
        BY <1>1, <1>3, <2>2
      <3> QED BY <1>3, <2>2, <3>1
    <2> QED BY <2>1, <2>2
  <1>7. Once(c)
    BY <1>6 DEF Once
  <1> QED BY <1>1, <1>7 DEF c

LEMMA ShutSolve ==
    ASSUME NEW backend
    PROVE  Shut(Solve(backend))
  <1>1. Shut(FromC("solve"))
    BY FromCFits, ShutWorks DEF Kinds, Fit
  <1>2. Shut(SolveNative)
    <2> DEFINE W == WasmBuild("native", "raw", TRUE)
               core_ == <<Make({"raw", "profile"}, "core", "raise"), Digest("core", "raise")>>
    <2>1. Shut(Nested(W))
      BY WasmBuildFits, ShutWorks DEF Fit
    <2>2. Shut(<<Check("stop")>>)
      <3>1. Check("stop") \in Works({})
        BY CallKinds
      <3>2. <<Check("stop")>> \in Seq(Works({}))
        BY <3>1
      <3> QED BY <3>2, ShutWorks
    <2>3. Shut(core_)
      <3>1. "core" \in Files /\ "raw" \in Files
        BY AreThings
      <3>2. Make({"raw", "profile"}, "core", "raise") \in Works({"core"}) /\ Digest("core", "raise") \in Works({"core"})
        BY <3>1, StepKinds, Mentions
      <3>3. core_ \in Seq(Works({"core"}))
        BY <3>2
      <3> HIDE DEF core_
      <3> QED BY <3>3, ShutWorks
    <2>4. Shut(Componentize("solve")) /\ Shut(Describe("solve"))
      <3>1. Componentize("solve") \in Seq(Works({"solve"})) /\ Describe("solve") \in Seq(Works({"solve"}))
        BY DescribeFits DEF Kinds, Fit
      <3> QED BY <3>1, ShutWorks
    <2>5. SolveNative = <<Check("stop")>> \o Nested(W) \o core_ \o Componentize("solve") \o Describe("solve")
      BY DEF SolveNative
    <2> HIDE DEF W, core_
    <2> QED BY <2>1, <2>2, <2>3, <2>4, <2>5, ShutConcat
  <1>3. Shut(<<Return("solve", "raise")>>)
    <2>1. Return("solve", "raise") \in {x \in Lawful : x.op # "call"}
      BY CallKinds, AreThings DEF Return, Step
    <2>2. <<Return("solve", "raise")>> \in Seq({x \in Lawful : x.op # "call"})
      BY <2>1
    <2> QED BY <2>2, ShutPlain
  <1>4. Shut(SolveBody(backend))
    BY <1>1, <1>2 DEF SolveBody
  <1> QED BY <1>3, <1>4, SolveFits, ShutConcat

LEMMA ShutEmit ==
    ASSUME NEW c \in Lines, Dispatches(c)
    PROVE  Shut(Emit(c))
  <1> DEFINE N == {x \in Lawful : x.op # "call"}
  <1>1. c.emit \in Emits /\ c.emit # "wasm" /\ c.emit # "compose"
    BY DEF Lines, Dispatches
  <1>2. SolveStep \in N /\ \A f \in Files \cup {"none"} : Return(f, "stop") \in N /\ Return(f, "raise") \in N
    BY CallKinds DEF Return, SolveStep, Step
  <1>3. /\ Shut(<<SolveStep>>) /\ Shut(<<SolveStep, Return("none", "stop")>>)
        /\ \A f \in Files \cup {"none"} : Shut(<<Return(f, "stop")>>) /\ Shut(<<Return(f, "raise")>>)
    <2>1. <<SolveStep>> \in Seq(N) /\ <<SolveStep, Return("none", "stop")>> \in Seq(N)
      BY <1>2
    <2>2. \A f \in Files \cup {"none"} : <<Return(f, "stop")>> \in Seq(N) /\ <<Return(f, "raise")>> \in Seq(N)
      BY <1>2
    <2> QED BY <2>1, <2>2, ShutPlain
  <1> HIDE DEF N
  <1>4. /\ "http" \in Files /\ "cli" \in Files /\ Adapters \subseteq Files /\ "solve" \in Files
    BY AreThings
  <1>5. \A kind \in {"http", "cli"} : Shut(FromC(kind) \o <<Return(kind, "stop")>>)
    <2>1. \A kind \in {"http", "cli"} : Shut(FromC(kind))
      BY FromCFits, ShutWorks DEF Kinds, Fit
    <2> QED BY <1>3, <1>4, <2>1, ShutConcat
  <1>6. \A name \in Adapters : Shut(Adapter(name, c.fromSource))
    BY AdapterFits, ShutWorks DEF Fit
  <1>7. ASSUME NEW adapter \in Adapters, NEW out \in {"http", "cli"} PROVE Shut(Composed(adapter, out, c.fromSource))
    <2>1. Shut(Nested(Compose(adapter, out)))
      BY ComposeFits, ShutWorks DEF Fit
    <2>2. Shut(<<Require({"solve", adapter})>>)
      <3>1. Require({"solve", adapter}) \in Works({})
        BY <1>4, CallKinds
      <3>2. <<Require({"solve", adapter})>> \in Seq(Works({}))
        BY <3>1
      <3> QED BY <3>2, ShutWorks
    <2>3. Shut(<<Return(adapter, "raise")>>) /\ Shut(<<Return(out, "stop")>>)
      BY <1>3, <1>4
    <2>4. Shut(<<SolveStep>> \o Adapter(adapter, c.fromSource))
      BY <1>3, <1>6, ShutConcat
    <2>5. Shut(<<SolveStep>> \o Adapter(adapter, c.fromSource) \o <<Return(adapter, "raise")>>)
      BY <2>3, <2>4, ShutConcat
    <2>6. Shut(<<SolveStep>> \o Adapter(adapter, c.fromSource) \o <<Return(adapter, "raise")>>
               \o <<Require({"solve", adapter})>>)
      BY <2>2, <2>5, ShutConcat
    <2>7. Shut(<<SolveStep>> \o Adapter(adapter, c.fromSource) \o <<Return(adapter, "raise")>>
               \o <<Require({"solve", adapter})>> \o Nested(Compose(adapter, out)))
      BY <2>1, <2>6, ShutConcat
    <2> QED BY <2>3, <2>7, ShutConcat DEF Composed
  <1>8. CASE c.emit = "solve"
    BY <1>3, <1>8 DEF Emit, Adapters
  <1>9. CASE c.emit \in {"http", "http-state-doc", "cli"}
    BY <1>7, <1>9 DEF Emit, Adapters
  <1>10. CASE c.emit \in {"http-native", "cli-native"}
    BY <1>5, <1>10 DEF Emit, Adapters, HttpNative, CliNative
  <1>11. CASE c.emit \in Adapters
    <2>1. Emit(c) = Adapter(c.emit, c.fromSource) \o <<Return("none", "stop")>>
      BY <1>11 DEF Emit, Adapters
    <2> QED BY <1>3, <1>6, <1>11, <2>1, ShutConcat
  <1>12. CASE c.emit = "all"
    <2>1. Emit(c) = <<SolveStep, Return("none", "stop")>> \o Composed("http-adapter", "http", c.fromSource)
                    \o Composed("cli-adapter", "cli", c.fromSource)
      BY <1>12 DEF Emit, Adapters
    <2>2. Shut(Composed("http-adapter", "http", c.fromSource)) /\ Shut(Composed("cli-adapter", "cli", c.fromSource))
      BY <1>7 DEF Adapters
    <2> QED BY <1>3, <2>1, <2>2, ShutConcat
  <1>13. \/ c.emit = "solve" \/ c.emit \in {"http", "http-state-doc", "cli"}
         \/ c.emit \in {"http-native", "cli-native"} \/ c.emit \in Adapters \/ c.emit = "all"
    BY <1>1 DEF Emits, Adapters
  <1> QED BY <1>8, <1>9, <1>10, <1>11, <1>12, <1>13

\* No pipeline calls a command, none returns a solve component: the dispatch
\* does that.
LEMMA PipelineFacts ==
    ASSUME NEW c \in Lines
    PROVE  Shut(Pipeline(c)) /\ Once(Pipeline(c))
  <1> DEFINE N == {x \in Lawful : x.op # "call" /\ ~Solves(x)}
  <1>1. c.manifest \in BOOLEAN /\ c.emit \in Emits
    BY DEF Lines
  <1>2. \A fs : Works(fs) \subseteq N
    BY DEF Works, Builds, Solves
  <1>3. Pipeline(c) \in Seq(N)
    <2>1. CASE c.emit = "wasm"
      <3>1. WasmBuild(c.backend, "wasm", c.manifest) \in Seq(Works(Temps \cup {"wasm"}))
        BY <1>1, WasmBuildFits DEF Fit
      <3> HIDE DEF N
      <3>2. WasmBuild(c.backend, "wasm", c.manifest) \in Seq(N)
        BY <1>2, <3>1
      <3> QED BY <2>1, <3>2 DEF Pipeline
    <2>2. CASE c.emit = "compose"
      <3>1. Compose("http-adapter", "http") \in Seq(Works({"http"})) /\ Check("note") \in Works({"http"})
        BY ComposeFits, CallKinds DEF Fit, Adapters
      <3> HIDE DEF N
      <3>2. Compose("http-adapter", "http") \in Seq(N) /\ <<Check("note")>> \in Seq(N)
        BY <1>2, <3>1
      <3>3. Compose("http-adapter", "http") \o <<Check("note")>> \in Seq(N)
        BY <3>2, ConcatProperties
      <3> QED BY <2>2, <3>3 DEF Pipeline, ComposeCommand
    <2>3. CASE c.emit \notin {"wasm", "compose"}
      <3>1. Check("note") \in N /\ Check("stop") \in N /\ Gate \in N
        BY <1>2, CallKinds
      <3>2. Step("clean", {}, "none", "note") \in N /\ Step("emit", {}, "none", "stop") \in N
        BY CallKinds DEF Solves, Step
      <3> HIDE DEF N
      <3>3. /\ <<Check("note"), Check("stop")>> \in Seq(N)
            /\ (IF c.clean THEN <<Step("clean", {}, "none", "note")>> ELSE <<>>) \in Seq(N)
            /\ <<Check("note"), Gate, Step("emit", {}, "none", "stop")>> \in Seq(N)
        BY <3>1, <3>2
      <3>4. <<Check("note"), Check("stop")>> \o (IF c.clean THEN <<Step("clean", {}, "none", "note")>> ELSE <<>>) \in Seq(N)
        BY <3>3, ConcatProperties
      <3>5. ComponentBuild(c) \in Seq(N)
        BY <3>3, <3>4, ConcatProperties DEF ComponentBuild
      <3> QED BY <2>3, <3>5 DEF Pipeline
    <2> QED BY <2>1, <2>2, <2>3
  <1>4. Pipeline(c) \in Seq({x \in Lawful : x.op # "call"}) /\ Pipeline(c) \in Seq(Lawful)
    BY <1>3
  <1>5. \A i \in 1..Len(Pipeline(c)) : ~Solves(Pipeline(c)[i])
    BY <1>3
  <1> QED BY <1>4, <1>5, ShutPlain, OncePlain

-----------------------------------------------------------------------------
(* The inductive invariant.                                                *)

\* No step has failed in the build or in the command nested in it.
Good == diags = {} /\ inner = {}

\* The parts that compose finds are not its own.
Foreign(f) == cmd.emit = "compose" /\ f \in {"solve", "http-adapter"}
LeftNow(f) == files[f].claimed \/ Fresh(files[f])
FineNow(f) == Foreign(f) \/ (There(files[f]) /\ LeftNow(f))
Sure(c)    == c.whole \/ c.claimed

Holds(r) ==
    /\ \A f \in Files : r = Fine(f) => FineNow(f)
    /\ \A f \in Files : r = Left(f) => LeftNow(f)
    /\ \A p \in Products : r = Described(p) => manifests[p] = [of |-> files[p], whole |-> TRUE]
    /\ \A f \in Files : r = Noted(f) => noted = files[f]
    /\ \A f \in Files : r = Whole(f) => Sure(files[f])
    /\ r = Sound => noted = Absent \/ Sure(noted)

\* What the steps that are left may rely on: all that holds and, once
\* something has failed, whatever can no longer lead to success.
Have == {r \in Things : Good \/ r \in Lasting => Holds(r)}

Supply    == /\ todo \in Seq(Plain(cmd)) /\ Closed(todo) /\ Once(todo)
             /\ Supplied(todo, Have, Owed(cmd))
Nesting   == IF nested THEN Awaits(todo) ELSE inner = {}
SolveKept == solved => SolveOwed \subseteq Have /\ \A i \in 1..Len(todo) : ~Touches(todo[i])
Honest    == /\ failed => ~Good
             /\ ~failed /\ cmd.emit # "compose" => Good

Steady == running => runs > 0 /\ exit = 9 /\ Supply /\ Nesting /\ SolveKept /\ Honest

\* All that was asked for is there.
Delivered ==
    \A p \in Goals(cmd) :
       FineNow(p) /\ (cmd.manifest => manifests[p] = [of |-> files[p], whole |-> TRUE])

Ended ==
    ~running =>
       /\ todo = <<>>
       /\ exit # 9 =>
             /\ runs > 0
             /\ exit = 0 => Delivered
             /\ failed => exit # 0
             /\ ~failed /\ cmd.emit # "compose" => exit = 0

IInv == TypeOK /\ Steady /\ Ended /\ ManifestOfWhole

LEMMA ExitFacts ==
    ASSUME NEW ds \in SUBSET {Failed, Internal}
    PROVE  /\ ExitCodeOf(ds) \in {0, 1, 2} /\ (ExitCodeOf(ds) = 0 <=> ds = {})
           /\ HasError(ds) => ds # {}
           /\ Failed # Internal
  <1>1. \A d \in ds : d.severity = "error" /\ d.stage = "run" /\ d.family \in {"general", "tool"}
    BY DEF Failed, Internal, Error, Diag
  <1>2. Errors(ds) = ds
    BY <1>1 DEF Errors
  <1>3. Failed # Internal
    BY DEF Failed, Internal, Error, Diag
  <1> QED BY <1>1, <1>2, <1>3 DEF ExitCodeOf, IsToolFailure, IsInvalidInput, IsBudgetExceeded, HasError

LEMMA HoldsIs ==
    /\ \A f \in Files : Holds(Fine(f)) <=> FineNow(f)
    /\ \A p \in Products : Holds(Described(p)) <=> manifests[p] = [of |-> files[p], whole |-> TRUE]
    /\ \A f \in Files : Holds(Noted(f)) <=> noted = files[f]
    /\ \A f \in Files : Holds(Left(f)) <=> LeftNow(f)
    /\ \A f \in Files : Holds(Whole(f)) <=> Sure(files[f])
    /\ Holds(Sound) <=> noted = Absent \/ Sure(noted)
  <1>1. \A f \in Files : Holds(Fine(f)) <=> FineNow(f)
    BY Differ DEF Holds
  <1>2. \A p \in Products : Holds(Described(p)) <=> manifests[p] = [of |-> files[p], whole |-> TRUE]
    BY Differ DEF Holds
  <1>3. \A f \in Files : Holds(Noted(f)) <=> noted = files[f]
    BY Differ DEF Holds
  <1>4. \A f \in Files : Holds(Whole(f)) <=> Sure(files[f])
    BY Differ DEF Holds
  <1>5. Holds(Sound) <=> noted = Absent \/ Sure(noted)
    BY Differ DEF Holds
  <1>6. \A f \in Files : Holds(Left(f)) <=> LeftNow(f)
    BY Differ DEF Holds
  <1> QED BY <1>1, <1>2, <1>3, <1>4, <1>5, <1>6

LEMMA CmdIs ==
    ASSUME TypeOK, runs > 0
    PROVE  cmd \in Lines /\ Owed(cmd) \subseteq Passing
  <1>1. history \in Seq(Lines) /\ runs \in 1..Len(history)
    BY ConstantsAssumption DEF TypeOK
  <1>2. cmd \in Lines
    BY <1>1 DEF cmd
  <1>3. cmd.emit \in Emits
    BY <1>2 DEF Lines
  <1>4. Goals(cmd) \subseteq Products
    <2> DEFINE c == cmd
    <2> HIDE DEF c
    <2>1. c.emit \in Emits => Goals(c) \subseteq Products
      BY AreThings DEF Goals, Adapters, Emits
    <2> QED BY <1>3, <2>1 DEF c
  <1> QED BY <1>2, <1>4, Fleeting, AreThings DEF Owed

\* What no action has touched still holds.
LEMMA Keeping ==
    ASSUME NEW T, UNCHANGED <<history, runs, loaded>>, Good' => Good,
           \A f \in Files : files'[f] = files[f] \/ Of(f) \subseteq T,
           \A p \in Products : manifests'[p] = manifests[p] \/ Described(p) \in T,
           noted' = noted \/ (Sound \in T /\ \A f \in Files : Noted(f) \in T)
    PROVE  Have \ T \subseteq Have'
  <1> SUFFICES ASSUME NEW r \in Things, r \in Have, r \notin T, Good' \/ r \in Lasting
               PROVE  Holds(r)'
    BY DEF Have
  <1>1. Holds(r)
    BY DEF Have
  <1>2. cmd' = cmd
    BY DEF cmd
  <1>3. ASSUME NEW f \in Files, r \in Of(f) PROVE files'[f] = files[f]
    BY <1>3
  <1>4. \A f \in Files : r = Fine(f) => FineNow(f)'
    BY <1>1, <1>2, <1>3 DEF Holds, FineNow, LeftNow, Foreign, Fresh, Of
  <1>4a. \A f \in Files : r = Left(f) => LeftNow(f)'
    BY <1>1, <1>2, <1>3 DEF Holds, LeftNow, Fresh, Of
  <1>5. \A p \in Products : r = Described(p) => manifests'[p] = [of |-> files'[p], whole |-> TRUE]
    BY <1>1, <1>3, AreThings DEF Holds, Of
  <1>6. \A f \in Files : r = Noted(f) => noted' = files'[f]
    BY <1>1, <1>3 DEF Holds, Of
  <1>7. \A f \in Files : r = Whole(f) => Sure(files'[f])
    BY <1>1, <1>3 DEF Holds, Of
  <1>8. r = Sound => noted' = Absent \/ Sure(noted')
    BY <1>1 DEF Holds
  <1> QED BY <1>4, <1>4a, <1>5, <1>6, <1>7, <1>8 DEF Holds

\* When something has failed, only what lasts is at stake.
LEMMA AfterFailure ==
    ASSUME ~Good' PROVE Passing \subseteq Have'
  BY Fleeting DEF Have

\* Gives never lessens with what there is.
LEMMA GivesMore ==
    ASSUME NEW x, NEW H, NEW J, H \subseteq J
    PROVE  Gives(x, H) \subseteq Gives(x, J)
  BY DEF Gives

\* The step that is next, and what a way of going on leaves to show.
LEMMA StepFacts ==
    ASSUME TypeOK, Supply, todo # <<>>
    PROVE  /\ step \in Plain(cmd) /\ Needs(step) \subseteq Have
           /\ Suffix(Tail(todo), todo, 1) /\ Len(todo) \in Nat \ {0} /\ step = todo[1]
           /\ Tail(todo) \in Seq(Plain(cmd)) /\ Closed(Tail(todo)) /\ Once(Tail(todo))
           /\ \A X : /\ step.op # "emit"
                     /\ (Have \ Takes(step)) \cup Gives(step, Have) \subseteq X
                     => Supplied(Tail(todo), X, Owed(cmd))
           /\ step.op \in {"return", "answer"} => Supplied(Tail(todo), Have \cap Passing, Owed(cmd))
  <1>1. /\ todo \in Seq(Plain(cmd)) /\ Closed(todo) /\ Once(todo) /\ Supplied(todo, Have, Owed(cmd))
    BY DEF Supply
  <1> DEFINE t == Tail(todo)
  <1>2. /\ Len(todo) \in Nat \ {0} /\ step = todo[1] /\ step \in Plain(cmd)
        /\ t \in Seq(Plain(cmd)) /\ Suffix(t, todo, 1)
    BY <1>1, TailFacts DEF step
  <1> HIDE DEF t
  <1>3. Closed(t) /\ Once(t)
    BY <1>1, <1>2, ClosedSuffix
  <1>4. PICK J \in SUBSET Things, K \in SUBSET Things :
           J \subseteq Have /\ Over(step, J, K) /\ Supplied(t, K, Owed(cmd))
    BY <1>1, <1>2, SuppliedHead
  <1>5. Needs(step) \subseteq Have
    BY <1>4 DEF Over
  <1>6. ASSUME NEW X, step.op # "emit", (Have \ Takes(step)) \cup Gives(step, Have) \subseteq X
        PROVE  Supplied(t, X, Owed(cmd))
    <2>1. Gives(step, J) \subseteq Gives(step, Have)
      BY <1>4, GivesMore
    <2>2. K \subseteq (J \ Takes(step)) \cup Gives(step, J)
      BY <1>4, <1>6 DEF Over
    <2>3. K \subseteq X
      BY <1>4, <1>6, <2>1, <2>2
    <2> QED BY <1>4, <2>3, SuppliedWeaker
  <1>7. ASSUME step.op \in {"return", "answer"} PROVE Supplied(t, Have \cap Passing, Owed(cmd))
    <2>1. K \subseteq (J \ Takes(step)) \cup Gives(step, J) /\ J \cap Lasting = {}
      BY <1>4, <1>7 DEF Over
    <2>2. Gives(step, J) = {}
      BY <1>7 DEF Gives
    <2>3. K \subseteq Have \cap Passing
      BY <1>4, <2>1, <2>2 DEF Things
    <2> QED BY <1>4, <2>3, SuppliedWeaker
  <1> QED BY <1>2, <1>3, <1>5, <1>6, <1>7 DEF t

\* A jump to the end of a function, after something has failed.
LEMMA Landing ==
    ASSUME TypeOK, Supply, todo # <<>>, runs > 0, cmd' = cmd, NEW those,
           \A x \in those : x.op \in {"return", "answer"},
           todo' = From(Tail(todo), those), ~Good'
    PROVE  /\ Supply'
           /\ (\A i \in 1..Len(todo) : ~Touches(todo[i])) => \A i \in 1..Len(todo') : ~Touches(todo'[i])
           /\ Awaits(Tail(todo)) /\ those = {x \in Steps : x.op = "answer"} => Awaits(todo')
  <1> DEFINE t == Tail(todo)
             u == From(t, those)
  <1>1. t \in Seq(Plain(cmd)) /\ Closed(t) /\ Once(t) /\ Suffix(t, todo, 1) /\ Len(todo) \in Nat
        /\ Supplied(todo, Have, Owed(cmd))
    BY StepFacts DEF Supply
  <1> HIDE DEF t
  <1>2. u \in Seq(Plain(cmd))
    BY <1>1, FromFacts
  <1>3. PICK k \in 0..Len(t) : /\ Suffix(u, t, k) /\ \A i \in 1..k : t[i] \notin those
                               /\ k < Len(t) => t[k + 1] \in those
    BY <1>1, FromFacts
  <1> HIDE DEF u
  <1>4. Len(t) \in Nat /\ k \in Nat
    BY <1>1, <1>3
  <1>5. Closed(u) /\ Once(u)
    BY <1>1, <1>3, <1>4, ClosedSuffix
  <1>6. Supplied(u, Passing, Owed(cmd))
    <2>1. CASE k < Len(t)
      <3>1. Len(todo) = Len(t) + 1 /\ \A i \in 1..Len(t) : t[i] = todo[i + 1]
        BY <1>1 DEF Suffix
      <3>2. Len(u) = Len(t) - k /\ \A i \in 1..Len(u) : u[i] = t[i + k]
        BY <1>3 DEF Suffix
      <3>3. \A i \in 1..Len(u) : i + k \in 1..Len(t) /\ (i + k) + 1 = i + (k + 1)
        BY <1>4, <3>2
      <3>4. k + 1 \in 1..Len(t) /\ k + 1 \in 0..Len(todo) /\ Len(u) = Len(todo) - (k + 1) /\ k + 1 < Len(todo)
        BY <1>4, <2>1, <3>1, <3>2
      <3>5. Suffix(u, todo, k + 1)
        BY <3>1, <3>2, <3>3, <3>4 DEF Suffix
      <3>6. todo[(k + 1) + 1].op \in {"return", "answer"}
        BY <1>3, <2>1, <3>1, <3>4
      <3> QED BY <1>1, <3>4, <3>5, <3>6, SuppliedLanding
    <2>2. CASE ~(k < Len(t))
      <3>0. Len(u) = Len(t) - k /\ k \in 0..Len(t)
        BY <1>3 DEF Suffix
      <3>1. Len(u) = 0
        BY <1>4, <2>2, <3>0
      <3>2. u = <<>>
        BY <1>2, <3>1, EmptySeq
      <3>3. Owed(cmd) \subseteq Passing /\ Owed(cmd) \subseteq Things
        BY CmdIs, Fleeting
      <3> QED BY <3>2, <3>3, SuppliedEmpty
    <2> QED BY <2>1, <2>2
  <1>7. Passing \subseteq Have'
    BY AfterFailure
  <1>8. Supplied(u, Have', Owed(cmd))
    BY <1>6, <1>7, SuppliedWeaker
  <1>9. todo' = u
    BY DEF u, t
  <1>10. Supply'
    BY <1>2, <1>5, <1>8, <1>9 DEF Supply
  <1>11. ASSUME \A i \in 1..Len(todo) : ~Touches(todo[i]), NEW i \in 1..Len(u) PROVE ~Touches(u[i])
    <2>1. u[i] = t[i + k] /\ i + k \in 1..Len(t)
      BY <1>3, <1>4 DEF Suffix
    <2>2. t[i + k] = todo[(i + k) + 1] /\ (i + k) + 1 \in 1..Len(todo)
      BY <1>1, <1>4, <2>1 DEF Suffix
    <2> QED BY <1>11, <2>1, <2>2
  <1>12. ASSUME Awaits(t), those = {x \in Steps : x.op = "answer"} PROVE Awaits(u)
    <2>1. \A i \in 1..k : t[i].op # "answer"
      <3>1. \A i \in 1..k : t[i] \in Steps
        BY <1>1, <1>3 DEF Plain, Lawful
      <3> QED BY <1>3, <1>12, <3>1
    <2>2. k < Len(t) => t[k + 1].op = "answer"
      BY <1>3, <1>12
    <2> QED BY <1>3, <1>4, <1>12, <2>1, <2>2, AwaitsLanding
  <1> QED BY <1>9, <1>10, <1>11, <1>12 DEF t

\* A step that does not fail, but for those that call, answer or expand.
LEMMA GoingOn ==
    ASSUME IInv, running, todo # <<>>, UNCHANGED <<fixed, said, failed, solved>>, todo' = Tail(todo),
           step.op \notin {"answer", "call", "emit"},
           (Have \ Takes(step)) \cup Gives(step, Have) \subseteq Have'
    PROVE  Steady'
  <1>1. /\ TypeOK /\ runs > 0 /\ exit = 9 /\ Supply /\ Nesting /\ SolveKept /\ Honest
    BY DEF IInv, Steady
  <1>2. cmd' = cmd /\ (Good' <=> Good) /\ runs' > 0 /\ exit' = 9
    BY <1>1 DEF fixed, said, cmd, Good
  <1>3. /\ Tail(todo) \in Seq(Plain(cmd)) /\ Closed(Tail(todo)) /\ Once(Tail(todo))
        /\ Supplied(Tail(todo), Have', Owed(cmd)) /\ step \in Plain(cmd)
        /\ Suffix(Tail(todo), todo, 1) /\ Len(todo) \in Nat \ {0} /\ step = todo[1]
    BY <1>1, StepFacts
  <1>4. Supply'
    BY <1>2, <1>3 DEF Supply
  <1>5. Nesting'
    <2>1. nested => Awaits(Tail(todo))
      BY <1>1, <1>3, HeadFacts DEF Nesting
    <2> QED BY <1>1, <2>1 DEF Nesting, said
  <1>6. SolveKept'
    <2> SUFFICES ASSUME solved PROVE SolveOwed \subseteq Have' /\ \A i \in 1..Len(todo') : ~Touches(todo'[i])
      BY DEF SolveKept
    <2>1. SolveOwed \subseteq Have /\ \A i \in 1..Len(todo) : ~Touches(todo[i])
      BY <1>1 DEF SolveKept
    <2>2. ~Touches(step)
      BY <1>3, <2>1
    <2>3. SolveOwed \cap Takes(step) = {} \/ SolveOwed \subseteq Gives(step, Have)
      <3>1. step.op \in Ops /\ (step.op \in {"make", "run", "copy", "unlink", "rename"} => step.file # "solve")
        BY <1>3, <2>2 DEF Touches, Plain, Lawful, Steps
      <3>2. \A f : f # "solve" => Of(f) \cap SolveOwed = {}
        BY Differ DEF Of, SolveOwed
      <3>3. ({Sound} \cup {Noted(f) : f \in Files}) \cap SolveOwed = {}
        BY Differ DEF SolveOwed
      <3>4. step.op \notin {"clean", "emit"}
        BY <2>2 DEF Touches
      <3>5. step.op = "solve" => SolveOwed \subseteq Gives(step, Have)
        BY DEF Gives
      <3> QED BY <3>1, <3>2, <3>3, <3>4, <3>5 DEF Takes
    <2>4. SolveOwed \subseteq Have'
      BY <2>1, <2>3
    <2>5. \A i \in 1..Len(Tail(todo)) : ~Touches(Tail(todo)[i])
      BY <1>3, <2>1 DEF Suffix
    <2> QED BY <2>4, <2>5
  <1>7. Honest'
    BY <1>1, <1>2 DEF Honest
  <1> QED BY <1>2, <1>4, <1>5, <1>6, <1>7 DEF Steady

\* A jump that leaves a function or catches an error.
LEMMA Jumping ==
    ASSUME IInv, running, todo # <<>>, UNCHANGED <<fixed, solved>>, ~Good', NEW those,
           \A x \in those : x.op \in {"return", "answer"}, todo' = From(Tail(todo), those),
           nested' => nested /\ step.op # "answer" /\ those = {x \in Steps : x.op = "answer"},
           ~nested' => inner' = {}, ~failed' => cmd.emit = "compose"
    PROVE  Steady'
  <1>1. /\ TypeOK /\ runs > 0 /\ exit = 9 /\ Supply /\ Nesting /\ SolveKept
    BY DEF IInv, Steady
  <1>2. cmd' = cmd /\ runs' > 0 /\ exit' = 9 /\ solved' = solved
    BY <1>1 DEF fixed, cmd
  <1>3. Suffix(Tail(todo), todo, 1) /\ Len(todo) \in Nat \ {0} /\ step = todo[1]
    BY <1>1, StepFacts
  <1>4. /\ Supply'
        /\ (\A i \in 1..Len(todo) : ~Touches(todo[i])) => \A i \in 1..Len(todo') : ~Touches(todo'[i])
        /\ Awaits(Tail(todo)) /\ those = {x \in Steps : x.op = "answer"} => Awaits(todo')
    BY <1>1, <1>2, Landing
  <1>5. Nesting'
    <2>1. nested' => Awaits(Tail(todo))
      BY <1>1, <1>3, HeadFacts DEF Nesting
    <2> QED BY <1>4, <2>1 DEF Nesting
  <1>6. SolveOwed \subseteq Have'
    BY AfterFailure, Fleeting
  <1>7. SolveKept'
    BY <1>1, <1>2, <1>4, <1>6 DEF SolveKept
  <1> QED BY <1>2, <1>4, <1>5, <1>7 DEF Steady, Honest

\* A step that fails.
LEMMA Failing ==
    ASSUME IInv, running, todo # <<>>, UNCHANGED <<fixed, solved>>, Fail(Failed),
           step.op \notin {"answer", "call", "emit", "solve", "return"},
           ~failed' => cmd.emit = "compose",
           step.fail = "note" => ((Have \ Takes(step)) \cup Gives(step, Have)) \cap Lasting \subseteq Have'
    PROVE  /\ Steady'
           /\ diags' \subseteq {Failed, Internal} /\ inner' \subseteq {Failed} /\ nested' \in BOOLEAN
  <1>1. /\ TypeOK /\ runs > 0 /\ exit = 9 /\ Supply /\ Nesting /\ SolveKept /\ Honest
    BY DEF IInv, Steady
  <1>2. cmd' = cmd /\ runs' > 0 /\ exit' = 9 /\ solved' = solved
    BY <1>1 DEF fixed, cmd
  <1>3. step \in Plain(cmd) /\ step.fail \in OnFail
    BY <1>1, StepFacts DEF Plain, Lawful, Steps
  <1>4. diags \subseteq {Failed, Internal} /\ inner \subseteq {Failed} /\ nested \in BOOLEAN
    BY <1>1 DEF TypeOK
  <1>5. /\ step.fail = "note" => Note(Failed) /\ todo' = Tail(todo)
        /\ step.fail = "stop" => Note(Failed) /\ todo' = From(Tail(todo), Leaving)
        /\ step.fail = "raise" => /\ diags' = diags \cup {Internal} /\ nested' = FALSE /\ inner' = {}
                                  /\ todo' = From(Tail(todo), Catching)
    BY DEF Fail
  <1>5a. Note(Failed) => /\ nested' = nested /\ (~nested => inner' = inner)
                         /\ diags' \subseteq {Failed, Internal} /\ inner' \subseteq {Failed}
                         /\ diags' # {} \/ inner' # {}
    BY <1>4 DEF Note
  <1>6. ~Good' /\ diags' \subseteq {Failed, Internal} /\ inner' \subseteq {Failed} /\ nested' \in BOOLEAN
    BY <1>3, <1>4, <1>5, <1>5a DEF Good, OnFail
  <1>7. /\ Tail(todo) \in Seq(Plain(cmd)) /\ Closed(Tail(todo)) /\ Once(Tail(todo))
        /\ Suffix(Tail(todo), todo, 1) /\ Len(todo) \in Nat \ {0} /\ step = todo[1]
    BY <1>1, StepFacts
  <1>8. nested => Awaits(Tail(todo))
    BY <1>1, <1>7, HeadFacts DEF Nesting
  <1>9. Passing \subseteq Have'
    BY <1>6, AfterFailure
  <1>10. SolveOwed \subseteq Have'
    BY <1>9, Fleeting
  <1>11. CASE step.fail = "note"
    <2>1. todo' = Tail(todo) /\ nested' = nested /\ (~nested => inner' = inner)
      BY <1>5, <1>11, <1>5a
    <2>2. (Have \ Takes(step)) \cup Gives(step, Have) \subseteq Have'
      <3>1. Gives(step, Have) \subseteq Things
        BY <1>3, AreThings DEF Gives, Plain, Lawful, SolveOwed
      <3>2. Have \subseteq Things
        BY DEF Have
      <3> QED BY <1>9, <1>11, <3>1, <3>2 DEF Things
    <2>3. Supplied(Tail(todo), Have', Owed(cmd))
      BY <1>1, <2>2, StepFacts
    <2>4. Supply'
      BY <1>2, <1>7, <2>1, <2>3 DEF Supply
    <2>5. Nesting'
      BY <1>1, <1>8, <2>1 DEF Nesting
    <2>6. SolveKept'
      <3>1. ASSUME solved PROVE \A i \in 1..Len(Tail(todo)) : ~Touches(Tail(todo)[i])
        <4>1. \A i \in 1..Len(todo) : ~Touches(todo[i])
          BY <1>1, <3>1 DEF SolveKept
        <4> QED BY <1>7, <4>1 DEF Suffix
      <3> QED BY <1>2, <1>10, <2>1, <3>1 DEF SolveKept
    <2> QED BY <1>2, <1>6, <2>4, <2>5, <2>6 DEF Steady, Honest
  <1>12. CASE step.fail # "note"
    <2> DEFINE those == IF step.fail = "stop" THEN Leaving ELSE Catching
    <2>1. todo' = From(Tail(todo), those)
      BY <1>3, <1>5, <1>12 DEF OnFail
    <2>2. \A x \in those : x.op \in {"return", "answer"}
      BY DEF Leaving, Catching, Returns
    <2>3. nested' => nested /\ those = {x \in Steps : x.op = "answer"}
      BY <1>3, <1>5, <1>12, <1>5a DEF Leaving, OnFail
    <2>4. ~nested' => inner' = {}
      BY <1>1, <1>3, <1>5, <1>12, <1>5a DEF Nesting, OnFail
    <2> HIDE DEF those
    <2> QED BY <1>6, <2>1, <2>2, <2>3, <2>4, Jumping
  <1> QED BY <1>6, <1>11, <1>12

\* What is left to show of a step.
LEMMA Stepping ==
    ASSUME IInv, running, UNCHANGED fixed, Steady', ManifestOfWhole',
           files' \in [Files -> Contents], manifests' \in [Products -> [of : Contents, whole : BOOLEAN]],
           noted' \in Contents, core' \in BOOLEAN, solved' \in BOOLEAN,
           diags' \subseteq {Failed, Internal}, inner' \subseteq {Failed}, nested' \in BOOLEAN, failed' \in BOOLEAN
    PROVE  IInv'
  <1>1. running' /\ todo' \in Seq(Plain(cmd)')
    BY DEF fixed, Steady, Supply
  <1>2. Plain(cmd)' \subseteq Steps
    BY DEF Plain, Lawful
  <1>3. todo' \in Seq(Steps)
    BY <1>1, <1>2
  <1>4. TypeOK'
    BY <1>3 DEF IInv, TypeOK, fixed
  <1>5. Ended'
    BY <1>1 DEF Ended
  <1> QED BY <1>4, <1>5 DEF IInv

LEMMA AreContents ==
    /\ Absent \in Contents /\ Torn \in Contents /\ \A gs \in SUBSET Sources : Made(gs) \in Contents
    /\ Absent.whole = FALSE /\ Absent.from = {} /\ Absent.claimed = FALSE /\ Unread \in [of : Contents, whole : BOOLEAN] /\ Unread.of = Absent
    /\ \A gs : Made(gs).whole = TRUE /\ Made(gs).from = gs /\ Made(gs).claimed = FALSE
    /\ \A c \in Contents : Claim(c) \in Contents /\ Claim(c).claimed = TRUE
    /\ ~There(Absent)
  BY DEF Absent, Torn, Made, Contents, Unread, Claim, There

\* What the invariant says of the step at hand.
LEMMA AtStep ==
    ASSUME IInv, NEW op, At(op)
    PROVE  /\ running /\ todo # <<>> /\ step.op = op /\ TypeOK /\ Supply /\ runs > 0
           /\ Nesting /\ SolveKept /\ Honest
           /\ step \in Lawful /\ step.fail \in OnFail /\ step.reads \subseteq Files \cup Inputs
           /\ cmd \in Lines /\ Needs(step) \subseteq Have
           /\ op \in {"make", "run", "look", "copy", "digest", "unlink", "rename"} => step.file \in Files
           /\ op \in {"run", "look", "copy"} => step.fail = "stop"
           /\ op = "copy" => step.reads = {"built"} /\ step.file = "tmp"
           /\ op = "manifest" => step.file \in Products /\ step.file \in Files
           /\ op = "check" => step.reads \subseteq Files
  <1>1. /\ running /\ todo # <<>> /\ step.op = op /\ TypeOK /\ Supply /\ runs > 0
        /\ Nesting /\ SolveKept /\ Honest
    BY DEF At, IInv, Steady
  <1>2. step \in Plain(cmd) /\ Needs(step) \subseteq Have /\ cmd \in Lines
    BY <1>1, StepFacts, CmdIs
  <1>3. step \in Lawful /\ step \in Steps
    BY <1>2 DEF Plain, Lawful
  <1>4. step.fail \in OnFail /\ step.reads \subseteq Files \cup Inputs
    BY <1>3 DEF Steps
  <1>5. /\ op \in {"make", "run", "look", "copy", "digest", "unlink", "rename"} => step.file \in Files
        /\ op \in {"run", "look", "copy"} => step.fail = "stop"
        /\ op = "copy" => step.reads = {"built"} /\ step.file = "tmp"
        /\ op = "manifest" => step.file \in Products
        /\ op = "check" => step.reads \subseteq Files
    BY <1>1, <1>3 DEF Lawful
  <1> QED BY <1>1, <1>2, <1>3, <1>4, <1>5, AreThings

\* A failure shows in the diagnostics.
LEMMA FailSpoils ==
    ASSUME TypeOK, step.fail \in OnFail, Fail(Failed)
    PROVE  ~Good'
  BY DEF Fail, Note, Good, OnFail

\* Have, told for what holds now.
HaveMeans ==
    /\ \A f \in Files : Fine(f) \in Have <=> (Good => FineNow(f))
    /\ \A p \in Products : Described(p) \in Have <=> (Good => manifests[p] = [of |-> files[p], whole |-> TRUE])
    /\ \A f \in Files : Noted(f) \in Have <=> (Good => noted = files[f])
    /\ \A f \in Files : Left(f) \in Have <=> (Good => LeftNow(f))
    /\ \A f \in Files : Whole(f) \in Have <=> Sure(files[f])
    /\ Sound \in Have <=> noted = Absent \/ Sure(noted)

LEMMA HaveIs == HaveMeans
  <1> USE DEF Have
  <1>1. \A f \in Files : Fine(f) \in Have <=> (Good => FineNow(f))
    <2>1. \A f \in Files : Fine(f) \in Things /\ Fine(f) \notin Lasting
      BY AreThings, Fleeting
    <2> QED BY <2>1, HoldsIs
  <1>2. \A p \in Products : Described(p) \in Have <=> (Good => manifests[p] = [of |-> files[p], whole |-> TRUE])
    <2>1. \A p \in Products : Described(p) \in Things /\ Described(p) \notin Lasting
      BY AreThings, Fleeting
    <2> QED BY <2>1, HoldsIs
  <1>3. \A f \in Files : Noted(f) \in Have <=> (Good => noted = files[f])
    <2>1. \A f \in Files : Noted(f) \in Things /\ Noted(f) \notin Lasting
      BY AreThings, Fleeting
    <2> QED BY <2>1, HoldsIs
  <1>4. \A f \in Files : Whole(f) \in Have <=> Sure(files[f])
    <2>1. \A f \in Files : Whole(f) \in Things /\ Whole(f) \in Lasting
      BY AreThings DEF Lasting
    <2> QED BY <2>1, HoldsIs
  <1>5. Sound \in Have <=> noted = Absent \/ Sure(noted)
    <2>1. Sound \in Things /\ Sound \in Lasting
      BY AreThings DEF Lasting
    <2> QED BY <2>1, HoldsIs
  <1>6. \A f \in Files : Left(f) \in Have <=> (Good => LeftNow(f))
    <2>1. \A f \in Files : Left(f) \in Things /\ Left(f) \notin Lasting
      BY AreThings, Fleeting
    <2> QED BY <2>1, HoldsIs
  <1> QED BY <1>1, <1>2, <1>3, <1>4, <1>5, <1>6 DEF HaveMeans

LEMMA HaveWillBe == HaveMeans'
  BY HaveIs, PTL

\* With nothing failed so far, what a program reads is there.
LEMMA ReadsAreThere ==
    ASSUME IInv, Good, cmd.emit # "compose", NEW f \in Files, Fine(f) \in Have
    PROVE  Sure(files[f]) /\ There(files[f])
  BY HaveIs DEF HaveMeans, FineNow, LeftNow, Foreign, Fresh, Sure

-----------------------------------------------------------------------------
(* The actions.                                                            *)

LEMMA MakeFileStep ==
    ASSUME IInv, MakeFile
    PROVE  IInv'
  <1>0. PICK file, reads : file = step.file /\ reads = step.reads
    OBVIOUS
  <1>1. At("make") \/ At("run")
    BY DEF MakeFile
  <1>2. /\ running /\ todo # <<>> /\ TypeOK /\ step.op \in {"make", "run"} /\ file \in Files
        /\ reads \subseteq Files \cup Inputs /\ Needs(step) \subseteq Have
    BY <1>0, <1>1, AtStep
  <1>3. /\ Ready(reads) /\ files' = [files EXCEPT ![file] = Union(reads)] /\ todo' = Tail(todo)
        /\ UNCHANGED <<fixed, said, failed, manifests, noted, core, solved>>
    BY <1>0 DEF MakeFile, GoOn, memo
  <1>3a. /\ Union(reads).from = UNION {Content(f).from : f \in reads}
         /\ Union(reads).whole = TRUE
         /\ Union(reads).claimed <=> \E f \in reads : Content(f).claimed
    BY DEF Union
  <1>4. Union(reads) \in Contents
    <2>1. \A f \in reads : Content(f).from \subseteq Sources
      <3>1. \A f \in Files : files[f].from \subseteq Sources
        BY <1>2 DEF TypeOK, Contents
      <3>2. source \in Sources /\ loaded \in Sources
        BY <1>2, ConstantsAssumption DEF TypeOK, Sources
      <3>3. \A gs : Made(gs).from = gs
        BY AreContents
      <3> QED BY <1>2, <3>1, <3>2, <3>3 DEF Content, Inputs
    <2>2. UNION {Content(f).from : f \in reads} \subseteq Sources
      BY <2>1
    <2>3. (\E f \in reads : Content(f).claimed) \in BOOLEAN
      BY Zenon
    <2> QED BY <2>2, <2>3 DEF Union, Contents
  <1>5. files' \in [Files -> Contents] /\ files'[file] = Union(reads) /\ \A f \in Files : f # file => files'[f] = files[f]
    BY <1>2, <1>3, <1>4 DEF TypeOK
  <1>6. (Good' <=> Good) /\ cmd' = cmd /\ loaded' = loaded
    BY <1>3 DEF Good, cmd, said, fixed
  <1>7. Have \ Of(file) \subseteq Have'
    BY <1>3, <1>5, <1>6, Keeping DEF fixed
  <1>8. Whole(file) \in Have'
    <2>1. Sure(files'[file])
      BY <1>3a, <1>5 DEF Sure
    <2> QED BY <1>2, <2>1, HaveWillBe DEF HaveMeans
  <1>9. Fine(file) \in Have' /\ Left(file) \in Have'
    <2>1. ASSUME Good, cmd.emit # "compose", \A f \in reads : ~Content(f).claimed
          PROVE  \A g \in files'[file].from : g >= loaded
      <3>1. \A f \in reads \cap Files : Fine(f) \in Have
        BY <1>0, <1>2 DEF Needs
      <3>2. \A f \in Files : Content(f) = files[f]
        <4>1. \A f \in Files : f \notin {"project", "crate", "profile"}
          BY DEF Files, Products, Objects, Outputs, Scratch, Adapters
        <4> QED BY <4>1 DEF Content
      <3>3. \A f \in reads \cap Files : \A g \in files[f].from : g >= loaded
        BY <2>1, <3>1, <3>2, HaveIs DEF HaveMeans, FineNow, LeftNow, Foreign, Fresh
      <3>4. \A f \in reads : \A g \in Content(f).from : g >= loaded
        <4>1. source >= loaded /\ loaded >= loaded
          BY <1>2, ConstantsAssumption DEF TypeOK, Sources
        <4>2. Made({source}).from = {source} /\ Made({loaded}).from = {loaded}
          BY AreContents
        <4> QED BY <1>2, <3>2, <3>3, <4>1, <4>2 DEF Content, Inputs
      <3> QED BY <1>3a, <1>5, <3>4
    <2>2. LeftNow(file)' \/ ~Good'
      BY <1>3a, <1>5, <1>6, <2>1 DEF LeftNow, Fresh
    <2>3. There(files'[file])
      BY <1>3a, <1>5 DEF There
    <2> QED BY <1>2, <2>2, <2>3, HaveWillBe DEF HaveMeans, FineNow
  <1>10. (Have \ Takes(step)) \cup Gives(step, Have) \subseteq Have'
    <2>1. Takes(step) = Of(file) /\ Gives(step, Have) \subseteq {Fine(file), Left(file), Whole(file)}
      BY <1>0, <1>2 DEF Takes, Gives
    <2> QED BY <1>7, <1>8, <1>9, <2>1
  <1>11. Steady'
    BY <1>2, <1>3, <1>10, GoingOn
  <1>12. ManifestOfWhole'
    BY <1>3 DEF IInv, ManifestOfWhole
  <1> QED BY <1>2, <1>3, <1>5, <1>11, <1>12, Stepping DEF TypeOK, said

\* What a program has left as it was is only claimed.
LEMMA LeavesFileStep ==
    ASSUME IInv, LeavesFile
    PROVE  IInv'
  <1>0. PICK file : file = step.file
    OBVIOUS
  <1>1. At("run")
    BY DEF LeavesFile
  <1>2. running /\ todo # <<>> /\ TypeOK /\ step.op = "run" /\ file \in Files
    BY <1>0, <1>1, AtStep
  <1>3. /\ files' = [files EXCEPT ![file] = Claim(files[file])]
        /\ todo' = Tail(todo) /\ UNCHANGED <<fixed, said, failed, manifests, noted, core, solved>>
    BY <1>0 DEF LeavesFile, GoOn, memo
  <1>4. (Good' <=> Good) /\ cmd' = cmd
    BY <1>3 DEF Good, cmd, said, fixed
  <1>5. /\ files' \in [Files -> Contents] /\ files'[file].claimed
        /\ \A f \in Files : f # file => files'[f] = files[f]
    BY <1>2, <1>3, AreContents DEF TypeOK
  <1>6. Have \ Of(file) \subseteq Have'
    BY <1>3, <1>4, <1>5, Keeping DEF fixed
  <1>7. Left(file) \in Have' /\ Whole(file) \in Have'
    BY <1>2, <1>5, HaveWillBe DEF HaveMeans, LeftNow, Sure
  <1>8. (Have \ Takes(step)) \cup Gives(step, Have) \subseteq Have'
    BY <1>0, <1>2, <1>6, <1>7 DEF Takes, Gives
  <1>9. Steady'
    BY <1>2, <1>3, <1>8, GoingOn
  <1>10. ManifestOfWhole'
    BY <1>3 DEF IInv, ManifestOfWhole
  <1> QED BY <1>2, <1>3, <1>5, <1>9, <1>10, Stepping DEF TypeOK, said

LEMMA CopyFileStep ==
    ASSUME IInv, CopyFile
    PROVE  IInv'
  <1>1. At("copy")
    BY DEF CopyFile
  <1>2. /\ running /\ todo # <<>> /\ TypeOK /\ step.op = "copy" /\ Needs(step) \subseteq Have
        /\ step.reads = {"built"} /\ step.file = "tmp" /\ "tmp" \in Files /\ "built" \in Files
    BY <1>1, AtStep, AreThings
  <1>3. /\ files' = [files EXCEPT !["tmp"] = files["built"]]
        /\ todo' = Tail(todo) /\ UNCHANGED <<fixed, said, failed, manifests, noted, core, solved>>
    BY <1>2 DEF CopyFile, GoOn, memo
  <1>4. (Good' <=> Good) /\ cmd' = cmd /\ loaded' = loaded
    BY <1>3 DEF Good, cmd, said, fixed
  <1>5. /\ files' \in [Files -> Contents] /\ files'["tmp"] = files["built"]
        /\ \A f \in Files : f # "tmp" => files'[f] = files[f]
    BY <1>2, <1>3 DEF TypeOK
  <1>6. Have \ Of("tmp") \subseteq Have'
    BY <1>3, <1>4, <1>5, Keeping DEF fixed
  <1>7. Fine("tmp") \in Have'
    <2>1. Fine("built") \in Have
      BY <1>2 DEF Needs
    <2>2. Good => There(files["built"]) /\ LeftNow("built")
      BY <1>2, <2>1, HaveIs DEF HaveMeans, FineNow, Foreign
    <2>3. FineNow("tmp")' \/ ~Good'
      BY <1>4, <1>5, <2>2 DEF FineNow, LeftNow, Fresh
    <2> QED BY <1>2, <2>3, HaveWillBe DEF HaveMeans
  <1>8. Whole("built") \in Have => Whole("tmp") \in Have'
    BY <1>2, <1>5, HaveIs, HaveWillBe DEF HaveMeans
  <1>9. (Have \ Takes(step)) \cup Gives(step, Have) \subseteq Have'
    <2>1. /\ Takes(step) = Of("tmp")
          /\ Gives(step, Have) = {Fine("tmp")} \cup (IF Whole("built") \in Have THEN {Whole("tmp")} ELSE {})
      BY <1>2 DEF Takes, Gives
    <2> QED BY <1>6, <1>7, <1>8, <2>1
  <1>10. Steady'
    BY <1>2, <1>3, <1>9, GoingOn
  <1>11. ManifestOfWhole'
    BY <1>3 DEF IInv, ManifestOfWhole
  <1> QED BY <1>2, <1>3, <1>5, <1>10, <1>11, Stepping DEF TypeOK, said

\* A look that finds the file makes it one to rely upon.
LEMMA FindsStep ==
    ASSUME IInv, Finds
    PROVE  IInv'
  <1>0. PICK file : file = step.file
    OBVIOUS
  <1>1. At("look")
    BY DEF Finds
  <1>2. running /\ todo # <<>> /\ TypeOK /\ step.op = "look" /\ file \in Files /\ Needs(step) \subseteq Have
    BY <1>0, <1>1, AtStep
  <1>3. /\ There(files[file]) /\ todo' = Tail(todo)
        /\ UNCHANGED <<fixed, said, failed, files, manifests, noted, core, solved>>
    BY <1>0 DEF Finds, GoOn, disk, memo
  <1>4. (Good' <=> Good) /\ cmd' = cmd /\ loaded' = loaded
    BY <1>3 DEF Good, cmd, said, fixed
  <1>5. Have \ {} \subseteq Have'
    BY <1>3, <1>4, Keeping DEF fixed
  <1>6. Fine(file) \in Have'
    <2>1. Left(file) \in Have
      BY <1>0, <1>2 DEF Needs
    <2>2. Good => LeftNow(file)
      BY <1>2, <2>1, HaveIs DEF HaveMeans
    <2>3. FineNow(file)' \/ ~Good'
      BY <1>3, <1>4, <2>2 DEF FineNow, LeftNow, Fresh
    <2> QED BY <1>2, <2>3, HaveWillBe DEF HaveMeans
  <1>7. (Have \ Takes(step)) \cup Gives(step, Have) \subseteq Have'
    BY <1>0, <1>2, <1>5, <1>6 DEF Takes, Gives
  <1>8. Steady'
    BY <1>2, <1>3, <1>7, GoingOn
  <1>9. ManifestOfWhole'
    BY <1>3 DEF IInv, ManifestOfWhole
  <1> QED BY <1>2, <1>3, <1>8, <1>9, Stepping DEF TypeOK, said

LEMMA MissesStep ==
    ASSUME IInv, Misses
    PROVE  IInv'
  <1>1. At("look")
    BY DEF Misses
  <1>2. running /\ todo # <<>> /\ TypeOK /\ step.op = "look" /\ step.fail = "stop"
    BY <1>1, AtStep
  <1>3. failed' = TRUE /\ Fail(Failed) /\ UNCHANGED <<fixed, files, manifests, noted, core, solved>>
    BY DEF Misses, disk, memo
  <1>4. /\ Steady'
        /\ diags' \subseteq {Failed, Internal} /\ inner' \subseteq {Failed} /\ nested' \in BOOLEAN
    BY <1>2, <1>3, Failing
  <1>5. ManifestOfWhole'
    BY <1>3 DEF IInv, ManifestOfWhole
  <1> QED BY <1>2, <1>3, <1>4, <1>5, Stepping DEF TypeOK

\* A program that fails of itself, or finds that a file is missing.
LEMMA MakeFailsStep ==
    ASSUME IInv, MakeFails
    PROVE  IInv'
  <1>0. PICK file, reads : file = step.file /\ reads = step.reads
    OBVIOUS
  <1>1. At("make") \/ At("run") \/ At("copy")
    BY <1>0 DEF MakeFails
  <1>2. /\ running /\ todo # <<>> /\ TypeOK /\ file \in Files /\ reads \subseteq Files \cup Inputs
        /\ step.op \in {"make", "run", "copy"} /\ (step.fail = "note" => step.op = "make")
        /\ Needs(step) \subseteq Have /\ step.fail \in OnFail /\ Honest
    BY <1>0, <1>1, AtStep
  <1>3. /\ failed' = (failed \/ \A f \in reads : Content(f).whole \/ Content(f).claimed) /\ Fail(Failed)
        /\ UNCHANGED <<fixed, manifests, noted, core, solved>>
    BY <1>0 DEF MakeFails, memo
  <1>4. PICK left \in IF file \in Scratch THEN {Absent} ELSE {files[file], Absent, Torn} :
           files' = [files EXCEPT ![file] = left]
    BY <1>0 DEF MakeFails
  <1>5. files' \in [Files -> Contents] /\ \A f \in Files : f # file => files'[f] = files[f]
    <2>1. left \in Contents
      BY <1>2, <1>4, AreContents DEF TypeOK
    <2> QED BY <1>2, <1>4, <2>1 DEF TypeOK
  <1>6. ~Good' /\ cmd' = cmd
    BY <1>2, <1>3, FailSpoils DEF cmd, fixed
  <1>7. Have \ Of(file) \subseteq Have'
    BY <1>3, <1>5, <1>6, Keeping DEF fixed
  <1>8. ASSUME step.fail = "note" PROVE ((Have \ Takes(step)) \cup Gives(step, Have)) \cap Lasting \subseteq Have'
    <2>1. Takes(step) = Of(file) /\ Gives(step, Have) = {Fine(file)}
      BY <1>0, <1>2, <1>8 DEF Takes, Gives
    <2>2. Fine(file) \notin Lasting
      BY <1>2, Fleeting
    <2> QED BY <1>7, <2>1, <2>2
  <1>9. ~failed' => cmd.emit = "compose"
    <2> SUFFICES ASSUME ~failed, cmd.emit # "compose" PROVE \A f \in reads : Content(f).whole \/ Content(f).claimed
      BY <1>3
    <2>1. Good
      BY <1>2 DEF Honest
    <2>2. \A f \in reads \cap Files : Fine(f) \in Have
      BY <1>0, <1>2 DEF Needs
    <2>3. \A f \in reads \cap Files : files[f].whole \/ files[f].claimed
      BY <2>1, <2>2, ReadsAreThere DEF Sure
    <2>4. Made({source}).whole /\ Made({loaded}).whole
      BY AreContents
    <2> QED BY <1>2, <2>3, <2>4 DEF Content, Inputs
  <1>10. /\ Steady'
         /\ diags' \subseteq {Failed, Internal} /\ inner' \subseteq {Failed} /\ nested' \in BOOLEAN
    BY <1>2, <1>3, <1>8, <1>9, Failing
  <1>11. ManifestOfWhole'
    BY <1>3 DEF IInv, ManifestOfWhole
  <1>12. failed' \in BOOLEAN
    BY <1>2, <1>3, Zenon DEF TypeOK
  <1> QED BY <1>2, <1>3, <1>5, <1>10, <1>11, <1>12, Stepping DEF TypeOK

LEMMA TakeDigestStep ==
    ASSUME IInv, TakeDigest
    PROVE  IInv'
  <1>0. PICK file : file = step.file
    OBVIOUS
  <1>1. At("digest")
    BY DEF TakeDigest
  <1>2. running /\ todo # <<>> /\ TypeOK /\ step.op = "digest" /\ file \in Files
    BY <1>0, <1>1, AtStep
  <1>3. /\ noted' = files[file] /\ core' = (core \/ file = "core") /\ todo' = Tail(todo)
        /\ UNCHANGED <<fixed, said, failed, files, manifests, solved>>
    BY <1>0 DEF TakeDigest, GoOn, disk
  <1>4. (Good' <=> Good) /\ cmd' = cmd
    BY <1>3 DEF Good, cmd, said, fixed
  <1>5. Have \ ({Sound} \cup {Noted(f) : f \in Files}) \subseteq Have'
    BY <1>3, <1>4, Keeping DEF fixed
  <1>6. Noted(file) \in Have'
    BY <1>2, <1>3, HaveWillBe DEF HaveMeans
  <1>7. Whole(file) \in Have => Sound \in Have'
    BY <1>2, <1>3, HaveIs, HaveWillBe DEF HaveMeans
  <1>8. (Have \ Takes(step)) \cup Gives(step, Have) \subseteq Have'
    <2>1. /\ Takes(step) = {Sound} \cup {Noted(f) : f \in Files}
          /\ Gives(step, Have) = {Noted(file)} \cup (IF Whole(file) \in Have THEN {Sound} ELSE {})
      BY <1>0, <1>2 DEF Takes, Gives
    <2> QED BY <1>5, <1>6, <1>7, <2>1
  <1>9. Steady'
    BY <1>2, <1>3, <1>8, GoingOn
  <1>10. ManifestOfWhole'
    BY <1>3 DEF IInv, ManifestOfWhole
  <1>11. core' \in BOOLEAN /\ noted' \in Contents
    BY <1>2, <1>3 DEF TypeOK
  <1> QED BY <1>2, <1>3, <1>9, <1>10, <1>11, Stepping DEF TypeOK, said

LEMMA DigestFailsStep ==
    ASSUME IInv, DigestFails
    PROVE  IInv'
  <1>0. PICK file : file = step.file
    OBVIOUS
  <1>1. At("digest")
    BY DEF DigestFails
  <1>2. /\ running /\ todo # <<>> /\ TypeOK /\ step.op = "digest" /\ file \in Files /\ step.fail \in OnFail
        /\ Honest /\ Needs(step) \subseteq Have
    BY <1>0, <1>1, AtStep
  <1>3. /\ failed' = (failed \/ There(files[file])) /\ noted' = Absent /\ Fail(Failed)
        /\ UNCHANGED <<fixed, files, manifests, core, solved>>
    BY <1>0 DEF DigestFails, disk
  <1>4. ~Good' /\ cmd' = cmd
    BY <1>2, <1>3, FailSpoils DEF cmd, fixed
  <1>5. Have \ ({Sound} \cup {Noted(f) : f \in Files}) \subseteq Have'
    BY <1>3, <1>4, Keeping DEF fixed
  <1>6. ((Have \ Takes(step)) \cup Gives(step, Have)) \cap Lasting \subseteq Have'
    <2>1. /\ Takes(step) = {Sound} \cup {Noted(f) : f \in Files}
          /\ Gives(step, Have) \subseteq {Noted(file), Sound}
      BY <1>0, <1>2 DEF Takes, Gives
    <2>2. Noted(file) \notin Lasting
      BY <1>2, Fleeting
    <2>3. Sound \in Have'
      BY <1>3, HaveWillBe DEF HaveMeans
    <2> QED BY <1>5, <2>1, <2>2, <2>3
  <1>7. ~failed' => cmd.emit = "compose"
    <2>1. Fine(file) \in Have
      BY <1>0, <1>2 DEF Needs
    <2>2. ~failed /\ cmd.emit # "compose" => There(files[file])
      BY <1>2, <2>1, ReadsAreThere DEF Honest
    <2> QED BY <1>3, <2>2
  <1>8. /\ Steady'
        /\ diags' \subseteq {Failed, Internal} /\ inner' \subseteq {Failed} /\ nested' \in BOOLEAN
    BY <1>2, <1>3, <1>6, <1>7, Failing
  <1>9. ManifestOfWhole'
    BY <1>3 DEF IInv, ManifestOfWhole
  <1>10. failed' \in BOOLEAN /\ noted' \in Contents
    BY <1>2, <1>3, AreContents DEF TypeOK
  <1> QED BY <1>2, <1>3, <1>8, <1>9, <1>10, Stepping DEF TypeOK

LEMMA WriteManifestStep ==
    ASSUME IInv, WriteManifest
    PROVE  IInv'
  <1>0. PICK file : file = step.file
    OBVIOUS
  <1>1. At("manifest")
    BY DEF WriteManifest
  <1>2. /\ running /\ todo # <<>> /\ TypeOK /\ step.op = "manifest" /\ file \in Products /\ file \in Files
        /\ Needs(step) \subseteq Have
    BY <1>0, <1>1, AtStep
  <1>3. /\ manifests' = [manifests EXCEPT ![file] = [of |-> noted, whole |-> TRUE]] /\ todo' = Tail(todo)
        /\ UNCHANGED <<fixed, said, failed, files, noted, core, solved>>
    BY <1>0 DEF WriteManifest, GoOn, memo
  <1>4. (Good' <=> Good) /\ cmd' = cmd
    BY <1>3 DEF Good, cmd, said, fixed
  <1>5. /\ manifests' \in [Products -> [of : Contents, whole : BOOLEAN]]
        /\ manifests'[file] = [of |-> noted, whole |-> TRUE]
        /\ \A p \in Products : p # file => manifests'[p] = manifests[p]
    BY <1>2, <1>3 DEF TypeOK
  <1>6. Noted(file) \in Have /\ Sound \in Have
    BY <1>0, <1>2 DEF Needs
  <1>7. Have \ {Described(file)} \subseteq Have'
    BY <1>3, <1>4, <1>5, Keeping DEF fixed
  <1>8. Described(file) \in Have'
    <2>1. Good => noted = files[file]
      BY <1>2, <1>6, HaveIs DEF HaveMeans
    <2> QED BY <1>2, <1>3, <1>4, <1>5, <2>1, HaveWillBe DEF HaveMeans
  <1>9. (Have \ Takes(step)) \cup Gives(step, Have) \subseteq Have'
    <2>1. Gives(step, Have) = {Described(file)}
      BY <1>0, <1>2 DEF Gives
    <2> QED BY <1>7, <1>8, <2>1
  <1>10. Steady'
    BY <1>2, <1>3, <1>9, GoingOn
  <1>11. ManifestOfWhole'
    <2>1. noted = Absent \/ noted.whole \/ noted.claimed
      BY <1>6, HaveIs DEF HaveMeans, Sure
    <2> QED BY <1>5, <2>1 DEF IInv, ManifestOfWhole
  <1> QED BY <1>2, <1>3, <1>5, <1>10, <1>11, Stepping DEF TypeOK, said

LEMMA ManifestFailsStep ==
    ASSUME IInv, ManifestFails
    PROVE  IInv'
  <1>0. PICK file : file = step.file
    OBVIOUS
  <1>1. At("manifest")
    BY DEF ManifestFails
  <1>2. /\ running /\ todo # <<>> /\ TypeOK /\ step.op = "manifest" /\ file \in Products /\ file \in Files
        /\ step.fail \in OnFail
    BY <1>0, <1>1, AtStep
  <1>3. /\ manifests' = manifests \/ manifests' = [manifests EXCEPT ![file] = Unread]
        /\ failed' = TRUE /\ Fail(Failed) /\ UNCHANGED <<fixed, files, noted, core, solved>>
    BY <1>0 DEF ManifestFails, memo
  <1>4. ~Good' /\ cmd' = cmd
    BY <1>2, <1>3, FailSpoils DEF cmd, fixed
  <1>5. /\ manifests' \in [Products -> [of : Contents, whole : BOOLEAN]]
        /\ manifests'[file] = manifests[file] \/ manifests'[file] = Unread
        /\ \A p \in Products : p # file => manifests'[p] = manifests[p]
    <2>1. Unread \in [of : Contents, whole : BOOLEAN]
      BY AreContents
    <2> QED BY <1>2, <1>3, <2>1 DEF TypeOK
  <1>6. Have \ {Described(file)} \subseteq Have'
    BY <1>3, <1>4, <1>5, Keeping DEF fixed
  <1>7. ((Have \ Takes(step)) \cup Gives(step, Have)) \cap Lasting \subseteq Have'
    <2>1. Gives(step, Have) = {Described(file)} /\ Described(file) \notin Lasting
      BY <1>0, <1>2, Fleeting DEF Gives
    <2> QED BY <1>6, <2>1
  <1>8. /\ Steady'
        /\ diags' \subseteq {Failed, Internal} /\ inner' \subseteq {Failed} /\ nested' \in BOOLEAN
    BY <1>2, <1>3, <1>7, Failing
  <1>9. ManifestOfWhole'
    BY <1>5, AreContents DEF IInv, ManifestOfWhole
  <1> QED BY <1>2, <1>3, <1>5, <1>8, <1>9, Stepping DEF TypeOK

LEMMA PassesStep ==
    ASSUME IInv, Passes
    PROVE  IInv'
  <1>1. At("check")
    BY DEF Passes
  <1>2. running /\ todo # <<>> /\ TypeOK /\ step.op = "check"
    BY <1>1, AtStep
  <1>3. todo' = Tail(todo) /\ UNCHANGED <<fixed, said, failed, files, manifests, noted, core, solved>>
    BY DEF Passes, GoOn, disk, memo
  <1>4. (Good' <=> Good) /\ cmd' = cmd
    BY <1>3 DEF Good, cmd, said, fixed
  <1>5. Have \ {} \subseteq Have'
    BY <1>3, <1>4, Keeping DEF fixed
  <1>6. (Have \ Takes(step)) \cup Gives(step, Have) \subseteq Have'
    BY <1>2, <1>5 DEF Takes, Gives
  <1>7. Steady'
    BY <1>2, <1>3, <1>6, GoingOn
  <1>8. ManifestOfWhole'
    BY <1>3 DEF IInv, ManifestOfWhole
  <1> QED BY <1>2, <1>3, <1>7, <1>8, Stepping DEF TypeOK, said

LEMMA RefusesStep ==
    ASSUME IInv, Refuses
    PROVE  IInv'
  <1>1. At("check")
    BY DEF Refuses
  <1>2. /\ running /\ todo # <<>> /\ TypeOK /\ step.op = "check" /\ step.fail \in OnFail
        /\ Honest /\ Needs(step) \subseteq Have /\ step.reads \subseteq Files
    BY <1>1, AtStep
  <1>3. /\ step.reads = {} \/ \E f \in step.reads : ~There(files[f])
        /\ failed' = (failed \/ step.reads = {}) /\ Fail(Failed)
        /\ UNCHANGED <<fixed, files, manifests, noted, core, solved>>
    BY DEF Refuses, disk, memo
  <1>4. ~Good' /\ cmd' = cmd
    BY <1>2, <1>3, FailSpoils DEF cmd, fixed
  <1>5. Have \ {} \subseteq Have'
    BY <1>3, <1>4, Keeping DEF fixed
  <1>6. ((Have \ Takes(step)) \cup Gives(step, Have)) \cap Lasting \subseteq Have'
    BY <1>2, <1>5 DEF Takes, Gives
  <1>7. ~failed' => cmd.emit = "compose"
    <2> SUFFICES ASSUME ~failed, cmd.emit # "compose", step.reads # {} PROVE FALSE
      BY <1>3
    <2>1. Good
      BY <1>2 DEF Honest
    <2>2. PICK f \in step.reads : ~There(files[f])
      BY <1>3
    <2>3. f \in Files /\ Fine(f) \in Have
      BY <1>2 DEF Needs
    <2> QED BY <2>1, <2>2, <2>3, ReadsAreThere
  <1>8. /\ Steady'
        /\ diags' \subseteq {Failed, Internal} /\ inner' \subseteq {Failed} /\ nested' \in BOOLEAN
    BY <1>2, <1>3, <1>6, <1>7, Failing
  <1>9. ManifestOfWhole'
    BY <1>3 DEF IInv, ManifestOfWhole
  <1>10. failed' \in BOOLEAN
    BY <1>2, <1>3 DEF TypeOK
  <1> QED BY <1>2, <1>3, <1>8, <1>9, <1>10, Stepping DEF TypeOK

LEMMA UnlinkStep ==
    ASSUME IInv, Unlink
    PROVE  IInv'
  <1>0. PICK file : file = step.file
    OBVIOUS
  <1>1. At("unlink")
    BY DEF Unlink
  <1>2. running /\ todo # <<>> /\ TypeOK /\ step.op = "unlink" /\ file \in Files
    BY <1>0, <1>1, AtStep
  <1>3. /\ files' = files \/ files' = [files EXCEPT ![file] = Absent]
        /\ todo' = Tail(todo) /\ UNCHANGED <<fixed, said, failed, manifests, noted, core, solved>>
    BY <1>0 DEF Unlink, GoOn, memo
  <1>4. (Good' <=> Good) /\ cmd' = cmd
    BY <1>3 DEF Good, cmd, said, fixed
  <1>5. files' \in [Files -> Contents] /\ \A f \in Files : f # file => files'[f] = files[f]
    BY <1>2, <1>3, AreContents DEF TypeOK
  <1>6. Have \ Of(file) \subseteq Have'
    BY <1>3, <1>4, <1>5, Keeping DEF fixed
  <1>7. (Have \ Takes(step)) \cup Gives(step, Have) \subseteq Have'
    BY <1>0, <1>2, <1>6 DEF Takes, Gives
  <1>8. Steady'
    BY <1>2, <1>3, <1>7, GoingOn
  <1>9. ManifestOfWhole'
    BY <1>3 DEF IInv, ManifestOfWhole
  <1> QED BY <1>2, <1>3, <1>5, <1>8, <1>9, Stepping DEF TypeOK, said

LEMMA RenameStep ==
    ASSUME IInv, Rename
    PROVE  IInv'
  <1>0. PICK file : file = step.file
    OBVIOUS
  <1>1. At("rename")
    BY DEF Rename
  <1>2. /\ running /\ todo # <<>> /\ TypeOK /\ step.op = "rename" /\ file \in Files /\ file # "tmp" /\ "tmp" \in Files
        /\ Needs(step) \subseteq Have
    BY <1>0, <1>1, AtStep, AreThings DEF Lawful
  <1>3. /\ files' = [files EXCEPT ![file] = files["tmp"], !["tmp"] = Absent]
        /\ todo' = Tail(todo) /\ UNCHANGED <<fixed, said, failed, manifests, noted, core, solved>>
    BY <1>0 DEF Rename, GoOn, memo
  <1>4. (Good' <=> Good) /\ cmd' = cmd /\ loaded' = loaded
    BY <1>3 DEF Good, cmd, said, fixed
  <1>5. /\ files' \in [Files -> Contents] /\ files'[file] = files["tmp"]
        /\ \A f \in Files : f # file /\ f # "tmp" => files'[f] = files[f]
    BY <1>2, <1>3, AreContents DEF TypeOK
  <1>6. Have \ (Of(file) \cup Of("tmp")) \subseteq Have'
    BY <1>3, <1>4, <1>5, Keeping DEF fixed
  <1>7. Fine("tmp") \in Have /\ Whole("tmp") \in Have
    BY <1>2 DEF Needs
  <1>8. Fine(file) \in Have' /\ Whole(file) \in Have'
    <2>1. Sure(files'[file])
      BY <1>2, <1>5, <1>7, HaveIs DEF HaveMeans
    <2>2. Good => There(files["tmp"]) /\ LeftNow("tmp")
      BY <1>2, <1>7, HaveIs DEF HaveMeans, FineNow, Foreign
    <2>3. FineNow(file)' \/ ~Good'
      BY <1>4, <1>5, <2>2 DEF FineNow, LeftNow, Fresh
    <2> QED BY <1>2, <2>1, <2>3, HaveWillBe DEF HaveMeans
  <1>9. (Have \ Takes(step)) \cup Gives(step, Have) \subseteq Have'
    <2>1. Takes(step) = Of(file) \cup Of("tmp") /\ Gives(step, Have) = {Fine(file), Whole(file)}
      BY <1>0, <1>2 DEF Takes, Gives
    <2> QED BY <1>6, <1>8, <2>1
  <1>10. Steady'
    BY <1>2, <1>3, <1>9, GoingOn
  <1>11. ManifestOfWhole'
    BY <1>3 DEF IInv, ManifestOfWhole
  <1> QED BY <1>2, <1>3, <1>5, <1>10, <1>11, Stepping DEF TypeOK, said

LEMMA RenameFailsStep ==
    ASSUME IInv, RenameFails
    PROVE  IInv'
  <1>1. At("rename")
    BY DEF RenameFails
  <1>2. running /\ todo # <<>> /\ TypeOK /\ step.op = "rename" /\ step.fail = "stop"
    BY <1>1, AtStep DEF Lawful
  <1>3. failed' = TRUE /\ Fail(Failed) /\ UNCHANGED <<fixed, files, manifests, noted, core, solved>>
    BY DEF RenameFails, disk, memo
  <1>4. /\ Steady'
        /\ diags' \subseteq {Failed, Internal} /\ inner' \subseteq {Failed} /\ nested' \in BOOLEAN
    BY <1>2, <1>3, Failing
  <1>5. ManifestOfWhole'
    BY <1>3 DEF IInv, ManifestOfWhole
  <1> QED BY <1>2, <1>3, <1>4, <1>5, Stepping DEF TypeOK

\* --clean takes everything away, or fails and is only noted.
LEMMA CleanStep ==
    ASSUME IInv, Clean
    PROVE  IInv'
  <1>1. At("clean")
    BY DEF Clean
  <1>2. running /\ todo # <<>> /\ TypeOK /\ step.op = "clean" /\ step.fail \in OnFail
    BY <1>1, AtStep
  <1>3. Takes(step) = Things /\ Gives(step, Have) = {} /\ Have \subseteq Things
    BY <1>2 DEF Takes, Gives, Have
  <1>4. UNCHANGED <<fixed, noted, core, solved>>
    BY DEF Clean, memo
  <1>5. CASE /\ files' = [f \in Files |-> IF f \in Outside THEN files[f] ELSE Absent]
             /\ manifests' = [p \in Products |-> IF p = "wasm" THEN manifests[p] ELSE Unread]
             /\ GoOn
    <2>1. todo' = Tail(todo) /\ UNCHANGED <<said, failed>>
      BY <1>5 DEF GoOn
    <2>2. (Have \ Takes(step)) \cup Gives(step, Have) \subseteq Have'
      BY <1>3
    <2>3. Steady'
      BY <1>2, <1>4, <2>1, <2>2, GoingOn
    <2>4. files' \in [Files -> Contents] /\ manifests' \in [Products -> [of : Contents, whole : BOOLEAN]]
      BY <1>2, <1>5, AreContents DEF TypeOK
    <2>5. ManifestOfWhole'
      BY <1>5, AreContents DEF IInv, ManifestOfWhole
    <2> QED BY <1>2, <1>4, <2>1, <2>3, <2>4, <2>5, Stepping DEF TypeOK, said
  <1>6. CASE UNCHANGED disk /\ failed' = TRUE /\ Fail(Failed)
    <2>1. ((Have \ Takes(step)) \cup Gives(step, Have)) \cap Lasting \subseteq Have'
      BY <1>3
    <2>2. /\ Steady'
          /\ diags' \subseteq {Failed, Internal} /\ inner' \subseteq {Failed} /\ nested' \in BOOLEAN
      BY <1>2, <1>4, <1>6, <2>1, Failing
    <2>3. ManifestOfWhole'
      BY <1>6 DEF IInv, ManifestOfWhole, disk
    <2> QED BY <1>2, <1>4, <1>6, <2>2, <2>3, Stepping DEF TypeOK, disk
  <1> QED BY <1>5, <1>6 DEF Clean

LEMMA PassGateStep ==
    ASSUME IInv, PassGate
    PROVE  IInv'
  <1>1. At("gate")
    BY DEF PassGate
  <1>2. running /\ todo # <<>> /\ TypeOK /\ step.op = "gate" /\ Nesting /\ Honest
    BY <1>1, AtStep
  <1>3. UNCHANGED <<fixed, said, failed, files, manifests, noted, core, solved>>
    BY DEF PassGate, disk, memo
  <1>4. (Good' <=> Good) /\ cmd' = cmd
    BY <1>3 DEF Good, cmd, said, fixed
  <1>5. CASE HasError(IF nested THEN inner ELSE diags)
    <2>1. diags # {} \/ inner # {}
      <3>1. diags \in SUBSET {Failed, Internal} /\ inner \in SUBSET {Failed, Internal}
        BY <1>2 DEF TypeOK
      <3> QED BY <1>5, <3>1, ExitFacts
    <2>2. ~Good'
      BY <1>4, <2>1 DEF Good
    <2>3. todo' = From(Tail(todo), Leaving) /\ \A x \in Leaving : x.op \in {"return", "answer"}
      BY <1>5 DEF PassGate, Leaving
    <2>4. nested' => nested /\ Leaving = {x \in Steps : x.op = "answer"}
      BY <1>3 DEF Leaving, said
    <2>5. ~nested' => inner' = {}
      BY <1>2, <1>3 DEF Nesting, said
    <2>6. ~failed' => cmd.emit = "compose"
      BY <1>2, <1>3, <1>4, <2>2 DEF Honest
    <2>7. Steady'
      BY <1>2, <1>3, <2>2, <2>3, <2>4, <2>5, <2>6, Jumping
    <2>8. ManifestOfWhole'
      BY <1>3 DEF IInv, ManifestOfWhole
    <2> QED BY <1>2, <1>3, <2>7, <2>8, Stepping DEF TypeOK, said
  <1>6. CASE ~HasError(IF nested THEN inner ELSE diags)
    <2>1. todo' = Tail(todo)
      BY <1>6 DEF PassGate
    <2>2. Have \ {} \subseteq Have'
      BY <1>3, <1>4, Keeping DEF fixed
    <2>3. (Have \ Takes(step)) \cup Gives(step, Have) \subseteq Have'
      BY <1>2, <2>2 DEF Takes, Gives
    <2>4. Steady'
      BY <1>2, <1>3, <2>1, <2>3, GoingOn
    <2>5. ManifestOfWhole'
      BY <1>3 DEF IInv, ManifestOfWhole
    <2> QED BY <1>2, <1>3, <2>4, <2>5, Stepping DEF TypeOK, said
  <1> QED BY <1>5, <1>6

LEMMA DispatchStep ==
    ASSUME IInv, Dispatch
    PROVE  IInv'
  <1>1. At("emit")
    BY DEF Dispatch
  <1>2. /\ running /\ todo # <<>> /\ TypeOK /\ step.op = "emit" /\ Supply /\ runs > 0 /\ exit = 9
        /\ Nesting /\ SolveKept /\ Honest /\ cmd \in Lines
    BY <1>1, AtStep DEF IInv, Steady
  <1>3. todo' = Emit(cmd) /\ UNCHANGED <<fixed, said, failed, files, manifests, noted, core, solved>>
    BY DEF Dispatch, disk, memo
  <1>4. (Good' <=> Good) /\ cmd' = cmd /\ runs' > 0 /\ exit' = 9
    BY <1>2, <1>3 DEF Good, cmd, said, fixed
  <1>5. /\ step \in Plain(cmd) /\ step = todo[1] /\ Len(todo) \in Nat \ {0} /\ Suffix(Tail(todo), todo, 1)
    BY <1>2, StepFacts
  <1>6. Dispatches(cmd)
    BY <1>2, <1>5 DEF Plain
  <1>7. Fit(Emit(cmd), Quiet, {}, Owed(cmd)) /\ Shut(Emit(cmd))
    BY <1>2, <1>6, EmitFits, ShutEmit
  <1>8. Supply'
    <2>1. Emit(cmd) \in Seq(Plain(cmd)) /\ Emit(cmd) \in Seq(Lawful)
      <3>1. Quiet \subseteq Plain(cmd) /\ Quiet \subseteq Lawful
        BY PlainKinds, QuietKinds
      <3> QED BY <1>7, <3>1 DEF Fit
    <2>2. \A i \in 1..Len(Emit(cmd)) : ~Touches(Emit(cmd)[i])
      <3>1. Emit(cmd) \in Seq(Quiet)
        BY <1>7 DEF Fit
      <3>2. \A i \in 1..Len(Emit(cmd)) : Emit(cmd)[i] \in Quiet
        BY <3>1
      <3> QED BY <3>2 DEF Quiet
    <2>3. Once(Emit(cmd))
      BY <2>1, <2>2, OncePlain
    <2>4. Supplied(Emit(cmd), Have', Owed(cmd))
      BY <1>7, SuppliedWeaker DEF Fit
    <2> QED BY <1>3, <1>4, <1>7, <2>1, <2>3, <2>4 DEF Supply, Shut
  <1>9. Nesting'
    <2>1. ~nested
      BY <1>2, <1>5, HeadFacts DEF Nesting, Blocks
    <2> QED BY <1>2, <1>3, <2>1 DEF Nesting, said
  <1>10. SolveKept'
    <2>1. ~solved
      BY <1>2, <1>5 DEF SolveKept, Touches
    <2> QED BY <1>3, <2>1 DEF SolveKept
  <1>11. Steady'
    BY <1>2, <1>3, <1>4, <1>8, <1>9, <1>10 DEF Steady, Honest
  <1>12. ManifestOfWhole'
    BY <1>3 DEF IInv, ManifestOfWhole
  <1> QED BY <1>2, <1>3, <1>11, <1>12, Stepping DEF TypeOK, said

\* What the building of a solve component takes away, step by step.
LEMMA SolveBeside ==
    ASSUME NEW backend, NEW c, NEW R \in SUBSET Passing, R \cap SolveTakes = {}
    PROVE  Supplied(Solve(backend), R, SolveOwed \cup R) /\ Solve(backend) \in Seq(Plain(c))
  <1> DEFINE S == SolveActs \cup {Return("solve", "raise")}
  <1>1. Solve(backend) \in Seq(S) /\ Supplied(Solve(backend), {}, SolveOwed)
    <2>1. /\ SolveBody(backend) \in Seq(SolveActs) /\ Supplied(Solve(backend), {}, SolveOwed)
          /\ Solve(backend) = SolveBody(backend) \o <<Return("solve", "raise")>>
      BY SolveFits DEF Fit
    <2>2. SolveBody(backend) \in Seq(S) /\ <<Return("solve", "raise")>> \in Seq(S)
      BY <2>1
    <2> HIDE DEF S
    <2> QED BY <2>1, <2>2, ConcatProperties
  <1>2. ASSUME NEW x \in S PROVE Takes(x) \subseteq SolveTakes
    <2>1. CASE x \in Works(SolveFiles)
      <3>1. x.op \in Builds /\ (x.op # "digest" => x.file \in SolveFiles \cup {"none"}) /\ "tmp" \in SolveFiles
        BY <2>1 DEF Works, SolveFiles, Temps, Scratch, Outputs
      <3>2. x.op \in {"make", "run", "copy", "digest", "unlink", "rename"} => x.file \in Files
        BY <2>1 DEF Works, Lawful
      <3>3. "none" \notin Files
        BY DEF Files, Products, Scratch, Outputs, Objects, Adapters
      <3>4. \A f \in SolveFiles : Of(f) \subseteq SolveTakes
        BY DEF SolveTakes
      <3>5. {Sound} \cup {Noted(f) : f \in Files} \subseteq SolveTakes
        BY DEF SolveTakes, Lasting
      <3> QED BY <3>1, <3>2, <3>3, <3>4, <3>5 DEF Takes, Builds
    <2>2. CASE x \in {Call, Answer, Return("solve", "raise")}
      BY <2>2 DEF Takes, Call, Answer, Return, Step
    <2> QED BY <2>1, <2>2 DEF SolveActs
  <1>3. S \subseteq Plain(c)
    BY PlainKinds
  <1> HIDE DEF S
  <1>4. \A i \in 1..Len(Solve(backend)) : Takes(Solve(backend)[i]) \cap R = {}
    <2>1. \A i \in 1..Len(Solve(backend)) : Solve(backend)[i] \in S
      BY <1>1
    <2> QED BY <1>2, <2>1
  <1>5. Supplied(Solve(backend), {} \cup R, SolveOwed \cup R)
    <2>1. Len(Solve(backend)) \in Nat
      BY <1>1
    <2> QED BY <1>1, <1>4, <2>1, SuppliedBeside
  <1>6. Supplied(Solve(backend), R, SolveOwed \cup R)
    BY <1>5, SuppliedWeaker
  <1> QED BY <1>1, <1>3, <1>6

LEMMA BuildSolveStep ==
    ASSUME IInv, BuildSolve
    PROVE  IInv'
  <1>1. At("solve")
    BY DEF BuildSolve
  <1>2. /\ running /\ todo # <<>> /\ TypeOK /\ step.op = "solve" /\ Supply /\ runs > 0 /\ exit = 9
        /\ Nesting /\ SolveKept /\ Honest
    BY <1>1, AtStep DEF IInv, Steady
  <1>3. UNCHANGED <<fixed, said, failed, files, manifests, noted, solved>>
    BY DEF BuildSolve, disk
  <1>4. (Good' <=> Good) /\ cmd' = cmd /\ runs' > 0 /\ exit' = 9
    BY <1>2, <1>3 DEF Good, cmd, said, fixed
  <1>5. Have \subseteq Have'
    <2>1. Have \ {} \subseteq Have'
      BY <1>3, <1>4, Keeping DEF fixed
    <2> QED BY <2>1
  <1>6. Takes(step) = SolveTakes /\ Gives(step, Have) = SolveOwed
    BY <1>2 DEF Takes, Gives
  <1>7. ManifestOfWhole'
    BY <1>3 DEF IInv, ManifestOfWhole
  <1>8. CASE solved
    <2>1. todo' = Tail(todo) /\ core' = core
      BY <1>8 DEF BuildSolve
    <2>2. SolveOwed \subseteq Have
      BY <1>2, <1>8 DEF SolveKept
    <2>3. (Have \ Takes(step)) \cup Gives(step, Have) \subseteq Have'
      BY <1>5, <1>6, <2>2
    <2>4. Steady'
      BY <1>2, <1>3, <2>1, <2>3, GoingOn
    <2> QED BY <1>2, <1>3, <1>7, <2>1, <2>4, Stepping DEF TypeOK, said
  <1>9. CASE ~solved
    <2> DEFINE t == Tail(todo)
               b == cmd.backend
               R == Have \ SolveTakes
    <2>1. todo' = Solve(b) \o t /\ core' = FALSE
      BY <1>9 DEF BuildSolve
    <2>2. /\ t \in Seq(Plain(cmd)) /\ Closed(t) /\ Once(t) /\ Suffix(t, todo, 1)
          /\ Len(todo) \in Nat \ {0} /\ step = todo[1] /\ Once(todo)
      BY <1>2, StepFacts DEF Supply
    <2>3. Supplied(t, SolveOwed \cup R, Owed(cmd))
      <3>1. (Have \ Takes(step)) \cup Gives(step, Have) \subseteq SolveOwed \cup R
        BY <1>6
      <3> HIDE DEF R, t
      <3> QED BY <1>2, <3>1, StepFacts DEF t
    <2>4. R \in SUBSET Passing /\ R \cap SolveTakes = {}
      BY DEF Have, Things, SolveTakes
    <2> HIDE DEF t, b, R
    <2>5. Supplied(Solve(b), R, SolveOwed \cup R) /\ Solve(b) \in Seq(Plain(cmd))
      BY <2>4, SolveBeside
    <2>6. Supplied(Solve(b) \o t, Have', Owed(cmd))
      <3>1. Supplied(Solve(b) \o t, R, Owed(cmd))
        BY <2>2, <2>3, <2>5, SuppliedConcat
      <3>2. R \subseteq Have'
        BY <1>5 DEF R
      <3> QED BY <3>1, <3>2, SuppliedWeaker
    <2>7. t \in Seq(Lawful)
      <3>1. Plain(cmd) \subseteq Lawful
        BY PlainKinds
      <3> QED BY <2>2, <3>1
    <2>8. Closed(Solve(b) \o t)
      BY <2>2, <2>7, ShutSolve, ShutConcat DEF Shut
    <2>9. \A i \in 1..Len(t) : ~Touches(t[i])
      BY <1>2, <2>2, HeadFacts DEF Solves
    <2>10. Once(Solve(b) \o t)
      BY <2>7, <2>9, OnceSolve
    <2>11. Solve(b) \o t \in Seq(Plain(cmd))
      BY <2>2, <2>5, ConcatProperties
    <2>12. Supply'
      BY <1>4, <2>1, <2>6, <2>8, <2>10, <2>11 DEF Supply
    <2>13. Nesting'
      <3>1. ~nested
        BY <1>2, <2>2, HeadFacts DEF Nesting, Blocks
      <3> QED BY <1>2, <1>3, <3>1 DEF Nesting, said
    <2>14. SolveKept'
      BY <1>3, <1>9 DEF SolveKept
    <2>15. Steady'
      BY <1>2, <1>3, <1>4, <2>12, <2>13, <2>14 DEF Steady, Honest
    <2> QED BY <1>2, <1>3, <1>7, <2>1, <2>15, Stepping DEF TypeOK, said
  <1> QED BY <1>8, <1>9

LEMMA ReturnFromStep ==
    ASSUME IInv, ReturnFrom
    PROVE  IInv'
  <1>1. At("return")
    BY DEF ReturnFrom
  <1>2. /\ running /\ todo # <<>> /\ TypeOK /\ step.op = "return" /\ Supply /\ runs > 0 /\ exit = 9
        /\ Nesting /\ SolveKept /\ Honest /\ Needs(step) \subseteq Have
    BY <1>1, AtStep DEF IInv, Steady
  <1>3. /\ solved' = (IF step.file = "solve" THEN core ELSE solved) /\ todo' = Tail(todo)
        /\ UNCHANGED <<fixed, said, failed, files, manifests, noted, core>>
    BY DEF ReturnFrom, GoOn, disk
  <1>4. (Good' <=> Good) /\ cmd' = cmd /\ runs' > 0 /\ exit' = 9
    BY <1>2, <1>3 DEF Good, cmd, said, fixed
  <1>5. Have \subseteq Have'
    <2>1. Have \ {} \subseteq Have'
      BY <1>3, <1>4, Keeping DEF fixed
    <2> QED BY <2>1
  <1>6. (Have \ Takes(step)) \cup Gives(step, Have) \subseteq Have'
    BY <1>2, <1>5 DEF Takes, Gives
  <1>7. ManifestOfWhole' /\ solved' \in BOOLEAN
    BY <1>2, <1>3 DEF IInv, ManifestOfWhole, TypeOK
  <1>8. CASE step.file # "solve"
    <2>1. Steady'
      BY <1>2, <1>3, <1>6, <1>8, GoingOn
    <2> QED BY <1>2, <1>3, <1>7, <2>1, Stepping DEF TypeOK, said
  <1>9. CASE step.file = "solve"
    <2>1. /\ Tail(todo) \in Seq(Plain(cmd)) /\ Closed(Tail(todo)) /\ Once(Tail(todo)) /\ Once(todo)
          /\ Suffix(Tail(todo), todo, 1) /\ Len(todo) \in Nat \ {0} /\ step = todo[1]
      BY <1>2, StepFacts DEF Supply
    <2>2. Supplied(Tail(todo), Have', Owed(cmd))
      BY <1>2, <1>6, StepFacts
    <2>3. Supply'
      BY <1>3, <1>4, <2>1, <2>2 DEF Supply
    <2>4. Nesting'
      <3>1. nested => Awaits(Tail(todo))
        BY <1>2, <2>1, HeadFacts DEF Nesting
      <3> QED BY <1>2, <1>3, <3>1 DEF Nesting, said
    <2>5. SolveKept'
      <3>1. SolveOwed \subseteq Have'
        BY <1>2, <1>5, <1>9 DEF Needs
      <3>2. \A i \in 1..Len(Tail(todo)) : ~Touches(Tail(todo)[i])
        BY <1>2, <1>9, <2>1, HeadFacts DEF Solves
      <3> QED BY <1>3, <3>1, <3>2 DEF SolveKept
    <2>6. Steady'
      BY <1>2, <1>3, <1>4, <2>3, <2>4, <2>5 DEF Steady, Honest
    <2> QED BY <1>2, <1>3, <1>7, <2>6, Stepping DEF TypeOK, said
  <1> QED BY <1>8, <1>9

LEMMA CallNestedStep ==
    ASSUME IInv, CallNested
    PROVE  IInv'
  <1>1. At("call")
    BY DEF CallNested
  <1>2. /\ running /\ todo # <<>> /\ TypeOK /\ step.op = "call" /\ Supply /\ runs > 0 /\ exit = 9
        /\ Nesting /\ SolveKept /\ Honest
    BY <1>1, AtStep DEF IInv, Steady
  <1>3. /\ nested' = TRUE /\ inner' = {} /\ todo' = Tail(todo)
        /\ UNCHANGED <<fixed, diags, failed, files, manifests, noted, core, solved>>
    BY DEF CallNested, disk, memo
  <1>4. /\ Tail(todo) \in Seq(Plain(cmd)) /\ Closed(Tail(todo)) /\ Once(Tail(todo)) /\ Closed(todo)
        /\ Suffix(Tail(todo), todo, 1) /\ Len(todo) \in Nat \ {0} /\ step = todo[1]
    BY <1>2, StepFacts DEF Supply
  <1>5. ~nested /\ inner = {}
    <2>1. ~nested
      BY <1>2, <1>4, HeadFacts DEF Nesting, Blocks
    <2> QED BY <1>2, <2>1 DEF Nesting
  <1>6. (Good' <=> Good) /\ cmd' = cmd /\ runs' > 0 /\ exit' = 9
    BY <1>2, <1>3, <1>5 DEF Good, cmd, fixed
  <1>7. Have \subseteq Have'
    <2>1. Have \ {} \subseteq Have'
      BY <1>3, <1>6, Keeping DEF fixed
    <2> QED BY <2>1
  <1>8. Supply'
    <2>1. (Have \ Takes(step)) \cup Gives(step, Have) \subseteq Have'
      BY <1>2, <1>7 DEF Takes, Gives
    <2>2. Supplied(Tail(todo), Have', Owed(cmd))
      BY <1>2, <2>1, StepFacts
    <2> QED BY <1>3, <1>4, <1>6, <2>2 DEF Supply
  <1>9. Nesting'
    <2>1. Awaits(Tail(todo))
      BY <1>2, <1>4, HeadFacts
    <2> QED BY <1>3, <2>1 DEF Nesting
  <1>10. SolveKept'
    <2> SUFFICES ASSUME solved PROVE SolveOwed \subseteq Have' /\ \A i \in 1..Len(todo') : ~Touches(todo'[i])
      BY <1>3 DEF SolveKept
    <2>1. SolveOwed \subseteq Have /\ \A i \in 1..Len(todo) : ~Touches(todo[i])
      BY <1>2 DEF SolveKept
    <2> QED BY <1>3, <1>4, <1>7, <2>1 DEF Suffix
  <1>11. Steady'
    BY <1>2, <1>3, <1>6, <1>8, <1>9, <1>10 DEF Steady, Honest
  <1>12. ManifestOfWhole'
    BY <1>3 DEF IInv, ManifestOfWhole
  <1> QED BY <1>2, <1>3, <1>11, <1>12, Stepping DEF TypeOK

LEMMA TakeAnswerStep ==
    ASSUME IInv, TakeAnswer
    PROVE  IInv'
  <1>1. At("answer")
    BY DEF TakeAnswer
  <1>2. /\ running /\ todo # <<>> /\ TypeOK /\ step.op = "answer" /\ Supply /\ runs > 0 /\ exit = 9
        /\ Nesting /\ SolveKept /\ Honest
    BY <1>1, AtStep DEF IInv, Steady
  <1>3. /\ nested' = FALSE /\ inner' = {}
        /\ UNCHANGED <<fixed, failed, files, manifests, noted, core, solved>>
    BY DEF TakeAnswer, disk, memo
  <1>4. ExitCodeOf(inner) = 0 <=> inner = {}
    <2>1. inner \in SUBSET {Failed, Internal}
      BY <1>2 DEF TypeOK
    <2> QED BY <2>1, ExitFacts
  <1>5. ManifestOfWhole'
    BY <1>3 DEF IInv, ManifestOfWhole
  <1>6. CASE inner = {}
    <2>1. todo' = Tail(todo) /\ diags' = diags
      BY <1>4, <1>6 DEF TakeAnswer
    <2>2. (Good' <=> Good) /\ cmd' = cmd /\ runs' > 0 /\ exit' = 9
      BY <1>2, <1>3, <1>6, <2>1 DEF Good, cmd, fixed
    <2>3. Have \subseteq Have'
      <3>1. Have \ {} \subseteq Have'
        BY <1>3, <2>2, Keeping DEF fixed
      <3> QED BY <3>1
    <2>4. /\ Tail(todo) \in Seq(Plain(cmd)) /\ Closed(Tail(todo)) /\ Once(Tail(todo))
          /\ Suffix(Tail(todo), todo, 1) /\ Len(todo) \in Nat \ {0} /\ step = todo[1]
      BY <1>2, StepFacts
    <2>5. Supply'
      <3>1. (Have \ Takes(step)) \cup Gives(step, Have) \subseteq Have'
        BY <1>2, <2>3 DEF Takes, Gives
      <3>2. Supplied(Tail(todo), Have', Owed(cmd))
        BY <1>2, <3>1, StepFacts
      <3> QED BY <2>1, <2>2, <2>4, <3>2 DEF Supply
    <2>6. Nesting'
      BY <1>3 DEF Nesting
    <2>7. SolveKept'
      <3> SUFFICES ASSUME solved PROVE SolveOwed \subseteq Have' /\ \A i \in 1..Len(todo') : ~Touches(todo'[i])
        BY <1>3 DEF SolveKept
      <3>1. SolveOwed \subseteq Have /\ \A i \in 1..Len(todo) : ~Touches(todo[i])
        BY <1>2 DEF SolveKept
      <3> QED BY <2>1, <2>3, <2>4, <3>1 DEF Suffix
    <2>8. Steady'
      BY <1>2, <1>3, <2>2, <2>5, <2>6, <2>7 DEF Steady, Honest
    <2> QED BY <1>2, <1>3, <1>5, <2>1, <2>8, Stepping DEF TypeOK
  <1>7. CASE inner # {}
    <2>1. todo' = From(Tail(todo), Returns) /\ diags' = diags \cup {Internal}
      BY <1>4, <1>7 DEF TakeAnswer
    <2>2. ~Good' /\ diags' \subseteq {Failed, Internal}
      BY <1>2, <2>1 DEF Good, TypeOK
    <2>3. ~failed' => cmd.emit = "compose"
      BY <1>2, <1>3, <1>7 DEF Honest, Good
    <2>4. \A x \in Returns : x.op \in {"return", "answer"}
      BY DEF Returns
    <2>5. Steady'
      BY <1>2, <1>3, <2>1, <2>2, <2>3, <2>4, Jumping
    <2> QED BY <1>2, <1>3, <1>5, <2>2, <2>5, Stepping DEF TypeOK
  <1> QED BY <1>6, <1>7

LEMMA AnswerLostStep ==
    ASSUME IInv, AnswerLost
    PROVE  IInv'
  <1>1. At("answer")
    BY DEF AnswerLost
  <1>2. running /\ todo # <<>> /\ TypeOK
    BY <1>1, AtStep
  <1>3. /\ nested' = FALSE /\ inner' = {} /\ failed' = TRUE
        /\ todo' = From(Tail(todo), Catching) /\ diags' = diags \cup {Internal}
        /\ UNCHANGED <<fixed, files, manifests, noted, core, solved>>
    BY DEF AnswerLost, disk, memo
  <1>4. ~Good' /\ diags' \subseteq {Failed, Internal}
    BY <1>2, <1>3 DEF Good, TypeOK
  <1>5. \A x \in Catching : x.op \in {"return", "answer"}
    BY DEF Catching, Returns
  <1>6. Steady'
    BY <1>2, <1>3, <1>4, <1>5, Jumping
  <1>7. ManifestOfWhole'
    BY <1>3 DEF IInv, ManifestOfWhole
  <1> QED BY <1>2, <1>3, <1>4, <1>6, <1>7, Stepping DEF TypeOK

LEMMA EmitReportStep ==
    ASSUME IInv, EmitReport
    PROVE  IInv'
  <1>1. /\ running /\ todo = <<>> /\ TypeOK /\ Supply /\ runs > 0 /\ Nesting /\ Honest
    BY DEF EmitReport, IInv, Steady
  <1>2. /\ running' = FALSE /\ files' = Forget
        /\ UNCHANGED <<source, manifests, history, runs, loaded, todo, noted, core, solved, said>>
        /\ \/ exit' = ExitCodeOf(diags) /\ failed' = failed
           \/ exit' = 2 /\ failed' = TRUE
    BY DEF EmitReport, memo
  <1>3. inner = {}
    <2>1. ~Awaits(<<>>)
      <3>1. Len(<<>>) = 0
        OBVIOUS
      <3> QED BY <3>1 DEF Awaits
    <2> QED BY <1>1, <2>1 DEF Nesting
  <1>4. ExitCodeOf(diags) \in {0, 1, 2} /\ (ExitCodeOf(diags) = 0 <=> Good)
    <2>1. diags \in SUBSET {Failed, Internal}
      BY <1>1 DEF TypeOK
    <2> QED BY <1>3, <2>1, ExitFacts DEF Good
  <1>5. cmd' = cmd /\ cmd \in Lines /\ Owed(cmd) \subseteq Passing
    BY <1>1, <1>2, CmdIs DEF cmd
  <1>6. files' \in [Files -> Contents] /\ \A p \in Products : files'[p] = files[p]
    <2>1. \A p \in Products : p \in Files /\ p \notin Scratch
      BY DEF Files, Products, Scratch, Outputs, Adapters
    <2> QED BY <1>1, <1>2, <2>1, AreContents DEF Forget, TypeOK
  <1>7. ASSUME Good PROVE Delivered'
    <2>1. Owed(cmd) \subseteq Have
      BY <1>1, SuppliedEmpty DEF Supply
    <2>2. \A p \in Goals(cmd) : p \in Products /\ p \in Files
      <3>1. \A p \in Goals(cmd) : Fine(p) \in Passing
        BY <1>5 DEF Owed
      <3>2. Goals(cmd) \subseteq Products
        <4> DEFINE c == cmd
        <4> HIDE DEF c
        <4>1. c.emit \in Emits => Goals(c) \subseteq Products
          BY AreThings DEF Goals, Adapters, Emits
        <4> QED BY <1>5, <4>1 DEF Lines, c
      <3> QED BY <3>2, AreThings
    <2>3. \A p \in Goals(cmd) : FineNow(p)
      <3>1. \A p \in Goals(cmd) : Fine(p) \in Have
        BY <2>1 DEF Owed
      <3> QED BY <1>7, <2>2, <3>1, HaveIs DEF HaveMeans
    <2>4. ASSUME cmd.manifest PROVE \A p \in Goals(cmd) : manifests[p] = [of |-> files[p], whole |-> TRUE]
      <3>1. \A p \in Goals(cmd) : Described(p) \in Have
        BY <2>1, <2>4 DEF Owed
      <3> QED BY <1>7, <2>2, <3>1, HaveIs DEF HaveMeans
    <2>5. loaded' = loaded /\ manifests' = manifests
      BY <1>2
    <2> QED BY <1>5, <1>6, <2>2, <2>3, <2>4, <2>5 DEF Delivered, FineNow, LeftNow, Foreign, Fresh
  <1>8. Ended'
    <2>1. runs' > 0 /\ todo' = <<>>
      BY <1>1, <1>2
    <2>2. exit' = 0 => Delivered'
      BY <1>2, <1>4, <1>7
    <2>3. failed' => exit' # 0
      <3>1. failed => ~Good
        BY <1>1 DEF Honest
      <3>2. CASE exit' = ExitCodeOf(diags) /\ failed' = failed
        BY <1>4, <3>1, <3>2, Zenon
      <3>3. CASE exit' = 2 /\ failed' = TRUE
        BY <3>3
      <3> QED BY <1>2, <3>2, <3>3
    <2>4. ~failed' /\ cmd.emit # "compose" => exit' = 0
      BY <1>1, <1>2, <1>4 DEF Honest
    <2> QED BY <1>5, <2>1, <2>2, <2>3, <2>4 DEF Ended
  <1>9. TypeOK'
    BY <1>1, <1>2, <1>4, <1>6 DEF TypeOK, said
  <1>10. ManifestOfWhole'
    BY <1>2 DEF IInv, ManifestOfWhole
  <1>11. Steady'
    BY <1>2 DEF Steady
  <1> QED BY <1>8, <1>9, <1>10, <1>11 DEF IInv

LEMMA KillStep ==
    ASSUME IInv, Kill
    PROVE  IInv'
  <1>1. running /\ TypeOK /\ exit = 9 /\ ManifestOfWhole
    BY DEF Kill, IInv, Steady
  <1>2. /\ running' = FALSE /\ todo' = <<>> /\ noted' = Absent /\ core' = FALSE /\ solved' = FALSE
        /\ diags' = {} /\ nested' = FALSE /\ inner' = {} /\ failed' = TRUE
        /\ UNCHANGED <<source, history, runs, loaded, exit>>
        /\ files' = IF (At("make") \/ At("run")) /\ step.file \notin Scratch
                      THEN [Forget EXCEPT ![step.file] = Torn] ELSE Forget
        /\ manifests' = IF At("manifest") THEN [manifests EXCEPT ![step.file] = Unread] ELSE manifests
    BY DEF Kill
  <1>3. files' \in [Files -> Contents]
    <2>1. Forget \in [Files -> Contents]
      BY <1>1, AreContents DEF Forget, TypeOK
    <2>2. [Forget EXCEPT ![step.file] = Torn] \in [Files -> Contents]
      BY <2>1, AreContents
    <2> QED BY <1>2, <2>1, <2>2
  <1>4. manifests' \in [Products -> [of : Contents, whole : BOOLEAN]]
    BY <1>1, <1>2, AreContents DEF TypeOK
  <1>5. ManifestOfWhole'
    <2>1. \A p \in Products : manifests'[p] = manifests[p] \/ manifests'[p] = Unread
      BY <1>1, <1>2 DEF TypeOK
    <2> QED BY <1>1, <2>1, AreContents DEF ManifestOfWhole
  <1>6. TypeOK'
    <2>1. todo' \in Seq(Steps)
      BY <1>2
    <2> QED BY <1>1, <1>2, <1>3, <1>4, <2>1, AreContents DEF TypeOK
  <1> QED BY <1>1, <1>2, <1>5, <1>6 DEF IInv, Steady, Ended

LEMMA StartStep ==
    ASSUME IInv, Start
    PROVE  IInv'
  <1>1. ~running /\ runs < Len(history) /\ TypeOK /\ ManifestOfWhole
    BY DEF Start, IInv
  <1>2. /\ runs' = runs + 1 /\ running' = TRUE /\ loaded' = source /\ todo' = Pipeline(history[runs + 1])
        /\ noted' = Absent /\ core' = FALSE /\ solved' = FALSE
        /\ diags' = {} /\ nested' = FALSE /\ inner' = {} /\ failed' = FALSE /\ exit' = 9
        /\ UNCHANGED <<source, history, files, manifests>>
    BY DEF Start, disk
  <1>3. runs' \in 1..Len(history) /\ runs' \in 0..Len(history) /\ runs' > 0
    BY <1>1, <1>2, ConstantsAssumption DEF TypeOK
  <1>4. PICK c : c = history[runs + 1]
    OBVIOUS
  <1>5. c \in Lines /\ cmd' = c /\ todo' = Pipeline(c)
    BY <1>1, <1>2, <1>3, <1>4, ConstantsAssumption DEF TypeOK, cmd
  <1>6. Good'
    BY <1>2 DEF Good
  <1>7. Found(c) \subseteq Have'
    <2> SUFFICES ASSUME c.emit = "compose" PROVE Fine("solve") \in Have' /\ Fine("http-adapter") \in Have'
      BY DEF Found
    <2>1. FineNow("solve")' /\ FineNow("http-adapter")'
      BY <1>5 DEF FineNow, Foreign
    <2>2. "solve" \in Files /\ "http-adapter" \in Files
      BY AreThings DEF Adapters
    <2> QED BY <2>1, <2>2, HaveWillBe DEF HaveMeans
  <1>8. Pipeline(c) \in Seq(Plain(c)) /\ Supplied(Pipeline(c), Have', Owed(c))
    BY <1>5, <1>7, PipelineFits, SuppliedWeaker DEF Fit
  <1>9. Closed(Pipeline(c)) /\ Once(Pipeline(c))
    BY <1>5, PipelineFacts DEF Shut
  <1>10. Supply'
    BY <1>5, <1>8, <1>9 DEF Supply
  <1>11. Steady'
    BY <1>2, <1>3, <1>6, <1>10 DEF Steady, Nesting, SolveKept, Honest
  <1>12. TypeOK'
    <2>1. todo' \in Seq(Steps)
      <3>1. Plain(c) \subseteq Steps
        BY DEF Plain, Lawful
      <3> QED BY <1>5, <1>8, <3>1
    <2>2. loaded' \in 1..source'
      BY <1>1, <1>2, ConstantsAssumption DEF TypeOK, Sources
    <2> QED BY <1>1, <1>2, <1>3, <2>1, <2>2, AreContents DEF TypeOK
  <1> QED BY <1>1, <1>2, <1>11, <1>12 DEF IInv, Ended, ManifestOfWhole

LEMMA EditSourceStep ==
    ASSUME IInv, EditSource
    PROVE  IInv'
  <1>1. TypeOK /\ Steady /\ Ended /\ ManifestOfWhole
    BY DEF IInv
  <1>2. /\ source < MaxSource /\ source' = source + 1
        /\ UNCHANGED <<files, manifests, history, runs, running, loaded, todo, noted, core, solved,
                       diags, nested, inner, failed, exit>>
    BY DEF EditSource, disk, memo, said
  <1>3. TypeOK'
    <2>1. source' \in Sources /\ loaded' \in 1..source'
      BY <1>1, <1>2, ConstantsAssumption DEF TypeOK, Sources
    <2> QED BY <1>1, <1>2, <2>1 DEF TypeOK
  <1>4. (Good' <=> Good) /\ cmd' = cmd
    BY <1>2 DEF Good, cmd
  <1>5. Have \subseteq Have'
    <2>1. Have \ {} \subseteq Have'
      BY <1>2, <1>4, Keeping
    <2> QED BY <2>1
  <1>6. Steady'
    <2> SUFFICES ASSUME running PROVE Steady'
      BY <1>2 DEF Steady
    <2>1. runs > 0 /\ exit = 9 /\ Supply /\ Nesting /\ SolveKept /\ Honest
      BY <1>1 DEF Steady
    <2>2. Supply'
      <3>1. Supplied(todo, Have', Owed(cmd))
        BY <1>5, <2>1, SuppliedWeaker DEF Supply
      <3> QED BY <1>2, <1>4, <2>1, <3>1 DEF Supply
    <2>3. Nesting' /\ Honest'
      BY <1>2, <1>4, <2>1 DEF Nesting, Honest
    <2>4. SolveKept'
      BY <1>2, <1>5, <2>1 DEF SolveKept
    <2> QED BY <1>2, <2>1, <2>2, <2>3, <2>4 DEF Steady
  <1>7. Ended'
    <2>1. Delivered => Delivered'
      BY <1>2, <1>4 DEF Delivered, FineNow, LeftNow, Foreign, Fresh
    <2> QED BY <1>1, <1>2, <1>4, <2>1 DEF Ended
  <1>8. ManifestOfWhole'
    BY <1>1, <1>2 DEF ManifestOfWhole
  <1> QED BY <1>3, <1>6, <1>7, <1>8 DEF IInv

LEMMA StutterStep ==
    ASSUME IInv, UNCHANGED vars
    PROVE  IInv'
  BY DEF vars, IInv, TypeOK, Steady, Ended, ManifestOfWhole, Supply, Nesting, SolveKept, Honest, Have,
         Holds, FineNow, LeftNow, Foreign, Fresh, Good, Delivered, cmd

-----------------------------------------------------------------------------
(* The theorems.                                                           *)

LEMMA InitInv ==
    ASSUME Init
    PROVE  IInv
  <1>1. TypeOK
    <2>1. source \in Sources /\ loaded \in 1..source
      BY ConstantsAssumption DEF Init, Sources
    <2>2. Len(history) \in Nat
      BY ConstantsAssumption DEF Init
    <2>3. files \in [Files -> Contents] /\ manifests \in [Products -> [of : Contents, whole : BOOLEAN]]
      BY AreContents DEF Init
    <2>4. todo \in Seq(Steps)
      BY DEF Init
    <2>5. history \in Histories /\ runs \in 0..Len(history) /\ running \in BOOLEAN
      <3>1. running \in BOOLEAN
        BY Zenon DEF Init
      <3>2. history \in Histories /\ runs = 0
        BY DEF Init
      <3>3. runs \in 0..Len(history)
        BY <2>2, <3>2
      <3> QED BY <3>1, <3>2, <3>3
    <2>6. noted \in Contents /\ core \in BOOLEAN /\ solved \in BOOLEAN /\ nested \in BOOLEAN /\ failed \in BOOLEAN
      BY AreContents DEF Init
    <2>7. diags \subseteq {Failed, Internal} /\ inner \subseteq {Failed} /\ exit \in {0, 1, 2, 9}
      BY DEF Init
    <2>8. loaded \in 1..source /\ source \in Sources
      BY <2>1
    <2> QED BY <2>3, <2>4, <2>5, <2>6, <2>7, <2>8 DEF TypeOK
  <1>2. Steady /\ Ended
    BY DEF Init, Steady, Ended
  <1>3. ManifestOfWhole
    BY AreContents DEF Init, ManifestOfWhole
  <1> QED BY <1>1, <1>2, <1>3 DEF IInv

LEMMA NextInv ==
    ASSUME IInv, [Next]_vars
    PROVE  IInv'
  <1>1. CASE UNCHANGED vars
    BY <1>1, StutterStep
  <1>2. CASE Rest
    BY <1>2, StutterStep DEF Rest
  <1>3. CASE EditSource \/ Start \/ Kill \/ EmitReport \/ Dispatch
    BY <1>3, EditSourceStep, StartStep, KillStep, EmitReportStep, DispatchStep
  <1>3a. CASE LeavesFile \/ CopyFile \/ Finds \/ Misses
    BY <1>3a, LeavesFileStep, CopyFileStep, FindsStep, MissesStep
  <1>4. CASE MakeFile \/ MakeFails \/ TakeDigest \/ DigestFails \/ WriteManifest \/ ManifestFails
    BY <1>4, MakeFileStep, MakeFailsStep, TakeDigestStep, DigestFailsStep, WriteManifestStep, ManifestFailsStep
  <1>5. CASE Passes \/ Refuses \/ PassGate \/ Unlink \/ Rename \/ RenameFails \/ Clean
    BY <1>5, PassesStep, RefusesStep, PassGateStep, UnlinkStep, RenameStep, RenameFailsStep, CleanStep
  <1>6. CASE BuildSolve \/ ReturnFrom \/ CallNested \/ TakeAnswer \/ AnswerLost
    BY <1>6, BuildSolveStep, ReturnFromStep, CallNestedStep, TakeAnswerStep, AnswerLostStep
  <1> QED BY <1>1, <1>2, <1>3, <1>3a, <1>4, <1>5, <1>6 DEF Next

\* Wherever a failing step, an error that is caught or a kill has left a
\* build, the steps that are left find what they need or have been spoiled.
THEOREM Inductive == Spec => []IInv
  <1>1. Init => IInv
    BY InitInv
  <1>2. IInv /\ [Next]_vars => IInv'
    BY NextInv
  <1> QED BY <1>1, <1>2, PTL DEF Spec

\* Every variable keeps its type: a build never loads profiles of the future,
\* never runs past the command lines and ends with exit code 0, 1 or 2.
THEOREM TypeCorrect == Spec => []TypeOK
  <1>1. IInv => TypeOK
    BY DEF IInv
  <1> QED BY <1>1, Inductive, PTL

\* x07-wasm build and component build never end with exit code 0 without all
\* that was asked for, nor on a file that an earlier invocation has left or that
\* is cut short, unless that goes back to an output which cargo or the native
\* backend had left as it was and exited with 0.
THEOREM FreshOnSuccess == Spec => []SuccessFresh
  <1>1. \A c : c.emit = "compose" => Goals(c) = {"http"}
    BY DEF Goals, Adapters
  <1>2. ASSUME IInv, Succeeded PROVE SuccessFresh
    <2>1. \A p \in Goals(cmd) : FineNow(p)
      <3>1. Ended /\ ~running /\ exit = 0 /\ exit # 9
        BY <1>2 DEF IInv, Succeeded
      <3>2. Delivered
        BY <3>1 DEF Ended
      <3> QED BY <3>2 DEF Delivered
    <2>2. \A p \in Goals(cmd) : ~Foreign(p)
      BY <1>1 DEF Foreign
    <2> QED BY <2>1, <2>2 DEF FineNow, LeftNow, SuccessFresh
  <1>3. IInv => SuccessFresh
    BY <1>2 DEF SuccessFresh
  <1> QED BY <1>3, Inductive, PTL

\* After exit code 0 the artifact documents describe what lies next to them.
THEOREM DescribedOnSuccess == Spec => []SuccessDescribed
  <1>1. IInv => SuccessDescribed
    BY DEF IInv, Ended, Delivered, SuccessDescribed, Succeeded
  <1> QED BY <1>1, Inductive, PTL

\* An artifact document never names the digest of a component that was not
\* written to its end, at any moment of any invocation, but for one that goes
\* back to an output which was only claimed.
THEOREM ManifestsOfWhole == Spec => []ManifestOfWhole
  <1>1. IInv => ManifestOfWhole
    BY DEF IInv
  <1> QED BY <1>1, Inductive, PTL

\* The exit code tells whether a step has failed, those of nested commands
\* included, and what earlier runs have left makes no build fail.
THEOREM ExitTells == Spec => []ExitTellsFailure
  <1>1. IInv => ExitTellsFailure
    BY DEF IInv, Ended, ExitTellsFailure
  <1> QED BY <1>1, Inductive, PTL

=============================================================================
