------------------------- MODULE WorkloadPackProofs -------------------------
(***************************************************************************)
(* The safety properties of WorkloadPack for every project, sequence of    *)
(* commands, edit, failing write and kill.                                 *)
(***************************************************************************)
EXTENDS WorkloadPack, FiniteSetTheorems, SequenceTheorems, TLAPS

DocSet(s) == {Docs(s)[i] : i \in DOMAIN Docs(s)}

Known == {InputInvalid, WriteFailed} \cup ContractErrors

\* A command has done what it was given, whether it has said so or not.
Done == (pc = "emit" /\ diags = {}) \/ (pc = "idle" /\ exit = 0)

\* A command that has what it needs.
Ready == pc \in {"write", "copy", "embed", "answer"} \/ Done

\* What the variables allow each other.
Shape ==
    /\ TypeOK
    /\ pc # "idle" => exit = 9 /\ command \in CommandLines
    /\ exit = 0 => command \in CommandLines
    /\ diags \subseteq Known /\ (pc # "emit" => diags = {})
    /\ pc = "write" => command.kind \in Writers
    /\ pc \in {"copy", "embed"} => command.kind = "pack"
    /\ pc = "answer" => command.kind \in Readers
    /\ pc \in {"idle", "project", "manifest", "write"} => seen = {}
    /\ \A f \in Inside : out[Name("source", f)] \in Holds[f] \cup {Null}

\* What is in hand is a valid project, and the one that lies there if nothing
\* was edited.
Loaded ==
    /\ pc = "manifest" => source.project # Null
    /\ Ready => /\ source.project \in Projects /\ source.manifest \in Manifests
                /\ Valid(source.project, source.manifest)
    /\ steady /\ ~command.fromPack =>
          /\ Ready \/ pc = "manifest" =>
                source.project = tree[command.project] /\ source.project # Null
          /\ Ready => source.manifest = tree[command.manifest] /\ source.manifest # Null

\* Documents on their way: each is there or still to be written.
Progress(docs, files, list) ==
    /\ list \in Seq(docs)
    /\ \A d \in docs : files[d.name] = d.doc \/ \E j \in 1..Len(list) : list[j] = d

Written ==
    /\ pc = "write" => Progress(DocSet(source), out, todo)
    /\ pc \in {"copy", "embed"} => \A d \in DocSet(source) : out[d.name] = d.doc
    /\ pc = "embed" => Progress(Embedded(source), out, todo)

\* Files on their way: each is copied, or in the list, or below a root in it.
ToCopy == {Name("file", f) : f \in Files} \cup {Name("root", r) : r \in Roots}

Awaits(f, list) ==
    \E j \in 1..Len(list) :
        \/ list[j] = Name("file", f)
        \/ list[j].kind = "root" /\ f \in Under[list[j].id]

Same(f) == f \in Inside /\ out[Name("source", f)] = tree[f]

Copied ==
    /\ pc = "copy" =>
          /\ todo \in Seq(ToCopy)
          /\ steady => /\ \A f \in Belonging(source, command) : f \in seen \/ Awaits(f, todo)
                       /\ \A f \in seen : tree[f] # Null => Same(f)
    /\ steady /\ (pc = "embed" \/ (Done /\ command.kind = "pack")) =>
          \A f \in Belonging(source, command) : Same(f)

\* The runtime pack of a pack that has succeeded.
ListsTruth ==
    LET listed == out[Runtime].listed IN
    /\ \A n \in DOMAIN listed : out[n] # Null /\ listed[n] = out[n]
    /\ \A n \in Names : n.kind \in {"source", "topology"} /\ out[n] # Null => n \in DOMAIN listed
    /\ \A e \in Embedded(source) : e.name \in DOMAIN listed /\ out[e.name] = e.doc

Listing ==
    Done /\ command.kind = "pack" =>
        /\ out[Runtime].source = source /\ out[Runtime].command = command
        /\ ListsTruth

\* A pack that has succeeded on a steady project is left alone, and what is
\* read from it is what was packed.
Standing ==
    packed # NoSource =>
        /\ pc # "idle" => command.kind \notin Writers
        /\ out[Name("source", X07Json)] = packed.project
        /\ out[Name("source", Index)] = packed.manifest
        /\ out[Runtime].source = packed
        /\ command.kind \in Readers /\ command.fromPack =>
              /\ pc = "manifest" => source.project = packed.project
              /\ Ready => source = packed
              /\ runtime # Null => runtime.source = packed

IInv == Shape /\ Loaded /\ Written /\ Copied /\ Listing /\ Standing /\ RuntimePackCoherent

-----------------------------------------------------------------------------
(* Lemmas about names, documents and lists.                                *)

\* Names of different kinds or of different things are different.
LEMMA NameFacts ==
    /\ \A k, i : Name(k, i).kind = k /\ Name(k, i).id = i
    /\ \A k, i, l, j : Name(k, i) = Name(l, j) <=> k = l /\ i = j
    /\ Public \in Names /\ Describe \in Names /\ Bindings \in Names /\ Runtime \in Names
    /\ \A i \in ProfileIds : Name("topology", i) \in Names
    /\ \A k \in CellKeys : Name("embedded", k) \in Names
    /\ \A f \in Inside : Name("source", f) \in Names /\ Name("temp", f) \in Names
  <1>1. \A k, i : Name(k, i).kind = k /\ Name(k, i).id = i
    BY DEF Name
  <1>2. \A k, i, l, j : Name(k, i) = Name(l, j) <=> k = l /\ i = j
    BY <1>1
  <1>3. Public \in Names /\ Describe \in Names /\ Bindings \in Names /\ Runtime \in Names
    BY DEF Names
  <1>4. \A i \in ProfileIds : Name("topology", i) \in Names
    BY DEF Names
  <1>5. \A k \in CellKeys : Name("embedded", k) \in Names
    BY DEF Names
  <1>6. \A f \in Inside : Name("source", f) \in Names /\ Name("temp", f) \in Names
    BY DEF Names
  <1> QED BY <1>1, <1>2, <1>3, <1>4, <1>5, <1>6

\* A name of the directory is one of its kind.
LEMMA SourceNames ==
    ASSUME NEW n \in Names, n.kind = "source"
    PROVE  n.id \in Inside /\ n = Name("source", n.id)
  BY DEF Name, Names, Public, Describe, Bindings, Runtime

\* A manifest has at least the profile it is given by default.
LEMMA ProfilesFacts ==
    ASSUME NEW m \in Manifests
    PROVE  /\ Profiles(m) \in Seq(Parts)
           /\ \A i \in 1..Len(Profiles(m)) : Profiles(m)[i].id \in ProfileIds
           /\ Unique(Ids(m)) => \A i, j \in 1..Len(Profiles(m)) :
                                   Profiles(m)[i].id = Profiles(m)[j].id => i = j
  <1>1. m.profiles \in Seq({m.profiles[i] : i \in DOMAIN m.profiles})
        /\ \A i \in DOMAIN m.profiles : m.profiles[i].id \in ProfileIds
    BY ShapesAssumption
  <1>2. DOMAIN m.profiles = 1..Len(m.profiles)
    BY <1>1
  <1>3. \A i \in DOMAIN m.profiles : m.profiles[i] \in Parts
    BY DEF Parts
  <1>4. CASE m.profiles = <<>>
    <2>1. Profiles(m) = <<NoProfile>> /\ NoProfile \in Parts
      BY <1>4 DEF Profiles, Parts
    <2>2. NoProfile.id = "default"
      BY DEF NoProfile
    <2> QED BY <2>1, <2>2, ConstantsAssumption
  <1>5. CASE m.profiles # <<>>
    <2>1. Profiles(m) = m.profiles
      BY <1>5 DEF Profiles
    <2>2. m.profiles \in Seq(Parts)
      BY <1>1, <1>2, <1>3
    <2>3. Unique(Ids(m)) => \A i, j \in 1..Len(m.profiles) :
                               m.profiles[i].id = m.profiles[j].id => i = j
      BY <1>2 DEF Unique, Ids
    <2> QED BY <1>1, <1>2, <2>1, <2>2, <2>3
  <1> QED BY <1>4, <1>5

\* The documents of a build.
LEMMA DocSetIs ==
    ASSUME NEW s, s.manifest \in Manifests
    PROVE  LET P == Profiles(s.manifest) IN
           /\ Docs(s) \in Seq(DocSet(s))
           /\ DocSet(s) = {File(Public, s, Null), File(Describe, s, Null), File(Bindings, s, Null)}
                          \cup {File(Name("topology", P[i].id), s, P[i]) : i \in 1..Len(P)}
  <1> DEFINE P == Profiles(s.manifest)
             tops == [i \in DOMAIN P |-> File(Name("topology", P[i].id), s, P[i])]
             first == <<File(Public, s, Null), File(Describe, s, Null), File(Bindings, s, Null)>>
             all == {File(Public, s, Null), File(Describe, s, Null), File(Bindings, s, Null)}
                    \cup {File(Name("topology", P[i].id), s, P[i]) : i \in 1..Len(P)}
  <1>1. P \in Seq(Parts)
    BY ProfilesFacts
  <1>2. tops \in Seq(all) /\ Len(tops) = Len(P)
        /\ \A i \in 1..Len(P) : tops[i] = File(Name("topology", P[i].id), s, P[i])
    <2> HIDE DEF P
    <2>1. DOMAIN P = 1..Len(P) /\ Len(P) \in Nat
      BY <1>1
    <2>2. tops \in [1..Len(P) -> all]
      BY <2>1
    <2> QED BY <2>1, <2>2, IsASeq
  <1>3. first \in Seq(all) /\ Len(first) = 3
        /\ first[1] = File(Public, s, Null) /\ first[2] = File(Describe, s, Null)
        /\ first[3] = File(Bindings, s, Null)
    OBVIOUS
  <1>4. Docs(s) = first \o tops
    BY DEF Docs
  <1> HIDE DEF first, tops, all, P
  <1>5. /\ Docs(s) \in Seq(all) /\ Len(Docs(s)) = 3 + Len(P)
        /\ \A i \in 1..3 : Docs(s)[i] = first[i]
        /\ \A i \in 1..Len(P) : Docs(s)[3 + i] = tops[i]
    <2>1. Len(P) \in Nat
      BY <1>1
    <2>2. /\ first \o tops \in Seq(all) /\ Len(first \o tops) = Len(first) + Len(tops)
          /\ \A i \in 1 .. Len(first) + Len(tops) :
                (first \o tops)[i] = IF i <= Len(first) THEN first[i] ELSE tops[i - Len(first)]
      <3>1. first \in Seq(all) /\ tops \in Seq(all)
        BY <1>2, <1>3
      <3> QED BY <3>1, ConcatProperties, Zenon
    <2>3. \A i \in 1..3 : Docs(s)[i] = first[i]
      BY <1>2, <1>3, <1>4, <2>1, <2>2
    <2>4. ASSUME NEW i \in 1..Len(P) PROVE Docs(s)[3 + i] = tops[i]
      <3>1. 3 + i \in 1 .. 3 + Len(P) /\ ~(3 + i <= 3) /\ (3 + i) - 3 = i
        BY <2>1
      <3> QED BY <1>2, <1>3, <1>4, <2>2, <3>1
    <2> QED BY <1>2, <1>3, <1>4, <2>2, <2>3, <2>4
  <1>6. DOMAIN Docs(s) = 1..(3 + Len(P)) /\ Len(P) \in Nat
    BY <1>1, <1>5
  <1>7. DocSet(s) \subseteq all
    BY <1>5, <1>6 DEF DocSet
  <1>8. all \subseteq DocSet(s)
    <2>1. first[1] \in DocSet(s) /\ first[2] \in DocSet(s) /\ first[3] \in DocSet(s)
      <3>1. 1 \in DOMAIN Docs(s) /\ 2 \in DOMAIN Docs(s) /\ 3 \in DOMAIN Docs(s)
        BY <1>6
      <3> QED BY <1>5, <3>1 DEF DocSet
    <2>2. ASSUME NEW i \in 1..Len(P) PROVE tops[i] \in DocSet(s)
      <3>1. 3 + i \in DOMAIN Docs(s)
        BY <1>6
      <3> QED BY <1>5, <3>1 DEF DocSet
    <2> QED BY <1>2, <1>3, <2>1, <2>2 DEF all
  <1>9. DocSet(s) = all
    BY <1>7, <1>8
  <1> QED BY <1>5, <1>9 DEF all, P

\* Each has a name of its own and a place in the directory, and none is missing.
LEMMA DocFacts ==
    ASSUME NEW s, s.project \in Projects, s.manifest \in Manifests, Valid(s.project, s.manifest)
    PROVE  /\ \A d, e \in DocSet(s) : d.name = e.name => d = e
           /\ \A d \in DocSet(s) : /\ d.name \in Names /\ d.doc # Null
                                   /\ d.name.kind \in {"public", "describe", "bindings", "topology"}
  <1> DEFINE P == Profiles(s.manifest)
  <1>1. /\ P \in Seq(Parts) /\ \A i \in 1..Len(P) : P[i].id \in ProfileIds
        /\ \A i, j \in 1..Len(P) : P[i].id = P[j].id => i = j
    BY ProfilesFacts DEF Valid
  <1>2. DocSet(s) = {File(Public, s, Null), File(Describe, s, Null), File(Bindings, s, Null)}
                    \cup {File(Name("topology", P[i].id), s, P[i]) : i \in 1..Len(P)}
    BY DocSetIs
  <1> HIDE DEF P
  <1>3. \A part \in Parts : Doc(s, part) # Null
    BY DocumentsAssumption DEF Doc, Documents
  <1>4. Null \in Parts /\ \A i \in 1..Len(P) : P[i] \in Parts
    BY <1>1 DEF Parts
  <1>5. \A n, part : File(n, s, part).name = n /\ File(n, s, part).doc = Doc(s, part)
    BY DEF File
  <1>6. ASSUME NEW d \in DocSet(s)
        PROVE  /\ d.name \in Names /\ d.doc # Null
               /\ d.name.kind \in {"public", "describe", "bindings", "topology"}
    BY <1>1, <1>2, <1>3, <1>4, <1>5, <1>6, NameFacts DEF Public, Describe, Bindings
  <1>7. ASSUME NEW d \in DocSet(s), NEW e \in DocSet(s), d.name = e.name
        PROVE  d = e
    BY <1>1, <1>2, <1>5, <1>7, NameFacts DEF Public, Describe, Bindings
  <1> QED BY <1>6, <1>7

\* The starters of embedded kernels, likewise.
LEMMA EmbeddedFacts ==
    ASSUME NEW s, s.project \in Projects, s.manifest \in Manifests, Valid(s.project, s.manifest)
    PROVE  /\ IsFiniteSet(Embedded(s))
           /\ \A d, e \in Embedded(s) : d.name = e.name => d = e
           /\ \A d \in Embedded(s) : /\ d.name \in Names /\ d.doc # Null
                                     /\ d.name.kind = "embedded"
  <1> DEFINE m == s.manifest
  <1>1. m.cells \in Seq(Cells(m)) /\ \A c \in Cells(m) : c.key \in CellKeys
    BY ShapesAssumption
  <1>2. DOMAIN m.cells = 1..Len(m.cells) /\ Len(m.cells) \in Nat
    BY <1>1
  <1>3. ASSUME NEW c \in Cells(m), NEW k \in Cells(m), c.key = k.key
        PROVE  c = k
    <2>1. PICK i \in DOMAIN m.cells, j \in DOMAIN m.cells : c = m.cells[i] /\ k = m.cells[j]
      BY DEF Cells
    <2>2. Unique(Keys(m))
      BY DEF Valid
    <2> QED BY <1>3, <2>1, <2>2 DEF Unique, Keys
  <1>4. \A c \in Cells(m) : c \in Parts
    BY DEF Parts
  <1>5. \A part \in Parts : Doc(s, part) # Null
    BY DocumentsAssumption DEF Doc, Documents
  <1>6. \A n, part : File(n, s, part).name = n /\ File(n, s, part).doc = Doc(s, part)
    BY DEF File
  <1>7. IsFiniteSet(Embedded(s))
    <2> DEFINE part == {k \in Cells(m) : Embeds(k)}
               made == [c \in part |-> File(Name("embedded", c.key), s, c)]
    <2>1. m.cells \in Surjection(1..Len(m.cells), Cells(m))
      BY <1>1, <1>2 DEF Surjection, Cells
    <2>2. IsFiniteSet(Cells(m))
      BY <1>2, <2>1, FS_Interval, FS_Surjection
    <2>3. IsFiniteSet(part)
      BY <2>2, FS_Subset
    <2>4. made \in Surjection(part, Embedded(s))
      BY DEF Surjection, Embedded
    <2> HIDE DEF part, made
    <2> QED BY <2>3, <2>4, FS_Surjection
  <1>8. \A d \in Embedded(s) : \E c \in Cells(m) : d = File(Name("embedded", c.key), s, c)
    BY DEF Embedded
  <1> HIDE DEF m
  <1> QED BY <1>1, <1>3, <1>4, <1>5, <1>6, <1>7, <1>8, NameFacts

\* A list of a finite set has all of its elements.
LEMMA OrdersFacts ==
    ASSUME NEW S, IsFiniteSet(S), NEW list \in Orders(S)
    PROVE  /\ list \in Seq(S) /\ \A x \in S : \E i \in 1..Len(list) : list[i] = x
           /\ Len(list) = Cardinality(S)
  <1>1. Cardinality(S) \in Nat
    BY FS_CardinalityType
  <1>2. list \in [1..Cardinality(S) -> S] /\ \A i, j \in 1..Cardinality(S) : i # j => list[i] # list[j]
    BY DEF Orders, Unique
  <1>3. list \in Injection(1..Cardinality(S), S)
    BY <1>2 DEF Injection, IsInjective
  <1>4. IsFiniteSet(1..Cardinality(S)) /\ Cardinality(1..Cardinality(S)) = Cardinality(S)
    BY <1>1, FS_Interval
  <1>5. list \in Surjection(1..Cardinality(S), S)
    BY <1>3, <1>4, FS_Injection
  <1>6. list \in Seq(S) /\ Len(list) = Cardinality(S)
    BY <1>1, <1>2, IsASeq
  <1> QED BY <1>5, <1>6 DEF Surjection

\* Writing the first document of a list brings the whole set forward.
LEMMA ProgressStep ==
    ASSUME NEW docs, NEW files, NEW list, Progress(docs, files, list), list # <<>>,
           \A d, e \in docs : d.name = e.name => d = e,
           \A d \in docs : d.name \in DOMAIN files
    PROVE  Progress(docs, [files EXCEPT ![Head(list).name] = Head(list).doc], Tail(list))
  <1> DEFINE h == Head(list)
             after == [files EXCEPT ![h.name] = h.doc]
  <1>1. /\ h \in docs /\ h = list[1] /\ Tail(list) \in Seq(docs)
        /\ Len(Tail(list)) = Len(list) - 1 /\ Len(list) \in Nat \ {0}
        /\ \A j \in 1..Len(Tail(list)) : Tail(list)[j] = list[j + 1]
    BY HeadTailProperties DEF Progress
  <1>2. ASSUME NEW d \in docs
        PROVE  after[d.name] = d.doc \/ \E j \in 1..Len(Tail(list)) : Tail(list)[j] = d
    <2>1. CASE d = h
      BY <1>1, <2>1
    <2>2. CASE d # h
      <3>1. d.name # h.name
        BY <1>1, <2>2
      <3>2. after[d.name] = files[d.name]
        BY <3>1
      <3>3. ASSUME NEW j \in 1..Len(list), list[j] = d
            PROVE  \E i \in 1..Len(Tail(list)) : Tail(list)[i] = d
        <4>1. j # 1
          BY <1>1, <2>2, <3>3
        <4>2. j - 1 \in 1..Len(Tail(list)) /\ Tail(list)[j - 1] = d
          BY <1>1, <3>3, <4>1
        <4> QED BY <4>2
      <3> QED BY <3>2, <3>3 DEF Progress
    <2> QED BY <2>1, <2>2
  <1> QED BY <1>1, <1>2 DEF Progress

\* What a list awaits it awaits with more before it or after it.
LEMMA AwaitsConcat ==
    ASSUME NEW a \in Seq(ToCopy), NEW b \in Seq(ToCopy), NEW f, Awaits(f, a) \/ Awaits(f, b)
    PROVE  Awaits(f, a \o b)
  <1>1. /\ Len(a \o b) = Len(a) + Len(b)
        /\ \A i \in 1 .. Len(a) + Len(b) :
              (a \o b)[i] = IF i <= Len(a) THEN a[i] ELSE b[i - Len(a)]
    BY ConcatProperties, Zenon
  <1>2. Len(a) \in Nat /\ Len(b) \in Nat
    OBVIOUS
  <1> DEFINE ab == a \o b
  <1>3. \A j \in 1..Len(a) : j \in 1..Len(ab) /\ ab[j] = a[j]
    BY <1>1, <1>2
  <1>4. \A j \in 1..Len(b) : Len(a) + j \in 1..Len(ab) /\ ab[Len(a) + j] = b[j]
    <2> SUFFICES ASSUME NEW j \in 1..Len(b)
                 PROVE  Len(a) + j \in 1..Len(ab) /\ ab[Len(a) + j] = b[j]
      OBVIOUS
    <2>1. Len(a) + j \in 1 .. Len(a) + Len(b) /\ ~(Len(a) + j <= Len(a)) /\ (Len(a) + j) - Len(a) = j
      BY <1>2
    <2> QED BY <1>1, <2>1
  <1> HIDE DEF ab
  <1>5. Awaits(f, ab)
    BY <1>3, <1>4 DEF Awaits
  <1> QED BY <1>5 DEF ab

\* The head of a list is what it awaits first.
LEMMA AwaitsTail ==
    ASSUME NEW list \in Seq(ToCopy), list # <<>>, NEW f, Awaits(f, list)
    PROVE  \/ Awaits(f, Tail(list))
           \/ Head(list) = Name("file", f)
           \/ Head(list).kind = "root" /\ f \in Under[Head(list).id]
  <1>1. /\ Head(list) = list[1]
        /\ Len(Tail(list)) = Len(list) - 1 /\ Len(list) \in Nat \ {0}
        /\ \A j \in 1..Len(Tail(list)) : Tail(list)[j] = list[j + 1]
    BY HeadTailProperties
  <1>2. PICK j \in 1..Len(list) : \/ list[j] = Name("file", f)
                                  \/ list[j].kind = "root" /\ f \in Under[list[j].id]
    BY DEF Awaits
  <1>3. CASE j = 1
    BY <1>1, <1>2, <1>3
  <1>4. CASE j # 1
    <2>1. j - 1 \in 1..Len(Tail(list)) /\ Tail(list)[j - 1] = list[j]
      BY <1>1, <1>2, <1>4
    <2> QED BY <1>2, <2>1 DEF Awaits
  <1> QED BY <1>3, <1>4

\* The list of what to copy awaits all that belongs to the project.
LEMMA CopyListFacts ==
    ASSUME NEW s, s.project \in Projects, NEW c \in CommandLines
    PROVE  /\ CopyList(s, c) \in Seq(ToCopy)
           /\ \A f \in Belonging(s, c) : Awaits(f, CopyList(s, c))
  <1> DEFINE named == <<Name("file", c.project), Name("file", c.manifest)>>
             roots == [i \in DOMAIN s.project.roots |-> Name("root", s.project.roots[i])]
             entry == <<Name("file", s.project.entry)>>
  <1>1. /\ s.project.entry \in Files /\ s.project.roots \in Seq(Roots)
        /\ c.project \in Files /\ c.manifest \in Files
    BY ShapesAssumption, CommandsAssumption, ConstantsAssumption
  <1>2. named \in Seq(ToCopy) /\ Len(named) = 2 /\ entry \in Seq(ToCopy) /\ Len(entry) = 1
        /\ named[1] = Name("file", c.project) /\ named[2] = Name("file", c.manifest)
        /\ entry[1] = Name("file", s.project.entry)
    BY <1>1 DEF ToCopy
  <1>3. /\ roots \in Seq(ToCopy) /\ Len(roots) = Len(s.project.roots) /\ Len(roots) \in Nat
        /\ \A i \in 1..Len(roots) : roots[i] = Name("root", s.project.roots[i])
    <2>1. DOMAIN s.project.roots = 1..Len(s.project.roots) /\ Len(s.project.roots) \in Nat
      BY <1>1
    <2>2. roots \in [1..Len(s.project.roots) -> ToCopy]
      BY <1>1, <2>1 DEF ToCopy
    <2> QED BY <2>1, <2>2, IsASeq
  <1>4. CopyList(s, c) = (named \o roots) \o entry
    BY DEF CopyList
  <1>5. DOMAIN s.project.roots = 1..Len(s.project.roots)
    BY <1>1
  <1> HIDE DEF named, roots, entry
  <1>6. named \o roots \in Seq(ToCopy)
    BY <1>2, <1>3
  <1>7. CopyList(s, c) \in Seq(ToCopy)
    BY <1>2, <1>4, <1>6
  <1>8. ASSUME NEW f \in Belonging(s, c) PROVE Awaits(f, CopyList(s, c))
    <2>1. \/ f \in {c.project, c.manifest} \/ f = s.project.entry
          \/ \E i \in 1..Len(roots) : f \in Under[s.project.roots[i]]
      BY <1>3, <1>5 DEF Belonging
    <2>2. CASE f \in {c.project, c.manifest}
      <3>1. Awaits(f, named)
        BY <1>2, <2>2 DEF Awaits
      <3> QED BY <1>2, <1>3, <1>4, <1>6, <3>1, AwaitsConcat
    <2>3. CASE f = s.project.entry
      <3>1. Awaits(f, entry)
        BY <1>2, <2>3 DEF Awaits
      <3> QED BY <1>2, <1>4, <1>6, <3>1, AwaitsConcat
    <2>4. CASE \E i \in 1..Len(roots) : f \in Under[s.project.roots[i]]
      <3>1. Awaits(f, roots)
        BY <1>3, <2>4, NameFacts DEF Awaits
      <3> QED BY <1>2, <1>3, <1>4, <1>6, <3>1, AwaitsConcat
    <2> QED BY <2>1, <2>2, <2>3, <2>4
  <1> QED BY <1>7, <1>8

\* Groups of a valid manifest: the cell of a key is in the one group of its
\* group key.
LEMMA GroupsFacts ==
    ASSUME NEW p, NEW m \in Manifests, Valid(p, m), NEW placement
    PROVE  /\ \A k \in DOMAIN Keys(m) :
                 Cardinality({g \in Groups(m, placement) : Keys(m)[k] \in g.cells}) = 1
           /\ \A g \in Groups(m, placement) : placement = "split-by-cell" => Cardinality(g.cells) = 1
           /\ \A g \in Groups(m, placement) : g.public =>
                 \E c \in Cells(m) : c.key \in g.cells /\ c.ingress \in {"http", "mcp"}
           /\ \A c \in Cells(m), g \in Groups(m, placement) :
                 c.key \in g.cells =>
                     /\ c.ingress \in {"http", "mcp"} => g.public
                     /\ g.class \in {c.class, "mixed"}
  <1> DEFINE Members(key) == {c \in Cells(m) : GroupKey(c, placement) = key}
  <1>1. ASSUME NEW c \in Cells(m), NEW k \in Cells(m), c.key = k.key
        PROVE  c = k
    <2>1. PICK i \in DOMAIN m.cells, j \in DOMAIN m.cells : c = m.cells[i] /\ k = m.cells[j]
      BY DEF Cells
    <2>2. Unique(Keys(m))
      BY DEF Valid
    <2> QED BY <1>1, <2>1, <2>2 DEF Unique, Keys
  <1>2. ASSUME NEW g \in Groups(m, placement)
        PROVE  \E key : g = Group(key, m, placement)
    BY DEF Groups
  <1>3. ASSUME NEW key
        PROVE  /\ Group(key, m, placement).key = key
               /\ Group(key, m, placement).cells = {c.key : c \in Members(key)}
               /\ Group(key, m, placement).class = Collapse({c.class : c \in Members(key)})
               /\ Group(key, m, placement).public = \E c \in Members(key) : c.ingress \in {"http", "mcp"}
    BY DEF Group
  <1>4. ASSUME NEW c \in Cells(m), NEW key, c.key \in Group(key, m, placement).cells
        PROVE  key = GroupKey(c, placement) /\ c \in Members(key)
    <2>1. c.key \in {k.key : k \in Members(key)}
      BY <1>3, <1>4
    <2>2. PICK k \in Members(key) : c.key = k.key
      BY <2>1
    <2>3. k = c
      BY <1>1, <2>2
    <2> QED BY <2>2, <2>3
  <1>5. ASSUME NEW c \in Cells(m)
        PROVE  /\ Group(GroupKey(c, placement), m, placement) \in Groups(m, placement)
               /\ c.key \in Group(GroupKey(c, placement), m, placement).cells
    BY <1>3 DEF Groups
  <1>6. ASSUME NEW k \in DOMAIN Keys(m)
        PROVE  Cardinality({g \in Groups(m, placement) : Keys(m)[k] \in g.cells}) = 1
    <2>1. m.cells[k] \in Cells(m) /\ Keys(m)[k] = m.cells[k].key
      BY <1>6 DEF Keys, Cells
    <2> DEFINE c == m.cells[k]
    <2>2. {g \in Groups(m, placement) : Keys(m)[k] \in g.cells}
             = {Group(GroupKey(c, placement), m, placement)}
      <3> HIDE DEF Members
      <3> QED BY <1>2, <1>4, <1>5, <2>1
    <2> QED BY <2>2, FS_Singleton
  <1>7. ASSUME NEW g \in Groups(m, placement), placement = "split-by-cell"
        PROVE  Cardinality(g.cells) = 1
    <2>1. PICK c \in Cells(m) : g = Group(GroupKey(c, placement), m, placement)
      BY DEF Groups
    <2>2. \A k \in Cells(m) : GroupKey(k, placement) = k.key
      BY <1>7 DEF GroupKey
    <2>3. g.cells = {k.key : k \in Members(c.key)}
      <3>1. GroupKey(c, placement) = c.key
        BY <2>2
      <3>2. g = Group(c.key, m, placement)
        BY <2>1, <3>1
      <3> HIDE DEF Members
      <3> QED BY <1>3, <3>2
    <2>4. c \in Members(c.key) /\ \A k \in Members(c.key) : k.key = c.key
      BY <2>2
    <2>5. g.cells = {c.key}
      <3> HIDE DEF Members
      <3> QED BY <2>3, <2>4
    <2> QED BY <2>5, FS_Singleton
  <1>8. ASSUME NEW c \in Cells(m), NEW g \in Groups(m, placement), c.key \in g.cells
        PROVE  /\ c.ingress \in {"http", "mcp"} => g.public
               /\ g.class \in {c.class, "mixed"}
    <2>1. PICK key : g = Group(key, m, placement)
      BY <1>2
    <2>2. c \in Members(key)
      BY <1>4, <1>8, <2>1
    <2>3. g.class = Collapse({k.class : k \in Members(key)}) /\ c.class \in {k.class : k \in Members(key)}
      BY <1>3, <2>1, <2>2
    <2>4. ASSUME NEW V, c.class \in V PROVE Collapse(V) \in {c.class, "mixed"}
      BY <2>4 DEF Collapse
    <2> QED BY <1>3, <2>1, <2>2, <2>3, <2>4
  <1>9. ASSUME NEW g \in Groups(m, placement), g.public
        PROVE  \E c \in Cells(m) : c.key \in g.cells /\ c.ingress \in {"http", "mcp"}
    <2>1. PICK key : g = Group(key, m, placement)
      BY <1>2
    <2>2. PICK c \in Members(key) : c.ingress \in {"http", "mcp"}
      BY <1>3, <1>9, <2>1
    <2>3. c \in Cells(m) /\ c.key \in {k.key : k \in Members(key)}
      BY <2>2
    <2>4. c.key \in g.cells
      <3> HIDE DEF Members
      <3> QED BY <1>3, <2>1, <2>3
    <2> QED BY <2>2, <2>3, <2>4
  <1> QED BY <1>6, <1>7, <1>8, <1>9

-----------------------------------------------------------------------------
(* The invariant.                                                          *)

\* The invariant holds initially.
LEMMA InitInv == Init => IInv
  <1> SUFFICES ASSUME Init PROVE IInv
    OBVIOUS
  <1> USE DEF Init
  <1>1. \A n \in Names : out[n] = Null
    OBVIOUS
  <1>2. Shape
    <2>1. source \in Sources /\ packed \in Sources
      BY DEF NoSource, Sources
    <2>2. TypeOK
      BY <2>1, ConstantsAssumption DEF TypeOK
    <2>3. \A f \in Inside : out[Name("source", f)] \in Holds[f] \cup {Null}
      BY <1>1, NameFacts
    <2> QED BY <2>2, <2>3 DEF Shape
  <1>3. ~Ready /\ ~Done /\ pc = "idle" /\ packed = NoSource
    BY DEF Ready, Done
  <1>4. RuntimePackCoherent
    BY <1>1, NameFacts DEF RuntimePackCoherent
  <1> QED BY <1>2, <1>3, <1>4 DEF IInv, Loaded, Written, Copied, Listing, Standing

\* A runtime pack that is left alone stays coherent.
LEMMA CoherentKept ==
    ASSUME RuntimePackCoherent, out'[Runtime] = out[Runtime]
    PROVE  RuntimePackCoherent'
  BY DEF RuntimePackCoherent

\* Somebody edits the project: nothing is claimed of a project in motion.
LEMMA EditInv == IInv /\ Edit => IInv'
  <1> SUFFICES ASSUME IInv, Edit PROVE IInv'
    OBVIOUS
  <1>1. PICK f \in Files : \E c \in Holds[f] \cup {Null} : tree' = [tree EXCEPT ![f] = c]
    BY DEF Edit
  <1>2. /\ edits < MaxEdits /\ edits' = edits + 1 /\ steady' = FALSE
        /\ UNCHANGED <<out, runs, pc, command, source, todo, seen, runtime, diags, exit, packed>>
    BY DEF Edit, job
  <1>3. TypeOK'
    <2>1. DOMAIN tree' = Files /\ \A g \in Files : tree'[g] \in Holds[g] \cup {Null}
      BY <1>1 DEF IInv, Shape, TypeOK
    <2>2. edits \in 0..MaxEdits /\ MaxEdits \in Nat
      BY ConstantsAssumption DEF IInv, Shape, TypeOK
    <2>3. edits' \in 0..MaxEdits
      BY <1>2, <2>2
    <2>4. steady' \in BOOLEAN
      BY <1>2
    <2> QED BY <1>2, <2>1, <2>3, <2>4 DEF IInv, Shape, TypeOK
  <1>4. Shape'
    BY <1>2, <1>3 DEF IInv, Shape
  <1>5. Loaded' /\ Written' /\ Copied'
    BY <1>2 DEF IInv, Loaded, Written, Copied, Ready, Done
  <1>6. Listing' /\ Standing'
    BY <1>2 DEF IInv, Listing, ListsTruth, Standing, Ready, Done
  <1> QED BY <1>2, <1>4, <1>5, <1>6, CoherentKept DEF IInv

\* A command begins, a writer on a directory that is no pack any more.
LEMMA StartInv == IInv /\ Start => IInv'
  <1> SUFFICES ASSUME IInv, Start PROVE IInv'
    OBVIOUS
  <1>1. /\ pc = "idle" /\ runs < MaxRuns /\ command' \in CommandLines /\ runs' = runs + 1
        /\ source' = NoSource /\ runtime' = Null /\ exit' = 9 /\ steady' = TRUE
        /\ packed' = IF command'.kind \in Writers THEN NoSource ELSE packed
        /\ pc' = "project"
        /\ UNCHANGED <<tree, out, edits, todo, seen, diags>>
    BY DEF Start
  <1>2. NoSource \in Sources
    BY DEF NoSource, Sources
  <1>3. TypeOK'
    BY <1>1, <1>2, ConstantsAssumption DEF IInv, Shape, TypeOK
  <1>4. Shape'
    BY <1>1, <1>3 DEF IInv, Shape
  <1>5. ~Ready' /\ ~Done'
    BY <1>1 DEF Ready, Done
  <1>6. Loaded' /\ Written' /\ Copied' /\ Listing'
    BY <1>1, <1>5 DEF Loaded, Written, Copied, Listing
  <1>7. Standing'
    BY <1>1, <1>5 DEF IInv, Standing
  <1> QED BY <1>1, <1>4, <1>6, <1>7, CoherentKept DEF IInv

\* The diagnostics of a command are errors.
LEMMA KnownErrors ==
    /\ \A d \in Known : d.severity = "error" /\ d.family \in {"general", "tool"}
    /\ \A ds \in SUBSET Known : ExitCodeOf(ds) \in {0, 1, 2, 3} /\ (ExitCodeOf(ds) = 0 <=> ds = {})
  <1>1. \A d \in Known : d.severity = "error" /\ d.family \in {"general", "tool"}
    BY DEF Known, InputInvalid, WriteFailed, ContractErrors, Error, Diag
  <1>2. ASSUME NEW ds \in SUBSET Known
        PROVE  ExitCodeOf(ds) \in {0, 1, 2, 3} /\ (ExitCodeOf(ds) = 0 <=> ds = {})
    <2>1. Errors(ds) = ds
      BY <1>1 DEF Errors
    <2>2. ~\E d \in ds : IsBudgetExceeded(d)
      BY <1>1 DEF IsBudgetExceeded
    <2> QED BY <2>1, <2>2 DEF ExitCodeOf
  <1> QED BY <1>1, <1>2

\* A command that gives up leaves no claim behind, and at most a temporary file.
LEMMA AbortInv ==
    ASSUME IInv, pc # "idle", NEW d \in Known, Abort(d),
           UNCHANGED <<tree, edits, runs, job, exit, steady, packed>>,
           DOMAIN out' = Names, \A n \in Names : n.kind # "temp" => out'[n] = out[n]
    PROVE  IInv'
  <1>1. /\ pc' = "emit" /\ diags' = diags \cup {d}
        /\ UNCHANGED <<tree, edits, runs, command, source, todo, seen, runtime, exit, steady, packed>>
    BY DEF Abort, job
  <1>2. /\ out'[Runtime] = out[Runtime]
        /\ \A f \in Inside : out'[Name("source", f)] = out[Name("source", f)]
    BY NameFacts DEF Runtime
  <1>3. TypeOK'
    BY <1>1 DEF IInv, Shape, TypeOK
  <1>4. Shape'
    BY <1>1, <1>2, <1>3 DEF IInv, Shape
  <1>5. ~Ready' /\ ~Done'
    BY <1>1 DEF Ready, Done, IInv, Shape
  <1>6. Loaded' /\ Written' /\ Copied' /\ Listing'
    BY <1>1, <1>5 DEF Loaded, Written, Copied, Listing
  <1>7. Standing'
    BY <1>1, <1>2, <1>5, ConstantsAssumption DEF IInv, Standing
  <1> QED BY <1>2, <1>4, <1>6, <1>7, CoherentKept DEF IInv

\* The ways to give up.
LEMMA FailInv == IInv /\ (LoadFails \/ WriteFails \/ CopyRefused \/ AnswerFails) => IInv'
  <1> SUFFICES ASSUME IInv, LoadFails \/ WriteFails \/ CopyRefused \/ AnswerFails PROVE IInv'
    OBVIOUS
  <1>1. DOMAIN out = Names
    BY DEF IInv, Shape, TypeOK
  <1>2. /\ pc # "idle" /\ \E d \in Known : Abort(d)
        /\ UNCHANGED <<tree, edits, runs, job, exit, steady, packed>>
        /\ out' = out \/ \E f \in Inside : out' = [out EXCEPT ![Name("temp", f)] = Null]
    BY DEF LoadFails, WriteFails, CopyRefused, AnswerFails, Known, Copying
  <1>3. DOMAIN out' = Names /\ \A n \in Names : n.kind # "temp" => out'[n] = out[n]
    BY <1>1, <1>2, NameFacts
  <1> QED BY <1>2, <1>3, AbortInv

\* The file of the project is read, of the tree or of a pack.
LEMMA ReadProjectInv == IInv /\ ReadProject => IInv'
  <1> SUFFICES ASSUME IInv, ReadProject PROVE IInv'
    OBVIOUS
  <1>1. /\ pc = "project" /\ pc' = "manifest" /\ ProjectFile # Null
        /\ source' = [source EXCEPT !.project = ProjectFile]
        /\ UNCHANGED <<tree, out, edits, runs, command, todo, seen, runtime, diags, exit, steady, packed>>
    BY DEF ReadProject
  <1>2. command \in CommandLines /\ command.project \in Inside /\ X07Json \in Inside
        /\ command.project \in Files /\ X07Json \in Files
    BY <1>1, CommandsAssumption, ConstantsAssumption DEF IInv, Shape
  <1>3. ProjectFile \in Projects \cup {Garbage}
    <2>1. command.project \in ProjectFiles /\ X07Json \in ProjectFiles
      BY <1>2 DEF ProjectFiles
    <2>2. PICK f \in ProjectFiles : ProjectFile \in Holds[f]
      BY <1>1, <1>2, <2>1 DEF ProjectFile, IInv, Shape, TypeOK
    <2>3. ProjectFile \in UNION {Holds[g] : g \in ProjectFiles}
      BY <2>2
    <2> QED BY <2>3 DEF Projects
  <1>4. source'.project = ProjectFile /\ source' \in Sources
    BY <1>1, <1>3 DEF IInv, Shape, TypeOK, Sources
  <1>5. Shape'
    BY <1>1, <1>4 DEF IInv, Shape, TypeOK
  <1>6. ~Ready' /\ ~Done'
    BY <1>1 DEF Ready, Done
  <1>7. Loaded'
    BY <1>1, <1>4, <1>6 DEF Loaded, ProjectFile
  <1>8. Standing'
    <2>1. packed # NoSource /\ command.fromPack => source'.project = packed.project
      BY <1>1, <1>4 DEF IInv, Standing, ProjectFile
    <2> QED BY <1>1, <1>6, <2>1 DEF IInv, Standing
  <1> QED BY <1>1, <1>5, <1>6, <1>7, <1>8, CoherentKept DEF IInv, Written, Copied, Listing

\* The manifest is read, and what was read is found valid or refused.
LEMMA ReadManifestInv == IInv /\ ReadManifest => IInv'
  <1> SUFFICES ASSUME IInv, ReadManifest PROVE IInv'
    OBVIOUS
  <1>1. /\ pc = "manifest" /\ ManifestFile # Null
        /\ source' = [source EXCEPT !.manifest = ManifestFile]
        /\ UNCHANGED <<tree, out, edits, runs, command, seen, runtime, exit, steady, packed>>
        /\ \/ Abort(InputInvalid)
           \/ /\ Valid(source'.project, source'.manifest)
              /\ \/ command.kind \in Writers /\ pc' = "write" /\ todo' = Docs(source')
                 \/ command.kind \notin Writers /\ pc' = "answer"
              /\ UNCHANGED diags
    BY DEF ReadManifest
  <1>2. /\ command \in CommandLines /\ command.manifest \in Files /\ Index \in Inside /\ Index \in Files
        /\ command.kind \in Writers \cup Readers
        /\ command.kind \in Writers => ~command.fromPack
    BY <1>1, CommandsAssumption, ConstantsAssumption DEF IInv, Shape
  <1>3. ManifestFile \in Manifests \cup {Garbage}
    <2>1. command.manifest \in ManifestFiles /\ Index \in ManifestFiles
      BY <1>2 DEF ManifestFiles
    <2>2. PICK f \in ManifestFiles : ManifestFile \in Holds[f]
      BY <1>1, <1>2, <2>1 DEF ManifestFile, IInv, Shape, TypeOK
    <2>3. ManifestFile \in UNION {Holds[g] : g \in ManifestFiles}
      BY <2>2
    <2> QED BY <2>3 DEF Manifests
  <1>4. /\ source'.manifest = ManifestFile /\ source'.project = source.project /\ source' \in Sources
    BY <1>1, <1>3 DEF IInv, Shape, TypeOK, Sources
  <1>5. InputInvalid \in Known
    BY DEF Known
  <1>6. diags = {} /\ exit = 9 /\ seen = {}
    BY <1>1 DEF IInv, Shape
  <1>7. Shape'
    <2>1. pc' \in {"write", "answer", "emit"}
      BY <1>1 DEF Abort
    <2>2. TypeOK'
      BY <1>1, <1>4, <2>1 DEF IInv, Shape, TypeOK
    <2>3. diags' \subseteq Known /\ (pc' # "emit" => diags' = {})
      BY <1>1, <1>5, <1>6 DEF Abort
    <2>4. (pc' = "write" => command.kind \in Writers) /\ (pc' = "answer" => command.kind \in Readers)
      BY <1>1, <1>2 DEF Abort
    <2> QED BY <1>1, <1>2, <1>6, <2>1, <2>2, <2>3, <2>4 DEF IInv, Shape
  <1>8. ~Done'
    BY <1>1, <1>6 DEF Done, Abort
  <1>9. Ready' => /\ pc' \in {"write", "answer"}
                  /\ Valid(source'.project, source'.manifest)
                  /\ source'.project \in Projects /\ source'.manifest \in Manifests
    <2> SUFFICES ASSUME Ready'
                 PROVE  /\ pc' \in {"write", "answer"}
                        /\ Valid(source'.project, source'.manifest)
                        /\ source'.project \in Projects /\ source'.manifest \in Manifests
      OBVIOUS
    <2>1. pc' \in {"write", "answer"} /\ Valid(source'.project, source'.manifest)
      BY <1>1, <1>8 DEF Ready, Abort
    <2>2. source'.project # Garbage /\ source'.manifest # Garbage
      BY <2>1 DEF Valid
    <2>3. source'.manifest \in Manifests
      BY <1>3, <1>4, <2>2
    <2>4. source.project # Null
      BY <1>1 DEF IInv, Loaded
    <2> QED BY <1>4, <2>1, <2>2, <2>3, <2>4 DEF Sources
  <1>10. Loaded'
    BY <1>1, <1>4, <1>8, <1>9 DEF IInv, Loaded, ManifestFile, Ready, Done
  <1>11. Written'
    <2>1. CASE pc' = "write"
      <3>1. todo' = Docs(source') /\ Ready'
        BY <1>1, <2>1 DEF Abort, Ready
      <3>2. Docs(source') \in Seq(DocSet(source'))
        BY <1>9, <3>1, DocSetIs
      <3>3. \A d \in DocSet(source') : \E j \in 1..Len(Docs(source')) : Docs(source')[j] = d
        BY <3>2 DEF DocSet
      <3> QED BY <2>1, <3>1, <3>2, <3>3 DEF Written, Progress
    <2>2. CASE pc' # "write"
      BY <1>1, <2>2 DEF Written, Abort
    <2> QED BY <2>1, <2>2
  <1>12. Copied' /\ Listing'
    BY <1>1, <1>8 DEF Copied, Listing, Abort
  <1>13. Standing'
    <2>1. packed # NoSource /\ command.kind \in Readers /\ command.fromPack => source' = packed
      BY <1>1, <1>4 DEF IInv, Standing, ManifestFile, Shape, TypeOK, Sources
    <2> QED BY <1>1, <1>2, <2>1 DEF IInv, Standing, Abort
  <1> QED BY <1>1, <1>7, <1>10, <1>11, <1>12, <1>13, CoherentKept DEF IInv

\* Only a writer writes, so what it writes to is not taken for a pack meanwhile.
LEMMA NotStanding ==
    ASSUME IInv, pc \in {"write", "copy", "embed"}
    PROVE  packed = NoSource /\ command.kind \in Writers /\ ~command.fromPack
  <1>1. command.kind \in Writers /\ command \in CommandLines
    BY DEF IInv, Shape, Writers
  <1> QED BY <1>1, CommandsAssumption DEF IInv, Standing

\* A document is written: the next one of its list.
LEMMA WriteDocInv == IInv /\ WriteDoc => IInv'
  <1> SUFFICES ASSUME IInv, WriteDoc PROVE IInv'
    OBVIOUS
  <1> DEFINE h == Head(todo)
  <1>1. /\ pc \in {"write", "embed"} /\ todo # <<>>
        /\ out' = [out EXCEPT ![h.name] = h.doc] /\ todo' = Tail(todo)
        /\ UNCHANGED <<tree, edits, runs, command, source, seen, runtime, pc, diags, exit, steady, packed>>
    BY DEF WriteDoc
  <1>2. packed = NoSource /\ ~Done' /\ Ready
    BY <1>1, NotStanding DEF Done, Ready
  <1>3. source.project \in Projects /\ source.manifest \in Manifests /\ Valid(source.project, source.manifest)
    BY <1>2 DEF IInv, Loaded
  <1>4. DOMAIN out = Names
    BY DEF IInv, Shape, TypeOK
  <1>5. /\ \A d, e \in DocSet(source) : d.name = e.name => d = e
        /\ \A d \in DocSet(source) : /\ d.name \in Names
                                     /\ d.name.kind \in {"public", "describe", "bindings", "topology"}
    BY <1>3, DocFacts
  <1>6. /\ \A d, e \in Embedded(source) : d.name = e.name => d = e
        /\ \A d \in Embedded(source) : d.name \in Names /\ d.name.kind = "embedded"
    BY <1>3, EmbeddedFacts
  <1>7. /\ pc = "write" => Progress(DocSet(source), out, todo)
        /\ pc = "embed" => Progress(Embedded(source), out, todo)
    BY DEF IInv, Written
  <1>8. h.name \in Names /\ h.name.kind \in {"public", "describe", "bindings", "topology", "embedded"}
        /\ (pc = "embed" => h.name.kind = "embedded")
    <2>1. (pc = "write" => h \in DocSet(source)) /\ (pc = "embed" => h \in Embedded(source))
      BY <1>1, <1>7, HeadTailProperties DEF Progress
    <2> QED BY <1>1, <1>5, <1>6, <2>1
  <1>9. \A n \in Names : n # h.name => out'[n] = out[n]
    BY <1>1, <1>4
  <1>10. /\ out'[Runtime] = out[Runtime]
         /\ \A f \in Inside : out'[Name("source", f)] = out[Name("source", f)]
    BY <1>8, <1>9, NameFacts DEF Runtime
  <1> HIDE DEF h
  <1>11. Shape'
    <2>1. DOMAIN out' = Names
      BY <1>1, <1>4
    <2>2. TypeOK'
      BY <1>1, <2>1 DEF IInv, Shape, TypeOK
    <2> QED BY <1>1, <1>10, <2>2 DEF IInv, Shape
  <1>12. Loaded'
    BY <1>1 DEF IInv, Loaded, Ready, Done
  <1>13. Written'
    <2>1. pc = "write" => Progress(DocSet(source), out', todo')
      BY <1>1, <1>4, <1>5, <1>7, ProgressStep DEF h
    <2>2. pc = "embed" => Progress(Embedded(source), out', todo')
      BY <1>1, <1>4, <1>6, <1>7, ProgressStep DEF h
    <2>3. pc = "embed" => \A d \in DocSet(source) : out'[d.name] = d.doc
      BY <1>5, <1>8, <1>9 DEF IInv, Written
    <2>4. DocSet(source)' = DocSet(source) /\ Embedded(source)' = Embedded(source)
      BY <1>1
    <2> QED BY <1>1, <2>1, <2>2, <2>3, <2>4 DEF Written
  <1>14. Copied'
    BY <1>1, <1>2, <1>10 DEF IInv, Copied, Belonging, Same
  <1> QED BY <1>1, <1>2, <1>10, <1>11, <1>12, <1>13, <1>14, CoherentKept DEF IInv, Listing, Standing

\* All documents are there; a pack goes on with the files.
LEMMA DocsWrittenInv == IInv /\ DocsWritten => IInv'
  <1> SUFFICES ASSUME IInv, DocsWritten PROVE IInv'
    OBVIOUS
  <1>1. /\ pc = "write" /\ todo = <<>>
        /\ \/ command.kind = "build" /\ pc' = "emit" /\ UNCHANGED todo
           \/ command.kind # "build" /\ pc' = "copy" /\ todo' = CopyList(source, command)
        /\ UNCHANGED <<tree, out, edits, runs, command, source, seen, runtime, diags, exit, steady, packed>>
    BY DEF DocsWritten
  <1>2. packed = NoSource /\ command.kind \in Writers /\ Ready /\ seen = {} /\ diags = {}
        /\ command \in CommandLines
    BY <1>1, NotStanding DEF Ready, IInv, Shape
  <1>3. Shape'
    BY <1>1, <1>2 DEF IInv, Shape, TypeOK, Writers
  <1>4. Loaded'
    BY <1>1, <1>2 DEF IInv, Loaded, Ready, Done
  <1>5. \A d \in DocSet(source) : out[d.name] = d.doc
    BY <1>1 DEF IInv, Written, Progress
  <1>6. Written'
    BY <1>1, <1>5 DEF Written, DocSet
  <1>7. pc' = "copy" => todo' \in Seq(ToCopy) /\ \A f \in Belonging(source, command) : Awaits(f, todo')
    BY <1>1, <1>2, CopyListFacts DEF IInv, Loaded
  <1>8. Copied'
    BY <1>1, <1>2, <1>7 DEF Copied, Belonging, Done
  <1> QED BY <1>1, <1>2, <1>3, <1>4, <1>6, <1>8, CoherentKept DEF IInv, Listing, Standing, Done, Writers

\* A root is walked: the files below it, in any order, take its place.
LEMMA WalkInv == IInv /\ Walk => IInv'
  <1> SUFFICES ASSUME IInv, Walk PROVE IInv'
    OBVIOUS
  <1> DEFINE r == Head(todo).id
             S == {f \in Under[r] : tree[f] # Null}
  <1>1. /\ pc = "copy" /\ todo # <<>> /\ Head(todo).kind = "root"
        /\ UNCHANGED <<tree, out, edits, runs, pc, command, source, seen, runtime, diags, exit, steady, packed>>
    BY DEF Walk
  <1>2. PICK s \in Orders(S) : todo' = [i \in DOMAIN s |-> Name("file", s[i])] \o Tail(todo)
    BY DEF Walk
  <1> DEFINE found == [i \in DOMAIN s |-> Name("file", s[i])]
  <1>3. todo \in Seq(ToCopy) /\ Head(todo) \in ToCopy /\ Tail(todo) \in Seq(ToCopy)
    BY <1>1, HeadTailProperties DEF IInv, Copied
  <1>4. r \in Roots
    BY <1>1, <1>3, NameFacts DEF ToCopy
  <1>5. IsFiniteSet(Under[r]) /\ Under[r] \subseteq Files
    BY <1>4, ConstantsAssumption
  <1>6. IsFiniteSet(S) /\ S \subseteq Files
    BY <1>5, FS_Subset
  <1>7. s \in Seq(S) /\ \A f \in S : \E i \in 1..Len(s) : s[i] = f
    <2> HIDE DEF S
    <2> QED BY <1>6, OrdersFacts
  <1>8. found \in Seq(ToCopy) /\ Len(found) = Len(s) /\ \A i \in 1..Len(s) : found[i] = Name("file", s[i])
    <2> HIDE DEF S
    <2>1. DOMAIN s = 1..Len(s) /\ Len(s) \in Nat /\ \A i \in 1..Len(s) : s[i] \in Files
      BY <1>6, <1>7
    <2>2. found \in [1..Len(s) -> ToCopy]
      BY <2>1 DEF ToCopy
    <2> QED BY <2>1, <2>2, IsASeq
  <1>9. \A f \in S : Awaits(f, found)
    <2> HIDE DEF S, found
    <2> QED BY <1>7, <1>8 DEF Awaits
  <1> HIDE DEF found
  <1>10. todo' = found \o Tail(todo) /\ todo' \in Seq(ToCopy)
    BY <1>2, <1>3, <1>8 DEF found
  <1>11. ASSUME NEW f, Awaits(f, todo), tree[f] # Null
         PROVE  Awaits(f, todo')
    <2>1. \/ Awaits(f, Tail(todo)) \/ Head(todo) = Name("file", f) \/ f \in Under[r]
      BY <1>1, <1>3, <1>11, AwaitsTail
    <2>2. Head(todo) # Name("file", f)
      BY <1>1, NameFacts
    <2>3. Awaits(f, Tail(todo)) \/ Awaits(f, found)
      BY <1>9, <1>11, <2>1, <2>2
    <2> QED BY <1>3, <1>8, <1>10, <2>3, AwaitsConcat
  <1>12. packed = NoSource /\ ~Done'
    BY <1>1, NotStanding DEF Done
  <1>13. Shape'
    BY <1>1 DEF IInv, Shape, TypeOK
  <1>14. Loaded' /\ Written'
    BY <1>1 DEF IInv, Loaded, Written, Ready, Done, DocSet
  <1>15. Copied'
    <2>1. steady => \A f \in Belonging(source, command) : f \in seen \/ Awaits(f, todo')
      BY <1>1, <1>11 DEF IInv, Copied, Belonging
    <2>2. Belonging(source, command)' = Belonging(source, command)
      BY <1>1 DEF Belonging
    <2> QED BY <1>1, <1>10, <1>12, <2>1, <2>2 DEF IInv, Copied, Same
  <1> QED BY <1>1, <1>12, <1>13, <1>14, <1>15, CoherentKept DEF IInv, Listing, Standing

\* A file is copied.
LEMMA CopyInv == IInv /\ Copy => IInv'
  <1> SUFFICES ASSUME IInv, Copy PROVE IInv'
    OBVIOUS
  <1>1. PICK f \in Inside :
           /\ Copying(f)
           /\ out' = IF f \in seen \/ tree[f] = Null THEN out
                     ELSE [out EXCEPT ![Name("source", f)] = tree[f], ![Name("temp", f)] = Null]
           /\ seen' = seen \cup {f} /\ todo' = Tail(todo)
           /\ UNCHANGED <<tree, edits, runs, pc, command, source, runtime, diags, exit, steady, packed>>
    BY DEF Copy
  <1>2. pc = "copy" /\ todo # <<>> /\ Head(todo) = Name("file", f)
    BY <1>1 DEF Copying
  <1>3. packed = NoSource /\ ~Done' /\ Ready /\ f \in Files
    BY <1>1, <1>2, NotStanding, ConstantsAssumption DEF Done, Ready
  <1>4. DOMAIN out = Names /\ DOMAIN out' = Names
    BY <1>1 DEF IInv, Shape, TypeOK
  <1>5. \A n \in Names : n # Name("source", f) /\ n # Name("temp", f) => out'[n] = out[n]
    BY <1>1, <1>4
  <1>6. out'[Name("source", f)] = IF f \in seen \/ tree[f] = Null THEN out[Name("source", f)] ELSE tree[f]
    BY <1>1, <1>4, NameFacts
  <1>7. \A n \in Names : n.kind \notin {"source", "temp"} => out'[n] = out[n]
    BY <1>5, NameFacts
  <1>8. \A g \in Inside : g # f => out'[Name("source", g)] = out[Name("source", g)]
    BY <1>5, NameFacts
  <1>9. out'[Runtime] = out[Runtime]
    BY <1>7, NameFacts DEF Runtime
  <1>10. Shape'
    <2>1. \A g \in Inside : out'[Name("source", g)] \in Holds[g] \cup {Null}
      BY <1>3, <1>6, <1>8 DEF IInv, Shape, TypeOK
    <2>2. TypeOK'
      BY <1>1, <1>4 DEF IInv, Shape, TypeOK
    <2> QED BY <1>1, <1>2, <2>1, <2>2 DEF IInv, Shape
  <1>11. Loaded'
    BY <1>1 DEF IInv, Loaded, Ready, Done
  <1>12. Written'
    <2>1. \A d \in DocSet(source) : d.name \in Names /\ d.name.kind \notin {"source", "temp"}
      BY <1>3, DocFacts DEF IInv, Loaded
    <2>2. \A d \in DocSet(source) : out'[d.name] = d.doc
      BY <1>2, <1>7, <2>1 DEF IInv, Written
    <2>3. DocSet(source)' = DocSet(source)
      BY <1>1
    <2> QED BY <1>1, <1>2, <2>2, <2>3 DEF Written
  <1>13. Copied'
    <2>1. todo \in Seq(ToCopy) /\ todo' \in Seq(ToCopy)
      BY <1>1, <1>2, HeadTailProperties DEF IInv, Copied
    <2>2. ASSUME steady, NEW g \in Belonging(source, command)
          PROVE  g \in seen' \/ Awaits(g, todo')
      <3>1. g \in seen \/ Awaits(g, todo)
        BY <1>2, <2>2 DEF IInv, Copied
      <3>2. CASE g \in seen
        BY <1>1, <3>2
      <3>3. CASE Awaits(g, todo)
        <4>1. \/ Awaits(g, Tail(todo))
              \/ Head(todo) = Name("file", g)
              \/ Head(todo).kind = "root" /\ g \in Under[Head(todo).id]
          BY <1>2, <2>1, <3>3, AwaitsTail
        <4>2. Awaits(g, Tail(todo)) \/ g = f
          BY <1>2, <4>1, NameFacts
        <4> QED BY <1>1, <4>2
      <3> QED BY <3>1, <3>2, <3>3
    <2>3. ASSUME steady, NEW g \in seen', tree[g] # Null
          PROVE  g \in Inside /\ out'[Name("source", g)] = tree[g]
      <3>1. g \in seen => Same(g)
        BY <1>2, <2>3 DEF IInv, Copied
      <3> QED BY <1>1, <1>6, <1>8, <2>3, <3>1 DEF Same
    <2>4. Belonging(source, command)' = Belonging(source, command)
      BY <1>1 DEF Belonging
    <2> QED BY <1>1, <1>2, <1>3, <2>1, <2>2, <2>3, <2>4 DEF Copied, Same
  <1> QED BY <1>1, <1>3, <1>9, <1>10, <1>11, <1>12, <1>13, CoherentKept DEF IInv, Listing, Standing

\* All files are there; the starters follow.
LEMMA SourcesCopiedInv == IInv /\ SourcesCopied => IInv'
  <1> SUFFICES ASSUME IInv, SourcesCopied PROVE IInv'
    OBVIOUS
  <1>1. /\ pc = "copy" /\ todo = <<>> /\ pc' = "embed" /\ todo' \in Orders(Embedded(source))
        /\ UNCHANGED <<tree, out, edits, runs, command, source, seen, runtime, diags, exit, steady, packed>>
    BY DEF SourcesCopied
  <1>2. packed = NoSource /\ ~Done' /\ Ready
    BY <1>1, NotStanding DEF Done, Ready
  <1>3. Shape'
    BY <1>1 DEF IInv, Shape, TypeOK
  <1>4. Loaded'
    BY <1>1, <1>2 DEF IInv, Loaded, Ready, Done
  <1>5. Written'
    <2>1. IsFiniteSet(Embedded(source))
      BY <1>2, EmbeddedFacts DEF IInv, Loaded
    <2>2. todo' \in Seq(Embedded(source)) /\ \A d \in Embedded(source) : \E j \in 1..Len(todo') : todo'[j] = d
      BY <1>1, <2>1, OrdersFacts
    <2>3. DocSet(source)' = DocSet(source) /\ Embedded(source)' = Embedded(source)
      BY <1>1
    <2> QED BY <1>1, <2>2, <2>3 DEF IInv, Written, Progress
  <1>6. Copied'
    <2>1. \A f : ~Awaits(f, todo)
      BY <1>1 DEF Awaits
    <2>2. steady => \A f \in Belonging(source, command) : Same(f)
      BY <1>1, <2>1 DEF IInv, Copied, Belonging
    <2>3. Belonging(source, command)' = Belonging(source, command)
      BY <1>1 DEF Belonging
    <2> QED BY <1>1, <2>2, <2>3 DEF Copied, Same
  <1> QED BY <1>1, <1>2, <1>3, <1>4, <1>5, <1>6, CoherentKept DEF IInv, Listing, Standing

\* The runtime pack is written, of what lies there.
LEMMA WriteRuntimePackInv == IInv /\ WriteRuntimePack => IInv'
  <1> SUFFICES ASSUME IInv, WriteRuntimePack PROVE IInv'
    OBVIOUS
  <1> DEFINE rp == [source |-> source, steady |-> steady, command |-> command,
                    listed |-> [n \in Listed |-> out[n]]]
  <1>1. /\ pc = "embed" /\ todo = <<>> /\ pc' = "emit"
        /\ out' = [out EXCEPT ![Runtime] = rp]
        /\ UNCHANGED <<tree, edits, runs, command, source, todo, seen, runtime, diags, exit, steady, packed>>
    BY DEF WriteRuntimePack, job
  <1>2. /\ packed = NoSource /\ ~command.fromPack /\ Ready /\ diags = {}
        /\ command \in CommandLines /\ command.kind = "pack" /\ DOMAIN out = Names
    BY <1>1, NotStanding DEF Ready, IInv, Shape, TypeOK
  <1>3. source.project \in Projects /\ source.manifest \in Manifests /\ Valid(source.project, source.manifest)
    BY <1>2 DEF IInv, Loaded
  <1>4. /\ out'[Runtime] = rp /\ DOMAIN out' = Names
        /\ \A n \in Names : n.kind # "runtime" => out'[n] = out[n]
    BY <1>1, <1>2, NameFacts DEF Runtime
  <1>5. /\ rp.source = source /\ rp.steady = steady /\ rp.command = command
        /\ DOMAIN rp.listed = Listed /\ \A n \in Listed : rp.listed[n] = out[n]
    OBVIOUS
  <1> HIDE DEF rp
  <1>6. \A n \in Listed : n \in Names /\ out[n] # Null /\ n.kind # "runtime"
    <2>1. \A e \in Embedded(source) : e.name.kind = "embedded"
      BY <1>3, EmbeddedFacts
    <2> QED BY <2>1 DEF Listed
  <1>7. \A n \in Names : /\ n.kind \in {"public", "describe", "bindings", "topology", "source", "temp"}
                         /\ out[n] # Null
                         => n \in Listed
    BY DEF Listed
  <1>8. \A e \in Embedded(source) : e.name \in Listed /\ out[e.name] = e.doc /\ e.name.kind = "embedded"
                                    /\ e.name \in Names
    <2>1. \A e \in Embedded(source) : out[e.name] = e.doc
      BY <1>1 DEF IInv, Written, Progress
    <2>2. \A e \in Embedded(source) : e.name \in Names /\ e.doc # Null /\ e.name.kind = "embedded"
      BY <1>3, EmbeddedFacts
    <2> QED BY <2>1, <2>2 DEF Listed
  <1>9. \A d \in DocSet(source) : d.name \in Listed /\ out[d.name] = d.doc
    <2>1. \A d \in DocSet(source) : out[d.name] = d.doc
      BY <1>1 DEF IInv, Written
    <2> QED BY <1>3, <1>7, <2>1, DocFacts
  <1>10. \A f \in Inside : out'[Name("source", f)] = out[Name("source", f)]
    BY <1>4, NameFacts
  <1>11. Shape'
    BY <1>1, <1>2, <1>4, <1>10 DEF IInv, Shape, TypeOK
  <1>12. Loaded' /\ Written'
    BY <1>1, <1>2 DEF IInv, Loaded, Written, Ready, Done
  <1>13. steady => \A f \in Belonging(source, command) : Same(f)
    BY <1>1 DEF IInv, Copied
  <1>14. Copied'
    <2>1. Belonging(source, command)' = Belonging(source, command)
      BY <1>1 DEF Belonging
    <2> QED BY <1>1, <1>10, <1>13, <2>1 DEF Copied, Same
  <1>15. Listing'
    <2>1. \A n \in DOMAIN rp.listed : out'[n] # Null /\ rp.listed[n] = out'[n]
      BY <1>4, <1>5, <1>6
    <2>2. \A n \in Names : n.kind \in {"source", "topology"} /\ out'[n] # Null => n \in DOMAIN rp.listed
      BY <1>4, <1>5, <1>7
    <2>3. \A e \in Embedded(source) : e.name \in DOMAIN rp.listed /\ out'[e.name] = e.doc
      BY <1>4, <1>5, <1>8
    <2>4. Embedded(source)' = Embedded(source)
      BY <1>1
    <2> QED BY <1>1, <1>4, <1>5, <2>1, <2>2, <2>3, <2>4 DEF Listing, ListsTruth
  <1>16. RuntimePackCoherent'
    <2>1. \A i \in DOMAIN Docs(source) : LET d == Docs(source)[i] IN
             d.name \in DOMAIN rp.listed /\ rp.listed[d.name] = d.doc
      BY <1>5, <1>9 DEF DocSet
    <2>2. ASSUME steady
          PROVE  /\ Name("source", command.project) \in DOMAIN rp.listed
                 /\ Name("source", command.manifest) \in DOMAIN rp.listed
                 /\ rp.listed[Name("source", command.project)] = source.project
                 /\ rp.listed[Name("source", command.manifest)] = source.manifest
      <3>1. /\ source.project = tree[command.project] /\ source.project # Null
            /\ source.manifest = tree[command.manifest] /\ source.manifest # Null
        BY <1>2, <2>2 DEF IInv, Loaded
      <3>2. Same(command.project) /\ Same(command.manifest)
        BY <1>13, <2>2, <3>1 DEF Belonging
      <3>3. /\ Name("source", command.project) \in Listed /\ Name("source", command.manifest) \in Listed
        BY <1>7, <3>1, <3>2, NameFacts DEF Same
      <3> QED BY <1>5, <3>1, <3>2, <3>3 DEF Same
    <2> QED BY <1>4, <1>5, <2>1, <2>2 DEF RuntimePackCoherent
  <1> QED BY <1>1, <1>2, <1>11, <1>12, <1>14, <1>15, <1>16 DEF IInv, Standing

\* A reader answers.
LEMMA AnswerInv == IInv /\ Answer => IInv'
  <1> SUFFICES ASSUME IInv, Answer PROVE IInv'
    OBVIOUS
  <1>1. /\ pc = "answer" /\ pc' = "emit"
        /\ runtime' \in {out[Runtime], Null} \/ UNCHANGED runtime
        /\ UNCHANGED <<tree, out, edits, runs, command, source, todo, seen, diags, exit, steady, packed>>
    BY DEF Answer
  <1>2. command.kind \in Readers /\ command.kind # "pack" /\ Ready
    BY <1>1 DEF IInv, Shape, Readers, Ready
  <1>3. Shape'
    BY <1>1 DEF IInv, Shape, TypeOK
  <1>4. Loaded' /\ Written'
    BY <1>1, <1>2 DEF IInv, Loaded, Written, Ready, Done
  <1>5. Copied' /\ Listing'
    BY <1>1, <1>2 DEF Copied, Listing
  <1>6. Standing'
    BY <1>1, <1>2 DEF IInv, Standing
  <1> QED BY <1>1, <1>3, <1>4, <1>5, <1>6, CoherentKept DEF IInv

\* The report is made: its exit code is 0 only after a command without errors.
LEMMA EmitReportInv == IInv /\ EmitReport => IInv'
  <1> SUFFICES ASSUME IInv, EmitReport PROVE IInv'
    OBVIOUS
  <1>1. /\ pc = "emit" /\ pc' = "idle" /\ exit' \in {ExitCodeOf(diags), 2}
        /\ packed' = IF /\ command.kind = "pack" /\ exit' = 0 /\ steady
                        /\ command.project = X07Json /\ command.manifest = Index
                     THEN source ELSE packed
        /\ todo' = <<>> /\ seen' = {} /\ diags' = {}
        /\ UNCHANGED <<tree, out, edits, runs, command, source, runtime, steady>>
    BY DEF EmitReport
  <1>2. command \in CommandLines /\ diags \in SUBSET Known
    BY <1>1 DEF IInv, Shape
  <1>3. exit' \in {0, 1, 2, 3} /\ (exit' = 0 => diags = {})
    BY <1>1, <1>2, KnownErrors
  <1>4. (Done' => Done) /\ (Ready' => Ready)
    BY <1>1, <1>3 DEF Done, Ready
  <1>5. Shape'
    <2>1. source \in Sources /\ packed \in Sources
      BY DEF IInv, Shape, TypeOK
    <2>2. packed' \in Sources
      BY <1>1, <2>1
    <2>3. TypeOK'
      BY <1>1, <1>2, <1>3, <2>2 DEF IInv, Shape, TypeOK
    <2> QED BY <1>1, <1>2, <2>3 DEF IInv, Shape
  <1>6. Loaded' /\ Written'
    BY <1>1, <1>4 DEF IInv, Loaded, Written
  <1>7. Copied'
    <2>1. Belonging(source, command)' = Belonging(source, command)
      BY <1>1 DEF Belonging
    <2> QED BY <1>1, <1>4, <2>1 DEF IInv, Copied, Same
  <1>8. Listing'
    <2>1. ListsTruth => ListsTruth'
      BY <1>1 DEF ListsTruth, Embedded
    <2> QED BY <1>1, <1>4, <2>1 DEF IInv, Listing
  <1>9. Standing'
    <2>1. CASE packed' = packed
      BY <1>1, <1>4, <2>1 DEF IInv, Standing
    <2>2. CASE packed' # packed
      <3>1. /\ packed' = source /\ command.kind = "pack" /\ exit' = 0 /\ steady
            /\ command.project = X07Json /\ command.manifest = Index
        BY <1>1, <2>2
      <3>2. Done /\ Ready /\ ~command.fromPack
        BY <1>1, <1>2, <1>3, <3>1, CommandsAssumption DEF Done, Ready, Writers
      <3>3. /\ source.project = tree[X07Json] /\ source.project # Null
            /\ source.manifest = tree[Index] /\ source.manifest # Null
        BY <3>1, <3>2 DEF IInv, Loaded
      <3>4. X07Json \in Belonging(source, command) /\ Index \in Belonging(source, command)
        BY <3>1, <3>3 DEF Belonging
      <3>5. Same(X07Json) /\ Same(Index)
        BY <3>1, <3>2, <3>4 DEF IInv, Copied
      <3>6. out[Runtime].source = source
        BY <3>1, <3>2 DEF IInv, Listing
      <3> QED BY <1>1, <3>1, <3>3, <3>5, <3>6 DEF Standing, Same, Readers
    <2> QED BY <2>1, <2>2
  <1> QED BY <1>1, <1>5, <1>6, <1>7, <1>8, <1>9, CoherentKept DEF IInv

\* A command is killed: it leaves at most a temporary file.
LEMMA KillInv == IInv /\ Kill => IInv'
  <1> SUFFICES ASSUME IInv, Kill PROVE IInv'
    OBVIOUS
  <1>1. /\ pc # "idle" /\ pc' = "idle"
        /\ command' = NoCommand /\ source' = NoSource /\ todo' = <<>> /\ seen' = {} /\ runtime' = Null
        /\ diags' = {}
        /\ UNCHANGED <<tree, edits, runs, exit, steady, packed>>
        /\ out' = out \/ \E f \in Inside : \E c : out' = [out EXCEPT ![Name("temp", f)] = c]
    BY DEF Kill, Copying
  <1>2. DOMAIN out' = Names /\ \A n \in Names : n.kind # "temp" => out'[n] = out[n]
    BY <1>1, NameFacts DEF IInv, Shape, TypeOK
  <1>3. /\ out'[Runtime] = out[Runtime]
        /\ \A f \in Inside : out'[Name("source", f)] = out[Name("source", f)]
    BY <1>2, NameFacts DEF Runtime
  <1>4. exit = 9 /\ NoSource \in Sources
    BY <1>1 DEF IInv, Shape, NoSource, Sources
  <1>5. Shape'
    <2>1. TypeOK'
      BY <1>1, <1>2, <1>4 DEF IInv, Shape, TypeOK
    <2> QED BY <1>1, <1>3, <1>4, <2>1 DEF IInv, Shape
  <1>6. ~Done' /\ ~Ready'
    BY <1>1, <1>4 DEF Done, Ready
  <1>7. Standing'
    <2>1. command'.kind = "none"
      BY <1>1 DEF NoCommand
    <2>2. X07Json \in Inside /\ Index \in Inside
      BY ConstantsAssumption
    <2> QED BY <1>1, <1>3, <2>1, <2>2 DEF IInv, Standing, Readers
  <1> QED BY <1>1, <1>3, <1>5, <1>6, <1>7, CoherentKept DEF IInv, Loaded, Written, Copied, Listing

\* Every step keeps the invariant.
LEMMA NextInv == IInv /\ [Next]_vars => IInv'
  <1> SUFFICES ASSUME IInv, [Next]_vars PROVE IInv'
    OBVIOUS
  <1>1. CASE Rest \/ UNCHANGED vars
    <2>1. UNCHANGED <<tree, out, edits, runs, pc, command, source, todo, seen, runtime, diags, exit, steady, packed>>
      BY <1>1 DEF Rest, vars, job
    <2>2. Shape'
      BY <2>1 DEF IInv, Shape, TypeOK
    <2>3. Loaded' /\ Written' /\ Copied'
      BY <2>1 DEF IInv, Loaded, Written, Copied, Belonging, Same, DocSet, Ready, Done
    <2>4. Listing' /\ Standing'
      BY <2>1 DEF IInv, Listing, ListsTruth, Standing, Ready, Done
    <2> QED BY <2>1, <2>2, <2>3, <2>4, CoherentKept DEF IInv
  <1> QED BY <1>1, EditInv, StartInv, FailInv, ReadProjectInv, ReadManifestInv, WriteDocInv,
             DocsWrittenInv, WalkInv, CopyInv, SourcesCopiedInv, WriteRuntimePackInv, AnswerInv,
             EmitReportInv, KillInv DEF Next

-----------------------------------------------------------------------------
(* Theorems.                                                               *)

THEOREM Inductive == Spec => []IInv
  BY InitInv, NextInv, PTL DEF Spec

\* The variables keep their types (workload/).
THEOREM TypeCorrect == Spec => []TypeOK
  <1>1. IInv => TypeOK
    BY DEF IInv, Shape
  <1> QED BY <1>1, Inductive, PTL

\* After exit code 0 of a pack the runtime pack has the digests of what lies
\* there, and lists all that is looked for in it, of whatever age and however
\* the project was edited meanwhile (pack.rs:126).
THEOREM PackTruthful == Spec => []PackListsTruth
  <1>1. IInv => PackListsTruth
    <2> SUFFICES ASSUME IInv, Succeeded({"pack"})
                 PROVE  ListsTruth
      BY DEF PackListsTruth, ListsTruth
    <2>1. Done /\ command.kind = "pack"
      BY DEF Succeeded, Done
    <2> QED BY <2>1 DEF IInv, Listing
  <1> QED BY <1>1, Inductive, PTL

\* After exit code 0 of a pack on a project nobody edits, each file that belongs
\* to it is there as it is (surface.rs:272).
THEOREM PackWhole == Spec => []PackIsWhole
  <1>1. IInv => PackIsWhole
    <2> SUFFICES ASSUME IInv, Succeeded({"pack"}), steady, NEW f \in Belonging(source, command)
                 PROVE  out[Name("source", f)] = tree[f]
      BY DEF PackIsWhole
    <2>1. Done /\ command.kind = "pack"
      BY DEF Succeeded, Done
    <2> QED BY <2>1 DEF IInv, Copied, Same
  <1> QED BY <1>1, Inductive, PTL

\* What is read from a pack with exit code 0 is the project that was packed,
\* whatever has become of that, and whatever failed or was killed since
\* (surface.rs:213).
THEOREM PackAlone == Spec => []PackStandsAlone
  <1>1. IInv => PackStandsAlone
    <2> SUFFICES ASSUME IInv, Succeeded(Readers), command.fromPack, packed # NoSource
                 PROVE  source = packed /\ (runtime # Null => runtime.source = packed)
      BY DEF PackStandsAlone
    <2>1. Ready /\ command.kind \in Readers
      BY DEF Succeeded, Ready, Done
    <2> QED BY <2>1 DEF IInv, Standing
  <1> QED BY <1>1, Inductive, PTL

\* At any time a runtime pack is one of a single run, and if nothing was edited
\* during that run, it lists the very project and manifest its documents were
\* made of (pack.rs:46).
THEOREM PackCoherent == Spec => []RuntimePackCoherent
  <1>1. IInv => RuntimePackCoherent
    BY DEF IInv
  <1> QED BY <1>1, Inductive, PTL

\* A preview puts each cell of any valid manifest into one group, exposed if and
\* only if one of its cells takes requests (surface.rs:577).
THEOREM PreviewCorrect == Spec => []PreviewSound
  <1>1. IInv => PreviewSound
    <2> SUFFICES ASSUME IInv, Succeeded({"preview"})
                 PROVE  PreviewSound
      BY DEF PreviewSound
    <2>1. Ready
      BY DEF Succeeded, Ready, Done
    <2>2. source.manifest \in Manifests /\ Valid(source.project, source.manifest)
      BY <2>1 DEF IInv, Loaded
    <2> QED BY <2>2, GroupsFacts DEF PreviewSound
  <1> QED BY <1>1, Inductive, PTL
=============================================================================
