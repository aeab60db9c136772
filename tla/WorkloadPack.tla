---------------------------- MODULE WorkloadPack ----------------------------
(***************************************************************************)
(* x07-wasm workload build, pack, inspect and contracts-validate, topology *)
(* preview and binding resolve, one command after the other over one       *)
(* project and one output directory (crates/x07-wasm/src/workload/,        *)
(* topology/preview.rs, binding/resolve.rs).                               *)
(*                                                                         *)
(* A pack writes documents made of the project and the manifest it has     *)
(* loaded, then copies the files themselves, reading them again, and last  *)
(* writes a runtime pack with the digests of all that lies there.  The     *)
(* directory is not cleaned.  Others edit the project meanwhile.  A file   *)
(* is its content; digests of equal contents are equal.                    *)
(***************************************************************************)
EXTENDS Naturals, Sequences, FiniteSets, ExitCode

CONSTANTS
    Files,         \* paths a command line or a project can name
    Inside,        \* those below the directory of the project
    X07Json,       \* x07.json
    Index,         \* arch/service/index.x07service.json
    Roots,         \* module roots a project can name
    Under,         \* the files that can lie below each
    Holds,         \* what each file can hold, besides nothing
    Trees,         \* contents of the project to begin with
    ProfileIds,    \* ids of topology profiles
    CellKeys,      \* keys of cells
    Null,          \* no file, nothing named
    Garbage,       \* no JSON, an unknown schema version, or a word outside its vocabulary
    CommandLines,  \* commands others give
    MaxRuns,       \* bound: commands
    MaxEdits       \* bound: edits

Writers == {"build", "pack"}
Readers == {"inspect", "preview", "resolve", "validate"}

Cells(m) == {m.cells[i] : i \in DOMAIN m.cells}

\* What can be read as a project, and as a service manifest.
ProjectFiles  == {X07Json} \cup {c.project : c \in CommandLines}
ManifestFiles == {Index} \cup {c.manifest : c \in CommandLines}
Projects  == (UNION {Holds[f] : f \in ProjectFiles}) \ {Garbage}
Manifests == (UNION {Holds[f] : f \in ManifestFiles}) \ {Garbage}

ASSUME ConstantsAssumption ==
    /\ X07Json \in Inside /\ Index \in Inside /\ Inside \subseteq Files
    /\ Under \in [Roots -> SUBSET Inside]
    /\ \A r \in Roots : IsFiniteSet(Under[r])
    /\ DOMAIN Holds = Files
    /\ \A f \in Files : Null \notin Holds[f]
    /\ \A t \in Trees : DOMAIN t = Files /\ \A f \in Files : t[f] \in Holds[f] \cup {Null}
    /\ "default" \in ProfileIds
    /\ MaxRuns \in Nat /\ MaxEdits \in Nat

\* The directory of the project is that of its file, and a pack is made of a
\* project, never of a pack.
ASSUME CommandsAssumption ==
    \A c \in CommandLines :
        /\ c.kind \in Writers \cup Readers
        /\ c.project \in Inside /\ c.manifest \in Files
        /\ c.fromPack \in BOOLEAN /\ (c.kind \in Writers => ~c.fromPack)

\* What has been read has the shape of the structs it was read into.
ASSUME ShapesAssumption ==
    /\ \A p \in Projects : p.entry \in Files /\ p.roots \in Seq(Roots)
    /\ \A m \in Manifests :
          /\ m.cells \in Seq(Cells(m)) /\ \A c \in Cells(m) : c.key \in CellKeys
          /\ m.profiles \in Seq({m.profiles[i] : i \in DOMAIN m.profiles})
          /\ \A i \in DOMAIN m.profiles : m.profiles[i].id \in ProfileIds

\* Files of the output directory.  A temporary file is one that a killed write
\* has left beside its target.
Name(kind, id) == [kind |-> kind, id |-> id]
Public   == Name("public", Null)     \* workload.pack.json
Describe == Name("describe", Null)   \* workload.describe.json
Bindings == Name("bindings", Null)   \* binding.requirements.json
Runtime  == Name("runtime", Null)    \* x07.workload.pack.json
Names == {Public, Describe, Bindings, Runtime}
         \cup {Name("topology", i) : i \in ProfileIds}
         \cup {Name("embedded", k) : k \in CellKeys}
         \cup {Name(k, f) : k \in {"source", "temp"}, f \in Inside}

-----------------------------------------------------------------------------
(* Projects and service manifests: load_source, validate_source_docs.      *)

Unique(s)     == \A i, j \in DOMAIN s : i # j => s[i] # s[j]
Keys(m)       == [i \in DOMAIN m.cells |-> m.cells[i].key]
Ids(m)        == [i \in DOMAIN m.profiles |-> m.profiles[i].id]
BoundNames(m) == [i \in DOMAIN m.bindings |-> m.bindings[i].name]

\* An event cell listens to one of its bindings, which is a queue.
CellValid(c, m) ==
    /\ \A r \in c.refs : \E i \in DOMAIN m.bindings : m.bindings[i].name = r
    /\ (c.ingress = "event") <=> (c.event # Null)
    /\ (c.ingress = "schedule") <=> c.scheduled
    /\ c.event # Null =>
          /\ c.event \in c.refs
          /\ \A i \in DOMAIN m.bindings :
                m.bindings[i].name = c.event => m.bindings[i].kind \in {"amqp", "kafka"}

Valid(p, m) ==
    /\ p # Garbage /\ p.roots # <<>>
    /\ m # Garbage
    /\ Unique(BoundNames(m))
    /\ m.cells # <<>> /\ Unique(Keys(m))
    /\ \A c \in Cells(m) : CellValid(c, m)
    /\ Unique(Ids(m))

-----------------------------------------------------------------------------
(* Documents.                                                              *)

\* The ways to put the elements of a set into a list.
Orders(S) == {f \in [1..Cardinality(S) -> S] : Unique(f)}

NoProfile == [id |-> "default", placement |-> "co-located"]

Profiles(m) == IF m.profiles = <<>> THEN <<NoProfile>> ELSE m.profiles

\* A manifest without profiles takes any name for its default.
Unknown(m, profile) ==
    /\ m.profiles # <<>> /\ profile # Null
    /\ \A i \in DOMAIN m.profiles : m.profiles[i].id # profile

GroupKey(c, placement) == IF placement = "split-by-cell" THEN c.key ELSE c.group

\* collapse_or_first
Collapse(values) == IF \E v \in values : values = {v} THEN CHOOSE v \in values : TRUE ELSE "mixed"

\* Mutant of Group: a group is as public as its first cell.
GroupOfFirst(key, m, placement) ==
    LET members == {c \in Cells(m) : GroupKey(c, placement) = key}
        first   == CHOOSE i \in DOMAIN m.cells :
                      /\ m.cells[i] \in members
                      /\ \A j \in DOMAIN m.cells : m.cells[j] \in members => i <= j IN
    [key |-> key, cells |-> {c.key : c \in members},
     class |-> Collapse({c.class : c \in members}),
     public |-> m.cells[first].ingress \in {"http", "mcp"}]

Group(key, m, placement) ==
    LET members == {c \in Cells(m) : GroupKey(c, placement) = key} IN
    [key |-> key, cells |-> {c.key : c \in members},
     class |-> Collapse({c.class : c \in members}),
     public |-> \E c \in members : c.ingress \in {"http", "mcp"}]

\* topology_preview_doc
Groups(m, placement) ==
    {Group(key, m, placement) : key \in {GroupKey(c, placement) : c \in Cells(m)}}

\* A document is determined by what it was made of, and the part it is about.
Doc(s, part)   == [project |-> s.project, manifest |-> s.manifest, part |-> part]
File(n, s, part) == [name |-> n, doc |-> Doc(s, part)]

\* build_artifacts, in the order they are written.
Docs(s) ==
    <<File(Public, s, Null), File(Describe, s, Null), File(Bindings, s, Null)>>
    \o [i \in DOMAIN Profiles(s.manifest) |->
           LET p == Profiles(s.manifest)[i] IN File(Name("topology", p.id), s, p)]

Embeds(c) == c.class = "embedded-kernel"

\* embedded_kernel_starter_docs
Embedded(s) == {File(Name("embedded", c.key), s, c) : c \in {k \in Cells(s.manifest) : Embeds(k)}}

\* The starters follow the order of their cells.
InOrder(docs, m) ==
    \A i, j \in DOMAIN docs :
        i < j => \E a, b \in DOMAIN m.cells :
                    a < b /\ docs[i].doc.part = m.cells[a] /\ docs[j].doc.part = m.cells[b]

\* No document is made of anything else, and none is taken for a missing file.
Parts == {Null, NoProfile}
         \cup UNION {Cells(m) \cup {m.profiles[i] : i \in DOMAIN m.profiles} : m \in Manifests}
Documents == [project : Projects, manifest : Manifests, part : Parts]

ASSUME DocumentsAssumption == Null \notin Documents

-----------------------------------------------------------------------------
VARIABLES
    tree,      \* the files of the project
    out,       \* the files of the output directory
    edits,     \* edits so far
    runs,      \* commands so far
    command,   \* the last one
    pc,        \* "idle", "project", "manifest", "write", "copy", "embed", "answer", "emit"
    source,    \* WorkloadSource: what was loaded
    todo,      \* documents still to write; files and roots still to copy
    seen,      \* files that were copied, or would have been
    runtime,   \* the runtime pack an inspect has found
    diags,     \* diagnostics
    exit,      \* exit code of the last command; 9 while it runs and when it was killed
    steady,    \* history: nothing was edited since the last command has begun
    packed     \* history: what the directory is a pack of, when a pack has succeeded on a steady project

job  == <<command, source, todo, seen, runtime>>
vars == <<tree, out, edits, runs, pc, job, diags, exit, steady, packed>>

NoSource == [project |-> Null, manifest |-> Null]
NoCommand == [kind |-> "none", project |-> X07Json, manifest |-> Index, fromPack |-> FALSE, profile |-> Null]

Init ==
    /\ tree \in Trees
    /\ out = [n \in Names |-> Null]
    /\ edits = 0 /\ runs = 0
    /\ command = NoCommand
    /\ pc = "idle" /\ source = NoSource
    /\ todo = <<>> /\ seen = {} /\ runtime = Null
    /\ diags = {} /\ exit = 9 /\ steady = TRUE /\ packed = NoSource

\* Somebody edits, creates or removes a file of the project.
Edit ==
    /\ edits < MaxEdits /\ (pc # "idle" \/ runs < MaxRuns)
    /\ \E f \in Files : \E c \in (Holds[f] \cup {Null}) \ {tree[f]} :
          tree' = [tree EXCEPT ![f] = c]
    /\ edits' = edits + 1
    /\ steady' = FALSE
    /\ UNCHANGED <<out, runs, pc, job, diags, exit, packed>>

-----------------------------------------------------------------------------
(* Loading.                                                                *)

InputInvalid == Error("X07WASM_WORKLOAD_INPUT_INVALID", "parse", "general")
WriteFailed  == Error("X07WASM_WORKLOAD_WRITE_FAILED", "run", "tool")

Start ==
    /\ pc = "idle" /\ runs < MaxRuns
    /\ command' \in CommandLines
    /\ runs' = runs + 1
    /\ source' = NoSource /\ runtime' = Null
    /\ exit' = 9 /\ steady' = TRUE
    /\ packed' = IF command'.kind \in Writers THEN NoSource ELSE packed
    /\ pc' = "project"
    /\ UNCHANGED <<tree, out, edits, todo, seen, diags>>

Abort(d) == diags' = diags \cup {d} /\ pc' = "emit"

\* The sources of a pack are looked for where a project has them by default,
\* whatever their names were when it was packed.
ProjectFile  == IF command.fromPack THEN out[Name("source", X07Json)] ELSE tree[command.project]
ManifestFile == IF command.fromPack THEN out[Name("source", Index)] ELSE tree[command.manifest]

\* A file is missing or cannot be read.
LoadFails ==
    /\ pc \in {"project", "manifest"}
    /\ Abort(InputInvalid)
    /\ UNCHANGED <<tree, out, edits, runs, job, exit, steady, packed>>

ReadProject ==
    /\ pc = "project" /\ ProjectFile # Null
    /\ source' = [source EXCEPT !.project = ProjectFile]
    /\ pc' = "manifest"
    /\ UNCHANGED <<tree, out, edits, runs, command, todo, seen, runtime, diags, exit, steady, packed>>

ReadManifest ==
    /\ pc = "manifest" /\ ManifestFile # Null
    /\ source' = [source EXCEPT !.manifest = ManifestFile]
    /\ \/ ~Valid(source'.project, source'.manifest) /\ Abort(InputInvalid) /\ UNCHANGED todo
       \/ /\ Valid(source'.project, source'.manifest)
          /\ IF command.kind \in Writers THEN pc' = "write" /\ todo' = Docs(source')
             ELSE pc' = "answer" /\ UNCHANGED todo
          /\ UNCHANGED diags
    /\ UNCHANGED <<tree, out, edits, runs, command, seen, runtime, exit, steady, packed>>

-----------------------------------------------------------------------------
(* Writing: write_build_outputs, write_pack_sources, build_runtime_pack_doc. *)

\* Each file is written beside its target and renamed.
WriteDoc ==
    /\ pc \in {"write", "embed"} /\ todo # <<>>
    /\ out' = [out EXCEPT ![Head(todo).name] = Head(todo).doc]
    /\ todo' = Tail(todo)
    /\ UNCHANGED <<tree, edits, runs, command, source, seen, runtime, pc, diags, exit, steady, packed>>

Copying(f) == pc = "copy" /\ todo # <<>> /\ Head(todo) = Name("file", f)

\* Mutant of WriteFails: the command goes on with the next file.
WriteFailsAndGoesOn ==
    /\ pc \in {"write", "copy", "embed"} /\ todo # <<>>
    /\ diags' = diags \cup {WriteFailed}
    /\ todo' = Tail(todo)
    /\ UNCHANGED <<tree, out, edits, runs, pc, command, source, seen, runtime, exit, steady, packed>>

\* A directory cannot be made, a file not be read, written or digested.
WriteFails ==
    /\ pc \in {"write", "copy", "embed"}
    /\ \/ UNCHANGED out
       \/ \E f \in Inside : Copying(f) /\ out' = [out EXCEPT ![Name("temp", f)] = Null]
    /\ Abort(WriteFailed)
    /\ UNCHANGED <<tree, edits, runs, job, exit, steady, packed>>

\* Mutant of CopyList: the entry is taken to lie in a module root.
CopyRoots(s, c) ==
    <<Name("file", c.project), Name("file", c.manifest)>>
    \o [i \in DOMAIN s.project.roots |-> Name("root", s.project.roots[i])]

CopyList(s, c) ==
    <<Name("file", c.project), Name("file", c.manifest)>>
    \o [i \in DOMAIN s.project.roots |-> Name("root", s.project.roots[i])]
    \o <<Name("file", s.project.entry)>>

DocsWritten ==
    /\ pc = "write" /\ todo = <<>>
    /\ IF command.kind = "build" THEN pc' = "emit" /\ UNCHANGED todo
       ELSE pc' = "copy" /\ todo' = CopyList(source, command)
    /\ UNCHANGED <<tree, out, edits, runs, command, source, seen, runtime, diags, exit, steady, packed>>

\* A root is a directory or a file, and may be missing.  read_dir gives the
\* files in any order.
Walk ==
    /\ pc = "copy" /\ todo # <<>> /\ Head(todo).kind = "root"
    /\ \E s \in Orders({f \in Under[Head(todo).id] : tree[f] # Null}) :
          todo' = [i \in DOMAIN s |-> Name("file", s[i])] \o Tail(todo)
    /\ UNCHANGED <<tree, out, edits, runs, pc, command, source, seen, runtime, diags, exit, steady, packed>>

\* Mutant of Copy: a file that is there already is not copied again.
CopyOnce ==
    \E f \in Inside :
        /\ Copying(f)
        /\ out' = IF f \in seen \/ tree[f] = Null \/ out[Name("source", f)] # Null THEN out
                  ELSE [out EXCEPT ![Name("source", f)] = tree[f], ![Name("temp", f)] = Null]
        /\ seen' = seen \cup {f}
        /\ todo' = Tail(todo)
        /\ UNCHANGED <<tree, edits, runs, pc, command, source, runtime, diags, exit, steady, packed>>

\* Each file once, with what it holds now; a file that is gone is passed over.
Copy ==
    \E f \in Inside :
        /\ Copying(f)
        /\ out' = IF f \in seen \/ tree[f] = Null THEN out
                  ELSE [out EXCEPT ![Name("source", f)] = tree[f], ![Name("temp", f)] = Null]
        /\ seen' = seen \cup {f}
        /\ todo' = Tail(todo)
        /\ UNCHANGED <<tree, edits, runs, pc, command, source, runtime, diags, exit, steady, packed>>

\* relative_to: the manifest lies outside the directory of the project.
CopyRefused ==
    /\ \E f \in Files \ Inside : Copying(f)
    /\ Abort(WriteFailed)
    /\ UNCHANGED <<tree, out, edits, runs, job, exit, steady, packed>>

SourcesCopied ==
    /\ pc = "copy" /\ todo = <<>>
    /\ \E docs \in Orders(Embedded(source)) : InOrder(docs, source.manifest) /\ todo' = docs
    /\ pc' = "embed"
    /\ UNCHANGED <<tree, out, edits, runs, command, source, seen, runtime, diags, exit, steady, packed>>

\* What the runtime pack lists: previews and sources of any age among it, and
\* temporary files beside the sources, too.
Listed ==
    {n \in Names :
        /\ out[n] # Null
        /\ \/ n.kind \in {"public", "describe", "bindings", "topology", "source", "temp"}
           \/ \E e \in Embedded(source) : e.name = n}

\* Mutant of WriteRuntimePack: the digests are those of the project.
WriteRuntimePackOfProject ==
    /\ pc = "embed" /\ todo = <<>>
    /\ out' = [out EXCEPT ![Runtime] =
                  [source |-> source, steady |-> steady, command |-> command,
                   listed |-> [n \in Listed |-> IF n.kind = "source" THEN tree[n.id] ELSE out[n]]]]
    /\ pc' = "emit"
    /\ UNCHANGED <<tree, edits, runs, job, diags, exit, steady, packed>>

WriteRuntimePack ==
    /\ pc = "embed" /\ todo = <<>>
    /\ out' = [out EXCEPT ![Runtime] =
                  [source |-> source, steady |-> steady, command |-> command,
                   listed |-> [n \in Listed |-> out[n]]]]
    /\ pc' = "emit"
    /\ UNCHANGED <<tree, edits, runs, job, diags, exit, steady, packed>>

-----------------------------------------------------------------------------
(* Reading: inspect, preview, resolve, contracts-validate.                 *)

\* The documents are made anew of the sources; a runtime pack that is missing
\* or cannot be read is none.  Only previews and contracts take a profile.
Answer ==
    /\ pc = "answer" /\ ~Unknown(source.manifest, command.profile)
    /\ \/ command.kind = "inspect" /\ runtime' \in {out[Runtime], Null}
       \/ command.kind # "inspect" /\ UNCHANGED runtime
    /\ pc' = "emit"
    /\ UNCHANGED <<tree, out, edits, runs, command, source, todo, seen, diags, exit, steady, packed>>

ContractErrors ==
    {Error("X07WASM_WORKLOAD_CONTRACTS_SCHEMA_DIR_INVALID", "parse", "general"),
     Error("X07WASM_WORKLOAD_CONTRACTS_VALIDATE_FAILED", "run", "general"),
     Error("X07WASM_WORKLOAD_CONTRACT_INVALID", "lint", "general")}

AnswerFails ==
    /\ pc = "answer"
    /\ \/ Unknown(source.manifest, command.profile) /\ Abort(InputInvalid)
       \/ command.kind = "validate" /\ \E d \in ContractErrors : Abort(d)
    /\ UNCHANGED <<tree, out, edits, runs, job, exit, steady, packed>>

-----------------------------------------------------------------------------
\* A report that cannot be made ends the command with 2.
EmitReport ==
    /\ pc = "emit"
    /\ exit' \in {ExitCodeOf(diags), 2}
    /\ pc' = "idle"
    /\ packed' = IF /\ command.kind = "pack" /\ exit' = 0 /\ steady
                    /\ command.project = X07Json /\ command.manifest = Index
                 THEN source ELSE packed
    /\ todo' = <<>> /\ seen' = {} /\ diags' = {}
    /\ UNCHANGED <<tree, out, edits, runs, command, source, runtime, steady>>

\* Perhaps between the writing of a temporary file and its renaming.
Kill ==
    /\ pc # "idle"
    /\ \/ UNCHANGED out
       \/ \E f \in Inside \ seen :
             /\ Copying(f) /\ tree[f] # Null
             /\ \E c \in {Garbage, tree[f]} : out' = [out EXCEPT ![Name("temp", f)] = c]
    /\ pc' = "idle"
    /\ command' = NoCommand /\ source' = NoSource /\ todo' = <<>> /\ seen' = {} /\ runtime' = Null /\ diags' = {}
    /\ UNCHANGED <<tree, edits, runs, exit, steady, packed>>

Rest == pc = "idle" /\ runs = MaxRuns /\ UNCHANGED vars

Next ==
    \/ Edit \/ Start \/ LoadFails \/ ReadProject \/ ReadManifest
    \/ WriteDoc \/ WriteFails \/ DocsWritten
    \/ Walk \/ Copy \/ CopyRefused \/ SourcesCopied \/ WriteRuntimePack
    \/ Answer \/ AnswerFails \/ EmitReport \/ Kill \/ Rest

Spec == Init /\ [][Next]_vars

-----------------------------------------------------------------------------
(* Properties.                                                             *)

Sources == [project : Projects \cup {Garbage, Null}, manifest : Manifests \cup {Garbage, Null}]

TypeOK ==
    /\ DOMAIN tree = Files /\ \A f \in Files : tree[f] \in Holds[f] \cup {Null}
    /\ DOMAIN out = Names
    /\ edits \in 0..MaxEdits /\ runs \in 0..MaxRuns
    /\ command \in CommandLines \cup {NoCommand}
    /\ pc \in {"idle", "project", "manifest", "write", "copy", "embed", "answer", "emit"}
    /\ source \in Sources /\ packed \in Sources
    /\ seen \subseteq Inside
    /\ exit \in {0, 1, 2, 3, 9} /\ steady \in BOOLEAN

Succeeded(kinds) == pc = "idle" /\ command.kind \in kinds /\ exit = 0

\* After exit code 0 of a pack the runtime pack has the digests of what lies
\* there, nothing is missing from it that a reader of the pack would look for,
\* and the starters of embedded kernels are those of this project and not of an
\* earlier one, however the project was edited in between (pack.rs:126).
PackListsTruth ==
    Succeeded({"pack"}) =>
        LET listed == out[Runtime].listed IN
        /\ \A n \in DOMAIN listed : out[n] # Null /\ listed[n] = out[n]
        /\ \A n \in Names : n.kind \in {"source", "topology"} /\ out[n] # Null => n \in DOMAIN listed
        /\ \A e \in Embedded(source) : e.name \in DOMAIN listed /\ out[e.name] = e.doc

\* What belongs to a project, as it lies there.
Belonging(s, c) ==
    {f \in {c.project, c.manifest, s.project.entry}
          \cup UNION {Under[s.project.roots[i]] : i \in DOMAIN s.project.roots} : tree[f] # Null}

\* After exit code 0 of a pack, with nothing edited since it has begun, all that
\* belongs to the project is there as it is, over whatever an earlier pack, of
\* other contents or killed, has left (surface.rs:272).
PackIsWhole ==
    Succeeded({"pack"}) /\ steady =>
        \A f \in Belonging(source, command) : out[Name("source", f)] = tree[f]

\* A pack stands for itself: what is read from it with exit code 0 is about the
\* project that was packed, whatever becomes of that, if it was packed under the
\* default names and nothing was edited meanwhile (surface.rs:213).
PackStandsAlone ==
    Succeeded(Readers) /\ command.fromPack /\ packed # NoSource =>
        /\ source = packed
        /\ runtime # Null => runtime.source = packed

\* At any time, after failures and kills too, a runtime pack is one of a single
\* run: the documents it lists were all made of what it was made of, and so were
\* project and manifest among its sources if nothing was edited (pack.rs:46).
RuntimePackCoherent ==
    LET rp == out[Runtime] IN
    rp # Null =>
        /\ \A i \in DOMAIN Docs(rp.source) :
              LET d == Docs(rp.source)[i] IN d.name \in DOMAIN rp.listed /\ rp.listed[d.name] = d.doc
        /\ rp.steady =>
              /\ Name("source", rp.command.project) \in DOMAIN rp.listed
              /\ Name("source", rp.command.manifest) \in DOMAIN rp.listed
              /\ rp.listed[Name("source", rp.command.project)] = rp.source.project
              /\ rp.listed[Name("source", rp.command.manifest)] = rp.source.manifest

\* A preview puts each cell into one group, alone if cells are split; a group is
\* exposed if and only if one of its cells takes requests; and it tells a class
\* only if all its cells are of it (surface.rs:577).
PreviewSound ==
    Succeeded({"preview"}) =>
        \A i \in DOMAIN Profiles(source.manifest) :
            LET placement == Profiles(source.manifest)[i].placement
                groups == Groups(source.manifest, placement) IN
            /\ \A k \in DOMAIN Keys(source.manifest) :
                  Cardinality({g \in groups : Keys(source.manifest)[k] \in g.cells}) = 1
            /\ \A g \in groups : placement = "split-by-cell" => Cardinality(g.cells) = 1
            /\ \A g \in groups : g.public =>
                  \E c \in Cells(source.manifest) : c.key \in g.cells /\ c.ingress \in {"http", "mcp"}
            /\ \A c \in Cells(source.manifest), g \in groups :
                  c.key \in g.cells =>
                      /\ c.ingress \in {"http", "mcp"} => g.public
                      /\ g.class \in {c.class, "mixed"}
=============================================================================
