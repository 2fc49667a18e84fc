---------------------------- MODULE AidlSources ----------------------------
(***************************************************************************)
(* The AIDL builder (rsbinder-aidl/src/lib.rs): from the source paths given   *)
(* to Builder to one generated file.  parse_sources works through a list of   *)
(* paths that grows with every directory scanned and every import resolved;   *)
(* an import is looked up in the include directories known at that moment.    *)
(* generate then registers and generates every document and generate_all      *)
(* nests the results in modules.                                             *)
(*                                                                         *)
(* A build is a file tree and the calls made on the builder.  What a document *)
(* holds is left out except its package, its imports and whether it parses    *)
(* and generates; AidlNames has the rest.  A package is the sequence of its    *)
(* components, ordered as the strings are: '.' sorts before every character   *)
(* of a component.                                                           *)
(***************************************************************************)
EXTENDS Naturals, Sequences, SequencesExt, FiniteSets

CONSTANTS Builds,    \* the file trees with the builder's calls, see below
          NoRoot     \* strip_package found no directory

\* A build is a record:
\*   files, dirs   the paths that exist, of .aidl files and of directories
\*   entries[d]    what read_dir(d) lists
\*   package[f], imports[f], root[f]   of a file: its package, the names it
\*                 imports and the directory strip_package infers, or NoRoot
\*   under[r, n]   the file that import n names below directory r, if any
\*   builtin       the imports that need no file
\*   broken, bad   the files that do not parse, or do not generate
\*   sources, includes, versioned   the calls of source, include_dir and version

VARIABLES build,     \* the build
          phase,     \* "parse", "generate", "assemble", "written" or "failed"
          batch,     \* the paths the inner loop still has to take
          pending,   \* sources: the paths found meanwhile
          seen, includes, deps, docs, errors,
          kept,      \* package_list: the documents generated
          open,      \* the modules open in the output
          opened,    \* every module opened so far, in order
          placed     \* placed[f]: the modules around the text of f
srcVars == <<build, phase, batch, pending, seen, includes, deps, docs, errors, kept, open, opened, placed>>

-----------------------------------------------------------------------------
(* parse_sources *)

\* include_dir keeps the first of equal directories.
Distinct(s) == FoldLeft(LAMBDA a, x : IF Contains(a, x) THEN a ELSE Append(a, x), <<>>, s)

SrcStart(b) ==
    /\ build = b
    /\ phase = "parse"
    /\ batch = build.sources /\ pending = <<>> /\ seen = {}
    /\ includes = Distinct(build.includes)
    /\ deps = Range(includes)
    /\ docs = <<>> /\ errors = {} /\ kept = <<>>
    /\ open = <<>> /\ opened = <<>> /\ placed = <<>>

SrcInit == \E b \in Builds : SrcStart(b)

IsFile(p) == p \in build.files

\* Fault model: the directory a package implies is searched and not recorded.
InferUnrecorded(f) ==
    LET r == build.root[f]
    IN IF r = NoRoot \/ Contains(includes, r) THEN UNCHANGED includes /\ deps' = deps \cup {f}
       ELSE includes' = Append(includes, r) /\ deps' = deps \cup {f}

\* The directory above the package of a parsed file becomes an include.
Infer(f) ==
    LET r == build.root[f]
    IN IF r = NoRoot \/ Contains(includes, r) THEN UNCHANGED includes /\ deps' = deps \cup {f}
       ELSE includes' = Append(includes, r) /\ deps' = deps \cup {f, r}

\* Where an import is found among some directories.
Hits(n, dirs) == {build.under[r, n] : r \in {d \in Range(dirs) : <<d, n>> \in DOMAIN build.under}}

\* Fault model: an import found nowhere is passed over.
ImportFailsAmbiguous(n, dirs) == Cardinality(Hits(n, dirs)) > 1

\* An import found under no directory, or under several, is an error.
ImportFails(n, dirs) == Cardinality(Hits(n, dirs)) # 1

\* Fault model: only directories are remembered.
IsSeenDir(p) == p \in seen \cap build.dirs

IsSeen(p) == p \in seen

\* One path of the batch that was met before.
SkipPath ==
    /\ phase = "parse" /\ batch # <<>> /\ IsSeen(batch[1])
    /\ batch' = Tail(batch)
    /\ UNCHANGED <<build, phase, pending, seen, includes, deps, docs, errors, kept, open, opened, placed>>

\* A file: its imports, in the order of a hash map, are resolved against the
\* directories known after its own package.
ParseFile ==
    LET f == batch[1]
        wanted == build.imports[f] \ build.builtin
    IN /\ phase = "parse" /\ batch # <<>> /\ ~IsSeen(f) /\ IsFile(f)
       /\ batch' = Tail(batch) /\ seen' = seen \cup {f}
       /\ IF f \in build.broken
          THEN /\ errors' = errors \cup {<<"syntax", f>>}
               /\ UNCHANGED <<pending, includes, deps, docs>>
          ELSE /\ Infer(f)
               /\ \E names \in SetToSeqs(wanted) :
                     pending' = pending \o FlattenSeq([i \in DOMAIN names |-> IF ImportFails(names[i], includes') THEN <<>> ELSE SetToSeq(Hits(names[i], includes'))])
               /\ errors' = errors \cup {<<"import", n>> : n \in {n \in wanted : ImportFails(n, includes')}}
               /\ docs' = Append(docs, f)
       /\ UNCHANGED <<build, phase, kept, open, opened, placed>>

\* A directory: its entries in whatever order read_dir lists them.
ScanDir ==
    LET d == batch[1]
    IN /\ phase = "parse" /\ batch # <<>> /\ ~IsSeen(d) /\ d \in build.dirs
       /\ batch' = Tail(batch) /\ seen' = seen \cup {d}
       /\ deps' = deps \cup {d}
       /\ \E listed \in SetToSeqs(build.entries[d]) : pending' = pending \o listed
       /\ UNCHANGED <<build, phase, includes, docs, errors, kept, open, opened, placed>>

\* A path that does not exist: read_dir fails and parse_sources with it.
MissingPath ==
    /\ phase = "parse" /\ batch # <<>> /\ ~IsSeen(batch[1])
    /\ batch[1] \notin build.files \cup build.dirs
    /\ phase' = "failed"
    /\ UNCHANGED <<build, batch, pending, seen, includes, deps, docs, errors, kept, open, opened, placed>>

NextBatch ==
    /\ phase = "parse" /\ batch = <<>> /\ pending # <<>>
    /\ batch' = pending /\ pending' = <<>>
    /\ UNCHANGED <<build, phase, seen, includes, deps, docs, errors, kept, open, opened, placed>>

-----------------------------------------------------------------------------
(* generate *)

\* The errors of the parse end the build, as do an empty build and a version
\* given to a path that was not parsed.
ParsedAll ==
    /\ phase = "parse" /\ batch = <<>> /\ pending = <<>>
    /\ phase' = IF errors # {} \/ docs = <<>> \/ ~(build.versioned \subseteq Range(docs)) THEN "failed" ELSE "generate"
    /\ UNCHANGED <<build, batch, pending, seen, includes, deps, docs, errors, kept, open, opened, placed>>

\* Lexicographic order, a prefix first.
Before(a, b) ==
    LET n == CHOOSE i \in 0 .. Len(a) : IsPrefix(SubSeq(a, 1, i), b)
                                        /\ \A j \in i + 1 .. Len(a) : ~IsPrefix(SubSeq(a, 1, j), b)
    IN n = Len(a) \/ (n < Len(b) /\ a[n + 1] < b[n + 1])

\* Every document is generated; one error and nothing is written.  The results
\* are sorted by package.
GenerateAll ==
    LET failing == {f \in Range(docs) : f \in build.bad}
    IN /\ phase = "generate"
       /\ errors' = errors \cup {<<"generate", f>> : f \in failing}
       /\ phase' = IF failing = {} THEN "assemble" ELSE "failed"
       /\ kept' = IF failing = {} THEN SortSeq(docs, LAMBDA f, g : f # g /\ Before(build.package[f], build.package[g])
                                                                      /\ build.package[f] # build.package[g]) ELSE <<>>
       /\ UNCHANGED <<build, batch, pending, seen, includes, deps, docs, open, opened, placed>>

-----------------------------------------------------------------------------
(* generate_all *)

\* How many leading components two packages share.
Shared(a, b) ==
    CHOOSE i \in 0 .. Len(a) : /\ IsPrefix(SubSeq(a, 1, i), b)
                               /\ \A j \in i + 1 .. Len(a) : ~IsPrefix(SubSeq(a, 1, j), b)

\* The next document: the modules it does not share with the one before are
\* closed, its own opened, and its text written.
PlaceModule ==
    LET f == kept[1]
        to == build.package[f]
        start == Shared(open, to)
        new == SubSeq(to, start + 1, Len(to))
        now == SubSeq(open, 1, start) \o new
    IN /\ phase = "assemble" /\ kept # <<>>
       /\ kept' = Tail(kept)
       /\ open' = IF open = to THEN open ELSE now
       /\ opened' = opened \o [i \in 1 .. Len(new) |-> SubSeq(now, 1, Len(now) - Len(new) + i)]
       /\ placed' = [g \in DOMAIN placed \cup {f} |-> IF g = f THEN open' ELSE placed[g]]
       /\ UNCHANGED <<build, phase, batch, pending, seen, includes, deps, docs, errors>>

Write ==
    /\ phase = "assemble" /\ kept = <<>>
    /\ phase' = "written" /\ open' = <<>>
    /\ UNCHANGED <<build, batch, pending, seen, includes, deps, docs, errors, kept, opened, placed>>

SrcNext ==
    SkipPath \/ ParseFile \/ ScanDir \/ MissingPath \/ NextBatch \/ ParsedAll \/ GenerateAll \/ PlaceModule \/ Write
SrcSpec == SrcInit /\ [][SrcNext]_srcVars

-----------------------------------------------------------------------------
(* Properties *)

\* Every file is parsed once, however often it is listed, imported or reached
\* round a cycle: a second copy would generate its items twice.
ParsedOnce == IsInjective(docs)

\* What is written is closed under imports: each import of each document is in
\* the output, from the only file it named when it was resolved.
Closed ==
    phase = "written" =>
        \A f \in Range(docs) : \A n \in build.imports[f] \ build.builtin :
           \E g \in Range(docs) : g \in Hits(n, includes)

\* At every moment, what was read is recorded for rerun-if-changed: the files
\* parsed, the directories scanned and the directories searched.
DependenciesComplete ==
    Range(docs) \cup {p \in seen : p \in build.dirs} \cup Range(includes) \subseteq deps

\* Each module is opened once (a second one is a duplicate definition), and
\* every document stands in the modules of its package.
ModulesNested ==
    /\ IsInjective(opened)
    /\ phase = "written" => \A f \in Range(docs) : f \in DOMAIN placed /\ placed[f] = build.package[f]

\* A build writes every document it needs once, in its place, and names
\* everything it read (parse_sources, resolve_imports and generate_all of
\* rsbinder-aidl's Builder).
OutputComplete == ParsedOnce /\ Closed /\ DependenciesComplete /\ ModulesNested
=============================================================================
