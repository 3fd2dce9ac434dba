---------------------------- MODULE KSDirectories ----------------------------
(***************************************************************************)
(* The directories of KSFileUtils.c: ksfu_deleteContentsOfPath(), which    *)
(* empties the reports directory, and ksfu_makePath(), which makes it,     *)
(* while a crash on another thread may create reports in it.               *)
(*                                                                         *)
(* A path is a sequence of names; every call of the file system is one     *)
(* step.  deletePathContents() calls itself: its calls are a stack.  The   *)
(* tree may have symbolic links, which stat() and opendir() follow.        *)
(***************************************************************************)
EXTENDS Naturals, FiniteSets, SequencesExt

CONSTANTS
  Top,         \* the directory that is emptied
  Trees,       \* the initial trees: functions from paths to kinds
  NewFiles,    \* paths at which files may be created
  Target,      \* where a link leads, for each path at which there may be one
  MaxLinks,    \* links that are followed on one path; it is cut off behind them
  NewPaths,    \* paths that ksfu_makePath() may be called for
  MaxCreated   \* model bound: files that are created

VARIABLES
  tree,     \* what is at each path: "dir", "file", "link" or "other"
  stack,    \* the calls of deletePathContents(), the innermost one first
  created,  \* how many files have been created
  begun,    \* history: the tree when ksfu_deleteContentsOfPath() began
  quiet,    \* history: nothing was created since then
  made      \* ksfu_makePath(): the path, how much of it is made, the state

vars == <<tree, stack, created, begun, quiet, made>>

Paths      == DOMAIN tree
NoTree     == [p \in {} |-> "dir"]
Within(t, p) == {q \in DOMAIN t : IsStrictPrefix(p, q)}
Inside(p)  == Within(tree, p)
Names(p)   == {Last(q) : q \in {q \in Inside(p) : Len(q) = Len(p) + 1}}
Added(p, k)  == [q \in Paths \cup {p} |-> IF q = p THEN k ELSE tree[q]]
Removed(p) == [q \in Paths \ {p} |-> tree[q]]

\* A path with its first link replaced by what it refers to, or its first "." or
\* ".." taken away.
Followed(t, p) ==
  LET Upto(n) == SubSeq(p, 1, n)
      stops   == {n \in 1 .. Len(p) : p[n] \in {".", ".."} \/ (Upto(n) \in DOMAIN t /\ t[Upto(n)] = "link")}
      n       == Min(stops)
      first   == CASE p[n] = "." -> Upto(n - 1) [] p[n] = ".." -> Upto(n - 2) [] OTHER -> Target[Upto(n)]
  IN  IF stops = {} THEN p ELSE first \o SubSeq(p, n + 1, Len(p))

\* Where the file system arrives for a path, and for its last name in the
\* directory that it arrives at.
Resolved(t, p) == FoldLeft(LAMBDA q, k : Followed(t, q), p, [k \in 1 .. MaxLinks |-> k])
Entry(p)       == IF p = <<>> THEN p ELSE Resolved(tree, Front(p)) \o <<Last(p)>>

\* stat(): it fails ("none") behind a link to nothing, and behind too many.
Stat(t, p) ==
  LET q == Resolved(t, p) IN
  IF q = <<>> THEN "dir" ELSE IF q \in DOMAIN t /\ t[q] # "link" THEN t[q] ELSE "none"

IsDir(p) == Stat(tree, p) = "dir"

Frame(p, top) == [path |-> p, top |-> top, at |-> "stat", count |-> 0, entries |-> {}]

TypeOK ==
  /\ \A p \in Paths : tree[p] \in {"dir", "file", "other"} \cup (IF p \in DOMAIN Target THEN {"link"} ELSE {})
  /\ \A i \in 1 .. Len(stack) : stack[i].at \in {"stat", "count", "list", "delete"}
  /\ created \in 0 .. MaxCreated /\ quiet \in BOOLEAN
  /\ made.at \in {"idle", "making", "made", "failed"}

Init ==
  /\ tree \in Trees
  /\ stack = <<>> /\ created = 0 /\ begun = NoTree /\ quiet = TRUE
  /\ made = [path |-> <<>>, n |-> 0, at |-> "idle"]

-----------------------------------------------------------------------------
\* Mutant of canDeletePath: ".." is not left out.
canDeleteParent(name) == name # "."

\* canDeletePath()
canDeletePath(name) == name \notin {".", ".."}

\* ksfu_removeFile(): remove() fails for a directory that is not empty.  It
\* removes a link, not what the link refers to.
removeFile(p) == IF Entry(p) \in Paths /\ Inside(Entry(p)) = {} THEN Removed(Entry(p)) ELSE tree

Return == stack' = Tail(stack)
InTop(frame) == stack' = <<frame>> \o Tail(stack)

\* ksfu_deleteContentsOfPath()
DeleteContents ==
  /\ stack = <<>> /\ begun = NoTree
  /\ canDeletePath(Last(Top))
  /\ stack' = <<Frame(Top, FALSE)>>
  /\ begun' = tree /\ quiet' = TRUE
  /\ UNCHANGED <<tree, created, made>>

\* deletePathContents(), up to the kind of the path, which is that of what a link
\* refers to.
StatPath ==
  /\ stack # <<>> /\ Head(stack).at = "stat"
  /\ LET f == Head(stack)
         kind == Stat(tree, f.path) IN
     IF kind = "dir" THEN InTop([f EXCEPT !.at = "count"]) /\ UNCHANGED tree
     ELSE /\ Return
          /\ tree' = IF kind = "file" THEN removeFile(f.path) ELSE tree
  /\ UNCHANGED <<created, begun, quiet, made>>

\* dirContentsCount(); it counts "." and "..", too.
CountEntries ==
  /\ stack # <<>> /\ Head(stack).at = "count"
  /\ InTop([Head(stack) EXCEPT !.at = "list", !.count = 2 + Cardinality(Names(Resolved(tree, Head(stack).path)))])
  /\ UNCHANGED <<tree, created, begun, quiet, made>>

\* dirContents(): as many entries as were counted, in the order of the
\* directory, or all of them when there are fewer by now.
ListEntries ==
  /\ stack # <<>> /\ Head(stack).at = "list"
  /\ LET f   == Head(stack)
         all == {".", ".."} \cup Names(Resolved(tree, f.path)) IN
     \E listed \in SUBSET all :
       /\ listed = all \/ Cardinality(listed) = f.count
       /\ Cardinality(listed) <= f.count
       /\ InTop([f EXCEPT !.at = "delete", !.entries = {e \in listed : canDeletePath(e)}])
  /\ UNCHANGED <<tree, created, begun, quiet, made>>

\* The next entry, or the directory itself.
DeleteNext ==
  /\ stack # <<>> /\ Head(stack).at = "delete"
  /\ LET f == Head(stack) IN
     \/ \E e \in f.entries :
          /\ stack' = <<Frame(f.path \o <<e>>, TRUE), [f EXCEPT !.entries = @ \ {e}]>> \o Tail(stack)
          /\ UNCHANGED tree
     \/ /\ f.entries = {}
        /\ Return
        /\ tree' = IF f.top THEN removeFile(f.path) ELSE tree
  /\ UNCHANGED <<created, begun, quiet, made>>

\* A report is created (ksfu_openBufferedWriter, O_EXCL) by another thread.
Create(p) ==
  /\ created < MaxCreated /\ p \notin Paths /\ Entry(p) = p /\ IsDir(Front(p))
  /\ tree' = Added(p, "file")
  /\ created' = created + 1 /\ quiet' = FALSE
  /\ UNCHANGED <<stack, begun, made>>

-----------------------------------------------------------------------------
\* ksfu_makePath()
MakePath(p) ==
  /\ made.at = "idle"
  /\ made' = [path |-> p, n |-> 1, at |-> "making"]
  /\ UNCHANGED <<tree, stack, created, begun, quiet>>

\* mkdir() < 0 && errno != EEXIST, the other way round.
Made(p) == Entry(p) \in Paths \/ IsDir(Front(p))

\* The mkdir() of the next directory of the path.
MakeNext ==
  LET p == SubSeq(made.path, 1, made.n) IN
  /\ made.at = "making"
  /\ tree' = IF Entry(p) \notin Paths /\ IsDir(Front(p)) THEN Added(Entry(p), "dir") ELSE tree
  /\ quiet' = (quiet /\ tree' = tree)
  /\ made' = IF ~ Made(p) THEN [made EXCEPT !.at = "failed"]
             ELSE IF p = made.path THEN [made EXCEPT !.at = "made"]
             ELSE [made EXCEPT !.n = @ + 1]
  /\ UNCHANGED <<stack, created, begun>>

\* Both calls have returned.
Done == begun # NoTree /\ stack = <<>> /\ made.at \in {"made", "failed"} /\ UNCHANGED vars

-----------------------------------------------------------------------------
Next ==
  \/ DeleteContents
  \/ StatPath
  \/ CountEntries
  \/ ListEntries
  \/ DeleteNext
  \/ \E p \in NewFiles : Create(p)
  \/ \E p \in NewPaths : MakePath(p)
  \/ MakeNext
  \/ Done

Spec == Init /\ [][Next]_vars

-----------------------------------------------------------------------------
\* What deletePathContents() can come to: what is inside Top, and inside the
\* directories that links in there refer to.
Reach ==
  LET links == {p \in DOMAIN begun : begun[p] = "link" /\ Stat(begun, p) = "dir"}
      Grown(roots, k) == roots \cup {Resolved(begun, p) : p \in links \cap UNION {Within(begun, r) : r \in roots}}
      roots == FoldLeft(Grown, {Top}, [k \in 1 .. Cardinality(links) |-> k])
  IN  UNION {Inside(r) : r \in roots}

\* However the directory changes between the count, the list and the removals
\* of deletePathContents(), and however links lead out of it and back, nothing is
\* removed but what is inside the path of ksfu_deleteContentsOfPath(), and inside
\* the directories that links in there refer to.
OnlyContents == [][Paths \ Paths' \subseteq Reach]_vars

\* When ksfu_deleteContentsOfPath() is done and nothing was created in the
\* meantime, what is neither a file nor a directory is still in the directory;
\* all else that is left are links that led nowhere by then, and the directories
\* that hold such.
AllContents ==
  LET Those(kinds) == {p \in Within(begun, Top) : begun[p] \in kinds} IN
  (begun # NoTree /\ stack = <<>> /\ quiet) =>
    /\ Those({"other"}) \subseteq Paths
    /\ \A p \in Inside(Top) : \E q \in Those({"other", "link"}) : q \in Paths /\ IsPrefix(p, q)
    /\ \A p \in Inside(Top) : tree[p] = "link" => Stat(tree, p) \in {"none", "other"}

\* When ksfu_makePath() says true and nothing is deleted, the path exists and
\* everything above it is a directory.
PathMade ==
  made.at = "made" /\ begun = NoTree =>
    Entry(made.path) \in Paths /\ \A n \in 1 .. Len(made.path) - 1 : IsDir(SubSeq(made.path, 1, n))
=============================================================================
