----------------------------- MODULE FileTools ------------------------------
(***************************************************************************)
(* The built-in tools (crates/tools/src) on the files of one workspace.     *)
(* Turns of several sessions call them at the same time, and every .await   *)
(* of a tool is a point where another call, or a command a bash call left   *)
(* behind, may act.  No tool takes a lock.                                  *)
(*                                                                         *)
(* A call is one ToolRegistry::invoke.  A text is the sequence of the calls *)
(* that each put one line into it, and whether it is a text somebody meant  *)
(* ("whole") or what a cut or mixed write left.  Names lead to inodes, as a *)
(* writer that has opened a file goes on writing to it after a rename.      *)
(***************************************************************************)
EXTENDS Integers, Sequences, FiniteSets

CONSTANTS Calls,       \* calls of tools (each is made at most once)
          Paths,       \* files the calls name; each has a temporary sibling
          NoFile,      \* the name leads nowhere
          None,        \* an optional argument that was not given
          MaxLines,    \* MAX_BYTES and MAX_FILE_BYTES, in lines
          MaxMatches,  \* grep's MAX_MATCHES and glob's MAX_RESULTS
          Wrap,        \* sums of a usize are taken modulo this (2^64)
          Offsets, Limits,  \* file_read's line ranges
          MaxCrashes,  \* bound: deaths of the process
          Cases        \* the combinations of tools and circumstances

Tools == {"file_write", "file_edit", "file_read", "bash", "grep", "glob"}

\* What may happen besides the calls' own course.
Circumstances == {
    "overlap",  \* calls that write one file run at the same time
    "fault",    \* a system call fails
    "crash"}    \* the process dies

ASSUME ToolsAssumption ==
    /\ Calls \intersect Paths = {}
    /\ NoFile \notin Calls \union Paths
    /\ MaxLines \in Nat /\ MaxCrashes \in Nat
    /\ MaxMatches \in Nat \ {0} /\ Wrap \in Nat \ {0}
    /\ None \notin Int
    /\ Offsets \subseteq (0 .. Wrap - 1) \union {None}
    /\ Limits \subseteq (0 .. Wrap - 1) \union {None}
    /\ Cases \subseteq [tools : SUBSET Tools, may : SUBSET Circumstances]

ASSUME NoTextAssumption == NoFile \notin Seq(Calls)

VARIABLES step,      \* where each call is
          tool,      \* the tool it runs
          path,      \* the file it names (grep, glob: any)
          range,     \* file_read's offset and limit
          fd,        \* the inode a writer has open
          got,       \* the text a reader or an editor has read
          found,     \* what a search has printed
          left,      \* the directory entries a search has not come to
          answer,    \* the result its caller got
          child,     \* the command a bash call has spawned
          file,      \* path -> inode
          tmp,       \* the path's temporary sibling -> inode
          data,      \* inode -> text
          renamed,   \* history: file_writes whose rename has taken place
          replaced,  \* history: calls whose lines a file_write replaced
          there,     \* history: the lines in each file when a search began
          crashes,
          given      \* the case of this behaviour

arguments == <<tool, path, range>>
local     == <<fd, got, found, left>>
files     == <<file, tmp, data>>
vars      == <<step, arguments, local, answer, child, files, renamed, replaced,
               there, crashes, given>>

-----------------------------------------------------------------------------
Overlap == "overlap" \in given.may
Faults  == "fault" \in given.may

Inodes == Calls \union Paths    \* the path's own first file, or made by a call
Texts  == [whole : BOOLEAN, lines : Seq(Calls)]
Empty  == [whole |-> FALSE, lines |-> <<>>]

LinesOf(t)  == {t.lines[i] : i \in DOMAIN t.lines}
InFile(p)   == IF file[p] = NoFile THEN {} ELSE LinesOf(data[file[p]])
Writers     == {"file_write", "file_edit", "bash"}
InFlight(c) == step[c] \notin {"idle", "done", "lost"}

FirstStep == [file_write |-> "open", file_edit |-> "read", file_read |-> "stat",
              bash |-> "spawn", grep |-> "walk", glob |-> "walk"]

Init == /\ step = [c \in Calls |-> "idle"]
        /\ tool = [c \in Calls |-> "bash"]
        /\ path \in [Calls -> Paths]
        /\ range = [c \in Calls |-> [offset |-> None, limit |-> None]]
        /\ fd = [c \in Calls |-> c]
        /\ got = [c \in Calls |-> Empty]
        /\ found = [c \in Calls |-> <<>>]
        /\ left = [c \in Calls |-> {}]
        /\ answer = [c \in Calls |-> "none"]
        /\ child = [c \in Calls |-> "none"]
        /\ file \in {[p \in Paths |-> p], [p \in Paths |-> NoFile]}
        /\ tmp = [p \in Paths |-> NoFile]
        /\ data = [i \in Inodes |-> [whole |-> i \in Paths, lines |-> <<>>]]
        /\ renamed = {}
        /\ replaced = {}
        /\ there = [c \in Calls |-> {}]
        /\ crashes = 0
        /\ given \in Cases

Go(c, from, to) == step[c] = from /\ step' = [step EXCEPT ![c] = to]

\* The call returns its ToolResult.
Return(c, from, result) ==
    /\ Go(c, from, "done")
    /\ answer' = [answer EXCEPT ![c] = result]

-----------------------------------------------------------------------------
(* ToolRegistry::invoke.                                                    *)

\* The entries of the tree a search walks, in no given order: names of files,
\* and a directory.
Directory == [path |-> NoFile, temp |-> FALSE]
Entries   == [path : Paths, temp : BOOLEAN] \union {Directory}

\* Without "overlap" a call that writes waits until no other writes its file.
Free(c) == \A d \in Calls :
    d # c /\ InFlight(d) /\ path[d] = path[c] => tool[d] \notin Writers

Invoke(c, t) ==
    /\ t \in given.tools
    /\ t \in Writers => Overlap \/ Free(c)
    /\ Go(c, "idle", FirstStep[t])
    /\ tool' = [tool EXCEPT ![c] = t]
    /\ \E offset \in Offsets, limit \in Limits :
          range' = [range EXCEPT ![c] =
                        IF t = "file_read"
                        THEN [offset |-> offset, limit |-> limit] ELSE @]
    /\ IF t \in {"grep", "glob"}
       THEN /\ left' = [left EXCEPT ![c] = Entries]
            /\ there' = [there EXCEPT ![c] = UNION {InFile(p) : p \in Paths}]
       ELSE UNCHANGED <<left, there>>
    /\ UNCHANGED <<path, fd, got, found, answer, child, files, renamed, replaced, crashes, given>>

\* An unknown tool, arguments that do not parse, a pattern that does not
\* compile, a catastrophic command, directories that cannot be made.
Refuse(c) ==
    /\ Return(c, "idle", "err")
    /\ UNCHANGED <<arguments, local, child, files, renamed, replaced, there, crashes, given>>

-----------------------------------------------------------------------------
(* tokio::fs::write: open and truncate, then write from the file's start.   *)

\* The inode a name leads to once it has been opened by c for writing.
Opened(name, c) == IF name[path[c]] = NoFile THEN c ELSE name[path[c]]

\* Written over what others wrote since it was truncated, a shorter text
\* leaves their tail behind.
Overlaid(old, new) ==
    IF Len(old.lines) > Len(new.lines)
    THEN [whole |-> FALSE, lines |-> old.lines] ELSE new

\* What the call writes: its content, or the text it read with its edit.
Text(c) == IF tool[c] = "file_write"
           THEN [whole |-> TRUE, lines |-> <<c>>]
           ELSE [whole |-> got[c].whole, lines |-> Append(got[c].lines, c)]

\* Mutant: file_write writes to the file itself.
WriteInPlace(c) ==
    LET i == Opened(file, c)
    IN  /\ tool[c] = "file_write"
        /\ Go(c, "open", "fill")
        /\ fd' = [fd EXCEPT ![c] = i]
        /\ file' = [file EXCEPT ![path[c]] = i]
        /\ tmp' = [tmp EXCEPT ![path[c]] = i]
        /\ data' = [data EXCEPT ![i] = Empty]
        /\ UNCHANGED <<arguments, got, found, left, answer, child, renamed, replaced, there, crashes, given>>

\* file_write opens the temporary sibling.
WriteOpen(c) ==
    LET i == Opened(tmp, c)
    IN  /\ tool[c] = "file_write"
        /\ Go(c, "open", "fill")
        /\ fd' = [fd EXCEPT ![c] = i]
        /\ tmp' = [tmp EXCEPT ![path[c]] = i]
        /\ data' = [data EXCEPT ![i] = Empty]
        /\ UNCHANGED <<arguments, got, found, left, answer, child, file, renamed, replaced, there, crashes, given>>

\* file_edit opens the file.
EditOpen(c) ==
    LET i == Opened(file, c)
    IN  /\ Go(c, "truncate", "fill")
        /\ fd' = [fd EXCEPT ![c] = i]
        /\ file' = [file EXCEPT ![path[c]] = i]
        /\ data' = [data EXCEPT ![i] = Empty]
        /\ UNCHANGED <<arguments, got, found, left, answer, child, tmp, renamed, replaced, there, crashes, given>>

OpenFails(c) ==
    /\ Faults
    /\ Return(c, IF tool[c] = "file_write" THEN "open" ELSE "truncate", "err")
    /\ UNCHANGED <<arguments, local, child, files, renamed, replaced, there, crashes, given>>

\* The text is written; a write has its rename to do.
Fill(c) ==
    /\ data' = [data EXCEPT ![fd[c]] = Overlaid(@, Text(c))]
    /\ Go(c, "fill", IF tool[c] = "file_write" THEN "rename" ELSE "edited")
    /\ UNCHANGED <<arguments, local, answer, child, file, tmp, renamed, replaced, there, crashes, given>>

\* The disk is full: what was truncated stays so, the temporary file too.
FillFails(c) ==
    /\ Faults
    /\ Return(c, "fill", "err")
    /\ data' = [data EXCEPT ![fd[c]] = [@ EXCEPT !.whole = FALSE]]
    /\ UNCHANGED <<arguments, local, child, file, tmp, renamed, replaced, there, crashes, given>>

-----------------------------------------------------------------------------
(* file_write: rename the temporary file over the path.                     *)

\* Whatever the temporary name leads to now becomes the file.
ReplaceFile(c) ==
    LET p == path[c]
    IN  /\ tmp[p] # NoFile
        /\ file' = [file EXCEPT ![p] = tmp[p]]
        /\ tmp' = [tmp EXCEPT ![p] = NoFile]
        /\ renamed' = renamed \union {c}
        /\ replaced' = replaced \union (InFile(p) \ LinesOf(data[tmp[p]]))
        /\ UNCHANGED <<arguments, local, answer, child, data, there, crashes, given>>

\* Mutant: what follows the rename may still fail the call.
FailsOnceRenamed(c) == Faults /\ Go(c, "rename", "unlink") /\ ReplaceFile(c)

Rename(c) == Go(c, "rename", "renamed") /\ ReplaceFile(c)

RenameFails(c) ==
    /\ Faults \/ tmp[path[c]] = NoFile
    /\ Go(c, "rename", "unlink")
    /\ UNCHANGED <<arguments, local, answer, child, files, renamed, replaced, there, crashes, given>>

Unlink(c) ==
    /\ Go(c, "unlink", "unlinked")
    /\ tmp' = [tmp EXCEPT ![path[c]] = NoFile]
    /\ UNCHANGED <<arguments, local, answer, child, file, data, renamed, replaced, there, crashes, given>>

\* What the last system call of a file_write or a file_edit did is done before
\* its future is polled again: a call that dies in between has no result.
PutReturns(c) ==
    /\ \/ Return(c, "renamed", "ok")
       \/ Return(c, "edited", "ok")
       \/ Return(c, "unlinked", "err")
    /\ UNCHANGED <<arguments, local, child, files, renamed, replaced, there, crashes, given>>

-----------------------------------------------------------------------------
(* file_edit: read, replace in memory, write back.                          *)

EditRead(c) ==
    LET p == path[c]
    IN  /\ file[p] # NoFile
        /\ Go(c, "read", "truncate")
        /\ got' = [got EXCEPT ![c] = data[file[p]]]
        /\ UNCHANGED <<arguments, fd, found, left, answer, child, files, renamed, replaced, there, crashes, given>>

\* No such file, or `old` does not occur, or occurs more than once.
EditRefused(c) ==
    /\ Return(c, "read", "err")
    /\ UNCHANGED <<arguments, local, child, files, renamed, replaced, there, crashes, given>>

-----------------------------------------------------------------------------
(* file_read: stat, read, cut out the lines asked for.                      *)

ReadStat(c) ==
    LET p == path[c]
    IN  /\ file[p] # NoFile
        /\ Len(data[file[p]].lines) <= MaxLines
        /\ Go(c, "stat", "load")
        /\ UNCHANGED <<arguments, local, answer, child, files, renamed, replaced, there, crashes, given>>

\* No such file, too long, not UTF-8.
ReadRefused(c) ==
    /\ \/ Return(c, "stat", "err")
       \/ Return(c, "load", "err")
    /\ tool[c] = "file_read"
    /\ UNCHANGED <<arguments, local, child, files, renamed, replaced, there, crashes, given>>

Least(a, b) == IF a < b THEN a ELSE b

\* lines[start..end] of n lines; start + limit is added in a usize.
Start(r, n) == IF r.offset = None THEN 0 ELSE Least(r.offset, n)
\* Mutant: the limit is taken for the end.
EndAtLimit(r, n) == IF r.limit = None THEN n ELSE Least(r.limit, n)

End(r, n) == IF r.limit = None THEN n
             ELSE Least((Start(r, n) + r.limit) % Wrap, n)

ReadLoad(c) ==
    LET t == data[file[path[c]]]
        n == Len(t.lines)
    IN  /\ file[path[c]] # NoFile
        /\ Start(range[c], n) <= End(range[c], n)
        /\ Return(c, "load", "ok")
        /\ got' = [got EXCEPT ![c] = t]
        /\ found' = [found EXCEPT ![c] =
                        SubSeq(t.lines, Start(range[c], n) + 1, End(range[c], n))]
        /\ UNCHANGED <<arguments, fd, left, child, files, renamed, replaced, there, crashes, given>>

\* A slice that ends before it starts: the task panics and is gone.
ReadPanics(c) ==
    LET t == data[file[path[c]]]
        n == Len(t.lines)
    IN  /\ file[path[c]] # NoFile
        /\ End(range[c], n) < Start(range[c], n)
        /\ Go(c, "load", "lost")
        /\ got' = [got EXCEPT ![c] = t]
        /\ UNCHANGED <<arguments, fd, found, left, answer, child, files, renamed, replaced, there, crashes, given>>

-----------------------------------------------------------------------------
(* bash: a child process and a timer.                                       *)

Spawn(c) ==
    /\ Go(c, "spawn", "running")
    /\ child' = [child EXCEPT ![c] = "running"]
    /\ UNCHANGED <<arguments, local, answer, files, renamed, replaced, there, crashes, given>>

SpawnFails(c) ==
    /\ Faults
    /\ Return(c, "spawn", "err")
    /\ UNCHANGED <<arguments, local, child, files, renamed, replaced, there, crashes, given>>

\* The command appends its line to the file and exits with success.  Nobody
\* kills it: its call may have timed out, and the process may be another.
ChildWrites(c) ==
    LET i == Opened(file, c)
    IN  /\ child[c] = "running"
        /\ child' = [child EXCEPT ![c] = "wrote"]
        /\ file' = [file EXCEPT ![path[c]] = i]
        /\ data' = [data EXCEPT ![i] =
                       IF file[path[c]] = NoFile
                       THEN [whole |-> TRUE, lines |-> <<c>>]
                       ELSE [whole |-> @.whole, lines |-> Append(@.lines, c)]]
        /\ UNCHANGED <<step, arguments, local, answer, tmp, renamed, replaced, there, crashes, given>>

ChildFails(c) ==
    /\ child[c] = "running"
    /\ child' = [child EXCEPT ![c] = "failed"]
    /\ UNCHANGED <<step, arguments, local, answer, files, renamed, replaced, there, crashes, given>>

\* Mutant: spawned, not awaited.
BashReturnsAtOnce(c) ==
    /\ child[c] # "failed"
    /\ Return(c, "running", "ok")
    /\ UNCHANGED <<arguments, local, child, files, renamed, replaced, there, crashes, given>>

BashReturns(c) ==
    /\ child[c] \in {"wrote", "failed"}
    /\ Return(c, "running", IF child[c] = "wrote" THEN "ok" ELSE "err")
    /\ UNCHANGED <<arguments, local, child, files, renamed, replaced, there, crashes, given>>

\* Mutant: the timer is forgotten.
NoTimer(c) ==
    /\ child[c] = "failed"
    /\ Return(c, "running", "err")
    /\ UNCHANGED <<arguments, local, child, files, renamed, replaced, there, crashes, given>>

\* The future is dropped; the child is not.
BashTimesOut(c) ==
    /\ child[c] = "running"
    /\ Return(c, "running", "err")
    /\ UNCHANGED <<arguments, local, child, files, renamed, replaced, there, crashes, given>>

-----------------------------------------------------------------------------
(* grep_tree and glob_tree: entry by entry, on a thread of their own.       *)

Inode(e) == IF e.temp THEN tmp[e.path] ELSE file[e.path]
IsFile(e) == e # Directory /\ Inode(e) # NoFile

\* Mutant: a file as long as is allowed is too long.
MatchingIfShort(e) == LET t == data[Inode(e)]
                      IN  IF Len(t.lines) >= MaxLines THEN <<>> ELSE t.lines

\* Lines of the entry's file that match (all do), none if it is too long.
Matching(e) == LET t == data[Inode(e)]
               IN  IF Len(t.lines) > MaxLines THEN <<>> ELSE t.lines

\* Mutant: one match more than there is room for.
RoomForOneMore(c) == MaxMatches + 1 - Len(found[c])

Room(c) == MaxMatches - Len(found[c])

GrepEntry(c) ==
    /\ tool[c] = "grep" /\ step[c] = "walk" /\ Len(found[c]) < MaxMatches
    /\ \E e \in left[c] :
          /\ left' = [left EXCEPT ![c] = @ \ {e}]
          /\ \E readable \in {TRUE} \union (IF Faults THEN {FALSE} ELSE {}) :
                found' = [found EXCEPT ![c] =
                    IF IsFile(e) /\ readable
                    THEN @ \o SubSeq(Matching(e), 1, Least(Room(c), Len(Matching(e))))
                    ELSE @]
    /\ UNCHANGED <<step, arguments, fd, got, answer, child, files, renamed, replaced, there, crashes, given>>

\* At the limit the next entry, even a directory, brings the notice.
GrepCut(c) ==
    /\ tool[c] = "grep" /\ Len(found[c]) >= MaxMatches
    /\ \E e \in left[c] : e = Directory \/ IsFile(e)
    /\ Return(c, "walk", "cut")
    /\ UNCHANGED <<arguments, local, child, files, renamed, replaced, there, crashes, given>>

\* glob prints names, and its notice as soon as it is at the limit.
GlobEntry(c) ==
    /\ tool[c] = "glob" /\ step[c] = "walk"
    /\ \E e \in left[c] :
          /\ left' = [left EXCEPT ![c] = @ \ {e}]
          /\ IF IsFile(e)
             THEN /\ found' = [found EXCEPT ![c] = Append(@, e.path)]
                  /\ IF Len(found[c]) + 1 >= MaxMatches
                     THEN Return(c, "walk", "cut") ELSE UNCHANGED <<step, answer>>
             ELSE UNCHANGED <<found, step, answer>>
    /\ UNCHANGED <<arguments, fd, got, child, files, renamed, replaced, there, crashes, given>>

\* No entry is left, or none that is still there.
WalkEnds(c) ==
    /\ \A e \in left[c] : e # Directory /\ ~IsFile(e)
    /\ Return(c, "walk", "ok")
    /\ UNCHANGED <<arguments, local, child, files, renamed, replaced, there, crashes, given>>

-----------------------------------------------------------------------------
\* The process dies: its calls are gone, temporary files and children stay.
Crash ==
    /\ "crash" \in given.may /\ crashes < MaxCrashes
    /\ crashes' = crashes + 1
    /\ step' = [c \in Calls |-> IF InFlight(c) THEN "lost" ELSE step[c]]
    /\ UNCHANGED <<arguments, local, answer, child, files, renamed, replaced, there, given>>

Write(c)  == WriteOpen(c) \/ Rename(c) \/ RenameFails(c) \/ Unlink(c)
Edit(c)   == EditRead(c) \/ EditRefused(c) \/ EditOpen(c)
Put(c)    == OpenFails(c) \/ Fill(c) \/ FillFails(c) \/ PutReturns(c)
Read(c)   == ReadStat(c) \/ ReadRefused(c) \/ ReadLoad(c) \/ ReadPanics(c)
Bash(c)   == Spawn(c) \/ SpawnFails(c) \/ BashReturns(c) \/ BashTimesOut(c)
Search(c) == GrepEntry(c) \/ GrepCut(c) \/ GlobEntry(c) \/ WalkEnds(c)
Run(c)    == Write(c) \/ Edit(c) \/ Put(c) \/ Read(c) \/ Bash(c) \/ Search(c)

Next == \/ \E c \in Calls : \/ \E t \in Tools : Invoke(c, t)
                            \/ Refuse(c) \/ Run(c) \/ ChildWrites(c) \/ ChildFails(c)
        \/ Crash

Spec == Init /\ [][Next]_vars

\* A call that was made runs on, and its timer fires; a command may hang.
FairSpec == Spec /\ \A c \in Calls : WF_vars(Run(c))

\* The same of one call: one under way can always go on.
GoesOn(c) == []<>~InFlight(c) \/ []<><<Run(c)>>_vars

-----------------------------------------------------------------------------
(* Properties.                                                              *)

Steps == {"idle", "open", "fill", "rename", "renamed", "unlink", "unlinked", "read",
          "truncate", "edited", "stat", "load", "spawn", "running", "walk", "done", "lost"}

\* The values each piece of the tools' state may take; no search prints more
\* than its limit (grep.rs:98, glob_tool.rs:78).
TypeOK ==
    /\ step \in [Calls -> Steps]
    /\ tool \in [Calls -> Tools]
    /\ path \in [Calls -> Paths]
    /\ range \in [Calls -> [offset : Offsets \union {None}, limit : Limits \union {None}]]
    /\ fd \in [Calls -> Inodes]
    /\ got \in [Calls -> Texts]
    /\ found \in [Calls -> Seq(Calls \union Paths)]
    /\ \A c \in Calls : tool[c] \in {"grep", "glob"} => Len(found[c]) <= MaxMatches
    /\ left \in [Calls -> SUBSET Entries]
    /\ answer \in [Calls -> {"none", "ok", "cut", "err"}]
    /\ child \in [Calls -> {"none", "running", "wrote", "failed"}]
    /\ file \in [Paths -> Inodes \union {NoFile}]
    /\ tmp \in [Paths -> Inodes \union {NoFile}]
    /\ data \in [Inodes -> Texts]
    /\ renamed \in SUBSET Calls
    /\ replaced \in SUBSET Calls
    /\ there \in [Calls -> SUBSET Calls]
    /\ crashes \in 0 .. MaxCrashes
    /\ given \in Cases

\* file_edit is not atomic: one that has the file open, that a full disk or a
\* crash ended with the file open, or that met a command which wrote to the
\* file after its bash call had timed out or died.
LeftBehind(p) == \E d \in Calls :
    /\ tool[d] = "bash" /\ path[d] = p
    /\ child[d] = "wrote" /\ (answer[d] = "err" \/ step[d] = "lost")

EditedBadly(p) == \E c \in Calls :
    /\ tool[c] = "file_edit" /\ path[c] = p
    /\ \/ step[c] \in {"fill", "lost"}
       \/ step[c] = "done" /\ answer[c] = "err"
       \/ LeftBehind(p)

Torn(p) == file[p] # NoFile /\ ~data[file[p]].whole

\* While the calls that write one file do not overlap, a file_write publishes
\* its text whole or not at all (file_write.rs:1 "atomic write (tempfile +
\* rename)"), whoever reads, searches or appends at the same time, whatever
\* call fails, the process's death and the temporary file it leaves
\* behind included: a torn file was torn by an edit.
TornByEditOnly == ~Overlap => \A p \in Paths : Torn(p) => EditedBadly(p)

\* And then what a caller is told is true.  What was written stays in its file
\* until a file_write replaces it; only an edit that fails, or one that meets a
\* command a bash call that timed out or died has left running (bash.rs:103),
\* takes it away.
\* A file_write that reports an error has not changed its file.
AnswersAreTrue ==
    ~Overlap => \A c \in Calls :
        /\ answer[c] = "ok" /\ tool[c] \in Writers
              => \/ c \in InFile(path[c]) \union replaced
                 \/ EditedBadly(path[c])
        /\ answer[c] = "err" /\ tool[c] = "file_write"
              => c \notin InFile(path[c])

\* More: as long as the calls that write one file take turns and none edits,
\* callers see files that are replaced, appended to and read in one step each,
\* whatever fails, hangs or dies (FilesContract; file_write.rs:1, bash.rs:103).
Orderly == ~Overlap /\ \A c \in Calls : tool[c] # "file_edit"

Contract == INSTANCE FilesContract WITH
    NoText  <- NoFile,
    orderly <- Orderly,
    text    <- [p \in Paths |-> IF file[p] = NoFile THEN NoFile
                                ELSE data[file[p]].lines],
    kind    <- [c \in Calls |-> IF step[c] = "idle" THEN "none" ELSE tool[c]],
    put     <- renamed \union {c \in Calls : child[c] = "wrote"},
    read    <- [c \in Calls |-> IF tool[c] = "file_read" /\ answer[c] = "ok"
                                THEN got[c].lines ELSE <<>>],
    answer  <- [c \in Calls |-> IF step[c] = "lost" THEN "lost" ELSE answer[c]]
KeepsContract == Contract!Spec

\* file_read returns the lines [offset, offset + limit) of the text it read,
\* in true arithmetic, and panics on nothing but a sum beyond a usize
\* (file_read.rs:76-83).
RangeIsRead == \A c \in Calls : tool[c] = "file_read" =>
    LET n    == Len(got[c].lines)
        from == IF range[c].offset = None THEN 0 ELSE range[c].offset
        upto == IF range[c].limit = None THEN n ELSE from + range[c].limit
    IN  /\ answer[c] = "ok" =>
              found[c] = [i \in 1 .. (IF Least(upto, n) > from
                                      THEN Least(upto, n) - from ELSE 0)
                              |-> got[c].lines[from + i]]
        /\ step[c] = "lost" /\ crashes = 0 => upto >= Wrap

\* A search that has printed fewer lines than its limit has found every line
\* that was in its file from its start to its end, while files are written by
\* file_write and appended to (while one is edited a search may meet it
\* truncated).  One that has printed as many may have left out the others and
\* not say so: the notice comes with the next entry only (grep.rs:88-91), and
\* the last one is cut without it (grep.rs:103-106).
FindsWhatStays ==
    [][\A c \in Calls :
          /\ tool[c] = "grep" /\ step[c] = "walk" /\ step'[c] = "done"
          /\ answer'[c] = "ok" /\ Len(found'[c]) < MaxMatches
          /\ ~Overlap /\ ~Faults /\ "file_edit" \notin given.tools
          => \A p \in Paths :
                file[p] # NoFile /\ Len(data[file[p]].lines) <= MaxLines
                => InFile(p) \intersect there[c] \subseteq
                     {found'[c][i] : i \in DOMAIN found'[c]}]_vars

\* Every call returns: a command that hangs is given up at its timeout
\* (bash.rs:103); only a panic or the death of the process takes a result.  A
\* call is made once, so it is enough that again and again none is in flight.
CallsReturn == []<>(\A c \in Calls : ~InFlight(c))

-----------------------------------------------------------------------------
(* A statement of the repository the tools break.                           *)

\* "Write UTF-8 content to a file, creating parent directories as needed.
\* Atomic." (file_write.rs:25): where files are written by nothing but
\* file_write, no file is ever half-written.
WriteIsAtomic == given.tools \subseteq {"file_write", "file_read"}
                     => \A p \in Paths : ~Torn(p)

=============================================================================
