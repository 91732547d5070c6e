-------------------------- MODULE FileToolsProofs ---------------------------
(***************************************************************************)
(* What holds of FileTools for any calls, paths, limits and faults: types,   *)
(* the lines a file_read returns, then, for writers of one file that do not *)
(* overlap, what its text holds (Good), and from it what is torn, what is   *)
(* answered and what a search finds.                                        *)
(***************************************************************************)
EXTENDS FileTools, SequenceTheorems, TLAPS

-----------------------------------------------------------------------------
(* Types.                                                                   *)

\* What a call writes is a text.
LEMMA TextIsText == ASSUME TypeOK, NEW c \in Calls PROVE Text(c) \in Texts
BY DEF Text, TypeOK, Texts

\* One text over another is a text.
LEMMA OverlaidIsText ==
    ASSUME NEW old \in Texts, NEW new \in Texts PROVE Overlaid(old, new) \in Texts
BY DEF Overlaid, Texts

\* A truncated file holds a text.
LEMMA EmptyIsText == Empty \in Texts
BY DEF Empty, Texts

\* A part of a sequence has its elements.
LEMMA SomeOfText ==
    ASSUME NEW S, NEW s \in Seq(S), NEW m \in Nat, NEW n \in Int, n <= Len(s)
    PROVE  SubSeq(s, m + 1, n) \in Seq(S)
BY SubSeqProperties

-----------------------------------------------------------------------------
(* Steps that touch no file.                                                *)

Answers == {"none", "ok", "cut", "err"}

\* The call goes on or returns, and nothing else happens.
Quiet(c) == \E s \in {"unlink", "load", "done"}, a \in Answers :
    /\ step' = [step EXCEPT ![c] = s]
    /\ answer' = [answer EXCEPT ![c] = a]
    /\ UNCHANGED <<arguments, local, child, files, renamed, replaced, there, crashes, given>>
    /\ step[c] \notin {"fill", "done", "lost"}
    /\ s = "unlink" => step[c] = "rename" /\ a = answer[c]
    /\ s = "load" => step[c] = "stat" /\ a = answer[c]
    /\ s = "done" => a # "none"
    /\ a = "ok" /\ s = "done" => \/ step[c] = "running" /\ child[c] = "wrote"
                                 \/ step[c] \in {"walk", "renamed", "edited"}
    /\ s = "done" /\ step[c] = "renamed" => a = "ok"
    /\ a = "cut" /\ s = "done" => step[c] = "walk"

\* The steps that change nothing but where the call is and its answer.
LEMMA QuietSteps ==
    ASSUME TypeOK, NEW c \in Calls,
           \/ Refuse(c) \/ OpenFails(c) \/ RenameFails(c) \/ EditRefused(c)
           \/ ReadStat(c) \/ ReadRefused(c) \/ SpawnFails(c) \/ BashReturns(c)
           \/ BashTimesOut(c) \/ GrepCut(c) \/ WalkEnds(c) \/ PutReturns(c)
    PROVE  Quiet(c)
<1> USE DEF Quiet, Go, Return, Answers
<1>1. answer' = [answer EXCEPT ![c] = answer[c]] <=> UNCHANGED answer
  BY DEF TypeOK
<1>2. CASE Refuse(c) \/ OpenFails(c) \/ EditRefused(c) \/ SpawnFails(c)
  BY <1>2 DEF Refuse, OpenFails, EditRefused, SpawnFails
<1>3. CASE RenameFails(c) \/ ReadStat(c)
  <2>1. answer[c] \in Answers
    BY DEF TypeOK
  <2> QED BY <1>3, <1>1, <2>1 DEF RenameFails, ReadStat
<1>4. CASE ReadRefused(c)
  BY <1>4 DEF ReadRefused
<1>5. CASE BashReturns(c) \/ BashTimesOut(c)
  BY <1>5 DEF BashReturns, BashTimesOut
<1>6. CASE GrepCut(c) \/ WalkEnds(c)
  BY <1>6 DEF GrepCut, WalkEnds
<1>7. CASE PutReturns(c)
  BY <1>7 DEF PutReturns
<1> QED BY <1>2, <1>3, <1>4, <1>5, <1>6, <1>7

\* They keep the types.
LEMMA QuietTypes == ASSUME TypeOK, NEW c \in Calls, Quiet(c) PROVE TypeOK'
<1>1. /\ step' \in [Calls -> Steps]
      /\ answer' \in [Calls -> Answers]
  BY DEF Quiet, TypeOK, Steps, Answers
<1>2. UNCHANGED <<tool, path, range, fd, got, found, left, child, file, tmp, data,
                  renamed, replaced, there, crashes, given>>
  BY DEF Quiet, arguments, local, files
<1> QED BY <1>1, <1>2 DEF TypeOK, Answers

-----------------------------------------------------------------------------
(* Types, and which tool is at which step.                                  *)

Fits(c) ==
    /\ step[c] = "idle" => found[c] = <<>> /\ tool[c] = "bash"
    /\ step[c] \in {"open", "rename", "renamed", "unlink", "unlinked"} => tool[c] = "file_write"
    /\ step[c] \in {"read", "truncate", "edited"} => tool[c] = "file_edit"
    /\ step[c] = "fill" => tool[c] \in {"file_write", "file_edit"}
    /\ step[c] \in {"stat", "load"} => tool[c] = "file_read"
    /\ step[c] \in {"spawn", "running"} => tool[c] = "bash"
    /\ step[c] = "walk" => tool[c] \in {"grep", "glob"}
    /\ step[c] = "walk" /\ tool[c] = "glob" => Len(found[c]) < MaxMatches
    /\ answer[c] # "none" <=> step[c] = "done"
    /\ child[c] # "none" => tool[c] = "bash" /\ step[c] \in {"running", "done", "lost"}
    /\ step[c] = "running" => child[c] # "none"
    /\ answer[c] = "ok" /\ tool[c] = "bash" => child[c] = "wrote"
    /\ answer[c] = "cut" => tool[c] \in {"grep", "glob"}
    /\ c \in renamed => /\ tool[c] = "file_write"
                        /\ step[c] \in {"renamed", "lost"} \/ answer[c] = "ok"
    /\ step[c] = "renamed" \/ (answer[c] = "ok" /\ tool[c] = "file_write") => c \in renamed

TypeInv == TypeOK /\ \A c \in Calls : Fits(c)

\* And what a place says of the call that is there.
LEMMA QuietFits ==
    ASSUME TypeInv, NEW c \in Calls, Quiet(c), NEW d \in Calls PROVE Fits(d)'
<1>1. UNCHANGED <<tool, child, found, renamed>>
  BY DEF Quiet, arguments, local
<1>2. PICK s \in {"unlink", "load", "done"}, a \in Answers :
        /\ step' = [step EXCEPT ![c] = s]
        /\ answer' = [answer EXCEPT ![c] = a]
        /\ step[c] \notin {"fill", "done", "lost"}
        /\ s = "unlink" => step[c] = "rename" /\ a = answer[c]
        /\ s = "load" => step[c] = "stat" /\ a = answer[c]
        /\ s = "done" => a # "none"
        /\ a = "ok" /\ s = "done" => \/ step[c] = "running" /\ child[c] = "wrote"
                                     \/ step[c] \in {"walk", "renamed", "edited"}
        /\ s = "done" /\ step[c] = "renamed" => a = "ok"
        /\ a = "cut" /\ s = "done" => step[c] = "walk"
  BY DEF Quiet
<1>3. CASE d = c
  <2>1. step'[c] = s /\ answer'[c] = a
    BY <1>2 DEF TypeInv, TypeOK
  <2>2. Fits(c)
    BY DEF TypeInv
  <2> QED BY <2>1, <2>2, <1>1, <1>2, <1>3 DEF Fits
<1>4. CASE d # c
  <2>1. step'[d] = step[d] /\ answer'[d] = answer[d]
    BY <1>2, <1>4 DEF TypeInv, TypeOK
  <2> QED BY <1>1, <2>1 DEF Fits, TypeInv
<1> QED BY <1>3, <1>4

\* A step of c that leaves the answers alone, or returns: what a case below
\* needs to know of its own call c, the others being where they were.
LEMMA OthersFit ==
    ASSUME TypeInv, NEW c \in Calls, NEW d \in Calls, d # c,
           step'[d] = step[d], tool'[d] = tool[d], answer'[d] = answer[d],
           child'[d] = child[d], found'[d] = found[d],
           d \in renamed' <=> d \in renamed
    PROVE  Fits(d)'
BY DEF TypeInv, Fits

\* A call is made.
LEMMA InvokeTypes ==
    ASSUME TypeInv, NEW c \in Calls, NEW t \in Tools, Invoke(c, t) PROVE TypeInv'
<1> USE ToolsAssumption
<1>1. /\ step' \in [Calls -> Steps]
      /\ tool' \in [Calls -> Tools]
      /\ range' \in [Calls -> [offset : Offsets \union {None}, limit : Limits \union {None}]]
  BY DEF Invoke, Go, TypeInv, TypeOK, Steps, Tools, FirstStep
<1>2. /\ left' \in [Calls -> SUBSET Entries]
      /\ there' \in [Calls -> SUBSET Calls]
  <2>1. \A p \in Paths : InFile(p) \subseteq Calls
    BY DEF TypeInv, TypeOK, InFile, LinesOf, Texts
  <2>2. UNION {InFile(p) : p \in Paths} \in SUBSET Calls
    BY <2>1
  <2>3. \/ UNCHANGED <<left, there>>
        \/ /\ left' = [left EXCEPT ![c] = Entries]
           /\ there' = [there EXCEPT ![c] = UNION {InFile(p) : p \in Paths}]
    BY DEF Invoke
  <2>4. left \in [Calls -> SUBSET Entries] /\ there \in [Calls -> SUBSET Calls]
    BY DEF TypeInv, TypeOK
  <2> HIDE DEF Entries
  <2> QED BY <2>2, <2>3, <2>4
<1>3. /\ step[c] = "idle" /\ step'[c] = FirstStep[t] /\ tool'[c] = t
      /\ \A d \in Calls : d # c => step'[d] = step[d] /\ tool'[d] = tool[d]
  BY DEF Invoke, Go, TypeInv, TypeOK
<1>4. UNCHANGED <<path, fd, got, found, answer, child, file, tmp, data, renamed, replaced, crashes, given>>
  BY DEF Invoke, files
<1>5. \A d \in Calls : tool'[d] \in {"grep", "glob"} => Len(found'[d]) <= MaxMatches
  <2>1. Len(<<>>) <= MaxMatches
    OBVIOUS
  <2>2. found[c] = <<>>
    BY <1>3 DEF TypeInv, Fits
  <2> QED BY <1>3, <1>4, <2>1, <2>2 DEF TypeInv, TypeOK
<1>6. TypeOK'
  BY <1>1, <1>2, <1>4, <1>5 DEF TypeInv, TypeOK
<1>7. ASSUME NEW d \in Calls PROVE Fits(d)'
  <2>1. CASE d = c
    <3>1. Fits(c)
      BY DEF TypeInv
    <3>2. found'[c] = <<>> /\ Len(<<>>) = 0
      BY <1>3, <1>4, <3>1 DEF Fits
    <3>3. Len(found'[c]) < MaxMatches
      BY <3>2
    <3> QED BY <1>3, <1>4, <2>1, <3>1, <3>3 DEF Fits, FirstStep, Tools
  <2>2. CASE d # c
    BY <1>3, <1>4, <2>2, OthersFit
  <2> QED BY <2>1, <2>2
<1> QED BY <1>6, <1>7 DEF TypeInv

\* The answers of a step that is not one of the quiet ones.
LEMMA RestFit ==
    ASSUME TypeInv, NEW c \in Calls, TypeOK', Fits(c)',
           \A d \in Calls : d # c => /\ step'[d] = step[d] /\ tool'[d] = tool[d]
                                     /\ answer'[d] = answer[d] /\ child'[d] = child[d]
                                     /\ found'[d] = found[d]
                                     /\ (d \in renamed' <=> d \in renamed)
    PROVE  TypeInv'
<1> SUFFICES ASSUME NEW d \in Calls PROVE Fits(d)'
  BY DEF TypeInv
<1> QED BY OthersFit

\* The steps that open, fill, rename and unlink files.
LEMMA FileTypes ==
    ASSUME TypeInv, NEW c \in Calls,
           \/ WriteOpen(c) \/ EditOpen(c) \/ Fill(c) \/ FillFails(c)
           \/ Rename(c) \/ Unlink(c)
    PROVE  TypeInv'
<1> USE ToolsAssumption
<1>0. TypeOK /\ Fits(c)
  BY DEF TypeInv
<1>1. /\ Text(c) \in Texts /\ Empty \in Texts
      /\ \A i \in Inodes : Overlaid(data[i], Text(c)) \in Texts
  BY <1>0, TextIsText, EmptyIsText, OverlaidIsText DEF TypeOK
<1>2. UNCHANGED <<tool, path, range, got, found, left, child, there, crashes, given>>
  BY DEF WriteOpen, EditOpen, Fill, FillFails, Rename, ReplaceFile, Unlink, arguments, local
<1>3. /\ step' \in [Calls -> Steps]
      /\ answer' \in [Calls -> {"none", "ok", "cut", "err"}]
      /\ \A d \in Calls : d # c => step'[d] = step[d] /\ answer'[d] = answer[d]
  <2>1. \E s \in Steps : step' = [step EXCEPT ![c] = s]
    BY DEF WriteOpen, EditOpen, Fill, FillFails, Rename, ReplaceFile, Unlink, Go, Return, Steps
  <2>2. \/ UNCHANGED answer
        \/ \E a \in {"ok", "err"} : answer' = [answer EXCEPT ![c] = a]
    BY DEF WriteOpen, EditOpen, Fill, FillFails, Rename, ReplaceFile, Unlink, Return
  <2>3. step' \in [Calls -> Steps] /\ \A d \in Calls : d # c => step'[d] = step[d]
    BY <1>0, <2>1 DEF TypeOK
  <2>4. CASE UNCHANGED answer
    BY <1>0, <2>3, <2>4 DEF TypeOK
  <2>5. CASE \E a \in {"ok", "err"} : answer' = [answer EXCEPT ![c] = a]
    BY <1>0, <2>3, <2>5 DEF TypeOK
  <2> QED BY <2>2, <2>4, <2>5
<1>4. /\ fd' \in [Calls -> Inodes]
      /\ file' \in [Paths -> Inodes \union {NoFile}]
      /\ tmp' \in [Paths -> Inodes \union {NoFile}]
  <2>1. path[c] \in Paths /\ c \in Inodes
    BY <1>0 DEF TypeOK, Inodes
  <2>2. Opened(file, c) \in Inodes /\ Opened(tmp, c) \in Inodes
    BY <1>0, <2>1 DEF TypeOK, Opened
  <2>3. CASE WriteOpen(c)
    BY <2>1, <2>2, <2>3, <1>0 DEF WriteOpen, TypeOK
  <2>4. CASE EditOpen(c)
    BY <2>1, <2>2, <2>4, <1>0 DEF EditOpen, TypeOK
  <2>5. CASE Fill(c) \/ FillFails(c)
    BY <2>5, <1>0 DEF Fill, FillFails, TypeOK, local
  <2>6. CASE Rename(c)
    BY <2>1, <2>6, <1>0 DEF Rename, ReplaceFile, TypeOK, local
  <2>7. CASE Unlink(c)
    BY <2>1, <2>7, <1>0 DEF Unlink, TypeOK, local
  <2> QED BY <2>3, <2>4, <2>5, <2>6, <2>7
<1>5. data' \in [Inodes -> Texts]
  <2>1. CASE WriteOpen(c) \/ EditOpen(c)
    <3>1. \E i \in Inodes : data' = [data EXCEPT ![i] = Empty]
      <4>1. Opened(file, c) \in Inodes /\ Opened(tmp, c) \in Inodes
        BY <1>0 DEF TypeOK, Opened, Inodes
      <4> QED BY <2>1, <4>1 DEF WriteOpen, EditOpen
    <3> QED BY <3>1, <1>0, <1>1 DEF TypeOK
  <2>2. CASE Fill(c)
    <3>1. data' = [data EXCEPT ![fd[c]] = Overlaid(data[fd[c]], Text(c))]
      BY <2>2 DEF Fill
    <3> QED BY <3>1, <1>0, <1>1 DEF TypeOK
  <2>3. CASE FillFails(c)
    <3>1. data' = [data EXCEPT ![fd[c]] = [data[fd[c]] EXCEPT !.whole = FALSE]]
      BY <2>3 DEF FillFails
    <3>2. \A t \in Texts : [t EXCEPT !.whole = FALSE] \in Texts
      BY DEF Texts
    <3> QED BY <3>1, <3>2, <1>0 DEF TypeOK
  <2>4. CASE Rename(c) \/ Unlink(c)
    BY <2>4, <1>0 DEF Rename, ReplaceFile, Unlink, TypeOK
  <2> QED BY <2>1, <2>2, <2>3, <2>4
<1>6. replaced' \in SUBSET Calls /\ renamed' \in SUBSET Calls
  <2>1. \A p \in Paths : InFile(p) \subseteq Calls
    BY <1>0 DEF TypeOK, InFile, LinesOf, Texts
  <2> QED BY <2>1, <1>0 DEF WriteOpen, EditOpen, Fill, FillFails, Rename, ReplaceFile, Unlink,
                            files, TypeOK
<1>7. TypeOK'
  BY <1>0, <1>2, <1>3, <1>4, <1>5, <1>6 DEF TypeOK
<1>8. Fits(c)'
  <2>1. CASE WriteOpen(c) \/ EditOpen(c)
    BY <2>1, <1>0, <1>2 DEF WriteOpen, EditOpen, Go, TypeOK, Fits
  <2>2. CASE Fill(c)
    BY <2>2, <1>0, <1>2 DEF Fill, Go, Return, TypeOK, Fits
  <2>3. CASE FillFails(c) \/ Rename(c) \/ Unlink(c)
    BY <2>3, <1>0, <1>2 DEF FillFails, Rename, ReplaceFile, Unlink, Go, Return, TypeOK, Fits
  <2> QED BY <2>1, <2>2, <2>3
<1>9. \A d \in Calls : d # c => (d \in renamed' <=> d \in renamed)
  BY DEF WriteOpen, EditOpen, Fill, FillFails, Rename, ReplaceFile, Unlink
<1> QED BY <1>2, <1>3, <1>7, <1>8, <1>9, RestFit

\* The steps of file_edit, file_read and bash that write nothing.
LEMMA LocalTypes ==
    ASSUME TypeInv, NEW c \in Calls,
           EditRead(c) \/ ReadLoad(c) \/ ReadPanics(c) \/ Spawn(c) \/ ChildFails(c)
    PROVE  TypeInv'
<1> USE ToolsAssumption
<1>0. TypeOK /\ Fits(c)
  BY DEF TypeInv
<1>1. UNCHANGED <<tool, path, range, fd, left, file, tmp, data, renamed, replaced, there, crashes, given>>
  BY DEF EditRead, ReadLoad, ReadPanics, Spawn, ChildFails, arguments, local, files
<1>2. file[path[c]] # NoFile => data[file[path[c]]] \in Texts
  BY <1>0 DEF TypeOK
<1>3. /\ step' \in [Calls -> Steps]
      /\ \A d \in Calls : d # c => step'[d] = step[d]
  <2>1. UNCHANGED step \/ \E s \in Steps : step' = [step EXCEPT ![c] = s]
    BY DEF EditRead, ReadLoad, ReadPanics, Spawn, ChildFails, Go, Return, Steps
  <2>2. CASE UNCHANGED step
    BY <1>0, <2>2 DEF TypeOK
  <2>3. CASE \E s \in Steps : step' = [step EXCEPT ![c] = s]
    BY <1>0, <2>3 DEF TypeOK
  <2> QED BY <2>1, <2>2, <2>3
<1>4. /\ answer' \in [Calls -> {"none", "ok", "cut", "err"}]
      /\ \A d \in Calls : d # c => answer'[d] = answer[d]
  <2>1. UNCHANGED answer \/ answer' = [answer EXCEPT ![c] = "ok"]
    BY DEF EditRead, ReadLoad, ReadPanics, Spawn, ChildFails, Return
  <2> QED BY <1>0, <2>1 DEF TypeOK
<1>5. got' \in [Calls -> Texts]
  <2>1. UNCHANGED got \/ \E t \in Texts : got' = [got EXCEPT ![c] = t]
    BY <1>2 DEF EditRead, ReadLoad, ReadPanics, Spawn, ChildFails, local
  <2>2. got \in [Calls -> Texts]
    BY <1>0 DEF TypeOK
  <2>3. CASE \E t \in Texts : got' = [got EXCEPT ![c] = t]
    <3> HIDE DEF Texts
    <3> QED BY <2>2, <2>3
  <2> QED BY <2>1, <2>2, <2>3
<1>6. /\ child' \in [Calls -> {"none", "running", "wrote", "failed"}]
      /\ \A d \in Calls : d # c => child'[d] = child[d]
  <2>1. UNCHANGED child \/ \E s \in {"running", "failed"} : child' = [child EXCEPT ![c] = s]
    BY DEF EditRead, ReadLoad, ReadPanics, Spawn, ChildFails
  <2> QED BY <1>0, <2>1 DEF TypeOK
<1>7. /\ found' \in [Calls -> Seq(Calls \union Paths)]
      /\ \A d \in Calls : found'[d] = found[d] \/ (d = c /\ tool[c] = "file_read")
      /\ found'[c] = found[c] \/ step'[c] = "done"
  <2>1. CASE EditRead(c) \/ ReadPanics(c) \/ Spawn(c) \/ ChildFails(c)
    <3>1. UNCHANGED found
      BY <2>1 DEF EditRead, ReadPanics, Spawn, ChildFails, local
    <3> QED BY <3>1, <1>0 DEF TypeOK
  <2>2. CASE ReadLoad(c)
    <3> DEFINE t == data[file[path[c]]]
               n == Len(t.lines)
               s == SubSeq(t.lines, Start(range[c], n) + 1, End(range[c], n))
    <3>1. t.lines \in Seq(Calls) /\ n \in Nat
      BY <1>2, <2>2 DEF ReadLoad, Texts
    <3>2. /\ Start(range[c], n) \in Nat
          /\ End(range[c], n) \in Int /\ End(range[c], n) <= n
      <4> HIDE DEF n
      <4>1. /\ range[c].offset = None \/ range[c].offset \in Nat
            /\ range[c].limit = None \/ range[c].limit \in Nat
        <5>1. range[c] \in [offset : Offsets \union {None}, limit : Limits \union {None}]
          BY <1>0 DEF TypeOK
        <5>2. \A x \in 0 .. Wrap - 1 : x \in Nat
          OBVIOUS
        <5> QED BY <5>1, <5>2
      <4>2. Start(range[c], n) \in Nat
        BY <3>1, <4>1 DEF Start, Least
      <4>3. \A x \in Nat : x % Wrap \in Nat
        BY ToolsAssumption
      <4>4. range[c].limit # None => (Start(range[c], n) + range[c].limit) % Wrap \in Nat
        BY <4>1, <4>2, <4>3
      <4> QED BY <3>1, <4>2, <4>4 DEF End, Least
    <3>3. s \in Seq(Calls)
      BY <3>1, <3>2, SomeOfText
    <3>4. s \in Seq(Calls \union Paths)
      BY <3>3
    <3>5. found' = [found EXCEPT ![c] = s] /\ step[c] = "load" /\ step'[c] = "done"
      BY <2>2, <1>0 DEF ReadLoad, Return, Go, TypeOK
    <3>6. tool[c] = "file_read"
      BY <3>5, <1>0 DEF Fits
    <3> HIDE DEF s
    <3> QED BY <3>4, <3>5, <3>6, <1>0 DEF TypeOK
  <2> QED BY <2>1, <2>2
<1>8. TypeOK'
  BY <1>0, <1>1, <1>3, <1>4, <1>5, <1>6, <1>7 DEF TypeOK
<1>9. Fits(c)'
  <2>1. CASE EditRead(c) \/ ReadPanics(c)
    BY <2>1, <1>0, <1>1, <1>7 DEF EditRead, ReadPanics, Go, TypeOK, Fits
  <2>2. CASE ReadLoad(c)
    BY <2>2, <1>0, <1>1, <1>7 DEF ReadLoad, Go, Return, TypeOK, Fits
  <2>3. CASE Spawn(c)
    BY <2>3, <1>0, <1>1, <1>7 DEF Spawn, Go, TypeOK, Fits
  <2>4. CASE ChildFails(c)
    BY <2>4, <1>0, <1>1, <1>7 DEF ChildFails, local, TypeOK, Fits
  <2> QED BY <2>1, <2>2, <2>3, <2>4
<1> QED BY <1>1, <1>3, <1>4, <1>6, <1>7, <1>8, <1>9, RestFit

\* A command writes: it may be the one to make the file.
LEMMA ChildTypes == ASSUME TypeInv, NEW c \in Calls, ChildWrites(c) PROVE TypeInv'
<1>0. TypeOK /\ Fits(c)
  BY DEF TypeInv
<1>1. UNCHANGED <<step, tool, path, range, fd, got, found, left, answer, tmp, renamed, replaced,
                  there, crashes, given>>
  BY DEF ChildWrites, arguments, local
<1>2. Opened(file, c) \in Inodes /\ path[c] \in Paths
  BY <1>0 DEF TypeOK, Opened, Inodes
<1>3. file' \in [Paths -> Inodes \union {NoFile}]
  BY <1>0, <1>2 DEF ChildWrites, TypeOK
<1>4. data' \in [Inodes -> Texts]
  <2>1. [whole |-> TRUE, lines |-> <<c>>] \in Texts
    BY DEF Texts
  <2>2. \A t \in Texts : [whole |-> t.whole, lines |-> Append(t.lines, c)] \in Texts
    BY DEF Texts
  <2>3. \E t \in Texts : data' = [data EXCEPT ![Opened(file, c)] = t]
    <3> DEFINE i == Opened(file, c)
    <3>1. data[i] \in Texts
      BY <1>0, <1>2 DEF TypeOK
    <3> HIDE DEF i
    <3>2. data' = [data EXCEPT ![i] =
                       IF file[path[c]] = NoFile
                       THEN [whole |-> TRUE, lines |-> <<c>>]
                       ELSE [whole |-> data[i].whole, lines |-> Append(data[i].lines, c)]]
      BY DEF ChildWrites, i
    <3>3. [whole |-> data[i].whole, lines |-> Append(data[i].lines, c)] \in Texts
      BY <2>2, <3>1
    <3>4. \E t \in Texts : data' = [data EXCEPT ![i] = t]
      <4>1. CASE file[path[c]] = NoFile
        BY <2>1, <3>2, <4>1
      <4>2. CASE file[path[c]] # NoFile
        <5>1. data' = [data EXCEPT ![i] = [whole |-> data[i].whole, lines |-> Append(data[i].lines, c)]]
          BY <3>2, <4>2
        <5> QED BY <3>3, <5>1
      <4> QED BY <4>1, <4>2
    <3> QED BY <3>4 DEF i
  <2> QED BY <1>0, <2>3 DEF TypeOK
<1>5. child[c] = "running" /\ child' = [child EXCEPT ![c] = "wrote"]
  BY DEF ChildWrites
<1>6. TypeOK'
  BY <1>0, <1>1, <1>3, <1>4, <1>5 DEF TypeOK
<1>7. Fits(c)'
  BY <1>0, <1>1, <1>5 DEF TypeOK, Fits
<1>8. \A d \in Calls : d # c => child'[d] = child[d]
  BY <1>0, <1>5 DEF TypeOK
<1> QED BY <1>1, <1>6, <1>7, <1>8, RestFit

\* The steps of a search.
LEMMA SearchTypes ==
    ASSUME TypeInv, NEW c \in Calls, GrepEntry(c) \/ GlobEntry(c) PROVE TypeInv'
<1> USE ToolsAssumption
<1>0. TypeOK /\ Fits(c)
  BY DEF TypeInv
<1>1. UNCHANGED <<tool, path, range, fd, got, child, file, tmp, data, renamed, replaced,
                  there, crashes, given>>
  BY DEF GrepEntry, GlobEntry, arguments, files
<1>2. \E e \in left[c] : left' = [left EXCEPT ![c] = left[c] \ {e}]
  BY DEF GrepEntry, GlobEntry
<1>3. left' \in [Calls -> SUBSET Entries]
  <2>1. left[c] \in SUBSET Entries
    BY <1>0 DEF TypeOK
  <2>2. PICK e \in left[c] : left' = [left EXCEPT ![c] = left[c] \ {e}]
    BY <1>2
  <2>3. left \in [Calls -> SUBSET Entries]
    BY <1>0 DEF TypeOK
  <2> HIDE DEF Entries
  <2>4. left[c] \ {e} \in SUBSET Entries
    BY <2>1
  <2> QED BY <2>2, <2>3, <2>4
<1>4. \A e \in left[c] : IsFile(e) => e.path \in Paths /\ data[Inode(e)] \in Texts
  BY <1>0 DEF TypeOK, Entries, Directory, IsFile, Inode
<1>5. found[c] \in Seq(Calls \union Paths)
  BY <1>0 DEF TypeOK
<1>6. CASE GrepEntry(c)
  <2>1. /\ UNCHANGED <<step, answer>>
        /\ tool[c] = "grep" /\ Len(found[c]) < MaxMatches
    BY <1>6 DEF GrepEntry
  <2>2. PICK s \in Seq(Calls \union Paths) :
          Len(s) <= MaxMatches /\ found' = [found EXCEPT ![c] = s]
    <3>1. PICK e \in left[c] :
            \/ /\ IsFile(e)
               /\ found' = [found EXCEPT ![c] =
                       found[c] \o SubSeq(Matching(e), 1, Least(Room(c), Len(Matching(e))))]
            \/ found' = [found EXCEPT ![c] = found[c]]
      BY <1>6 DEF GrepEntry
    <3> DEFINE k == Least(Room(c), Len(Matching(e)))
               s == SubSeq(Matching(e), 1, k)
    <3>2. CASE IsFile(e) /\ found' = [found EXCEPT ![c] = found[c] \o s]
      <4>1. Matching(e) \in Seq(Calls)
        BY <1>4, <3>2 DEF Matching, Texts
      <4>2. Room(c) \in Nat
        BY <2>1, <1>5 DEF Room
      <4>3. Len(Matching(e)) \in Nat
        BY <4>1
      <4>4. k \in Nat /\ k <= Room(c) /\ k <= Len(Matching(e))
        BY <4>2, <4>3 DEF Least
      <4> HIDE DEF k
      <4>5. s \in Seq(Calls) /\ Len(s) = k
        BY <4>1, <4>4, SubSeqProperties
      <4>6. found[c] \o s \in Seq(Calls \union Paths) /\ Len(found[c] \o s) = Len(found[c]) + k
        BY <4>5, <1>5
      <4>7. Len(found[c] \o s) <= MaxMatches
        <5>1. \A m, n \in Nat : n <= MaxMatches - m => m + n <= MaxMatches
          OBVIOUS
        <5>2. Len(found[c]) \in Nat
          BY <1>5
        <5> QED BY <4>4, <4>6, <5>1, <5>2 DEF Room
      <4> DEFINE new == found[c] \o s
      <4>8. new \in Seq(Calls \union Paths) /\ Len(new) <= MaxMatches
        BY <4>6, <4>7
      <4>9. found' = [found EXCEPT ![c] = new]
        BY <3>2
      <4> HIDE DEF new
      <4> QED BY <4>8, <4>9
    <3>3. CASE found' = [found EXCEPT ![c] = found[c]]
      <4>1. Len(found[c]) <= MaxMatches
        BY <2>1, <1>5
      <4> QED BY <3>3, <4>1, <1>5
    <3> QED BY <3>1, <3>2, <3>3
  <2>3. found' \in [Calls -> Seq(Calls \union Paths)] /\ found'[c] = s
    BY <2>2, <1>0 DEF TypeOK
  <2>4. \A d \in Calls : d # c => found'[d] = found[d]
    BY <2>2, <1>0 DEF TypeOK
  <2>5. \A d \in Calls : tool[d] \in {"grep", "glob"} => Len(found'[d]) <= MaxMatches
    BY <2>2, <2>3, <2>4, <1>0 DEF TypeOK
  <2>6. TypeOK'
    BY <1>0, <1>1, <1>3, <2>1, <2>3, <2>5 DEF TypeOK
  <2>7. Fits(c)'
    BY <1>0, <1>1, <2>1, <1>6 DEF Fits, GrepEntry
  <2> QED BY <1>1, <2>1, <2>4, <2>6, <2>7, RestFit
<1>7. CASE GlobEntry(c)
  <2>1. /\ tool[c] = "glob" /\ step[c] = "walk" /\ answer[c] = "none"
        /\ Len(found[c]) < MaxMatches
    BY <1>7, <1>0 DEF GlobEntry, Fits
  <2>2. PICK e \in left[c] :
          IF IsFile(e)
          THEN /\ found' = [found EXCEPT ![c] = Append(@, e.path)]
               /\ IF Len(found[c]) + 1 >= MaxMatches
                  THEN Return(c, "walk", "cut") ELSE UNCHANGED <<step, answer>>
          ELSE UNCHANGED <<found, step, answer>>
    BY <1>7 DEF GlobEntry
  <2>3. \/ UNCHANGED <<step, answer>>
        \/ /\ step' = [step EXCEPT ![c] = "done"]
           /\ answer' = [answer EXCEPT ![c] = "cut"]
    BY <2>2 DEF Return, Go
  <2>4. /\ step' \in [Calls -> Steps]
        /\ answer' \in [Calls -> {"none", "ok", "cut", "err"}]
        /\ \A d \in Calls : d # c => step'[d] = step[d] /\ answer'[d] = answer[d]
        /\ \/ step'[c] = "walk" /\ answer'[c] = "none"
           \/ step'[c] = "done" /\ answer'[c] = "cut"
    <3>1. CASE UNCHANGED <<step, answer>>
      BY <3>1, <2>1, <1>0 DEF TypeOK
    <3>2. CASE /\ step' = [step EXCEPT ![c] = "done"]
               /\ answer' = [answer EXCEPT ![c] = "cut"]
      BY <3>2, <1>0 DEF TypeOK, Steps
    <3> QED BY <2>3, <3>1, <3>2
  <2>5. PICK s \in Seq(Calls \union Paths) :
          /\ found' = [found EXCEPT ![c] = s]
          /\ Len(s) <= MaxMatches
          /\ step'[c] = "walk" => Len(s) < MaxMatches
    <3>1. CASE IsFile(e)
      <4>1. e.path \in Paths
        BY <1>4, <3>1
      <4> DEFINE s == Append(found[c], e.path)
      <4>2. s \in Seq(Calls \union Paths) /\ Len(s) = Len(found[c]) + 1
        BY <4>1, <1>5
      <4>3. found' = [found EXCEPT ![c] = s]
        BY <2>2, <3>1
      <4>4. Len(found[c]) \in Nat
        BY <1>5
      <4>5. Len(found[c]) + 1 >= MaxMatches => step'[c] = "done"
        BY <2>2, <3>1, <1>0 DEF Return, Go, TypeOK
      <4> HIDE DEF s
      <4>6. Len(s) <= MaxMatches
        BY <2>1, <4>2, <4>4
      <4>7. step'[c] = "walk" => Len(s) < MaxMatches
        BY <4>2, <4>4, <4>5
      <4> QED BY <4>2, <4>3, <4>6, <4>7
    <3>2. CASE ~IsFile(e)
      <4>1. found' = [found EXCEPT ![c] = found[c]]
        BY <2>2, <3>2, <1>0 DEF TypeOK
      <4>2. Len(found[c]) <= MaxMatches
        BY <2>1, <1>5
      <4> QED BY <4>1, <4>2, <2>1, <1>5
    <3> QED BY <3>1, <3>2
  <2>6. /\ found' \in [Calls -> Seq(Calls \union Paths)] /\ found'[c] = s
        /\ \A d \in Calls : d # c => found'[d] = found[d]
    BY <2>5, <1>0 DEF TypeOK
  <2>7. \A d \in Calls : tool[d] \in {"grep", "glob"} => Len(found'[d]) <= MaxMatches
    BY <2>5, <2>6, <1>0 DEF TypeOK
  <2>8. TypeOK'
    BY <1>0, <1>1, <1>3, <2>4, <2>6, <2>7 DEF TypeOK
  <2>9. Fits(c)'
    BY <1>0, <1>1, <2>1, <2>4, <2>5, <2>6 DEF Fits
  <2> QED BY <1>1, <2>4, <2>6, <2>8, <2>9, RestFit
<1> QED BY <1>6, <1>7

\* The process dies.
LEMMA CrashTypes == ASSUME TypeInv, Crash PROVE TypeInv'
<1> USE ToolsAssumption
<1>0. TypeOK
  BY DEF TypeInv
<1>1. UNCHANGED <<tool, path, range, fd, got, found, left, answer, child, file, tmp,
                  data, renamed, replaced, there, given>>
  BY DEF Crash, arguments, local, files
<1>2. /\ step' \in [Calls -> Steps]
      /\ \A d \in Calls : step'[d] = step[d] \/ (InFlight(d) /\ step'[d] = "lost")
  BY <1>0 DEF Crash, TypeOK, Steps
<1>3. crashes' \in 0 .. MaxCrashes
  BY <1>0 DEF Crash, TypeOK
<1>4. TypeOK'
  BY <1>0, <1>1, <1>2, <1>3 DEF TypeOK
<1>5. ASSUME NEW d \in Calls PROVE Fits(d)'
  <2>1. Fits(d)
    BY DEF TypeInv
  <2> QED BY <1>1, <1>2, <2>1 DEF Fits, InFlight
<1> QED BY <1>4, <1>5 DEF TypeInv

\* The types, with what the place of a call says of its tool, its answer and its
\* command, at every step of every behaviour.
THEOREM TypeInvHolds == Spec => []TypeInv
<1> USE ToolsAssumption
<1>1. Init => TypeInv
  <2> SUFFICES ASSUME Init PROVE TypeInv
    OBVIOUS
  <2>1. /\ step \in [Calls -> Steps] /\ tool \in [Calls -> Tools]
        /\ path \in [Calls -> Paths] /\ fd \in [Calls -> Inodes]
        /\ left \in [Calls -> SUBSET Entries] /\ there \in [Calls -> SUBSET Calls]
        /\ answer \in [Calls -> {"none", "ok", "cut", "err"}]
        /\ child \in [Calls -> {"none", "running", "wrote", "failed"}]
        /\ file \in [Paths -> Inodes \union {NoFile}]
        /\ tmp \in [Paths -> Inodes \union {NoFile}]
        /\ renamed = {} /\ replaced \in SUBSET Calls /\ given \in Cases /\ crashes \in 0 .. MaxCrashes
    BY DEF Init, Steps, Tools, Inodes
  <2>2. /\ found \in [Calls -> Seq(Calls \union Paths)]
        /\ got \in [Calls -> Texts] /\ data \in [Inodes -> Texts]
        /\ range \in [Calls -> [offset : Offsets \union {None}, limit : Limits \union {None}]]
    BY EmptyIsText DEF Init, Texts
  <2>3. /\ \A c \in Calls : /\ step[c] = "idle" /\ tool[c] = "bash" /\ found[c] = <<>>
                            /\ answer[c] = "none" /\ child[c] = "none"
    BY DEF Init
  <2> QED BY <2>1, <2>2, <2>3 DEF TypeInv, TypeOK, Fits
<1>2. TypeInv /\ [Next]_vars => TypeInv'
  <2> SUFFICES ASSUME TypeInv, [Next]_vars PROVE TypeInv'
    OBVIOUS
  <2>1. ASSUME NEW c \in Calls, NEW t \in Tools, Invoke(c, t) PROVE TypeInv'
    BY <2>1, InvokeTypes
  <2>2. ASSUME NEW c \in Calls, Quiet(c) PROVE TypeInv'
    BY <2>2, QuietTypes, QuietFits DEF TypeInv
  <2>3. ASSUME NEW c \in Calls, Refuse(c) PROVE TypeInv'
    BY <2>3, <2>2, QuietSteps DEF TypeInv
  <2>4. ASSUME NEW c \in Calls, Run(c) PROVE TypeInv'
    <3>1. \/ Quiet(c)
          \/ WriteOpen(c) \/ EditOpen(c) \/ Fill(c) \/ FillFails(c) \/ Rename(c) \/ Unlink(c)
          \/ EditRead(c) \/ ReadLoad(c) \/ ReadPanics(c) \/ Spawn(c)
          \/ GrepEntry(c) \/ GlobEntry(c)
      BY <2>4, QuietSteps DEF Run, Write, Edit, Put, Read, Bash, Search, TypeInv
    <3> QED BY <3>1, <2>2, FileTypes, LocalTypes, SearchTypes
  <2>5. ASSUME NEW c \in Calls, ChildWrites(c) \/ ChildFails(c) PROVE TypeInv'
    BY <2>5, ChildTypes, LocalTypes
  <2>6. CASE UNCHANGED vars
    BY <2>6 DEF TypeInv, TypeOK, Fits, vars, arguments, local, files
  <2> QED BY <2>1, <2>3, <2>4, <2>5, <2>6, CrashTypes DEF Next
<1> QED BY <1>1, <1>2, PTL DEF Spec

\* The values of the tools' state for any calls, paths and limits: no search
\* prints more than its limit.
THEOREM TypeCorrect == Spec => []TypeOK
<1>1. TypeInv => TypeOK
  BY DEF TypeInv
<1> QED BY <1>1, TypeInvHolds, PTL

-----------------------------------------------------------------------------
(* The lines a file_read returns.                                           *)

\* A sum within a usize is itself.
LEMMA ModBelow == ASSUME NEW x \in Nat, x < Wrap PROVE x % Wrap = x
BY ToolsAssumption, SMTT(30)

\* A sum that wraps, of two numbers that do not.
LEMMA ModAbove ==
    ASSUME NEW x \in Nat, Wrap <= x, x < Wrap + Wrap PROVE x % Wrap = x - Wrap
BY ToolsAssumption, SMTT(30)

Ranges == [offset : Offsets \union {None}, limit : Limits \union {None}]

\* The range as RangeIsRead states it.
From(r)    == IF r.offset = None THEN 0 ELSE r.offset
Upto(r, n) == IF r.limit = None THEN n ELSE From(r) + r.limit
Size(r, n) == IF Least(Upto(r, n), n) > From(r)
              THEN Least(Upto(r, n), n) - From(r) ELSE 0

\* The offset and the limit of a call are numbers of a usize, or not given.
LEMMA RangesOf ==
    ASSUME NEW r \in Ranges
    PROVE  /\ r.offset = None \/ (r.offset \in Nat /\ r.offset < Wrap)
           /\ r.limit = None \/ (r.limit \in Nat /\ r.limit < Wrap)
<1>1. \A x \in 0 .. Wrap - 1 : x \in Nat /\ x < Wrap
  BY ToolsAssumption
<1> QED BY <1>1, ToolsAssumption DEF Ranges

\* A sum that wraps ends the slice before its start; any other is the sum.
LEMMA EndOf ==
    ASSUME NEW r \in Ranges, NEW n \in Nat
    PROVE  /\ Start(r, n) \in Nat /\ Start(r, n) = Least(From(r), n)
           /\ Start(r, n) + Size(r, n) <= n
           /\ Start(r, n) <= End(r, n) => End(r, n) = Start(r, n) + Size(r, n)
           /\ Size(r, n) \in Nat /\ (Size(r, n) > 0 => Start(r, n) = From(r))
           /\ End(r, n) < Start(r, n) => Upto(r, n) >= Wrap
           /\ End(r, n) \in Int
<1> DEFINE a == From(r)
           s == Start(r, n)
           l == r.limit
<1> USE ToolsAssumption
<1>1. a \in Nat /\ a < Wrap /\ (l = None \/ (l \in Nat /\ l < Wrap))
  BY RangesOf DEF From
<1>2. s = (IF a < n THEN a ELSE n) /\ s \in Nat /\ s <= a
  <2>1. CASE r.offset = None
    BY <2>1, <1>1 DEF Start, From
  <2>2. CASE r.offset # None
    BY <2>2, <1>1 DEF Start, From, Least
  <2> QED BY <2>1, <2>2
<1>3. CASE l = None
  <2>1. End(r, n) = n /\ Upto(r, n) = n
    BY <1>3 DEF End, Upto
  <2> HIDE DEF a, s
  <2>2. Size(r, n) = IF n > a THEN n - a ELSE 0
    BY <2>1 DEF Size, Least, a
  <2> QED BY <1>1, <1>2, <2>1, <2>2 DEF Least, a, s
<1>4. CASE l # None
  <2>1. End(r, n) = Least((s + l) % Wrap, n) /\ Upto(r, n) = a + l
    BY <1>4 DEF End, Upto
  <2>2. Size(r, n) = IF Least(a + l, n) > a THEN Least(a + l, n) - a ELSE 0
    BY <2>1 DEF Size
  <2> HIDE DEF a, s
  <2>3. l \in Nat /\ l < Wrap /\ s < Wrap
    BY <1>1, <1>2, <1>4
  <2>4. CASE s + l < Wrap
    <3>1. End(r, n) = Least(s + l, n)
      BY <2>1, <2>3, <2>4, <1>2, ModBelow
    <3>2. s <= End(r, n) /\ End(r, n) \in Nat
      BY <3>1, <2>3, <1>2, <1>1 DEF Least
    <3>3. CASE a < n
      <4>1. s = a
        BY <1>2, <3>3
      <4> QED BY <1>1, <2>1, <2>2, <2>3, <3>1, <3>2, <4>1, <3>3 DEF Least, a, s
    <3>4. CASE ~(a < n)
      <4>1. s = n /\ Size(r, n) = 0
        BY <1>1, <1>2, <3>4, <2>2, <2>3 DEF Least
      <4> QED BY <1>1, <2>1, <2>3, <3>1, <3>2, <4>1, <3>4 DEF Least, a, s
    <3> QED BY <3>3, <3>4
  <2>5. CASE ~(s + l < Wrap)
    <3>1. End(r, n) = Least((s + l) - Wrap, n)
      BY <2>1, <2>3, <2>5, <1>2, ModAbove
    <3>2. End(r, n) \in Nat /\ End(r, n) < s
      BY <3>1, <2>3, <2>5, <1>2 DEF Least
    <3>3. Upto(r, n) >= Wrap
      BY <2>1, <1>1, <1>2, <2>3, <2>5
    <3>4. Size(r, n) \in Nat /\ (Size(r, n) > 0 => s = a) /\ s + Size(r, n) <= n
      BY <1>1, <1>2, <2>2, <2>3 DEF Least
    <3> QED BY <3>2, <3>3, <3>4, <1>1, <1>2 DEF Least, a, s
  <2> QED BY <2>4, <2>5
<1> QED BY <1>3, <1>4

\* The slice from a start to an end, line by line.
LEMMA SliceIs ==
    ASSUME NEW S, NEW s \in Seq(S), NEW r \in Ranges,
           Start(r, Len(s)) <= End(r, Len(s))
    PROVE  SubSeq(s, Start(r, Len(s)) + 1, End(r, Len(s)))
             = [i \in 1 .. Size(r, Len(s)) |-> s[From(r) + i]]
<1> DEFINE a == Start(r, Len(s))
           k == Size(r, Len(s))
           t == SubSeq(s, a + 1, a + k)
<1>1. /\ Len(s) \in Nat /\ a \in Nat /\ k \in Nat
      /\ a + k <= Len(s) /\ End(r, Len(s)) = a + k
      /\ k > 0 => a = From(r)
  BY EndOf
<1> HIDE DEF a, k
<1>2. \A i \in a + 1 .. a + k : s[i] \in S
  BY <1>1
<1>3. /\ t \in Seq(S)
      /\ Len(t) = IF a + 1 <= a + k THEN (a + k) - (a + 1) + 1 ELSE 0
      /\ \A i \in 1 .. (a + k) - (a + 1) + 1 : t[i] = s[(a + 1) + i - 1]
  <2>1. a + 1 \in Int /\ a + k \in Int
    BY <1>1
  <2> HIDE DEF t
  <2> QED BY <1>2, <2>1, SubSeqProperties DEF t
<1> HIDE DEF t
<1>4. Len(t) = k /\ DOMAIN t = 1 .. k
  BY <1>1, <1>3
<1>5. \A i \in 1 .. k : t[i] = s[From(r) + i]
  <2> SUFFICES ASSUME NEW i \in 1 .. k PROVE t[i] = s[From(r) + i]
    OBVIOUS
  <2>1. i \in 1 .. (a + k) - (a + 1) + 1 /\ (a + 1) + i - 1 = a + i /\ a = From(r)
    BY <1>1
  <2> QED BY <1>3, <2>1
<1>6. t = [i \in 1 .. k |-> s[From(r) + i]]
  <2>1. t = [i \in 1 .. k |-> t[i]]
    BY <1>3, <1>4
  <2> QED BY <1>5, <2>1
<1> QED BY <1>1, <1>6 DEF a, k, t

\* RangeIsRead, of one call.
RangeOf(c) == tool[c] = "file_read" =>
    /\ answer[c] = "ok" =>
          found[c] = [i \in 1 .. Size(range[c], Len(got[c].lines))
                          |-> got[c].lines[From(range[c]) + i]]
    /\ step[c] = "lost" /\ crashes = 0 => Upto(range[c], Len(got[c].lines)) >= Wrap

\* file_read returns the lines asked for in true arithmetic, and panics on
\* nothing but a sum beyond a usize, for every text, offset and limit.
THEOREM RangeIsReadHolds == Spec => []RangeIsRead
<1> DEFINE I == \A c \in Calls : RangeOf(c)
<1>1. Init => I
  BY DEF Init, RangeOf
<1>2. ASSUME TypeInv, I, [Next]_vars PROVE I'
  <2> SUFFICES ASSUME NEW d \in Calls PROVE RangeOf(d)'
    OBVIOUS
  <2>0. TypeOK /\ Fits(d) /\ RangeOf(d)
    BY <1>2 DEF TypeInv
  <2> USE DEF RangeOf
  <2>1. ASSUME NEW c \in Calls, NEW t \in Tools, Invoke(c, t) PROVE RangeOf(d)'
    <3>1. CASE d = c
      <4>1. answer'[c] = "none" /\ step'[c] # "lost"
        BY <2>0, <2>1, <3>1 DEF Invoke, Go, Fits, TypeOK, FirstStep, Tools
      <4> QED BY <3>1, <4>1
    <3>2. CASE d # c
      <4>1. /\ tool'[d] = tool[d] /\ step'[d] = step[d] /\ range'[d] = range[d]
            /\ UNCHANGED <<answer, found, got, crashes>>
        BY <2>0, <2>1, <3>2 DEF Invoke, Go, TypeOK
      <4> QED BY <2>0, <4>1
    <3> QED BY <3>1, <3>2
  <2>2. ASSUME NEW c \in Calls, Quiet(c) PROVE RangeOf(d)'
    <3>1. UNCHANGED <<tool, range, got, found, crashes>>
      BY <2>2 DEF Quiet, arguments, local
    <3>2. /\ answer'[d] = "ok" /\ tool[d] = "file_read" => answer[d] = "ok"
          /\ step'[d] = "lost" => step[d] = "lost"
      <4>1. PICK s \in {"unlink", "load", "done"}, a \in Answers :
              /\ step' = [step EXCEPT ![c] = s]
              /\ answer' = [answer EXCEPT ![c] = a]
              /\ s \in {"unlink", "load"} => a = answer[c]
              /\ a = "ok" /\ s = "done" => step[c] \in {"running", "walk", "renamed", "edited"}
        BY <2>2 DEF Quiet
      <4>2. CASE d = c
        <5>1. step'[c] = s /\ answer'[c] = a
          BY <2>0, <4>1 DEF TypeOK
        <5> QED BY <2>0, <4>1, <4>2, <5>1 DEF Fits
      <4>3. CASE d # c
        BY <2>0, <4>1, <4>3 DEF TypeOK
      <4> QED BY <4>2, <4>3
    <3> QED BY <2>0, <3>1, <3>2
  <2>3. ASSUME NEW c \in Calls, ReadLoad(c) PROVE RangeOf(d)'
    <3> DEFINE t == data[file[path[c]]]
    <3>1. /\ UNCHANGED <<tool, range, crashes>>
          /\ got' = [got EXCEPT ![c] = t]
          /\ found' = [found EXCEPT ![c] = SubSeq(t.lines, Start(range[c], Len(t.lines)) + 1,
                                                  End(range[c], Len(t.lines)))]
          /\ step' = [step EXCEPT ![c] = "done"] /\ answer' = [answer EXCEPT ![c] = "ok"]
          /\ Start(range[c], Len(t.lines)) <= End(range[c], Len(t.lines))
          /\ file[path[c]] # NoFile
      BY <2>3 DEF ReadLoad, Return, Go, arguments
    <3>2. CASE d = c
      <4>1. t.lines \in Seq(Calls) /\ range[c] \in Ranges
        BY <2>0, <3>1 DEF TypeOK, Texts, Ranges
      <4>2. /\ got'[c] = t /\ step'[c] = "done" /\ range'[c] = range[c]
            /\ found'[c] = SubSeq(t.lines, Start(range[c], Len(t.lines)) + 1,
                                  End(range[c], Len(t.lines)))
        BY <2>0, <3>1 DEF TypeOK
      <4>3. found'[c] = [i \in 1 .. Size(range[c], Len(t.lines)) |-> t.lines[From(range[c]) + i]]
        <5> DEFINE l == t.lines
                   r == range[c]
        <5>1. l \in Seq(Calls) /\ r \in Ranges /\ Start(r, Len(l)) <= End(r, Len(l))
          BY <3>1, <4>1
        <5> HIDE DEF l, r
        <5>2. SubSeq(l, Start(r, Len(l)) + 1, End(r, Len(l)))
                = [i \in 1 .. Size(r, Len(l)) |-> l[From(r) + i]]
          BY <5>1, SliceIs
        <5> QED BY <4>2, <5>2 DEF l, r
      <4> HIDE DEF t
      <4> QED BY <3>2, <4>2, <4>3
    <3>3. CASE d # c
      <4>1. /\ step'[d] = step[d] /\ answer'[d] = answer[d]
            /\ found'[d] = found[d] /\ got'[d] = got[d]
        BY <2>0, <3>1, <3>3 DEF TypeOK
      <4> QED BY <2>0, <3>1, <4>1
    <3> QED BY <3>2, <3>3
  <2>4. ASSUME NEW c \in Calls, ReadPanics(c) PROVE RangeOf(d)'
    <3> DEFINE t == data[file[path[c]]]
    <3>1. /\ UNCHANGED <<tool, range, crashes, answer, found>>
          /\ got' = [got EXCEPT ![c] = t]
          /\ step' = [step EXCEPT ![c] = "lost"] /\ step[c] = "load"
          /\ End(range[c], Len(t.lines)) < Start(range[c], Len(t.lines))
          /\ file[path[c]] # NoFile
      BY <2>4 DEF ReadPanics, Go, arguments
    <3>2. CASE d = c
      <4>1. t.lines \in Seq(Calls) /\ range[c] \in Ranges
        BY <2>0, <3>1 DEF TypeOK, Texts, Ranges
      <4>2. got'[c] = t
        BY <2>0, <3>1 DEF TypeOK
      <4>3. Upto(range[c], Len(t.lines)) >= Wrap
        <5> DEFINE n == Len(t.lines)
        <5>1. n \in Nat
          BY <4>1
        <5>2. End(range[c], n) < Start(range[c], n)
          BY <3>1
        <5> HIDE DEF n
        <5>3. Upto(range[c], n) >= Wrap
          BY <4>1, <5>1, <5>2, EndOf
        <5> QED BY <5>3 DEF n
      <4>4. answer'[c] # "ok"
        BY <2>0, <3>1, <3>2 DEF Fits
      <4> HIDE DEF t
      <4> QED BY <3>1, <3>2, <4>2, <4>3, <4>4
    <3>3. CASE d # c
      <4>1. /\ step'[d] = step[d] /\ answer'[d] = answer[d]
            /\ found'[d] = found[d] /\ got'[d] = got[d]
        BY <2>0, <3>1, <3>3 DEF TypeOK
      <4> QED BY <2>0, <3>1, <4>1
    <3> QED BY <3>2, <3>3
  <2>5. ASSUME NEW c \in Calls,
               \/ WriteOpen(c) \/ EditOpen(c) \/ Fill(c) \/ FillFails(c) \/ Rename(c)
               \/ Unlink(c) \/ EditRead(c) \/ Spawn(c) \/ GrepEntry(c) \/ GlobEntry(c)
        PROVE  RangeOf(d)'
    <3>1. UNCHANGED <<tool, range, crashes>>
      BY <2>5 DEF WriteOpen, EditOpen, Fill, FillFails, Rename, ReplaceFile, Unlink, EditRead, Spawn,
                  GrepEntry, GlobEntry, arguments
    <3>2. \A e \in Calls : e # c => /\ step'[e] = step[e] /\ answer'[e] = answer[e]
                                    /\ got'[e] = got[e] /\ found'[e] = found[e]
      <4>1. CASE WriteOpen(c) \/ EditOpen(c) \/ EditRead(c) \/ Spawn(c)
        BY <4>1, <2>0 DEF WriteOpen, EditOpen, EditRead, Spawn, Go, local, TypeOK
      <4>2. CASE Fill(c) \/ FillFails(c)
        BY <4>2, <2>0 DEF Fill, FillFails, Go, Return, local, TypeOK
      <4>3. CASE Rename(c) \/ Unlink(c)
        BY <4>3, <2>0 DEF Rename, ReplaceFile, Unlink, Go, Return, local, TypeOK
      <4>4. CASE GrepEntry(c)
        BY <4>4, <2>0 DEF GrepEntry, TypeOK
      <4>5. CASE GlobEntry(c)
        BY <4>5, <2>0 DEF GlobEntry, Go, Return, TypeOK
      <4> QED BY <2>5, <4>1, <4>2, <4>3, <4>4, <4>5
    <3>3. tool[c] # "file_read"
      <4>1. Fits(c)
        BY <1>2 DEF TypeInv
      <4> QED BY <2>5, <4>1 DEF WriteOpen, EditOpen, Fill, FillFails, Rename, ReplaceFile, Unlink,
                EditRead, Spawn, GrepEntry, GlobEntry, Go, Return, Fits
    <3> QED BY <2>0, <3>1, <3>2, <3>3
  <2>6. ASSUME NEW c \in Calls, ChildWrites(c) \/ ChildFails(c) PROVE RangeOf(d)'
    BY <2>0, <2>6 DEF ChildWrites, ChildFails, arguments, local
  <2>7. CASE Crash
    <3>1. crashes' # 0 /\ UNCHANGED <<tool, range, answer, found, got>>
      BY <2>7, <2>0 DEF Crash, arguments, local, TypeOK
    <3> QED BY <2>0, <3>1
  <2>8. CASE UNCHANGED vars
    BY <2>0, <2>8 DEF vars, arguments, local
  <2>9. ASSUME NEW c \in Calls, Run(c) \/ Refuse(c) PROVE RangeOf(d)'
    <3>1. \/ Quiet(c) \/ ReadLoad(c) \/ ReadPanics(c)
          \/ WriteOpen(c) \/ EditOpen(c) \/ Fill(c) \/ FillFails(c) \/ Rename(c)
          \/ Unlink(c) \/ EditRead(c) \/ Spawn(c) \/ GrepEntry(c) \/ GlobEntry(c)
      BY <2>0, <2>9, QuietSteps DEF Run, Write, Edit, Put, Read, Bash, Search
    <3> QED BY <3>1, <2>2, <2>3, <2>4, <2>5
  <2> HIDE DEF RangeOf
  <2> QED BY <1>2, <2>1, <2>6, <2>7, <2>8, <2>9 DEF Next
<1>3. I => RangeIsRead
  BY DEF RangeOf, RangeIsRead, Size, Upto, From
<1> QED BY <1>1, <1>2, <1>3, TypeInvHolds, PTL DEF Spec

-----------------------------------------------------------------------------
(* Writers that do not overlap.                                             *)

\* The path whose name an inode was made for.
Of(i) == IF i \in Paths THEN i ELSE path[i]

\* No two calls in flight write one file.
Alone == \A c, d \in Calls :
    c # d /\ InFlight(c) /\ InFlight(d) /\ path[c] = path[d]
    => tool[c] \notin Writers \/ tool[d] \notin Writers

\* A file and its temporary sibling are two inodes of that path.
Owned(p) ==
    /\ file[p] # NoFile => Of(file[p]) = p /\ file[p] # tmp[p]
    /\ tmp[p] # NoFile => Of(tmp[p]) = p

\* A call that has opened no file yet has made none.
Unopened(c) == \/ step[c] \in {"idle", "open", "read", "truncate", "spawn"}
               \/ child[c] = "running"
Fresh(c)    == Unopened(c) => \A p \in Paths : file[p] # c /\ tmp[p] # c

\* What EditedBadly says of edits that are over.
Marred(p) == \E c \in Calls :
    /\ tool[c] = "file_edit" /\ path[c] = p
    /\ \/ step[c] = "lost"
       \/ step[c] = "done" /\ answer[c] = "err"
       \/ LeftBehind(p)

\* The call's line is one its file should show, and one it may show.
Due(c)     == \/ child[c] = "wrote"
              \/ c \in renamed
              \/ tool[c] = "file_edit" /\ (step[c] = "edited" \/ answer[c] = "ok")
Written(c) == \/ child[c] = "wrote"
              \/ c \in renamed
              \/ tool[c] = "file_edit"

\* What the text of a file, or the text an edit holds, may lack and may show.
Complete(p, lines, excused) ==
    /\ \A d \in Calls : path[d] = p /\ Due(d) => d \in lines \union replaced \/ excused
    /\ \A d \in lines : Written(d)

Lone(c) ==
    LET p == path[c]
    IN  /\ step[c] = "fill" /\ tool[c] = "file_write" =>
              fd[c] = tmp[p] /\ tmp[p] # NoFile /\ data[tmp[p]] = Empty
        /\ step[c] = "rename" =>
              tmp[p] # NoFile /\ data[tmp[p]] = [whole |-> TRUE, lines |-> <<c>>]
        /\ step[c] = "fill" /\ tool[c] = "file_edit" =>
              /\ fd[c] = file[p] /\ file[p] # NoFile
              /\ ~data[file[p]].whole
              /\ data[file[p]].lines # <<>> => LeftBehind(p)
              /\ \A d \in InFile(p) : Written(d)
        /\ step[c] \in {"truncate", "fill"} /\ tool[c] = "file_edit" =>
              /\ ~got[c].whole => Marred(p)
              /\ Complete(p, LinesOf(got[c]), Marred(p))

Safe(p) == /\ Torn(p) => EditedBadly(p)
           /\ Complete(p, InFile(p), EditedBadly(p))

Good == /\ Alone
        /\ \A p \in Paths : Owned(p) /\ Safe(p)
        /\ \A c \in Calls : Fresh(c) /\ Lone(c)

GoodInv == ~Overlap => Good

\* What is over stays as it is, whatever step is taken.
Lasting(d) ==
    /\ step[d] = "lost" => step'[d] = "lost"
    /\ step[d] = "done" => step'[d] = "done"
    /\ answer[d] # "none" => answer'[d] = answer[d]
    /\ child[d] = "wrote" => child'[d] = "wrote"
    /\ step[d] # "idle" => tool'[d] = tool[d]
    /\ d \in renamed => d \in renamed'

\* A quiet step takes nothing back.
LEMMA QuietLasts ==
    ASSUME TypeInv, NEW c \in Calls, Quiet(c), NEW d \in Calls
    PROVE  /\ Lasting(d)
           /\ d # c => step'[d] = step[d] /\ answer'[d] = answer[d]
           /\ step'[c] \in {"unlink", "load", "done"} /\ step[c] \notin {"fill", "done", "lost"}
           /\ answer'[c] = "ok" => \/ answer[c] = "ok" \/ tool[c] \in {"bash", "grep", "glob"}
                                   \/ step[c] \in {"renamed", "edited"}
<1>0. TypeOK /\ Fits(c) /\ Fits(d)
  BY DEF TypeInv
<1>1. PICK s \in {"unlink", "load", "done"}, a \in Answers :
        /\ step' = [step EXCEPT ![c] = s]
        /\ answer' = [answer EXCEPT ![c] = a]
        /\ step[c] \notin {"fill", "done", "lost"}
        /\ s \in {"unlink", "load"} => a = answer[c]
        /\ a = "ok" /\ s = "done" => step[c] \in {"running", "walk", "renamed", "edited"}
        /\ s = "done" /\ step[c] = "renamed" => a = "ok"
        /\ UNCHANGED <<child, tool, renamed>>
  BY DEF Quiet, arguments
<1>2. step'[c] = s /\ answer'[c] = a /\ (d # c => step'[d] = step[d] /\ answer'[d] = answer[d])
  BY <1>0, <1>1 DEF TypeOK
<1> QED BY <1>0, <1>1, <1>2 DEF Lasting, Fits

\* Nor does any other: paths stay, answers and what a command did stay.
LEMMA Lasts ==
    ASSUME TypeInv, [Next]_vars
    PROVE  path' = path /\ given' = given /\ \A d \in Calls : Lasting(d)
<1>0. TypeOK /\ \A c \in Calls : Fits(c)
  BY DEF TypeInv
<1>1. ASSUME NEW c \in Calls, NEW t \in Tools, Invoke(c, t)
      PROVE  path' = path /\ given' = given /\ \A d \in Calls : Lasting(d)
  BY <1>0, <1>1 DEF Invoke, Go, TypeOK, Lasting, Fits
<1>2. ASSUME NEW c \in Calls, Quiet(c)
      PROVE  path' = path /\ given' = given /\ \A d \in Calls : Lasting(d)
  BY <1>2, QuietLasts DEF Quiet, arguments
<1>3. ASSUME NEW c \in Calls,
             \/ WriteOpen(c) \/ EditOpen(c) \/ Fill(c) \/ FillFails(c) \/ Rename(c)
             \/ Unlink(c) \/ EditRead(c) \/ ReadLoad(c) \/ ReadPanics(c) \/ Spawn(c)
             \/ GrepEntry(c) \/ GlobEntry(c)
      PROVE  path' = path /\ given' = given /\ \A d \in Calls : Lasting(d)
  <2>1. UNCHANGED <<path, given, tool>>
    BY <1>3 DEF WriteOpen, EditOpen, Fill, FillFails, Rename, ReplaceFile, Unlink, EditRead, ReadLoad,
                ReadPanics, Spawn, GrepEntry, GlobEntry, arguments
  <2>2. \A d \in Calls : child[d] = "wrote" => child'[d] = "wrote"
    <3>1. UNCHANGED child \/ (Spawn(c) /\ child' = [child EXCEPT ![c] = "running"])
      BY <1>3 DEF WriteOpen, EditOpen, Fill, FillFails, Rename, ReplaceFile, Unlink, EditRead, ReadLoad,
                  ReadPanics, Spawn, GrepEntry, GlobEntry
    <3> QED BY <3>1, <1>0 DEF Spawn, Go, Fits, TypeOK
  <2>3. step[c] \notin {"idle", "done", "lost"}
    BY <1>3 DEF WriteOpen, EditOpen, Fill, FillFails, Rename, ReplaceFile, Unlink, EditRead, ReadLoad,
                ReadPanics, Spawn, GrepEntry, GlobEntry, Go, Return
  <2>4. \A d \in Calls : d # c => step'[d] = step[d] /\ answer'[d] = answer[d]
    <3>1. CASE WriteOpen(c) \/ EditOpen(c) \/ EditRead(c) \/ ReadPanics(c) \/ Spawn(c)
      BY <3>1, <1>0 DEF WriteOpen, EditOpen, EditRead, ReadPanics, Spawn, Go, TypeOK
    <3>2. CASE Fill(c) \/ FillFails(c)
      BY <3>2, <1>0 DEF Fill, FillFails, Go, Return, TypeOK
    <3>3. CASE Rename(c) \/ Unlink(c) \/ ReadLoad(c)
      BY <3>3, <1>0 DEF Rename, ReplaceFile, Unlink, ReadLoad, Go, Return, TypeOK
    <3>4. CASE GrepEntry(c)
      BY <3>4 DEF GrepEntry
    <3>5. CASE GlobEntry(c)
      BY <3>5, <1>0 DEF GlobEntry, Go, Return, TypeOK
    <3> QED BY <1>3, <3>1, <3>2, <3>3, <3>4, <3>5
  <2>5. answer[c] = "none"
    BY <1>0, <2>3 DEF Fits
  <2>6. renamed \subseteq renamed'
    BY <1>3 DEF WriteOpen, EditOpen, Fill, FillFails, Rename, ReplaceFile, Unlink, EditRead,
                ReadLoad, ReadPanics, Spawn, GrepEntry, GlobEntry
  <2> QED BY <2>1, <2>2, <2>3, <2>4, <2>5, <2>6 DEF Lasting
<1>4. ASSUME NEW c \in Calls, ChildWrites(c) \/ ChildFails(c)
      PROVE  path' = path /\ given' = given /\ \A d \in Calls : Lasting(d)
  BY <1>0, <1>4 DEF ChildWrites, ChildFails, arguments, TypeOK, Lasting
<1>5. CASE Crash
  BY <1>0, <1>5 DEF Crash, InFlight, arguments, TypeOK, Lasting
<1>6. CASE UNCHANGED vars
  BY <1>6 DEF vars, arguments, Lasting
<1>7. ASSUME NEW c \in Calls, Run(c) \/ Refuse(c)
      PROVE  path' = path /\ given' = given /\ \A d \in Calls : Lasting(d)
  <2>1. \/ Quiet(c)
        \/ WriteOpen(c) \/ EditOpen(c) \/ Fill(c) \/ FillFails(c) \/ Rename(c) \/ Unlink(c)
        \/ EditRead(c) \/ ReadLoad(c) \/ ReadPanics(c) \/ Spawn(c)
        \/ GrepEntry(c) \/ GlobEntry(c)
    BY <1>0, <1>7, QuietSteps DEF Run, Write, Edit, Put, Read, Bash, Search
  <2> QED BY <2>1, <1>2, <1>3
<1> QED BY <1>1, <1>4, <1>5, <1>6, <1>7 DEF Next

\* What has been written stays written.
LEMMA Lasted ==
    ASSUME TypeInv, path' = path, \A d \in Calls : Lasting(d)
    PROVE  /\ \A p \in Paths : LeftBehind(p) => LeftBehind(p)'
           /\ \A p \in Paths : Marred(p) => Marred(p)'
           /\ \A d \in Calls : Written(d) => Written(d)'
<1>1. \A d \in Calls : Fits(d) /\ Lasting(d)
  BY DEF TypeInv
<1>2. ASSUME NEW p \in Paths, LeftBehind(p) PROVE LeftBehind(p)'
  BY <1>1, <1>2 DEF LeftBehind, Lasting, Fits
<1>3. ASSUME NEW p \in Paths, Marred(p) PROVE Marred(p)'
  <2>1. PICK c \in Calls : /\ tool[c] = "file_edit" /\ path[c] = p
                           /\ \/ step[c] = "lost"
                              \/ step[c] = "done" /\ answer[c] = "err"
                              \/ LeftBehind(p)
    BY <1>3 DEF Marred
  <2>2. tool'[c] = "file_edit" /\ path'[c] = p
    BY <1>1, <2>1 DEF Lasting, Fits
  <2>3. \/ step'[c] = "lost"
        \/ step'[c] = "done" /\ answer'[c] = "err"
        \/ LeftBehind(p)'
    BY <1>1, <1>2, <2>1 DEF Lasting
  <2> QED BY <2>2, <2>3 DEF Marred
<1>4. ASSUME NEW d \in Calls, Written(d) PROVE Written(d)'
  BY <1>1, <1>4 DEF Written, Lasting, Fits
<1> QED BY <1>2, <1>3, <1>4

-----------------------------------------------------------------------------
(* Steps that leave every file as it is.                                    *)

Still == UNCHANGED <<path, fd, file, tmp, data, renamed, replaced>>

Calm(d) ==
    /\ step[d] = "fill" => step'[d] \in {"fill", "lost"}
    /\ Due(d)' => Due(d)
    /\ Unopened(d)' => Unopened(d)

\* A step that leaves files and texts alone and finishes no write.
LEMMA StillSafe ==
    ASSUME TypeInv, Good, Still, \A d \in Calls : Lasting(d) /\ Calm(d)
    PROVE  /\ \A p \in Paths : Owned(p)' /\ Safe(p)'
           /\ \A d \in Calls : Fresh(d)'
<1>1. /\ \A p \in Paths : Marred(p) => Marred(p)'
      /\ \A d \in Calls : Written(d) => Written(d)'
  BY Lasted DEF Still
<1>2. ASSUME NEW p \in Paths PROVE Owned(p)' /\ Safe(p)'
  <2>1. Owned(p) /\ Safe(p)
    BY DEF Good
  <2>2. Owned(p)'
    BY <2>1 DEF Owned, Of, Still
  <2>3. EditedBadly(p) => EditedBadly(p)'
    <3>1. SUFFICES ASSUME NEW c \in Calls, tool[c] = "file_edit", path[c] = p,
                          step[c] = "fill"
                   PROVE  EditedBadly(p)'
      BY <1>1 DEF EditedBadly, Marred
    <3>2. tool'[c] = "file_edit" /\ path'[c] = p /\ step'[c] \in {"fill", "lost"}
      BY <3>1 DEF Still, Lasting, Calm
    <3> QED BY <3>2 DEF EditedBadly
  <2>4. InFile(p)' = InFile(p) /\ (Torn(p)' => Torn(p)) /\ replaced' = replaced
    BY DEF InFile, LinesOf, Torn, Still
  <2>5. InFile(p) \subseteq Calls
    BY DEF TypeInv, TypeOK, InFile, LinesOf, Texts
  <2>6. Complete(p, InFile(p), EditedBadly(p))'
    BY <1>1, <2>1, <2>3, <2>4, <2>5 DEF Safe, Complete, Calm, Still
  <2> QED BY <2>1, <2>2, <2>3, <2>4, <2>6 DEF Safe
<1>3. ASSUME NEW d \in Calls PROVE Fresh(d)'
  <2>1. Fresh(d) /\ (Unopened(d)' => Unopened(d))
    BY DEF Good, Calm
  <2> QED BY <2>1 DEF Fresh, Still
<1> QED BY <1>2, <1>3

\* Such a step leaves what the other calls rely on.
LEMMA StillLone ==
    ASSUME TypeInv, Good, Still, \A d \in Calls : Lasting(d) /\ Calm(d),
           NEW c \in Calls,
           step'[c] \in {"fill", "rename", "truncate"} =>
               step'[c] = step[c] /\ tool'[c] = tool[c] /\ got'[c] = got[c]
    PROVE  Lone(c)'
<1>1. /\ \A p \in Paths : Marred(p) => Marred(p)'
      /\ \A p \in Paths : LeftBehind(p) => LeftBehind(p)'
      /\ \A d \in Calls : Written(d) => Written(d)'
  BY Lasted DEF Still
<1>2. Lone(c) /\ path[c] \in Paths
  BY DEF Good, TypeInv, TypeOK
<1> DEFINE p == path[c]
<1>3. InFile(p)' = InFile(p) /\ InFile(p) \subseteq Calls /\ LinesOf(got[c]) \subseteq Calls
  BY DEF InFile, LinesOf, Still, TypeInv, TypeOK, Texts
<1>4. CASE step'[c] \notin {"fill", "rename", "truncate"}
  BY <1>4 DEF Lone
<1>5. CASE step'[c] \in {"fill", "rename", "truncate"}
  <2>1. step'[c] = step[c] /\ tool'[c] = tool[c] /\ got'[c] = got[c]
    BY <1>5
  <2>2. UNCHANGED <<path, fd, file, tmp, data, renamed, replaced>>
    BY DEF Still
  <2>3. step[c] \in {"truncate", "fill"} /\ tool[c] = "file_edit" =>
          Complete(p, LinesOf(got[c]), Marred(p))'
    <3> SUFFICES ASSUME step[c] \in {"truncate", "fill"}, tool[c] = "file_edit"
                 PROVE  Complete(p, LinesOf(got[c]), Marred(p))'
      OBVIOUS
    <3>1. Complete(p, LinesOf(got[c]), Marred(p))
      BY <1>2 DEF Lone
    <3>2. LinesOf(got[c])' = LinesOf(got[c])
      BY <2>1 DEF LinesOf
    <3> QED BY <3>1, <3>2, <1>1, <1>2, <1>3, <2>2 DEF Complete, Calm
  <2> QED BY <1>1, <1>2, <1>3, <2>1, <2>2, <2>3 DEF Lone
<1> QED BY <1>4, <1>5

\* No step but a call being made adds a writer.
LEMMA StillAlone ==
    ASSUME Alone, path' = path,
           \A d \in Calls : InFlight(d)' => InFlight(d) /\ tool'[d] = tool[d]
    PROVE  Alone'
BY DEF Alone, Writers

\* A call that writes is made when no other writes its file.
LEMMA InvokeGood ==
    ASSUME TypeInv, TypeInv', Good, \A d \in Calls : Lasting(d), ~Overlap,
           NEW c \in Calls, NEW t \in Tools, Invoke(c, t)
    PROVE  Good'
<1>0. TypeOK /\ Fits(c) /\ Alone /\ Fits(c)'
  BY DEF TypeInv, Good
<1>1. Still
  BY DEF Invoke, files, Still
<1>2. /\ step[c] = "idle" /\ step'[c] = FirstStep[t] /\ tool'[c] = t
      /\ \A d \in Calls : d # c => step'[d] = step[d] /\ tool'[d] = tool[d]
      /\ UNCHANGED <<answer, child, got>>
  BY <1>0 DEF Invoke, Go, TypeOK
<1>3. \A d \in Calls : Calm(d)
  <2>1. Due(c)' => Due(c)
    BY <1>0, <1>1, <1>2 DEF Due, Fits, Still, FirstStep, Tools
  <2> QED BY <1>1, <1>2, <2>1 DEF Calm, Due, Unopened, Still
<1>4. Alone'
  <2> SUFFICES ASSUME NEW d \in Calls, NEW e \in Calls, d # e, InFlight(d)', InFlight(e)',
                      path'[d] = path'[e], tool'[d] \in Writers, tool'[e] \in Writers
               PROVE  FALSE
    BY DEF Alone, Writers
  <2>1. \A f \in Calls : f # c /\ InFlight(f)' => InFlight(f) /\ tool'[f] = tool[f]
    BY <1>2 DEF InFlight
  <2>2. path' = path
    BY <1>1 DEF Still
  <2>3. t \in Writers => Free(c)
    BY DEF Invoke
  <2>4. CASE d # c /\ e # c
    BY <2>1, <2>2, <2>4, <1>0 DEF Alone
  <2>5. CASE d = c \/ e = c
    BY <2>1, <2>2, <2>3, <2>5, <1>2 DEF Free
  <2> QED BY <2>4, <2>5
<1>5. ASSUME NEW d \in Calls PROVE Lone(d)'
  <2>1. step'[c] \notin {"fill", "rename", "truncate"}
    BY <1>2 DEF FirstStep, Tools
  <2> QED BY <1>1, <1>2, <1>3, <2>1, StillLone
<1> QED BY <1>1, <1>3, <1>4, <1>5, StillSafe DEF Good

\* A quiet step.
LEMMA QuietGood ==
    ASSUME TypeInv, Good, \A d \in Calls : Lasting(d), NEW c \in Calls, Quiet(c)
    PROVE  Good'
<1>0. TypeOK /\ \A d \in Calls : Fits(d)
  BY DEF TypeInv
<1>1. Still /\ UNCHANGED <<tool, child, got>>
  BY DEF Quiet, Still, arguments, local, files
<1>2. /\ \A d \in Calls : d # c => step'[d] = step[d] /\ answer'[d] = answer[d]
      /\ step'[c] \in {"unlink", "load", "done"} /\ step[c] \notin {"fill", "done", "lost"}
      /\ answer'[c] = "ok" => \/ answer[c] = "ok" \/ tool[c] \in {"bash", "grep", "glob"}
                              \/ step[c] \in {"renamed", "edited"}
  BY QuietLasts
<1>3. \A d \in Calls : Calm(d)
  BY <1>0, <1>1, <1>2 DEF Calm, Due, Unopened, Still, Fits
<1>4. Alone'
  <2>1. \A d \in Calls : InFlight(d)' => InFlight(d)
    <3>1. step[c] = "idle" => step'[c] = "done"
      BY DEF Quiet, TypeInv, TypeOK
    <3> QED BY <3>1, <1>2 DEF InFlight
  <2> QED BY <1>1, <2>1, StillAlone DEF Good, Still
<1>5. \A d \in Calls : Lone(d)'
  BY <1>1, <1>2, <1>3, StillLone
<1> QED BY <1>1, <1>3, <1>4, <1>5, StillSafe DEF Good

\* A step of a reader, a search or a command being spawned.
LEMMA LocalGood ==
    ASSUME TypeInv, Good, \A d \in Calls : Lasting(d), NEW c \in Calls,
           ReadLoad(c) \/ ReadPanics(c) \/ Spawn(c) \/ ChildFails(c) \/ GrepEntry(c) \/ GlobEntry(c)
    PROVE  Good'
<1>0. TypeOK /\ Fits(c)
  BY DEF TypeInv
<1>1. Still /\ UNCHANGED tool
  BY DEF ReadLoad, ReadPanics, Spawn, ChildFails, GrepEntry, GlobEntry, Still, arguments,
         local, files
<1>2. \A d \in Calls : d # c => /\ step'[d] = step[d] /\ answer'[d] = answer[d]
                                /\ child'[d] = child[d] /\ got'[d] = got[d]
  <2>1. CASE ReadLoad(c)
    BY <2>1, <1>0 DEF ReadLoad, Go, Return, TypeOK
  <2>2. CASE ReadPanics(c)
    BY <2>2, <1>0 DEF ReadPanics, Go, TypeOK
  <2>3. CASE Spawn(c)
    BY <2>3, <1>0 DEF Spawn, Go, local, TypeOK
  <2>4. CASE ChildFails(c)
    BY <2>4, <1>0 DEF ChildFails, local, TypeOK
  <2>5. CASE GrepEntry(c)
    BY <2>5 DEF GrepEntry
  <2>6. CASE GlobEntry(c)
    BY <2>6, <1>0 DEF GlobEntry, Go, Return, TypeOK
  <2> QED BY <2>1, <2>2, <2>3, <2>4, <2>5, <2>6
<1>3. /\ tool[c] \notin {"file_write", "file_edit"} /\ step[c] # "fill"
      /\ step'[c] \in {step[c], "done", "lost", "running"}
      /\ step[c] # "idle"
  <2>1. CASE ReadLoad(c) \/ ReadPanics(c) \/ Spawn(c)
    BY <2>1, <1>0 DEF ReadLoad, ReadPanics, Spawn, Go, Return, Fits, TypeOK
  <2>2. CASE ChildFails(c)
    BY <2>2, <1>0 DEF ChildFails, Fits
  <2>3. CASE GrepEntry(c)
    BY <2>3 DEF GrepEntry
  <2>4. CASE GlobEntry(c)
    BY <2>4, <1>0 DEF GlobEntry, Go, Return, TypeOK
  <2> QED BY <2>1, <2>2, <2>3, <2>4
<1>4. /\ child'[c] \in {child[c], "failed"} \/ step[c] = "spawn"
      /\ child'[c] = "wrote" => child[c] = "wrote"
  BY <1>0 DEF ReadLoad, ReadPanics, Spawn, ChildFails, GrepEntry, GlobEntry, Go, TypeOK
<1>5. \A d \in Calls : Calm(d)
  <2>1. Calm(c)
    BY <1>1, <1>3, <1>4 DEF Calm, Due, Unopened, Still
  <2> QED BY <2>1, <1>1, <1>2 DEF Calm, Due, Unopened, Still
<1>6. Alone'
  <2>1. \A d \in Calls : InFlight(d)' => InFlight(d)
    <3>1. InFlight(c)' => InFlight(c)
      <4>1. step[c] \in {"done", "lost"} => step'[c] = step[c]
        BY DEF Lasting
      <4> QED BY <4>1, <1>3 DEF InFlight
    <3> QED BY <3>1, <1>2 DEF InFlight
  <2> QED BY <1>1, <2>1, StillAlone DEF Good, Still
<1>7. ASSUME NEW d \in Calls PROVE Lone(d)'
  <2>1. step[c] \notin {"rename", "truncate"}
    BY <1>0, <1>3 DEF Fits
  <2>2. CASE d = c
    BY <1>1, <1>3, <1>5, <2>1, <2>2, StillLone
  <2>3. CASE d # c
    BY <1>1, <1>2, <1>5, <2>3, StillLone
  <2> QED BY <2>2, <2>3
<1> QED BY <1>1, <1>5, <1>6, <1>7, StillSafe DEF Good

\* An edit reads a file whose only writer it is.
LEMMA EditReadGood ==
    ASSUME TypeInv, Good, \A d \in Calls : Lasting(d), NEW c \in Calls, EditRead(c)
    PROVE  Good'
<1>0. TypeOK /\ Fits(c) /\ path[c] \in Paths
  BY DEF TypeInv, TypeOK
<1> DEFINE p == path[c]
<1>1. Still /\ UNCHANGED <<tool, answer, child>>
  BY DEF EditRead, Still, arguments, files
<1>2. /\ step[c] = "read" /\ step'[c] = "truncate" /\ got'[c] = data[file[p]]
      /\ tool[c] = "file_edit" /\ file[p] # NoFile
      /\ \A d \in Calls : d # c => step'[d] = step[d] /\ got'[d] = got[d]
  BY <1>0 DEF EditRead, Go, TypeOK, Fits
<1>3. \A d \in Calls : Calm(d)
  BY <1>1, <1>2 DEF Calm, Due, Unopened, Still
<1>4. Alone'
  <2>1. \A d \in Calls : InFlight(d)' => InFlight(d)
    BY <1>2 DEF InFlight
  <2> QED BY <1>1, <2>1, StillAlone DEF Good, Still
<1>5. \A d \in Calls : d # c => Lone(d)'
  BY <1>1, <1>2, <1>3, StillLone
<1>6. Lone(c)'
  <2>1. EditedBadly(p) => Marred(p)
    <3>1. SUFFICES ASSUME NEW d \in Calls, tool[d] = "file_edit", path[d] = p, step[d] = "fill"
                   PROVE  FALSE
      BY DEF EditedBadly, Marred
    <3> QED BY <3>1, <1>2 DEF Good, Alone, InFlight, Writers
  <2>2. Marred(p) => Marred(p)'
    BY <1>0, <1>1, Lasted DEF Still
  <2>3. (~data[file[p]].whole => Marred(p)) /\ Complete(p, InFile(p), Marred(p))
    BY <1>0, <1>2, <2>1 DEF Good, Safe, Torn, Complete
  <2>4. LinesOf(got[c])' = InFile(p)
    BY <1>2 DEF LinesOf, InFile
  <2>5. \A d \in Calls : Due(d)' => Due(d)
    BY <1>3 DEF Calm
  <2>6. InFile(p) \subseteq Calls /\ \A d \in Calls : Written(d) => Written(d)'
    <3>1. InFile(p) \subseteq Calls
      BY <1>0 DEF TypeOK, InFile, LinesOf, Texts
    <3> QED BY <1>1, <3>1, Lasted DEF Still
  <2>7. Complete(p, LinesOf(got[c]), Marred(p))'
    BY <1>1, <2>2, <2>3, <2>4, <2>5, <2>6 DEF Complete, Still
  <2>8. ~got'[c].whole => Marred(p)'
    BY <1>2, <2>2, <2>3
  <2>9. path' = path
    BY <1>1 DEF Still
  <2> QED BY <1>2, <2>7, <2>8, <2>9 DEF Lone
<1> QED BY <1>1, <1>3, <1>4, <1>5, <1>6, StillSafe DEF Good

\* The death of the process.
LEMMA CrashGood ==
    ASSUME TypeInv, Good, \A d \in Calls : Lasting(d), Crash \/ UNCHANGED vars
    PROVE  Good'
<1>1. Still /\ UNCHANGED <<tool, answer, child, got>>
  BY DEF Crash, Still, vars, arguments, local, files
<1>2. \A d \in Calls : step'[d] = step[d] \/ step'[d] = "lost"
  BY DEF Crash, vars
<1>3. \A d \in Calls : Calm(d)
  BY <1>1, <1>2 DEF Calm, Due, Unopened, Still
<1>4. Alone'
  <2>1. \A d \in Calls : InFlight(d)' => InFlight(d)
    BY <1>2 DEF InFlight
  <2> QED BY <1>1, <2>1, StillAlone DEF Good, Still
<1>5. \A d \in Calls : Lone(d)'
  BY <1>1, <1>2, <1>3, StillLone
<1> QED BY <1>1, <1>3, <1>4, <1>5, StillSafe DEF Good

-----------------------------------------------------------------------------
(* Steps that change the files of one path.                                 *)

\* Nothing of another path is touched, nor a call that names one.
Apart(p) ==
    /\ \A q \in Paths : q # p => file'[q] = file[q] /\ tmp'[q] = tmp[q]
    /\ \A i \in Inodes : Of(i) # p => data'[i] = data[i]
    /\ \A d \in Calls : path[d] # p =>
           /\ step'[d] = step[d] /\ tool'[d] = tool[d] /\ answer'[d] = answer[d]
           /\ child'[d] = child[d] /\ got'[d] = got[d] /\ fd'[d] = fd[d]
    /\ replaced \subseteq replaced'
    /\ \A d \in Calls : path[d] # p => (d \in renamed' <=> d \in renamed)

\* A step on one path leaves the files of the others.
LEMMA Elsewhere ==
    ASSUME TypeInv, Good, path' = path, \A d \in Calls : Lasting(d),
           NEW p \in Paths, Apart(p)
    PROVE  /\ \A q \in Paths : q # p => Owned(q)' /\ Safe(q)'
           /\ \A d \in Calls : path[d] # p => Lone(d)'
<1>0. TypeOK
  BY DEF TypeInv
<1>1. /\ \A q \in Paths : Marred(q) => Marred(q)'
      /\ \A q \in Paths : LeftBehind(q) => LeftBehind(q)'
      /\ \A d \in Calls : Written(d) => Written(d)'
  BY Lasted
<1>2. \A i \in Inodes : Of(i)' = Of(i)
  BY DEF Of
<1>3. ASSUME NEW q \in Paths, q # p
      PROVE  /\ file'[q] = file[q] /\ tmp'[q] = tmp[q]
             /\ file[q] # NoFile => data'[file[q]] = data[file[q]]
             /\ tmp[q] # NoFile => data'[tmp[q]] = data[tmp[q]]
             /\ InFile(q)' = InFile(q) /\ InFile(q) \subseteq Calls
             /\ \A d \in Calls : path[d] = q => (Due(d)' <=> Due(d))
  <2>1. file'[q] = file[q] /\ tmp'[q] = tmp[q]
    BY <1>3 DEF Apart
  <2>2. /\ file[q] # NoFile => file[q] \in Inodes /\ Of(file[q]) # p
        /\ tmp[q] # NoFile => tmp[q] \in Inodes /\ Of(tmp[q]) # p
    BY <1>0, <1>3 DEF Good, Owned, TypeOK
  <2>3. /\ file[q] # NoFile => data'[file[q]] = data[file[q]]
        /\ tmp[q] # NoFile => data'[tmp[q]] = data[tmp[q]]
    BY <2>2 DEF Apart
  <2>4. InFile(q)' = InFile(q)
    BY <2>1, <2>3 DEF InFile, LinesOf
  <2>5. InFile(q) \subseteq Calls
    BY <1>0 DEF TypeOK, InFile, LinesOf, Texts
  <2>6. \A d \in Calls : path[d] = q => (Due(d)' <=> Due(d))
    BY <1>3 DEF Apart, Due
  <2> QED BY <2>1, <2>3, <2>4, <2>5, <2>6
<1>4. ASSUME NEW q \in Paths, q # p PROVE Owned(q)' /\ Safe(q)'
  <2>1. Owned(q) /\ Safe(q)
    BY DEF Good
  <2>2. Owned(q)'
    BY <2>1, <1>3, <1>4 DEF Owned, Of
  <2>3. EditedBadly(q) => EditedBadly(q)'
    <3>1. SUFFICES ASSUME NEW c \in Calls, tool[c] = "file_edit", path[c] = q,
                          step[c] = "fill"
                   PROVE  EditedBadly(q)'
      BY <1>1 DEF EditedBadly, Marred
    <3>2. tool'[c] = "file_edit" /\ path'[c] = q /\ step'[c] = "fill"
      BY <3>1, <1>4 DEF Apart
    <3> QED BY <3>2 DEF EditedBadly
  <2>4. Torn(q)' => Torn(q)
    BY <1>3, <1>4 DEF Torn
  <2>5. Complete(q, InFile(q), EditedBadly(q))'
    BY <1>1, <1>3, <1>4, <2>1, <2>3 DEF Safe, Complete, Apart
  <2> QED BY <2>1, <2>2, <2>3, <2>4, <2>5 DEF Safe
<1>5. ASSUME NEW c \in Calls, path[c] # p PROVE Lone(c)'
  <2> DEFINE q == path[c]
  <2>1. /\ step'[c] = step[c] /\ tool'[c] = tool[c] /\ got'[c] = got[c] /\ fd'[c] = fd[c]
        /\ q \in Paths
    BY <1>0, <1>5 DEF Apart, TypeOK
  <2>2. Lone(c)
    BY DEF Good
  <2>3. step[c] \in {"truncate", "fill"} /\ tool[c] = "file_edit" =>
          Complete(q, LinesOf(got[c]), Marred(q))'
    <3> SUFFICES ASSUME step[c] \in {"truncate", "fill"}, tool[c] = "file_edit"
                 PROVE  Complete(q, LinesOf(got[c]), Marred(q))'
      OBVIOUS
    <3>1. Complete(q, LinesOf(got[c]), Marred(q))
      BY <2>2 DEF Lone
    <3>2. LinesOf(got[c])' = LinesOf(got[c]) /\ LinesOf(got[c]) \subseteq Calls
      BY <2>1, <1>0 DEF LinesOf, TypeOK, Texts
    <3> QED BY <3>1, <3>2, <1>1, <1>3, <1>5, <2>1 DEF Complete, Apart
  <2>4. /\ file'[q] = file[q] /\ tmp'[q] = tmp[q] /\ InFile(q)' = InFile(q)
        /\ InFile(q) \subseteq Calls
        /\ file[q] # NoFile => data'[file[q]] = data[file[q]]
        /\ tmp[q] # NoFile => data'[tmp[q]] = data[tmp[q]]
    BY <1>3, <1>5, <2>1
  <2> QED BY <1>1, <2>1, <2>2, <2>3, <2>4 DEF Lone
<1> QED BY <1>4, <1>5

\* While c writes a file, no other call in flight does, nor has it open.
LEMMA OtherLone ==
    ASSUME TypeInv, Alone, NEW c \in Calls, InFlight(c), tool[c] \in Writers,
           NEW d \in Calls, d # c, path[d] = path[c],
           step'[d] = step[d], tool'[d] = tool[d]
    PROVE  Lone(d)'
<1>1. Fits(d)
  BY DEF TypeInv
<1>2. step[d] \notin {"fill", "rename", "truncate"}
  BY <1>1 DEF Alone, InFlight, Writers, Fits
<1> QED BY <1>2 DEF Lone

\* What has gone wrong with the file of a call that writes is over, unless it
\* is that call's own edit.
LEMMA MarredHere ==
    ASSUME TypeInv, Alone, NEW c \in Calls, InFlight(c), tool[c] \in Writers,
           EditedBadly(path[c]), tool[c] # "file_edit" \/ step[c] # "fill"
    PROVE  Marred(path[c])
<1>1. PICK d \in Calls : /\ tool[d] = "file_edit" /\ path[d] = path[c]
                         /\ \/ step[d] \in {"fill", "lost"}
                            \/ step[d] = "done" /\ answer[d] = "err"
                            \/ LeftBehind(path[c])
  BY DEF EditedBadly
<1>2. step[d] # "fill"
  BY <1>1 DEF Alone, InFlight, Writers
<1> QED BY <1>1, <1>2 DEF Marred

\* A call that has opened a file is the only one that may have made one.
LEMMA FreshKept ==
    ASSUME Good, NEW c \in Calls, ~Unopened(c)',
           \A d \in Calls : d # c => (Unopened(d)' => Unopened(d)),
           \A p \in Paths : /\ file'[p] \in {file[p], tmp[p], c, NoFile}
                            /\ tmp'[p] \in {tmp[p], c, NoFile},
           NEW d \in Calls
    PROVE  Fresh(d)'
<1>1. d # NoFile
  BY ToolsAssumption
<1> QED BY <1>1 DEF Good, Fresh

\* What a step of a call in flight on the path's files leaves to be shown:
\* the calls' places, the inodes and the path itself.
LEMMA HereGood ==
    ASSUME TypeInv, Good, path' = path, \A d \in Calls : Lasting(d),
           NEW c \in Calls, InFlight(c), tool[c] \in Writers, UNCHANGED <<tool, got, child>>,
           \A d \in Calls : d # c => step'[d] = step[d] /\ answer'[d] = answer[d] /\ fd'[d] = fd[d],
           step'[c] \notin {"idle", "lost"},
           \A d \in Calls : d # c => (d \in renamed' <=> d \in renamed),
           ~Unopened(c)',
           \A p \in Paths : p # path[c] => file'[p] = file[p] /\ tmp'[p] = tmp[p],
           \A i \in Inodes : Of(i) # path[c] => data'[i] = data[i],
           replaced \subseteq replaced',
           /\ file'[path[c]] \in {file[path[c]], tmp[path[c]], c, NoFile}
           /\ tmp'[path[c]] \in {tmp[path[c]], c, NoFile},
           Owned(path[c])', Safe(path[c])', Lone(c)'
    PROVE  Good'
<1>1. Apart(path[c]) /\ path[c] \in Paths
  BY DEF Apart, TypeInv, TypeOK
<1>2. \A d \in Calls : Lone(d)'
  BY <1>1, Elsewhere, OtherLone DEF Good
<1>3. \A p \in Paths : Owned(p)' /\ Safe(p)'
  BY <1>1, Elsewhere
<1>4. \A d \in Calls : Fresh(d)'
  BY FreshKept DEF Unopened
<1>5. Alone'
  <2>1. \A d \in Calls : InFlight(d)' => InFlight(d)
    BY DEF InFlight
  <2> QED BY <2>1, StillAlone DEF Good
<1> QED BY <1>2, <1>3, <1>4, <1>5 DEF Good

\* A file nobody but c may write, which c leaves alone.
LEMMA SafeKept ==
    ASSUME TypeInv, Good, path' = path, \A d \in Calls : Lasting(d),
           NEW c \in Calls, InFlight(c), tool[c] = "file_write", UNCHANGED <<tool, child>>,
           \A d \in Calls : d # c => step'[d] = step[d] /\ answer'[d] = answer[d],
           file'[path[c]] = file[path[c]], UNCHANGED <<renamed, replaced>>,
           file[path[c]] # NoFile => data'[file[path[c]]] = data[file[path[c]]]
    PROVE  Safe(path[c])'
<1> DEFINE p == path[c]
<1>1. p \in Paths /\ InFile(p) \subseteq Calls
  BY DEF TypeInv, TypeOK, InFile, LinesOf, Texts
<1>2. Marred(p) => Marred(p)'
  BY <1>1, Lasted
<1>3. Safe(p)
  BY <1>1 DEF Good
<1>4. EditedBadly(p) => EditedBadly(p)'
  <2>1. EditedBadly(p) => Marred(p)
    BY MarredHere DEF Good, Writers
  <2>2. Marred(p)' => EditedBadly(p)'
    BY DEF Marred, EditedBadly
  <2> QED BY <1>2, <2>1, <2>2
<1>5. InFile(p)' = InFile(p) /\ (Torn(p)' => Torn(p))
  BY DEF InFile, LinesOf, Torn
<1>6. \A d \in Calls : (Due(d)' => Due(d)) /\ (Written(d) => Written(d)')
  <2>1. \A d \in Calls : Due(d)' => Due(d)
    BY DEF Due
  <2> QED BY <2>1, Lasted
<1> QED BY <1>1, <1>3, <1>4, <1>5, <1>6 DEF Safe, Complete

\* The inode a call opens is its path's, or one it has just made.
LEMMA OpenedIs ==
    ASSUME TypeInv, Good, NEW c \in Calls, Unopened(c)
    PROVE  /\ Opened(file, c) \in Inodes /\ Of(Opened(file, c)) = path[c]
           /\ Opened(tmp, c) \in Inodes /\ Of(Opened(tmp, c)) = path[c]
           /\ Opened(file, c) # NoFile /\ Opened(tmp, c) # NoFile
           /\ Opened(file, c) # tmp[path[c]] /\ Opened(tmp, c) # file[path[c]]
           /\ Opened(file, c) \in {file[path[c]], c} /\ Opened(tmp, c) \in {tmp[path[c]], c}
<1>1. path[c] \in Paths /\ c \notin Paths /\ c \in Inodes /\ c # NoFile
  BY ToolsAssumption DEF TypeInv, TypeOK, Inodes
<1>2. /\ file[path[c]] # c /\ tmp[path[c]] # c
      /\ Owned(path[c])
  BY <1>1 DEF Good, Fresh
<1>3. file[path[c]] \in Inodes \union {NoFile} /\ tmp[path[c]] \in Inodes \union {NoFile}
  BY <1>1 DEF TypeInv, TypeOK
<1> QED BY <1>1, <1>2, <1>3 DEF Opened, Of, Owned

\* A file_write opens the temporary sibling.
LEMMA WriteOpenGood ==
    ASSUME TypeInv, TypeInv', Good, path' = path, \A d \in Calls : Lasting(d),
           NEW c \in Calls, WriteOpen(c)
    PROVE  Good'
<1> DEFINE p == path[c]
           i == Opened(tmp, c)
<1>0. TypeOK /\ Fits(c) /\ Fits(c)' /\ p \in Paths
  BY DEF TypeInv, TypeOK
<1>1. /\ step[c] = "open" /\ step'[c] = "fill" /\ tool[c] = "file_write"
      /\ \A d \in Calls : d # c => step'[d] = step[d] /\ fd'[d] = fd[d]
      /\ fd'[c] = i
      /\ UNCHANGED <<tool, got, answer, child, file, renamed, replaced>>
  BY <1>0 DEF WriteOpen, Go, TypeOK, arguments
<1>2. /\ i \in Inodes /\ Of(i) = p /\ i # NoFile /\ i # file[p] /\ i \in {tmp[p], c}
  BY <1>1, OpenedIs DEF Unopened
<1> HIDE DEF i
<1>3. /\ tmp'[p] = i /\ \A q \in Paths : q # p => tmp'[q] = tmp[q]
      /\ data'[i] = Empty /\ \A j \in Inodes : j # i => data'[j] = data[j]
  <2>1. tmp' = [tmp EXCEPT ![p] = i] /\ data' = [data EXCEPT ![i] = Empty]
    BY DEF WriteOpen, i
  <2> QED BY <2>1, <1>0, <1>2 DEF TypeOK
<1>4. InFlight(c) /\ tool[c] \in Writers /\ ~Unopened(c)'
  BY <1>0, <1>1 DEF InFlight, Writers, Unopened, Fits
<1>5. Owned(p)'
  BY <1>0, <1>1, <1>2, <1>3 DEF Good, Owned, Of
<1>6. Safe(p)'
  <2>1. file[p] # NoFile => data'[file[p]] = data[file[p]]
    BY <1>0, <1>2, <1>3 DEF TypeOK
  <2> QED BY <1>1, <1>4, <2>1, SafeKept
<1>7. Lone(c)'
  BY <1>1, <1>2, <1>3 DEF Lone
<1>8. \A j \in Inodes : Of(j) # p => data'[j] = data[j]
  BY <1>2, <1>3
<1> QED BY <1>1, <1>2, <1>3, <1>4, <1>5, <1>6, <1>7, <1>8, HereGood

\* From here to its end an edit is one EditedBadly excuses.
LEMMA EditOpenGood ==
    ASSUME TypeInv, TypeInv', Good, path' = path, \A d \in Calls : Lasting(d),
           NEW c \in Calls, EditOpen(c)
    PROVE  Good'
<1> DEFINE p == path[c]
           i == Opened(file, c)
<1>0. TypeOK /\ Fits(c) /\ Fits(c)' /\ p \in Paths
  BY DEF TypeInv, TypeOK
<1>1. /\ step[c] = "truncate" /\ step'[c] = "fill" /\ tool[c] = "file_edit"
      /\ \A d \in Calls : d # c => step'[d] = step[d] /\ fd'[d] = fd[d]
      /\ fd'[c] = i
      /\ UNCHANGED <<tool, got, answer, child, tmp, renamed, replaced>>
  BY <1>0 DEF EditOpen, Go, TypeOK, arguments, Fits
<1>2. /\ i \in Inodes /\ Of(i) = p /\ i # NoFile /\ i # tmp[p] /\ i \in {file[p], c}
  BY <1>1, OpenedIs DEF Unopened
<1> HIDE DEF i
<1>3. /\ file'[p] = i /\ \A q \in Paths : q # p => file'[q] = file[q]
      /\ data'[i] = Empty /\ \A j \in Inodes : j # i => data'[j] = data[j]
  <2>1. file' = [file EXCEPT ![p] = i] /\ data' = [data EXCEPT ![i] = Empty]
    BY DEF EditOpen, i
  <2> QED BY <2>1, <1>0, <1>2 DEF TypeOK
<1>4. InFlight(c) /\ tool[c] \in Writers /\ ~Unopened(c)'
  BY <1>0, <1>1 DEF InFlight, Writers, Unopened, Fits
<1>5. Owned(p)'
  BY <1>0, <1>1, <1>2, <1>3 DEF Good, Owned, Of
<1>6. EditedBadly(p)' /\ InFile(p)' = {}
  BY <1>1, <1>3 DEF EditedBadly, InFile, LinesOf, Empty
<1>7. Safe(p)'
  BY <1>6 DEF Safe, Complete
<1>8. Lone(c)'
  <2>1. Lone(c) /\ (Marred(p) => Marred(p)') /\ \A d \in Calls : Written(d) => Written(d)'
    BY <1>0, Lasted DEF Good
  <2>2. LinesOf(got[c])' = LinesOf(got[c]) /\ LinesOf(got[c]) \subseteq Calls
    BY <1>0, <1>1 DEF LinesOf, TypeOK, Texts
  <2>3. Complete(p, LinesOf(got[c]), Marred(p))'
    BY <1>1, <2>1, <2>2 DEF Lone, Complete, Due
  <2>4. ~data'[file'[p]].whole /\ data'[file'[p]].lines = <<>>
    BY <1>3 DEF Empty
  <2> QED BY <1>1, <1>2, <1>3, <1>6, <2>1, <2>3, <2>4 DEF Lone
<1>9. \A j \in Inodes : Of(j) # p => data'[j] = data[j]
  BY <1>2, <1>3
<1> QED BY <1>1, <1>2, <1>3, <1>4, <1>5, <1>7, <1>8, <1>9, HereGood

\* A file_write fills it, wholly or not.
LEMMA WriteFillGood ==
    ASSUME TypeInv, TypeInv', Good, path' = path, \A d \in Calls : Lasting(d),
           NEW c \in Calls, Fill(c) \/ FillFails(c), tool[c] = "file_write"
    PROVE  Good'
<1> DEFINE p == path[c]
<1>0. TypeOK /\ Fits(c) /\ Fits(c)' /\ p \in Paths
  BY DEF TypeInv, TypeOK
<1>1. /\ step[c] = "fill"
      /\ \A d \in Calls : d # c => step'[d] = step[d] /\ answer'[d] = answer[d]
      /\ UNCHANGED <<tool, fd, got, child, file, tmp, renamed, replaced>>
      /\ \/ Fill(c) /\ step'[c] = "rename" /\ answer'[c] = answer[c]
         \/ step'[c] = "done" /\ answer'[c] = "err"
  <2>1. CASE Fill(c)
    BY <2>1, <1>0 DEF Fill, Go, TypeOK, arguments, local
  <2>2. CASE FillFails(c)
    BY <2>2, <1>0 DEF FillFails, Go, Return, TypeOK, arguments, local
  <2> QED BY <2>1, <2>2
<1>2. Lone(c) /\ Owned(p)
  BY <1>0 DEF Good
<1>3. /\ fd[c] = tmp[p] /\ tmp[p] # NoFile /\ tmp[p] \in Inodes /\ data[tmp[p]] = Empty
      /\ Of(tmp[p]) = p /\ tmp[p] # file[p]
  BY <1>0, <1>1, <1>2 DEF Lone, Owned, TypeOK
<1>4. \A j \in Inodes : j # tmp[p] => data'[j] = data[j]
  BY <1>0, <1>3 DEF Fill, FillFails, TypeOK
<1>5. InFlight(c) /\ tool[c] \in Writers /\ ~Unopened(c)'
  BY <1>0, <1>1 DEF InFlight, Writers, Unopened, Fits
<1>6. Owned(p)'
  BY <1>1, <1>2 DEF Owned, Of
<1>7. Safe(p)'
  <2>1. file[p] # NoFile => data'[file[p]] = data[file[p]]
    BY <1>0, <1>3, <1>4 DEF TypeOK
  <2> QED BY <1>1, <1>5, <2>1, SafeKept
<1>8. Lone(c)'
  <2>1. CASE step'[c] = "done"
    BY <2>1 DEF Lone
  <2>2. CASE Fill(c) /\ step'[c] = "rename"
    <3>1. data' = [data EXCEPT ![tmp[p]] = Overlaid(data[tmp[p]], Text(c))]
      BY <2>2, <1>3 DEF Fill
    <3>2. Overlaid(data[tmp[p]], Text(c)) = [whole |-> TRUE, lines |-> <<c>>]
      <4>1. Text(c) = [whole |-> TRUE, lines |-> <<c>>]
        BY DEF Text
      <4>2. Len(data[tmp[p]].lines) = 0 /\ Len(Text(c).lines) = 1
        BY <1>3, <4>1 DEF Empty
      <4> QED BY <4>1, <4>2 DEF Overlaid
    <3>3. data'[tmp[p]] = [whole |-> TRUE, lines |-> <<c>>]
      BY <3>1, <3>2, <1>0, <1>3 DEF TypeOK
    <3> QED BY <2>2, <3>3, <1>1, <1>3 DEF Lone
  <2> QED BY <1>1, <2>1, <2>2
<1>9. \A j \in Inodes : Of(j) # p => data'[j] = data[j]
  BY <1>3, <1>4
<1> QED BY <1>1, <1>5, <1>6, <1>7, <1>8, <1>9, HereGood

\* The lines of a text with one more.
LEMMA AppendLines ==
    ASSUME NEW S, NEW l \in Seq(S), NEW x \in S
    PROVE  {Append(l, x)[i] : i \in DOMAIN Append(l, x)} = {l[i] : i \in DOMAIN l} \union {x}
<1> DEFINE m == Append(l, x)
           n == Len(l)
<1>1. n \in Nat /\ DOMAIN l = 1 .. n /\ DOMAIN m = 1 .. n + 1
  OBVIOUS
<1>2. (\A i \in 1 .. n : m[i] = l[i]) /\ m[n + 1] = x
  OBVIOUS
<1> HIDE DEF m, n
<1>3. \A i \in 1 .. n + 1 : i \in 1 .. n \/ i = n + 1
  BY <1>1
<1>4. n + 1 \in 1 .. n + 1 /\ 1 .. n \subseteq 1 .. n + 1
  BY <1>1
<1>5. {m[i] : i \in DOMAIN m} = {l[i] : i \in DOMAIN l} \union {x}
  BY <1>1, <1>2, <1>3, <1>4
<1> QED BY <1>5 DEF m

\* A file_edit writes the text it has, or fails to.
LEMMA EditFillGood ==
    ASSUME TypeInv, TypeInv', Good, path' = path, \A d \in Calls : Lasting(d),
           NEW c \in Calls, Fill(c) \/ FillFails(c), tool[c] = "file_edit"
    PROVE  Good'
<1> DEFINE p == path[c]
           i == file[p]
<1>0. TypeOK /\ Fits(c) /\ Fits(c)' /\ p \in Paths
  BY DEF TypeInv, TypeOK
<1>1. /\ step[c] = "fill" /\ step'[c] \in {"edited", "done"}
      /\ \A d \in Calls : d # c => step'[d] = step[d] /\ answer'[d] = answer[d]
      /\ UNCHANGED <<tool, fd, got, child, file, tmp, renamed, replaced>>
      /\ Fill(c) \/ (FillFails(c) /\ step'[c] = "done" /\ answer'[c] = "err")
  <2>1. CASE Fill(c)
    BY <2>1, <1>0 DEF Fill, Go, Return, TypeOK, arguments, local
  <2>2. CASE FillFails(c)
    BY <2>2, <1>0 DEF FillFails, Go, Return, TypeOK, arguments, local
  <2> QED BY <2>1, <2>2
<1>2. Lone(c) /\ Owned(p)
  BY <1>0 DEF Good
<1>3. /\ fd[c] = i /\ i # NoFile /\ i \in Inodes /\ Of(i) = p
      /\ data[i].lines # <<>> => LeftBehind(p)
      /\ \A d \in InFile(p) : Written(d)
      /\ ~got[c].whole => Marred(p)
      /\ Complete(p, LinesOf(got[c]), Marred(p))
  BY <1>0, <1>1, <1>2 DEF Lone, Owned, TypeOK
<1>4. InFlight(c) /\ tool[c] \in Writers /\ ~Unopened(c)'
  BY <1>0, <1>1 DEF InFlight, Writers, Unopened, Fits
<1>5. Owned(p)'
  BY <1>1, <1>2 DEF Owned, Of
<1>6. /\ Marred(p) => Marred(p)'
      /\ LeftBehind(p) => LeftBehind(p)'
      /\ \A d \in Calls : Written(d) => Written(d)'
      /\ Marred(p)' => EditedBadly(p)'
  BY <1>0, Lasted DEF Marred, EditedBadly
<1>7. InFile(p) = LinesOf(data[i]) /\ InFile(p)' = LinesOf(data'[i]) /\ InFile(p) \subseteq Calls
  BY <1>0, <1>1, <1>3 DEF InFile, LinesOf, TypeOK, Texts
<1>8. Safe(p)'
  <2>1. CASE FillFails(c) /\ step'[c] = "done" /\ answer'[c] = "err"
    <3>1. EditedBadly(p)'
      BY <2>1, <1>1 DEF EditedBadly
    <3>2. data'[i].lines = data[i].lines
      BY <2>1, <1>0, <1>3 DEF FillFails, TypeOK, Texts
    <3>3. InFile(p)' = InFile(p)
      BY <3>2, <1>7 DEF LinesOf
    <3> QED BY <3>1, <3>3, <1>3, <1>6, <1>7 DEF Safe, Complete
  <2>2. CASE Fill(c)
    <3> DEFINE new == Text(c)
    <3>1. new = [whole |-> got[c].whole, lines |-> Append(got[c].lines, c)]
      BY DEF Text
    <3>2. LinesOf(new) = LinesOf(got[c]) \union {c}
      <4> DEFINE l == got[c].lines
      <4>1. l \in Seq(Calls)
        BY <1>0 DEF TypeOK, Texts
      <4>2. LinesOf(new) = {Append(l, c)[j] : j \in DOMAIN Append(l, c)}
        BY <3>1 DEF LinesOf
      <4>3. LinesOf(got[c]) = {l[j] : j \in DOMAIN l}
        BY DEF LinesOf
      <4> HIDE DEF l
      <4>4. {Append(l, c)[j] : j \in DOMAIN Append(l, c)} = {l[j] : j \in DOMAIN l} \union {c}
        BY <4>1, AppendLines
      <4> QED BY <4>2, <4>3, <4>4
    <3> HIDE DEF new
    <3>3. data'[i] = Overlaid(data[i], new)
      BY <2>2, <1>0, <1>3 DEF Fill, TypeOK, new
    <3>4. CASE Len(data[i].lines) > Len(new.lines)
      <4>1. data[i].lines # <<>>
        <5>1. Len(new.lines) \in Nat
          BY <1>0, TextIsText DEF Texts, new
        <5>2. Len(<<>>) = 0
          OBVIOUS
        <5> QED BY <3>4, <5>1, <5>2
      <4>2. EditedBadly(p)'
        BY <4>1, <1>1, <1>3, <1>6 DEF EditedBadly
      <4>3. data'[i].lines = data[i].lines
        BY <3>3, <3>4 DEF Overlaid
      <4>4. InFile(p)' = InFile(p)
        BY <4>3, <1>7 DEF LinesOf
      <4> QED BY <4>2, <4>4, <1>3, <1>6, <1>7 DEF Safe, Complete
    <3>5. CASE ~(Len(data[i].lines) > Len(new.lines))
      <4>1. data'[i] = new
        BY <3>3, <3>5 DEF Overlaid
      <4>2. Torn(p)' => EditedBadly(p)'
        BY <4>1, <3>1, <1>1, <1>3, <1>6 DEF Torn
      <4>3. InFile(p)' = LinesOf(got[c]) \union {c}
        BY <4>1, <3>2, <1>7
      <4>4. Written(c)' /\ LinesOf(got[c]) \subseteq Calls
        BY <1>0, <1>1 DEF Written, LinesOf, TypeOK, Texts
      <4>5. \A d \in Calls : d # c => (Due(d)' => Due(d))
        BY <1>1 DEF Due
      <4>6. Complete(p, InFile(p), EditedBadly(p))'
        BY <4>3, <4>4, <4>5, <1>1, <1>3, <1>6 DEF Complete
      <4> QED BY <4>2, <4>6 DEF Safe
    <3> QED BY <3>4, <3>5
  <2> QED BY <1>1, <2>1, <2>2
<1>9. Lone(c)'
  BY <1>1 DEF Lone
<1>10. \A j \in Inodes : Of(j) # p => data'[j] = data[j]
  BY <1>0, <1>3 DEF Fill, FillFails, TypeOK
<1> QED BY <1>1, <1>4, <1>5, <1>8, <1>9, <1>10, HereGood

\* What the temporary name leads to is the call's own whole text.
LEMMA RenameGood ==
    ASSUME TypeInv, TypeInv', Good, path' = path, \A d \in Calls : Lasting(d),
           NEW c \in Calls, Rename(c)
    PROVE  Good'
<1> DEFINE p == path[c]
<1>0. TypeOK /\ Fits(c) /\ Fits(c)' /\ p \in Paths
  BY DEF TypeInv, TypeOK
<1>1. /\ step[c] = "rename" /\ step'[c] = "renamed" /\ tool[c] = "file_write"
      /\ \A d \in Calls : d # c => step'[d] = step[d]
      /\ UNCHANGED <<tool, fd, got, answer, child, data>>
      /\ renamed' = renamed \union {c}
      /\ file'[p] = tmp[p] /\ tmp'[p] = NoFile
      /\ \A q \in Paths : q # p => file'[q] = file[q] /\ tmp'[q] = tmp[q]
      /\ replaced' = replaced \union (InFile(p) \ LinesOf(data[tmp[p]]))
  BY <1>0 DEF Rename, ReplaceFile, Go, Return, TypeOK, arguments, local, Fits
<1>2. /\ tmp[p] # NoFile /\ data[tmp[p]] = [whole |-> TRUE, lines |-> <<c>>]
      /\ Of(tmp[p]) = p
  BY <1>0, <1>1 DEF Good, Lone, Owned
<1>3. InFlight(c) /\ tool[c] \in Writers /\ ~Unopened(c)'
  BY <1>0, <1>1 DEF InFlight, Writers, Unopened, Fits
<1>4. Owned(p)'
  BY <1>1, <1>2 DEF Owned, Of
<1>5. Safe(p)'
  <2>1. ~Torn(p)'
    BY <1>1, <1>2 DEF Torn
  <2>2. InFile(p)' = {c} /\ LinesOf(data[tmp[p]]) = {c}
    BY <1>1, <1>2 DEF InFile, LinesOf
  <2>3. Written(c)'
    BY <1>1 DEF Written
  <2>4. EditedBadly(p) => EditedBadly(p)'
    <3>1. EditedBadly(p) => Marred(p)
      BY <1>1, <1>3, MarredHere DEF Good
    <3> QED BY <3>1, <1>0, Lasted DEF Marred, EditedBadly
  <2>5. \A d \in Calls : d # c => (Due(d)' => Due(d))
    BY <1>1 DEF Due
  <2>6. Safe(p)
    BY <1>0 DEF Good
  <2>7. Complete(p, InFile(p), EditedBadly(p))'
    BY <2>2, <2>3, <2>4, <2>5, <2>6, <1>1 DEF Safe, Complete
  <2> QED BY <2>1, <2>7 DEF Safe
<1>6. Lone(c)'
  BY <1>1 DEF Lone
<1> QED BY <1>0, <1>1, <1>3, <1>4, <1>5, <1>6, HereGood

\* A file_write gives its temporary sibling up.
LEMMA UnlinkGood ==
    ASSUME TypeInv, TypeInv', Good, path' = path, \A d \in Calls : Lasting(d),
           NEW c \in Calls, Unlink(c)
    PROVE  Good'
<1> DEFINE p == path[c]
<1>0. TypeOK /\ Fits(c) /\ Fits(c)' /\ p \in Paths
  BY DEF TypeInv, TypeOK
<1>1. /\ step[c] = "unlink" /\ step'[c] = "unlinked" /\ tool[c] = "file_write"
      /\ \A d \in Calls : d # c => step'[d] = step[d]
      /\ UNCHANGED <<tool, fd, got, answer, child, data, file, renamed, replaced>>
      /\ tmp'[p] = NoFile /\ \A q \in Paths : q # p => tmp'[q] = tmp[q]
  BY <1>0 DEF Unlink, Go, Return, TypeOK, arguments, local, Fits
<1>2. InFlight(c) /\ tool[c] \in Writers /\ ~Unopened(c)'
  BY <1>0, <1>1 DEF InFlight, Writers, Unopened, Fits
<1>3. Owned(p)'
  BY <1>0, <1>1 DEF Good, Owned, Of
<1>4. Safe(p)'
  BY <1>1, <1>2, SafeKept
<1>5. Lone(c)'
  BY <1>1 DEF Lone
<1> QED BY <1>0, <1>1, <1>2, <1>3, <1>4, <1>5, HereGood

\* A command that meets another writer in flight is one left behind.
LEMMA ChildWritesGood ==
    ASSUME TypeInv, TypeInv', Good, path' = path, \A d \in Calls : Lasting(d),
           NEW c \in Calls, ChildWrites(c)
    PROVE  Good'
<1> DEFINE p == path[c]
           i == Opened(file, c)
<1>0. TypeOK /\ Fits(c) /\ p \in Paths
  BY DEF TypeInv, TypeOK
<1>1. /\ UNCHANGED <<step, tool, fd, got, answer, tmp, renamed, replaced>>
      /\ child[c] = "running" /\ child'[c] = "wrote"
      /\ \A d \in Calls : d # c => child'[d] = child[d]
      /\ tool[c] = "bash"
  BY <1>0 DEF ChildWrites, TypeOK, Fits, arguments, local
<1>2. /\ i \in Inodes /\ Of(i) = p /\ i # NoFile /\ i # tmp[p] /\ i \in {file[p], c}
      /\ file[p] # NoFile => i = file[p]
  BY <1>1, OpenedIs DEF Unopened, Opened
<1> HIDE DEF i
<1>3. /\ file'[p] = i /\ \A q \in Paths : q # p => file'[q] = file[q]
      /\ \A j \in Inodes : j # i => data'[j] = data[j]
      /\ file[p] = NoFile => data'[i] = [whole |-> TRUE, lines |-> <<c>>]
      /\ file[p] # NoFile => data'[i] = [whole |-> data[i].whole,
                                         lines |-> Append(data[i].lines, c)]
  <2>1. /\ file' = [file EXCEPT ![p] = i]
        /\ data' = [data EXCEPT ![i] = IF file[p] = NoFile
                                       THEN [whole |-> TRUE, lines |-> <<c>>]
                                       ELSE [whole |-> data[i].whole,
                                             lines |-> Append(data[i].lines, c)]]
    BY DEF ChildWrites, i
  <2> QED BY <2>1, <1>0, <1>2 DEF TypeOK
<1>4. /\ Marred(p) => Marred(p)'
      /\ LeftBehind(p) => LeftBehind(p)'
      /\ \A d \in Calls : Written(d) => Written(d)'
  BY <1>0, Lasted
<1>5. InFile(p)' = InFile(p) \union {c} /\ InFile(p) \subseteq Calls
  <2>1. InFile(p)' = LinesOf(data'[i])
    BY <1>2, <1>3 DEF InFile, LinesOf
  <2>2. CASE file[p] = NoFile
    BY <2>1, <2>2, <1>3 DEF InFile, LinesOf
  <2>3. CASE file[p] # NoFile
    <3>1. data[i].lines \in Seq(Calls)
      BY <1>0, <1>2 DEF TypeOK, Texts
    <3>2. LinesOf(data'[i]) = LinesOf(data[i]) \union {c}
      <4> DEFINE l == data[i].lines
      <4>1. LinesOf(data'[i]) = {Append(l, c)[j] : j \in DOMAIN Append(l, c)}
        <5>1. data'[i].lines = Append(l, c)
          BY <2>3, <1>3
        <5> HIDE DEF l
        <5> QED BY <5>1 DEF LinesOf
      <4>2. LinesOf(data[i]) = {l[j] : j \in DOMAIN l}
        BY DEF LinesOf
      <4> HIDE DEF l
      <4>3. {Append(l, c)[j] : j \in DOMAIN Append(l, c)} = {l[j] : j \in DOMAIN l} \union {c}
        <5>1. l \in Seq(Calls)
          BY <3>1 DEF l
        <5> QED BY <5>1, AppendLines
      <4> QED BY <4>1, <4>2, <4>3
    <3>3. InFile(p) = LinesOf(data[i])
      BY <2>3, <1>2 DEF InFile
    <3>4. LinesOf(data[i]) \subseteq Calls
      BY <3>1 DEF LinesOf
    <3> QED BY <2>1, <3>2, <3>3, <3>4
  <2> QED BY <2>2, <2>3
<1>6. Written(c)' /\ \A d \in Calls : d # c => (Due(d)' => Due(d))
  BY <1>1 DEF Written, Due
<1>7. Apart(p)
  BY <1>1, <1>2, <1>3 DEF Apart
<1>8. Owned(p)'
  BY <1>0, <1>1, <1>2, <1>3 DEF Good, Owned, Of
<1>9. Safe(p)'
  <2>1. Safe(p)
    BY <1>0 DEF Good
  <2>2. EditedBadly(p) => EditedBadly(p)'
    <3>1. SUFFICES ASSUME NEW d \in Calls, tool[d] = "file_edit", path[d] = p,
                          step[d] = "fill"
                   PROVE  EditedBadly(p)'
      BY <1>4 DEF EditedBadly, Marred
    <3> QED BY <3>1, <1>1 DEF EditedBadly
  <2>3. Torn(p)' => Torn(p)
    BY <1>2, <1>3 DEF Torn
  <2>4. Complete(p, InFile(p), EditedBadly(p))'
    BY <2>1, <2>2, <1>1, <1>4, <1>5, <1>6 DEF Safe, Complete
  <2> QED BY <2>1, <2>2, <2>3, <2>4 DEF Safe
<1>10. ASSUME NEW d \in Calls, path[d] = p PROVE Lone(d)'
  <2>1. Lone(d) /\ Fits(d)
    BY DEF Good, TypeInv
  <2>2. CASE step[d] \notin {"fill", "rename", "truncate"}
    BY <2>2, <1>1 DEF Lone
  <2>3. CASE step[d] \in {"fill", "rename", "truncate"}
    <3>1. InFlight(d) /\ tool[d] \in Writers /\ d # c
      BY <2>1, <2>3, <1>1 DEF InFlight, Fits, Writers
    <3>2. ~InFlight(c)
      BY <3>1, <1>10, <1>1 DEF Good, Alone, Writers
    <3>3. step[c] = "lost" \/ (step[c] = "done" /\ answer[c] = "err")
      <4>1. answer[c] \in {"none", "ok", "cut", "err"} /\ step[c] \in {"running", "done", "lost"}
        BY <1>0, <1>1 DEF TypeOK, Fits
      <4> QED BY <4>1, <3>2, <1>0, <1>1 DEF InFlight, Fits
    <3>4. LeftBehind(p)'
      BY <3>3, <1>1 DEF LeftBehind
    <3>5. tool[d] = "file_edit" => Marred(p)'
      BY <3>4, <1>10, <1>1 DEF Marred
    <3>6. tmp[p] # NoFile => data'[tmp[p]] = data[tmp[p]]
      BY <1>0, <1>2, <1>3 DEF TypeOK
    <3>7. step[d] = "fill" /\ tool[d] = "file_edit" =>
            /\ fd'[d] = file'[p] /\ file'[p] # NoFile /\ ~data'[file'[p]].whole
            /\ \A e \in InFile(p)' : Written(e)'
      BY <2>1, <1>1, <1>2, <1>3, <1>4, <1>5, <1>6, <1>10 DEF Lone
    <3>8. step[d] \in {"truncate", "fill"} /\ tool[d] = "file_edit" =>
            Complete(p, LinesOf(got[d]), Marred(p))'
      <4>1. LinesOf(got[d])' = LinesOf(got[d]) /\ LinesOf(got[d]) \subseteq Calls
        BY <1>0, <1>1 DEF LinesOf, TypeOK, Texts
      <4> QED BY <2>1, <3>5, <4>1, <1>4, <1>10 DEF Lone, Complete
    <3> QED BY <2>1, <3>4, <3>5, <3>6, <3>7, <3>8, <1>1, <1>10 DEF Lone
  <2> QED BY <2>2, <2>3
<1>11. ASSUME NEW d \in Calls PROVE Fresh(d)'
  <2>1. ~Unopened(c)'
    BY <1>0, <1>1 DEF Unopened, Fits
  <2>2. \A e \in Calls : e # c => (Unopened(e)' => Unopened(e))
    BY <1>1 DEF Unopened
  <2>3. \A q \in Paths : /\ file'[q] \in {file[q], tmp[q], c, NoFile}
                         /\ tmp'[q] \in {tmp[q], c, NoFile}
    BY <1>1, <1>2, <1>3
  <2> QED BY <2>1, <2>2, <2>3, FreshKept
<1>12. Alone'
  BY <1>1, StillAlone DEF Good, InFlight
<1>13. \A d \in Calls : Lone(d)'
  BY <1>0, <1>7, <1>10, Elsewhere
<1>14. \A q \in Paths : Owned(q)' /\ Safe(q)'
  BY <1>0, <1>7, <1>8, <1>9, Elsewhere
<1> QED BY <1>11, <1>12, <1>13, <1>14 DEF Good

-----------------------------------------------------------------------------
(* The theorems.                                                            *)

\* While writers do not overlap: inodes are owned by one path and one name, a
\* writer is alone with its file, and a file whole holds what it should.
THEOREM GoodHolds == Spec => []GoodInv
<1>1. Init => GoodInv
  <2> SUFFICES ASSUME Init PROVE Good
    BY DEF GoodInv
  <2>1. \A c \in Calls : /\ step[c] = "idle" /\ tool[c] = "bash" /\ answer[c] = "none"
                         /\ child[c] = "none" /\ c \notin renamed
    BY DEF Init
  <2>2. \A p \in Paths : /\ file[p] = p \/ file[p] = NoFile
                         /\ tmp[p] = NoFile /\ p # NoFile /\ p \notin Calls
                         /\ p \in Inodes /\ data[p] = [whole |-> TRUE, lines |-> <<>>]
    BY ToolsAssumption DEF Init, Inodes
  <2>3. Alone
    BY <2>1 DEF Alone, InFlight
  <2>4. ASSUME NEW p \in Paths PROVE Owned(p) /\ Safe(p)
    <3>1. InFile(p) = {} /\ ~Torn(p)
      BY <2>2 DEF InFile, LinesOf, Torn
    <3> QED BY <3>1, <2>1, <2>2 DEF Owned, Of, Safe, Complete, Due
  <2>5. ASSUME NEW c \in Calls PROVE Fresh(c) /\ Lone(c)
    <3>1. c # NoFile
      BY ToolsAssumption
    <3> QED BY <3>1, <2>1, <2>2 DEF Fresh, Lone
  <2> QED BY <2>3, <2>4, <2>5 DEF Good
<1>2. TypeInv /\ TypeInv' /\ GoodInv /\ [Next]_vars => GoodInv'
  <2> SUFFICES ASSUME TypeInv, TypeInv', GoodInv, [Next]_vars, ~Overlap' PROVE Good'
    BY DEF GoodInv
  <2>1. path' = path /\ given' = given /\ \A d \in Calls : Lasting(d)
    BY Lasts
  <2>2. ~Overlap /\ Good
    BY <2>1 DEF Overlap, GoodInv
  <2>3. ASSUME NEW c \in Calls, NEW t \in Tools, Invoke(c, t) PROVE Good'
    BY <2>1, <2>2, <2>3, InvokeGood
  <2>4. ASSUME NEW c \in Calls, Run(c) \/ Refuse(c) PROVE Good'
    <3>0. TypeOK
      BY DEF TypeInv
    <3>1. \/ Quiet(c)
          \/ WriteOpen(c) \/ EditOpen(c) \/ Rename(c) \/ Unlink(c) \/ EditRead(c)
          \/ Fill(c) \/ FillFails(c)
          \/ ReadLoad(c) \/ ReadPanics(c) \/ Spawn(c) \/ GrepEntry(c) \/ GlobEntry(c)
      BY <3>0, <2>4, QuietSteps DEF Run, Write, Edit, Put, Read, Bash, Search
    <3>2. CASE Quiet(c)
      BY <2>1, <2>2, <3>2, QuietGood
    <3>3. CASE WriteOpen(c) \/ EditOpen(c) \/ Rename(c) \/ Unlink(c)
      BY <2>1, <2>2, <3>3, WriteOpenGood, EditOpenGood, RenameGood, UnlinkGood
    <3>4. CASE Fill(c) \/ FillFails(c)
      <4>1. tool[c] \in {"file_write", "file_edit"}
        <5>1. Fits(c) /\ step[c] = "fill"
          BY <3>4 DEF TypeInv, Fill, FillFails, Go, Return
        <5> QED BY <5>1 DEF Fits
      <4> QED BY <2>1, <2>2, <3>4, <4>1, WriteFillGood, EditFillGood
    <3>5. CASE ReadLoad(c) \/ ReadPanics(c) \/ Spawn(c) \/ GrepEntry(c) \/ GlobEntry(c)
      BY <2>1, <2>2, <3>5, LocalGood
    <3>6. CASE EditRead(c)
      BY <2>1, <2>2, <3>6, EditReadGood
    <3> QED BY <3>1, <3>2, <3>3, <3>4, <3>5, <3>6
  <2>5. ASSUME NEW c \in Calls, ChildWrites(c) PROVE Good'
    BY <2>1, <2>2, <2>5, ChildWritesGood
  <2>6. ASSUME NEW c \in Calls, ChildFails(c) PROVE Good'
    BY <2>1, <2>2, <2>6, LocalGood
  <2>7. CASE Crash \/ UNCHANGED vars
    BY <2>1, <2>2, <2>7, CrashGood
  <2> QED BY <2>3, <2>4, <2>5, <2>6, <2>7 DEF Next
<1> QED BY <1>1, <1>2, TypeInvHolds, PTL DEF Spec

\* For any calls on any files, with faults, timeouts and any number of deaths
\* of the process: a file_write publishes its text whole or not at all, and a
\* torn file was torn by an edit, unless two calls write one file at once.
THEOREM TornByEditOnlyHolds == Spec => []TornByEditOnly
<1>1. GoodInv => TornByEditOnly
  BY DEF GoodInv, Good, Safe, TornByEditOnly
<1> QED BY <1>1, GoodHolds, PTL

\* And then a write that was said to be done is in its file or was replaced by
\* a file_write, and one that was said to have failed is not in it.
THEOREM AnswersAreTrueHolds == Spec => []AnswersAreTrue
<1>1. TypeInv /\ GoodInv => AnswersAreTrue
  <2> SUFFICES ASSUME TypeInv, Good, NEW c \in Calls
               PROVE  /\ answer[c] = "ok" /\ tool[c] \in Writers
                            => \/ c \in InFile(path[c]) \union replaced
                               \/ EditedBadly(path[c])
                      /\ answer[c] = "err" /\ tool[c] = "file_write"
                            => c \notin InFile(path[c])
    BY DEF GoodInv, AnswersAreTrue
  <2>1. Fits(c) /\ path[c] \in Paths
    BY DEF TypeInv, TypeOK
  <2>2. Complete(path[c], InFile(path[c]), EditedBadly(path[c]))
    BY <2>1 DEF Good, Safe
  <2>3. answer[c] = "ok" /\ tool[c] \in Writers => Due(c)
    BY <2>1 DEF Due, Writers, Fits
  <2>4. answer[c] = "err" /\ tool[c] = "file_write" => ~Written(c)
    BY <2>1 DEF Written, Fits
  <2> QED BY <2>2, <2>3, <2>4 DEF Complete
<1> QED BY <1>1, TypeInvHolds, GoodHolds, PTL

-----------------------------------------------------------------------------
(* What a search finds.                                                     *)

Seen(s)   == {s[i] : i \in DOMAIN s}
EntryOf(p) == [path |-> p, temp |-> FALSE]

\* FindsWhatStays is about searches that run beside these calls only.
Undisturbed == ~Overlap /\ ~Faults /\ "file_edit" \notin given.tools

\* A line that was in a file when the search began, and is in one it has been
\* to, is in what it has found, or a limit has been met.
Sought(c) ==
    tool[c] = "grep" /\ step[c] = "walk" =>
        /\ \A x \in there[c] : Written(x)
        /\ \A p \in Paths : EntryOf(p) \notin left[c] =>
              \A x \in InFile(p) \intersect there[c] :
                  \/ x \in Seen(found[c])
                  \/ Len(found[c]) >= MaxMatches
                  \/ Len(data[file[p]].lines) > MaxLines

SearchInv == Undisturbed => \A c \in Calls : tool[c] # "file_edit" /\ Sought(c)

\* The files and the searches are as they were.
LEMMA SoughtKept ==
    ASSUME TypeInv, TypeInv', NEW c \in Calls, Sought(c), path' = path,
           \A d \in Calls : Lasting(d),
           step'[c] = "walk" => step[c] = "walk",
           \A p \in Paths : InFile(p)' \intersect there[c] # {} =>
               /\ InFile(p)' \intersect there[c] \subseteq InFile(p)
               /\ Len(data'[file'[p]].lines) >= Len(data[file[p]].lines),
           tool[c] = "grep" => found'[c] = found[c] /\ left'[c] = left[c],
           there'[c] = there[c]
    PROVE  Sought(c)'
<1> SUFFICES ASSUME tool'[c] = "grep", step'[c] = "walk" PROVE Sought(c)'
  BY DEF Sought
<1>1. step[c] = "walk" /\ tool[c] = "grep" /\ found'[c] = found[c] /\ left'[c] = left[c]
  BY DEF Lasting
<1>2. \A x \in there[c] : Written(x)'
  <2>1. there[c] \subseteq Calls
    BY DEF TypeInv, TypeOK
  <2> QED BY <1>1, <2>1, Lasted DEF Sought
<1>3. ASSUME NEW p \in Paths, EntryOf(p) \notin left[c],
             NEW x \in InFile(p)' \intersect there[c]
      PROVE  \/ x \in Seen(found[c])
             \/ Len(found[c]) >= MaxMatches
             \/ Len(data'[file'[p]].lines) > MaxLines
  <2>1. x \in InFile(p) /\ Len(data'[file'[p]].lines) >= Len(data[file[p]].lines)
    BY <1>3
  <2>2. CASE Len(data[file[p]].lines) > MaxLines
    <3>1. file[p] # NoFile /\ file'[p] # NoFile
      BY <1>3, <2>1 DEF InFile
    <3>2. Len(data[file[p]].lines) \in Nat
      BY <3>1 DEF TypeInv, TypeOK, Texts
    <3>3. Len(data'[file'[p]].lines) \in Nat
      BY <3>1 DEF TypeInv, TypeOK, Texts
    <3>4. \A a, b, m \in Nat : a >= b /\ b > m => a > m
      OBVIOUS
    <3> QED BY <2>1, <2>2, <3>2, <3>3, <3>4, ToolsAssumption
  <2> QED BY <1>1, <1>3, <2>1, <2>2 DEF Sought
<1> QED BY <1>1, <1>2, <1>3 DEF Sought, Seen, EntryOf

\* What a file gets to show is the line of the call that acts, which no
\* search that began before can look for.
LEMMA FilesGrow ==
    ASSUME TypeInv, Good, path' = path, NEW a \in Calls,
           \/ WriteOpen(a) \/ (Fill(a) /\ tool[a] = "file_write") \/ Unlink(a)
           \/ Rename(a) \/ ChildWrites(a)
    PROVE  /\ ~Written(a)
           /\ \A p \in Paths : InFile(p)' \subseteq InFile(p) \union {a}
           /\ \A p \in Paths : \/ InFile(p)' \subseteq {a}
                               \/ Len(data'[file'[p]].lines) >= Len(data[file[p]].lines)
<1>0. TypeOK /\ Fits(a) /\ path[a] \in Paths
  BY DEF TypeInv, TypeOK
<1>1. \A p \in Paths : /\ file[p] # NoFile => Of(file[p]) = p /\ file[p] # tmp[p]
                       /\ file[p] # NoFile => /\ file[p] \in Inodes
                                              /\ data[file[p]].lines \in Seq(Calls)
  BY <1>0 DEF Good, Owned, TypeOK, Texts
<1>2. ASSUME UNCHANGED file, NEW i, Of(i) = path[a], i # file[path[a]],
             \A j \in Inodes : j # i => data'[j] = data[j]
      PROVE  \A p \in Paths : /\ InFile(p)' = InFile(p)
                              /\ InFile(p) = {} \/ Len(data'[file'[p]].lines) >= Len(data[file[p]].lines)
  <2> SUFFICES ASSUME NEW p \in Paths, file[p] # NoFile
               PROVE  InFile(p)' = InFile(p) /\ Len(data'[file'[p]].lines) >= Len(data[file[p]].lines)
    BY <1>2 DEF InFile
  <2>1. file[p] # i
    BY <1>1, <1>2
  <2>2. data'[file[p]] = data[file[p]]
    BY <1>1, <1>2, <2>1
  <2>3. Len(data[file[p]].lines) \in Nat
    BY <1>1
  <2> QED BY <1>2, <2>2, <2>3 DEF InFile, LinesOf
<1>8. ~Written(a)
  <2>1. \/ tool[a] = "file_write" /\ step[a] \in {"open", "fill", "rename", "unlink"}
        \/ child[a] = "running" /\ tool[a] = "bash"
    BY <1>0 DEF WriteOpen, Fill, Unlink, Rename, ReplaceFile, Return, Go, ChildWrites, Fits
  <2> QED BY <1>0, <2>1 DEF Written, Fits
<1>3. CASE WriteOpen(a)
  <2>1. Unopened(a)
    BY <1>3 DEF WriteOpen, Go, Unopened
  <2>2. Of(Opened(tmp, a)) = path[a] /\ Opened(tmp, a) # file[path[a]]
    BY <2>1, OpenedIs
  <2>3. UNCHANGED file /\ \A j \in Inodes : j # Opened(tmp, a) => data'[j] = data[j]
    BY <1>0, <1>3 DEF WriteOpen, TypeOK
  <2> QED BY <1>2, <1>8, <2>2, <2>3
<1>4. CASE Fill(a) /\ tool[a] = "file_write"
  <2>1. /\ step[a] = "fill" /\ UNCHANGED file
        /\ \A j \in Inodes : j # fd[a] => data'[j] = data[j]
    BY <1>0, <1>4 DEF Fill, Go, TypeOK
  <2>2. fd[a] = tmp[path[a]] /\ tmp[path[a]] # NoFile
    BY <1>4, <2>1 DEF Good, Lone
  <2>3. Of(tmp[path[a]]) = path[a] /\ tmp[path[a]] # file[path[a]]
    BY <1>0, <2>2 DEF Good, Owned
  <2> QED BY <1>2, <1>8, <2>1, <2>2, <2>3
<1>5. CASE Unlink(a)
  <2>1. UNCHANGED <<file, data>>
    BY <1>5 DEF Unlink
  <2>2. \A p \in Paths : InFile(p)' = InFile(p)
    BY <2>1 DEF InFile, LinesOf
  <2>3. ASSUME NEW p \in Paths, file[p] # NoFile
        PROVE  Len(data'[file'[p]].lines) >= Len(data[file[p]].lines)
    <3>1. Len(data[file[p]].lines) \in Nat
      BY <1>1, <2>3
    <3> QED BY <2>1, <3>1
  <2>4. \A p \in Paths : file[p] = NoFile => InFile(p) = {}
    BY DEF InFile
  <2> QED BY <1>8, <2>2, <2>3, <2>4
<1>6. CASE Rename(a)
  <2> DEFINE q == path[a]
  <2>1. /\ step[a] = "rename" /\ UNCHANGED data
        /\ file'[q] = tmp[q] /\ \A p \in Paths : p # q => file'[p] = file[p]
    BY <1>0, <1>6 DEF Rename, ReplaceFile, Return, Go, TypeOK
  <2>3. InFile(q)' = {a}
    <3>1. tmp[q] # NoFile /\ data[tmp[q]] = [whole |-> TRUE, lines |-> <<a>>]
      BY <2>1 DEF Good, Lone
    <3> QED BY <2>1, <3>1 DEF InFile, LinesOf
  <2>4. ASSUME NEW p \in Paths, p # q
        PROVE  /\ InFile(p)' = InFile(p)
               /\ InFile(p) = {} \/ Len(data'[file'[p]].lines) >= Len(data[file[p]].lines)
    <3>1. InFile(p)' = InFile(p) /\ file'[p] = file[p]
      BY <2>1, <2>4 DEF InFile, LinesOf
    <3>2. file[p] # NoFile => Len(data[file[p]].lines) \in Nat
      BY <1>1
    <3> QED BY <2>1, <3>1, <3>2 DEF InFile
  <2>5. ASSUME NEW p \in Paths
        PROVE  /\ InFile(p)' \subseteq InFile(p) \union {a}
               /\ \/ InFile(p)' \subseteq {a}
                  \/ Len(data'[file'[p]].lines) >= Len(data[file[p]].lines)
    <3>1. CASE p = q
      BY <2>3, <3>1
    <3>2. CASE p # q
      BY <2>4, <3>2
    <3> QED BY <3>1, <3>2
  <2> QED BY <1>8, <2>5
<1>7. CASE ChildWrites(a)
  <2> DEFINE q == path[a]
             i == Opened(file, a)
  <2>2. /\ i \in Inodes /\ Of(i) = q /\ i # NoFile
        /\ file[q] # NoFile => i = file[q]
    BY <1>7, OpenedIs DEF ChildWrites, Unopened, Opened
  <2> HIDE DEF i
  <2>3. /\ file'[q] = i /\ \A p \in Paths : p # q => file'[p] = file[p]
        /\ \A j \in Inodes : j # i => data'[j] = data[j]
        /\ file[q] = NoFile => data'[i].lines = <<a>>
        /\ file[q] # NoFile => data'[i].lines = Append(data[i].lines, a)
    <3>1. /\ file' = [file EXCEPT ![q] = i]
          /\ data' = [data EXCEPT ![i] = IF file[q] = NoFile
                                         THEN [whole |-> TRUE, lines |-> <<a>>]
                                         ELSE [whole |-> data[i].whole,
                                               lines |-> Append(data[i].lines, a)]]
      BY <1>7 DEF ChildWrites, i
    <3> QED BY <3>1, <1>0, <2>2 DEF TypeOK
  <2>4. ASSUME NEW p \in Paths, p # q
        PROVE  /\ InFile(p)' = InFile(p)
               /\ InFile(p) = {} \/ Len(data'[file'[p]].lines) >= Len(data[file[p]].lines)
    <3>1. CASE file[p] = NoFile
      BY <2>3, <2>4, <3>1 DEF InFile
    <3>2. CASE file[p] # NoFile
      <4>1. file[p] # i /\ file'[p] = file[p]
        BY <1>1, <2>2, <2>3, <2>4, <3>2
      <4>2. data'[file[p]] = data[file[p]] /\ Len(data[file[p]].lines) \in Nat
        BY <1>1, <2>3, <3>2, <4>1
      <4> QED BY <4>1, <4>2 DEF InFile, LinesOf
    <3> QED BY <3>1, <3>2
  <2>5. /\ InFile(q)' \subseteq InFile(q) \union {a}
        /\ \/ InFile(q)' \subseteq {a}
           \/ Len(data'[file'[q]].lines) >= Len(data[file[q]].lines)
    <3>1. CASE file[q] = NoFile
      <4>1. file'[q] # NoFile /\ data'[file'[q]].lines = <<a>>
        BY <2>2, <2>3, <3>1
      <4>2. InFile(q)' = {a}
        BY <4>1 DEF InFile, LinesOf
      <4> QED BY <4>2
    <3>2. CASE file[q] # NoFile
      <4> DEFINE l == data[i].lines
      <4>1. file[q] = i /\ file'[q] = i
        BY <2>2, <2>3, <3>2
      <4>2. l \in Seq(Calls) /\ data'[i].lines = Append(l, a)
        BY <1>0, <1>1, <2>3, <3>2, <4>1
      <4>3. InFile(q) = {l[j] : j \in DOMAIN l}
        BY <3>2, <4>1 DEF InFile, LinesOf
      <4> HIDE DEF l
      <4>4. InFile(q)' = {Append(l, a)[j] : j \in DOMAIN Append(l, a)}
        BY <2>2, <4>1, <4>2 DEF InFile, LinesOf
      <4>5. InFile(q)' = InFile(q) \union {a}
        BY <4>2, <4>3, <4>4, AppendLines
      <4>6. Len(Append(l, a)) >= Len(l)
        BY <4>2
      <4>7. Len(data'[file'[q]].lines) >= Len(data[file[q]].lines)
        BY <4>1, <4>2, <4>6 DEF l
      <4> QED BY <4>5, <4>7
    <3> QED BY <3>1, <3>2
  <2>6. ASSUME NEW p \in Paths
        PROVE  /\ InFile(p)' \subseteq InFile(p) \union {a}
               /\ \/ InFile(p)' \subseteq {a}
                  \/ Len(data'[file'[p]].lines) >= Len(data[file[p]].lines)
    <3>1. CASE p = q
      BY <2>5, <3>1
    <3>2. CASE p # q
      BY <2>4, <3>2
    <3> QED BY <3>1, <3>2
  <2> QED BY <1>8, <2>6
<1> QED BY <1>3, <1>4, <1>5, <1>6, <1>7

\* The one step that moves a search on through the files.
LEMMA GrepEntrySeeks ==
    ASSUME TypeInv, NEW c \in Calls, Sought(c), ~Faults, GrepEntry(c)
    PROVE  Sought(c)'
<1>0. TypeOK
  BY DEF TypeInv
<1>1. /\ tool[c] = "grep" /\ step[c] = "walk" /\ Len(found[c]) < MaxMatches
      /\ UNCHANGED <<step, tool, path, answer, child, renamed, file, tmp, data, there>>
  BY DEF GrepEntry, files, arguments
<1>2. PICK e \in left[c] :
        /\ left' = [left EXCEPT ![c] = left[c] \ {e}]
        /\ found' = [found EXCEPT ![c] =
               IF IsFile(e)
               THEN found[c] \o SubSeq(Matching(e), 1, Least(Room(c), Len(Matching(e))))
               ELSE found[c]]
  BY DEF GrepEntry
<1>3. found[c] \in Seq(Calls \union Paths) /\ left'[c] = left[c] \ {e}
      /\ e \in Entries
  BY <1>0, <1>2 DEF TypeOK
<1>4. CASE ~IsFile(e)
  <2>1. found'[c] = found[c]
    BY <1>0, <1>2, <1>4 DEF TypeOK
  <2>2. ASSUME NEW p \in Paths, EntryOf(p) \notin left'[c], EntryOf(p) \in left[c]
        PROVE  InFile(p) = {}
    <3>1. e = EntryOf(p)
      BY <1>3, <2>2
    <3>2. e # Directory /\ Inode(e) = file[p]
      BY <3>1, ToolsAssumption DEF EntryOf, Directory, Inode
    <3> QED BY <1>4, <3>2 DEF IsFile, InFile
  <2>3. \A x \in there[c] : Written(x)'
    BY <1>1 DEF Sought, Written
  <2>4. ASSUME NEW p \in Paths, EntryOf(p) \notin left'[c],
               NEW x \in InFile(p) \intersect there[c]
        PROVE  \/ x \in Seen(found[c])
               \/ Len(found[c]) >= MaxMatches
               \/ Len(data[file[p]].lines) > MaxLines
    <3>1. EntryOf(p) \notin left[c]
      BY <2>2, <2>4
    <3> QED BY <1>1, <2>4, <3>1 DEF Sought
  <2> QED BY <1>1, <2>1, <2>3, <2>4 DEF Sought, InFile, LinesOf, Seen, EntryOf
<1>5. CASE IsFile(e)
  <2> DEFINE m == Matching(e)
             k == Least(Room(c), Len(m))
             s == SubSeq(m, 1, k)
  <2>1. m \in Seq(Calls)
    <3>1. data[Inode(e)] \in Texts
      BY <1>0, <1>3, <1>5 DEF TypeOK, Entries, Directory, IsFile, Inode
    <3> QED BY <3>1 DEF Matching, Texts
  <2>2. Room(c) \in Nat /\ Room(c) = MaxMatches - Len(found[c])
    BY <1>1, <1>3, ToolsAssumption DEF Room
  <2>3. Len(m) \in Nat
    BY <2>1
  <2>4. k \in Nat /\ k <= Len(m) /\ (k = Room(c) \/ k = Len(m))
    BY <2>2, <2>3 DEF Least
  <2>5. found'[c] = found[c] \o s
    BY <1>0, <1>2, <1>5 DEF TypeOK
  <2> HIDE DEF k, m
  <2>6. s \in Seq(Calls) /\ Len(s) = k /\ \A j \in 1 .. k : s[j] = m[j]
    BY <2>1, <2>4, SubSeqProperties
  <2> HIDE DEF s
  <2>7. /\ Len(found'[c]) = Len(found[c]) + k
        /\ \A j \in 1 .. Len(found[c]) : found'[c][j] = found[c][j]
        /\ \A j \in 1 .. k : found'[c][Len(found[c]) + j] = s[j]
        /\ DOMAIN found'[c] = 1 .. Len(found[c]) + k
        /\ Len(found[c]) \in Nat /\ DOMAIN found[c] = 1 .. Len(found[c])
    <3>1. s \in Seq(Calls \union Paths)
      BY <2>6
    <3>2. \A j \in 1 .. Len(found[c]) + Len(s) : found'[c][j] =
              IF j <= Len(found[c]) THEN found[c][j] ELSE s[j - Len(found[c])]
      BY <1>3, <2>5, <3>1, ConcatProperties
    <3>3. Len(found'[c]) = Len(found[c]) + Len(s) /\ found'[c] \in Seq(Calls \union Paths)
      BY <1>3, <2>5, <3>1, ConcatProperties
    <3>4. Len(found[c]) \in Nat
      BY <1>3
    <3>5. DOMAIN found'[c] = 1 .. Len(found[c]) + k /\ DOMAIN found[c] = 1 .. Len(found[c])
      BY <1>3, <2>6, <3>3
    <3>6. \A j \in 1 .. Len(found[c]) : found'[c][j] = found[c][j]
      BY <2>4, <2>6, <3>2, <3>4
    <3>7. ASSUME NEW j \in 1 .. k PROVE found'[c][Len(found[c]) + j] = s[j]
      <4> DEFINE n == Len(found[c])
      <4>1. n + j \in 1 .. n + k /\ ~(n + j <= n) /\ (n + j) - n = j
        BY <2>4, <3>4
      <4> QED BY <2>6, <3>2, <4>1
    <3> QED BY <2>6, <3>3, <3>4, <3>5, <3>6, <3>7
  <2>8. Seen(found[c]) \subseteq Seen(found'[c]) /\ Seen(s) \subseteq Seen(found'[c])
    <3>1. Seen(found[c]) \subseteq Seen(found'[c])
      BY <2>4, <2>7 DEF Seen
    <3>2. DOMAIN s = 1 .. k
      BY <2>6
    <3>3. \A j \in 1 .. k : Len(found[c]) + j \in DOMAIN found'[c]
      BY <2>4, <2>7
    <3>4. ASSUME NEW j \in 1 .. k PROVE s[j] \in Seen(found'[c])
      BY <2>7, <3>3 DEF Seen
    <3> QED BY <3>1, <3>2, <3>4 DEF Seen
  <2>9. ASSUME NEW p \in Paths, e = EntryOf(p), NEW x \in InFile(p)
        PROVE  \/ x \in Seen(found'[c])
               \/ Len(found'[c]) >= MaxMatches
               \/ Len(data[file[p]].lines) > MaxLines
    <3>1. Inode(e) = file[p]
      BY <2>9 DEF EntryOf, Inode
    <3>2. CASE Len(data[file[p]].lines) > MaxLines
      BY <3>2
    <3>3. CASE ~(Len(data[file[p]].lines) > MaxLines)
      <4>1. m = data[file[p]].lines
        BY <3>1, <3>3 DEF Matching, m
      <4>2. InFile(p) = {m[j] : j \in DOMAIN m}
        BY <2>9, <4>1 DEF InFile, LinesOf
      <4>3. DOMAIN m = 1 .. Len(m)
        BY <2>1
      <4>4. CASE k = Len(m)
        <5>1. DOMAIN s = 1 .. k
          BY <2>6
        <5>2. InFile(p) \subseteq Seen(s)
          BY <4>2, <4>3, <4>4, <2>6, <5>1 DEF Seen
        <5> QED BY <2>8, <2>9, <5>2
      <4>5. CASE k = Room(c)
        <5>1. Len(found'[c]) = MaxMatches
          BY <2>2, <2>7, <4>5, ToolsAssumption
        <5> QED BY <5>1, ToolsAssumption
      <4> QED BY <2>4, <4>4, <4>5
    <3> QED BY <3>2, <3>3
  <2>10. ASSUME NEW p \in Paths, EntryOf(p) \notin left'[c],
                NEW x \in InFile(p) \intersect there[c]
         PROVE  \/ x \in Seen(found'[c])
                \/ Len(found'[c]) >= MaxMatches
                \/ Len(data[file[p]].lines) > MaxLines
    <3>1. EntryOf(p) \notin left[c] \/ e = EntryOf(p)
      BY <1>3, <2>10
    <3>2. CASE EntryOf(p) \notin left[c]
      <4>1. ~(Len(found[c]) >= MaxMatches)
        BY <1>1, <2>7, ToolsAssumption
      <4> QED BY <1>1, <2>8, <2>10, <3>2, <4>1 DEF Sought
    <3> QED BY <2>9, <2>10, <3>1, <3>2
  <2>11. \A x \in there[c] : Written(x)'
    BY <1>1 DEF Sought, Written
  <2> QED BY <1>1, <2>10, <2>11 DEF Sought, InFile, LinesOf, Seen, EntryOf
<1> QED BY <1>4, <1>5

\* A step that changes no file.
LEMMA FilesSame ==
    ASSUME TypeInv, UNCHANGED <<file, data>>, NEW p \in Paths
    PROVE  /\ InFile(p)' = InFile(p)
           /\ InFile(p) # {} => Len(data'[file'[p]].lines) >= Len(data[file[p]].lines)
<1>1. InFile(p) # {} => Len(data[file[p]].lines) \in Nat
  BY DEF TypeInv, TypeOK, InFile, Texts
<1> QED BY <1>1 DEF InFile, LinesOf

\* The steps of calls other than the search, and of calls that are no search.
LEMMA OthersSeek ==
    ASSUME TypeInv, NEW a \in Calls, NEW c \in Calls, ~Faults, tool[a] # "file_edit",
           Run(a) \/ Refuse(a) \/ ChildWrites(a) \/ ChildFails(a),
           ~(a = c /\ GrepEntry(c))
    PROVE  /\ step'[c] = "walk" => step[c] = "walk"
           /\ tool[c] = "grep" => found'[c] = found[c] /\ left'[c] = left[c]
           /\ there'[c] = there[c]
           /\ \/ UNCHANGED <<file, data>>
              \/ WriteOpen(a) \/ (Fill(a) /\ tool[a] = "file_write") \/ Unlink(a)
              \/ Rename(a) \/ ChildWrites(a)
<1>0. TypeOK /\ Fits(a)
  BY DEF TypeInv
<1>1. CASE Quiet(a)
  <2>1. UNCHANGED <<found, left, there, file, data>>
    BY <1>1 DEF Quiet, local, files
  <2>2. step'[c] = "walk" => step[c] = "walk"
    BY <1>1, QuietLasts
  <2> QED BY <2>1, <2>2
<1>2. CASE WriteOpen(a) \/ Fill(a) \/ Unlink(a) \/ Rename(a)
  <2>1. UNCHANGED <<found, left, there>>
    BY <1>2 DEF WriteOpen, Fill, Unlink, Rename, ReplaceFile, local
  <2>2. step'[c] = "walk" => step[c] = "walk"
    BY <1>0, <1>2 DEF WriteOpen, Fill, Unlink, Rename, ReplaceFile, Go, Return, TypeOK
  <2>3. Fill(a) => tool[a] = "file_write"
    BY <1>0 DEF Fill, Go, Return, Fits
  <2> QED BY <1>2, <2>1, <2>2, <2>3
<1>3. CASE ReadLoad(a) \/ ReadPanics(a)
  <2>1. tool[a] = "file_read"
    BY <1>0, <1>3 DEF ReadLoad, ReadPanics, Go, Return, Fits
  <2>2. tool[c] = "grep" => found'[c] = found[c]
    BY <1>0, <1>3, <2>1 DEF ReadLoad, ReadPanics, TypeOK
  <2>3. step'[c] = "walk" => step[c] = "walk"
    BY <1>0, <1>3 DEF ReadLoad, ReadPanics, Go, Return, TypeOK
  <2> QED BY <1>3, <2>2, <2>3 DEF ReadLoad, ReadPanics, files
<1>4. CASE Spawn(a)
  BY <1>0, <1>4 DEF Spawn, Go, TypeOK, local, files
<1>5. CASE ChildWrites(a) \/ ChildFails(a)
  BY <1>5 DEF ChildWrites, ChildFails, local, files
<1>6. CASE GlobEntry(a)
  <2>1. tool[a] = "glob"
    BY <1>6 DEF GlobEntry
  <2>2. step'[c] = "walk" => step[c] = "walk"
    BY <1>0, <1>6 DEF GlobEntry, Go, Return, TypeOK
  <2>3. tool[c] = "grep" => found'[c] = found[c] /\ left'[c] = left[c]
    BY <1>0, <1>6, <2>1 DEF GlobEntry, TypeOK
  <2> QED BY <1>6, <2>2, <2>3 DEF GlobEntry, files
<1>7. CASE GrepEntry(a)
  <2>1. a # c
    BY <1>7
  <2>2. found'[c] = found[c] /\ left'[c] = left[c]
    BY <1>0, <1>7, <2>1 DEF GrepEntry, TypeOK
  <2> QED BY <1>7, <2>2 DEF GrepEntry, files
<1>8. ~EditOpen(a) /\ ~EditRead(a) /\ ~FillFails(a)
  BY <1>0 DEF EditOpen, EditRead, FillFails, Go, Fits
<1>9. \/ Quiet(a) \/ WriteOpen(a) \/ Fill(a) \/ Unlink(a) \/ Rename(a)
      \/ ReadLoad(a) \/ ReadPanics(a) \/ Spawn(a) \/ ChildWrites(a) \/ ChildFails(a)
      \/ GlobEntry(a) \/ GrepEntry(a)
  BY <1>0, <1>8, QuietSteps DEF Run, Write, Edit, Put, Read, Bash, Search
<1> QED BY <1>1, <1>2, <1>3, <1>4, <1>5, <1>6, <1>7, <1>9

\* A grep that walks beside file writes and commands has found the lines that
\* stayed in the files it has been to, unless it met a limit.
THEOREM SearchInvHolds == Spec => []SearchInv
<1>1. Init => SearchInv
  BY DEF Init, SearchInv, Sought
<1>2. TypeInv /\ TypeInv' /\ GoodInv /\ SearchInv /\ [Next]_vars => SearchInv'
  <2> SUFFICES ASSUME TypeInv, TypeInv', GoodInv, SearchInv, [Next]_vars, Undisturbed',
                      NEW c \in Calls
               PROVE  tool'[c] # "file_edit" /\ Sought(c)'
    BY DEF SearchInv
  <2>1. path' = path /\ given' = given /\ \A d \in Calls : Lasting(d)
    BY Lasts
  <2>2. /\ ~Overlap /\ ~Faults /\ "file_edit" \notin given.tools
        /\ Good /\ Sought(c) /\ \A d \in Calls : tool[d] # "file_edit"
    BY <2>1 DEF Undisturbed, Overlap, Faults, GoodInv, SearchInv
  <2>3. ASSUME NEW a \in Calls, NEW t \in Tools, Invoke(a, t)
        PROVE  tool'[c] # "file_edit" /\ Sought(c)'
    <3>0. TypeOK
      BY DEF TypeInv
    <3>1. /\ t \in given.tools /\ tool'[a] = t /\ step'[a] = FirstStep[t]
          /\ \A d \in Calls : d # a => /\ tool'[d] = tool[d] /\ step'[d] = step[d]
                                       /\ left'[d] = left[d] /\ there'[d] = there[d]
          /\ UNCHANGED <<found, file, data>>
      BY <2>3, <3>0 DEF Invoke, Go, TypeOK, files
    <3>2. CASE c # a
      <4>1. \A p \in Paths : InFile(p)' \intersect there[c] # {} =>
               /\ InFile(p)' \intersect there[c] \subseteq InFile(p)
               /\ Len(data'[file'[p]].lines) >= Len(data[file[p]].lines)
        BY <3>1, FilesSame
      <4> QED BY <2>1, <2>2, <3>1, <3>2, <4>1, SoughtKept
    <3>3. CASE c = a
      <4>1. tool'[c] # "file_edit"
        BY <2>2, <3>1, <3>3
      <4>2. CASE t # "grep"
        BY <3>1, <3>3, <4>1, <4>2 DEF Sought
      <4>3. CASE t = "grep"
        <5>1. left'[c] = Entries /\ there'[c] = UNION {InFile(p) : p \in Paths}
          BY <2>3, <3>0, <3>3, <4>3 DEF Invoke, TypeOK
        <5>2. \A p \in Paths : EntryOf(p) \in Entries
          BY DEF EntryOf, Entries
        <5>3. \A x \in there'[c] : Written(x)'
          <6>1. \A p \in Paths : \A x \in InFile(p) : Written(x) /\ x \in Calls
            BY <2>2, <3>0 DEF Good, Safe, Complete, TypeOK, InFile, LinesOf, Texts
          <6> QED BY <5>1, <6>1, <2>1, Lasted
        <5> HIDE DEF Entries
        <5> QED BY <4>1, <5>1, <5>2, <5>3 DEF Sought, EntryOf
      <4> QED BY <4>2, <4>3
    <3> QED BY <3>2, <3>3
  <2>4. ASSUME NEW a \in Calls, Run(a) \/ Refuse(a) \/ ChildWrites(a) \/ ChildFails(a)
        PROVE  tool'[c] # "file_edit" /\ Sought(c)'
    <3>1. tool' = tool
      BY <2>4 DEF Run, Write, Edit, Put, Read, Bash, Search, Refuse, WriteOpen, Rename, ReplaceFile,
              RenameFails, Unlink, EditRead, EditRefused, EditOpen, OpenFails, Fill,
              FillFails, PutReturns, ReadStat, ReadRefused, ReadLoad, ReadPanics, Spawn, SpawnFails,
              BashReturns, BashTimesOut, GrepEntry, GrepCut, GlobEntry, WalkEnds,
              ChildWrites, ChildFails, arguments
    <3>2. CASE a = c /\ GrepEntry(c)
      BY <2>2, <3>1, <3>2, GrepEntrySeeks
    <3>3. CASE ~(a = c /\ GrepEntry(c))
      <4>1. /\ step'[c] = "walk" => step[c] = "walk"
            /\ tool[c] = "grep" => found'[c] = found[c] /\ left'[c] = left[c]
            /\ there'[c] = there[c]
            /\ \/ UNCHANGED <<file, data>>
               \/ WriteOpen(a) \/ (Fill(a) /\ tool[a] = "file_write") \/ Unlink(a)
               \/ Rename(a) \/ ChildWrites(a)
        BY <2>2, <2>4, <3>3, OthersSeek
      <4>2. CASE ~(tool[c] = "grep" /\ step[c] = "walk")
        BY <2>2, <3>1, <4>1, <4>2 DEF Sought
      <4>3. CASE tool[c] = "grep" /\ step[c] = "walk"
        <5>1. \A p \in Paths : InFile(p)' \intersect there[c] # {} =>
                 /\ InFile(p)' \intersect there[c] \subseteq InFile(p)
                 /\ Len(data'[file'[p]].lines) >= Len(data[file[p]].lines)
          <6>1. CASE UNCHANGED <<file, data>>
            BY <6>1, FilesSame
          <6>2. CASE \/ WriteOpen(a) \/ (Fill(a) /\ tool[a] = "file_write") \/ Unlink(a)
                     \/ Rename(a) \/ ChildWrites(a)
            <7>1. /\ ~Written(a)
                  /\ \A p \in Paths : InFile(p)' \subseteq InFile(p) \union {a}
                  /\ \A p \in Paths : \/ InFile(p)' \subseteq {a}
                                      \/ Len(data'[file'[p]].lines) >= Len(data[file[p]].lines)
              BY <2>1, <2>2, <6>2, FilesGrow
            <7>2. a \notin there[c]
              BY <2>2, <4>3, <7>1 DEF Sought
            <7> SUFFICES ASSUME NEW p \in Paths, InFile(p)' \intersect there[c] # {}
                         PROVE  /\ InFile(p)' \intersect there[c] \subseteq InFile(p)
                                /\ Len(data'[file'[p]].lines) >= Len(data[file[p]].lines)
              OBVIOUS
            <7>3. InFile(p)' \intersect there[c] \subseteq InFile(p)
              BY <7>1, <7>2
            <7>5. ~(InFile(p)' \subseteq {a})
              BY <7>2
            <7> QED BY <7>1, <7>3, <7>5
          <6> QED BY <4>1, <6>1, <6>2
        <5> QED BY <2>1, <2>2, <3>1, <4>1, <5>1, SoughtKept
      <4> QED BY <4>2, <4>3
    <3> QED BY <3>2, <3>3
  <2>5. CASE Crash \/ UNCHANGED vars
    <3>1. UNCHANGED <<tool, found, left, there, file, data>>
      BY <2>5 DEF Crash, vars, arguments, local, files
    <3>2. step'[c] = "walk" => step[c] = "walk"
      BY <2>5 DEF Crash, vars
    <3>3. \A p \in Paths : InFile(p)' \intersect there[c] # {} =>
             /\ InFile(p)' \intersect there[c] \subseteq InFile(p)
             /\ Len(data'[file'[p]].lines) >= Len(data[file[p]].lines)
      BY <3>1, FilesSame
    <3> QED BY <2>1, <2>2, <3>1, <3>2, <3>3, SoughtKept
  <2> QED BY <2>3, <2>4, <2>5 DEF Next
<1> QED BY <1>1, <1>2, TypeInvHolds, GoodHolds, PTL DEF Spec

\* A grep that finds nothing left to look at.
LEMMA GrepReturns ==
    ASSUME TypeInv, [Next]_vars, NEW c \in Calls,
           tool[c] = "grep", step[c] = "walk", step'[c] = "done", answer'[c] = "ok"
    PROVE  WalkEnds(c)
<1>0. TypeOK /\ Fits(c)
  BY DEF TypeInv
<1>1. answer[c] = "none"
  BY <1>0 DEF TypeOK, Fits
<1>2. ASSUME NEW a \in Calls, NEW t \in Tools, Invoke(a, t)
      PROVE  FALSE
  <2>1. step[a] = "idle" /\ step' = [step EXCEPT ![a] = FirstStep[t]]
    BY <1>2 DEF Invoke, Go
  <2>2. a # c
    BY <2>1
  <2> QED BY <1>0, <2>1, <2>2 DEF TypeOK
<1>3. ASSUME NEW a \in Calls, Run(a) \/ Refuse(a) \/ ChildWrites(a) \/ ChildFails(a)
      PROVE  WalkEnds(c)
  <2>1. CASE ChildWrites(a) \/ ChildFails(a)
    BY <2>1 DEF ChildWrites, ChildFails
  <2>2. CASE Search(a)
    <3>1. CASE GrepEntry(a)
      BY <3>1 DEF GrepEntry
    <3>2. CASE GrepCut(a)
      <4>1. /\ step' = [step EXCEPT ![a] = "done"] /\ answer' = [answer EXCEPT ![a] = "cut"]
        BY <3>2 DEF GrepCut, Return, Go
      <4> QED BY <1>0, <1>1, <4>1 DEF TypeOK
    <3>3. CASE GlobEntry(a)
      <4>1. tool[a] = "glob" /\ (\/ UNCHANGED step
                                 \/ step' = [step EXCEPT ![a] = "done"])
        BY <3>3 DEF GlobEntry, Return, Go
      <4> QED BY <1>0, <4>1 DEF TypeOK
    <3>4. CASE WalkEnds(a)
      <4>1. step' = [step EXCEPT ![a] = "done"]
        BY <3>4 DEF WalkEnds, Return, Go
      <4>2. a = c
        BY <1>0, <4>1 DEF TypeOK
      <4> QED BY <3>4, <4>2
    <3> QED BY <2>2, <3>1, <3>2, <3>3, <3>4 DEF Search
  <2>3. CASE \/ Refuse(a) \/ Write(a) \/ Edit(a) \/ Put(a) \/ Read(a) \/ Bash(a)
    <3>1. step[a] # "walk" /\ \E s \in Steps : step' = [step EXCEPT ![a] = s]
      BY <2>3 DEF Write, Edit, Put, Read, Bash, Refuse, WriteOpen, Rename, ReplaceFile,
              RenameFails, Unlink, EditRead, EditRefused, EditOpen, OpenFails, Fill,
              FillFails, PutReturns, ReadStat, ReadRefused, ReadLoad, ReadPanics, Spawn, SpawnFails,
              BashReturns, BashTimesOut, Return, Go, Steps
    <3>2. a # c
      BY <3>1
    <3> QED BY <1>0, <3>1, <3>2 DEF TypeOK
  <2> QED BY <1>3, <2>1, <2>2, <2>3 DEF Run
<1>4. CASE Crash \/ UNCHANGED vars
  BY <1>1, <1>4 DEF Crash, vars
<1> QED BY <1>2, <1>3, <1>4 DEF Next

\* A grep that ends with fewer lines than its limit has printed every line that
\* was in its file from its start to its end (grep.rs:74-128), beside file
\* writes and commands, for any number of calls, files, lines and matches; one
\* that reaches the limit in its last entry has not, and does not say so.
THEOREM FindsWhatStaysHolds == Spec => FindsWhatStays
<1> DEFINE Wanted == \A c \in Calls :
          /\ tool[c] = "grep" /\ step[c] = "walk" /\ step'[c] = "done"
          /\ answer'[c] = "ok" /\ Len(found'[c]) < MaxMatches
          /\ ~Overlap /\ ~Faults /\ "file_edit" \notin given.tools
          => \A p \in Paths :
                file[p] # NoFile /\ Len(data[file[p]].lines) <= MaxLines
                => InFile(p) \intersect there[c] \subseteq
                     {found'[c][i] : i \in DOMAIN found'[c]}
<1>1. TypeInv /\ SearchInv /\ [Next]_vars => [Wanted]_vars
  <2> SUFFICES ASSUME TypeInv, SearchInv, [Next]_vars, NEW c \in Calls,
                      tool[c] = "grep", step[c] = "walk", step'[c] = "done",
                      answer'[c] = "ok", Len(found'[c]) < MaxMatches, Undisturbed,
                      NEW p \in Paths, file[p] # NoFile, Len(data[file[p]].lines) <= MaxLines
               PROVE  InFile(p) \intersect there[c] \subseteq Seen(found'[c])
    BY DEF Undisturbed, Seen
  <2>1. WalkEnds(c)
    BY GrepReturns
  <2>2. EntryOf(p) # Directory /\ IsFile(EntryOf(p))
    BY ToolsAssumption DEF EntryOf, Directory, IsFile, Inode
  <2>3. EntryOf(p) \notin left[c] /\ found'[c] = found[c]
    BY <2>1, <2>2 DEF WalkEnds, local
  <2>4. /\ found[c] \in Seq(Calls \union Paths)
        /\ data[file[p]].lines \in Seq(Calls)
    BY DEF TypeInv, TypeOK, Texts
  <2>5. Len(found[c]) \in Nat /\ Len(data[file[p]].lines) \in Nat
    BY <2>4
  <2>6. ~(Len(found[c]) >= MaxMatches) /\ ~(Len(data[file[p]].lines) > MaxLines)
    BY <2>3, <2>5, ToolsAssumption
  <2> QED BY <2>3, <2>6 DEF SearchInv, Sought
<1> QED BY <1>1, TypeInvHolds, SearchInvHolds, PTL DEF Spec, FindsWhatStays

-----------------------------------------------------------------------------
(* Calls return.                                                            *)

\* How far a call other than a search has come.
Early(c)   == step[c] \in {"open", "read", "stat", "spawn"}
Midway(c)  == step[c] \in {"truncate", "load", "running"}
Filling(c) == step[c] = "fill"
Renames(c) == step[c] = "rename"
Unlinks(c) == step[c] = "unlink"
Ending(c)  == step[c] \in {"renamed", "edited", "unlinked"}
Short(c)   == Early(c) \/ Midway(c) \/ Filling(c) \/ Renames(c) \/ Unlinks(c) \/ Ending(c)
Over(c)    == ~InFlight(c)

\* Nobody else takes a call forward, but the process may die.
LEMMA OnlyRunMoves ==
  ASSUME TypeOK, [Next]_vars, NEW c \in Calls
  PROVE  \/ step'[c] = step[c] \/ step[c] = "idle" \/ step'[c] \in {"done", "lost"}
         \/ Run(c)
<1>0. step \in [Calls -> Steps]
  BY DEF TypeOK
<1>1. ASSUME NEW a \in Calls, NEW t \in Tools, Invoke(a, t) PROVE step'[c] = step[c] \/ step[c] = "idle"
  BY <1>0, <1>1 DEF Invoke, Go
<1>2. ASSUME NEW a \in Calls, Refuse(a) PROVE step'[c] = step[c] \/ step[c] = "idle"
  BY <1>0, <1>2 DEF Refuse, Return, Go
<1>3. ASSUME NEW a \in Calls, ChildWrites(a) \/ ChildFails(a) PROVE step'[c] = step[c]
  BY <1>3 DEF ChildWrites, ChildFails
<1>4. ASSUME NEW a \in Calls, Run(a), a # c PROVE step'[c] = step[c]
  <2>1. step' = step \/ \E s \in Steps : step' = [step EXCEPT ![a] = s]
    BY <1>4 DEF Run, Write, Edit, Put, Read, Bash, Search, WriteOpen, Rename, ReplaceFile,
            RenameFails, Unlink, EditRead, EditRefused, EditOpen, OpenFails, Fill,
            FillFails, PutReturns, ReadStat, ReadRefused, ReadLoad, ReadPanics, Spawn, SpawnFails,
            BashReturns, BashTimesOut, GrepEntry, GrepCut, GlobEntry, WalkEnds,
            Return, Go, Steps
  <2> QED BY <1>0, <1>4, <2>1
<1>5. CASE Crash
  BY <1>0, <1>5 DEF Crash
<1>6. CASE UNCHANGED vars
  BY <1>6 DEF vars
<1> QED BY <1>1, <1>2, <1>3, <1>4, <1>5, <1>6 DEF Next

\* Where a call's own step takes it.
LEMMA RunGoesForward ==
  ASSUME TypeOK, NEW c \in Calls, Run(c)
  PROVE  /\ Early(c) => Midway(c)' \/ Filling(c)' \/ Over(c)'
         /\ Midway(c) => Filling(c)' \/ Over(c)'
         /\ Filling(c) => Renames(c)' \/ Ending(c)' \/ Over(c)'
         /\ Renames(c) => Unlinks(c)' \/ Ending(c)' \/ Over(c)'
         /\ Unlinks(c) => Ending(c)' \/ Over(c)'
         /\ Ending(c) => Over(c)'
<1>0. step \in [Calls -> Steps]
  BY DEF TypeOK
<1> USE DEF Early, Midway, Filling, Renames, Unlinks, Ending, Over, InFlight
<1>1. CASE Write(c)
  BY <1>0, <1>1 DEF Write, WriteOpen, Rename, ReplaceFile, RenameFails, Unlink, Return, Go
<1>2. CASE Edit(c)
  BY <1>0, <1>2 DEF Edit, EditRead, EditRefused, EditOpen, Return, Go
<1>3. CASE Put(c)
  BY <1>0, <1>3 DEF Put, OpenFails, Fill, FillFails, PutReturns, Return, Go
<1>4. CASE Read(c)
  BY <1>0, <1>4 DEF Read, ReadStat, ReadRefused, ReadLoad, ReadPanics, Return, Go
<1>5. CASE Bash(c)
  BY <1>0, <1>5 DEF Bash, Spawn, SpawnFails, BashReturns, BashTimesOut, Return, Go
<1>6. CASE Search(c)
  <2>1. step[c] = "walk"
    BY <1>6 DEF Search, GrepEntry, GrepCut, GlobEntry, WalkEnds, Return, Go
  <2> QED BY <2>1
<1> QED BY <1>1, <1>2, <1>3, <1>4, <1>5, <1>6 DEF Run

\* A call of file_write, file_edit, file_read or bash returns, unless its task
\* panics or the process dies: after a bounded number of its own steps,
\* whatever the other calls, the commands and the system calls do (bash.rs:103).
ShortCall(c) == InFlight(c) /\ tool[c] \notin {"grep", "glob"}
ShortCallsReturn == \A c \in Calls : ShortCall(c) ~> Over(c)

THEOREM ShortCallsReturnHolds ==
  Spec /\ (\A c \in Calls : GoesOn(c)) => ShortCallsReturn
<1> SUFFICES ASSUME NEW c \in Calls
             PROVE  Spec /\ GoesOn(c) => (ShortCall(c) ~> Over(c))
  BY DEF ShortCallsReturn
<1>0. TypeInv /\ ShortCall(c) => Short(c)
  BY DEF TypeInv, TypeOK, Fits, Steps, ShortCall, InFlight, Short, Early, Midway, Filling,
         Renames, Unlinks, Ending
<1>1. Spec => []TypeOK /\ []TypeInv /\ [][Next]_vars
  BY TypeCorrect, TypeInvHolds, PTL DEF Spec
<1>2. TypeOK /\ [Next]_vars =>
        /\ Early(c) => Early(c)' \/ Midway(c)' \/ Filling(c)' \/ Over(c)'
        /\ Midway(c) => Midway(c)' \/ Filling(c)' \/ Over(c)'
        /\ Filling(c) => Filling(c)' \/ Renames(c)' \/ Ending(c)' \/ Over(c)'
        /\ Renames(c) => Renames(c)' \/ Unlinks(c)' \/ Ending(c)' \/ Over(c)'
        /\ Unlinks(c) => Unlinks(c)' \/ Ending(c)' \/ Over(c)'
        /\ Ending(c) => Ending(c)' \/ Over(c)'
  <2> SUFFICES ASSUME TypeOK, [Next]_vars, step[c] # "idle"
               PROVE  /\ Early(c) => Early(c)' \/ Midway(c)' \/ Filling(c)' \/ Over(c)'
                      /\ Midway(c) => Midway(c)' \/ Filling(c)' \/ Over(c)'
                      /\ Filling(c) => Filling(c)' \/ Renames(c)' \/ Ending(c)' \/ Over(c)'
                      /\ Renames(c) => Renames(c)' \/ Unlinks(c)' \/ Ending(c)' \/ Over(c)'
                      /\ Unlinks(c) => Unlinks(c)' \/ Ending(c)' \/ Over(c)'
                      /\ Ending(c) => Ending(c)' \/ Over(c)'
    BY DEF Early, Midway, Filling, Renames, Unlinks, Ending
  <2>1. CASE step'[c] = step[c] \/ step'[c] \in {"done", "lost"}
    BY <2>1 DEF Early, Midway, Filling, Renames, Unlinks, Ending, Over, InFlight
  <2>2. CASE Run(c)
    BY <2>2, RunGoesForward
  <2> QED BY <2>1, <2>2, OnlyRunMoves
<1>3. TypeOK /\ <<Run(c)>>_vars =>
        /\ Early(c) => Midway(c)' \/ Filling(c)' \/ Over(c)'
        /\ Midway(c) => Filling(c)' \/ Over(c)'
        /\ Filling(c) => Renames(c)' \/ Ending(c)' \/ Over(c)'
        /\ Renames(c) => Unlinks(c)' \/ Ending(c)' \/ Over(c)'
        /\ Unlinks(c) => Ending(c)' \/ Over(c)'
        /\ Ending(c) => Over(c)'
  BY RunGoesForward
<1>4. Short(c) => InFlight(c)
  BY DEF Short, Early, Midway, Filling, Renames, Unlinks, Ending, InFlight
<1>5. Spec /\ GoesOn(c) => (Ending(c) ~> Over(c))
  BY <1>1, <1>2, <1>3, <1>4, PTL DEF GoesOn, Short
<1>6. Spec /\ GoesOn(c) => (Unlinks(c) ~> Ending(c) \/ Over(c))
  BY <1>1, <1>2, <1>3, <1>4, PTL DEF GoesOn, Short
<1>7. Spec /\ GoesOn(c) => (Renames(c) ~> Unlinks(c) \/ Ending(c) \/ Over(c))
  BY <1>1, <1>2, <1>3, <1>4, PTL DEF GoesOn, Short
<1>8. Spec /\ GoesOn(c) => (Filling(c) ~> Renames(c) \/ Ending(c) \/ Over(c))
  BY <1>1, <1>2, <1>3, <1>4, PTL DEF GoesOn, Short
<1>9. Spec /\ GoesOn(c) => (Midway(c) ~> Filling(c) \/ Over(c))
  BY <1>1, <1>2, <1>3, <1>4, PTL DEF GoesOn, Short
<1>10. Spec /\ GoesOn(c) => (Early(c) ~> Midway(c) \/ Filling(c) \/ Over(c))
  BY <1>1, <1>2, <1>3, <1>4, PTL DEF GoesOn, Short
<1> QED BY <1>0, <1>1, <1>5, <1>6, <1>7, <1>8, <1>9, <1>10, PTL DEF Short

-----------------------------------------------------------------------------
(* Files are replaced, appended to and read in one step each.               *)

\* What the contract sees of the workspace and of the calls.
Shown  == [p \in Paths |-> IF file[p] = NoFile THEN NoFile ELSE data[file[p]].lines]
Kind   == [c \in Calls |-> IF step[c] = "idle" THEN "none" ELSE tool[c]]
PutBy  == renamed \union {c \in Calls : child[c] = "wrote"}
ReadBy == [c \in Calls |-> IF tool[c] = "file_read" /\ answer[c] = "ok"
                           THEN got[c].lines ELSE <<>>]
Told   == [c \in Calls |-> IF step[c] = "lost" THEN "lost" ELSE answer[c]]

\* It sees nothing of the step.
Unseen == UNCHANGED <<Shown, path, Kind, PutBy, ReadBy, Told>>

\* No call but c moves, and no text but its own file's changes.
Only(c) == \A d \in Calls : d # c =>
    /\ step'[d] = step[d] /\ tool'[d] = tool[d] /\ answer'[d] = answer[d]
    /\ child'[d] = child[d] /\ got'[d] = got[d]
    /\ (d \in renamed' <=> d \in renamed)
Same(p) == /\ file'[p] = file[p]
           /\ file[p] # NoFile => data'[file[p]].lines = data[file[p]].lines

LEMMA SeenOfOthers ==
    ASSUME NEW c \in Calls, Only(c), TypeOK, TypeOK'
    PROVE  /\ Kind' = [Kind EXCEPT ![c] = Kind'[c]]
           /\ Told' = [Told EXCEPT ![c] = Told'[c]]
           /\ ReadBy' = [ReadBy EXCEPT ![c] = ReadBy'[c]]
           /\ c \in PutBy' => PutBy' = PutBy \union {c}
           /\ (c \in PutBy' <=> c \in PutBy) => PutBy' = PutBy
<1>1. Kind' = [Kind EXCEPT ![c] = Kind'[c]]
  BY DEF Only, Kind
<1>2. Told' = [Told EXCEPT ![c] = Told'[c]]
  BY DEF Only, Told
<1>3. ReadBy' = [ReadBy EXCEPT ![c] = ReadBy'[c]]
  BY DEF Only, ReadBy
<1>4. \A d \in Calls : d # c => (d \in PutBy' <=> d \in PutBy)
  BY DEF Only, PutBy
<1>5. PutBy \subseteq Calls /\ PutBy' \subseteq Calls
  BY DEF PutBy, TypeOK
<1> QED BY <1>1, <1>2, <1>3, <1>4, <1>5

\* So what the contract sees follows from what it sees of c.
LEMMA SeenOfNone ==
    ASSUME NEW c \in Calls, Only(c)
    PROVE  /\ Kind'[c] = Kind[c] => Kind' = Kind
           /\ Told'[c] = Told[c] => Told' = Told
           /\ ReadBy'[c] = ReadBy[c] => ReadBy' = ReadBy
<1>1. Kind'[c] = Kind[c] => Kind' = Kind
  BY DEF Only, Kind
<1>2. Told'[c] = Told[c] => Told' = Told
  BY DEF Only, Told
<1>3. ReadBy'[c] = ReadBy[c] => ReadBy' = ReadBy
  BY DEF Only, ReadBy
<1> QED BY <1>1, <1>2, <1>3

LEMMA ShownSame == ASSUME \A p \in Paths : Same(p) PROVE Shown' = Shown
BY DEF Same, Shown

LEMMA ShownPut ==
    ASSUME NEW q \in Paths, \A p \in Paths : p # q => Same(p), file'[q] # NoFile
    PROVE  Shown' = [Shown EXCEPT ![q] = data'[file'[q]].lines]
BY DEF Same, Shown

\* What the contract sees of one call.
LEMMA SeenOf ==
    ASSUME NEW c \in Calls
    PROVE  /\ Kind[c] = IF step[c] = "idle" THEN "none" ELSE tool[c]
           /\ Kind'[c] = IF step'[c] = "idle" THEN "none" ELSE tool'[c]
           /\ Told[c] = IF step[c] = "lost" THEN "lost" ELSE answer[c]
           /\ Told'[c] = IF step'[c] = "lost" THEN "lost" ELSE answer'[c]
           /\ ReadBy[c] = IF tool[c] = "file_read" /\ answer[c] = "ok"
                          THEN got[c].lines ELSE <<>>
           /\ ReadBy'[c] = IF tool'[c] = "file_read" /\ answer'[c] = "ok"
                           THEN got'[c].lines ELSE <<>>
           /\ c \in PutBy <=> child[c] = "wrote" \/ c \in renamed
           /\ c \in PutBy' <=> child'[c] = "wrote" \/ c \in renamed'
BY DEF Kind, Told, ReadBy, PutBy

LEMMA UnseenIs == ASSUME Orderly, Orderly', Unseen PROVE UNCHANGED Contract!contract
BY DEF Unseen, Contract!contract, Shown, Kind, PutBy, ReadBy, Told

\* The contract's steps, in these terms.
LEMMA Asks ==
    ASSUME Orderly, Orderly', path' = path, NEW c \in Calls, NEW t \in Tools,
           Kind[c] = "none", Told[c] = "none", Kind' = [Kind EXCEPT ![c] = t],
           UNCHANGED <<Shown, PutBy, ReadBy, Told>>
    PROVE  Contract!Ask(c, t)
BY DEF Contract!Ask, Contract!Runs, Shown, Kind, PutBy, ReadBy, Told

LEMMA Refuses ==
    ASSUME Orderly, Orderly', path' = path, NEW c \in Calls, NEW t \in Tools,
           Kind[c] = "none", Told[c] = "none", Kind' = [Kind EXCEPT ![c] = t],
           Told' = [Told EXCEPT ![c] = "err"], UNCHANGED <<Shown, PutBy, ReadBy>>
    PROVE  Contract!Refuse(c, t)
BY DEF Contract!Refuse, Contract!Runs, Contract!Answers, Shown, Kind, PutBy, ReadBy, Told

LEMMA Replaces ==
    ASSUME Orderly, Orderly', path' = path, NEW c \in Calls,
           Kind[c] = "file_write", Told[c] = "none", c \notin PutBy,
           Shown' = [Shown EXCEPT ![path[c]] = <<c>>],
           PutBy' = PutBy \union {c}, UNCHANGED <<Kind, ReadBy, Told>>
    PROVE  Contract!Replace(c)
BY DEF Contract!Replace, Contract!Runs, Contract!Answers, Shown, Kind, PutBy, ReadBy, Told

LEMMA Adds ==
    ASSUME Orderly, Orderly', path' = path, NEW c \in Calls,
           Kind[c] = "bash", Told[c] # "ok", c \notin PutBy,
           Shown' = [Shown EXCEPT ![path[c]] =
                        IF @ = NoFile THEN <<c>> ELSE Append(@, c)],
           PutBy' = PutBy \union {c}, UNCHANGED <<Kind, ReadBy, Told>>
    PROVE  Contract!Add(c)
BY DEF Contract!Add, Shown, Kind, PutBy, ReadBy, Told

LEMMA Reads ==
    ASSUME Orderly, Orderly', path' = path, NEW c \in Calls,
           Kind[c] = "file_read", Told[c] = "none", Shown[path[c]] # NoFile,
           ReadBy' = [ReadBy EXCEPT ![c] = Shown[path[c]]],
           Told' = [Told EXCEPT ![c] = "ok"], UNCHANGED <<Shown, Kind, PutBy>>
    PROVE  Contract!Read(c)
BY DEF Contract!Read, Contract!Runs, Contract!Answers, Shown, Kind, PutBy, ReadBy, Told

LEMMA Succeeds ==
    ASSUME Orderly, Orderly', path' = path, NEW c \in Calls, Told[c] = "none",
           \/ Kind[c] \in {"file_write", "bash"} /\ c \in PutBy
           \/ Kind[c] \in {"grep", "glob"},
           NEW a \in {"ok", "cut"}, Told' = [Told EXCEPT ![c] = a],
           UNCHANGED <<Shown, Kind, PutBy, ReadBy>>
    PROVE  Contract!Succeed(c)
BY DEF Contract!Succeed, Contract!Runs, Contract!Answers, Shown, Kind, PutBy, ReadBy, Told

LEMMA Fails ==
    ASSUME Orderly, Orderly', path' = path, NEW c \in Calls,
           Kind[c] # "none", Told[c] = "none", Told' = [Told EXCEPT ![c] = "err"],
           Kind[c] = "file_write" => c \notin PutBy,
           UNCHANGED <<Shown, Kind, PutBy, ReadBy>>
    PROVE  Contract!Fail(c)
BY DEF Contract!Fail, Contract!Answers, Shown, Kind, PutBy, ReadBy, Told

LEMMA Loses ==
    ASSUME Orderly, Orderly', path' = path, NEW gone \in SUBSET Calls,
           \A c \in gone : Kind[c] # "none" /\ Told[c] = "none",
           Told' = [c \in Calls |-> IF c \in gone THEN "lost" ELSE Told[c]],
           UNCHANGED <<Shown, Kind, PutBy, ReadBy>>
    PROVE  Contract!Lose(gone)
BY DEF Contract!Lose, Shown, Kind, PutBy, ReadBy, Told

\* Writes to a path's inode that is not its file are seen by nobody.
LEMMA Hidden ==
    ASSUME TypeInv, Good, file' = file, NEW p \in Paths, NEW i \in Inodes,
           Of(i) = p, i # file[p], \A j \in Inodes : j # i => data'[j] = data[j]
    PROVE  Shown' = Shown
<1>1. ASSUME NEW q \in Paths PROVE Same(q)
  <2>1. Owned(q) /\ file[q] \in Inodes \union {NoFile}
    BY DEF Good, TypeInv, TypeOK
  <2> QED BY <2>1 DEF Owned, Same
<1> QED BY <1>1, ShownSame

\* Steps that leave the files alone.
LEMMA ShownStill == ASSUME UNCHANGED <<file, data>> PROVE Shown' = Shown
BY ShownSame DEF Same

\* What a call that is not an edit does to its temporary sibling is unseen.
LEMMA WriteUnseen ==
    ASSUME TypeInv, TypeInv', Good, NEW c \in Calls, path' = path, tool[c] # "file_edit",
           WriteOpen(c) \/ Fill(c) \/ RenameFails(c) \/ Unlink(c)
    PROVE  Unseen
<1>0. TypeOK /\ Fits(c) /\ Fits(c)' /\ path[c] \in Paths
  BY DEF TypeInv, TypeOK
<1>1. /\ Only(c) /\ tool[c] = "file_write"
      /\ step[c] \notin {"idle", "lost"} /\ step'[c] \notin {"idle", "lost"}
      /\ UNCHANGED <<tool, got, child, file, answer, renamed>>
  <2>1. CASE WriteOpen(c)
    BY <2>1, <1>0 DEF WriteOpen, Go, Only, TypeOK, arguments
  <2>2. CASE Fill(c)
    BY <2>2, <1>0 DEF Fill, Go, Return, Fits, Only, TypeOK, arguments, local
  <2>3. CASE RenameFails(c) \/ Unlink(c)
    BY <2>3, <1>0 DEF RenameFails, Unlink, Go, Fits, Only, TypeOK, arguments, local, files
  <2> QED BY <2>1, <2>2, <2>3
<1>2. Shown' = Shown
  <2>1. CASE WriteOpen(c)
    <3> DEFINE i == Opened(tmp, c)
    <3>1. step[c] = "open"
      BY <2>1 DEF WriteOpen, Go
    <3>2. i \in Inodes /\ Of(i) = path[c] /\ i # file[path[c]]
      BY <3>1, OpenedIs DEF Unopened
    <3>3. data' = [data EXCEPT ![i] = Empty]
      BY <2>1 DEF WriteOpen
    <3> HIDE DEF i
    <3> QED BY <3>2, <3>3, <1>0, <1>1, Hidden DEF TypeOK
  <2>2. CASE Fill(c)
    <3> DEFINE i == tmp[path[c]]
    <3>1. step[c] = "fill"
      BY <1>1, <2>2 DEF Fill, Go
    <3>2. fd[c] = i /\ i # NoFile /\ i \in Inodes
      BY <3>1, <1>0, <1>1 DEF Good, Lone, TypeOK
    <3>3. Of(i) = path[c] /\ i # file[path[c]]
      BY <3>2, <1>0 DEF Good, Owned
    <3>4. \A j \in Inodes : j # i => data'[j] = data[j]
      BY <2>2, <3>2, <1>0 DEF Fill, TypeOK
    <3> HIDE DEF i
    <3> QED BY <3>2, <3>3, <3>4, <1>0, <1>1, Hidden
  <2>3. CASE RenameFails(c) \/ Unlink(c)
    BY <2>3, ShownStill DEF RenameFails, Unlink, files
  <2> QED BY <2>1, <2>2, <2>3
<1>3. Kind'[c] = Kind[c] /\ Told'[c] = Told[c] /\ ReadBy'[c] = ReadBy[c]
      /\ (c \in PutBy' <=> c \in PutBy)
  BY <1>1, SeenOf
<1> QED BY <1>0, <1>1, <1>2, <1>3, SeenOfOthers, SeenOfNone DEF Unseen, TypeInv

\* Nor are steps that change no file and end no call.
LEMMA CourseUnseen ==
    ASSUME TypeInv, TypeInv', NEW c \in Calls, path' = path,
           \/ ReadStat(c) \/ Spawn(c) \/ ChildFails(c) \/ GrepEntry(c)
           \/ GlobEntry(c) /\ answer' = answer
    PROVE  Unseen
<1>0. TypeOK /\ Fits(c) /\ Fits(c)'
  BY DEF TypeInv
<1>1. Only(c) /\ UNCHANGED <<tool, got, file, data, answer, renamed>>
  <2>1. CASE ReadStat(c)
    BY <2>1, <1>0 DEF ReadStat, Go, Only, TypeOK, arguments, local, files
  <2>2. CASE Spawn(c) \/ ChildFails(c)
    BY <2>2, <1>0 DEF Spawn, ChildFails, Go, Only, TypeOK, arguments, local, files
  <2>3. CASE GrepEntry(c)
    BY <2>3 DEF GrepEntry, Only, arguments, files
  <2>4. CASE GlobEntry(c) /\ answer' = answer
    <3>1. UNCHANGED step \/ step' = [step EXCEPT ![c] = "done"]
      BY <2>4 DEF GlobEntry, Return, Go
    <3>2. \A d \in Calls : d # c => step'[d] = step[d]
      BY <3>1, <1>0 DEF TypeOK
    <3> QED BY <2>4, <3>2 DEF GlobEntry, Only, arguments, files
  <2> QED BY <2>1, <2>2, <2>3, <2>4
<1>2. /\ (step[c] = "idle" <=> step'[c] = "idle") /\ (step[c] = "lost" <=> step'[c] = "lost")
      /\ (child[c] = "wrote" <=> child'[c] = "wrote")
  <2>1. CASE ReadStat(c)
    BY <2>1, <1>0 DEF ReadStat, Go, TypeOK
  <2>2. CASE Spawn(c) \/ ChildFails(c)
    BY <2>2, <1>0 DEF Spawn, ChildFails, Go, TypeOK, Fits
  <2>3. CASE GrepEntry(c)
    BY <2>3 DEF GrepEntry
  <2>4. CASE GlobEntry(c) /\ answer' = answer
    <3>1. step[c] = "walk" /\ UNCHANGED child
      BY <2>4 DEF GlobEntry
    <3>2. UNCHANGED step \/ step' = [step EXCEPT ![c] = "done"]
      BY <2>4 DEF GlobEntry, Return, Go
    <3> QED BY <3>1, <3>2, <1>0 DEF TypeOK
  <2> QED BY <2>1, <2>2, <2>3, <2>4
<1>3. Kind'[c] = Kind[c] /\ Told'[c] = Told[c] /\ ReadBy'[c] = ReadBy[c]
      /\ (c \in PutBy' <=> c \in PutBy)
  BY <1>1, <1>2, SeenOf
<1> QED BY <1>1, <1>3, ShownStill, SeenOfOthers, SeenOfNone DEF Unseen, TypeInv

\* Calls that return an error have changed nothing.
LEMMA FailureFails ==
    ASSUME TypeInv, TypeInv', Orderly, Orderly', Good, NEW c \in Calls, path' = path,
           tool[c] # "file_edit", answer'[c] = "err",
           \/ OpenFails(c) \/ FillFails(c) \/ PutReturns(c) \/ ReadRefused(c) \/ SpawnFails(c)
           \/ BashReturns(c) \/ BashTimesOut(c)
    PROVE  Contract!Fail(c)
<1>0. TypeOK /\ Fits(c) /\ Fits(c)' /\ path[c] \in Paths
  BY DEF TypeInv, TypeOK
<1>1. /\ Only(c) /\ UNCHANGED <<tool, got, child, file, renamed>>
      /\ step[c] \notin {"idle", "done", "lost"} /\ step'[c] = "done"
  <2>1. CASE OpenFails(c) \/ SpawnFails(c)
    BY <2>1, <1>0 DEF OpenFails, SpawnFails, Go, Return, Only, TypeOK, arguments, local, files
  <2>2. CASE FillFails(c) \/ PutReturns(c)
    BY <2>2, <1>0 DEF FillFails, PutReturns, Go, Return, Only, TypeOK, arguments, local, files
  <2>3. CASE ReadRefused(c)
    BY <2>3, <1>0 DEF ReadRefused, Go, Return, Only, TypeOK, arguments, local, files
  <2>4. CASE BashReturns(c) \/ BashTimesOut(c)
    BY <2>4, <1>0 DEF BashReturns, BashTimesOut, Go, Return, Only, TypeOK, arguments, local,
                      files
  <2> QED BY <2>1, <2>2, <2>3, <2>4
<1>2. Shown' = Shown
  <2>1. CASE FillFails(c)
    <3>1. data' = [data EXCEPT ![fd[c]] = [data[fd[c]] EXCEPT !.whole = FALSE]]
      BY <2>1 DEF FillFails
    <3>2. fd[c] \in Inodes /\ \A j \in Inodes : data[j] \in Texts
      BY <1>0 DEF TypeOK
    <3>3. \A j \in Inodes : data'[j].lines = data[j].lines
      BY <3>1, <3>2, <1>0 DEF TypeOK, Texts
    <3>4. \A p \in Paths : file[p] \in Inodes \union {NoFile}
      BY <1>0 DEF TypeOK
    <3> QED BY <3>3, <3>4, <1>1, ShownSame DEF Same
  <2>2. CASE ~FillFails(c)
    BY <2>2, <1>1, ShownStill DEF OpenFails, PutReturns, ReadRefused, SpawnFails, BashReturns,
                                  BashTimesOut, files
  <2> QED BY <2>1, <2>2
<1>3. answer[c] = "none"
  BY <1>0, <1>1 DEF Fits
<1>4. /\ Kind'[c] = Kind[c] /\ Kind[c] # "none" /\ Told[c] = "none" /\ Told'[c] = "err"
      /\ ReadBy'[c] = ReadBy[c] /\ (c \in PutBy' <=> c \in PutBy)
      /\ Kind[c] = "file_write" => c \notin PutBy
  <2>1. tool[c] # "none"
    BY <1>0 DEF TypeOK, Tools
  <2>2. tool[c] = "file_write" => c \notin renamed /\ child[c] # "wrote"
    BY <1>0, <1>1 DEF Fits
  <2> QED BY <2>1, <2>2, <1>1, <1>3, SeenOf
<1>5. UNCHANGED <<Kind, PutBy, ReadBy>> /\ Told' = [Told EXCEPT ![c] = "err"]
  BY <1>1, <1>4, SeenOfOthers, SeenOfNone DEF TypeInv
<1> QED BY <1>2, <1>4, <1>5, Fails

\* The call of a write or a command succeeds once its line is there, a search
\* whenever.
LEMMA SuccessSucceeds ==
    ASSUME TypeInv, TypeInv', Orderly, Orderly', NEW c \in Calls, path' = path,
           answer'[c] # "err", tool[c] # "file_edit",
           \/ PutReturns(c) \/ BashReturns(c) \/ GrepCut(c) \/ WalkEnds(c)
           \/ GlobEntry(c) /\ answer' # answer
    PROVE  Contract!Succeed(c)
<1>0. TypeOK /\ Fits(c) /\ Fits(c)'
  BY DEF TypeInv
<1>1. /\ Only(c) /\ UNCHANGED <<tool, got, child, file, data, renamed>>
      /\ step[c] \in {"renamed", "running", "walk"} /\ step'[c] = "done"
      /\ answer'[c] \in {"ok", "cut"}
      /\ step[c] = "running" => child[c] = "wrote"
  <2>1. CASE BashReturns(c)
    BY <2>1, <1>0 DEF BashReturns, Go, Return, Only, TypeOK, arguments, local, files
  <2>0. CASE PutReturns(c)
    BY <2>0, <1>0 DEF PutReturns, Go, Return, Only, Fits, TypeOK, arguments, local, files
  <2>2. CASE GrepCut(c) \/ WalkEnds(c)
    BY <2>2, <1>0 DEF GrepCut, WalkEnds, Go, Return, Only, TypeOK, arguments, local, files
  <2>3. CASE GlobEntry(c) /\ answer' # answer
    <3>1. Return(c, "walk", "cut")
      BY <2>3 DEF GlobEntry
    <3>2. UNCHANGED <<tool, got, child, file, data, renamed>>
      BY <2>3 DEF GlobEntry, arguments, files
    <3> QED BY <3>1, <3>2, <1>0 DEF Return, Go, Only, TypeOK
  <2> QED BY <2>0, <2>1, <2>2, <2>3
<1>2. answer[c] = "none" /\ (step[c] = "renamed" => tool[c] = "file_write" /\ c \in renamed)
      /\ (step[c] = "running" => tool[c] = "bash")
      /\ (step[c] = "walk" => tool[c] \in {"grep", "glob"})
  BY <1>0, <1>1 DEF Fits
<1>3. /\ Kind'[c] = Kind[c] /\ Told[c] = "none" /\ Told'[c] = answer'[c]
      /\ ReadBy'[c] = ReadBy[c] /\ (c \in PutBy' <=> c \in PutBy)
      /\ (Kind[c] \in {"file_write", "bash"} /\ c \in PutBy) \/ Kind[c] \in {"grep", "glob"}
  BY <1>1, <1>2, SeenOf
<1>4. UNCHANGED <<Kind, PutBy, ReadBy>> /\ Told' = [Told EXCEPT ![c] = answer'[c]]
  BY <1>1, <1>3, SeenOfOthers, SeenOfNone DEF TypeInv
<1> QED BY <1>1, <1>3, <1>4, ShownStill, Succeeds

\* The rename replaces the file with the call's own text, whoever held it.
LEMMA RenameReplaces ==
    ASSUME TypeInv, TypeInv', Orderly, Orderly', Good, NEW c \in Calls, path' = path,
           Rename(c)
    PROVE  Contract!Replace(c)
<1> DEFINE p == path[c]
<1>0. TypeOK /\ Fits(c) /\ p \in Paths
  BY DEF TypeInv, TypeOK
<1>1. /\ Only(c) /\ UNCHANGED <<tool, got, answer, child, data>>
      /\ step[c] = "rename" /\ step'[c] = "renamed" /\ renamed' = renamed \union {c}
      /\ tool[c] = "file_write"
      /\ file'[p] = tmp[p] /\ \A q \in Paths : q # p => file'[q] = file[q]
  BY <1>0 DEF Rename, ReplaceFile, Go, Only, Fits, TypeOK, arguments, local
<1>2. tmp[p] # NoFile /\ data[tmp[p]].lines = <<c>>
  <2>1. Lone(c)
    BY DEF Good
  <2>2. tmp[p] # NoFile /\ data[tmp[p]] = [whole |-> TRUE, lines |-> <<c>>]
    BY <1>1, <2>1 DEF Lone
  <2> QED BY <2>2
<1>3. Shown' = [Shown EXCEPT ![p] = <<c>>]
  BY <1>0, <1>1, <1>2, ShownPut DEF Same
<1>4. /\ Kind'[c] = Kind[c] /\ Kind[c] = "file_write" /\ Told[c] = "none"
      /\ Told'[c] = Told[c] /\ ReadBy'[c] = ReadBy[c] /\ c \in PutBy' /\ c \notin PutBy
  <2>1. answer[c] = "none" /\ c \notin renamed /\ child[c] = "none"
    BY <1>0, <1>1 DEF Fits
  <2> QED BY <2>1, <1>1, SeenOf
<1>5. UNCHANGED <<Kind, ReadBy, Told>> /\ PutBy' = PutBy \union {c}
  BY <1>1, <1>4, SeenOfOthers, SeenOfNone DEF TypeInv
<1> QED BY <1>3, <1>4, <1>5, Replaces

\* A command appends to whatever its file's text is then.
LEMMA CommandAdds ==
    ASSUME TypeInv, TypeInv', Orderly, Orderly', Good, NEW c \in Calls, path' = path,
           ChildWrites(c)
    PROVE  Contract!Add(c)
<1> DEFINE p == path[c]
           i == Opened(file, c)
<1>0. TypeOK /\ Fits(c) /\ p \in Paths /\ c \in Inodes /\ c # NoFile
  BY ToolsAssumption DEF TypeInv, TypeOK, Inodes
<1>1. /\ Only(c) /\ UNCHANGED <<step, tool, got, answer, renamed>>
      /\ child[c] = "running" /\ child'[c] = "wrote" /\ tool[c] = "bash"
  BY <1>0 DEF ChildWrites, Only, Fits, TypeOK, arguments, local
<1>2. /\ i \in Inodes /\ Of(i) = p /\ i # NoFile
  BY <1>1, OpenedIs DEF Unopened
<1>3. /\ file' = [file EXCEPT ![p] = i]
      /\ data' = [data EXCEPT ![i] =
                     IF file[p] = NoFile
                     THEN [whole |-> TRUE, lines |-> <<c>>]
                     ELSE [whole |-> data[i].whole, lines |-> Append(data[i].lines, c)]]
  BY DEF ChildWrites
<1>4. file[p] # NoFile => i = file[p]
  BY DEF Opened
<1> HIDE DEF i
<1>5. file'[p] = i /\ \A q \in Paths : q # p => file'[q] = file[q]
  BY <1>0, <1>3 DEF TypeOK
<1>6. \A j \in Inodes : j # i => data'[j] = data[j]
  BY <1>2, <1>3, <1>0 DEF TypeOK
<1>7. data'[i].lines = IF Shown[p] = NoFile THEN <<c>> ELSE Append(Shown[p], c)
  <2>1. CASE file[p] = NoFile
    <3>1. Shown[p] = NoFile
      BY <2>1, <1>0 DEF Shown
    <3>2. data'[i] = [whole |-> TRUE, lines |-> <<c>>]
      BY <2>1, <1>0, <1>2, <1>3 DEF TypeOK
    <3> QED BY <3>1, <3>2
  <2>2. CASE file[p] # NoFile
    <3>1. Shown[p] = data[i].lines
      BY <2>2, <1>0, <1>4 DEF Shown
    <3>2. Shown[p] # NoFile
      <4>1. Shown[p] \in Seq(Calls)
        BY <3>1, <1>0, <1>2 DEF TypeOK, Texts
      <4> QED BY <4>1, NoTextAssumption
    <3>3. data'[i] = [whole |-> data[i].whole, lines |-> Append(data[i].lines, c)]
      BY <2>2, <1>0, <1>2, <1>3 DEF TypeOK
    <3> QED BY <3>1, <3>2, <3>3
  <2> QED BY <2>1, <2>2
<1>8. ASSUME NEW q \in Paths, q # p PROVE Same(q)
  <2>1. Owned(q) /\ file[q] \in Inodes \union {NoFile}
    BY <1>0 DEF Good, TypeOK
  <2>2. file[q] # i
    BY <1>2, <1>8, <2>1 DEF Owned
  <2> QED BY <1>5, <1>6, <1>8, <2>1, <2>2 DEF Same
<1>9. Shown' = [Shown EXCEPT ![p] = IF Shown[p] = NoFile THEN <<c>> ELSE Append(Shown[p], c)]
  BY <1>0, <1>2, <1>5, <1>7, <1>8, ShownPut
<1>10. /\ Kind'[c] = Kind[c] /\ Kind[c] = "bash" /\ Told[c] # "ok" /\ Told'[c] = Told[c]
       /\ ReadBy'[c] = ReadBy[c] /\ c \notin PutBy /\ c \in PutBy'
  <2>1. answer[c] # "ok" /\ step[c] # "idle" /\ c \notin renamed
    BY <1>0, <1>1 DEF Fits
  <2> QED BY <2>1, <1>1, SeenOf
<1>11. UNCHANGED <<Kind, ReadBy, Told>> /\ PutBy' = PutBy \union {c}
  BY <1>1, <1>10, SeenOfOthers, SeenOfNone DEF TypeInv
<1> QED BY <1>9, <1>10, <1>11, Adds

\* A read returns the text its file has as it answers.
LEMMA LoadReads ==
    ASSUME TypeInv, TypeInv', Orderly, Orderly', NEW c \in Calls, path' = path,
           ReadLoad(c)
    PROVE  Contract!Read(c)
<1> DEFINE p == path[c]
<1>0. TypeOK /\ Fits(c) /\ p \in Paths
  BY DEF TypeInv, TypeOK
<1>1. /\ UNCHANGED <<tool, child, file, data, renamed>> /\ file[p] # NoFile
      /\ step[c] = "load" /\ step'[c] = "done" /\ answer'[c] = "ok"
      /\ got'[c] = data[file[p]]
      /\ \A d \in Calls : d # c => /\ step'[d] = step[d] /\ answer'[d] = answer[d]
                                   /\ got'[d] = got[d]
  <2>1. step' = [step EXCEPT ![c] = "done"] /\ answer' = [answer EXCEPT ![c] = "ok"]
        /\ got' = [got EXCEPT ![c] = data[file[p]]]
    BY DEF ReadLoad, Go, Return
  <2>2. UNCHANGED <<tool, child, file, data, renamed>> /\ file[p] # NoFile /\ step[c] = "load"
    BY DEF ReadLoad, Go, Return, arguments, files
  <2> QED BY <2>1, <2>2, <1>0 DEF TypeOK
<1>2. Only(c)
  BY <1>1 DEF Only
<1>3. Shown[p] = data[file[p]].lines /\ Shown[p] # NoFile
  <2>1. Shown[p] = data[file[p]].lines
    BY <1>0, <1>1 DEF Shown
  <2>2. Shown[p] \in Seq(Calls)
    BY <2>1, <1>0, <1>1 DEF TypeOK, Texts
  <2> QED BY <2>1, <2>2, NoTextAssumption
<1>4. answer[c] = "none" /\ tool[c] = "file_read"
  BY <1>0, <1>1 DEF Fits
<1>5. /\ Kind'[c] = Kind[c] /\ Kind[c] = "file_read" /\ Told[c] = "none" /\ Told'[c] = "ok"
      /\ ReadBy'[c] = Shown[p] /\ (c \in PutBy' <=> c \in PutBy)
  BY <1>1, <1>3, <1>4, SeenOf
<1>6. /\ UNCHANGED <<Kind, PutBy>> /\ Told' = [Told EXCEPT ![c] = "ok"]
      /\ ReadBy' = [ReadBy EXCEPT ![c] = Shown[p]]
  BY <1>2, <1>5, SeenOfOthers, SeenOfNone DEF TypeInv
<1> QED BY <1>1, <1>3, <1>5, <1>6, ShownStill, Reads

\* A task that panics is lost, and the process's death loses all.
LEMMA DeathLoses ==
    ASSUME TypeInv, Orderly, Orderly', path' = path,
           Crash \/ \E c \in Calls : ReadPanics(c)
    PROVE  \E gone \in SUBSET Calls : Contract!Lose(gone)
<1>0. TypeOK /\ \A d \in Calls : Fits(d) /\ tool[d] # "none"
  BY DEF TypeInv, TypeOK, Tools
<1>1. PICK gone \in SUBSET Calls :
        /\ \A d \in gone : InFlight(d)
        /\ \A d \in Calls : step'[d] = IF d \in gone THEN "lost" ELSE step[d]
        /\ UNCHANGED <<tool, child, answer, file, data, renamed>>
        /\ \A d \in Calls : d \notin gone \/ tool[d] # "file_read" \/ answer[d] = "ok"
              => got'[d] = got[d]
  <2>1. CASE Crash
    <3> DEFINE gone == {d \in Calls : InFlight(d)}
    <3>1. /\ step' = [d \in Calls |-> IF InFlight(d) THEN "lost" ELSE step[d]]
          /\ UNCHANGED <<tool, child, answer, file, data, got, renamed>>
      BY <2>1 DEF Crash, arguments, local, files
    <3>2. /\ gone \in SUBSET Calls /\ \A d \in gone : InFlight(d)
          /\ \A d \in Calls : step'[d] = IF d \in gone THEN "lost" ELSE step[d]
      BY <3>1
    <3> HIDE DEF gone
    <3> QED BY <3>1, <3>2
  <2>2. CASE \E c \in Calls : ReadPanics(c)
    <3>1. PICK c \in Calls : ReadPanics(c)
      BY <2>2
    <3>2. /\ step[c] = "load" /\ step' = [step EXCEPT ![c] = "lost"]
          /\ got' = [got EXCEPT ![c] = data[file[path[c]]]]
          /\ UNCHANGED <<tool, child, answer, file, data, renamed>>
      BY <3>1 DEF ReadPanics, Go, arguments, files
    <3>3. InFlight(c) /\ tool[c] = "file_read" /\ answer[c] # "ok"
      BY <3>2, <1>0 DEF InFlight, Fits
    <3>4. \A d \in Calls : step'[d] = IF d \in {c} THEN "lost" ELSE step[d]
      BY <3>2, <1>0 DEF TypeOK
    <3>5. \A d \in Calls : d # c => got'[d] = got[d]
      BY <3>2, <1>0 DEF TypeOK
    <3>6. {c} \in SUBSET Calls
      BY <3>1
    <3> QED BY <3>2, <3>3, <3>4, <3>5, <3>6
  <2> QED BY <2>1, <2>2
<1>2. ASSUME NEW d \in Calls
      PROVE  /\ Kind'[d] = Kind[d] /\ ReadBy'[d] = ReadBy[d]
             /\ (d \in PutBy' <=> d \in PutBy)
             /\ Told'[d] = IF d \in gone THEN "lost" ELSE Told[d]
             /\ d \in gone => Kind[d] # "none" /\ Told[d] = "none"
  <2>1. d \in gone => answer[d] = "none"
    BY <1>0, <1>1 DEF Fits, InFlight
  <2>2. step'[d] = (IF d \in gone THEN "lost" ELSE step[d]) /\ tool[d] # "none"
        /\ tool'[d] = tool[d] /\ child'[d] = child[d] /\ answer'[d] = answer[d]
        /\ (tool[d] = "file_read" /\ answer[d] = "ok" => got'[d] = got[d])
        /\ (d \in gone => step[d] \notin {"idle", "lost"})
        /\ renamed' = renamed
    BY <1>0, <1>1, <2>1 DEF InFlight
  <2> QED BY <2>1, <2>2, SeenOf
<1>3. Kind' = Kind /\ ReadBy' = ReadBy
      /\ Told' = [d \in Calls |-> IF d \in gone THEN "lost" ELSE Told[d]]
  <2>1. Kind' = Kind
    BY <1>2 DEF Kind
  <2>2. ReadBy' = ReadBy
    BY <1>2 DEF ReadBy
  <2>3. Told' = [d \in Calls |-> IF d \in gone THEN "lost" ELSE Told[d]]
    BY <1>2 DEF Told
  <2> QED BY <2>1, <2>2, <2>3
<1>4. PutBy' = PutBy
  <2>1. PutBy' = renamed \union {d \in Calls : child[d] = "wrote"}
    BY <1>1 DEF PutBy
  <2> QED BY <2>1 DEF PutBy
<1>5. Contract!Lose(gone)
  BY <1>1, <1>2, <1>3, <1>4, ShownStill, Loses
<1> QED BY <1>5

\* A call that is made, or refused.
LEMMA CallAsks ==
    ASSUME TypeInv, TypeInv', Orderly, Orderly', path' = path, NEW c \in Calls
    PROVE  /\ \A t \in Tools : Invoke(c, t) => Contract!Ask(c, t)
           /\ Refuse(c) => Contract!Refuse(c, "bash")
<1>0. TypeOK /\ Fits(c) /\ Fits(c)' /\ "bash" \in Tools
  BY DEF TypeInv, Tools
<1>1. ASSUME NEW t \in Tools, Invoke(c, t) PROVE Contract!Ask(c, t)
  <2>1. /\ Only(c) /\ UNCHANGED <<got, child, file, data, answer, renamed>>
        /\ step[c] = "idle" /\ step'[c] = FirstStep[t] /\ tool'[c] = t
    BY <1>0, <1>1 DEF Invoke, Go, Only, TypeOK, files
  <2>2. FirstStep[t] \notin {"idle", "done", "lost"}
    BY DEF FirstStep, Tools
  <2>3. answer[c] = "none" /\ child[c] = "none"
    BY <1>0, <2>1 DEF Fits
  <2>4. /\ Kind[c] = "none" /\ Kind'[c] = t /\ Told[c] = "none" /\ Told'[c] = Told[c]
        /\ ReadBy'[c] = ReadBy[c] /\ (c \in PutBy' <=> c \in PutBy)
    BY <2>1, <2>2, <2>3, SeenOf
  <2>5. UNCHANGED <<PutBy, ReadBy, Told>> /\ Kind' = [Kind EXCEPT ![c] = t]
    BY <2>1, <2>4, SeenOfOthers, SeenOfNone DEF TypeInv
  <2> QED BY <2>1, <2>4, <2>5, ShownStill, Asks
<1>2. ASSUME Refuse(c) PROVE Contract!Refuse(c, "bash")
  <2>1. /\ Only(c) /\ UNCHANGED <<tool, got, child, file, data, renamed>>
        /\ step[c] = "idle" /\ step'[c] = "done" /\ answer'[c] = "err"
    BY <1>0, <1>2 DEF Refuse, Return, Go, Only, TypeOK, arguments, local, files
  <2>2. answer[c] = "none" /\ child[c] = "none" /\ tool[c] = "bash"
    BY <1>0, <2>1 DEF Fits
  <2>3. /\ Kind[c] = "none" /\ Kind'[c] = "bash" /\ Told[c] = "none" /\ Told'[c] = "err"
        /\ ReadBy'[c] = ReadBy[c] /\ (c \in PutBy' <=> c \in PutBy)
    BY <2>1, <2>2, SeenOf
  <2>4. /\ UNCHANGED <<PutBy, ReadBy>> /\ Kind' = [Kind EXCEPT ![c] = "bash"]
        /\ Told' = [Told EXCEPT ![c] = "err"]
    BY <2>1, <2>3, SeenOfOthers, SeenOfNone DEF TypeInv
  <2> QED BY <1>0, <2>1, <2>3, <2>4, ShownStill, Refuses
<1> QED BY <1>1, <1>2

\* While the callers keep to their side, every step is one of the contract's
\* or is not seen.
LEMMA StepKeepsContract ==
    ASSUME TypeInv, TypeInv', GoodInv, [Next]_vars, Orderly'
    PROVE  Contract!Next \/ UNCHANGED Contract!contract
<1>0. TypeOK /\ path' = path /\ given' = given /\ \A c \in Calls : Fits(c) /\ Lasting(c)
  BY Lasts DEF TypeInv
<1>1. Orderly /\ Good /\ \A c \in Calls : tool[c] # "file_edit"
  <2>1. ~Overlap /\ Good
    BY <1>0 DEF Orderly, Overlap, GoodInv
  <2>2. ASSUME NEW c \in Calls PROVE tool[c] # "file_edit"
    BY <1>0 DEF Orderly, Lasting, Fits
  <2> QED BY <2>1, <2>2 DEF Orderly
<1>2. ASSUME NEW c \in Calls, (\E t \in Tools : Invoke(c, t)) \/ Refuse(c) PROVE Contract!Next
  <2>1. (\E t \in Tools : Contract!Ask(c, t)) \/ Contract!Refuse(c, "bash")
    BY <1>0, <1>1, <1>2, CallAsks
  <2> QED BY <2>1 DEF Contract!Next, Tools
<1>3. ASSUME NEW c \in Calls, Run(c) PROVE Contract!Next \/ Unseen
  <2>1. ~EditRead(c) /\ ~EditRefused(c) /\ ~EditOpen(c)
    BY <1>0, <1>1 DEF EditRead, EditRefused, EditOpen, Return, Go, Fits
  <2>2. CASE WriteOpen(c) \/ Fill(c) \/ RenameFails(c) \/ Unlink(c)
    BY <2>2, <1>0, <1>1, WriteUnseen
  <2>3. CASE ReadStat(c) \/ Spawn(c) \/ GrepEntry(c) \/ (GlobEntry(c) /\ answer' = answer)
    BY <2>3, <1>0, CourseUnseen
  <2>4. CASE \/ OpenFails(c) \/ FillFails(c) \/ ReadRefused(c) \/ SpawnFails(c)
             \/ (BashReturns(c) /\ answer'[c] = "err") \/ BashTimesOut(c)
             \/ (PutReturns(c) /\ answer'[c] = "err")
    <3>1. answer'[c] = "err"
      BY <2>4, <1>0 DEF OpenFails, FillFails, ReadRefused, SpawnFails, BashTimesOut,
                        Return, TypeOK
    <3>2. Contract!Fail(c)
      BY <2>4, <3>1, <1>0, <1>1, FailureFails
    <3> QED BY <3>2 DEF Contract!Next
  <2>5. CASE \/ (BashReturns(c) /\ answer'[c] # "err")
             \/ (PutReturns(c) /\ answer'[c] # "err")
             \/ GrepCut(c) \/ WalkEnds(c) \/ (GlobEntry(c) /\ answer' # answer)
    <3>1. answer'[c] # "err"
      BY <2>5, <1>0 DEF GrepCut, WalkEnds, GlobEntry, Return, TypeOK
    <3>2. Contract!Succeed(c)
      BY <2>5, <3>1, <1>0, <1>1, SuccessSucceeds
    <3> QED BY <3>2 DEF Contract!Next
  <2>6. CASE Rename(c)
    <3>1. Contract!Replace(c)
      BY <2>6, <1>0, <1>1, RenameReplaces
    <3> QED BY <3>1 DEF Contract!Next
  <2>7. CASE ReadLoad(c)
    <3>1. Contract!Read(c)
      BY <2>7, <1>0, <1>1, LoadReads
    <3> QED BY <3>1 DEF Contract!Next
  <2>8. CASE ReadPanics(c)
    <3>1. \E gone \in SUBSET Calls : Contract!Lose(gone)
      BY <2>8, <1>0, <1>1, DeathLoses
    <3> QED BY <3>1 DEF Contract!Next
  <2> QED BY <1>3, <2>1, <2>2, <2>3, <2>4, <2>5, <2>6, <2>7, <2>8
          DEF Run, Write, Edit, Put, Read, Bash, Search
<1>4. ASSUME NEW c \in Calls, ChildWrites(c) PROVE Contract!Next
  <2>1. Contract!Add(c)
    BY <1>0, <1>1, <1>4, CommandAdds
  <2> QED BY <2>1 DEF Contract!Next
<1>5. ASSUME NEW c \in Calls, ChildFails(c) PROVE Unseen
  BY <1>0, <1>5, CourseUnseen
<1>6. CASE Crash
  <2>1. \E gone \in SUBSET Calls : Contract!Lose(gone)
    BY <1>0, <1>1, <1>6, DeathLoses
  <2> QED BY <2>1 DEF Contract!Next
<1>7. CASE UNCHANGED vars
  BY <1>7 DEF vars, arguments, local, files, Unseen, Shown, Kind, PutBy, ReadBy, Told,
              Contract!contract, Orderly, Overlap
<1>8. Unseen => UNCHANGED Contract!contract
  BY <1>1, UnseenIs
<1> QED BY <1>2, <1>3, <1>4, <1>5, <1>6, <1>7, <1>8 DEF Next

\* FileTools implements FilesContract: for any calls, files, faults, timeouts
\* and deaths of the process, as long as the calls that write one file take
\* turns and none edits, every file is replaced, appended to and read in one
\* step, and every answer says which of these happened (file_write.rs:1).
THEOREM KeepsContractHolds == Spec => KeepsContract
<1>1. Init => (Orderly => Contract!Init)
  <2> SUFFICES ASSUME Init PROVE Contract!Init
    OBVIOUS
  <2>1. /\ path \in [Calls -> Paths] /\ \A c \in Calls : /\ step[c] = "idle" /\ tool[c] = "bash"
                                                       /\ answer[c] = "none" /\ child[c] = "none"
        /\ renamed = {}
    BY DEF Init
  <2>2. Shown \in [Paths -> {<<>>, NoFile}]
    <3>1. \A p \in Paths : p \in Inodes /\ (file[p] = p \/ file[p] = NoFile)
      BY DEF Init, Inodes
    <3>2. \A p \in Paths : data[p].lines = <<>>
      BY <3>1 DEF Init
    <3> QED BY <3>1, <3>2 DEF Shown
  <2>3. Kind = [c \in Calls |-> "none"] /\ PutBy = {} /\ ReadBy = [c \in Calls |-> <<>>]
        /\ Told = [c \in Calls |-> "none"]
    BY <2>1 DEF Kind, PutBy, ReadBy, Told
  <2> QED BY <2>1, <2>2, <2>3 DEF Contract!Init, Shown, Kind, PutBy, ReadBy, Told
<1>2. TypeInv /\ TypeInv' /\ GoodInv /\ [Next]_vars
        => [Orderly' => Contract!Next]_(Contract!contract)
  BY StepKeepsContract
<1> QED BY <1>1, <1>2, TypeInvHolds, GoodHolds, PTL DEF Spec, KeepsContract, Contract!Spec

=============================================================================
