---------------------------- MODULE FilesContract ----------------------------
(***************************************************************************)
(* What the file tools (crates/tools/src) promise an agent whose calls that *)
(* write one file take turns and do not edit it: a workspace of files, each *)
(* replaced, appended to and read in one step.  A file_write replaces its   *)
(* file once at most: before it answers, if it succeeds, and never, if it   *)
(* reports an error; one whose process dies may have replaced it or not.    *)
(* A command appends its line once at most, and before its call reports     *)
(* success; it outlives a call that does not.  A text is the sequence of    *)
(* the calls that put its lines there.                                      *)
(***************************************************************************)
EXTENDS Sequences

CONSTANTS Calls,   \* calls of tools (each is made at most once)
          Paths,   \* files
          Tools,   \* the tools
          NoText   \* there is no such file

VARIABLES orderly,  \* do the callers keep to their side?
          text,     \* path -> the file's lines
          path,     \* the file each call names
          kind,     \* the tool it runs, "none" before
          put,      \* the calls whose line was put into their file
          read,     \* the lines a file_read was given
          answer    \* "none", "ok", "cut", "err", or "lost" with its task

contract == <<orderly, text, path, kind, put, read, answer>>

-----------------------------------------------------------------------------
Init == /\ text \in [Paths -> {<<>>, NoText}]
        /\ path \in [Calls -> Paths]
        /\ kind = [c \in Calls |-> "none"]
        /\ put = {}
        /\ read = [c \in Calls |-> <<>>]
        /\ answer = [c \in Calls |-> "none"]

Runs(c, tool) == kind[c] = tool /\ answer[c] = "none"

Answers(c, result) == answer' = [answer EXCEPT ![c] = result]

Ask(c, tool) ==
    /\ Runs(c, "none")
    /\ kind' = [kind EXCEPT ![c] = tool]
    /\ UNCHANGED <<orderly, text, path, put, read, answer>>

Refuse(c, tool) ==
    /\ Runs(c, "none")
    /\ kind' = [kind EXCEPT ![c] = tool]
    /\ Answers(c, "err")
    /\ UNCHANGED <<orderly, text, path, put, read>>

Replace(c) ==
    /\ Runs(c, "file_write")
    /\ c \notin put
    /\ text' = [text EXCEPT ![path[c]] = <<c>>]
    /\ put' = put \union {c}
    /\ UNCHANGED <<orderly, path, kind, read, answer>>

\* A command's own step: its call may have ended without it.
Add(c) ==
    /\ kind[c] = "bash"
    /\ answer[c] # "ok"
    /\ c \notin put
    /\ text' = [text EXCEPT ![path[c]] = IF @ = NoText THEN <<c>> ELSE Append(@, c)]
    /\ put' = put \union {c}
    /\ UNCHANGED <<orderly, path, kind, read, answer>>

Read(c) ==
    /\ Runs(c, "file_read")
    /\ text[path[c]] # NoText
    /\ read' = [read EXCEPT ![c] = text[path[c]]]
    /\ Answers(c, "ok")
    /\ UNCHANGED <<orderly, text, path, kind, put>>

\* A write and a command succeed once they have written; what a search prints
\* is left open.
Succeed(c) ==
    /\ \/ Runs(c, "file_write") /\ c \in put
       \/ Runs(c, "bash") /\ c \in put
       \/ Runs(c, "grep")
       \/ Runs(c, "glob")
    /\ \E result \in {"ok", "cut"} : Answers(c, result)
    /\ UNCHANGED <<orderly, text, path, kind, put, read>>

Fail(c) ==
    /\ kind[c] # "none" /\ answer[c] = "none"
    /\ kind[c] = "file_write" => c \notin put
    /\ Answers(c, "err")
    /\ UNCHANGED <<orderly, text, path, kind, put, read>>

\* Tasks are lost, alone or with their process.
Lose(calls) ==
    /\ \A c \in calls : kind[c] # "none" /\ answer[c] = "none"
    /\ answer' = [c \in Calls |-> IF c \in calls THEN "lost" ELSE answer[c]]
    /\ UNCHANGED <<orderly, text, path, kind, put, read>>

Next == \/ \E c \in Calls : \/ \E tool \in Tools : Ask(c, tool) \/ Refuse(c, tool)
                            \/ Replace(c) \/ Add(c) \/ Read(c)
                            \/ Succeed(c) \/ Fail(c)
        \/ \E calls \in SUBSET Calls : Lose(calls)

\* A caller that does not keep to its side frees the tools of theirs for good.
Spec == (orderly => Init) /\ [][orderly' => Next]_contract

=============================================================================
