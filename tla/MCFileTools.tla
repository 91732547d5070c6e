---------------------------- MODULE MCFileTools -----------------------------
(* Instances of FileTools for TLC: three calls on one or two files.         *)
EXTENDS FileTools, TLC

CONSTANTS c1, c2, c3, p1, p2

ThreeCalls == {c1, c2, c3}
OnePath    == {p1}
TwoPaths   == {p1, p2}

Case(tools, may) == [tools |-> tools, may |-> may]

\* Each property has a case in which everything happens it allows for.
ToolCases == {Case({"file_write", "file_edit", "bash"}, {"fault"}),
              Case({"file_write", "file_edit", "bash"}, {"crash"}),
              Case({"file_write", "bash", "grep"}, {}),
              Case({"file_read", "bash"}, {"overlap"}),
              Case({"glob", "bash"}, {"fault"}),
              Case({"file_write", "file_read"}, {})}

TwoWriters == {Case({"file_write"}, {"overlap"})}

SomeOffsets == {None, 1}
SomeLimits  == {None, 1, 7}

=============================================================================
