-------------------------- MODULE MCSubprocessMgr --------------------------
(* SubprocessMgr for TLC.                                                  *)
EXTENDS SubprocessMgr

CONSTANTS c1, c2, h1, h2

\* Commands that need no reader of their output: with an input that fits a stdio
\* buffer or is longer than a pipe, read or not, descendants, early closing.
MCAll == {p \in ProgramType : ~p.floods /\ p.input # "empty" /\ p.reads # "some"}

\* The second handler fails for the second child.
MCRaising == [c \in Children |-> IF c = c2 THEN {h2} ELSE {}]
=============================================================================
