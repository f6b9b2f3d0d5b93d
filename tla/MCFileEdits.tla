----------------------------- MODULE MCFileEdits -----------------------------
(***************************************************************************)
(* FileEdits with calls that name one file by two paths, a rewrite among   *)
(* edits, and a second file beside it.                                     *)
(***************************************************************************)
EXTENDS FileEdits

CONSTANTS edit1, edit2, rewrite, other, file, otherFile, link

MCOps == {edit1, edit2, rewrite, other}
MCFiles == {file, otherFile}
MCPaths == MCFiles \cup {link}
MCTarget == [p \in MCPaths |-> IF p = link THEN file ELSE p]
MCPath == [o \in MCOps |-> CASE o = edit1 -> link
                             [] o = other -> otherFile
                             [] OTHER -> file]
MCRewrites == {rewrite}
MCAbortable == {edit1}

==============================================================================
