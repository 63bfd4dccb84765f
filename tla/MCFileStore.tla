------------------------------ MODULE MCFileStore ------------------------------
(* A submission, which has a directory of its own, and two uploads of one user. *)
EXTENDS FileStore

CONSTANTS s1, u1, u2, p1, home

MCPrinterOf == [j \in {s1} |-> p1]
MCDirOf == [j \in {s1, u1, u2} |-> IF j = s1 THEN j ELSE home]
================================================================================
