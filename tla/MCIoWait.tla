------------------------------ MODULE MCIoWait ------------------------------
(* Instances of IoWait for TLC: on one descriptor, a reader that can be    *)
(* cancelled, a writer, and a task that reads.                             *)
EXTENDS IoWait, TLC

CONSTANTS reader, writer, task

MCKind == [c \in Callers |-> IF c = reader THEN "wait" ELSE IF c = writer THEN "op" ELSE "taskop"]
MCDir == [c \in Callers |-> IF c = writer THEN "write" ELSE "read"]
=============================================================================
