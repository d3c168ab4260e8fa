----------------------------- MODULE MCFileLog -----------------------------
(***************************************************************************)
(* FileLog with crashes of the machine, or with kills of the process and a  *)
(* removal that fails.                                                      *)
(***************************************************************************)
EXTENDS FileLog

ASSUME FileLogAssumption

MCNext ==
    /\ Next
    /\ \/ kills' = 0 /\ errors' = 0
       \/ crashes' = 0 /\ acked' <= 2

MCSpec == Init /\ [][MCNext]_vars

\* A log that opens finds every acknowledged record, and it opens unless a crash
\* left a file without its header.
OpensWithAcked == TypeOK /\ RecoversAcked /\ RefusesOnlyHeaderless
=============================================================================
