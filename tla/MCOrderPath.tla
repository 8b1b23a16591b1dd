---------------------------- MODULE MCOrderPath ----------------------------
(***************************************************************************)
(* OrderPath up to a renaming of the client ids, which are interchangeable *)
(* (a symmetry set would not be sound for Served): one process has a known *)
(* id, and the others have the same one or another.                        *)
(***************************************************************************)
EXTENDS OrderPath

CONSTANTS AProcess, AClient   \* any of Processes and of Clients

MCInit == Init /\ gateway[AProcess].client_id_ = AClient

MCSpec == MCInit /\ [][Next]_vars /\ Fairness
=============================================================================
