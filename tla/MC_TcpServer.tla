---------------------------- MODULE MC_TcpServer ----------------------------
(* Instantiation of TcpServer for TLC.                                     *)
EXTENDS TcpServer, TLC

CONSTANTS w1, w2, c1, c2

MCWorkers == {w1, w2}
MCOneWorker == {w1}
MCClients == {c1, c2}

\* Workers and clients are interchangeable: used by the safety runs only.
MCSymmetry == Permutations(MCWorkers) \cup Permutations(MCClients)
=============================================================================
