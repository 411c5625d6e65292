---------------------------- MODULE MCThreadPool ----------------------------
(* ThreadPool for TLC. *)
EXTENDS ThreadPool

CONSTANTS w1, w2, c1, c2, j1, j2, own, cjl

WorkerSet == {w1, w2}
ClientSet == {c1, c2}
JobSet == {j1, j2}
ListSet == {own, cjl}
=============================================================================
