-------------------------- MODULE MCCuratorWorker --------------------------
(* Three rows: one due at start, one waiting, one yet to be enqueued.      *)
EXTENDS CuratorWorker

CONSTANTS j1, j2, j3
=============================================================================
