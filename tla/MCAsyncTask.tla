---------------------------- MODULE MCAsyncTask ----------------------------
(***************************************************************************)
(* Small instances of the asynchronous tasks for TLC.                      *)
(***************************************************************************)
EXTENDS AsyncTask

CONSTANTS a1, a2, w1, w2, w3

OneAsync  == {a1}
TwoAsyncs == {a1, a2}

TwoWorkers   == {w1, w2}
ThreeWorkers == {w1, w2, w3}
=============================================================================
