----------------------------- MODULE MCRecorder -----------------------------
(***************************************************************************)
(* Recorder for TLC.  A minute is two or three seconds, so that a behaviour *)
(* of ten samples crosses several minutes, an hour and midnight; a record  *)
(* is two bytes and a write takes an odd number, so that writes end inside *)
(* records.  As in the code, the ring holds the records of two minutes.    *)
(***************************************************************************)
EXTENDS Recorder

\* The sensor answers no read: every read is recorded.
Silent == {"absent"}

\* Every outcome of a read.
AnyOutcome == {"ok", "badsum", "absent"}

NoFaults == {}
AllFaults == {"open", "write"}
=============================================================================
