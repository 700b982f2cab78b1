--------------------------- MODULE MCFileTransfer ---------------------------
(* Instances of FileTransfer: each load turns on a few of the things that  *)
(* can happen around one transfer.                                         *)
EXTENDS FileTransfer

Plain == [pushes |-> 1, sessions |-> 1, edits |-> 0, pauses |-> 0, cancels |-> {},
          crashes |-> 0, again |-> FALSE, faults |-> {}]

Edited == [Plain EXCEPT !.edits = 1, !.sessions = 2]
Interrupted == [Plain EXCEPT !.sessions = 3, !.crashes = 1]
Repeated == [Plain EXCEPT !.pushes = 2, !.sessions = 2, !.cancels = {"S"}, !.edits = 1]
Dropped == [Plain EXCEPT !.pushes = 2, !.sessions = 2, !.cancels = {"S", "R"}]
Paused == [Plain EXCEPT !.pauses = 1, !.cancels = {"S"}, !.faults = {"policy"}]
Busy == [Plain EXCEPT !.sessions = 2, !.faults = {"busy"}]
Failing == [Plain EXCEPT !.sessions = 2, !.faults = {"io"}, !.pushes = 2]
Aged == [Plain EXCEPT !.sessions = 2, !.faults = {"age"}, !.crashes = 1]

(* The session is lost once and the transfer resumed.                      *)
Resumed == {[Plain EXCEPT !.sessions = 2]}

(* A transfer id is pushed again in the same session, after an edit.       *)
(* The loads of the run leave this out.                                    *)
Again == {[Plain EXCEPT !.pushes = 2, !.edits = 1, !.cancels = {"S"}, !.again = TRUE]}

Loads == {Edited, Interrupted, Repeated, Dropped, Paused, Busy, Failing, Aged}
=============================================================================
