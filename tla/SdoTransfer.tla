---------------------------- MODULE SdoTransfer ----------------------------
(***************************************************************************)
(* What the SDO pair promises its two applications: a transfer reads or    *)
(* writes a whole object at one moment, and only then can it succeed; it   *)
(* may fail at any time, and then has either happened whole or not at all. *)
(***************************************************************************)
EXTENDS Integers, Sequences

CONSTANTS Objects,    \* objects that can be read and written
          ObjLen      \* and their lengths

VARIABLES
  stored,    \* the value of every object
  op         \* the transfer: its number, object and direction, how it stands,
             \* whether it has happened, and what an upload has read

NoOp == [id |-> 0, status |-> "idle", upload |-> FALSE, done |-> FALSE, got |-> <<>>]

Value(i, n) == [k \in 1..n |-> <<i, k>>]

Init ==
  /\ stored = [o \in Objects |-> Value(0, ObjLen[o])]
  /\ op = NoOp

\* The application asks for a transfer; the previous one has ended.
Begin ==
  /\ op.status # "busy"
  /\ \E up \in BOOLEAN :
       op' = [NoOp EXCEPT !.id = op.id + 1, !.status = "busy", !.upload = up]
  /\ UNCHANGED stored

\* A download takes effect, once, on one object.
Write ==
  /\ op.status = "busy" /\ ~op.upload /\ ~op.done
  /\ \E o \in Objects : stored' = [stored EXCEPT ![o] = Value(op.id, ObjLen[o])]
  /\ op' = [op EXCEPT !.done = TRUE]

Succeed ==
  /\ op.status = "busy"
  /\ IF op.upload
     THEN \E o \in Objects : op' = [op EXCEPT !.status = "success", !.got = stored[o]]
     ELSE op.done /\ op' = [op EXCEPT !.status = "success"]
  /\ UNCHANGED stored

Fail ==
  /\ op.status = "busy"
  /\ op' = [op EXCEPT !.status = "abort"]
  /\ UNCHANGED stored

Next == Begin \/ Write \/ Succeed \/ Fail

Spec == Init /\ [][Next]_<<stored, op>>
=============================================================================
