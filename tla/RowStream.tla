------------------------------ MODULE RowStream ------------------------------
(***************************************************************************)
(* What fetch promises of one result after the other: a stream of rows     *)
(* that is read forwards only, in runs of consecutive rows.  A run is      *)
(* handed over whole or, when a row could not be mapped, dropped whole;    *)
(* what was taken is never offered again.                                  *)
(***************************************************************************)
EXTENDS Naturals

VARIABLES
  taken,  \* the number of rows taken off the stream
  given,  \* those of them that the client was given
  state   \* "none": no result; "open": a row is waiting; "ended"; "failed"

stream == <<taken, given, state>>

Init == taken = 0 /\ given = {} /\ state = "none"

(* A query runs; whether it has a row, none or failed is known at once. *)
Start ==
  /\ state = "none"
  /\ state' \in {"open", "ended", "failed"}
  /\ UNCHANGED <<taken, given>>

(* A run of rows is given to the client; the stream can only end or fail   *)
(* behind a row.                                                           *)
Give ==
  /\ state = "open"
  /\ taken' \in Nat /\ taken' > taken
  /\ given' = given \cup (taken + 1 .. taken')
  /\ state' \in {"open", "ended", "failed"}

(* The row behind a run of rows could not be mapped: the run is dropped,   *)
(* that row goes on waiting.                                               *)
Drop ==
  /\ state = "open"
  /\ taken' \in Nat /\ taken' > taken
  /\ UNCHANGED <<given, state>>

Finish ==
  /\ state # "none"
  /\ taken' = 0 /\ given' = {} /\ state' = "none"

Next == Start \/ Give \/ Drop \/ Finish

Spec == Init /\ [][Next]_stream
=============================================================================
