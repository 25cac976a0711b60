------------------------------ MODULE MCSession ------------------------------
(* Instances of Session for TLC.  Every run names the faults it allows. *)
EXTENDS Session

Everything == AllFaults

\* Nothing goes wrong but that the server ends connections it served.
ServedBreak == {"dropped"}

=============================================================================
