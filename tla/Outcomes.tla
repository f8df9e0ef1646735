------------------------------ MODULE Outcomes ------------------------------
(***************************************************************************)
(* What every batching component of this repository promises its callers:  *)
(* a job that was accepted is settled at most once, with the answer        *)
(* computed from that job's own input or with an error, and is never       *)
(* reopened.  The concurrent engines are shown to implement it.            *)
(***************************************************************************)

CONSTANT Jobs       \* the requests, utterances or streams that may be opened

VARIABLE outcome    \* what the caller of each job has been told so far

Outcome == {"new", "open", "answered", "failed"}

(* The only ways one job may move.  A job can be refused before it is      *)
(* opened, so "failed" is reachable from "new".                            *)
LegalMoves == { <<"new", "open">>, <<"new", "failed">>,
                <<"open", "answered">>, <<"open", "failed">> }

Init == outcome = [j \in Jobs |-> "new"]

(* One step of an engine may settle several jobs: it evicts or fails a     *)
(* batch at a time.                                                        *)
Settle(J) ==
    /\ outcome' \in [Jobs -> Outcome]
    /\ \A j \in J : <<outcome[j], outcome'[j]>> \in LegalMoves
    /\ \A j \in Jobs \ J : outcome'[j] = outcome[j]

Next == \E J \in SUBSET Jobs : Settle(J)

Spec == Init /\ [][Next]_outcome
=============================================================================
