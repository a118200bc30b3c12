----------------------------- MODULE StreamResult -----------------------------
(***************************************************************************)
(* What a consumer of the CVE records may rely on, whatever goroutines and *)
(* channels are behind them: each record comes once, and an answer without *)
(* an error has had them all, unless the run was interrupted.              *)
(***************************************************************************)
EXTENDS SequencesExt

CONSTANT Records

VARIABLES
    bad,          \* the records that cannot be read
    interrupted,
    received,     \* the records the consumer has taken
    result        \* "none" until the consumer returns

vars == <<bad, interrupted, received, result>>

Init ==
    /\ bad \subseteq Records
    /\ interrupted = FALSE
    /\ received = <<>>
    /\ result = "none"

\* The consumer takes a record, and may fail on it.
Take(p) ==
    /\ result = "none" /\ p \notin bad /\ p \notin ToSet(received)
    /\ received' = Append(received, p)
    /\ result' \in {"none", "record"}
    /\ UNCHANGED <<bad, interrupted>>

ReturnAll ==
    /\ result = "none"
    /\ interrupted \/ ToSet(received) = Records
    /\ result' = "ok"
    /\ UNCHANGED <<bad, interrupted, received>>

ReturnError ==
    /\ result = "none"
    /\ result' \in {"walk", "parse", "canceled"}
    /\ UNCHANGED <<bad, interrupted, received>>

Interrupt ==
    /\ result = "none"
    /\ interrupted' = TRUE
    /\ UNCHANGED <<bad, received, result>>

Next == (\E p \in Records : Take(p)) \/ ReturnAll \/ ReturnError \/ Interrupt

Spec == Init /\ [][Next]_vars
=============================================================================
