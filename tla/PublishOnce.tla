---------------------------- MODULE PublishOnce ----------------------------
(***************************************************************************)
(* What a detached publication promises whoever started it, without        *)
(* records, locks, workers or polling: each item is submitted at most      *)
(* once, nothing is submitted after a cancellation request was accepted,   *)
(* and the operation is called successful only when every item was         *)
(* applied.  An admitted submission may still take effect after a request. *)
(***************************************************************************)
EXTENDS Naturals

CONSTANT Items

VARIABLES
    requested,     \* has a cancellation request been accepted?
    acknowledged,  \* has the worker confirmed that it observed the request?
    admissions,    \* how often each item was admitted for submission
    applied,       \* items whose submission took effect
    outcome        \* the published outcome

vars == <<requested, acknowledged, admissions, applied, outcome>>

Init ==
    /\ requested = FALSE
    /\ acknowledged = FALSE
    /\ admissions = [i \in Items |-> 0]
    /\ applied = {}
    /\ outcome = "open"

Request ==
    /\ outcome = "open" /\ ~requested
    /\ requested' = TRUE
    /\ UNCHANGED <<acknowledged, admissions, applied, outcome>>

Acknowledge ==
    /\ requested /\ ~acknowledged
    /\ acknowledged' = TRUE
    /\ UNCHANGED <<requested, admissions, applied, outcome>>

Admit(i) ==
    /\ outcome = "open" /\ ~requested
    /\ admissions[i] = 0
    /\ admissions' = [admissions EXCEPT ![i] = 1]
    /\ UNCHANGED <<requested, acknowledged, applied, outcome>>

TakeEffect(i) ==
    /\ outcome = "open"
    /\ admissions[i] = 1 /\ i \notin applied
    /\ applied' = applied \cup {i}
    /\ UNCHANGED <<requested, acknowledged, admissions, outcome>>

Conclude ==
    /\ outcome = "open"
    /\ \/ outcome' = "succeeded" /\ applied = Items
       \/ outcome' = "unsuccessful"
    /\ UNCHANGED <<requested, acknowledged, admissions, applied>>

Next ==
    \/ Request \/ Acknowledge \/ Conclude
    \/ \E i \in Items : Admit(i) \/ TakeEffect(i)

Spec == Init /\ [][Next]_vars
=============================================================================
