---------------------------- MODULE SessionLedger ----------------------------
(***************************************************************************)
(* What the sessions of an operator promise, without tokens, devices,      *)
(* handlers or faults: a session has one pair of tokens at a time, a pair  *)
(* is replaced only while it is that one and the session has not ended,    *)
(* and what has ended has ended.  OperatorSessions implements this.        *)
(***************************************************************************)
EXTENDS Naturals, Sequences

CONSTANT Sessions

VARIABLES
    current,   \* the pair of each session, 0 before it is opened
    origin,    \* the pair each pair replaced, 0 for the first of a session
    ended      \* the sessions that are over

ledger == <<current, origin, ended>>

Init ==
    /\ current = [s \in Sessions |-> 0]
    /\ origin  = <<>>
    /\ ended   = {}

\* The next pair goes to session s.
Issue(s) ==
    /\ current' = [current EXCEPT ![s] = Len(origin) + 1]
    /\ origin'  = Append(origin, current[s])
    /\ UNCHANGED ended

Open(s)  == current[s] = 0 /\ s \notin ended /\ Issue(s)
Renew(s) == current[s] # 0 /\ s \notin ended /\ Issue(s)

End(s) ==
    /\ ended' = ended \cup {s}
    /\ UNCHANGED <<current, origin>>

Next == \E s \in Sessions : Open(s) \/ Renew(s) \/ End(s)

Spec == Init /\ [][Next]_ledger
=============================================================================
