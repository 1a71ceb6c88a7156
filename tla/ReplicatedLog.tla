---------------------------- MODULE ReplicatedLog ----------------------------
(***************************************************************************)
(* What a TideVec consensus group promises: one sequence of committed      *)
(* entries that only grows, of which every node knows a prefix that only   *)
(* grows between its crashes, and applies a prefix of what it knows.       *)
(***************************************************************************)
EXTENDS Naturals, Sequences

CONSTANTS Server, Value

VARIABLES
    chosen,    \* the committed entries
    known,     \* known[i]: the committed entries node i may apply
    applied    \* applied[i]: how many of them its state machine reflects

vars == <<chosen, known, applied>>

Prefixes(s) == {SubSeq(s, 1, n) : n \in 0..Len(s)}

Init ==
    /\ chosen = << >>
    /\ known = [i \in Server |-> << >>]
    /\ applied = [i \in Server |-> 0]

\* Leader i commits some entries and knows it at once.
Choose(i) ==
    /\ Len(chosen') > Len(chosen)
    /\ chosen \in Prefixes(chosen')
    /\ known' = [known EXCEPT ![i] = chosen']
    /\ UNCHANGED applied

\* Node i learns more of the committed entries.
Learn(i) ==
    /\ known[i] \in Prefixes(known'[i])
    /\ known'[i] \in Prefixes(chosen)
    /\ known' = [known EXCEPT ![i] = known'[i]]
    /\ UNCHANGED <<chosen, applied>>

\* The state machine of node i moves forward.
Apply(i) ==
    /\ applied' = [applied EXCEPT ![i] = applied'[i]]
    /\ applied'[i] \in (applied[i] + 1)..Len(known[i])
    /\ UNCHANGED <<chosen, known>>

\* Node i forgets what it had learned, and what its machine had not made durable.
Crash(i) ==
    /\ known' = [known EXCEPT ![i] = known'[i]]
    /\ known'[i] \in Prefixes(known[i])
    /\ applied' = [applied EXCEPT ![i] = applied'[i]]
    /\ applied'[i] \in 0..applied[i]
    /\ UNCHANGED chosen

Next == \E i \in Server : Choose(i) \/ Learn(i) \/ Apply(i) \/ Crash(i)

Spec == Init /\ [][Next]_vars
=============================================================================
