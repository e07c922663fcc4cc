-------------------------- MODULE GroundedAnswers --------------------------
(***************************************************************************)
(* What an investigation promises: a request is answered at most once, and *)
(* the answer cites nothing but what the request had read.                 *)
(***************************************************************************)
CONSTANTS Requests, Signals

VARIABLES
    state,  \* request -> "new", "open", "answered" or "refused"
    known,  \* request -> the signals its evidence supports
    cited   \* request -> the signals of its answer

vars == <<state, known, cited>>

Init ==
    /\ state = [r \in Requests |-> "new"]
    /\ known = [r \in Requests |-> {}]
    /\ cited = [r \in Requests |-> {}]

Unchanged(f, r) == \A q \in Requests \ {r} : f'[q] = f[q]

Open(r) ==
    /\ state[r] = "new"
    /\ state' = [state EXCEPT ![r] = "open"]
    /\ known'[r] \subseteq Signals
    /\ Unchanged(known, r)
    /\ UNCHANGED cited

Answer(r) ==
    /\ state[r] = "open"
    /\ state' = [state EXCEPT ![r] = "answered"]
    /\ cited'[r] \subseteq known[r]
    /\ Unchanged(cited, r)
    /\ UNCHANGED known

Refuse(r) ==
    /\ state[r] = "new"
    /\ state' = [state EXCEPT ![r] = "refused"]
    /\ UNCHANGED <<known, cited>>

Next == \E r \in Requests : Open(r) \/ Answer(r) \/ Refuse(r)

Spec == Init /\ [][Next]_vars
=============================================================================
