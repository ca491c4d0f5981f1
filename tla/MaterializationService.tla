----------------------- MODULE MaterializationService -----------------------
(***************************************************************************)
(* What the materialization of sessions promises the HTTP requests that    *)
(* ask for them, without jobs, queue, speculation or aborts.               *)
(*                                                                         *)
(* There is at most one live index revision.  A request for a session of   *)
(* it is answered at once, turned away, or waits.  All the requests that   *)
(* wait for the same session are answered together, by one result; one     *)
(* that goes away takes no other with it; and a change of the revision     *)
(* answers every request that waits, there and then.  What came of a        *)
(* request reaches its client later, and by then the revision may be gone. *)
(***************************************************************************)
EXTENDS Integers

CONSTANTS Session, Request, MaxRevision

VARIABLES
    revision,   \* the number of revisions so far
    lease,      \* the live one, or 0
    known,      \* the sessions of it a result is kept of
    request     \* what became of each request

vars == <<revision, lease, known, request>>

Idle == [phase |-> "idle"]
Settled(outcome, r) == [phase |-> "settled", outcome |-> outcome, rev |-> r]
Answered(outcome) == [phase |-> "answered", outcome |-> outcome]
Waiting(s) == [phase |-> "waiting", rev |-> lease, session |-> s]

Waits == {w \in Request : request[w].phase = "waiting"}
WaitsFor(s) == {w \in Waits : request[w] = Waiting(s)}

AllSettled(W, outcome) ==
    [w \in Request |-> IF w \in W THEN Settled(outcome, lease) ELSE request[w]]

Init ==
    /\ revision = 0
    /\ lease = 0
    /\ known = {}
    /\ request = [w \in Request |-> Idle]

Opens(w) == request[w].phase \in {"idle", "answered"} /\ lease # 0

\* A kept result is given out at once, and only it is.
Hit(w, s) ==
    /\ Opens(w) /\ s \in known
    /\ request' = AllSettled({w}, "value")
    /\ UNCHANGED <<revision, lease, known>>

Wait(w, s) ==
    /\ Opens(w) /\ s \notin known
    /\ request' = [request EXCEPT ![w] = Waiting(s)]
    /\ UNCHANGED <<revision, lease, known>>

\* A request that could have joined others is never turned away.
TurnAway(w, s) ==
    /\ Opens(w) /\ s \notin known /\ WaitsFor(s) = {}
    /\ request' = AllSettled({w}, "busy")
    /\ UNCHANGED <<revision, lease, known>>

\* One result answers all who wait for it, and is kept; others may be dropped.
Deliver(s) ==
    /\ WaitsFor(s) # {}
    /\ request' = AllSettled(WaitsFor(s), "value")
    /\ \E kept \in SUBSET known : known' = kept \cup {s}
    /\ UNCHANGED <<revision, lease>>

Refuse(s) ==
    /\ WaitsFor(s) # {}
    /\ request' = AllSettled(WaitsFor(s), "failed")
    /\ UNCHANGED <<revision, lease, known>>

\* A result nobody asked for yet, kept at the cost of others like it.
Speculate(s) ==
    /\ lease # 0 /\ s \notin known /\ WaitsFor(s) = {}
    /\ \E kept \in SUBSET known : known' = kept \cup {s}
    /\ UNCHANGED <<revision, lease, request>>

Leave(w) ==
    /\ w \in Waits
    /\ request' = AllSettled({w}, "aborted")
    /\ UNCHANGED <<revision, lease, known>>

\* A client that is still there is given what its request came to while the
\* revision it asked is the live one, and told of the change ever after.
Give(w) ==
    /\ request[w].phase = "settled"
    /\ \E outcome \in IF request[w].rev = lease
                     THEN {request[w].outcome, "aborted"} ELSE {"retired", "aborted"} :
          request' = [request EXCEPT ![w] = Answered(outcome)]
    /\ UNCHANGED <<revision, lease, known>>

ChangeRevision(next) ==
    /\ revision < MaxRevision
    /\ next \in {0, revision + 1}
    /\ next = 0 => lease # 0
    /\ revision' = revision + 1
    /\ lease' = next
    /\ known' = {}
    /\ request' = AllSettled(Waits, "retired")

Next ==
    \/ \E w \in Request :
          \/ \E s \in Session : Hit(w, s) \/ Wait(w, s) \/ TurnAway(w, s)
          \/ Leave(w) \/ Give(w)
    \/ \E s \in Session : Deliver(s) \/ Refuse(s) \/ Speculate(s)
    \/ \E next \in 0..MaxRevision : ChangeRevision(next)

Answer(s) == Deliver(s) \/ Refuse(s)

Spec == Init /\ [][Next]_vars

\* Whoever waits for a session is answered in the end.
FairSpec == Spec /\ \A s \in Session : WF_vars(Answer(s))

=============================================================================
