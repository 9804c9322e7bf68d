-------------------------- MODULE BallotLifecycle --------------------------
(***************************************************************************)
(* What one client promises about the reject ballots it holds: one ballot  *)
(* per target at a time, and how each one may begin and end.  A seat is a  *)
(* pair of a client and a target; a step may move any number of seats.     *)
(***************************************************************************)
CONSTANT Seat

VARIABLES
    phase,   \* phase[s]: "idle", open ("manual", "timeout" or "closed"), "cooling"
    sent     \* sent[s]: the kinds of reject that were sent

TypeOK == /\ phase \in [Seat -> {"idle", "manual", "timeout", "closed", "cooling"}]
          /\ sent \in [Seat -> SUBSET {"manual", "timeout"}]

Init == /\ phase = [s \in Seat |-> "idle"]
        /\ sent  = [s \in Seat |-> {}]

Goes(s, from, to) == phase[s] \in from /\ phase'[s] = to

Silently(s) == sent'[s] = sent[s]

\* A ballot opens, of either kind.
Opens(s) == (Goes(s, {"idle"}, "manual") \/ Goes(s, {"idle"}, "timeout")) /\ Silently(s)

\* A reject of the kind that was voted on ends the ballot, at once if the
\* proposer's vote is enough.
Carries(s) ==
    \/ Goes(s, {"idle", "manual"}, "idle") /\ sent'[s] = sent[s] \cup {"manual"}
    \/ Goes(s, {"timeout", "closed"}, "idle") /\ sent'[s] = sent[s] \cup {"timeout"}

\* A manual ballot fails, and only that starts a cooldown.
Fails(s) == Goes(s, {"manual"}, "cooling") /\ Silently(s)

\* A timeout ballot that cannot be won stops asking for votes but stays.
Closes(s) == Goes(s, {"timeout"}, "closed") /\ Silently(s)

\* A timeout ballot is dropped: its target is back, or is this client itself.
IsCancelled(s) == Goes(s, {"timeout", "closed"}, "idle") /\ Silently(s)

CoolsDown(s) == Goes(s, {"cooling"}, "idle") /\ Silently(s)

\* A take of the target is over: it is rejected, whatever the ballot.
IsTaken(s) ==
    /\ phase'[s] = IF phase[s] = "cooling" THEN "cooling" ELSE "idle"
    /\ sent'[s] = sent[s] \cup {"timeout"}

Stays(s) == phase'[s] = phase[s] /\ Silently(s)

Next ==
    /\ phase' = [s \in Seat |-> phase'[s]]
    /\ sent'  = [s \in Seat |-> sent'[s]]
    /\ \A s \in Seat :
          \/ Opens(s) \/ Carries(s) \/ Fails(s) \/ Closes(s) \/ IsCancelled(s)
          \/ CoolsDown(s) \/ IsTaken(s) \/ Stays(s)

Spec == Init /\ [][Next]_<<phase, sent>>
=============================================================================
