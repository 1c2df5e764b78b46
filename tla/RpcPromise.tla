----------------------------- MODULE RpcPromise -----------------------------
(***************************************************************************)
(* What RpcStub promises its callers: the callback of a call is given each *)
(* answer at most once, none after the caller has let the call go, and     *)
(* only the answer to that very call.  One exception is left open by the   *)
(* protocol: nothing in a mailbox id or a session tells one life of the    *)
(* caller's process from the next, so an answer that an earlier life has   *)
(* not seen may be taken for the answer to a call of this one, whose own   *)
(* answer may then be taken for that to a later call, and so on.           *)
(***************************************************************************)
CONSTANT Calls

VARIABLES
    phase,   \* "idle", "open", "answered", "threw", "dropped", "lost" (its process died)
    answer   \* the calls whose answers its callback was given

vars == <<phase, answer>>

Init ==
    /\ phase = [c \in Calls |-> "idle"]
    /\ answer = [c \in Calls |-> {}]

Call(c) ==
    /\ phase[c] = "idle"
    /\ phase' = [phase EXCEPT ![c] = "open"]
    /\ UNCHANGED answer

\* Once a process has died, the calls that ended without their own answer: it
\* may still come, to whatever call has their session by then.
Astray ==
    {e \in Calls : /\ phase[e] \notin {"idle", "open"} /\ e \notin answer[e]
                   /\ \E f \in Calls : phase[f] = "lost"}

\* A callback runs and returns or throws; it may make one more call.  A call
\* whose callback threw stays in the table, and may be found by one more answer.
Answer(c) ==
    /\ phase[c] \in {"open", "threw"}
    /\ \E d \in ({c} \cup Astray) \ answer[c] :
          answer' = [answer EXCEPT ![c] = @ \cup {d}]
    /\ \E more \in {{}} \cup {{d} : d \in {e \in Calls : phase[e] = "idle"}},
          end \in {"answered", "threw"} :
          phase' = [d \in Calls |-> IF d = c THEN end
                                    ELSE IF d \in more THEN "open" ELSE phase[d]]

\* The callers of the calls in D let go, or their stub is destroyed.
Drop(D) ==
    /\ \A c \in D : phase[c] = "open"
    /\ phase' = [c \in Calls |-> IF c \in D THEN "dropped" ELSE phase[c]]
    /\ UNCHANGED answer

\* The process dies.
Die ==
    /\ phase' = [c \in Calls |->
          IF phase[c] # "idle" /\ c \notin answer[c] THEN "lost" ELSE phase[c]]
    /\ UNCHANGED answer

Next ==
    \/ \E c \in Calls : Call(c) \/ Answer(c)
    \/ \E D \in SUBSET Calls : Drop(D)
    \/ Die

Spec == Init /\ [][Next]_vars
=============================================================================
