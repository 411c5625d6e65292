---------------------------- MODULE CallService ----------------------------
(***************************************************************************)
(* What the client libraries promise (ccnu.h, bfr.h): a call is carried    *)
(* out at most once; a call that waits for an answer returns success only  *)
(* when it has been carried out.                                           *)
(***************************************************************************)
EXTENDS Naturals

CONSTANTS Calls,     \* calls
          Kinds,     \* kinds of calls
          Answered,  \* kinds whose caller waits for an answer
          NoKind     \* the kind of a call that is not made

VARIABLES made,      \* made[c]: the kind of call c
          performed, \* performed[c]: how often c was carried out
          result     \* result[c]: "none", "ok" or "failed"

serviceVars == <<made, performed, result>>

Init ==
    /\ made = [c \in Calls |-> NoKind]
    /\ performed = [c \in Calls |-> 0]
    /\ result = [c \in Calls |-> "none"]

Make(c, k) ==
    /\ made[c] = NoKind
    /\ made' = [made EXCEPT ![c] = k]
    /\ UNCHANGED <<performed, result>>

\* There is no daemon to connect to.
Refuse(c, k) ==
    /\ made[c] = NoKind
    /\ made' = [made EXCEPT ![c] = k]
    /\ result' = [result EXCEPT ![c] = "failed"]
    /\ UNCHANGED performed

\* A call nobody waits for, or whose caller has gone, may be carried out after its end.
Perform(c) ==
    /\ made[c] # NoKind /\ performed[c] = 0
    /\ performed' = [performed EXCEPT ![c] = 1]
    /\ UNCHANGED <<made, result>>

Succeed(c) ==
    /\ made[c] # NoKind /\ result[c] = "none"
    /\ made[c] \in Answered => performed[c] = 1
    /\ result' = [result EXCEPT ![c] = "ok"]
    /\ UNCHANGED <<made, performed>>

Fail(c) ==
    /\ made[c] # NoKind /\ result[c] = "none"
    /\ result' = [result EXCEPT ![c] = "failed"]
    /\ UNCHANGED <<made, performed>>

Next ==
    \E c \in Calls : \/ \E k \in Kinds : Make(c, k) \/ Refuse(c, k)
                     \/ Perform(c) \/ Succeed(c) \/ Fail(c)

Spec == Init /\ [][Next]_serviceVars
=============================================================================
