-------------------------- MODULE PendingInterests --------------------------
(***************************************************************************)
(* What a table of pending interests promises (ccnu/src/include/ccnud_pit.h):  *)
(* an interest that is entered stays until data of its name satisfies it.  *)
(* A data packet satisfies one interest at most: it is handed to one       *)
(* application that asked for its name and has no answer yet, or it goes   *)
(* on to where a recorded interest came from, which it uses up.  A call    *)
(* returns what was handed to it, or nothing.                              *)
(***************************************************************************)

CONSTANTS Callers,   \* application threads that express interests
          Carriers,  \* threads that handle packets
          Places,    \* where interests from the network are recorded
          Names,     \* content names
          NoName     \* nothing

VARIABLES call,      \* call[c]: c's latest call, its name and its answer
          relayed,   \* relayed[p]: the name of the network's interest at p
          data       \* data[w]: the data packet w has yet to deal with

interestVars == <<call, relayed, data>>

Init ==
    /\ call = [c \in Callers |-> [state |-> "over", name |-> NoName, answer |-> NoName]]
    /\ relayed = [p \in Places |-> NoName]
    /\ data = [w \in Carriers |-> NoName]

\* The application gives an interest to express.
Ask(c, n) ==
    /\ call[c].state = "over"
    /\ call' = [call EXCEPT ![c] = [state |-> "made", name |-> n, answer |-> NoName]]
    /\ UNCHANGED <<relayed, data>>

\* The call ends, with the answer that there is or with none.
Return(c) ==
    /\ call[c].state = "made"
    /\ call' = [call EXCEPT ![c].state = "over"]
    /\ UNCHANGED <<relayed, data>>

\* An interest from the network is sent on and recorded.
Record(p, n) ==
    /\ relayed[p] = NoName
    /\ relayed' = [relayed EXCEPT ![p] = n]
    /\ UNCHANGED <<call, data>>

Receive(w, n) ==
    /\ data[w] = NoName
    /\ data' = [data EXCEPT ![w] = n]
    /\ UNCHANGED <<call, relayed>>

\* Data for an application.
HandOver(w, c) ==
    /\ data[w] # NoName
    /\ call[c] = [state |-> "made", name |-> data[w], answer |-> NoName]
    /\ call' = [call EXCEPT ![c].answer = data[w]]
    /\ data' = [data EXCEPT ![w] = NoName]
    /\ UNCHANGED relayed

\* Data for the network.
PassOn(w, p) ==
    /\ data[w] # NoName /\ relayed[p] = data[w]
    /\ relayed' = [relayed EXCEPT ![p] = NoName]
    /\ data' = [data EXCEPT ![w] = NoName]
    /\ UNCHANGED call

\* Data nobody asked for, or asked for and has by now.
Drop(w) ==
    /\ data[w] # NoName
    /\ data' = [data EXCEPT ![w] = NoName]
    /\ UNCHANGED <<call, relayed>>

Next ==
    \/ \E c \in Callers : Return(c) \/ \E n \in Names : Ask(c, n)
    \/ \E p \in Places, n \in Names : Record(p, n)
    \/ \E w \in Carriers : \/ \E n \in Names : Receive(w, n)
                           \/ \E c \in Callers : HandOver(w, c)
                           \/ \E p \in Places : PassOn(w, p)
                           \/ Drop(w)

Spec == Init /\ [][Next]_interestVars
=============================================================================
