---------------------------- MODULE ContentCache ----------------------------
(***************************************************************************)
(* What the content store promises: a cache.  It may have lost an object   *)
(* at any time, but what it returns for a name is the object last put      *)
(* under that name.                                                        *)
(***************************************************************************)
CONSTANTS Names, Objects, NoObject, NoAnswer

VARIABLES last,    \* last[n]: the object last put under name n
          answer   \* the name asked for by the call that has just ended, and what it got

Init ==
    /\ last = [n \in Names |-> NoObject]
    /\ answer = NoAnswer

\* Objects come in, together.
Put ==
    /\ last' \in [Names -> Objects \cup {NoObject}]
    /\ \A n \in Names :
          last'[n] # last[n] => last'[n] # NoObject /\ last'[n].name = n
    /\ answer' = NoAnswer

Get(n) ==
    /\ answer' \in {[name |-> n, obj |-> o] : o \in {last[n], NoObject}}
    /\ UNCHANGED last

Next == Put \/ \E n \in Names : Get(n)

Spec == Init /\ [][Next]_<<last, answer>>
=============================================================================
