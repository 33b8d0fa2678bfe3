------------------------------ MODULE DropAnswer ------------------------------
(* What a terminal promises to whoever drops something on it: a drop it takes  *)
(* on is answered, once, and it is answered as copied only when all of it was   *)
(* pasted, in its order and in one piece; otherwise nothing of it was.          *)
CONSTANTS
    Drops,
    Offers,
    Nothing,
    Whole(_)    \* the ways in which all of an offer can be pasted

VARIABLES
    taken,      \* the offer of each drop that was taken on
    answer,     \* what the other side was told
    pasted      \* what the terminal was given

vars == << taken, answer, pasted >>

Init ==
    /\ taken = [d \in Drops |-> Nothing]
    /\ answer = [d \in Drops |-> "none"]
    /\ pasted = [d \in Drops |-> Nothing]

TakeOn(d) ==
    /\ taken[d] = Nothing
    /\ \E o \in Offers : taken' = [taken EXCEPT ![d] = o]
    /\ UNCHANGED << answer, pasted >>

Waits(d) == taken[d] # Nothing /\ answer[d] = "none"

Copy(d) ==
    /\ Waits(d) /\ answer' = [answer EXCEPT ![d] = "copied"]
    /\ \E p \in Whole(taken[d]) : pasted' = [pasted EXCEPT ![d] = p]
    /\ UNCHANGED taken

Refuse(d) ==
    /\ Waits(d) /\ answer' = [answer EXCEPT ![d] = "refused"]
    /\ UNCHANGED << taken, pasted >>

Next == \E d \in Drops : TakeOn(d) \/ Copy(d) \/ Refuse(d)

Safety == Init /\ [][Next]_vars

Spec == Safety /\ \A d \in Drops : WF_vars(Copy(d) \/ Refuse(d))
=============================================================================
