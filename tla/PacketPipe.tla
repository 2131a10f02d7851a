----------------------------- MODULE PacketPipe -----------------------------
(***************************************************************************)
(* What a ValentChannel promises to the threads that write packets to it:  *)
(* requests leave in the order in which they were accepted, each one is    *)
(* answered at most once, "ok" is said only of a packet that was sent,     *)
(* "closed" and "failed" only of one that was not, and nothing follows a   *)
(* packet whose transmission was interrupted.  Who cancels a request is    *)
(* told so whether the packet was sent or not.  How packets are buffered,  *)
(* and when the channel stops, is left open.                               *)
(***************************************************************************)
EXTENDS Naturals, Sequences

CONSTANTS Request        \* calls of valent_channel_write_packet()

VARIABLES
    waiting,             \* accepted requests that were not sent yet, in order
    sent,                \* the requests sent so far, in order
    broken,              \* a transmission was interrupted half-way
    answer               \* what each request was told, or "none"

pipeVars == <<waiting, sent, broken, answer>>

Errors == {"cancelled", "closed", "failed"}

Members(s) == {s[i] : i \in DOMAIN s}

(* t is s without the members of S, the others in their order.              *)
IsRest(t, s, S) ==
    \E place \in [DOMAIN t -> DOMAIN s] :
        /\ \A i, j \in DOMAIN t : i < j => place[i] < place[j]
        /\ {place[i] : i \in DOMAIN t} = {i \in DOMAIN s : s[i] \notin S}
        /\ \A i \in DOMAIN t : t[i] = s[place[i]]

Init ==
    /\ waiting = <<>>
    /\ sent = <<>>
    /\ broken = FALSE
    /\ answer = [r \in Request |-> "none"]

\* A new request joins the end of the line ...
Accept(r) ==
    /\ answer[r] = "none"
    /\ r \notin Members(waiting) \cup Members(sent)
    /\ waiting' = Append(waiting, r)
    /\ UNCHANGED <<sent, broken, answer>>

\* ... and the first in line is sent, unless the stream was broken before.
Send ==
    /\ waiting # <<>>
    /\ ~broken
    /\ sent' = Append(sent, Head(waiting))
    /\ waiting' = Tail(waiting)
    /\ UNCHANGED <<broken, answer>>

\* The first in line is interrupted, so that it is never sent.
Interrupt ==
    /\ waiting # <<>>
    /\ broken' = TRUE
    /\ UNCHANGED <<waiting, sent, answer>>

\* A packet that was sent is confirmed, but for who no longer asks.
Confirm(r) ==
    /\ r \in Members(sent)
    /\ answer[r] = "none"
    /\ \E a \in {"ok", "cancelled"} : answer' = [answer EXCEPT ![r] = a]
    /\ UNCHANGED <<waiting, sent, broken>>

\* Any number of unsent requests are refused, whether or not they were queued.
Refuse(S) ==
    /\ S # {}
    /\ \A r \in S : answer[r] = "none" /\ r \notin Members(sent)
    /\ \E e \in [S -> Errors] :
          answer' = [r \in Request |-> IF r \in S THEN e[r] ELSE answer[r]]
    /\ waiting' \in Seq(Request) /\ IsRest(waiting', waiting, S)
    /\ UNCHANGED <<sent, broken>>

Next ==
    \/ \E r \in Request : Accept(r) \/ Confirm(r)
    \/ Send
    \/ Interrupt
    \/ \E S \in SUBSET Request : Refuse(S)

Spec == Init /\ [][Next]_pipeVars
=============================================================================
