------------------------------ MODULE Dialogue ------------------------------
(***************************************************************************)
(* What the transport promises the server and the tester, without frames,  *)
(* flow control and time: requests reach the server in the order they were *)
(* sent, each at most once, and intact unless a frame of it was lost; the  *)
(* tester hears at most one response to each request the server took, in   *)
(* the same order, and whole unless one was spoiled on its way.            *)
(*                                                                         *)
(* A request is known by its number; of = 0 says that there is none.       *)
(***************************************************************************)
EXTENDS Naturals

VARIABLES
    asked,      \* number of the last request the tester began to send
    damaged,    \* requests of which something was lost
    inbox,      \* the request that waits for the server, and whether it is whole
    served,     \* number of the last request the server took
    heard,      \* the last response complete at the tester, and whether it is whole
    spoiled     \* something of a response was lost on its way

dialogueVars == <<asked, damaged, inbox, served, heard, spoiled>>

Nothing == [of |-> 0, whole |-> TRUE]

DialogueInit ==
    /\ asked = 0
    /\ damaged = {}
    /\ inbox = Nothing
    /\ served = 0
    /\ heard = Nothing
    /\ spoiled = FALSE

\* A new request; the one before it may be given up, and part of it be lost.
Ask ==
    /\ asked' = asked + 1
    /\ \E lost \in SUBSET {asked, asked + 1} : damaged' = damaged \cup lost
    /\ UNCHANGED <<inbox, served, heard, spoiled>>

Damage ==
    /\ damaged' = damaged \cup {asked}
    /\ UNCHANGED <<asked, inbox, served, heard, spoiled>>

\* A request is there.  One that still waits is replaced.
Deliver ==
    /\ \E m \in served + 1 .. asked, whole \in BOOLEAN :
          /\ m > inbox.of
          /\ whole \/ m \in damaged
          /\ inbox' = [of |-> m, whole |-> whole]
    /\ UNCHANGED <<asked, damaged, served, heard, spoiled>>

\* One that still waits is given up, for a newer one that begins.
GiveUp ==
    /\ inbox.of # 0
    /\ inbox.of < asked
    /\ inbox' = Nothing
    /\ UNCHANGED <<asked, damaged, served, heard, spoiled>>

\* The server takes the request; its response may spoil the one under way.
Serve ==
    /\ inbox.of # 0
    /\ served' = inbox.of
    /\ inbox' = Nothing
    /\ spoiled' \in {spoiled, TRUE}
    /\ UNCHANGED <<asked, damaged, heard>>

Spoil ==
    /\ spoiled' = TRUE
    /\ UNCHANGED <<asked, damaged, inbox, served, heard>>

\* A response is complete at the tester.
Hear ==
    /\ \E m \in heard.of + 1 .. served, whole \in BOOLEAN :
          /\ whole \/ spoiled
          /\ heard' = [of |-> m, whole |-> whole]
    /\ UNCHANGED <<asked, damaged, inbox, served, spoiled>>

DialogueNext == Ask \/ Damage \/ Deliver \/ GiveUp \/ Serve \/ Spoil \/ Hear

DialogueSpec == DialogueInit /\ [][DialogueNext]_dialogueVars
=============================================================================
