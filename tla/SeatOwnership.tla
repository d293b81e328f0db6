--------------------------- MODULE SeatOwnership ----------------------------
(***************************************************************************)
(* What the server promises of one client's seat, whatever connections     *)
(* come, go and overlap: one connection owns it, the teacher sees it       *)
(* online exactly while it is owned, and the proof that admits an exam     *)
(* belongs to the connection that carried it and ends with it.             *)
(***************************************************************************)
CONSTANTS Conns, NoConn

VARIABLES
    known,   \* the connections the server keeps a state for
    owner,   \* the connection that speaks for the client, or NoConn
    online,  \* whether the teacher sees the client online
    proof    \* the connection whose proof of protection counts, or NoConn

seat == <<known, owner, online, proof>>

Init == known = {} /\ owner = NoConn /\ online = FALSE /\ proof = NoConn

\* Connections come, and others than the owner go.
Transport ==
    /\ known' \in SUBSET Conns
    /\ owner \in known' \cup {NoConn}
    /\ UNCHANGED <<owner, online, proof>>

\* A newly authenticated connection takes the seat; an earlier proof ends.
Claim(c) ==
    /\ c \in known
    /\ owner' = c
    /\ online' = TRUE
    /\ proof' = NoConn
    /\ UNCHANGED known

\* The owner proves protection.
Prove ==
    /\ owner # NoConn
    /\ proof' = owner
    /\ UNCHANGED <<known, owner, online>>

\* A proof is withdrawn by a newer report or a newer operation.
Withdraw ==
    /\ proof' = NoConn
    /\ UNCHANGED <<known, owner, online>>

\* The owner leaves, exactly when its own connection is forgotten.
Leave ==
    /\ owner # NoConn
    /\ known' \subseteq known
    /\ owner \notin known'
    /\ owner' = NoConn
    /\ online' = FALSE
    /\ proof' = NoConn

Next == Transport \/ (\E c \in Conns : Claim(c)) \/ Prove \/ Withdraw \/ Leave

Spec == Init /\ [][Next]_seat
=============================================================================
