-------------------------------- MODULE Calls --------------------------------
(***************************************************************************)
(* What device_link.py promises each caller: a blocking call with a        *)
(* mailbox of its own.  While the call waits a reply may arrive, and a     *)
(* later one replaces it; the call ends with the reply it found, or with   *)
(* None.  No step touches the mailbox of another call.                     *)
(***************************************************************************)
CONSTANTS Clients, Replies, None

VARIABLES phase, box, reply

vars == <<phase, box, reply>>

Init ==
    /\ phase = [c \in Clients |-> "idle"]
    /\ box = [c \in Clients |-> None]
    /\ reply = [c \in Clients |-> None]

Start(c) ==
    /\ phase[c] = "idle"
    /\ phase' = [phase EXCEPT ![c] = "waiting"]
    /\ UNCHANGED <<box, reply>>

Arrive(c) ==
    /\ phase[c] = "waiting"
    /\ \E r \in Replies : box' = [box EXCEPT ![c] = r]
    /\ UNCHANGED <<phase, reply>>

Take(c) ==
    /\ phase[c] = "waiting"
    /\ box[c] # None
    /\ phase' = [phase EXCEPT ![c] = "returning"]
    /\ reply' = [reply EXCEPT ![c] = box[c]]
    /\ box' = [box EXCEPT ![c] = None]

TimeOut(c) ==
    /\ phase[c] = "waiting"
    /\ phase' = [phase EXCEPT ![c] = "returning"]
    /\ box' = [box EXCEPT ![c] = None]
    /\ UNCHANGED reply

\* The request cannot be sent.
Fail(c) ==
    /\ phase[c] = "waiting"
    /\ phase' = [phase EXCEPT ![c] = "idle"]
    /\ box' = [box EXCEPT ![c] = None]
    /\ UNCHANGED reply

Finish(c) ==
    /\ phase[c] = "returning"
    /\ phase' = [phase EXCEPT ![c] = "idle"]
    /\ reply' = [reply EXCEPT ![c] = None]
    /\ UNCHANGED box

Next ==
    \E c \in Clients :
        Start(c) \/ Arrive(c) \/ Take(c) \/ TimeOut(c) \/ Fail(c) \/ Finish(c)

Spec == Init /\ [][Next]_vars

=============================================================================
