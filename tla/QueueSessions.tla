---------------------------- MODULE QueueSessions ----------------------------
(***************************************************************************)
(* What the callers of the UADK adapter may rely on: a stream is open or   *)
(* it is not.  Opening it gives it a hardware queue that no other stream   *)
(* has, or nothing; closing it leaves nothing behind.  A stream opened a   *)
(* second time without being closed has its first queue lost.              *)
(***************************************************************************)
CONSTANTS Clients,   \* the caller's unizip_stream structures
          Queues,    \* the hardware queues of the accelerator
          NoQueue    \* not one of them

VARIABLES session,   \* the queue of each stream, or NoQueue
          gone       \* the queues lost

vars == <<session, gone>>

Init == session = [s \in Clients |-> NoQueue] /\ gone = {}

Open(s, q) ==
    /\ session[s] = NoQueue
    /\ q \notin gone /\ \A t \in Clients : session[t] # q
    /\ session' = [session EXCEPT ![s] = q]
    /\ UNCHANGED gone

Close(s) ==
    /\ session[s] # NoQueue
    /\ session' = [session EXCEPT ![s] = NoQueue]
    /\ UNCHANGED gone

Lose(s) ==
    /\ session[s] # NoQueue
    /\ session' = [session EXCEPT ![s] = NoQueue]
    /\ gone' = gone \cup {session[s]}

Next ==
    \E s \in Clients : (\E q \in Queues : Open(s, q)) \/ Close(s) \/ Lose(s)

Spec == Init /\ [][Next]_vars

=============================================================================
