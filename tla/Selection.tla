----------------------------- MODULE Selection -----------------------------
(***************************************************************************)
(* What the dispatcher promises the programs that use it: at any time one  *)
(* algorithm is selected for the whole process; a stream is opened with    *)
(* it and every later call on the stream, up to its end, is served by the  *)
(* algorithm that opened it.  Selecting another one is for when no stream  *)
(* is open.  How and when the selection is read from the environment       *)
(* cannot be seen.                                                         *)
(***************************************************************************)
CONSTANTS Threads,   \* each with one stream of its own
          Algs,      \* the algorithms there are
          NoAlg      \* no stream is open

VARIABLES alg,       \* what is selected, which need not be an algorithm
          live,      \* live[t]: the algorithm that opened t's stream
          served     \* served[t]: the one that served t's last stream call

vars == <<alg, live, served>>

Init ==
    /\ live = [t \in Threads |-> NoAlg]
    /\ served = [t \in Threads |-> NoAlg]

\* alg' may be anything.
Select ==
    /\ \A t \in Threads : live[t] = NoAlg
    /\ UNCHANGED <<live, served>>

Open(t) ==
    /\ live[t] = NoAlg /\ alg \in Algs
    /\ live' = [live EXCEPT ![t] = alg]
    /\ served' = [served EXCEPT ![t] = alg]
    /\ UNCHANGED alg

Use(t) ==
    /\ live[t] # NoAlg
    /\ served' = [served EXCEPT ![t] = live[t]]
    /\ UNCHANGED <<alg, live>>

Close(t) ==
    /\ live[t] # NoAlg
    /\ served' = [served EXCEPT ![t] = live[t]]
    /\ live' = [live EXCEPT ![t] = NoAlg]
    /\ UNCHANGED alg

Next == Select \/ \E t \in Threads : Open(t) \/ Use(t) \/ Close(t)

Spec == Init /\ [][Next]_vars

=============================================================================
