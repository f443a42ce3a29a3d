------------------------------ MODULE UadkQueue ------------------------------
(***************************************************************************)
(* How a stream of the UADK adapter comes by its hardware queue and gives  *)
(* it back: hw_init, step by step with the labels it unwinds along,        *)
(* hw_end, and the Init, Reset, End and Copy callbacks that call them.     *)
(* Several streams, of several threads, do so at once; what they share is  *)
(* the accelerator's queues.                                               *)
(*                                                                         *)
(* held[s] is what hw_init has taken for s so far: the memory of the queue *)
(* structure, the block pool, its three blocks (two buffers and one inside *)
(* the compression ctx, block_mm_num = 3), opdata and ctl; dev[s] is the   *)
(* hardware queue itself.                                                  *)
(***************************************************************************)
EXTENDS ZStream

CONSTANTS Clients,   \* the caller's unizip_stream structures
          Queues,    \* the hardware queues of the accelerator
          NoQueue    \* not one of them

ASSUME QueueAssumption == NoQueue \notin Queues

VARIABLES pc,      \* where in hw_init or hw_end the thread of a stream is
          held,    \* what its stream has taken and not given back
          dev,     \* its hardware queue
          free,    \* the hardware queues nobody has
          lost,    \* those whose last pointer a Copy overwrote
          rc,      \* hw_init's ret
          status,  \* what the last call on the stream returned
          again    \* hw_end was called by a Reset

vars == <<pc, held, dev, free, lost, rc, status, again>>

Parts == {"q", "pool", "in", "out", "ctx", "opdata", "ctl"}
Blks  == {"in", "out", "ctx"}   \* each has one block of the pool

AtRest == {"closed", "open"}
Init_pc == {"calloc_q", "request_queue", "create_pool", "alloc_in", "alloc_out",
            "check_blks", "create_ctx", "calloc_opdata", "calloc_ctl"}
Undo_pc == {"comp_opdata_free", "comp_ctx_free", "buf_free", "release_q", "hw_q_free"}
End_pc  == {"end_bufs", "end_ctx", "end_queue", "end_pool", "end_rest"}

WD_ENODEV == -19  \* any code of wd_request_queue but UNIZIP_DATA_ERROR

-----------------------------------------------------------------------------
(***************************************************************************)
(* hw_init.                                                                *)
(***************************************************************************)

Go(s, at, to) == pc[s] = at /\ pc' = [pc EXCEPT ![s] = to]

Return(s, at, to, ret) ==
    Go(s, at, to) /\ status' = [status EXCEPT ![s] = ret] /\ UNCHANGED again

Gain(s, parts) == held' = [held EXCEPT ![s] = held[s] \cup parts]
Drop(s, parts) == held' = [held EXCEPT ![s] = held[s] \ parts]

\* Memory, of the process or of the pool, is had, or the code goes elsewhere.
Take(s, at, part, to, otherwise) ==
    /\ \/ Go(s, at, to) /\ Gain(s, {part})
       \/ Go(s, at, otherwise) /\ UNCHANGED held
    /\ UNCHANGED <<dev, free, lost, rc, status, again>>

\* The queue structure; without it hw_init returns at once.
calloc_q(s) ==
    /\ \/ Go(s, "calloc_q", "request_queue") /\ Gain(s, {"q"})
             /\ UNCHANGED <<status, again>>
       \/ Return(s, "calloc_q", "closed", UNIZIP_MEM_ERROR) /\ UNCHANGED held
    /\ UNCHANGED <<dev, free, lost, rc>>

\* A queue of the accelerator, if there is one to be had.
wd_request_queue(s) ==
    /\ \/ \E d \in free :
             /\ Go(s, "request_queue", "create_pool")
             /\ dev' = [dev EXCEPT ![s] = d]
             /\ free' = free \ {d}
             /\ rc' = [rc EXCEPT ![s] = 0]
       \/ /\ Go(s, "request_queue", "hw_q_free")
          /\ rc' = [rc EXCEPT ![s] = WD_ENODEV]
          /\ UNCHANGED <<dev, free>>
    /\ UNCHANGED <<held, lost, status, again>>

\* Both buffers are asked for before either is looked at.
CheckBlks(s) ==
    /\ Go(s, "check_blks", IF {"in", "out"} \subseteq held[s] THEN "create_ctx" ELSE "buf_free")
    /\ UNCHANGED <<held, dev, free, lost, rc, status, again>>

\* Mutants: without memory for ctl it goes on at the next label, or tries again.
CtlFails_label == "comp_ctx_free"
CtlFails_retry == "calloc_opdata"

\* Where hw_init goes without memory for ctl.
CtlFails == "comp_opdata_free"

calloc_ctl(s) ==
    /\ \/ Return(s, "calloc_ctl", "open", UNIZIP_OK) /\ Gain(s, {"ctl"})
       \/ Go(s, "calloc_ctl", CtlFails) /\ UNCHANGED <<held, status, again>>
    /\ UNCHANGED <<dev, free, lost, rc>>

\* deflateInitCB_uadk: hw_init is entered, unless there is no memory for the
\* zip_stream or no such format.
Begin(s, at) ==
    \/ Go(s, at, "calloc_q") /\ UNCHANGED status
    \/ /\ Go(s, at, "closed")
       /\ \E e \in {UNIZIP_MEM_ERROR, UNIZIP_DATA_ERROR} : status' = [status EXCEPT ![s] = e]

Acquire(s) ==
    \/ calloc_q(s)
    \/ wd_request_queue(s)
    \/ Take(s, "create_pool", "pool", "alloc_in", "release_q")
    \/ Take(s, "alloc_in", "in", "alloc_out", "alloc_out")
    \/ Take(s, "alloc_out", "out", "check_blks", "check_blks")
    \/ CheckBlks(s)
    \/ Take(s, "create_ctx", "ctx", "calloc_opdata", "buf_free")
    \/ Take(s, "calloc_opdata", "opdata", "calloc_ctl", "comp_ctx_free")
    \/ calloc_ctl(s)

Undo(s, at, parts, to) ==
    Go(s, at, to) /\ Drop(s, parts) /\ UNCHANGED <<dev, free, lost, rc, status, again>>

\* wd_release_queue.
ReleaseQueue(s) ==
    /\ dev' = [dev EXCEPT ![s] = NoQueue]
    /\ free' = free \cup {dev[s]}

\* Mutant: hw_init returns its ret, which is 0 once the queue was had.
Failure_ret(r) == r

\* hw_init's last line.
Failure(r) == IF r = UNIZIP_DATA_ERROR THEN UNIZIP_DATA_ERROR ELSE UNIZIP_MEM_ERROR

\* wd_blkpool_destroy keeps a pool with blocks in use (external).
PoolParts(parts) == IF parts \cap Blks = {} THEN {"pool"} ELSE {}

\* comp_opdata_free: down to hw_q_free:, each label falling into the next.
Unwind(s) ==
    \/ Undo(s, "comp_opdata_free", {"opdata"}, "comp_ctx_free")
    \/ Undo(s, "comp_ctx_free", {"ctx"}, "buf_free")
    \/ Undo(s, "buf_free", {"in", "out"} \cup PoolParts(held[s] \ {"in", "out"}), "release_q")
    \/ /\ Go(s, "release_q", "hw_q_free") /\ ReleaseQueue(s)
       /\ UNCHANGED <<held, lost, rc, status, again>>
    \/ /\ Return(s, "hw_q_free", "closed", Failure(rc[s])) /\ Drop(s, {"q"})
       /\ UNCHANGED <<dev, free, lost, rc>>

-----------------------------------------------------------------------------
(***************************************************************************)
(* hw_end: the pool goes after the queue it was made on.                   *)
(***************************************************************************)

End(s) ==
    \/ Undo(s, "end_bufs", {"in", "out"}, "end_ctx")
    \/ Undo(s, "end_ctx", {"ctx"}, "end_queue")
    \/ /\ Go(s, "end_queue", "end_pool") /\ Drop(s, {"q"}) /\ ReleaseQueue(s)
       /\ UNCHANGED <<lost, rc, status, again>>
    \/ Undo(s, "end_pool", PoolParts(held[s]), "end_rest")
    \/ /\ ~again[s]
       /\ Return(s, "end_rest", "closed", UNIZIP_OK) /\ Drop(s, {"opdata", "ctl"})
       /\ UNCHANGED <<dev, free, lost, rc>>
    \/ /\ again[s]
       /\ Begin(s, "end_rest") /\ Drop(s, {"opdata", "ctl"})
       /\ again' = [again EXCEPT ![s] = FALSE]
       /\ UNCHANGED <<dev, free, lost, rc>>

-----------------------------------------------------------------------------
(***************************************************************************)
(* The callbacks, deflate's and inflate's alike.                           *)
(***************************************************************************)

InitCB(s) == Begin(s, "closed") /\ UNCHANGED <<held, dev, free, lost, rc, again>>

\* deflateEndCB_uadk; deflateResetCB_uadk goes on with deflateInitCB_uadk.
EndCB(s) ==
    /\ Go(s, "open", "end_bufs")
    /\ again' \in {[again EXCEPT ![s] = b] : b \in BOOLEAN}
    /\ UNCHANGED <<held, dev, free, lost, rc, status>>

\* Mutant: a copy is a copy of the ctx, as in the other adapters.
CopyCB_memcpy(s, t) ==
    /\ pc[t] = "open" /\ Return(s, "open", "open", UNIZIP_OK)
    /\ dev' = [dev EXCEPT ![s] = dev[t]]
    /\ lost' = lost \cup {dev[s]}
    /\ UNCHANGED <<held, free, rc>>

\* deflateCopyCB_uadk from t onto s: a stream is opened, and if s was one
\* already nothing points any more to what it had.
CopyCB(s, t) ==
    /\ pc[t] = "open"
    /\ \E at \in AtRest : Begin(s, at)
    /\ held' = [held EXCEPT ![s] = {}]
    /\ dev' = [dev EXCEPT ![s] = NoQueue]
    /\ lost' = lost \cup ({dev[s]} \ {NoQueue})
    /\ UNCHANGED <<free, rc, again>>

Init ==
    /\ pc = [s \in Clients |-> "closed"]
    /\ held = [s \in Clients |-> {}]
    /\ dev = [s \in Clients |-> NoQueue]
    /\ free = Queues
    /\ lost = {}
    /\ rc = [s \in Clients |-> 0]
    /\ status = [s \in Clients |-> UNIZIP_MEM_ERROR]
    /\ again = [s \in Clients |-> FALSE]

Work(s) == Acquire(s) \/ Unwind(s) \/ End(s)

Next ==
    \/ \E s \in Clients : Work(s) \/ InitCB(s) \/ EndCB(s)
    \/ \E s, t \in Clients : s # t /\ CopyCB(s, t)

Spec == Init /\ [][Next]_vars

\* A call that has begun goes on: no step of these functions waits.
FairSpec == Spec /\ \A s \in Clients : WF_vars(Work(s))

-----------------------------------------------------------------------------
(***************************************************************************)
(* What should hold.                                                       *)
(***************************************************************************)

Types ==
    /\ pc \in [Clients -> AtRest \cup Init_pc \cup Undo_pc \cup End_pc]
    /\ held \in [Clients -> SUBSET Parts]
    /\ dev \in [Clients -> Queues \cup {NoQueue}]
    /\ free \in SUBSET Queues /\ lost \in SUBSET Queues
    /\ rc \in [Clients -> {0, WD_ENODEV}]
    /\ status \in [Clients -> Status]
    /\ again \in [Clients -> BOOLEAN]

\* Every hardware queue is free, lost, or of one stream.
Accounted ==
    /\ \A q \in Queues : q \in free \cup lost \/ \E s \in Clients : dev[s] = q
    /\ free \cap lost = {}
    /\ \A s \in Clients : dev[s] \notin free \cup lost
    /\ \A s, t \in Clients : dev[s] = dev[t] /\ dev[s] # NoQueue => s = t

\* A stream whose call has returned has everything or nothing, whichever step
\* of hw_init failed (unizip_algorithm_uadk.c:127-143) and whatever other
\* streams did meanwhile; and every queue of the accelerator is accounted for.
\* The variables keep their types.
NothingLeft ==
    /\ Types
    /\ Accounted
    /\ \A s \in Clients :
          /\ pc[s] = "open" => held[s] = Parts /\ dev[s] # NoQueue
          /\ pc[s] = "closed" => held[s] = {} /\ dev[s] = NoQueue

Opening == Init_pc \cup Undo_pc

\* A call that opens a stream returns OK if it is open and an error if it is
\* not, although ret is 0 from wd_request_queue on (line 143).
ToldTruly ==
    [][\A s \in Clients :
          pc[s] \in Opening /\ pc'[s] \in AtRest
             => (pc'[s] = "open" <=> status'[s] = UNIZIP_OK)]_vars

Sessions == INSTANCE QueueSessions WITH
                session <- [s \in Clients |-> IF pc[s] = "open" THEN dev[s] ELSE NoQueue],
                gone    <- lost

\* Seen from outside, a stream opens and closes at once, with a queue of its own
\* or with nothing.
AllOrNothing == Sessions!Spec

\* How many steps a call may still take: the labels are passed in the order in
\* which the code has them, hw_end's before hw_init's in a Reset.
Left == [end_bufs |-> 19, end_ctx |-> 18, end_queue |-> 17, end_pool |-> 16, end_rest |-> 15,
         calloc_q |-> 14, request_queue |-> 13, create_pool |-> 12, alloc_in |-> 11,
         alloc_out |-> 10, check_blks |-> 9, create_ctx |-> 8, calloc_opdata |-> 7,
         calloc_ctl |-> 6, comp_opdata_free |-> 5, comp_ctx_free |-> 4, buf_free |-> 3,
         release_q |-> 2, hw_q_free |-> 1, open |-> 0, closed |-> 0]

\* Why every call returns: each step of a call goes on to a later label, from
\* wherever a failure left off (unizip_algorithm_uadk.c:67-143), and what other
\* streams do moves nothing of it.
OnlyOnward ==
    [][\A s \in Clients :
          pc[s] \notin AtRest =>
             \/ Left[pc'[s]] < Left[pc[s]]
             \/ pc'[s] = pc[s] /\ held'[s] = held[s] /\ dev'[s] = dev[s]]_vars

\* Every call on a stream returns.
Returns == \A s \in Clients : pc[s] \notin AtRest ~> pc[s] \in AtRest

=============================================================================
