--------------------------- MODULE UadkQueueProofs ---------------------------
(***************************************************************************)
(* NothingLeft, ToldTruly and AllOrNothing of UadkQueue, for any number of *)
(* streams and of hardware queues.                                         *)
(*                                                                         *)
(* The inductive invariant says of every place in hw_init and hw_end what  *)
(* is held there: which parts for certain, which perhaps.  The labels of   *)
(* hw_init are right because what a jump to a label finds held is what the *)
(* code from the label on gives back.                                      *)
(***************************************************************************)
EXTENDS UadkQueue, TLAPS

Places == AtRest \cup Init_pc \cup Undo_pc \cup End_pc

WithQ == Places \ {"closed", "calloc_q", "end_pool", "end_rest"}
WithDev == WithQ \ {"request_queue", "hw_q_free"}
WithPool == (WithDev \ {"create_pool", "release_q"}) \cup {"end_pool"}
WithCtx == {"calloc_opdata", "calloc_ctl", "comp_opdata_free", "comp_ctx_free",
            "open", "end_bufs", "end_ctx"}
WithOpdata == {"calloc_ctl", "comp_opdata_free", "open"} \cup End_pc
WithCtl == {"open"} \cup End_pc
WithBlks == {"create_ctx", "calloc_opdata", "calloc_ctl", "comp_opdata_free",
             "comp_ctx_free", "open", "end_bufs"}
MaybeBlks == WithBlks \cup {"alloc_out", "check_blks", "buf_free"}

\* What a stream holds at place p: parts h and queue d.
Fits(p, h, d) ==
    /\ "q" \in h <=> p \in WithQ
    /\ d # NoQueue <=> p \in WithDev
    /\ "pool" \in h <=> p \in WithPool
    /\ p \in WithBlks => "in" \in h /\ "out" \in h
    /\ "in" \in h => p \in MaybeBlks
    /\ "out" \in h => p \in MaybeBlks \ {"alloc_out"}
    /\ "ctx" \in h <=> p \in WithCtx
    /\ "opdata" \in h <=> p \in WithOpdata
    /\ "ctl" \in h <=> p \in WithCtl

Held == \A s \in Clients : Fits(pc[s], held[s], dev[s])

IInv == Types /\ Accounted /\ Held

-----------------------------------------------------------------------------

\* Every set of the places, expanded.
USE DEF Places, AtRest, Init_pc, Undo_pc, End_pc, WithQ, WithDev, WithPool, WithCtx,
        WithOpdata, WithCtl, WithBlks, MaybeBlks

\* At the ends of a call "what fits" is everything, or nothing.
LEMMA AtTheEnds ==
    ASSUME NEW h \in SUBSET Parts, NEW d
    PROVE  /\ Fits("open", h, d) => h = Parts /\ d # NoQueue
           /\ Fits("closed", h, d) => h = {} /\ d = NoQueue
<1>1. ASSUME Fits("open", h, d) PROVE h = Parts /\ d # NoQueue
  <2>1. \A x \in Parts : x \in h
    BY <1>1 DEF Fits, Parts
  <2>2. d # NoQueue
    BY <1>1 DEF Fits
  <2> QED BY <2>1, <2>2
<1>2. ASSUME Fits("closed", h, d) PROVE h = {} /\ d = NoQueue
  <2>1. \A x \in Parts : x \notin h
    BY <1>2 DEF Fits, Parts
  <2>2. d = NoQueue
    BY <1>2 DEF Fits
  <2> QED BY <2>1, <2>2
<1> QED BY <1>1, <1>2

LEMMA InvEnough == IInv => NothingLeft
<1> SUFFICES ASSUME IInv, NEW s \in Clients
             PROVE  /\ pc[s] = "open" => held[s] = Parts /\ dev[s] # NoQueue
                    /\ pc[s] = "closed" => held[s] = {} /\ dev[s] = NoQueue
  BY DEF IInv, NothingLeft
<1>1. held[s] \in SUBSET Parts
  BY DEF IInv, Types
<1>2. Fits(pc[s], held[s], dev[s])
  BY DEF IInv, Held
<1> QED BY <1>1, <1>2, AtTheEnds

LEMMA InitInv == Init => IInv
<1> SUFFICES ASSUME Init PROVE IInv
  OBVIOUS
<1>1. Types
  BY DEF Init, Types, WD_ENODEV, Status, UNIZIP_MEM_ERROR
<1>2. Accounted
  BY QueueAssumption DEF Init, Accounted
<1>3. Held
  BY DEF Init, Held, Fits
<1> QED BY <1>1, <1>2, <1>3 DEF IInv

-----------------------------------------------------------------------------
(***************************************************************************)
(* A step changes what one stream holds, and where that stream is.         *)
(***************************************************************************)

\* Stream s moves to place p; the others stay, with what they hold.
Moves(s, p) ==
    /\ pc' = [pc EXCEPT ![s] = p]
    /\ \A t \in Clients \ {s} : held'[t] = held[t] /\ dev'[t] = dev[t]

LEMMA MoveKeepsHeld ==
    ASSUME Types, Held, NEW s \in Clients, NEW p, Moves(s, p), Fits(p, held'[s], dev'[s])
    PROVE  Held'
<1> SUFFICES ASSUME NEW t \in Clients PROVE Fits(pc'[t], held'[t], dev'[t])
  BY DEF Held
<1>1. CASE t = s
  BY <1>1 DEF Types, Moves
<1>2. CASE t # s
  BY <1>2 DEF Types, Moves, Held
<1> QED BY <1>1, <1>2

\* s gives its queue back, to the free ones or to the lost ones.
LEMMA GivingKeepsAccounted ==
    ASSUME Types, Accounted, NEW s \in Clients,
           dev' = [dev EXCEPT ![s] = NoQueue],
           \/ dev[s] # NoQueue /\ free' = free \cup {dev[s]} /\ lost' = lost
           \/ free' = free /\ lost' = lost \cup ({dev[s]} \ {NoQueue})
    PROVE  Accounted' /\ free' \in SUBSET Queues /\ lost' \in SUBSET Queues
<1>1. dev[s] \in Queues \cup {NoQueue} /\ NoQueue \notin free \cup lost
  BY QueueAssumption DEF Types
<1>2. \A t \in Clients : dev'[t] = IF t = s THEN NoQueue ELSE dev[t]
  BY DEF Types
<1>3. free' \cup lost' = free \cup lost \cup ({dev[s]} \ {NoQueue})
  OBVIOUS
<1>4. \A q \in Queues : q \in free' \cup lost' \/ \E t \in Clients : dev'[t] = q
  BY <1>2, <1>3, QueueAssumption DEF Accounted
<1>5. free' \cap lost' = {}
  BY <1>1 DEF Accounted
<1>6. \A t \in Clients : dev'[t] \notin free' \cup lost'
  BY <1>1, <1>2, <1>3 DEF Accounted
<1>7. \A t, u \in Clients : dev'[t] = dev'[u] /\ dev'[t] # NoQueue => t = u
  BY <1>2 DEF Accounted
<1> QED BY <1>1, <1>4, <1>5, <1>6, <1>7 DEF Accounted, Types

LEMMA TakingKeepsAccounted ==
    ASSUME Types, Accounted, NEW s \in Clients, NEW d \in free, dev[s] = NoQueue,
           dev' = [dev EXCEPT ![s] = d], free' = free \ {d}, lost' = lost
    PROVE  Accounted'
<1>1. \A t \in Clients : dev'[t] = IF t = s THEN d ELSE dev[t]
  BY DEF Types
<1>2. \A q \in Queues : q \in free' \cup lost' \/ \E t \in Clients : dev'[t] = q
  BY <1>1, QueueAssumption DEF Accounted
<1>3. free' \cap lost' = {}
  BY DEF Accounted
<1>4. \A t \in Clients : dev'[t] \notin free' \cup lost'
  BY <1>1 DEF Accounted
<1>5. \A t, u \in Clients : dev'[t] = dev'[u] /\ dev'[t] # NoQueue => t = u
  BY <1>1 DEF Accounted
<1> QED BY <1>2, <1>3, <1>4, <1>5 DEF Accounted

-----------------------------------------------------------------------------
(***************************************************************************)
(* A step that neither takes a hardware queue nor gives one back.          *)
(***************************************************************************)

LEMMA QuietStep ==
    ASSUME IInv, NEW s \in Clients, NEW p \in Places, NEW h \in SUBSET Parts,
           pc' = [pc EXCEPT ![s] = p], held' = [held EXCEPT ![s] = h],
           Fits(p, h, dev[s]), UNCHANGED <<dev, free, lost, rc>>,
           status' \in [Clients -> Status], again' \in [Clients -> BOOLEAN]
    PROVE  IInv'
<1>1. Types'
  BY DEF IInv, Types
<1>2. Accounted'
  BY DEF IInv, Accounted
<1>3. held'[s] = h /\ dev'[s] = dev[s] /\ Moves(s, p)
  BY DEF IInv, Types, Moves
<1>4. Held'
  BY <1>3, MoveKeepsHeld DEF IInv
<1> QED BY <1>1, <1>2, <1>4 DEF IInv

\* What is known of the stream that moves.
LEMMA Here ==
    ASSUME IInv, NEW s \in Clients
    PROVE  /\ held[s] \in SUBSET Parts /\ held = [held EXCEPT ![s] = held[s]]
           /\ Fits(pc[s], held[s], dev[s])
           /\ status \in [Clients -> Status] /\ again \in [Clients -> BOOLEAN]
  BY DEF IInv, Types, Held

\* hw_init's steps but the request for the queue.
LEMMA AcquireQuietly ==
    ASSUME IInv, NEW s \in Clients, Acquire(s), ~wd_request_queue(s) PROVE IInv'
<1> USE DEF Go, Gain, Parts
<1>0. UNIZIP_OK \in Status /\ UNIZIP_MEM_ERROR \in Status
  BY DEF Status, UNIZIP_OK, UNIZIP_MEM_ERROR
<1>1. CASE calloc_q(s)
  <2>1. CASE Go(s, "calloc_q", "request_queue") /\ Gain(s, {"q"}) /\ UNCHANGED <<status, again>>
    <3>1. Fits("request_queue", held[s] \cup {"q"}, dev[s])
      BY <2>1, Here DEF Fits
    <3> QED BY <1>1, <2>1, <3>1, Here, QuietStep DEF calloc_q
  <2>2. CASE Return(s, "calloc_q", "closed", UNIZIP_MEM_ERROR) /\ UNCHANGED held
    <3>1. Fits("closed", held[s], dev[s])
      BY <2>2, Here DEF Fits, Return
    <3>2. status' \in [Clients -> Status]
      BY <1>0, <2>2, Here DEF Return
    <3> QED BY <1>1, <2>2, <3>1, <3>2, Here, QuietStep DEF calloc_q, Return
  <2> QED BY <1>1, <2>1, <2>2 DEF calloc_q
<1>2. ASSUME NEW at \in Places, NEW part \in Parts, NEW to \in Places, NEW otherwise \in Places,
             Take(s, at, part, to, otherwise),
             Fits(at, held[s], dev[s]) => /\ Fits(to, held[s] \cup {part}, dev[s])
                                          /\ Fits(otherwise, held[s], dev[s])
      PROVE  IInv'
  <2>1. CASE Go(s, at, to) /\ Gain(s, {part})
    <3>1. held[s] \cup {part} \in SUBSET Parts
      BY <1>2, Here
    <3> QED BY <1>2, <2>1, <3>1, Here, QuietStep DEF Take
  <2>2. CASE Go(s, at, otherwise) /\ UNCHANGED held
    BY <1>2, <2>2, Here, QuietStep DEF Take
  <2> QED BY <1>2, <2>1, <2>2 DEF Take
<1>3. CASE Take(s, "create_pool", "pool", "alloc_in", "release_q")
  <2>1. Fits("create_pool", held[s], dev[s]) =>
            /\ Fits("alloc_in", held[s] \cup {"pool"}, dev[s])
            /\ Fits("release_q", held[s], dev[s])
    BY DEF Fits
  <2> QED BY <1>2, <1>3, <2>1
<1>4. CASE Take(s, "alloc_in", "in", "alloc_out", "alloc_out")
  <2>1. Fits("alloc_in", held[s], dev[s]) =>
            /\ Fits("alloc_out", held[s] \cup {"in"}, dev[s])
            /\ Fits("alloc_out", held[s], dev[s])
    BY DEF Fits
  <2> QED BY <1>2, <1>4, <2>1
<1>5. CASE Take(s, "alloc_out", "out", "check_blks", "check_blks")
  <2>1. Fits("alloc_out", held[s], dev[s]) =>
            /\ Fits("check_blks", held[s] \cup {"out"}, dev[s])
            /\ Fits("check_blks", held[s], dev[s])
    BY DEF Fits
  <2> QED BY <1>2, <1>5, <2>1
<1>6. CASE CheckBlks(s)
  <2>1. Fits("check_blks", held[s], dev[s])
    BY <1>6, Here DEF CheckBlks
  <2>2. CASE {"in", "out"} \subseteq held[s]
    <3>1. Fits("create_ctx", held[s], dev[s])
      BY <2>1, <2>2 DEF Fits
    <3> QED BY <1>6, <2>2, <3>1, Here, QuietStep DEF CheckBlks
  <2>3. CASE ~({"in", "out"} \subseteq held[s])
    <3>1. Fits("buf_free", held[s], dev[s])
      BY <2>1 DEF Fits
    <3> QED BY <1>6, <2>3, <3>1, Here, QuietStep DEF CheckBlks
  <2> QED BY <2>2, <2>3
<1>7. CASE Take(s, "create_ctx", "ctx", "calloc_opdata", "buf_free")
  <2>1. Fits("create_ctx", held[s], dev[s]) =>
            /\ Fits("calloc_opdata", held[s] \cup {"ctx"}, dev[s])
            /\ Fits("buf_free", held[s], dev[s])
    BY DEF Fits
  <2> QED BY <1>2, <1>7, <2>1
<1>8. CASE Take(s, "calloc_opdata", "opdata", "calloc_ctl", "comp_ctx_free")
  <2>1. Fits("calloc_opdata", held[s], dev[s]) =>
            /\ Fits("calloc_ctl", held[s] \cup {"opdata"}, dev[s])
            /\ Fits("comp_ctx_free", held[s], dev[s])
    BY DEF Fits
  <2> QED BY <1>2, <1>8, <2>1
<1>9. CASE calloc_ctl(s)
  <2>1. CASE Return(s, "calloc_ctl", "open", UNIZIP_OK) /\ Gain(s, {"ctl"})
    <3>1. Fits("open", held[s] \cup {"ctl"}, dev[s])
      BY <2>1, Here DEF Fits, Return
    <3>2. status' \in [Clients -> Status]
      BY <1>0, <2>1, Here DEF Return
    <3> QED BY <1>9, <2>1, <3>1, <3>2, Here, QuietStep DEF calloc_ctl, Return
  <2>2. CASE Go(s, "calloc_ctl", CtlFails) /\ UNCHANGED <<held, status, again>>
    <3>1. Fits("comp_opdata_free", held[s], dev[s])
      BY <2>2, Here DEF Fits
    <3> QED BY <1>9, <2>2, <3>1, Here, QuietStep DEF calloc_ctl, CtlFails
  <2> QED BY <1>9, <2>1, <2>2 DEF calloc_ctl
<1> QED BY <1>1, <1>3, <1>4, <1>5, <1>6, <1>7, <1>8, <1>9 DEF Acquire

-----------------------------------------------------------------------------
(***************************************************************************)
(* The steps that move a hardware queue.                                   *)
(***************************************************************************)

\* A step after which s has no hardware queue.
LEMMA GivingStep ==
    ASSUME IInv, NEW s \in Clients, NEW p \in Places, NEW h \in SUBSET Parts,
           pc' = [pc EXCEPT ![s] = p], held' = [held EXCEPT ![s] = h],
           dev' = [dev EXCEPT ![s] = NoQueue], Fits(p, h, NoQueue),
           \/ dev[s] # NoQueue /\ free' = free \cup {dev[s]} /\ lost' = lost
           \/ free' = free /\ lost' = lost \cup ({dev[s]} \ {NoQueue}),
           rc' = rc, status' \in [Clients -> Status], again' \in [Clients -> BOOLEAN]
    PROVE  IInv'
<1>1. Accounted' /\ free' \in SUBSET Queues /\ lost' \in SUBSET Queues
  BY GivingKeepsAccounted DEF IInv
<1>2. Types'
  BY <1>1 DEF IInv, Types
<1>3. held'[s] = h /\ dev'[s] = NoQueue /\ Moves(s, p)
  BY DEF IInv, Types, Moves
<1>4. Held'
  BY <1>3, MoveKeepsHeld DEF IInv
<1> QED BY <1>1, <1>2, <1>4 DEF IInv

LEMMA RequestKeeps ==
    ASSUME IInv, NEW s \in Clients, wd_request_queue(s) PROVE IInv'
<1> USE DEF Go
<1>1. Fits("request_queue", held[s], dev[s])
  BY Here DEF wd_request_queue
<1>2. ASSUME NEW d \in free,
             pc' = [pc EXCEPT ![s] = "create_pool"], dev' = [dev EXCEPT ![s] = d],
             free' = free \ {d}, rc' = [rc EXCEPT ![s] = 0]
      PROVE  IInv'
  <2>1. dev[s] = NoQueue /\ d \in Queues /\ UNCHANGED <<held, lost, status, again>>
    BY <1>1 DEF Fits, IInv, Types, wd_request_queue
  <2>2. Accounted'
    BY <1>2, <2>1, TakingKeepsAccounted DEF IInv
  <2>3. Types'
    BY <1>2, <2>1 DEF IInv, Types
  <2>4. held'[s] = held[s] /\ dev'[s] = d /\ d # NoQueue /\ Moves(s, "create_pool")
    BY <1>2, <2>1, QueueAssumption DEF IInv, Types, Moves
  <2>5. Fits("create_pool", held[s], d)
    BY <1>1, <2>4 DEF Fits
  <2>6. Held'
    BY <2>4, <2>5, MoveKeepsHeld DEF IInv
  <2> QED BY <2>2, <2>3, <2>6 DEF IInv
<1>3. CASE /\ pc' = [pc EXCEPT ![s] = "hw_q_free"]
           /\ rc' = [rc EXCEPT ![s] = WD_ENODEV]
           /\ UNCHANGED <<dev, free>>
  <2>1. UNCHANGED <<held, lost, status, again>>
    BY DEF wd_request_queue
  <2>2. Types' /\ Accounted'
    BY <1>3, <2>1 DEF IInv, Types, Accounted
  <2>3. held'[s] = held[s] /\ dev'[s] = dev[s] /\ Moves(s, "hw_q_free")
    BY <1>3, <2>1 DEF IInv, Types, Moves
  <2>4. Fits("hw_q_free", held[s], dev[s])
    BY <1>1 DEF Fits
  <2>5. Held'
    BY <2>3, <2>4, MoveKeepsHeld DEF IInv
  <2> QED BY <2>2, <2>5 DEF IInv
<1> QED BY <1>2, <1>3 DEF wd_request_queue

\* One label of the unwinding, or one step of hw_end, that frees some parts.
LEMMA UndoStep ==
    ASSUME IInv, NEW s \in Clients, NEW at \in Places, NEW parts, NEW to \in Places,
           Undo(s, at, parts, to),
           Fits(at, held[s], dev[s]) => Fits(to, held[s] \ parts, dev[s])
    PROVE  IInv'
<1>1. held[s] \ parts \in SUBSET Parts /\ Fits(at, held[s], dev[s])
  BY Here DEF Undo, Go
<1> QED BY <1>1, Here, QuietStep DEF Undo, Go, Drop

LEMMA UnwindKeeps ==
    ASSUME IInv, NEW s \in Clients, Unwind(s) PROVE IInv'
<1>1. CASE Undo(s, "comp_opdata_free", {"opdata"}, "comp_ctx_free")
  BY <1>1, UndoStep DEF Fits
<1>2. CASE Undo(s, "comp_ctx_free", {"ctx"}, "buf_free")
  BY <1>2, UndoStep DEF Fits
<1>3. CASE Undo(s, "buf_free", {"in", "out"} \cup PoolParts(held[s] \ {"in", "out"}), "release_q")
  <2>1. Fits("buf_free", held[s], dev[s])
    BY <1>3, Here DEF Undo, Go
  <2>2. PoolParts(held[s] \ {"in", "out"}) = {"pool"}
    BY <2>1 DEF Fits, PoolParts, Blks
  <2>3. Fits("release_q", held[s] \ {"in", "out", "pool"}, dev[s])
    BY <2>1 DEF Fits
  <2>4. held[s] \ ({"in", "out"} \cup PoolParts(held[s] \ {"in", "out"}))
            = held[s] \ {"in", "out", "pool"}
    BY <2>2
  <2> QED BY <1>3, <2>3, <2>4, UndoStep
<1>4. CASE /\ Go(s, "release_q", "hw_q_free") /\ ReleaseQueue(s)
           /\ UNCHANGED <<held, lost, rc, status, again>>
  <2>1. Fits("release_q", held[s], dev[s])
    BY <1>4, Here DEF Go
  <2>2. Fits("hw_q_free", held[s], NoQueue) /\ dev[s] # NoQueue
    BY <2>1 DEF Fits
  <2> QED BY <1>4, <2>2, Here, GivingStep DEF Go, ReleaseQueue
<1>5. CASE /\ Return(s, "hw_q_free", "closed", Failure(rc[s])) /\ Drop(s, {"q"})
           /\ UNCHANGED <<dev, free, lost, rc>>
  <2>1. Fits("hw_q_free", held[s], dev[s])
    BY <1>5, Here DEF Return, Go
  <2>2. Fits("closed", held[s] \ {"q"}, dev[s])
    BY <2>1 DEF Fits
  <2>3. status' \in [Clients -> Status]
    BY <1>5, Here DEF Return, Failure, Status, UNIZIP_DATA_ERROR, UNIZIP_MEM_ERROR
  <2>4. held[s] \ {"q"} \in SUBSET Parts
    BY Here
  <2> QED BY <1>5, <2>2, <2>3, <2>4, Here, QuietStep DEF Return, Go, Drop
<1> QED BY <1>1, <1>2, <1>3, <1>4, <1>5 DEF Unwind

\* The status of a call that does not enter hw_init is an error of its own.
LEMMA BeginStatus ==
    ASSUME IInv, NEW s \in Clients, NEW at, Begin(s, at)
    PROVE  /\ status' \in [Clients -> Status] /\ pc[s] = at
           /\ \/ pc' = [pc EXCEPT ![s] = "calloc_q"]
              \/ pc' = [pc EXCEPT ![s] = "closed"]
  BY Here DEF Begin, Go, Status, UNIZIP_MEM_ERROR, UNIZIP_DATA_ERROR

LEMMA EndKeeps ==
    ASSUME IInv, NEW s \in Clients, End(s) PROVE IInv'
<1>1. CASE Undo(s, "end_bufs", {"in", "out"}, "end_ctx")
  BY <1>1, UndoStep DEF Fits
<1>2. CASE Undo(s, "end_ctx", {"ctx"}, "end_queue")
  BY <1>2, UndoStep DEF Fits
<1>3. CASE /\ Go(s, "end_queue", "end_pool") /\ Drop(s, {"q"}) /\ ReleaseQueue(s)
           /\ UNCHANGED <<lost, rc, status, again>>
  <2>1. Fits("end_queue", held[s], dev[s])
    BY <1>3, Here DEF Go
  <2>2. Fits("end_pool", held[s] \ {"q"}, NoQueue) /\ dev[s] # NoQueue
    BY <2>1 DEF Fits
  <2>3. held[s] \ {"q"} \in SUBSET Parts
    BY Here
  <2> QED BY <1>3, <2>2, <2>3, Here, GivingStep DEF Go, Drop, ReleaseQueue
<1>4. CASE Undo(s, "end_pool", PoolParts(held[s]), "end_rest")
  <2>1. Fits("end_pool", held[s], dev[s])
    BY <1>4, Here DEF Undo, Go
  <2>2. PoolParts(held[s]) = {"pool"}
    BY <2>1 DEF Fits, PoolParts, Blks
  <2>3. Fits("end_rest", held[s] \ {"pool"}, dev[s])
    BY <2>1 DEF Fits
  <2> QED BY <1>4, <2>2, <2>3, UndoStep
<1>5. CASE /\ pc[s] = "end_rest" /\ Drop(s, {"opdata", "ctl"})
           /\ pc' = [pc EXCEPT ![s] = "closed"] \/ pc' = [pc EXCEPT ![s] = "calloc_q"]
           /\ status' \in [Clients -> Status] /\ again' \in [Clients -> BOOLEAN]
           /\ UNCHANGED <<dev, free, lost, rc>>
  <2>1. Fits("end_rest", held[s], dev[s])
    BY <1>5, Here
  <2>2. /\ Fits("closed", held[s] \ {"opdata", "ctl"}, dev[s])
        /\ Fits("calloc_q", held[s] \ {"opdata", "ctl"}, dev[s])
    BY <2>1 DEF Fits
  <2>3. held[s] \ {"opdata", "ctl"} \in SUBSET Parts
    BY Here
  <2> QED BY <1>5, <2>2, <2>3, QuietStep DEF Drop
<1>6. CASE /\ Return(s, "end_rest", "closed", UNIZIP_OK) /\ Drop(s, {"opdata", "ctl"})
           /\ UNCHANGED <<dev, free, lost, rc>>
  <2>1. status' \in [Clients -> Status] /\ again' \in [Clients -> BOOLEAN]
    BY <1>6, Here DEF Return, Status, UNIZIP_OK
  <2> QED BY <1>5, <1>6, <2>1 DEF Return, Go
<1>7. CASE /\ Begin(s, "end_rest") /\ Drop(s, {"opdata", "ctl"})
           /\ again' = [again EXCEPT ![s] = FALSE]
           /\ UNCHANGED <<dev, free, lost, rc>>
  <2>1. again' \in [Clients -> BOOLEAN]
    BY <1>7, Here
  <2> QED BY <1>5, <1>7, <2>1, BeginStatus
<1> QED BY <1>1, <1>2, <1>3, <1>4, <1>6, <1>7 DEF End

LEMMA CallbackKeeps ==
    ASSUME IInv, NEW s \in Clients,
           InitCB(s) \/ EndCB(s) \/ \E t \in Clients : CopyCB(s, t)
    PROVE  IInv'
<1>1. CASE InitCB(s)
  <2>1. Fits("closed", held[s], dev[s])
    BY <1>1, Here, BeginStatus DEF InitCB
  <2>2. Fits("calloc_q", held[s], dev[s])
    BY <2>1 DEF Fits
  <2> QED BY <1>1, <2>1, <2>2, Here, BeginStatus, QuietStep DEF InitCB
<1>2. CASE EndCB(s)
  <2>1. Fits("open", held[s], dev[s])
    BY <1>2, Here DEF EndCB, Go
  <2>2. Fits("end_bufs", held[s], dev[s])
    BY <2>1 DEF Fits
  <2>3. again' \in [Clients -> BOOLEAN]
    BY <1>2, Here DEF EndCB
  <2> QED BY <1>2, <2>2, <2>3, Here, QuietStep DEF EndCB, Go
<1>3. ASSUME NEW t \in Clients, CopyCB(s, t) PROVE IInv'
  <2>1. PICK at \in AtRest : Begin(s, at)
    BY <1>3 DEF CopyCB
  <2>2. Fits("closed", {}, NoQueue) /\ Fits("calloc_q", {}, NoQueue)
    BY DEF Fits
  <2>3. {} \in SUBSET Parts
    OBVIOUS
  <2> QED BY <1>3, <2>1, <2>2, <2>3, Here, BeginStatus, GivingStep DEF CopyCB
<1> QED BY <1>1, <1>2, <1>3

LEMMA NextKeeps ==
    ASSUME IInv, [Next]_vars PROVE IInv'
<1>1. CASE UNCHANGED vars
  BY <1>1 DEF vars, IInv, Types, Accounted, Held
<1>2. ASSUME NEW s \in Clients, Work(s) \/ InitCB(s) \/ EndCB(s) PROVE IInv'
  BY <1>2, AcquireQuietly, RequestKeeps, UnwindKeeps, EndKeeps, CallbackKeeps DEF Work
<1>3. ASSUME NEW s \in Clients, NEW t \in Clients, CopyCB(s, t) PROVE IInv'
  BY <1>3, CallbackKeeps
<1> QED BY <1>1, <1>2, <1>3 DEF Next

\* Whatever fails, a stream whose call has returned has everything or nothing,
\* and every hardware queue is accounted for: for any number of both.
THEOREM EverythingOrNothing == Spec => []NothingLeft
<1>1. Init => IInv
  BY InitInv
<1>2. IInv /\ [Next]_vars => IInv'
  BY NextKeeps
<1>3. IInv => NothingLeft
  BY InvEnough
<1> QED BY <1>1, <1>2, <1>3, PTL DEF Spec

-----------------------------------------------------------------------------
(***************************************************************************)
(* What a step looks like from outside.                                    *)
(***************************************************************************)

\* No other stream notices.
LEMMA OthersStay ==
    ASSUME IInv, NEW s \in Clients,
           Work(s) \/ InitCB(s) \/ EndCB(s) \/ \E t \in Clients : CopyCB(s, t)
    PROVE  \A t \in Clients \ {s} : pc'[t] = pc[t] /\ dev'[t] = dev[t] /\ held'[t] = held[t]
<1> SUFFICES ASSUME NEW t \in Clients \ {s}
             PROVE  pc'[t] = pc[t] /\ dev'[t] = dev[t] /\ held'[t] = held[t]
  OBVIOUS
<1> USE DEF Go, Return, Begin, Undo, ReleaseQueue, Gain, Drop, IInv, Types
<1>1. CASE Acquire(s)
  BY <1>1 DEF Acquire, calloc_q, wd_request_queue, Take, CheckBlks, calloc_ctl
<1>2. CASE Unwind(s)
  BY <1>2 DEF Unwind
<1>3. CASE End(s)
  BY <1>3 DEF End
<1>4. CASE InitCB(s) \/ EndCB(s) \/ \E u \in Clients : CopyCB(s, u)
  BY <1>4 DEF InitCB, EndCB, CopyCB
<1> QED BY <1>1, <1>2, <1>3, <1>4 DEF Work

\* The stream that moves: the four steps that begin or end a call, and the rest.
LEMMA Seen ==
    ASSUME IInv, NEW s \in Clients,
           Work(s) \/ InitCB(s) \/ EndCB(s) \/ \E t \in Clients : CopyCB(s, t)
    PROVE  \/ /\ pc[s] \in Opening /\ pc'[s] = "open" /\ status'[s] = UNIZIP_OK
              /\ UNCHANGED <<dev, lost>> /\ dev[s] # NoQueue
           \/ /\ pc[s] \in Opening /\ pc'[s] = "closed" /\ status'[s] # UNIZIP_OK
              /\ lost' = lost
           \/ /\ pc[s] = "open" /\ pc'[s] \notin Opening \cup {"open"} /\ lost' = lost
           \/ /\ pc[s] = "open" /\ pc'[s] # "open" /\ lost' = lost \cup {dev[s]}
           \/ /\ pc[s] # "open" /\ pc'[s] # "open" /\ lost' = lost
              /\ ~(pc[s] \in Opening /\ pc'[s] \in AtRest)
<1> USE DEF Opening
<1>1. CASE Acquire(s)
  <2> USE DEF Go, IInv, Types
  <2>1. CASE calloc_q(s)
    BY <2>1 DEF calloc_q, Return, UNIZIP_OK, UNIZIP_MEM_ERROR
  <2>2. CASE wd_request_queue(s)
    BY <2>2 DEF wd_request_queue
  <2>3. CASE CheckBlks(s)
    BY <2>3 DEF CheckBlks
  <2>4. CASE calloc_ctl(s)
    <3>1. Fits("calloc_ctl", held[s], dev[s])
      BY <2>4, Here DEF calloc_ctl, Return
    <3>2. dev[s] # NoQueue
      BY <3>1 DEF Fits
    <3> QED BY <2>4, <3>2 DEF calloc_ctl, Return, CtlFails
  <2>5. CASE Take(s, "create_pool", "pool", "alloc_in", "release_q")
    BY <2>5 DEF Take
  <2>6. CASE Take(s, "alloc_in", "in", "alloc_out", "alloc_out")
    BY <2>6 DEF Take
  <2>7. CASE Take(s, "alloc_out", "out", "check_blks", "check_blks")
    BY <2>7 DEF Take
  <2>8. CASE Take(s, "create_ctx", "ctx", "calloc_opdata", "buf_free")
    BY <2>8 DEF Take
  <2>9. CASE Take(s, "calloc_opdata", "opdata", "calloc_ctl", "comp_ctx_free")
    BY <2>9 DEF Take
  <2> QED BY <1>1, <2>1, <2>2, <2>3, <2>4, <2>5, <2>6, <2>7, <2>8, <2>9 DEF Acquire
<1>2. CASE Unwind(s)
  <2>1. Failure(rc[s]) # UNIZIP_OK
    BY DEF Failure, UNIZIP_OK, UNIZIP_DATA_ERROR, UNIZIP_MEM_ERROR
  <2> QED BY <1>2, <2>1 DEF Unwind, Undo, Go, Return, IInv, Types
<1>3. CASE End(s)
  BY <1>3 DEF End, Undo, Go, Return, Begin, IInv, Types
<1>4. CASE InitCB(s)
  BY <1>4 DEF InitCB, Begin, Go, IInv, Types
<1>5. CASE EndCB(s)
  BY <1>5 DEF EndCB, Go, IInv, Types
<1>6. ASSUME NEW t \in Clients, CopyCB(s, t)
      PROVE  \/ pc[s] = "open" /\ pc'[s] # "open" /\ lost' = lost \cup {dev[s]}
             \/ pc[s] = "closed" /\ pc'[s] # "open" /\ lost' = lost
  <2>1. PICK at \in AtRest : Begin(s, at)
    BY <1>6 DEF CopyCB
  <2>2. pc[s] \in AtRest /\ pc'[s] # "open"
    BY <2>1, BeginStatus DEF IInv, Types
  <2>3. Fits(pc[s], held[s], dev[s]) /\ lost' = lost \cup ({dev[s]} \ {NoQueue})
    BY <1>6, Here DEF CopyCB
  <2>4. CASE pc[s] = "open"
    BY <2>2, <2>3, <2>4 DEF Fits
  <2>5. CASE pc[s] = "closed"
    BY <2>2, <2>3, <2>5 DEF Fits
  <2> QED BY <2>2, <2>4, <2>5
<1> QED BY <1>1, <1>2, <1>3, <1>4, <1>5, <1>6 DEF Work

\* Who moves in a step.
LEMMA SomeoneMoves ==
    ASSUME Next
    PROVE  \E s \in Clients :
              Work(s) \/ InitCB(s) \/ EndCB(s) \/ \E t \in Clients : CopyCB(s, t)
  BY DEF Next

\* A call that opens a stream says OK exactly when it is open, whichever step
\* of hw_init failed: for any number of streams and of hardware queues.
THEOREM TheTruth == Spec => ToldTruly
<1>1. ASSUME IInv, Next, NEW t \in Clients, pc[t] \in Opening, pc'[t] \in AtRest
      PROVE  pc'[t] = "open" <=> status'[t] = UNIZIP_OK
  <2>1. PICK s \in Clients :
            Work(s) \/ InitCB(s) \/ EndCB(s) \/ \E u \in Clients : CopyCB(s, u)
    BY <1>1, SomeoneMoves
  <2>2. CASE t # s
    <3>1. pc'[t] = pc[t]
      BY <1>1, <2>1, <2>2, OthersStay
    <3> QED BY <1>1, <3>1 DEF Opening
  <2>3. CASE t = s
    BY <1>1, <2>1, <2>3, Seen DEF Opening
  <2> QED BY <2>2, <2>3
<1>2. IInv /\ [Next]_vars
        => [\A s \in Clients :
               pc[s] \in Opening /\ pc'[s] \in AtRest
                  => (pc'[s] = "open" <=> status'[s] = UNIZIP_OK)]_vars
  BY <1>1
<1> QED BY <1>2, InitInv, NextKeeps, PTL DEF Spec, ToldTruly

-----------------------------------------------------------------------------
(***************************************************************************)
(* The refinement.                                                         *)
(***************************************************************************)

\* The queue of each stream, as QueueSessions has it.
session == [s \in Clients |-> IF pc[s] = "open" THEN dev[s] ELSE NoQueue]

LEMMA StepIsSessionStep ==
    ASSUME IInv, Next
    PROVE  \/ UNCHANGED <<session, lost>>
           \/ \E s \in Clients :
                 \/ \E q \in Queues :
                       /\ session[s] = NoQueue
                       /\ q \notin lost /\ \A t \in Clients : session[t] # q
                       /\ session' = [session EXCEPT ![s] = q]
                       /\ lost' = lost
                 \/ /\ session[s] # NoQueue
                    /\ session' = [session EXCEPT ![s] = NoQueue]
                    /\ lost' = lost \/ lost' = lost \cup {session[s]}
<1>1. PICK s \in Clients :
          Work(s) \/ InitCB(s) \/ EndCB(s) \/ \E t \in Clients : CopyCB(s, t)
  BY SomeoneMoves
<1>2. \A t \in Clients \ {s} : pc'[t] = pc[t] /\ dev'[t] = dev[t]
  BY <1>1, OthersStay
<1>3. session' = [session EXCEPT ![s] = IF pc'[s] = "open" THEN dev'[s] ELSE NoQueue]
  BY <1>2 DEF session
<1>4. session[s] = IF pc[s] = "open" THEN dev[s] ELSE NoQueue
  BY DEF session
<1>5. Fits(pc[s], held[s], dev[s])
  BY Here
<1>6. CASE /\ pc[s] \in Opening /\ pc'[s] = "open"
           /\ UNCHANGED <<dev, lost>> /\ dev[s] # NoQueue
  <2>1. session[s] = NoQueue /\ session' = [session EXCEPT ![s] = dev[s]]
    BY <1>3, <1>4, <1>6 DEF Opening
  <2>2. dev[s] \in Queues /\ dev[s] \notin lost
    BY <1>6 DEF IInv, Types, Accounted
  <2>3. ASSUME NEW t \in Clients PROVE session[t] # dev[s]
    <3>1. CASE t = s
      BY <1>6, <2>1, <3>1
    <3>2. CASE t # s
      BY <1>6, <3>2 DEF session, IInv, Accounted
    <3> QED BY <3>1, <3>2
  <2> QED BY <1>6, <2>1, <2>2, <2>3
<1>7. CASE pc[s] = "open" /\ pc'[s] # "open" /\ (lost' = lost \/ lost' = lost \cup {dev[s]})
  <2>1. session[s] = dev[s] /\ session' = [session EXCEPT ![s] = NoQueue]
    BY <1>3, <1>4, <1>7
  <2>2. dev[s] # NoQueue
    BY <1>5, <1>7 DEF Fits
  <2> QED BY <1>7, <2>1, <2>2
<1>8. CASE pc[s] # "open" /\ pc'[s] # "open" /\ lost' = lost
  <2>1. session' = [session EXCEPT ![s] = session[s]]
    BY <1>3, <1>4, <1>8
  <2>2. session' = session
    BY <2>1 DEF session
  <2> QED BY <1>8, <2>2
<1> QED BY <1>1, <1>6, <1>7, <1>8, Seen DEF Opening

\* Seen from outside, hw_init and hw_end are single steps: a stream gets a
\* hardware queue nobody else has, gives it back or loses it, or nothing
\* happened.
THEOREM Refinement == Spec => AllOrNothing
<1>1. Init => Sessions!Init
  BY DEF Init, Sessions!Init
<1>2. IInv /\ [Next]_vars => [Sessions!Next]_Sessions!vars
  <2> SUFFICES ASSUME IInv, [Next]_vars PROVE [Sessions!Next]_Sessions!vars
    OBVIOUS
  <2>1. CASE UNCHANGED vars
    BY <2>1 DEF vars, Sessions!vars
  <2>2. CASE Next
    BY <2>2, StepIsSessionStep
       DEF session, Sessions!vars, Sessions!Next, Sessions!Open, Sessions!Close, Sessions!Lose
  <2> QED BY <2>1, <2>2
<1> QED BY <1>1, <1>2, InitInv, NextKeeps, PTL DEF Spec, AllOrNothing, Sessions!Spec

-----------------------------------------------------------------------------
(***************************************************************************)
(* The calls end.                                                          *)
(***************************************************************************)

\* A step of hw_init or hw_end is one to a later label.
LEMMA WorkGoesOn ==
    ASSUME IInv, NEW s \in Clients, Work(s)
    PROVE  Left[pc'[s]] < Left[pc[s]]
<1> USE DEF Go, Left, IInv, Types
<1>1. CASE Acquire(s)
  <2>1. CASE calloc_q(s)
    BY <2>1 DEF calloc_q, Return
  <2>2. CASE wd_request_queue(s)
    BY <2>2 DEF wd_request_queue
  <2>3. CASE CheckBlks(s)
    BY <2>3 DEF CheckBlks
  <2>4. CASE calloc_ctl(s)
    BY <2>4 DEF calloc_ctl, Return, CtlFails
  <2>5. CASE Take(s, "create_pool", "pool", "alloc_in", "release_q")
    BY <2>5 DEF Take
  <2>6. CASE Take(s, "alloc_in", "in", "alloc_out", "alloc_out")
    BY <2>6 DEF Take
  <2>7. CASE Take(s, "alloc_out", "out", "check_blks", "check_blks")
    BY <2>7 DEF Take
  <2>8. CASE Take(s, "create_ctx", "ctx", "calloc_opdata", "buf_free")
    BY <2>8 DEF Take
  <2>9. CASE Take(s, "calloc_opdata", "opdata", "calloc_ctl", "comp_ctx_free")
    BY <2>9 DEF Take
  <2> QED BY <1>1, <2>1, <2>2, <2>3, <2>4, <2>5, <2>6, <2>7, <2>8, <2>9 DEF Acquire
<1>2. CASE Unwind(s)
  BY <1>2 DEF Unwind, Undo, Return
<1>3. CASE End(s)
  BY <1>3 DEF End, Undo, Return, Begin
<1> QED BY <1>1, <1>2, <1>3 DEF Work

\* Each step of a call is one to a later label, and the call has no other
\* steps: for any number of streams, none goes round in hw_init, however often
\* it or another one fails, and none is moved by another's.
THEOREM CallsEnd == Spec => OnlyOnward
<1>1. ASSUME IInv, Next, NEW t \in Clients, pc[t] \notin AtRest
      PROVE  \/ Left[pc'[t]] < Left[pc[t]]
             \/ pc'[t] = pc[t] /\ held'[t] = held[t] /\ dev'[t] = dev[t]
  <2>1. PICK s \in Clients :
            Work(s) \/ InitCB(s) \/ EndCB(s) \/ \E u \in Clients : CopyCB(s, u)
    BY <1>1, SomeoneMoves
  <2>2. CASE t # s
    BY <1>1, <2>1, <2>2, OthersStay
  <2>3. CASE t = s
    <3>1. ~(InitCB(s) \/ EndCB(s) \/ \E u \in Clients : CopyCB(s, u))
      BY <1>1, <2>3 DEF InitCB, EndCB, CopyCB, Begin, Go
    <3> QED BY <1>1, <2>1, <2>3, <3>1, WorkGoesOn
  <2> QED BY <2>2, <2>3
<1>2. IInv /\ [Next]_vars
        => [\A s \in Clients :
               pc[s] \notin AtRest =>
                  \/ Left[pc'[s]] < Left[pc[s]]
                  \/ pc'[s] = pc[s] /\ held'[s] = held[s] /\ dev'[s] = dev[s]]_vars
  BY <1>1
<1> QED BY <1>2, InitInv, NextKeeps, PTL DEF Spec, OnlyOnward

=============================================================================
