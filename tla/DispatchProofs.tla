--------------------------- MODULE DispatchProofs ---------------------------
(***************************************************************************)
(* Proofs about Dispatch for any number of threads, any environment and    *)
(* any selection.                                                          *)
(*                                                                         *)
(* The argument: a thread that is about to store the resolved selection    *)
(* can only store what value is, or what it stands for, already; so once a *)
(* thread has seen an algorithm in value, no other one changes it.         *)
(***************************************************************************)
EXTENDS Dispatch, TLAPS

USE UnsetAssumption, EnvsAssumption, ChoicesAssumption

\* The labels a thread reaches after it saw an algorithm in value, and the
\* ones it reaches only for the accelerator.
Chosen  == {"uadk", "inited", "verdict", "mark", "deny", "probe", "guard", "call"}
Probing == {"inited", "verdict", "mark", "deny", "probe"}

Usable == world.aarch64 /\ world.device /\ ~world.uadk_no

\* What holds of one thread, whatever the others do.
ThreadInv(t) ==
    /\ pc[t] = "store" => value \in {CASE_INVALID, Resolve(world.env)}
    /\ pc[t] \in Chosen => value \in Algs
    /\ pc[t] \in Probing => value = CASE_UADK /\ world.aarch64
    /\ pc[t] = "deny" => world.uadk_no
    /\ pc[t] = "probe" => ~world.uadk_no
    /\ pc[t] \in {"guard", "call"} /\ value = CASE_UADK => Usable
    /\ pc[t] = "guard" => op[t] \in Guarded
    /\ pc[t] = "call" /\ op[t] \in Guarded => value \in Slots(op[t])
    /\ pc[t] # "out" /\ op[t] \in Unguarded => Selected \in Slots(op[t])
    /\ pc[t] # "out" /\ op[t] \in Opening => live[t] = NoAlg
    /\ pc[t] # "out" /\ op[t] \in Using \cup {"close"} => live[t] # NoAlg
    /\ live[t] # NoAlg => live[t] = value

IInv ==
    /\ TypeOK
    /\ enabled => Usable
    /\ \A t \in Threads : ThreadInv(t)

-----------------------------------------------------------------------------

\* What a step may do to the selection: nothing, or resolve it.
Resolves ==
    /\ world' = world
    /\ \/ value' = value
       \/ value \in {CASE_INVALID, Resolve(world.env)} /\ value' = Resolve(world.env)

\* A value outside the table is no algorithm.
LEMMA InvalidIsNoAlg == CASE_INVALID \notin Algs /\ CASE_UADK \in Algs /\ NoAlg \notin Algs
                        /\ Algs \subseteq Int
  BY DEF CASE_INVALID, Algs, CASE_ZLIB, CASE_GZIP, CASE_UADK, NoAlg

\* Resolving the environment always gives a number.
LEMMA ResolveType == ASSUME TypeOK PROVE Resolve(world.env) \in Int
<1>1. world.env \in Envs
  BY DEF TypeOK, Worlds
<1>2. world.env = Unset \/ world.env \in Int
  BY <1>1, EnvsAssumption
<1>3. CASE world.env = Unset
  BY <1>3 DEF Resolve, CASE_ZLIB
<1>4. CASE world.env # Unset
  BY <1>2, <1>4 DEF Resolve
<1>5. QED
  BY <1>3, <1>4

\* Resolving the selection does not change what is selected.
LEMMA SelectedStable == ASSUME Resolves PROVE Selected' = Selected
  BY DEF Resolves, Selected, Resolve

\* Once an algorithm was seen in value, resolving changes nothing.
LEMMA ChosenStable == ASSUME Resolves, value \in Algs PROVE value' = value
  BY InvalidIsNoAlg DEF Resolves

\* What holds of a thread goes on holding when another one resolves the
\* selection or does something of its own.
LEMMA OthersKeep ==
    ASSUME IInv, Resolves, NEW s \in Threads,
           pc'[s] = pc[s], op'[s] = op[s], live'[s] = live[s]
    PROVE  ThreadInv(s)'
<1>1. ThreadInv(s) /\ live[s] \in Algs \cup {NoAlg}
  BY DEF IInv, TypeOK
<1>2. /\ world' = world /\ Selected' = Selected
      /\ Resolve(world.env)' = Resolve(world.env) /\ Slots(op[s])' = Slots(op[s])
      /\ Usable' = Usable
  BY SelectedStable DEF Resolves, Resolve, Slots, Usable
<1>3. CASE value' = value
  BY <1>1, <1>2, <1>3 DEF ThreadInv
<1>4. CASE value' # value
  <2>1. value \notin Algs /\ value' = Resolve(world.env)
    BY <1>4, ChosenStable DEF Resolves
  <2>2. pc[s] \notin Chosen /\ pc[s] \notin Probing /\ live[s] = NoAlg
    BY <1>1, <2>1 DEF ThreadInv, Chosen, Probing
  <2>3. QED
    BY <1>1, <1>2, <2>1, <2>2 DEF ThreadInv, Chosen, Probing
<1>5. QED
  BY <1>3, <1>4

\* A step of one thread keeps the invariant if it only resolves the selection,
\* leaves the thread itself well placed and the others where they were.
LEMMA OneThread ==
    ASSUME IInv, NEW t \in Threads, Resolves, TypeOK', enabled' => Usable',
           ThreadInv(t)',
           \A s \in Threads \ {t} :
               pc'[s] = pc[s] /\ op'[s] = op[s] /\ live'[s] = live[s]
    PROVE  IInv'
<1>1. ASSUME NEW s \in Threads PROVE ThreadInv(s)'
  <2>1. CASE s = t
    BY <2>1
  <2>2. CASE s # t
    BY <2>2, OthersKeep
  <2>3. QED
    BY <2>1, <2>2
<1>2. QED
  BY <1>1 DEF IInv

\* Steps that only move a thread on and perhaps tell it something.
LEMMA MovesOn ==
    ASSUME IInv, NEW t \in Threads, NEW l \in Labels, Goto(t, l),
           UNCHANGED <<value, inited, enabled, world, op, live, served>>,
           told' = told \/ told' = [told EXCEPT ![t] = "invalid"]
                        \/ told' = [told EXCEPT ![t] = "disabled"],
           ThreadInv(t)'
    PROVE  IInv'
<1>1. pc' \in [Threads -> Labels] /\ told' \in [Threads -> {"nothing", "invalid", "disabled"}]
  BY DEF Goto, IInv, TypeOK
<1>2. TypeOK'
  BY <1>1 DEF IInv, TypeOK
<1>3. Resolves /\ (enabled' => Usable')
  BY DEF Resolves, IInv, Usable
<1>4. \A s \in Threads \ {t} : pc'[s] = pc[s] /\ op'[s] = op[s] /\ live'[s] = live[s]
  BY DEF Goto, IInv, TypeOK
<1>5. QED
  BY <1>2, <1>3, <1>4, OneThread

-----------------------------------------------------------------------------

\* Every step a thread takes inside the library preserves the invariant.
LEMMA InsideStep ==
    ASSUME IInv, NEW t \in Threads, Inside(t)
    PROVE  IInv'
<1> USE DEF Labels, Chosen, Probing
<1>0. /\ ThreadInv(t) /\ pc \in [Threads -> Labels] /\ op \in [Threads -> Ops]
      /\ live \in [Threads -> Algs \cup {NoAlg}] /\ told \in [Threads -> {"nothing", "invalid", "disabled"}]
      /\ served \in [Threads -> Algs \cup {NoAlg}] /\ value \in Int
  BY DEF IInv, TypeOK
<1>1. CASE Test(t)
  <2>1. PICK l \in {"store", "range"} : l = (IF value = CASE_INVALID THEN "store" ELSE "range")
    OBVIOUS
  <2>2. /\ pc[t] = "test" /\ Goto(t, l) /\ l \in Labels
        /\ UNCHANGED <<value, inited, enabled, world, op, live, served, told>>
    BY <1>1, <2>1 DEF Test
  <2>3. pc'[t] = l /\ pc'[t] \notin Chosen
    BY <1>0, <2>1, <2>2 DEF Goto
  <2>4. ThreadInv(t)'
    BY <1>0, <2>1, <2>2, <2>3 DEF ThreadInv, Selected, Resolve, Slots
  <2>5. QED
    BY <2>2, <2>4, MovesOn
<1>2. CASE Store(t)
  <2>1. /\ pc[t] = "store" /\ value' = Resolve(world.env) /\ Goto(t, "range")
        /\ UNCHANGED <<inited, enabled, world, op, live, served, told>>
    BY <1>2 DEF Store
  <2>2. Resolves
    BY <1>0, <2>1 DEF Resolves, ThreadInv
  <2>3. pc' \in [Threads -> Labels] /\ pc'[t] = "range"
        /\ \A s \in Threads \ {t} : pc'[s] = pc[s]
    BY <1>0, <2>1 DEF Goto
  <2>4. value' \in Int
    BY <2>1, ResolveType DEF IInv
  <2>5. TypeOK'
    BY <2>1, <2>3, <2>4 DEF IInv, TypeOK
  <2>6. live[t] # NoAlg => value' = value
    BY <1>0, <2>2, ChosenStable DEF ThreadInv
  <2>7. ThreadInv(t)'
    BY <1>0, <2>1, <2>2, <2>3, <2>6, SelectedStable DEF ThreadInv, Slots
  <2>8. QED
    BY <2>1, <2>2, <2>3, <2>5, <2>7, OneThread DEF IInv, Usable
<1>3. CASE TestRange(t)
  <2>1. PICK l \in {"uadk", "out"} : l = (IF InRange(value) THEN "uadk" ELSE "out")
    OBVIOUS
  <2>2. /\ pc[t] = "range" /\ Goto(t, l) /\ l \in Labels
        /\ UNCHANGED <<value, inited, enabled, world, op, live, served>>
        /\ told' = told \/ told' = [told EXCEPT ![t] = "invalid"]
    BY <1>3, <2>1 DEF TestRange, Refuse
  <2>3. pc'[t] = l
    BY <1>0, <2>2 DEF Goto
  <2>4. l = "uadk" => value \in Algs
    BY <1>0, <2>1 DEF InRange, Algs, CASE_ZLIB, CASE_GZIP
  <2>5. ThreadInv(t)'
    BY <1>0, <2>1, <2>2, <2>3, <2>4 DEF ThreadInv, Selected, Resolve, Slots
  <2>6. QED
    BY <2>2, <2>5, MovesOn
<1>4. CASE Uadk(t)
  <2>1. PICK l \in {"guard", "call", "inited", "out"} :
           l = (IF value # CASE_UADK THEN IF op[t] \in Guarded THEN "guard" ELSE "call"
                ELSE IF world.aarch64 THEN "inited" ELSE "out")
    OBVIOUS
  <2>2. /\ pc[t] = "uadk" /\ Goto(t, l) /\ l \in Labels
        /\ UNCHANGED <<value, inited, enabled, world, op, live, served>>
        /\ told' = told \/ told' = [told EXCEPT ![t] = "disabled"]
    BY <1>4, <2>1 DEF Uadk, Refuse, Checked
  <2>3. pc'[t] = l
    BY <1>0, <2>2 DEF Goto
  <2>4. ThreadInv(t)'
    BY <1>0, <2>1, <2>2, <2>3 DEF ThreadInv, Selected, Resolve, Slots
  <2>5. QED
    BY <2>2, <2>4, MovesOn
<1>5. CASE Inited(t)
  <2>1. PICK l \in {"verdict", "mark"} : l = (IF inited THEN "verdict" ELSE "mark")
    OBVIOUS
  <2>2. /\ pc[t] = "inited" /\ Goto(t, l) /\ l \in Labels
        /\ UNCHANGED <<value, inited, enabled, world, op, live, served, told>>
    BY <1>5, <2>1 DEF Inited
  <2>3. pc'[t] = l
    BY <1>0, <2>2 DEF Goto
  <2>4. ThreadInv(t)'
    BY <1>0, <2>1, <2>2, <2>3 DEF ThreadInv, Selected, Resolve, Slots
  <2>5. QED
    BY <2>2, <2>4, MovesOn
<1>6. CASE Mark(t)
  <2>1. PICK l \in {"deny", "probe"} : l = (IF world.uadk_no THEN "deny" ELSE "probe")
    OBVIOUS
  <2>2. /\ pc[t] = "mark" /\ Goto(t, l) /\ inited' = TRUE
        /\ UNCHANGED <<value, enabled, world, op, live, served, told>>
    BY <1>6, <2>1 DEF Mark
  <2>3. pc' \in [Threads -> Labels] /\ pc'[t] = l
        /\ \A s \in Threads \ {t} : pc'[s] = pc[s]
    BY <1>0, <2>1, <2>2 DEF Goto
  <2>4. ThreadInv(t)'
    BY <1>0, <2>1, <2>2, <2>3 DEF ThreadInv, Selected, Resolve, Slots
  <2>5. TypeOK'
    BY <2>2, <2>3 DEF IInv, TypeOK
  <2>6. QED
    BY <2>2, <2>3, <2>4, <2>5, OneThread DEF IInv, Usable, Resolves
<1>7. CASE Deny(t)
  <2>1. /\ pc[t] = "deny" /\ Goto(t, "verdict") /\ enabled' = FALSE
        /\ UNCHANGED <<value, inited, world, op, live, served, told>>
    BY <1>7 DEF Deny
  <2>2. pc' \in [Threads -> Labels] /\ pc'[t] = "verdict"
        /\ \A s \in Threads \ {t} : pc'[s] = pc[s]
    BY <1>0, <2>1 DEF Goto
  <2>3. ThreadInv(t)'
    BY <1>0, <2>1, <2>2 DEF ThreadInv, Selected, Resolve, Slots
  <2>4. TypeOK'
    BY <2>1, <2>2 DEF IInv, TypeOK
  <2>5. QED
    BY <2>1, <2>2, <2>3, <2>4, OneThread DEF IInv, Resolves
<1>8. CASE Probe(t)
  <2>1. /\ pc[t] = "probe" /\ Goto(t, "verdict") /\ enabled' = world.device
        /\ UNCHANGED <<value, inited, world, op, live, served, told>>
    BY <1>8 DEF Probe
  <2>2. pc' \in [Threads -> Labels] /\ pc'[t] = "verdict"
        /\ \A s \in Threads \ {t} : pc'[s] = pc[s]
    BY <1>0, <2>1 DEF Goto
  <2>3. ThreadInv(t)'
    BY <1>0, <2>1, <2>2 DEF ThreadInv, Selected, Resolve, Slots
  <2>4. TypeOK'
    BY <2>1, <2>2 DEF IInv, TypeOK, Worlds
  <2>5. enabled' => Usable'
    BY <1>0, <2>1 DEF ThreadInv, Usable
  <2>6. QED
    BY <2>1, <2>2, <2>3, <2>4, <2>5, OneThread DEF Resolves
<1>9. CASE Verdict(t)
  <2>1. PICK l \in {"guard", "call", "out"} :
           l = (IF enabled THEN IF op[t] \in Guarded THEN "guard" ELSE "call" ELSE "out")
    OBVIOUS
  <2>2. /\ pc[t] = "verdict" /\ Goto(t, l) /\ l \in Labels
        /\ UNCHANGED <<value, inited, enabled, world, op, live, served>>
        /\ told' = told \/ told' = [told EXCEPT ![t] = "disabled"]
    BY <1>9, <2>1 DEF Verdict, Refuse, Checked
  <2>3. pc'[t] = l
    BY <1>0, <2>2 DEF Goto
  <2>4. l # "out" => Usable /\ Usable'
    BY <2>1, <2>2 DEF IInv, Usable
  <2>5. ThreadInv(t)'
    BY <1>0, <2>1, <2>2, <2>3, <2>4 DEF ThreadInv, Selected, Resolve, Slots
  <2>6. QED
    BY <2>2, <2>5, MovesOn
<1>10. CASE Guard(t)
  <2>1. PICK l \in {"call", "out"} :
           l = (IF value \in Slots(op[t]) THEN "call" ELSE "out")
    OBVIOUS
  <2>2. /\ pc[t] = "guard" /\ Goto(t, l) /\ l \in Labels
        /\ UNCHANGED <<value, inited, enabled, world, op, live, served, told>>
    BY <1>10, <2>1 DEF Guard
  <2>3. pc'[t] = l /\ Slots(op[t])' = Slots(op[t]) /\ Usable' = Usable
    BY <1>0, <2>2 DEF Goto, Slots, Usable
  <2>4. ThreadInv(t)'
    BY <1>0, <2>1, <2>2, <2>3 DEF ThreadInv, Selected, Resolve, Slots
  <2>5. QED
    BY <2>2, <2>4, MovesOn
<1>11. CASE Call(t)
  <2>1. /\ pc[t] = "call" /\ Goto(t, "out") /\ value \in Algs
        /\ live' = [live EXCEPT ![t] = IF op[t] \in Opening THEN value
                                       ELSE IF op[t] = "close" THEN NoAlg ELSE live[t]]
        /\ served' = [served EXCEPT ![t] =
                    IF op[t] \in OnStream THEN value ELSE served[t]]
        /\ UNCHANGED <<value, inited, enabled, world, op, told>>
    BY <1>11 DEF Call
  <2>2. /\ pc' \in [Threads -> Labels] /\ pc'[t] = "out"
        /\ live' \in [Threads -> Algs \cup {NoAlg}]
        /\ served' \in [Threads -> Algs \cup {NoAlg}]
        /\ \A s \in Threads \ {t} : pc'[s] = pc[s] /\ live'[s] = live[s]
    BY <1>0, <2>1 DEF Goto
  <2>3. live'[t] # NoAlg => live'[t] = value
    BY <1>0, <2>1 DEF ThreadInv
  <2>4. ThreadInv(t)'
    BY <2>1, <2>2, <2>3 DEF ThreadInv
  <2>5. TypeOK'
    BY <2>1, <2>2 DEF IInv, TypeOK
  <2>6. QED
    BY <2>1, <2>2, <2>4, <2>5, OneThread DEF IInv, Usable, Resolves
<1>12. QED
  BY <1>1, <1>2, <1>3, <1>4, <1>5, <1>6, <1>7, <1>8, <1>9, <1>10, <1>11 DEF Inside

\* Entering the library, or selecting when nobody is inside, preserves it too.
LEMMA OutsideStep ==
    ASSUME IInv,
           \/ \E t \in Threads, o \in Ops : MayCall(t, o) /\ Enter(t, o)
           \/ \E v \in Choices : SetValue(v)
    PROVE  IInv' /\ [Abstract!Next]_(Abstract!vars)
<1>1. ASSUME NEW t \in Threads, NEW o \in Ops, MayCall(t, o), Enter(t, o)
      PROVE  IInv' /\ UNCHANGED Abstract!vars
  <2>1. /\ pc[t] = "out" /\ op' = [op EXCEPT ![t] = o] /\ pc' = [pc EXCEPT ![t] = "test"]
        /\ told' = [told EXCEPT ![t] = "nothing"]
        /\ UNCHANGED <<value, inited, enabled, world, live, served>>
    BY <1>1 DEF Enter, Goto
  <2>2. TypeOK'
    BY <2>1 DEF IInv, TypeOK, Labels
  <2>3. /\ pc'[t] = "test" /\ op'[t] = o /\ Selected' = Selected
        /\ \A s \in Threads \ {t} : pc'[s] = pc[s] /\ op'[s] = op[s] /\ live'[s] = live[s]
    BY <2>1 DEF IInv, TypeOK, Selected, Resolve
  <2>4. ThreadInv(t) /\ live'[t] = live[t] /\ value' = value
    BY <2>1 DEF IInv
  <2>5. ThreadInv(t)'
    BY <1>1, <2>3, <2>4 DEF ThreadInv, MayCall, Chosen, Probing, Slots, Guarded, Unguarded, Opening, Using
  <2>6. IInv'
    BY <2>1, <2>2, <2>3, <2>5, OneThread DEF IInv, Usable, Resolves
  <2>7. QED
    BY <2>1, <2>3, <2>6 DEF Abstract!vars
<1>2. ASSUME NEW v \in Choices, SetValue(v)
      PROVE  IInv' /\ Abstract!Select
  <2>1. /\ value' = v /\ v \in Int
        /\ \A t \in Threads : pc[t] = "out" /\ live[t] = NoAlg
        /\ UNCHANGED <<inited, enabled, world, pc, op, live, served, told>>
    BY <1>2, ChoicesAssumption DEF SetValue, Quiet
  <2>2. TypeOK' /\ (enabled' => Usable')
    BY <2>1 DEF IInv, TypeOK, Usable
  <2>3. ASSUME NEW t \in Threads PROVE ThreadInv(t)'
    BY <2>1 DEF ThreadInv, Chosen, Probing
  <2>4. QED
    BY <2>1, <2>2, <2>3 DEF IInv, Abstract!Select
<1>3. QED
  BY <1>1, <1>2 DEF Abstract!Next

\* A step inside the library is the stream call it makes, or nothing at all.
LEMMA InsideRefines ==
    ASSUME IInv, NEW t \in Threads, Inside(t)
    PROVE  [Abstract!Next]_(Abstract!vars)
<1> USE DEF OnStream, Opening, Using
<1>1. CASE Call(t)
  <2>1. /\ pc[t] = "call" /\ value \in Algs
        /\ live' = [live EXCEPT ![t] = IF op[t] \in Opening THEN value
                                       ELSE IF op[t] = "close" THEN NoAlg ELSE live[t]]
        /\ served' = [served EXCEPT ![t] =
                    IF op[t] \in OnStream THEN value ELSE served[t]]
        /\ UNCHANGED <<value, world>>
    BY <1>1 DEF Call
  <2>2. Selected' = Selected /\ Selected = value
    BY <2>1, InvalidIsNoAlg DEF Selected, Resolve
  <2>3. /\ ThreadInv(t)
        /\ live \in [Threads -> Algs \cup {NoAlg}]
        /\ served \in [Threads -> Algs \cup {NoAlg}]
    BY DEF IInv, TypeOK
  <2>4. CASE op[t] \in Opening
    <3>1. live[t] = NoAlg /\ live' = [live EXCEPT ![t] = value]
          /\ served' = [served EXCEPT ![t] = value]
      BY <2>1, <2>3, <2>4 DEF ThreadInv
    <3>2. QED
      BY <2>1, <2>2, <3>1 DEF Abstract!Next, Abstract!Open
  <2>5. CASE op[t] \in Using
    <3>1. live[t] # NoAlg /\ live[t] = value
      BY <2>1, <2>3, <2>5 DEF ThreadInv
    <3>2. live' = live /\ served' = [served EXCEPT ![t] = live[t]]
      BY <2>1, <2>3, <2>5, <3>1
    <3>3. QED
      BY <2>2, <3>1, <3>2 DEF Abstract!Next, Abstract!Use
  <2>6. CASE op[t] = "close"
    <3>1. live[t] # NoAlg /\ live[t] = value
      BY <2>1, <2>3, <2>6 DEF ThreadInv
    <3>2. live' = [live EXCEPT ![t] = NoAlg] /\ served' = [served EXCEPT ![t] = live[t]]
      BY <2>1, <2>6, <3>1
    <3>3. QED
      BY <2>2, <3>1, <3>2 DEF Abstract!Next, Abstract!Close
  <2>7. CASE op[t] \notin OnStream
    <3>1. live' = live /\ served' = served
      BY <2>1, <2>3, <2>7
    <3>2. QED
      BY <2>2, <3>1 DEF Abstract!vars
  <2>8. QED
    BY <2>4, <2>5, <2>6, <2>7
<1>2. CASE ~Call(t)
  <2>1. /\ UNCHANGED <<live, served>>
        /\ world' = world
        /\ value' = value \/ Store(t)
    BY <1>2 DEF Inside, Test, Store, TestRange, Uadk, Inited, Mark, Deny, Probe,
                Verdict, Guard
  <2>2. Resolves
    BY <2>1 DEF Store, Resolves, IInv, ThreadInv
  <2>3. QED
    BY <2>1, <2>2, SelectedStable DEF Abstract!vars
<1>3. QED
  BY <1>1, <1>2

\* Nobody is in the library and no stream is open when the program starts.
LEMMA InitInv == Init => IInv /\ Abstract!Init
<1> SUFFICES ASSUME Init PROVE IInv /\ Abstract!Init
  OBVIOUS
<1>1. TypeOK
  <2>1. value \in Int
    BY DEF Init, CASE_INVALID
  <2>2. inited \in BOOLEAN /\ enabled \in BOOLEAN
    BY DEF Init
  <2>3. "out" \in Labels /\ "plain" \in Ops
    BY DEF Labels, Ops
  <2>4. QED
    BY <2>1, <2>2, <2>3 DEF Init, TypeOK
<1>2. ASSUME NEW t \in Threads PROVE ThreadInv(t)
  BY DEF Init, ThreadInv, Chosen, Probing
<1>3. QED
  BY <1>1, <1>2 DEF Init, IInv, Abstract!Init

\* A stuttering step changes nothing.
LEMMA Stutter == IInv /\ UNCHANGED vars => IInv' /\ UNCHANGED Abstract!vars
<1> SUFFICES ASSUME IInv, UNCHANGED vars PROVE IInv' /\ UNCHANGED Abstract!vars
  OBVIOUS
<1>1. TypeOK' /\ (enabled' => Usable')
  BY DEF vars, IInv, TypeOK, Usable
<1>2. Resolves
  BY DEF vars, Resolves
<1>3. ASSUME NEW t \in Threads PROVE ThreadInv(t)'
  BY <1>2, OthersKeep DEF vars
<1>4. Selected' = Selected
  BY <1>2, SelectedStable
<1>5. QED
  BY <1>1, <1>3, <1>4 DEF IInv, vars, Abstract!vars

\* Every step preserves the invariant and is a step of the abstract selection.
LEMMA Step == IInv /\ [Next]_vars => IInv' /\ [Abstract!Next]_(Abstract!vars)
  BY InsideStep, InsideRefines, OutsideStep, Stutter DEF Next

\* The inductive invariant holds in every execution.
THEOREM Invariance == Spec => []IInv
  BY InitInv, Step, PTL DEF Spec

\* No thread calls outside the table or through an empty slot.
THEOREM CallsAreThere == Spec => []NoWildCall
<1>1. IInv => NoWildCall
  <2> SUFFICES ASSUME IInv, NEW t \in Threads
               PROVE  /\ pc[t] \in {"guard", "call"} => value \in Algs
                      /\ pc[t] = "call" => value \in Slots(op[t])
    BY DEF NoWildCall, IInv
  <2>1. ThreadInv(t)
    BY DEF IInv
  <2>2. pc[t] \in {"guard", "call"} => value \in Algs
    BY <2>1 DEF ThreadInv, Chosen
  <2>3. pc[t] = "call" => value \in Slots(op[t])
    <3>1. SUFFICES ASSUME pc[t] = "call" PROVE value \in Slots(op[t])
      OBVIOUS
    <3>2. CASE op[t] \in Unguarded
      BY <2>1, <2>2, <3>1, <3>2, InvalidIsNoAlg DEF ThreadInv, Selected
    <3>3. CASE op[t] \in Guarded
      BY <2>1, <3>1, <3>3 DEF ThreadInv
    <3>4. CASE op[t] \notin Unguarded \cup Guarded
      BY <2>1, <2>2, <3>1, <3>4 DEF ThreadInv, Slots, Usable, Unguarded, Guarded
    <3>5. QED
      BY <3>2, <3>3, <3>4
  <2>4. QED
    BY <2>2, <2>3
<1>2. QED
  BY <1>1, Invariance, PTL

\* The accelerator is used only where it answered and was not forbidden.
THEOREM AcceleratorIsProbed == Spec => []AcceleratorWasProbed
<1>1. IInv => AcceleratorWasProbed
  BY DEF IInv, ThreadInv, AcceleratorWasProbed, Usable
<1>2. QED
  BY <1>1, Invariance, PTL

\* All open streams belong to the selected algorithm.
THEOREM OpenStreamsAgree == Spec => []StreamsAgree
<1>1. IInv => StreamsAgree
  BY DEF IInv, ThreadInv, StreamsAgree
<1>2. QED
  BY <1>1, Invariance, PTL

\* The dispatcher implements the selection of one algorithm per process.
THEOREM Refinement == Spec => SelectsOne
  BY InitInv, Step, Invariance, PTL DEF Spec, SelectsOne, Abstract!Spec

\* A thread inside takes a step further on, the others stay.
LEMMA InsideGoesOn ==
    ASSUME IInv, NEW t \in Threads, Inside(t)
    PROVE  /\ Left[pc'[t]] < Left[pc[t]]
           /\ \A s \in Threads \ {t} : pc'[s] = pc[s] /\ op'[s] = op[s] /\ live'[s] = live[s]
<1>1. /\ pc \in [Threads -> Labels] /\ op \in [Threads -> Ops]
      /\ live \in [Threads -> Algs \cup {NoAlg}]
  BY DEF IInv, TypeOK
<1>2. PICK l \in Labels : Goto(t, l) /\ Left[l] < Left[pc[t]]
  BY DEF Inside, Test, Store, TestRange, Uadk, Inited, Mark, Deny, Probe, Verdict, Guard, Call,
         Refuse, Checked, Labels, Left
<1>3. \A s \in Threads \ {t} : op'[s] = op[s] /\ live'[s] = live[s]
  BY <1>1 DEF Inside, Test, Store, TestRange, Uadk, Inited, Mark, Deny, Probe, Verdict, Guard, Call
<1>4. QED
  BY <1>1, <1>2, <1>3 DEF Goto

\* Each step of a thread in the library is one further on, for any number of
\* threads and whatever they resolve and select: nobody waits, nobody goes round.
THEOREM CallsEnd == Spec => OnlyOnward
<1>1. ASSUME IInv, Next, NEW t \in Threads, pc[t] # "out"
      PROVE  \/ Left[pc'[t]] < Left[pc[t]]
             \/ pc'[t] = pc[t] /\ op'[t] = op[t] /\ live'[t] = live[t]
  <2>1. ASSUME NEW s \in Threads, Inside(s)
        PROVE  \/ Left[pc'[t]] < Left[pc[t]]
               \/ pc'[t] = pc[t] /\ op'[t] = op[t] /\ live'[t] = live[t]
    <3>1. CASE s = t
      BY <2>1, <3>1, InsideGoesOn, <1>1
    <3>2. CASE s # t
      BY <2>1, <3>2, InsideGoesOn, <1>1
    <3>3. QED
      BY <3>1, <3>2
  <2>2. ASSUME NEW s \in Threads, NEW o \in Ops, Enter(s, o)
        PROVE  pc'[t] = pc[t] /\ op'[t] = op[t] /\ live'[t] = live[t]
    BY <1>1, <2>2 DEF Enter, Goto, IInv, TypeOK
  <2>3. ASSUME NEW v \in Choices, SetValue(v)
        PROVE  FALSE
    BY <1>1, <2>3 DEF SetValue, Quiet
  <2>4. QED
    BY <1>1, <2>1, <2>2, <2>3 DEF Next
<1>2. IInv /\ [Next]_vars =>
         [\A t \in Threads :
             pc[t] # "out" =>
                \/ Left[pc'[t]] < Left[pc[t]]
                \/ pc'[t] = pc[t] /\ op'[t] = op[t] /\ live'[t] = live[t]]_vars
  BY <1>1
<1>3. QED
  BY <1>2, Invariance, PTL DEF Spec, OnlyOnward

=============================================================================
