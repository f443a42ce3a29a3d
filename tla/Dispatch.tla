------------------------------ MODULE Dispatch ------------------------------
(***************************************************************************)
(* unizip_adapt.c: the global `value' that selects an algorithm, its lazy  *)
(* resolution from the environment in check_algorithm, the cached probe of *)
(* the accelerator in UadkEnabled, and the wrappers, each of which checks  *)
(* and then calls through alg_cks[value].                                  *)
(*                                                                         *)
(* Nothing in the file is locked or atomic, so a step is one access to     *)
(* value, inited or enabled: that is every interleaving of the threads,    *)
(* including those in which the compiler reads a variable once where the   *)
(* source reads it twice (no other thread comes in between).               *)
(***************************************************************************)
EXTENDS Integers

CONSTANTS Threads,   \* threads of the program, each with one stream
          Envs,      \* what UNIZIP_VALUE may be: atoi of it, or Unset
          Unset,     \* UNIZIP_VALUE is not set
          Choices    \* what the program may pass to SetValue

CASE_ZLIB    == 0
CASE_UADK    == 7
CASE_GZIP    == 9
CASE_INVALID == 10

Algs  == CASE_ZLIB .. CASE_GZIP
NoAlg == -1

ASSUME UnsetAssumption   == Unset \notin Int
ASSUME EnvsAssumption    == Envs \subseteq Int \cup {Unset}
ASSUME ChoicesAssumption == Choices \subseteq Int

VARIABLES value,    \* int value
          inited,   \* UadkEnabled's static variables
          enabled,
          world,    \* the environment, the build and the device; never change
          pc,       \* where each thread is
          op,       \* which wrapper it is in
          live,     \* the algorithm its stream was opened with
          served,   \* the algorithm that served its last stream call
          told      \* what check_algorithm last told it on stderr

vars == <<value, inited, enabled, world, pc, op, live, served, told>>

Worlds == [env : Envs, uadk_no : BOOLEAN, device : BOOLEAN, aarch64 : BOOLEAN]

(***************************************************************************)
(* The wrappers, by what they do to the caller's stream and by which       *)
(* algorithms have the callback they need: every algorithm has the ones to *)
(* open, use and close a stream (Init, deflate, Reset, ... End) and those  *)
(* that work without one (plain: Version, compress, compressBound, ...).   *)
(* Those that zlib and gzip alone have are tested against NULL first when  *)
(* they open a stream (init2) or work without one (compress2), but not     *)
(* when they use one: SetHeader and GetHeader (header), and zlib's own     *)
(* Params, SetDictionary and Pending (params).                             *)
(***************************************************************************)
Opening   == {"open", "init2"}
Using     == {"use", "header", "params"}
Guarded   == {"init2", "compress2"}
Unguarded == {"header", "params"}
OnStream  == Opening \cup Using \cup {"close"}
Ops       == OnStream \cup Guarded \cup {"plain"}

\* The callback tables: which algorithms have the callback that o needs.
Slots(o) ==
    IF o = "params" THEN {CASE_ZLIB}
    ELSE IF o \in Guarded \cup {"header"} THEN {CASE_ZLIB, CASE_GZIP}
    ELSE IF world.aarch64 THEN Algs ELSE Algs \ {CASE_UADK}

\* An unset UNIZIP_VALUE means zlib.
Resolve(env) == IF env = Unset THEN CASE_ZLIB ELSE env

\* What value is, or will be once a call resolves it.
Selected == IF value = CASE_INVALID THEN Resolve(world.env) ELSE value

Goto(t, l) == pc' = [pc EXCEPT ![t] = l]

Labels == {"out", "test", "store", "range", "uadk", "inited", "verdict",
           "mark", "deny", "probe", "guard", "call"}

-----------------------------------------------------------------------------
(***************************************************************************)
(* check_algorithm and UadkEnabled, one shared access at a time.           *)
(***************************************************************************)

Test(t) ==
    /\ pc[t] = "test"
    /\ Goto(t, IF value = CASE_INVALID THEN "store" ELSE "range")
    /\ UNCHANGED <<value, inited, enabled, world, op, live, served, told>>

\* Mutant: zlib is stored first and replaced when the variable is set.
Store_inTwo(t) ==
    /\ pc[t] = "store"
    /\ IF value = CASE_INVALID
       THEN value' = CASE_ZLIB /\ UNCHANGED pc
       ELSE value' = Resolve(world.env) /\ Goto(t, "range")
    /\ UNCHANGED <<inited, enabled, world, op, live, served, told>>

Store(t) ==
    /\ pc[t] = "store"
    /\ value' = Resolve(world.env)
    /\ Goto(t, "range")
    /\ UNCHANGED <<inited, enabled, world, op, live, served, told>>

Refuse(t, why) == Goto(t, "out") /\ told' = [told EXCEPT ![t] = why]

\* Mutants: off by one at the top; an invalid value is looked up for ever.
InRange_offByOne(v) == v >= CASE_ZLIB /\ v <= CASE_GZIP + 1

InRange(v) == v >= CASE_ZLIB /\ v <= CASE_GZIP

TestRange_retry(t) ==
    /\ pc[t] = "range"
    /\ Goto(t, IF InRange(value) THEN "uadk" ELSE "test")
    /\ UNCHANGED <<value, inited, enabled, world, op, live, served, told>>

TestRange(t) ==
    /\ pc[t] = "range"
    /\ IF InRange(value) THEN Goto(t, "uadk") /\ UNCHANGED told
                         ELSE Refuse(t, "invalid")
    /\ UNCHANGED <<value, inited, enabled, world, op, live, served>>

\* check_algorithm has returned 0; a guarded wrapper looks at its slot first.
Checked(t) == Goto(t, IF op[t] \in Guarded THEN "guard" ELSE "call")

Uadk(t) ==
    /\ pc[t] = "uadk"
    /\ IF value # CASE_UADK THEN Checked(t) /\ UNCHANGED told
       ELSE IF world.aarch64 THEN Goto(t, "inited") /\ UNCHANGED told
       ELSE Refuse(t, "disabled")
    /\ UNCHANGED <<value, inited, enabled, world, op, live, served>>

Inited(t) ==
    /\ pc[t] = "inited"
    /\ Goto(t, IF inited THEN "verdict" ELSE "mark")
    /\ UNCHANGED <<value, inited, enabled, world, op, live, served, told>>

\* inited is set before anything is known of the device.
Mark(t) ==
    /\ pc[t] = "mark"
    /\ inited' = TRUE
    /\ Goto(t, IF world.uadk_no THEN "deny" ELSE "probe")
    /\ UNCHANGED <<value, enabled, world, op, live, served, told>>

Deny(t) ==
    /\ pc[t] = "deny"
    /\ enabled' = FALSE
    /\ Goto(t, "verdict")
    /\ UNCHANGED <<value, inited, world, op, live, served, told>>

\* Mutant: what wd_request_queue returned is not looked at.
Probe_unchecked(t) ==
    /\ pc[t] = "probe"
    /\ enabled' = TRUE
    /\ Goto(t, "verdict")
    /\ UNCHANGED <<value, inited, world, op, live, served, told>>

\* wd_request_queue succeeds when the device is there and answers.
Probe(t) ==
    /\ pc[t] = "probe"
    /\ enabled' = world.device
    /\ Goto(t, "verdict")
    /\ UNCHANGED <<value, inited, world, op, live, served, told>>

Verdict(t) ==
    /\ pc[t] = "verdict"
    /\ IF enabled THEN Checked(t) /\ UNCHANGED told ELSE Refuse(t, "disabled")
    /\ UNCHANGED <<value, inited, enabled, world, op, live, served>>

-----------------------------------------------------------------------------
(***************************************************************************)
(* The wrappers.  value is read again, by the guard and for the call.      *)
(***************************************************************************)

\* What a thread that keeps to the library's rules may call next.
MayCall(t, o) ==
    /\ o \in Opening => live[t] = NoAlg
    /\ o \in Using \cup {"close"} => live[t] # NoAlg
    /\ o \in Unguarded => Selected \in Slots(o)

Enter(t, o) ==
    /\ pc[t] = "out"
    /\ op' = [op EXCEPT ![t] = o]
    /\ Goto(t, "test")
    /\ told' = [told EXCEPT ![t] = "nothing"]
    /\ UNCHANGED <<value, inited, enabled, world, live, served>>

\* if (NULL == alg_cks[value]->compress2CB) return UNIZIP_ALGO_ERROR;
Guard(t) ==
    /\ pc[t] = "guard"
    /\ value \in Algs
    /\ Goto(t, IF value \in Slots(op[t]) THEN "call" ELSE "out")
    /\ UNCHANGED <<value, inited, enabled, world, op, live, served, told>>

\* return alg_cks[value]->...: outside the table, or NULL, there is no step.
Call(t) ==
    /\ pc[t] = "call"
    /\ value \in Algs /\ value \in Slots(op[t])
    /\ live' = [live EXCEPT ![t] = IF op[t] \in Opening THEN value
                                   ELSE IF op[t] = "close" THEN NoAlg ELSE live[t]]
    /\ served' = [served EXCEPT ![t] =
                    IF op[t] \in OnStream THEN value ELSE served[t]]
    /\ Goto(t, "out")
    /\ UNCHANGED <<value, inited, enabled, world, op, told>>

\* The tests call SetValue before they open their streams; a program that
\* does so from several threads must see to it that none is in the library.
Quiet == \A t \in Threads : pc[t] = "out" /\ live[t] = NoAlg

SetValue(v) ==
    /\ Quiet
    /\ value' = v
    /\ UNCHANGED <<inited, enabled, world, pc, op, live, served, told>>

-----------------------------------------------------------------------------

Init ==
    /\ value = CASE_INVALID
    /\ inited = FALSE /\ enabled = FALSE
    /\ world \in Worlds
    /\ pc = [t \in Threads |-> "out"]
    /\ op = [t \in Threads |-> "plain"]
    /\ live = [t \in Threads |-> NoAlg]
    /\ served = [t \in Threads |-> NoAlg]
    /\ told = [t \in Threads |-> "nothing"]

\* A thread inside the library takes its next step.
Inside(t) ==
    \/ Test(t) \/ Store(t) \/ TestRange(t) \/ Uadk(t) \/ Inited(t) \/ Mark(t)
    \/ Deny(t) \/ Probe(t) \/ Verdict(t) \/ Guard(t) \/ Call(t)

Next ==
    \/ \E t \in Threads : Inside(t) \/ \E o \in Ops : MayCall(t, o) /\ Enter(t, o)
    \/ \E v \in Choices : SetValue(v)

Spec == Init /\ [][Next]_vars

\* The operating system runs every thread that can run.
FairSpec == Spec /\ \A t \in Threads : WF_vars(Inside(t))

-----------------------------------------------------------------------------

TypeOK ==
    /\ value \in Int
    /\ inited \in BOOLEAN /\ enabled \in BOOLEAN
    /\ world \in Worlds
    /\ pc \in [Threads -> Labels]
    /\ op \in [Threads -> Ops]
    /\ live \in [Threads -> Algs \cup {NoAlg}]
    /\ served \in [Threads -> Algs \cup {NoAlg}]
    /\ told \in [Threads -> {"nothing", "invalid", "disabled"}]

\* Whatever the other threads do between the check and the call, a thread that
\* passed the check indexes alg_cks inside its ten entries and calls a callback
\* that is there (unizip_adapt.c:201, 218-462: value is read again after it).
\* The variables keep their types.
NoWildCall ==
    /\ TypeOK
    /\ \A t \in Threads :
          /\ pc[t] \in {"guard", "call"} => value \in Algs
          /\ pc[t] = "call" => value \in Slots(op[t])

\* A call reaches the accelerator only if it answered the probe and the user
\* did not forbid it, although the two statics are cached without a lock.
AcceleratorWasProbed ==
    \A t \in Threads :
        pc[t] \in {"guard", "call"} /\ value = CASE_UADK =>
            world.aarch64 /\ world.device /\ ~world.uadk_no

\* The streams open at one time, whichever threads opened them and whichever of
\* them resolved the selection, belong to the algorithm that is selected now:
\* two threads resolving it at once do not disagree.
StreamsAgree ==
    \A t \in Threads : live[t] # NoAlg => live[t] = value

\* unizip_adapt.c:204-206: a caller is told "UADK is disabled, could not use
\* UADK." when it is.
DisabledIsTrue ==
    \A t \in Threads :
        told[t] = "disabled" => world.uadk_no \/ ~world.device \/ ~world.aarch64

\* How many steps a thread inside may still take.
Left == [test |-> 10, store |-> 9, range |-> 8, uadk |-> 7, inited |-> 6, mark |-> 5,
         deny |-> 4, probe |-> 4, verdict |-> 3, guard |-> 2, call |-> 1, out |-> 0]

\* Why every call returns: no thread waits for another or starts the check over,
\* whatever the others store meanwhile.  Each step of a thread inside is one
\* further on, and no step of another moves it (unizip_adapt.c:156-210).
OnlyOnward ==
    [][\A t \in Threads :
          pc[t] # "out" =>
             \/ Left[pc'[t]] < Left[pc[t]]
             \/ pc'[t] = pc[t] /\ op'[t] = op[t] /\ live'[t] = live[t]]_vars

\* Every call returns, whoever else is in the library.
Returns == \A t \in Threads : pc[t] = "test" ~> pc[t] = "out"

\* Resolving the selection late is invisible: Selected is what was selected.
Abstract == INSTANCE Selection WITH alg <- Selected

\* The dispatcher implements the selection of one algorithm for the process.
SelectsOne == Abstract!Spec

=============================================================================
