------------------------------ MODULE ZContract ------------------------------
(***************************************************************************)
(* What a streaming codec, compressing or decompressing, promises its      *)
(* caller, whatever library is behind it (the comments on unizip_stream in *)
(* unizip_struct.h, and the README: unizip can be used "as a replacement   *)
(* for the zlib library").                                                 *)
(*                                                                         *)
(* Of an input of InLen bytes, `taken' have been accepted and `given'      *)
(* bytes of the other form delivered.  Neither count ever goes back        *)
(* within a stream, and the stream may only be reported ended together     *)
(* with the last byte of input accepted and the last byte of output out.   *)
(***************************************************************************)
EXTENDS Integers

CONSTANTS InLen,    \* bytes the caller has
          OutLen    \* bytes of the other form of all of them

VARIABLES taken, given, ended

vars == <<taken, given, ended>>

Init == taken = 0 /\ given = 0 /\ ended = FALSE

Progress ==
    /\ ~ended
    /\ taken' \in taken .. InLen
    /\ given' \in given .. OutLen
    /\ ended' = FALSE

Complete ==
    /\ ~ended
    /\ taken' = InLen
    /\ given' = OutLen
    /\ ended' = TRUE

\* deflateInit, deflateReset, deflateEnd: a new stream, nothing carried over.
Restart == taken' = 0 /\ given' = 0 /\ ended' = FALSE

Next == Progress \/ Complete \/ Restart

Spec == Init /\ [][Next]_vars

=============================================================================
