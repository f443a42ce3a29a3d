----------------------------- MODULE MCDispatch -----------------------------
(* Dispatch on two threads. *)
EXTENDS Dispatch

CONSTANTS t1, t2, unset

MCThreads == {t1, t2}

\* UNIZIP_VALUE: not set, the accelerator, the number that means "not resolved
\* yet", and one beyond the table.
MCEnvs == {unset, 7, 10, 12}

\* gzip, the accelerator, and back to the environment.
MCChoices == {9, 7, 10}

=============================================================================
