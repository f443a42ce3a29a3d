---------------------------- MODULE MCStreamLife ----------------------------
(***************************************************************************)
(* StreamLife for TLC: two streams, and sets of adapters for each question.*)
(***************************************************************************)
EXTENDS StreamLife

CONSTANTS s1, s2

MCStreams == {s1, s2}

MCCodecs == AllCodecs \ {[lib |-> "7zip", side |-> "inflate"]}

Of(libs) == {c \in MCCodecs : c.lib \in libs}

\* A ctx that points to nothing: a copy of its bytes is a copy of its state.
Flat == Of({"lz4", "snappy", "7zip"})

\* Adapters whose copies can be used like any stream.
Sound == Flat \cup Of({"uadk"})

\* Adapters that let the caller know of a failure, if only by crashing: all but
\* one, which goes on without the library's state.
Telling == MCCodecs \ {[lib |-> "brotli", side |-> "inflate"]}

=============================================================================
