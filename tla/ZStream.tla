------------------------------- MODULE ZStream -------------------------------
(***************************************************************************)
(* What every adapter of unizip shares: the return codes of                *)
(* unizip_error_code.h, the two flush values the adapters tell apart, and  *)
(* the streaming half of struct unizip_stream_s (unizip_struct.h).         *)
(*                                                                         *)
(* A pointer is an offset into the buffer it was first set to, so next_in  *)
(* = 3 is the fourth byte of the input.  Resetting a stream makes both     *)
(* pointers NULL; every caller then sets them to the start of its buffers  *)
(* before the next call (test_util.cpp does), and 0 stands for both.       *)
(***************************************************************************)
EXTENDS Integers

UNIZIP_OK           == 0
UNIZIP_STREAM_END   == 1
UNIZIP_NEED_DICT    == 2
UNIZIP_ERRNO        == -1
UNIZIP_STREAM_ERROR == -2
UNIZIP_DATA_ERROR   == -3
UNIZIP_MEM_ERROR    == -4
UNIZIP_BUF_ERROR    == -5
UNIZIP_ALGO_ERROR   == -7

Status == -7 .. 2

\* Z_NO_FLUSH and Z_FINISH; the adapters treat the values between them alike.
NoFlush == 0
Finish  == 4

\* The fields of unizip_stream that the adapters read and write.
Streams(InLen, OutLen, Grant) ==
    [next_in  : 0 .. InLen,  avail_in  : 0 .. Grant, total_in  : 0 .. InLen,
     next_out : 0 .. OutLen, avail_out : 0 .. Grant, total_out : 0 .. OutLen]

\* resetBzip2, resetXz, resetZstd, resetBrotli: all six fields cleared.
ResetStream ==
    [next_in  |-> 0, avail_in  |-> 0, total_in  |-> 0,
     next_out |-> 0, avail_out |-> 0, total_out |-> 0]

\* The caller grants n input bytes and m bytes of room before a call.
Grant(s, n, m) ==
    [next_in  |-> s.next_in,  avail_in  |-> n, total_in  |-> s.total_in,
     next_out |-> s.next_out, avail_out |-> m, total_out |-> s.total_out]

=============================================================================
