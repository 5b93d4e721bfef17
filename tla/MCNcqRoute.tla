----------------------------- MODULE MCNcqRoute -----------------------------
(* Two PIUs with one entry of wd_sid_fifo each, which may have four writes   *)
(* without data; with the one entry of wdq they need the five of dsq.        *)
EXTENDS NcqRoute
=============================================================================
