------------------------------- MODULE Filtering -------------------------------
(***************************************************************************)
(* The loop of filterRecent (middleware/ratelimit.go): what is to be kept  *)
(* of a slice is appended, in its order, to a slice that was empty.        *)
(***************************************************************************)
EXTENDS Naturals, Sequences

Filter(ts, keep) ==
  LET out[i \in 0..Len(ts)] ==
        IF i = 0 THEN << >> ELSE IF ts[i] \in keep THEN Append(out[i - 1], ts[i]) ELSE out[i - 1]
  IN  out[Len(ts)]
===============================================================================
