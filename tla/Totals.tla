-------------------------------- MODULE Totals --------------------------------
(***************************************************************************)
(* The sum of a function over a finite set: the bytes of the files of a    *)
(* workspace (HttpServe), the widths of the columns of a table (TableGrid).*)
(***************************************************************************)
EXTENDS FiniteSetsExt

Total(w, S) == MapThenSumSet(LAMBDA j : w[j], S)
=============================================================================
