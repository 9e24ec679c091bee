------------------------------- MODULE Images -------------------------------
(***************************************************************************)
(* The images of the compilations, one sibuf each.  STEP3 to STEP6 give    *)
(* each of them to a worker of its own (parse_resfile of parse.c),         *)
(* so image u also stands for its worker.                                  *)
(***************************************************************************)
CONSTANTS Image

=============================================================================
