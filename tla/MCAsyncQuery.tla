---------------------------- MODULE MCAsyncQuery ----------------------------
(* Small instances of AsyncQuery for TLC.                                  *)
EXTENDS AsyncQuery
=============================================================================
