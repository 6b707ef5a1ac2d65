------------------------------- MODULE Server -------------------------------
(***************************************************************************)
(* What the handlers of all pages share: the threads of the waitress       *)
(* server that run them (run_production.py), and NULL.                     *)
(***************************************************************************)
CONSTANTS
  Threads,
  None        \* SQL NULL, and None of Python
=============================================================================
