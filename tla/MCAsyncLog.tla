----------------------------- MODULE MCAsyncLog -----------------------------
(* Small instances of AsyncLog: the main thread and one IO thread *)
EXTENDS AsyncLog

CONSTANTS main, io, writer
============================================================================
