-------------------------- MODULE MCBrowserThreads --------------------------
(***************************************************************************)
(* The threads TLC checks the browser on.  Threads of one kind differ only *)
(* in name; the pools bound how often each kind is started.                *)
(***************************************************************************)
EXTENDS BrowserThreads

CONSTANTS app1, app2, reader, loader1, loader2, stream1, proto1, proto2
=============================================================================
