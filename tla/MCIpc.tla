----------------------------------- MODULE MCIpc -----------------------------------
(* Instances of Ipc: two clients and one or two threads that own the server. *)
EXTENDS Ipc

\* The daemon: one thread waits for a shutdown request and then stops the server.
Daemon == {"main"}

\* A second thread that may stop the server at any time.
Outsider == {"other"}
Owners == Daemon \cup Outsider
====================================================================================
