----------------------------- MODULE MCRegistryLock -----------------------------
(***************************************************************************)
(* Three threads that call what they like.                                 *)
(***************************************************************************)
EXTENDS RegistryLock

CONSTANTS t1, t2, t3

MCThreads == {t1, t2, t3}
==================================================================================
