--------------------------------- MODULE MCStore ---------------------------------
(***************************************************************************)
(* A short record, of one body cell, and a long one, of three.             *)
(***************************************************************************)
EXTENDS Store

CONSTANTS short, long

MCRecords == {short, long}

MCBodyCells == [r \in MCRecords |-> IF r = short THEN 1 ELSE 3]
==================================================================================
