------------------------ MODULE MCProcessScanRequest ------------------------
(***************************************************************************)
(* Small instances of ProcessScanRequest.                                  *)
(***************************************************************************)
EXTENDS ProcessScanRequest

CONSTANT u1

\* Every delivery carries the same request: the case in which they compete for
\* one Scan resource.
SameScan == [a \in Attempts |-> u1]
=============================================================================
