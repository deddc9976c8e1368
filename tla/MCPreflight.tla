----------------------------- MODULE MCPreflight -----------------------------
(* Small instances of the version gate: a handful of requests, identified  *)
(* by model values and interchangeable.                                    *)
EXTENDS Preflight

CONSTANTS r1, r2, r3, r4, r5

MCRequests      == {r1, r2, r3, r4, r5}
MCTimeoutOnly   == {"timeout"}
MCIncompatible  == {"incompatible"}
=============================================================================
