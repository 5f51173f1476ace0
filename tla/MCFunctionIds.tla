--------------------------- MODULE MCFunctionIds ----------------------------
(* Small instances of FunctionIds. *)
EXTENDS FunctionIds

CONSTANTS f1, f2

\* Every server is started with the same function_id_ranges.
OneConfig == {{f1, f2}}
=============================================================================
