----------------------------- MODULE MCDispatch -----------------------------
(* Model checking Dispatch: two direct requests and an indirect one, two of *)
(* them with one handle, one of a length that needs the workaround.         *)
EXTENDS Dispatch

Request(type, handle, indirect, awkward) ==
    [type |-> type, handle |-> handle, indirect |-> indirect, awkward |-> awkward]

Requests == {Request("MCPS", 1, FALSE, FALSE), Request("PCPS", 1, FALSE, TRUE),
             Request("MCPS", 2, TRUE, FALSE)}
=============================================================================
