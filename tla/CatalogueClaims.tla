--------------------------- MODULE CatalogueClaims ---------------------------
(***************************************************************************)
(* What the repository's documents say of the catalogue and the code does  *)
(* not do.                                                                 *)
(***************************************************************************)
EXTENDS Catalogue

\* "Try to read a Tenant A run or trace with Tenant B's API key; the request
\* should fail." (README.md, Tenant isolation checks)
ForeignTraceFails ==
  \A q \in Requests :
    /\ input[q].op = "get_trace"
    /\ \E r \in runs : r.id = input[q].target /\ r.tenant # session[q]
    => resp[q] # "ok"
===============================================================================
