----------------------------- MODULE MCPipeline -----------------------------
(* Small instances of Pipeline.                                            *)
EXTENDS Pipeline, TLC

CONSTANTS r1, r2

MCbindingOf == [t \in Token |-> IF t = "bound" THEN "Bound" ELSE "Unbound"]

\* Every configuration and every kind of request.
AllConfigs == Configs
AllInputs == Inputs

\* Machine identity required, no rate limiter; copies of one token.
StrictConfig ==
  {[rate_limiter |-> FALSE, bypass |-> b, machine |-> "required",
    level |-> "warn"] : b \in BOOLEAN}

CopyInputs ==
  {[token |-> t, ip |-> TRUE, authorized |-> a, idempotent |-> d,
    sent |-> "all", host |-> TRUE, machine |-> "cert"] :
      t \in Token, a \in BOOLEAN, d \in BOOLEAN}

RequestSymmetry == Permutations(Request)
=============================================================================
