------------------------------ MODULE MCControl ------------------------------
(* A small instance of Control.                                                *)
EXTENDS Control, TLC

\* Policies: nothing granted, one scope, a wildcard, or everything.
FewGrants == { {}, {"*"}, {"operations.*"} } \cup { {s} : s \in I!Scopes }

Alike == Permutations(Procs)

\* The last operation is remembered but not built upon, a recipe's aside.
LastOnly == acted.op \in {"none", "recipe.install"}

\* Wrong tokens are explored before the first session, and again once a right
\* one has cleared them.
ThrottleFirst == wrong = <<>> \/ opened = 0

InUse(condition) == IF condition THEN 1 ELSE 0

\* Fleet: requests, a coordination and a repository one at a time, the clock
\* only when there are requests, a crash without another process, and no further
\* once a stale save has overwritten the file.
OneAtATime ==
    LET alone == \E p \in Procs : \A q \in Procs \ {p} : pc[q] = "idle" IN
    /\ ~clobbered
    /\ now > 0 => signed # <<>>
    /\ InUse(signed # <<>>) + InUse(infra.coordination # NoCoordination)
         + InUse(host.repository) + InUse(infra.links # {})
         + InUse(host.mirror) + InUse(host.secrets # {}) + InUse(infra.exported)
         + InUse(host.application # NoApplication /\ host.secrets = {}) <= 1
    /\ Cardinality(infra.links) <= 2
    /\ infra.coordination # NoCoordination \/ crashes > 0 => alone
==============================================================================
