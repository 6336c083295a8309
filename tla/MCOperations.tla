---------------------------- MODULE MCOperations ----------------------------
(* Operations for TLC: who runs, what is asked and what is configured.     *)
EXTENDS Operations

CONSTANTS r1, r2, d1, d2

On1 == [FreshState.config EXCEPT !.dest[d1] = "on", !.subs = {d1}]
On2 == [On1 EXCEPT !.dest[d2] = "on", !.subs = {d1, d2}]
WithRule(c) == [c EXCEPT !.rule = NewRule("on")]

Case(who, deaths, kinds, most, c) ==
    [runners |-> who, crashes |-> deaths, asks |-> kinds, limit |-> most, config |-> c]

Delivery1 == Case({r1}, 1, {"run", "provider"}, 3, On1)
Fan1 == Case({r1}, 1, {"run", "provider"}, 1, On2)
Capture2 == Case({r1, r2}, 0, {"run", "event", "window"}, 2, FreshState.config)
Observe1 == Case({r1}, 1, {"run", "event", "window", "observe", "kernel"}, 2, FreshState.config)
Rules1 == Case({r1}, 0, {"provider"}, 4, WithRule(On1))
Rules2 == Case({r1, r2}, 0, {"provider"}, 3, WithRule(FreshState.config))
Configure1 == Case({r1}, 1, {"configure", "rollback", "provider"}, 4, FreshState.config)
Rules3 == Case({r1}, 0, {"configure", "provider"}, 4, WithRule(FreshState.config))
Late1 == Case({r1}, 0, {"run", "event", "late", "secret"}, 2, On1)
AllScenarios == {Delivery1, Fan1, Capture2, Observe1, Rules1, Rules2, Rules3, Configure1, Late1}
=============================================================================
