------------------------------ MODULE MCRecipes ------------------------------
(* A small instance of Recipes: one WordPress site and one other application. *)
EXTENDS Recipes

CONSTANTS Blogger, Writer

\* Each operator looks after one application, and a step fails or a command
\* dies once at most.  Failures, crashes and the newer catalogue are
\* explored with the WordPress operator alone, the overlap of the two
\* operators without them; a save that overwrote another's is the end of a run.
Bounded ==
    /\ op[Blogger].app \in WordPressApps \cup {"none"}
    /\ op[Writer].app \in GenericApps \cup {"none"}
    /\ failures + crashes < 2
    /\ ~stale
    /\ \/ catalogue = 1 /\ failures + crashes = 0
       \/ \A a \in GenericApps : recipes[a] = NoInstallation /\ generated[a] = 0

=============================================================================
