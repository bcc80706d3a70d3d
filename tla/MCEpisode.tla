------------------------------- MODULE MCEpisode -------------------------------
EXTENDS EpisodeInv

Plan(holds, release, readiness) ==
    [holds |-> holds, release |-> release, readiness |-> readiness]

\* One with every hold, trim and release, one with none but the verdict.
TwoPlans == {Plan(TRUE, TRUE, TRUE), Plan(FALSE, FALSE, FALSE)}
================================================================================
