--------------------------- MODULE MCPickupExecutor ---------------------------
EXTENDS PickupExecutorInv

Plan(holds, boundary, staged, into, from) ==
    [holds |-> holds, boundary |-> boundary, staged |-> staged, release |-> into,
     source |-> from]

\* Whole-release demonstrations: held and free, chained and not.
OneStageReleases ==
    {Plan(TRUE, "LIFT_LIN", FALSE, FALSE, FALSE), Plan(TRUE, "LIFT_LIN", FALSE, TRUE, TRUE),
     Plan(FALSE, "RETREAT_LIN", FALSE, TRUE, FALSE)}

\* The release opened in two stages.
TwoStageRelease == {Plan(FALSE, "LIFT_LIN", TRUE, TRUE, FALSE)}

\* One held, chained demonstration.
HeldRelease == {Plan(TRUE, "LIFT_LIN", FALSE, TRUE, TRUE)}
AllKinds == OneStageReleases \cup TwoStageRelease
===============================================================================
