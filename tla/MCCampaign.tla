------------------------------ MODULE MCCampaign ------------------------------
(* Model values and instances of Campaign for TLC.                         *)
EXTENDS CampaignInv

=============================================================================
