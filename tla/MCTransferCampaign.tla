-------------------------- MODULE MCTransferCampaign --------------------------
(* A full run of one seed with two disturbances, a smoke run with three; every *)
(* catalogue of up to three controls over a few costs and closures.            *)
EXTENDS TransferCampaign

SmallControls ==
  [cost : {0, 1, 2}, closes : {{"primary"}, {"derivative"}, {"primary", "derivative"},
                               {"primary", "derivative", "recovery"}},
   permitted : BOOLEAN]
MCCatalogues ==
  {Controls} \union [1..3 -> { c \in SmallControls : c.permitted \/ c.cost = 0 }]
=============================================================================
