---------------------------- MODULE MCProvisioning ----------------------------
(***************************************************************************)
(* Provisioning for a bootstrap and an onboard, a vendor with a connector  *)
(* of its own and a declarative one, and drafts that add, repeat, replace  *)
(* and invent.                                                             *)
(***************************************************************************)
EXTENDS Provisioning

CONSTANTS c1, c2, ons, ccee, spot, flow

BootstrapOnly == {c1}
OnboardOnly == {c2}
SmallKeys == {ons, ccee, spot, flow}
SmallModules == {ons}

Row(list_, key_, value_) == [list |-> list_, key |-> key_, value |-> value_]

SmallValues ==
  [l \in Lists |-> IF l = "context" THEN {"news", "declarative"}
                   ELSE {"spot", "inflow", "declarative"}]

StartingConfiguration ==
  {Row("universe", spot, "spot"), Row("market", ons, "spot"), Row("market", ccee, "spot"),
   Row("market", ccee, "declarative")}

SmallDrafts ==
  {{Row("universe", flow, "inflow"), Row("market", ons, "inflow")},
   {Row("universe", spot, "inflow")},
   {Row("context", ccee, "gossip")}}

SmallDescriptors == {{Row("market", ccee, "declarative"), Row("market", ccee, "inflow")}}
=============================================================================
