----------------------------- MODULE MCInventory -----------------------------
(* Small instances of Inventory for TLC.                                   *)
EXTENDS Inventory, TLC

Prefix == <<"resource", "lease", "-">>
Snowflake == <<"snowflake">>

Dev == <<"dev">>
Dev2 == <<"dev", "-", "2">>

Account(name, url, labels) ==
    [name |-> name, url |-> url, complete |-> TRUE, labels |-> labels]

Standard == Account(Dev, "xy1", [tier |-> "standard"])
Premium == Account(Dev, "xy2", [tier |-> "premium", region |-> "east"])
Second == Account(Dev2, "xy3", [tier |-> "standard", region |-> "east"])
Renamed == Account(Dev2, "xy1", [tier |-> "standard"])
Upgraded == Account(Dev, "xy1", [tier |-> "premium"])

(* Its label overrules the managed one: no claim ever finds its lease.     *)
Mistyped == Account(Dev2, "xy3", [type |-> <<"postgres">>])
Incomplete == [Second EXCEPT !.complete = FALSE]

SmallConfigs ==
    {NoConfig, <<>>, <<Standard, Incomplete>>, <<Standard, Mistyped>>,
     <<Second, Premium, Standard>>, <<Premium, Renamed>>, <<Upgraded>>}

Request(labels, duration) ==
    [type |-> Snowflake, requiredLabels |-> labels, duration |-> duration]

SmallRequests ==
    {Request(<<>>, 3), Request([tier |-> "standard", region |-> "east"], 9),
     Request([tier |-> "premium"], 5), Request([name |-> Dev], 1), Request(<<>>, -2),
     [Request(<<>>, 4) EXCEPT !.type = <<"mysql">>]}
=============================================================================
