------------------------------ MODULE MCDevice ------------------------------
EXTENDS Device

CONSTANTS Edits_, Boots_, Watched_

\* A fresh device, one that older firmware left a visualisation and odd values
\* in, one that was downgraded for a while, and one that has been in use.
Legacy == [FreshNvs EXCEPT !["active_vis"] = "beat-pulse", !["retx_count"] = 9, !["slv_group"] = 0,
                           !["strip_bri"] = 80, !["mst_chan"] = 11]
Downgraded == [FreshNvs EXCEPT !["active_vis"] = "custom", !["active_show"] = "dynamic",
                               !["mst_pid"] = 255, !["slv_group"] = 3, !["last_mode"] = "Director"]
Used == [FreshNvs EXCEPT !["dir_calm"] = FALSE, !["retx_count"] = 1, !["slv_group"] = 2,
                         !["mst_pid"] = 70, !["mst_src_id"] = 5, !["last_mode"] = "Lume",
                         !["friendly_name"] = 8]

\* Bound: only the last of them is edited.
MCInit ==
    \E k \in Watched_ :
        \/ \E nvs \in {FreshNvs, Legacy, Downgraded} : DeviceInit(nvs, k, 0, Boots_)
        \/ DeviceInit(Used, k, Edits_, Boots_)
MCSpec == MCInit /\ [][DeviceNext]_deviceVars /\ DeviceFairness
MCFresh == DeviceInit(FreshNvs, "mst_src_id", Edits_, Boots_) /\ [][DeviceNext]_deviceVars

E(k, v) == [key |-> k, typed |-> TRUE, value |-> v]
WrittenValue == {E("dir_sid_perf", 3), E("retx_count", 7)}
RollsValue == {0, 64}
\* Loads that roll, repair, choose and clip.
WatchedValue == {"slv_group", "mst_pid", "active_show", "strip_bri"}
ShowsValue == {"simple-beat", "dynamic"}
=============================================================================
