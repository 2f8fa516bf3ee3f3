--------------------------- MODULE MCPowerStatsHidl --------------------------
(* The service of main, scaled down: the rpmh master_stats provider with  *)
(* APSS and MPSS, the SoC system_sleep provider (no entity header, two    *)
(* RPM modes), WLAN, the GPU (Oslo and IAXXX are the same kind) and       *)
(* Citadel behind the AIDL provider: entities 0 .. 5 in addPowerEntity    *)
(* order.  The rails are those of MCRailStream, without streams.        *)
EXTENDS PowerStatsHidl, MCRailStream

CONSTANTS hApss, hMpss, hAosd, hCxsd, citadel, sLast, sActive, c1

Hdr(h) == [hdr |-> h]
Fld(f) == [field |-> f]

\* rpmStateResidencyConfigs: one state without a header, three fields.
RpmStates == GenerateConfigs({"count", "time", "last"}, <<NoHeader>>)
\* generateGenericStateResidencyConfigs(socStateConfig, socStateHeaders).
SocStates == GenerateConfigs({"count", "time"}, <<hAosd, hCxsd>>)

RpmStats(h) == <<Hdr(h), Fld("count"), Fld("last"), Fld("time")>>

\* master_stats: both masters, in either order, or cut after APSS.
RpmFiles == {RpmStats(hApss) \o RpmStats(hMpss),
             RpmStats(hMpss) \o RpmStats(hApss),
             RpmStats(hApss) \o <<Hdr(hMpss), Fld("count")>>,
             Unopenable}

\* system_sleep/stats: both modes, or aosd without its duration line.
SocFiles == {<<Hdr(hAosd), Fld("count"), Fld("time"), Hdr(hCxsd), Fld("count"), Fld("time")>>,
             <<Hdr(hAosd), Fld("count"), Hdr(hCxsd), Fld("count"), Fld("time")>>,
             Unopenable}

WlanStatFiles == {<<Fld("sleep"), Fld("on"), Fld("counter"), Fld("tstamp")>>,
                  <<Fld("sleep"), Fld("on")>>, Unopenable}

MCProviders ==
  <<[kind |-> "generic", files |-> RpmFiles,
     ents |-> <<[id |-> 0, header |-> hApss, states |-> RpmStates],
                [id |-> 1, header |-> hMpss, states |-> RpmStates]>>],
    [kind |-> "generic", files |-> SocFiles,
     ents |-> <<[id |-> 2, header |-> NoHeader, states |-> SocStates]>>],
    [kind |-> "wlan", id |-> 3, files |-> WlanStatFiles],
    [kind |-> "device", id |-> 4],
    [kind |-> "aidl", ids |-> (citadel :> 5)]>>

MCAidlStates == citadel :> {sLast, sActive}

MCAidlReplies == {<<sLast, sActive>>, <<sActive>>}

MCReqIds == {<<>>, <<1, 1>>, <<5, 0>>, <<6>>}
=============================================================================
