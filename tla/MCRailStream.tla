---------------------------- MODULE MCRailStream ----------------------------
(* RailStream with two rails on one PAC1934 device next to an iio device   *)
(* of another kind, or no device at all.                                   *)
EXTENDS RailStream

CONSTANTS rA, rB

\* An entry of /sys/bus/iio/devices with its name, sampling_rate and
\* enabled_rails files.
Dev(pac, rate, rails) ==
  [iio |-> TRUE, opens |-> TRUE, reads |-> TRUE, pac |-> pac,
   sps |-> rate, rails |-> rails]

\* One PAC1934 with two rails and an ADC; or no device.
MCBoards == {<<Dev(TRUE, 1024, <<[name |-> rA], Malformed, [name |-> rB]>>),
               Dev(FALSE, 1, <<>>)>>,
             <<>>}

MCEnergyFiles == {<<"one", "two", "two">>, <<"other", "one", "two", "other">>,
                  Unreadable}

MCRailIndexArgs == {<<>>, <<1>>, <<2>>}
=============================================================================
