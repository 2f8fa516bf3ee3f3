-------------------------- MODULE EnergyAttribution --------------------------
(***************************************************************************)
(* Energy attribution to uids (src/powerstats/libpowerstats/dataproviders/ *)
(* PowerStatsEnergyAttribution.cpp and the attribution branch of          *)
(* PowerStatsEnergyConsumer.cpp) as operators.                             *)
(*                                                                         *)
(* /proc/uid_time_in_state is read as the kernel writes it: a header of   *)
(* state names and one line per uid with its cumulative time in each      *)
(* state.  A content is [names |-> <<name, ...>>, stats |-> [uid -> <<t,  *)
(* ...>>]].  The consumer keeps a snapshot [times, energy, total] between *)
(* calls: mUidTimeInStateSS, mUidEnergySS and mTotalEnergySS.             *)
(* Coefficients map a 0-based state id to mW.                             *)
(***************************************************************************)
EXTENDS Integers, Sequences, FiniteSets, FiniteSetsExt, Functions

\* getAttributionStats: {} when the consumer has no uid_time_in_state path.
\* readUidTimeInState reads the procfs file the kernel writes, whose every
\* line parses: its fopen and ParseInt failures are not reached.
GetAttributionStats(hasPath, file) ==
  IF ~hasPath THEN [names |-> <<>>, stats |-> <<>>] ELSE file

Missing(st) == DOMAIN st.stats = {} \/ st.names = <<>>

\* addAttribution: fails when the file is missing or empty; otherwise the
\* coefficient of every named state goes to that state's position in the
\* header, and it succeeds when every coefficient found its state.
AddAttribution(hasPath, file, stateCoeffs) ==
  LET st == GetAttributionStats(hasPath, file)
      coeff == IF ~hasPath THEN <<>>
               ELSE [id \in {j \in 0 .. Len(st.names) - 1 : st.names[j + 1] \in DOMAIN stateCoeffs}
                       |-> stateCoeffs[st.names[id + 1]]]
  IN IF hasPath /\ Missing(st) THEN [ok |-> FALSE, coeff |-> <<>>]
     ELSE [ok |-> Cardinality(DOMAIN coeff) = Cardinality(DOMAIN stateCoeffs), coeff |-> coeff]

\* The snapshot of a consumer that has not yet attributed anything.
NoSnapshot == [times |-> <<>>, energy |-> <<>>, total |-> 0]

\* The time of uid u in state id since the snapshot (all of it for a uid
\* the snapshot lacks).
DeltaTime(st, ss, u, id) ==
  st.stats[u][id + 1] - (IF u \in DOMAIN ss.times THEN ss.times[u][id + 1] ELSE 0)

\* uidEnergyUWs: the coefficient-weighted time of uid u since the snapshot.
UidEnergy(coeff, st, ss, u) ==
  MapThenSumSet(LAMBDA id : coeff[id] * DeltaTime(st, ss, u, id),
                {id \in DOMAIN coeff : id < Len(st.stats[u])})

AbsVal(x) == IF x < 0 THEN -x ELSE x

-----------------------------------------------------------------------------
(* IEEE-754 single precision, as the powerScale arithmetic does it: a     *)
(* float is [m |-> mantissa, e |-> exponent], worth m * 2^e, |m| < 2^24,  *)
(* kept with m odd (or 0) so that products of small integers stay small.  *)
Two15 == 2 ^ 15
Two23 == 2 ^ 23
Two24 == 2 ^ 24
FZero == [m |-> 0, e |-> 0]

\* For a, b > 0: <<a', b', k>> with a' / b' = a / b * 2^k in [2^23, 2^24)
\* (a far below is scaled by 2^8 at a time).
RECURSIVE Normalised(_, _, _)
Normalised(a, b, k) ==
  IF a >= Two24 * b THEN Normalised(a, 2 * b, k - 1)
  ELSE IF a < Two15 * b THEN Normalised(256 * a, b, k + 8)
  ELSE IF a < Two23 * b THEN Normalised(2 * a, b, k + 1)
  ELSE <<a, b, k>>

\* a / b rounded to the nearest integer, ties to even.
RoundedQuotient(q, r, b) == IF 2 * r > b \/ (2 * r = b /\ q % 2 = 1) THEN q + 1 ELSE q

RECURSIVE Reduced(_)
Reduced(f) == IF f.m # 0 /\ f.m % 2 = 0 THEN Reduced([m |-> f.m \div 2, e |-> f.e + 1]) ELSE f

RoundedFrom(sg, nd, e) ==
  Reduced([m |-> sg * RoundedQuotient(nd[1] \div nd[2], nd[1] % nd[2], nd[2]), e |-> e - nd[3]])

\* The float nearest to n / d * 2^e, for d > 0.
FloatNear(n, d, e) ==
  IF n = 0 THEN FZero ELSE RoundedFrom(IF n < 0 THEN -1 ELSE 1, Normalised(AbsVal(n), d, 0), e)

\* static_cast<float> of an int64.
ToFloat(x) == FloatNear(x, 1, 0)

\* float / float and int64 * float, each rounded once.
FDiv(f, g) == FloatNear(IF g.m < 0 THEN -f.m ELSE f.m, AbsVal(g.m), f.e - g.e)
FMul(x, f) == FloatNear(x * f.m, 1, f.e)

\* (int64_t) of a float: truncation toward zero.
FTrunc(f) ==
  IF f.e >= 0 THEN f.m * 2 ^ f.e
  ELSE IF -f.e >= 25 THEN 0
  ELSE IF f.m < 0 THEN -((-f.m) \div 2 ^ (-f.e)) ELSE f.m \div 2 ^ (-f.e)

\* powerScale: static_cast<float>(d) / totalRel, 0 when totalRel is 0
\* (the int64 divisor is converted to float).
PowerScale(d, totalRel) == IF totalRel = 0 THEN FZero ELSE FDiv(ToFloat(d), ToFloat(totalRel))

\* The energy of uid u: (int64_t)(its weighted time * powerScale), on top
\* of the energy the snapshot attributed to it.
Attributed(rel, powerScale, ss, u) ==
  FTrunc(FMul(rel[u], powerScale)) + (IF u \in DOMAIN ss.energy THEN ss.energy[u] ELSE 0)

\* The attribution, over the uids of the file, and the new snapshot: the
\* file's times, the uids' energies (a uid gone from the file keeps its
\* entry), and the meter total.
AttributionOf(st, ss, total, attr) ==
  [attr |-> attr,
   ss |-> [times |-> st.stats,
           energy |-> [u \in DOMAIN ss.energy \cup DOMAIN attr |->
                         IF u \in DOMAIN attr THEN attr[u] ELSE ss.energy[u]],
           total |-> total]]

SharesAt(st, ss, total, rel, powerScale) ==
  AttributionOf(st, ss, total, [u \in DOMAIN st.stats |-> Attributed(rel, powerScale, ss, u)])

Shares(st, ss, total, rel) ==
  SharesAt(st, ss, total, rel, PowerScale(total - ss.total, MapThenSumSet(LAMBDA v : rel[v], DOMAIN st.stats)))

\* The attribution branch of getEnergyConsumed, after the file was read
\* into st and the meter gave total.
Attribute(coeff, st, ss, total) ==
  Shares(st, ss, total, [u \in DOMAIN st.stats |-> UidEnergy(coeff, st, ss, u)])

-----------------------------------------------------------------------------
\* What the uids of an attribution gain over the energy a snapshot held.
Gain(attr, ss) ==
  MapThenSumSet(LAMBDA u : attr[u] - (IF u \in DOMAIN ss.energy THEN ss.energy[u] ELSE 0),
                DOMAIN attr)

=============================================================================
