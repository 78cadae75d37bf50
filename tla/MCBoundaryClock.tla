-------------------------- MODULE MCBoundaryClock ---------------------------
(***************************************************************************)
(* Instances of BoundaryClock: two ports, and masters a and b.             *)
(***************************************************************************)
EXTENDS BoundaryClock

CONSTANTS a, b

\* A data set of the default quality: a grandmaster of this class, so many
\* steps away, announced by this clock.
DataSetOf(gm, class, steps, sender) ==
  [Empty EXCEPT !.gm = gm, !.priority1 = 128, !.clockClass = class, !.accuracy = 254,
                !.variance = 61536, !.priority2 = 128, !.steps = steps, !.sender = sender,
                !.from = 1]

\* The identities of the clock's ports are between those of the masters.
TwoIdentities == <<20, 21>>
OwnClasses == {DataSetOf(0, class, 0, 0) : class \in {6, 187}}
TwoMasters == {a, b}

\* Both on the same grandmaster, or a on its own; a may get worse than us.
TwoAnnounces ==
  (a :> {DataSetOf(10, 6, 1, 11), DataSetOf(11, 248, 0, 11)}) @@
  (b :> {DataSetOf(10, 6, 2, 12), DataSetOf(12, 7, 0, 12)})

\* A clock that decides for itself, and one with an uplink and a downlink.
TwoConfigs == {<<"NON_WR", "NON_WR">>, <<"S_ONLY", "M_ONLY">>}
OnePerPort == {(a :> 1) @@ (b :> 2)}
NotBothOnSecond == OnePerPort \cup {(a :> 1) @@ (b :> 1)}

\* The condition of theorem FollowsOne holds of these instances.
ASSUME InstancesHaveOneUplink == OneUplink

BothOnSecond == {(a :> 2) @@ (b :> 2)}
BothDecide == {<<"NON_WR", "NON_WR">>}

-----------------------------------------------------------------------------
\* Data sets with two values of each quality, which go with the grandmaster, as
\* its own data set does. Two variances of one high byte: of others the first
\* byte, which decides (bmc.c:520), is not the higher one.
Grandmaster == [field \in {"none", "priority1", "clockClass", "accuracy", "variance", "priority2"} |->
  IF field = "none" THEN DataSetOf(30, 248, 0, 0)
  ELSE [DataSetOf(31, 248, 0, 0) EXCEPT ![field] = @ - 1]]

Sample ==
  {[g EXCEPT !.gm = gm, !.steps = steps, !.sender = sender, !.port = p] :
     g \in {Grandmaster[f] : f \in DOMAIN Grandmaster}, gm \in {30, 31},
     steps \in 0 .. 2, sender \in {19, 22}, p \in Ports}

\* What bmcDataSetComparison() walks through (IEEE 1588, figures 27 and 28) is
\* an order of the data sets: by quality, grandmaster, steps, sender and port,
\* whichever port compares, here the one about to be initialised. The choice of
\* the best of several depends on it.
ComparisonOrders ==
  at \in Ports /\ events = 0 /\ clock.own.clockClass = 6 /\ port[at].state = "INITIALIZING" =>
    LET Rank(d) == Quality(d) \o <<d.steps, d.sender, d.port>>
        Less(x, y) == \E i \in 1 .. 9 : x[i] < y[i] /\ \A j \in 1 .. i - 1 : x[j] = y[j]
    IN  \A x, y \in Sample :
          (x.gm = y.gm => SubSeq(Quality(x), 1, 5) = SubSeq(Quality(y), 1, 5)) =>
            /\ Better(x, y, Identity[at]) <=> Less(Rank(x), Rank(y))
            /\ Comparison(x, y, Identity[at]) = -Comparison(y, x, Identity[at])

=============================================================================
