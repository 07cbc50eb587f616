------------------------------ MODULE MCRouter ------------------------------
(***************************************************************************)
(* Small networks on a grid of 16 by 16 units, eight cells in a row, of    *)
(* which four rings reach at most seven, and requests of one to three      *)
(* points on it.                                                           *)
(***************************************************************************)
EXTENDS Router

Street(a, b, pillars) == [a |-> a, b |-> b, pillars |-> pillars, geo |-> 0, fwd |-> 1, bwd |-> 1]
OneWay(a, b, pillars) == [Street(a, b, pillars) EXCEPT !.bwd = Inf]
Against(a, b, pillars) == [Street(a, b, pillars) EXCEPT !.fwd = Inf]
Slow(street) == [street EXCEPT !.fwd = 3]
Geo(street, geo) == [street EXCEPT !.geo = geo]

Numbered(seq) == [i \in 0 .. Len(seq) - 1 |-> seq[i + 1]]
Network(nodes, edges) ==
    [nodes |-> Numbered(nodes), edges |-> Numbered(edges), bounds |-> <<0, 16, 0, 16>>,
     restricted |-> {}, uTurn |-> 0, marked |-> {}]

Square == <<<<2, 2>>, <<2, 13>>, <<13, 13>>, <<13, 2>>>>

\* A ring of two-way streets with bends, one of them stored against the order of its nodes.
Ring4 == Network(Square, <<Slow(Street(0, 1, <<<<4, 7>>>>)), Street(2, 1, <<<<9, 11>>, <<6, 15>>>>),
                           Street(2, 3, <<>>), Street(3, 0, <<>>)>>)

\* One-way streets, and a dead end that can only be entered.
OneWays == Network(Square \o <<<<8, 8>>>>,
                   <<OneWay(0, 1, <<>>), Against(2, 1, <<>>), OneWay(2, 3, <<<<15, 6>>>>), Street(3, 0, <<>>),
                     OneWay(0, 4, <<<<5, 7>>>>)>>)

\* Two networks apart from each other, the lesser in the middle, and a street that is closed.
Islands == Network(Square \o <<<<7, 7>>, <<9, 8>>, <<8, 10>>>>,
                   <<Street(4, 5, <<>>), Street(0, 1, <<>>), Street(1, 2, <<<<3, 15>>>>), Street(2, 0, <<<<11, 3>>>>),
                     OneWay(5, 6, <<>>), [OneWay(2, 3, <<>>) EXCEPT !.fwd = Inf]>>)

\* Two streets between the same nodes.
Parallel == Network(<<<<3, 3>>, <<3, 12>>, <<14, 9>>>>,
                    <<Street(0, 1, <<<<6, 8>>>>), Street(1, 0, <<<<1, 9>>, <<1, 6>>>>), Slow(Street(1, 2, <<>>))>>)

\* A crossing: one street was doubled, with its geometry, to carry a restriction.
Crossing == [Network(<<<<8, 8>>, <<8, 1>>, <<8, 15>>, <<15, 8>>>>,
                     <<Geo(Street(1, 0, <<<<9, 4>>>>), 1), Geo(Street(0, 2, <<>>), 2), Geo(Street(0, 3, <<<<11, 9>>>>), 3),
                       Geo(Street(1, 0, <<<<9, 4>>>>), 1)>>)
             EXCEPT !.restricted = {<<0, 0, 1>>, <<3, 0, 1>>, <<0, 0, 2>>, <<1, 0, 2>>}, !.uTurn = Inf]

\* Nothing but one-way streets that lead nowhere.
Scattered == Network(Square, <<OneWay(0, 1, <<>>), OneWay(2, 3, <<>>)>>)

Configuration(network, size) == [net |-> network, minNetworkSize |-> size]

MCConfigurations ==
    {Configuration(network, 3) : network \in {Ring4, OneWays, Islands, Parallel, Crossing, Scattered}}
    \cup {Configuration(Islands, 0), Configuration(OneWays, 0), Configuration(Islands, 1)}

\* Networks on which U-turns are forbidden.
WithoutUTurns == {Configuration([network EXCEPT !.uTurn = Inf], 3) : network \in {Ring4, OneWays, Parallel}}

Request(points) ==
    [points |-> points, legacy |-> FALSE, headings |-> <<>>, pointHints |-> <<>>, curbsides |-> <<>>,
     blockArea |-> FALSE, profile |-> "car", calcPoints |-> TRUE]

Grid == (0 .. 16) \X (0 .. 16)
Selected == {<<1, 5>>, <<2, 9>>, <<9, 2>>, <<8, 8>>, <<7, 14>>, <<13, 13>>, <<11, 9>>, <<8, 5>>}

Two == Request(<<<<1, 5>>, <<8, 8>>>>)
Malformed ==
    {[Two EXCEPT !.legacy = TRUE], Request(<<>>), [Two EXCEPT !.headings = <<10, 20, 30>>],
     [Two EXCEPT !.headings = <<10>>], [Two EXCEPT !.headings = <<10, 360>>], [Two EXCEPT !.headings = <<NaN, 0>>],
     [Two EXCEPT !.pointHints = <<"Main Street">>], [Two EXCEPT !.curbsides = <<"left">>],
     [Two EXCEPT !.blockArea = TRUE], Request(<<<<1, 5>>, NaN>>), Request(<<<<1, 17>>, <<8, 8>>>>),
     [Two EXCEPT !.profile = "bike"], [Two EXCEPT !.calcPoints = FALSE]}

MCRequests ==
    {Request(<<p>>) : p \in Grid}
    \cup {Request(<<p, q>>) : p \in Selected, q \in Selected}
    \cup {Request(<<p, q, r>>) : p \in {<<1, 5>>, <<8, 8>>, <<7, 14>>}, q \in Selected, r \in Selected}
    \cup Malformed

MCProfiles == {"car"}
MCEqualNormedDelta == <<0, 1>>
MCWayPointMaxDistance == <<3, 1>>
=============================================================================
