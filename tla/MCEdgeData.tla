----------------------------- MODULE MCEdgeData -----------------------------
(***************************************************************************)
(* Two edges, bytes of two bits and segments of 32 bytes, which every      *)
(* field of an edge, a geometry and an entry sooner or later straddles.    *)
(* Strings reach the length limit of one byte in LongestString.            *)
(***************************************************************************)
EXTENDS EdgeData

CONSTANT LongestString

MCNoMaximum == -99
MCEdges == {0, 1}

\* In the first layout the int value does not fit into what the decimal leaves
\* of the first int, and three bytes are used of the second; the other layout
\* fills one int exactly.
MCVariants ==
    {[is3D |-> FALSE, specs |->
      <<NewEncodedValue("decimal", 3, 0, FALSE, TRUE, TRUE),
        NewEncodedValue("int", 2, 0, TRUE, FALSE, FALSE), NewEnum(3, FALSE)>>],
     [is3D |-> TRUE, specs |->
      <<NewBoolean(FALSE), NewString(2, TRUE),
        NewEncodedValue("int", 3, -3, FALSE, FALSE, FALSE)>>]}

MCInputs == [distances |-> {1000}, ints |-> {1}, decimals |-> {3, 13}, strings |-> {"a"}]

p1 == <<-5, 100, 9>>
p2 == <<17, -128, 60>>
Flat(p) == <<p[1], p[2]>>
Pillars3D == {<< >>, <<p1>>, <<p2, p1>>}
MCTowers == [dimension \in BOOLEAN |->
    IF dimension THEN <<<<0, 3, 1>>, <<-20, 5, 2>>>> ELSE <<<<0, 3>>, <<-20, 5>>>>]
MCGeometries == [dimension \in BOOLEAN |->
    IF dimension THEN Pillars3D ELSE {[i \in DOMAIN g |-> Flat(g[i])] : g \in Pillars3D}]

String(n) == [type |-> "S", bytes |-> [i \in 1 .. n |-> i % 4]]
Int4 == [type |-> "i", bytes |-> <<3, 0, 1, 2>>]
Long == [type |-> "l", bytes |-> <<1, 2, 3, 0, 1, 2, 3, 0>>]

ref == <<1>>
name == <<2, 3, 1>>
width == <<3, 0>>
MCKeyValues == {<< >>, ref :> Long, (name :> String(LongestString)) @@ (width :> Int4)}
=============================================================================
