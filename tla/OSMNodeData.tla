---------------------------- MODULE OSMNodeData ----------------------------
(***************************************************************************)
(* What the import remembers of the nodes of an OSM file.  A B-tree maps   *)
(* an OSM id to the node's type while ways are counted and to an internal  *)
(* id once its coordinates are known: towers, the nodes of the graph, get  *)
(* ids below -2 and pillars, the points between them, ids above 2.  A      *)
(* place stands for a pair of coordinates.  nd is the record of it all;    *)
(* nd.towers are the node entries of the graph itself.                     *)
(***************************************************************************)
EXTENDS BTree

CONSTANTS
    Converted,        \* the coordinates of a pillar that became a tower
    NoTags,           \* the nil map of tags
    FirstArtificialId \* below every id of the file

JunctionNode == -2
EmptyNode == -1
EndNode == 0
IntermediateNode == 1
ConnectionNode == 2

IsTowerNode(id) == id < JunctionNode
IsPillarNode(id) == id > ConnectionNode
IsNodeID(id) == IsTowerNode(id) \/ IsPillarNode(id)

TowerNodeToID(tower) == -tower - 3
IDToTowerNode(id) == -id - 3
PillarNodeToID(pillar) == pillar + 3
IDToPillarNode(id) == id - 3

\* Five bytes hold an internal id and four the index of a map of tags.
NewOSMNodeData(maxLeafEntries) ==
    [ids |-> NewBTree(maxLeafEntries, 2147483647, EmptyNode),
     tagIndices |-> NewBTree(maxLeafEntries, 2147483647, -1),
     nodeTags |-> <<>>, pillars |-> <<>>, towers |-> <<>>, toBeSplit |-> {},
     nextArtificial |-> FirstArtificialId, put |-> <<>>]

GetID(nd, osmId) == BGet(nd.ids, osmId)
\* put remembers what is in the tree, for the properties.
WithID(nd, osmId, id) ==
    [nd EXCEPT !.ids = BPut(@, osmId, id),
               !.put = [i \in DOMAIN @ \cup {osmId} |-> IF i = osmId THEN id ELSE @[i]]]

\* A node seen again is a connection of two ways' ends or a junction.
TypeAfter(curr, isEnd) ==
    CASE curr = EmptyNode -> IF isEnd THEN EndNode ELSE IntermediateNode
      [] curr = EndNode /\ isEnd -> ConnectionNode
      [] OTHER -> JunctionNode

SetOrUpdateNodeType(nd, osmId, isEnd) ==
    WithID(nd, osmId, TypeAfter(GetID(nd, osmId), isEnd))

addTowerNode(nd, osmId, place) ==
    WithID([nd EXCEPT !.towers = Append(@, place)], osmId, TowerNodeToID(Len(nd.towers)))

\* The rows of pillars grow to the one that is written.
PillarSetNode(pillars, pillar, place) ==
    [i \in 1 .. Max({Len(pillars), pillar + 1}) |-> IF i = pillar + 1 THEN place ELSE pillars[i]]

addPillarNode(nd, osmId, place) ==
    LET pillar == Len(nd.pillars)
    IN WithID([nd EXCEPT !.pillars = PillarSetNode(@, pillar, place)], osmId, PillarNodeToID(pillar))

\* A node that already has an internal id panics.
CanAddCoordinates(nd, osmId) == ~ IsNodeID(GetID(nd, osmId))

AddCoordinatesIfMapped(nd, osmId, place) ==
    LET type == GetID(nd, osmId)
    IN CASE type = EmptyNode -> nd
         [] type \in {JunctionNode, ConnectionNode} -> addTowerNode(nd, osmId, place)
         [] type \in {IntermediateNode, EndNode} -> addPillarNode(nd, osmId, place)

GetCoordinates(nd, id) ==
    IF IsTowerNode(id) THEN nd.towers[IDToTowerNode(id) + 1] ELSE nd.pillars[IDToPillarNode(id) + 1]

\* The copy of a barrier's node: a pillar at the same place under an id of its own.
WithCopy(nd, node, copy) ==
    addPillarNode(WithID([nd EXCEPT !.nextArtificial = @ + 1], copy, IntermediateNode),
                  copy, GetCoordinates(nd, node.id))

AddCopyOfNode(nd, node) ==
    LET copy == nd.nextArtificial
        Copied(added) == [nd |-> added, node |-> [node EXCEPT !.osm = copy, !.id = GetID(added, copy)]]
    IN Copied(WithCopy(nd, node, copy))

ConvertPillarToTowerNode(nd, id, osmId) ==
    [addTowerNode(nd, osmId, nd.pillars[IDToPillarNode(id) + 1])
        EXCEPT !.pillars = PillarSetNode(@, IDToPillarNode(id), Converted)]

\* A second pillar conversion and a second map of tags panic.
CanConvert(nd, id) == nd.pillars[IDToPillarNode(id) + 1] # Converted
CanSetTags(nd, osmId) == BGet(nd.tagIndices, osmId) = -1

SetTags(nd, osmId, tags) ==
    [nd EXCEPT !.nodeTags = Append(@, tags),
               !.tagIndices = BPut(@, osmId, Len(nd.nodeTags))]

TagsAt(nd, index) == IF index < 0 THEN NoTags ELSE nd.nodeTags[index + 1]
GetNodeTags(nd, osmId) == TagsAt(nd, BGet(nd.tagIndices, osmId))

SetSplitNode(nd, osmId) == [nd EXCEPT !.toBeSplit = @ \cup {osmId}]
\* Mutation of UnsetSplitNode: the mark stays.
UnsetSplitNodeKept(nd, osmId) == nd

UnsetSplitNode(nd, osmId) == [nd EXCEPT !.toBeSplit = @ \ {osmId}]
IsSplitNode(nd, osmId) == osmId \in nd.toBeSplit

Release(nd) ==
    [nd EXCEPT !.ids = Clear(@), !.tagIndices = Clear(@), !.nodeTags = <<>>,
               !.pillars = <<>>, !.toBeSplit = {}, !.put = <<>>]
=============================================================================
