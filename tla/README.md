# gohopper in TLA+

A TLA+ model of gohopper, the Go port of the GraphHopper routing engine: the
import of an OSM file, the graph store and its renumbering, turn costs, the data
of edges down to the bytes, the cache on disk and its recovery, and the way of a
request: snapping, query graph, shortest path searches, the answer. TLC checks
the modules on small instances; TLAPS proves theorems about five systems of
them for every size: the graph store with the multigraph it promises, the
in-place permutation, the cache on disk, the searches, which find a shortest
path if there is one, and contraction hierarchies: their preparation and the
queries on them, which find a shortest path too.

Paths below are relative to `src/`.

## 1. The system

The program imports an OSM extract into a routing graph, writes it to a
directory of files, and answers route requests over it. There are no
goroutines of its own: import and start-up run on the main goroutine, and
concurrency is that of `net/http`, whose handlers only read the graph. The
hard parts are elsewhere: linked structures in flat arrays that are renumbered
in place, a sequence of file writes that may be cut short anywhere, and search
algorithms whose stopping rules are subtle.

| Component | State | Operations | Hard behaviour | What makes it correct |
|---|---|---|---|---|
| node and edge store, `core/storage/base_graph*.go`, `edge_iterator_impl.go`, `node_access.go` | flat arrays of node and edge records, two links per edge | create nodes and edges, freeze, explore, sort edges, relabel nodes | references are array indices; renumbering moves records in place and rewrites every reference | an explorer returns each edge of its node once; renumbering is invisible |
| graph sort, `core/storage/graph_sort.go` | none (works on the graph) | Hilbert order of nodes, derived order of edges | the edge order is read off the lists that are then rewritten | a permutation; sorted afterwards; turn costs still fit |
| turn cost storage, `core/storage/turn_cost_storage.go` | entry array, one linked list per via node | set, get, renumber edges, rebuild by node | three renumberings meet | every turn keeps the value last set |
| data access and directory, `core/storage/*data_access.go`, `directory.go` | segments in memory, file with header | create, ensure capacity, get and set, flush, load | values that cross segments, a file cut off by a crash | what is read is what was written last |
| graph cache, `core/graphhopper.go` | files of one directory, parts in memory | `ImportOrLoad`, `load`, `process` | a crash between two flushes, restarts, a changed extract | a start serves one import as a whole or none |
| storable properties, key values, `storable_properties.go`, `kv_storage.go` | map written as a text file; append-only byte pool | put, get; add, get all | length fields of one byte | values come back as stored |
| hierarchy storage, `ch_storage*.go`, `routing_ch_*` | shortcut records, levels | add shortcuts per node in level order, explore | weight codec with a marker for infinity, shared weight flags | shortcuts are found from their lower node, weights survive |
| location index, `core/storage/index` | tree of cells built from the edges | build, flush, load, find closest edge | cells at borders, growing search ring | the closest accepted edge |
| searches, `core/routing/abstract_bidir_algo.go`, `dijkstra*.go`, `astar*.go` | shortest path trees, heaps, best meeting | one search per object | stopping rule, lazy deletion, replaced best entry, turns | least weight, if there is a path |
| hierarchy preparation, `core/routing/ch` | levels, priority heap, shortcuts | order, contract, witness search | priorities recomputed lazily while the graph shrinks | every distance is preserved |
| hierarchy queries, `core/routing/*_ch*.go` | as the searches | upward search from both sides | other stopping rule, stall on demand | the distance on the base graph |
| query graph, `core/routing/querygraph` | virtual nodes and edges of one request | build overlay, explore, weigh | turns at virtual nodes | same routes as with the points built in |
| router, `core/routing/router.go` | none | snap, one search per leg, join | single-use search objects | legs join up |
| subnetworks, `core/routing/subnetwork` | component of each edge key | Tarjan over edge keys | explicit stack in place of recursion | strongly connected components; what is snapped is connected |
| OSM reader, `core/reader/osm` | node types, pillar and tower coordinates | two passes | ways cut at junctions, barriers and loops | each stretch becomes one edge |
| id maps, `core/coll` | B-tree | put, get | node splits | a map |
| encoded values, weightings, parsers, `core/routing/{ev,util,weighting,parsers}` | bits of edge flags | set, get, weigh | bit packing, negative and infinite values | values round-trip |
| command line, HTTP, web API, configuration, geometry, landmarks (a placeholder) | none | | | |

How they interact: the OSM reader creates nodes, edges and turn costs in the
graph; `process` sorts the graph, prepares the location index and flushes every
file; `load` reads them back. A request is snapped by the location index,
wrapped in a query graph and answered by a search over the explorers of the
graph, with weights taken from encoded values and turn costs.

## 2. The modules

| Module | Models | Composed with |
|---|---|---|
| `BaseGraph` | node and edge records, adjacency lists, `SortEdges` and `RelabelNodes` as wholes | instantiates `Multigraph` |
| `Multigraph` | what the store promises: nodes, edges, and the order in which an explorer returns edges; renumbering does not exist in it | |
| `PermuteInPlace`, `MCPermuteInPlace` | the cycle-following loop inside `SortEdges` and `RelabelNodes`, one iteration per step | the MC module gives it edge links as records |
| `TurnCostStorage` | entry array and lists, both renumberings | instantiated by `GraphSort` |
| `GraphSort` | graph and turn costs together, filled by an importer and sorted along the Hilbert curve | instantiates `BaseGraph` and `TurnCostStorage` |
| `GraphCache` | the files of the cache, starts, imports, kills, new extracts | |
| `Weights`, `Distances` | weights with infinity; the distances in a graph, defined without an algorithm | |
| `SearchTree` | query graph as a search sees it, edge and turn weights, tree entries, traversal ids | extended by all searches |
| `RouteRequests` | the requests of the searches without preparation, with the assumptions about them | extends `SearchTree` |
| `BidirSearch` | `AbstractBidirAlgo` with its Dijkstra and A* forms | |
| `Dijkstra` | the searches from the start only | |
| `RoutingAlgorithms`, `MCRoutingAlgorithms` | the factory: whichever search a request names, run to its end; the MC module has the families of small networks and queries | instantiates `BidirSearch`, `Dijkstra` and, for its properties, `Walks` |
| `Walks` | the least weight of a walk, defined without an algorithm | |
| `CHStorage` | a contraction hierarchy as it is stored, explored and unpacked | extended by the next two |
| `Contraction` | the preparation: witness searches, shortcuts, the prepare graph | instantiates `Distances` |
| `CHQuery` | the bidirectional search on the hierarchy, with and without stall on demand | extends `SearchTree` |
| `CHRouting`, `MCCHRouting` | a preparation, then a request on its result | extends `Contraction`, instantiates `CHQuery` and `Walks` |
| `RAMDataAccess`, `RAMIntDataAccess` | growing arrays of bytes and of ints in segments, with flush and reload | extended by `EdgeData` |
| `EncodedValues` | layout, masks and bounds of the values packed into an edge's ints | extended by `EdgeData` |
| `EdgeData`, `MCEdgeData` | what an edge carries: distance, flags, key values, geometry; copies; a restart | all of the three above |
| `BTree` | the B-tree that maps OSM ids | extended by `OSMNodeData` |
| `OSMNodeData` | node types, towers, pillars and barrier copies | extended by `OSMImport` |
| `TagParsers` | access and speeds from a way's tags | extended by `OSMImport` |
| `Geometry` | distances on a plane, Ramer-Douglas-Peucker | used by `OSMImport`, `LocationIndex`, `Router` |
| `OSMImport`, `MCImport` | both passes of the reader, from ways to edges | all of the four above |
| `RoadGraph` | the imported network as a request reads it: edge states, weights, turns | extended by the next four |
| `Subnetworks` | components of edge keys and the marking of small ones | |
| `LocationIndex` | tree of cells, its array, the search for the closest edge | |
| `QueryGraph` | virtual nodes and edges, explorers, turn weights | extends `LocationIndex` |
| `Router`, `MCRouter` | from the imported network to the answer of a request | extends `QueryGraph` and `Subnetworks` |
| `PermuteInPlaceProofs`, `GraphCacheProofs` | theorems | extend the module they are named after |
| `Induction` | lemmas: induction over a set, recursive functions on an interval, finite sets of integers | extended by the next four |
| `BaseGraphProofs` | the adjacency lists, what an explorer returns; the store implements `Multigraph` | extends `BaseGraph` |
| `GraphSortProofs` | a sort sorts and keeps all turn costs | extends `GraphSort`, instantiates `BaseGraphProofs` |
| `RoutingAlgorithmsProofs` | popped entries are final; the searches find shortest paths | extends `RoutingAlgorithms` |
| `CHRoutingProofs` | the preparation keeps distances; shortcuts can be stored and unpack | extends `CHRouting` |
| `CHSearchProofs` | a query on the hierarchy finds a shortest path | extends `CHRoutingProofs` |

An operator marked *Mutation* is a wrong variant of the definition below it, a
slip the code could plausibly contain. No specification uses one; putting it in
the place of the right definition must make the property named in
`PROJECT.json` fail, which shows that the property depends on that code.

### Correspondence

*Graph store.* `nodes[n].edgeRef`, `edges[e].nodeA/nodeB/linkA/linkB` are the
record fields of the same name. `Edge` contains the growth of the node array
and the prepend to both lists; `frozen` is checked by `BaseGraph.Edge` only, as
in the code. A field `tag`, which no guard reads, remembers the id a record was
created with, so that properties can speak of "the same edge" across a
renumbering. `SortEdges` and `RelabelNodes` are single steps in `BaseGraph`
(nobody can observe the middle: an import is one goroutine); the loop that
carries them out in place is `PermuteInPlace`, with `perm`, `visited`, `start`,
`curr`, `carry` as in the code and the array of records as `slots`.

*Turn costs.* `entries[i].from/to/next/flags` and the list heads `tcRef` (the
node record's `tcRef` field). `SortNodes` gets the heads after the relabelling,
as `BaseGraph.RelabelNodes` calls it.

*Graph cache.* A file is `[gen, parts]`: the import it was written by and how
much of it is there (0 is missing or empty, which `LoadExisting` does not tell
apart; header, then segments). `LoadOrder` and `FlushOrder` are the orders in
`GraphHopper.load`, `BaseGraph.LoadExisting`, `process` and `BaseGraph.Flush`.
The location index is flushed by its own `PrepareIndex` first and once more
with the rest. Its checksum is compared with the loaded graph's; the model
takes graphs of different imports to have different checksums. `process`
writes nothing but the location index when `storeOnFlush` is off. The copy in
`properties.txt` is never read and left out.

*Searches.* One `Pop` takes the lightest entry and sets up the explorer, one
`Relax` handles one edge, `runAlgo` is the loop condition. `tree` is
`bestWeightMap`, `heap` the entries that are not marked deleted (a deleted one
is skipped when polled), `pc` alternates the sides as `runAlgo` does. The order
of an explorer's edges and of equal weights in a heap is left open, which
covers every heap and every edge order. The limits on visited nodes and on time
may strike at any test. The parent chain of an entry is kept as the sequence
of its edges.

*Hierarchies.* `PollNode` is `contractNode` up to the loops of
`findAndHandleShortcuts`, `HandlePair` one iteration of them, `InsertShortcuts`
the rest of `ContractNode`. `out` and `in` are the linked lists of the prepare
graph, newest first; `shortcutFor` is `shortcutsByPrepareEdges`. The heap of
priorities decides nothing but the order, so `PollNode` takes any node left.
A witness search may only find a path that exists, but it may miss one: it
stops after so many nodes, and it is continued after shortcuts have been added
that it has not seen. Which of the existing witnesses it finds is left open.
A node's shortcuts in `CHStorage` are the run of records that ends at its last
one, as the iterator of `routing_ch_edge_iterator_impl.go` walks them. In
`CHQuery` the first `Pop` and `Relax` steps of both sides are those of
`postInit`.

*Edge data.* `data` in `EdgeData` is the byte array of the edges, with the
offsets of `NewBaseGraphNodesAndEdges`; geometry and key values are byte arrays
of their own, with the first free position of each. A byte has four values and
a segment 32 bytes, so that each field and each entry comes to straddle a
segment somewhere. `expected`, which is not in the program, is what the callers
have written. A restart flushes every array and the properties and loads them
into a new graph.

*Import.* A phase of `OSMImport` is a pass over a list of elements and every
step handles one element as `HandleWay` or `HandleNode` does, with everything
that calls: `splitWayAtJunctionsAndEmptySections`, `splitLoopSegments`,
`splitSegmentAtSplitNodes`, `handleSegment` and `addEdge` are operators from
the graph built so far (`g`) to the one built after them, and `g.panic` records
that one of them has given up. Ids of nodes are the code's: negative for
towers, positive for pillars, four small numbers for types.

*Router.* `PrepareSubnetworks` is `cleanUp`, `PrepareLocationIndex` the index of
`process`; `Receive`, `FindPoint`, `CreateQueryGraph`, `CalcLeg` and
`BuildResponsePath` follow `Router.Route` call by call, with its early returns.
`Forget` ends a request; another one follows. The tree of the location index is
the array of ints that `storeEntry` writes, and `fillIDs` descends in it bit by
bit. Tarjan's algorithm pops one task of its stack at a time.

## 3. Runs

Every property has a mutant in `PROJECT.json`.

| Run | Shows | Bounds |
|---|---|---|
| `base_graph` | lists linked newest first, each edge explored once, no record lost; `BaseGraph` implements `Multigraph` | 3 nodes, 3 edges: lists of length 3, parallel edges, every permutation of them |
| `permute_in_place` | every permutation of 4 records, with links rewritten on the way; the loop ends | 4 records: fixed points, two 2-cycles, 3- and 4-cycles |
| `graph_sort` | derived edge order is a permutation; sorted in Hilbert order; each turn keeps its value, each entry is in exactly one list | 3 nodes in 2 positions (cycles of length 2 and 3), up to 3 edges and 2 turn costs, 4 of both together: two entries in one list or in two |
| `graph_cache` | see below | 2 segments per file (a file cut off after the header, and between segments), 2 extracts, 2 crashes |
| `edge_data` | what was written of an edge is read back | 2 edges, 3 writes, in 2 layouts of values (one that leaves part of an int unused, one that fills it), in 2 and 3 dimensions; up to 2 pillars; a restart after any write |
| `import` | see below | all ways of 2 to 4 nodes up to renaming and four of 5, with a second way of 2 or 3 nodes, one node missing, up to two barriers; 1860 combinations of tags on one way; 36 files with a ferry, some of no length, no duration or neither; the B-tree is compacted with every second entry |
| `router` | see below | 6 networks of up to 7 nodes on a grid of 16 by 16, in 8 by 8 cells, of which the 4 rings that are searched reach at most 7 in a row; the 289 points of the grid one by one, 64 pairs, 192 triples, 13 malformed requests |
| `routing_algorithms` | least weight, one consistent best path, no visited entry replaced, the search ends | 4 nodes, 5 edges node-based; 4 nodes, 4 edges with forbidden turns, u-turns, one-way roads, prescribed first and last edges edge-based |
| `hierarchy` | the lists of the prepare graph agree; all distances survive every contraction; every shortcut unpacks to a walk of its weight; each request gets the distance on the base graph | 53 graphs of 4 and 5 nodes, every order of contraction, every choice of missed witnesses; on 5 of them, every route from two nodes |
| `u_turns`, `gap`, `timeless_ferry` | disagreements, section 5 | as `router` and `import` |

Deadlock is checked in `base_graph`, `graph_sort`, `graph_cache`, `router` and
`u_turns`; the other systems stop when they are done.

The networks in `MCRoutingAlgorithms` contain two routes and a shortcut between them,
so that the sides may meet on a worse route first and a tree entry is replaced
after it became half of the best path; with positions off the straight line the
estimate of A* leads the wrong way first.

The graphs of `hierarchy` are two routes with a road between them, under all
weights that tell them apart, with and without one-way roads; parallel edges
each of which is the lighter one in one direction, so that a shortcut and its
reverse skip different edges and must not become one record; and a ring, whose
last shortcuts consist of shortcuts. In one graph a node is reached late on
the way to the goal while a one-way road makes it look as if it could be
stalled.

`graph_cache` is the crash argument: *PropertiesCommit*, a readable properties
file vouches for all other files, because it is written last and read first.
From it follow *ServesOneGeneration* and *OnlyCutOffPropertiesPanic*: of the
many mixed directories an interrupted import leaves, only one is ever looked
into, the one whose properties file was cut off in the middle. That one makes
every later start panic until the operator removes it. *CommittedCacheIsServed*
is the liveness side.

A later import never writes into a committed cache (*CommittedCacheIsKept*), so
a new extract has no effect until the operator removes the directory.

`edge_data` keeps the strings of key values below the length at which the byte
that holds it wraps around; `fixWayName` (`core/reader/osm/osm_reader.go:260`)
cuts names at 256 bytes, one more than `writeValue`
(`core/storage/kv_storage.go:174`) can store: a name of exactly 256 bytes comes
back empty, and the rest of the entry is read from the wrong place. A key has
values of one type, as the import writes them: `writeValue` goes by the type the
key was first added with and makes another value empty or zero, or panics.

`import` asks what a cut must not change. *WaysBecomeEdges* counts, for each
pair of nodes, how often the ways go from one to the other directly and how
often the edges do, and says that a way makes the import panic only if it is a
ferry of no length and no duration (section 5). The panics meant are those of the
segments, the graph, the B-tree and the speeds; limits of numbers and of stores
are left out (section 6). *OneTowerPerNode* and *BarriersSplit* say where edges may
meet: at one tower for each node of the file, unless a barrier was split, and
then only over its edge. *GeometryFollowsWay* bounds what simplification may
remove. *IdsFound* compares the B-tree with a map, for leaves of one and of two
entries, so that every split occurs within five nodes. *DrivableAsTagged* is an
independent reading of the access tags against the parsers' early returns. The
first family of files has ways that close, that run through a node
twice, that begin and end with a gap or a barrier, and nodes of equal
coordinates; the second varies the tags of one way, the third has ferries.

`router` asks for the promises that hold between the stages. *ClosestEdgeFound*
compares the search in growing rings of cells with the edges of the network. It is
bounded as the code is: the search gives up after `maxRegionSearch` rings
(`location_index_tree.go:222`, 4 of them with cells of 300 m by default), so that
"not found" is no promise about the network, nor is what was found the closest
edge of all. What is promised is about the edges nearer than the border of these
cells and those with a point in one of them. In the run both happen: points with
an edge in the network that are not found, and points snapped to an edge although
another one is closer (but beyond the rings).
*QueryGraphIsSubdivision* follows each edge through the query graph and compares
points, directions, weights and turns. *ResponseFollowsWaypoints* relates the
intervals of the legs to the points that simplification has left.
*SnappedPointsAreConnected* is what the marking of subnetworks is for: between
snapped points the answer is never "connection not found", provided only one
component is big enough to stay. The networks are a ring with an edge stored
backwards, one-way streets with a dead end, two separate networks, parallel
edges, a crossing with a doubled edge and restricted turns, and streets that
lead nowhere.

### Fairness

Weak fairness is assumed of a sequential loop that waits for nothing: the
iterations of `PermuteInPlace`, the steps of a search (in `RoutingAlgorithms`),
and the steps of `ImportOrLoad` on the main goroutine. Starts, kills, operators
and exits have none. Nothing is claimed to happen eventually in the other
modules.

## 4. Proofs

`BaseGraphProofs`, for all `MaxNodes`, `MaxEdgeCount` and `Positions` under the
module's two assumptions:

- `Invariance`: `IndInv == TypeOK /\ NoEdgeLost /\ LinkedNewestFirst` is
  inductive. `LinkedNewestFirst` alone is not: that the prepended edge is the
  newest needs tags to be distinct and below `edgeCount`, that a renumbering
  keeps the order needs it to be a bijection on records that are all there, and
  that `Link` picks the side of the base node needs edges not to be loops.
- `TypeCorrect`, `ListsCorrect`, `RecordsPreserved` follow.

The proof has one lemma per action. For the renumberings it is a transport
argument: `invertPermutation` is a bijection (a lemma of its own), the edges
around a node are the images of the edges around it before, and *newest* is
stated by tags, which a bijection carries over.

Two more theorems take `IndInv`. The induction theorems of the library take an
operator as a parameter and cannot be used; `Induction` states induction on a set
of naturals instead.

- `ExplorerCorrect`: an explorer returns every edge at its node once. Tags fall
  strictly along the list of a node (`LinkedNewestFirst`), so the walk over the
  links, a recursive function, ends and passes no edge twice; and an edge at the
  node is passed because its tag lies between those of two entries of the walk or
  is one of them.
- `Refinement`, `Spec => ImplementsMultigraph`: initial states map to initial
  states and each action to the step of `Multigraph` it stands for or a stutter,
  one `...Maps` lemma per action. A renumbering of edges is a stutter because the
  abstract graph names records by tag, a list of descending tags is determined by
  its set, and the renumbered lists still descend.

`GraphSortProofs`, for all bounds, `Positions` and `Costs` under the three
assumptions of `GraphSort`. The graph part of `GraphSort` is `BaseGraph`, so
`IndInv` carries over once the orders a sort computes are shown to be bijections:

- `EdgeOrderCorrect`: `InOrder` arranges a set of pairs by counting how many come
  before each; these places are all different and fill an interval. Each edge is
  met at some place of some visit because an explorer returns every edge at its
  node, and one of its meetings is the first.
- `SortSorts`: renumbering the edges moves every adjacency list without changing
  where edges are first met (`FirstMeetingsMove`), so that the order read after a
  sort is the identity. `RelabelNodes` does the same to the node order. The
  invariant, `SortInv`, also says what holds between the two halves of a sort.
- `CostsAreKept` and `EntriesAreListed`: a lookup walks links, and that the walk
  ends and passes the right entries is not inductive in terms of walks. `CostInv`
  says instead that every entry has a node that owns it: the head of a list is
  the lowest entry its node owns and each link the next higher one (`Joined`), and
  each turn that was set has one entry, with its cost (`Recorded`). An insertion
  gives the new, highest entry to its node. `SortEdges` changes no link, and turns
  are named by tags, which follow the edges. After `SortNodes` an entry is owned by
  the node whose list was copied at its place, and a list that is copied in one
  piece is still ascending; all entries are copied, so the panic is not reached.
  TLC checked `CostInv` on the instance of `graph_sort` before it was proved.

`PermuteInPlaceProofs`, for every `Size`, every set of `Records` and every
function `Store`:

- `Invariance`: the loop invariant. `NothingOverwritten` alone is not
  inductive: that the slot to be written next has been picked up needs the
  visited slots to be closed under the permutation, except for the one cycle
  being followed, whose open end is `curr` (`CyclesComplete`).
- `NeverOverwrites`, and `Permutes`: when the loop ends all slots are visited,
  so all records are in place.

`GraphCacheProofs`, for every number of `Segments`, of extracts (`MaxGen`) and
of crashes (`MaxCrashes`):

- `Invariance`: `PropertiesCommit` alone is not inductive: the step that
  completes the properties file needs the history of the import that takes it.
  `WritesPropertiesLast` keeps that history: while an import runs the properties
  are missing, and every file it has written from its second write on is whole
  and its own (the first write, of the location index, is repeated later). When
  it comes to the properties all others are done. `LoadsFromDisk` carries what
  the properties vouch for from file to file through a start.
- `TypeCorrect`, `PropertiesCommitTheCache`, `OneGenerationServed`,
  `PanicsOnlyOnCutOffProperties` follow, and the action property
  `CommittedCacheStays`: an import cannot be running over a committed cache.

`RoutingAlgorithmsProofs`, for every set of requests that satisfies
`QueriesAssumption`: any network without loop edges whose edges weigh at least
the beeline between their ends, any turn restrictions, U-turn costs and required
edges. An edge may be one-way or closed; the estimate is the beeline or zero.

- `PoppedInOrder`: a popped entry is no heavier than what is left in the heap,
  estimate included, and while its edges are relaxed no heavier than this entry
  (`Settled`, for each side). Two facts carry it. The estimates are consistent:
  along an edge they change by no more than the beeline, the balanced one of the
  bidirectional A* too, so a new entry is never lighter than its parent. And
  entries under one traversal id are at one node, so that the lighter of two by
  the path is the lighter one in the heap; for edge-based searches that needs
  what an id says of its entry, `IsFiledUnder`.
- `VisitedFinal`, the action property `VisitedEntriesAreFinal`, follows: an entry
  about to be replaced is heavier than the one being relaxed, so it has not been
  popped.

`BidirSearch` and `Dijkstra` are instances of `RoutingAlgorithms`, each with its
copy of `SearchTree`; `BidirOperators` and `UnidirOperators` say that the copies
agree, so that both kinds share the lemmas.

The second half of `RoutingAlgorithmsProofs`, under `QueriesAssumption` as above,
is for both kinds of search, node-based and edge-based. The assumption also says that the edges are
finite in number, that `NoEntry` is not an entry, and that node-based requests
have no turn costs and no required edges: `NewAbstractBidirAlgo` and
`CalcPathEdgeToEdge` panic otherwise. TLC checked the strengthened invariant over
all states of the instance in `MCRoutingAlgorithms` before it was proved.

- `SearchFindsAll`: `Found`, the strengthened invariant. Every entry is the end
  of a *chain*, a walk the restrictions allow, and weighs what the chain weighs;
  each arc that leads on from a popped entry has an entry no heavier than the
  step to it.
- `ShortestPathIsFound`, for the property `ShortestPathFound`. The reference,
  `Walks`, defines the lightest ends of walks by rounds of relaxation; that it
  has converged after as many rounds as there are arcs is a counting argument.
  Searching from the start only, the popped entry at the goal is the lightest one
  and an empty heap means that there is no path. Searching from both ends, the
  loop stops when the tops of both heaps together reach the best weight: with
  balanced estimates a lighter chain would then have an arc both trees know of,
  and `IsLightest` says that the best weight is no more than their sum there. An
  edge-based request with equal ends and no required edges is over before the
  first visit; it is a case of its own.
- `BestWeightFits`, for `BestWeightIsOfBestPath`. The best entries glue to a walk
  that weighs the best weight. An entry is replaced in its tree after it became a
  best one only by a lighter one, and the call that replaces it goes on to
  `updateBestPathEntry`, which then always finds the lighter sum: the pair cannot
  go stale.

`CHRoutingProofs`, under `GraphsAssumption` of `Contraction`: any graph with
finitely many nodes whose edges are no loops and have positive weights, infinite
in a direction that is closed. The order of the nodes and the witnesses that are
missed are whatever the steps of `CHRouting` choose. The invariants build on each
other:

- `ListsStayInStep`, for `ListsAgree`: `ListsInv` adds the types of the lists and
  that a prepare edge is listed only at its own ends, only where it is passable,
  and never at a contracted node; `LevelsInv`, that levels are given in the order of
  contraction. An edge is taken off the lists of its other end because it is
  listed at the contracted node too, which is what `ListsAgree` is for.
- `ContractionPreservesDistances`, for `DistancesPreserved`. `Walked` is the
  least set of ends and weights of walks, defined without an algorithm;
  `DistanceIsLeast` shows that `Distances`, which works in rounds, finds the
  lightest: after as many rounds as there are nodes nothing improves, since a node
  is reached from a nearer one. `PreservedInv` is about walks. An edge weighs as
  much as a walk on the base graph (`EdgesSound`). While a node is contracted, the
  walks of the base graph between remaining nodes still exist, no heavier, with
  the node; and each pair of edges that has been handled has a way around the node
  that is no heavier, be it a witness, which later shortcuts do not lengthen, or
  the shortcut. When all pairs have been handled, a walk over the node can be led
  around it, visit by visit (`WalkedAround`), and the node may go.
- `ShortcutsStored`, for `ShortcutsCanBeStored`. `StoreInv`: a prepare shortcut
  that skips what has not been stored skips edges of the node that is being
  contracted, and `insertShortcuts` stores exactly the shortcuts listed there
  (`NewShortcutsServe`), before they are taken off the lists. That
  `checkNewShortcut` accepts them is `LevelsInv`.
- `ShortcutsUnpackToWalks`, for `ShortcutsUnpack`. `RecordsInv`: every prepare
  shortcut leads over a contracted node along the two edges it skips
  (`AllBypass`), every record is what one or two prepare shortcuts were stored as,
  and it skips only what was stored before it. The invariant has to know when
  skipped edges become final: a shortcut may be replaced by a lighter one as long
  as it is listed, but not once it has been stored. So when the preparation is
  over each record is made of two edges before it that meet in one node and weigh
  as much (`AllComposed`), unless its weight is stored as infinite. `Unpack` is a
  recursion over ids, well-founded for that reason (`UnpackMeaning`), and by
  induction over ids its result is a walk (`UnpackTraced`), in either direction.
  TLC checked `RecordsInv` on the instance of `hierarchy`, with weights that are
  stored as infinite and without, before it was proved.

`CHSearchProofs` goes on from there, under one more assumption,
`RequestsAssumption`: start and goal are nodes of the graph that was prepared.

- The hierarchy (`ClimbInv`). `UpArcs` are the explored edges that lead to a
  higher level. `WalksClimb`: every walk of the base graph is matched by one as
  light that climbs from both of its ends; until all nodes are contracted the two
  ends may be apart, at two remaining nodes with a walk of the base graph between
  them. When a node is contracted and a walk of this kind stands on it, the next
  step to a remaining node is an arc of the prepare graph, which is listed at the
  node (that is `PreservedInv`) and is stored for it in the same call (that is
  `StoreInv`): the step climbs from then on. Weights as large as
  `MaxStoredWeight` are stored as infinite, so walks as heavy are excluded. In the
  end nothing remains and the two ends meet (`MeetsWhenDone`).
- The search (`SearchInv`). Each entry stands for a chain of stored edges from
  where its side began. `RelaxedInv`: at a node that was popped, the edges up are
  relaxed or about to be if its entry is as light as can be. `BestInv`: the best
  weight is that of two entries that meet, and no pair of entries is lighter,
  whichever tree was filed into last. When an entry that is part of the best pair
  is replaced, the lighter one becomes the best at once.
- Why stall on demand does no harm (`NotStalled`): an entry is stalled only if
  another entry of its side reaches its node on a lighter way, and every entry is
  the weight of a walk. So an entry as light as the lightest walk is never
  stalled. Entries that are heavier may be, and nothing is claimed of them: they
  are not on a lightest walk that climbs. `ClimbsFound` follows such a walk arc by
  arc: each of its nodes has an entry of the least weight, unless the best weight
  is no more than that, where the search may stop.
- `ReportedRouteIsWalk`: what is reported is a walk over base edges that weighs
  what is reported, and so no lighter than the distance. This is unconditional.
- `ShortestPathsFound`, for `ShortestPathFound`: the weight reported is the
  distance on the base graph, infinite if there is no path, under
  `DistanceCanBeStored`: the distance is infinite or less than `MaxStoredWeight`.
  The condition is the code's: a shortcut as heavy as that is kept as infinite
  (`ch_storage.go:309`), and a route that would need it is not found.

  TLC checked `LastInv`, `ClimbInv` and `SearchInv` on the instance of
  `hierarchy` before they were proved.

Only model-checked: liveness. All invariants of `BaseGraph`, `GraphSort`,
`PermuteInPlace`, `GraphCache`, `RoutingAlgorithms` and `CHRouting` that a run
checks are theorems. `BTree`, `EdgeData`, `OSMImport`, `Router` and what they use
recurse over data (trees, segments, stacks, lists of points) and stay with TLC
altogether.

## 5. Disagreements found

Shown by a run:

- `u_turns`: with forbidden U-turns (infinite `uTurnCosts`) the components that
  `edge_based_tarjan_scc.go` finds are not the strongly connected ones.
  `findComponentsForEdgeState` (line 221, and the recursive variant in line 130)
  starts the search of an edge's backward key at the adjacent node, but
  travelling backwards ends at the base node. The backward keys of a two-way
  ring become components of a single key each, and `prepare_routing_subnetworks`
  closes the ring. With finite costs any start leads to the same components.
- `gap`: a way is to be split where the file lacks a node, "to avoid connecting
  exit/entry points with a straight line" (`way_segment_parser.go:311`). That is
  done only if more than one node precedes the gap; a single one stays in the
  segment and is connected with the first node after it. The comment and a test
  disagree: `TestOSMReaderMissingNode` (`osm_reader_test.go:210-228`, "They should
  still be connected") pins what the code does for a way of three nodes.
- `timeless_ferry`: "NaN value for %s not allowed!"
  (`decimal_encoded_value_impl.go:62`) is the assertion that fails. The speed of a
  ferry is its distance over its `duration` (`osm_reader.go:129`). Between nodes of
  equal coordinates and with a duration of 0 that is 0/0, which is not below the
  0.1 of the next line. `GetFerrySpeed` and `MinMax` (`ferry_speed_calculator.go`)
  pass it on, and one such way ends the import.

Met while modelling, and not the subject of a run:

- `gohopper import` prints "import completed, graph.location=..."
  (`cmd/gohopper/main.go:77`) also when there was neither a cache nor an OSM file
  to import, and "cache marker created: .../gohopper.marker" (line 79) although
  nothing creates that file.
- A name of 256 bytes is stored with length 0 (section 3).
- After a start from the cache a custom model with a condition on an enumeration
  is refused, although it is accepted after the import of the same cache:
  `expression.go:234-270` compares booleans, enumerations and decimals, and an
  enumeration comes back as an integer. The code says as much of itself:
  "Deserialized enum EVs lose their Go enum type info, but retain all bit-layout
  fields needed for graph cache reads. We reconstruct as a bare
  IntEncodedValueImpl." (`encoded_value_serializer.go:178-180`), and its test
  expects it (`encoded_value_serializer_test.go:38`).
- `Router` (`core/routing/router.go:98`) hands the searches the weighting of the
  base graph, while the part of *QueryGraphIsSubdivision* about turns,
  `KeepsTurns`, is about `QueryGraphWeighting`, which requests do not use. On
  virtual edges the base weighting finds no restrictions, and U-turns at virtual
  nodes cost what they cost elsewhere. No import registers the encoded value that turn costs need, so
  no request of the program gets there yet.
- Barriers never close a road: the barrier edges of the import carry the tag
  `gh:barrier_edge`, but no code reads it, and `IsBarrier` and
  `HandleBarrierEdge` of the access parser have no callers.
- The subnetwork flag is one per edge. An edge whose one direction is in a small
  component is closed in both.
- `CopyEdge` panics when the edge has no key values (`base_graph.go:378`). A count
  of pillars whose low 16 bits have the top bit set would come back negative
  (`base_graph.go:347`).
- `FerrySpeedCalculator` stores a ferry speed for every way, and a way without
  `maxspeed` keeps the value 0.

## 6. Abstractions

- Weights are integers instead of `float64`; no rounding. The estimate of A* is
  at most the weight of an edge (`CalcMinWeightPerDistance` is a lower bound).
- The graph has no loop edges: `BaseGraph.Edge` rejects them.
- Hierarchies: shortcut weights are multiples of a unit larger than the 0.001
  to which `CHStorage` rounds, and the prepare graph's `float32` base weights are
  exact. Every edge has a positive weight. All nodes are contracted
  (`prepare.ch.contracted_nodes` is 100 by default). No run takes a shortcut to
  the weight that is stored as infinite. That the search ends is not checked.
- A kill loses the process, not what it has written; headers and segments are
  written whole. In the code a file cut in the middle of a segment is loaded
  without an error (`ram_data_access.go:183-186`). A write that fails panics, which
  is a kill. Two processes do not work on one directory at a time; nothing in the
  code enforces that. The OSM file is opened once for each of the two passes and is
  taken to be the same both times.
- Searches: the nodes lie on a line. `NoEdge` as the first or last edge, to which
  A* answers with an empty path before it searches (`astar.go:61-63`), is left out.
- `base_graph` gives every node the position 0; positions move with the record
  that also holds `tag`, and `graph_sort` has two of them.
- Edge data: bytes of two bits and ints of four bytes; decimals are counted in
  halves of their factor, so that rounding to the nearest step is seen but not
  floating-point error. The number of edges is fixed. Strings are below the
  length of the note in section 3, and float and double key values are left out.
  The table of keys is written and read byte by byte; the JSON of the encoded values
  is not, only what it loses (`Deserialized`). No write is longer than the rest of a
  segment and the next one: what is beyond would be cut without notice
  (`ram_data_access.go:285-310`), but segments have a megabyte and no caller writes
  more at once than the geometry of a way.
- Import: coordinates and the distance between two points are exact integers on
  a plane, and what a text says (a speed, a duration, a list, a condition) is a
  table of the texts that occur. An OSM file is a list of nodes and one of ways;
  relations, elevation and turn restrictions are left out. Panics over the limits of
  numbers and of stores (ids, key values, geometries) are not modelled. A ferry
  speed of 0/0 is a mark of its own, an infinite one is `HugeSpeed`.
- Router: the plane again. Squared distances are fractions and crossing points
  are rounded to the grid of the model. The search of a leg is its definition, the paths of least weight; that
  the algorithms find one is `routing_algorithms`. The choice of an algorithm,
  limits and timeouts, hints, path details and instructions are left out, so
  simplification has one partition, the legs. Networks with turn costs end with
  their query graph, because of the note on `router.go:98`.
- The recursion of modules with theorems, and of those they use, is written with
  recursive functions; `RECURSIVE` operators are in modules for TLC only.

## 7. Not modelled, and what could follow

- Hierarchies: partial contraction (shortcuts between the remaining nodes are
  never stored), the weight codec, the heap with update, A* and edge-based
  queries, the edge-based contractor, the hierarchy seen through a query graph.
  The router uses none of the query side yet.
- The limit of 1000 entries of a lookup in `TurnCostStorage`: it does not shrink
  to a bound TLC reaches, and the storage has no writer in the import.
- Heading and direction resolvers, which no code calls; alternative routes,
  which promise nothing exact; landmarks, a placeholder; configuration, web API
  and HTTP resources, which keep no state.
- The language of custom models.
