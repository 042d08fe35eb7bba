------------------------------ MODULE MapPageProofs ------------------------------
(***************************************************************************)
(* Proofs about MapPage and NetworkMap, for every set of devices, sectors, *)
(* assets, basemaps and filters and whatever the bounds: after each commit *)
(* the Leaflet map shows what the page's state says, and the selections    *)
(* agree.                                                                  *)
(***************************************************************************)
EXTENDS MapPage, TLAPS

(* A map that is current for the inputs of a rendering: its tile layer, its *)
(* layers and its canvas are theirs.  The effects of NetworkMap keep it so  *)
(* because each lists every input it uses among its dependencies; where one *)
(* does not (the effect of the heat and the basemap), another has put the   *)
(* map in a state in which nothing stale is promised.                       *)

Shaped(m) ==
  m = [view |-> m.view, tiles |-> m.tiles, tile |-> m.tile, listening |-> m.listening,
       drawn |-> m.drawn, canvas |-> m.canvas]

TilesAreCurrent(in, m) == m.tiles = {m.tile} /\ m.tile.basemap = in.basemap

HeatIsCurrent(in, m) ==
  /\ m.canvas.points = IF in.heat THEN HeatPoints(in) ELSE {}
  /\ m.canvas.points # {} => m.canvas.tuning = in.tuning
  /\ m.canvas.points # {} /\ m.listening => m.canvas.view = m.view

Current(in, m) ==
  /\ Shaped(m)
  /\ in.mounted => /\ TilesAreCurrent(in, m)
                   /\ m.drawn = Drawn(in)
                   /\ HeatIsCurrent(in, m)
  /\ ~in.mounted => m = NoMap

-----------------------------------------------------------------------------
(* Effects that do not run have nothing to do.                             *)

LEMMA SameLayers ==
  ASSUME NEW old, NEW new, ~Changed(old, new, LayerDependencies)
  PROVE  Drawn(old) = Drawn(new)
<1>1. /\ old.sectors = new.sectors /\ old.devices = new.devices /\ old.assets = new.assets
      /\ old.picked = new.picked /\ old.layers = new.layers /\ old.alerts = new.alerts
      /\ old.basemap = new.basemap
  BY DEF Changed, LayerDependencies
<1>2. SectorLayers(old) = SectorLayers(new)
  BY <1>1 DEF SectorLayers
<1>3. \A k, t : AssetLayers(old, k, t) = AssetLayers(new, k, t)
  BY <1>1 DEF AssetLayers
<1>4. \A d : Pulse(old, d) = Pulse(new, d)
  BY <1>1 DEF Pulse
<1>5. SensorLayers(old) = SensorLayers(new)
  BY <1>1, <1>4 DEF SensorLayers
<1> QED BY <1>2, <1>3, <1>5 DEF Drawn

LEMMA SameHeat ==
  ASSUME NEW old, NEW new, ~Changed(old, new, HeatDependencies)
  PROVE  /\ HeatPoints(old) = HeatPoints(new)
         /\ old.heat = new.heat /\ old.tuning = new.tuning /\ old.mounted = new.mounted
<1>1. /\ old.devices = new.devices /\ old.alerts = new.alerts
      /\ old.heat = new.heat /\ old.tuning = new.tuning /\ old.mounted = new.mounted
  BY DEF Changed, HeatDependencies
<1>2. HeatPoints(old) = HeatPoints(new)
  BY <1>1 DEF HeatPoints
<1> QED BY <1>1, <1>2

(* Effects that run bring what is theirs up to date and leave the rest.     *)

LEMMA PaintedIsCurrent ==
  ASSUME NEW in, NEW m, Shaped(m)
  PROVE  /\ Shaped(Painted(in, m))
         /\ HeatIsCurrent(in, Painted(in, m))
         /\ Painted(in, m).tiles = m.tiles /\ Painted(in, m).tile = m.tile
         /\ Painted(in, m).drawn = m.drawn
         /\ Painted(in, m).view = m.view
         /\ Painted(in, m).listening = m.listening
  BY DEF Shaped, Painted, HeatIsCurrent, Blank

LEMMA ListeningShaped ==
  ASSUME NEW m, Shaped(m), NEW v
  PROVE  LET l == [m EXCEPT !.listening = v]
         IN Shaped(l) /\ l.tiles = m.tiles /\ l.tile = m.tile /\ l.drawn = m.drawn
  BY DEF Shaped

LEMMA HeatEffectIsCurrent ==
  ASSUME NEW old, NEW new, NEW m, Shaped(m),
         old.mounted => HeatIsCurrent(old, m), new.mounted
  PROVE  LET h == HeatEffect(old, new, m)
         IN /\ Shaped(h)
            /\ HeatIsCurrent(new, h)
            /\ h.tiles = m.tiles /\ h.tile = m.tile /\ h.drawn = m.drawn
<1>1. CASE Changed(old, new, HeatDependencies)
  <2> DEFINE l == [m EXCEPT !.listening = TRUE]
  <2>1. Shaped(l) /\ l.tiles = m.tiles /\ l.tile = m.tile /\ l.drawn = m.drawn
    BY ListeningShaped
  <2>2. HeatEffect(old, new, m) = Painted(new, l)
    BY <1>1 DEF HeatEffect
  <2> HIDE DEF l
  <2>3. /\ Shaped(Painted(new, l)) /\ HeatIsCurrent(new, Painted(new, l))
        /\ Painted(new, l).tiles = l.tiles /\ Painted(new, l).tile = l.tile
        /\ Painted(new, l).drawn = l.drawn
    BY <2>1, PaintedIsCurrent
  <2> QED BY <2>1, <2>2, <2>3
<1>2. CASE ~Changed(old, new, HeatDependencies)
  <2>1. HeatEffect(old, new, m) = m
    BY <1>2 DEF HeatEffect
  <2>2. HeatIsCurrent(old, m)
    BY <1>2, SameHeat
  <2>3. HeatIsCurrent(new, m)
    BY <1>2, <2>2, SameHeat DEF HeatIsCurrent
  <2> QED BY <2>1, <2>3
<1> QED BY <1>1, <1>2

LEMMA LayersEffectIsCurrent ==
  ASSUME NEW old, NEW new, NEW m, Shaped(m),
         ~Changed(old, new, LayerDependencies) => m.drawn = Drawn(old)
  PROVE  LET l == LayersEffect(old, new, m)
         IN /\ Shaped(l)
            /\ l.drawn = Drawn(new)
            /\ l.tiles = m.tiles /\ l.tile = m.tile
            /\ HeatIsCurrent(new, m) => HeatIsCurrent(new, l)
<1>1. CASE Changed(old, new, LayerDependencies)
  <2> DEFINE l == [m EXCEPT !.drawn = Drawn(new)]
  <2>1. /\ Shaped(l) /\ l.tiles = m.tiles /\ l.tile = m.tile /\ l.drawn = Drawn(new)
        /\ l.canvas = m.canvas /\ l.view = m.view /\ l.listening = m.listening
    BY DEF Shaped
  <2>2. LayersEffect(old, new, m) = l
    BY <1>1 DEF LayersEffect
  <2> HIDE DEF l
  <2> QED BY <2>1, <2>2 DEF HeatIsCurrent
<1>2. CASE ~Changed(old, new, LayerDependencies)
  BY <1>2, SameLayers DEF LayersEffect
<1> QED BY <1>1, <1>2

(* The second effect takes off the tile layer that the first has put on.    *)
LEMMA TileReplaced ==
  ASSUME NEW m, NEW first, NEW second, NEW listening, NEW drawn, NEW canvas, NEW view, NEW t,
         m = [view |-> view, tiles |-> {first}, tile |-> first,
              listening |-> listening, drawn |-> drawn, canvas |-> canvas],
         t = [m EXCEPT !.tiles = (@ \ {m.tile}) \cup {second}, !.tile = second]
  PROVE  t = [view |-> view, tiles |-> {second}, tile |-> second,
              listening |-> listening, drawn |-> drawn, canvas |-> canvas]
<1>1. (m.tiles \ {m.tile}) \cup {second} = {second}
  OBVIOUS
<1>2. t = [m EXCEPT !.tiles = {second}, !.tile = second]
  BY <1>1
<1> QED BY <1>2

(* The effects of a commit, in order.                                      *)
LEMMA CommittedIsCurrent ==
  ASSUME NEW old, NEW new, NEW m, Current(old, m),
         old.mounted \in BOOLEAN, new.mounted \in BOOLEAN
  PROVE  Current(new, Committed(old, new, m))
<1>1. CASE ~new.mounted
  BY <1>1 DEF Current, Committed, Shaped, NoMap
<1>2. CASE new.mounted
  <2> DEFINE t == TileEffect(old, new, MapEffect(old, new, m))
             h == HeatEffect(old, new, t)
             l == LayersEffect(old, new, h)
  <2>1. Committed(old, new, m) = l
    BY <1>2 DEF Committed
  <2>2. /\ Shaped(t) /\ TilesAreCurrent(new, t)
        /\ old.mounted => HeatIsCurrent(old, t)
        /\ ~Changed(old, new, LayerDependencies) => t.drawn = Drawn(old)
    <3>1. CASE Created(old, new)
      <4> DEFINE made == [view |-> Home, tiles |-> {Tile("basemap", new.basemap)},
                          tile |-> Tile("basemap", new.basemap), listening |-> FALSE,
                          drawn |-> NothingDrawn, canvas |-> m.canvas]
      <4>1. MapEffect(old, new, m) =
              [view |-> Home, tiles |-> {Tile("map", new.basemap)},
               tile |-> Tile("map", new.basemap), listening |-> FALSE,
               drawn |-> NothingDrawn, canvas |-> m.canvas]
        BY <3>1 DEF MapEffect, NoMap
      <4>2. t = made
        <5> DEFINE first == Tile("map", new.basemap)
                   second == Tile("basemap", new.basemap)
                   deaf == FALSE
        <5> DEFINE e == MapEffect(old, new, m)
        <5>1. e = [view |-> Home, tiles |-> {first}, tile |-> first, listening |-> deaf,
                   drawn |-> NothingDrawn, canvas |-> m.canvas]
          BY <4>1
        <5>2. t = [e EXCEPT !.tiles = (@ \ {e.tile}) \cup {second}, !.tile = second]
          BY <3>1 DEF TileEffect
        <5> HIDE DEF t, e, made, first, second, deaf
        <5>3. t = [view |-> Home, tiles |-> {second}, tile |-> second, listening |-> deaf,
                   drawn |-> NothingDrawn, canvas |-> m.canvas]
          BY <5>1, <5>2, TileReplaced, Zenon
        <5> QED BY <5>3 DEF made, second, deaf
      <4>3. Shaped(made) /\ TilesAreCurrent(new, made)
        BY DEF Shaped, TilesAreCurrent, Tile
      <4>4. old.mounted => HeatIsCurrent(old, made)
        BY DEF Current, HeatIsCurrent
      <4>5. Changed(old, new, LayerDependencies)
        BY <3>1, <1>2 DEF Created, Changed, LayerDependencies
      <4> QED BY <4>2, <4>3, <4>4, <4>5
    <3>2. CASE ~Created(old, new)
      <4>1. t = m
        BY <3>2 DEF TileEffect, MapEffect
      <4>2. old.mounted /\ old.basemap = new.basemap
        BY <1>2, <3>2 DEF Created, Changed
      <4> QED BY <4>1, <4>2 DEF Current, TilesAreCurrent
    <3> QED BY <3>1, <3>2
  <2> HIDE DEF t
  <2>3. /\ Shaped(h) /\ HeatIsCurrent(new, h)
        /\ h.tiles = t.tiles /\ h.tile = t.tile /\ h.drawn = t.drawn
    BY <1>2, <2>2, HeatEffectIsCurrent
  <2> HIDE DEF h
  <2>4. /\ Shaped(l) /\ l.drawn = Drawn(new) /\ HeatIsCurrent(new, l)
        /\ l.tiles = h.tiles /\ l.tile = h.tile
    BY <2>2, <2>3, LayersEffectIsCurrent
  <2> HIDE DEF l
  <2> QED BY <1>2, <2>1, <2>2, <2>3, <2>4 DEF Current, TilesAreCurrent
<1> QED BY <1>1, <1>2

(* A move of a map that is listened to paints its canvas anew.              *)
LEMMA MovedIsCurrent ==
  ASSUME NEW in, NEW m, NEW v, Current(in, m), in.mounted = TRUE
  PROVE  Current(in, MovedTo(in, m, v))
<1> DEFINE n == [m EXCEPT !.view = v]
<1>1. /\ Shaped(n) /\ n.tiles = m.tiles /\ n.tile = m.tile /\ n.drawn = m.drawn
      /\ n.canvas = m.canvas /\ n.listening = m.listening
  BY DEF Current, Shaped
<1>2. MovedTo(in, m, v) = IF m.listening THEN Painted(in, n) ELSE n
  BY DEF MovedTo
<1> HIDE DEF n
<1>3. CASE m.listening
  <2>1. /\ Shaped(Painted(in, n)) /\ HeatIsCurrent(in, Painted(in, n))
        /\ Painted(in, n).tiles = n.tiles /\ Painted(in, n).tile = n.tile
        /\ Painted(in, n).drawn = n.drawn
    BY <1>1, PaintedIsCurrent
  <2> QED BY <1>1, <1>2, <1>3, <2>1 DEF Current, TilesAreCurrent
<1>4. CASE ~m.listening
  BY <1>1, <1>2, <1>4 DEF Current, TilesAreCurrent, HeatIsCurrent
<1> QED BY <1>3, <1>4

-----------------------------------------------------------------------------
(* The inductive invariant: besides the currency of the map, that a query  *)
(* with an answer has data, so that a page that is ready knows the sectors *)
(* the API always lists (a selected device of one of them finds its own).  *)

AnsweredQueriesHaveData ==
  /\ \A q \in Queries : query[q].status = "ok" => query[q].some
  /\ AlwaysListed \subseteq rows.sectors
  /\ query["sectors"].some => AlwaysListed \subseteq data.sectors

StateTyped ==
  /\ rows \in Rows
  /\ query \in [Queries -> QueryState] /\ data \in Data
  /\ spent \in [Bounds -> Nat]
  /\ filter \in Filters /\ picked \in Selection /\ choices \in Choices

MapInv ==
  /\ StateTyped
  /\ AnsweredQueriesHaveData
  /\ SelectionCoherent
  /\ Current(Inputs, leaflet)

LEMMA InputsShape ==
  /\ Inputs.mounted \in BOOLEAN
  /\ Inputs.mounted <=> Ready
  /\ Inputs.basemap = choices.basemap /\ Inputs.heat = choices.heat
  /\ Inputs.tuning = choices.tuning
  /\ Inputs.sectors = filteredSectors /\ Inputs.assets = data.assets
  /\ DOMAIN Inputs.devices = filteredDevices
<1>1. Ready \in BOOLEAN
  BY DEF Ready, isLoading, isError
<1> HIDE DEF Ready
<1> QED BY <1>1 DEF Inputs

LEMMA ReadyHasSectors ==
  ASSUME StateTyped, AnsweredQueriesHaveData, Ready
  PROVE  AlwaysListed \subseteq data.sectors
<1>1. query["sectors"] \in QueryState /\ "sectors" \in Queries
  BY DEF StateTyped, Queries
<1>2. query["sectors"].status = "ok"
  BY <1>1 DEF Ready, isLoading, isError, QueryState
<1> QED BY <1>1, <1>2 DEF AnsweredQueriesHaveData

LEMMA InitMapInv == Init => MapInv
<1> SUFFICES ASSUME Init PROVE MapInv
  OBVIOUS
<1>1. ~Ready
  BY DEF Init, Ready, isLoading, Queries
<1>2. Current(Inputs, leaflet)
  BY <1>1, InputsShape DEF Init, Current, Shaped, NoMap
<1>3. NoData \in Data
  <2>1. <<>> \in [{} -> DeviceStatuses]
    OBVIOUS
  <2>2. [d \in Devices |-> None] \in [Devices -> AlertRows]
    BY DEF AlertRows
  <2> QED BY <2>1, <2>2 DEF NoData, Data
<1>4. NoFilter \in Filters /\ NothingPicked \in Selection /\ DefaultChoices \in Choices
  BY NetworkMapAssumption DEF NoFilter, Filters, NothingPicked, Selection, DefaultChoices, Choices
<1>5. StateTyped
  BY <1>3, <1>4, MapRowsAssumption DEF Init, StateTyped, QueryState
<1>6. AnsweredQueriesHaveData /\ SelectionCoherent
  BY DEF Init, AnsweredQueriesHaveData, SelectionCoherent, NothingPicked, Queries, AlwaysListed
<1> QED BY <1>2, <1>5, <1>6 DEF MapInv

(* A commit of the page, from the rendering before to the rendering after.  *)
LEMMA CommitIsCurrent ==
  ASSUME Current(Inputs, leaflet), leaflet' = Committed(Inputs, Inputs', leaflet)
  PROVE  Current(Inputs, leaflet)'
<1> DEFINE old == Inputs
           new == Inputs'
<1>1. old.mounted \in BOOLEAN
  BY InputsShape
<1>2. new.mounted \in BOOLEAN
  <2>1. Ready' \in BOOLEAN
    BY DEF Ready, isLoading, isError
  <2> HIDE DEF Ready
  <2> QED BY <2>1 DEF Inputs
<1>3. Current(old, leaflet) /\ leaflet' = Committed(old, new, leaflet)
  OBVIOUS
<1> HIDE DEF old, new
<1>4. Current(new, leaflet')
  BY <1>1, <1>2, <1>3, CommittedIsCurrent
<1> QED BY <1>4 DEF new

LEMMA CommitKeeps ==
  ASSUME MapInv, Commit
  PROVE  Current(Inputs, leaflet)' /\ choices' \in Choices
<1>1. DefaultChoices \in Choices
  BY NetworkMapAssumption DEF DefaultChoices, Choices
<1> QED BY <1>1, CommitIsCurrent DEF MapInv, Commit, StateTyped

LEMMA SpendTyped ==
  ASSUME StateTyped, NEW bound \in Bounds, NEW most, Spend(bound, most)
  PROVE  spent' \in [Bounds -> Nat]
  BY DEF StateTyped, Spend

-----------------------------------------------------------------------------
(* Queries.                                                                *)

LEMMA AnswerTyped ==
  ASSUME StateTyped, NEW q \in Queries
  PROVE  /\ Answer(q) \in Data
         /\ Answer(q).sectors = IF q = "sectors" THEN rows.sectors ELSE data.sectors
<1>1. data \in Data /\ rows.status \in [Devices -> DeviceStatuses]
      /\ rows.alert \in [Devices -> AlertRows] /\ rows.sectors \subseteq Sectors
  BY DEF StateTyped, Rows
<1>2. CASE q = "sectors"
  BY <1>1, <1>2 DEF Answer, Data
<1>3. CASE q = "devices"
  <2> DEFINE some == {e \in Devices : OfSector(e) /\ OfKind(e)}
             fetched == [d \in some |-> rows.status[d]]
  <2>1. fetched \in [some -> DeviceStatuses] /\ some \in SUBSET Devices
    BY <1>1
  <2>2. Answer(q) = [data EXCEPT !.devices = fetched]
    BY <1>3 DEF Answer
  <2> HIDE DEF some, fetched
  <2>3. fetched \in UNION {[x -> DeviceStatuses] : x \in SUBSET Devices}
    BY <2>1
  <2> QED BY <1>1, <1>3, <2>2, <2>3 DEF Data
<1>4. CASE q = "assets"
  <2> DEFINE some == {a \in Assets : OfSector(a)}
  <2>1. some \subseteq Assets
    OBVIOUS
  <2>2. Answer(q) = [data EXCEPT !.assets = some]
    BY <1>4 DEF Answer
  <2> HIDE DEF some
  <2> QED BY <1>1, <1>4, <2>1, <2>2 DEF Data
<1>5. CASE q = "alerts"
  BY <1>1, <1>5 DEF Answer, Data
<1> QED BY <1>2, <1>3, <1>4, <1>5 DEF Queries

LEMMA AnsweredKeeps ==
  ASSUME MapInv, NEW q \in Queries, Answered(q)
  PROVE  MapInv'
<1>1. /\ data' = Answer(q)
      /\ query' = [query EXCEPT ![q] = [status |-> "ok", fetching |-> FALSE, some |-> TRUE]]
      /\ UNCHANGED <<rows, filter, picked, spent>>
      /\ Commit
  BY DEF Answered
<1> DEFINE new == [status |-> "ok", fetching |-> FALSE, some |-> TRUE]
<1>2. new \in QueryState /\ new.status = "ok" /\ new.some
  BY DEF QueryState
<1>3. query' = [query EXCEPT ![q] = new]
  BY <1>1
<1> HIDE DEF new
<1>4. /\ query' \in [Queries -> QueryState]
      /\ query'[q] = new
      /\ \A p \in Queries : p # q => query'[p] = query[p]
  BY <1>2, <1>3 DEF MapInv, StateTyped
<1>5. /\ data' \in Data
      /\ data'.sectors = IF q = "sectors" THEN rows.sectors ELSE data.sectors
  BY <1>1, AnswerTyped DEF MapInv
<1>6. StateTyped'
  BY <1>1, <1>4, <1>5, CommitKeeps DEF MapInv, StateTyped
<1>7. AnsweredQueriesHaveData'
  BY <1>1, <1>2, <1>4, <1>5 DEF MapInv, AnsweredQueriesHaveData, Queries
<1>8. SelectionCoherent'
  BY <1>1 DEF MapInv, SelectionCoherent
<1> QED BY <1>1, <1>6, <1>7, <1>8, CommitKeeps DEF MapInv

(* A change of the queries alone: what has data keeps it, and what is      *)
(* answered has it.                                                        *)
LEMMA QueriesKeep ==
  ASSUME MapInv,
         query' \in [Queries -> QueryState],
         \A q \in Queries : /\ query'[q].some = query[q].some
                            /\ query'[q].status = "ok" => query[q].some
                                                         \/ query[q].status = "ok",
         filter' \in Filters, spent' \in [Bounds -> Nat],
         UNCHANGED <<rows, data, picked>>, Commit
  PROVE  MapInv'
<1>1. StateTyped'
  BY CommitKeeps DEF MapInv, StateTyped
<1>2. AnsweredQueriesHaveData'
  BY DEF MapInv, AnsweredQueriesHaveData, Queries
<1>3. SelectionCoherent'
  BY DEF MapInv, SelectionCoherent
<1> QED BY <1>1, <1>2, <1>3, CommitKeeps DEF MapInv

LEMMA FetchedTyped ==
  ASSUME NEW s \in QueryState
  PROVE  /\ Fetched(s) \in QueryState /\ Fetched(s).some = s.some
         /\ Fetched(s).status = "ok" => s.some
         /\ Rekeyed(s) \in QueryState /\ Rekeyed(s).some = s.some
         /\ Rekeyed(s).status = "ok" => s.some
  BY DEF Fetched, Rekeyed, QueryState

LEMMA RefusedOrFailedKeeps ==
  ASSUME MapInv, NEW q \in Queries, RefusedOrFailed(q)
  PROVE  MapInv'
<1>1. /\ query' = [query EXCEPT ![q].status = "error", ![q].fetching = FALSE]
      /\ UNCHANGED <<rows, data, filter, picked>>
      /\ Commit
  BY DEF RefusedOrFailed
<1>2. spent' \in [Bounds -> Nat]
  BY SpendTyped DEF RefusedOrFailed, MapInv, StateTyped, Bounds
<1> DEFINE new == [query[q] EXCEPT !.status = "error", !.fetching = FALSE]
<1>3. query[q] \in QueryState
  BY DEF MapInv, StateTyped
<1>4. new \in QueryState /\ new.some = query[q].some /\ new.status = "error"
  BY <1>3 DEF QueryState
<1>5. query' = [query EXCEPT ![q] = new]
  BY <1>1 DEF MapInv, StateTyped
<1> HIDE DEF new
<1>6. /\ query' \in [Queries -> QueryState]
      /\ query'[q] = new
      /\ \A p \in Queries : p # q => query'[p] = query[p]
  BY <1>4, <1>5 DEF MapInv, StateTyped
<1>7. filter' \in Filters
  BY <1>1 DEF MapInv, StateTyped
<1> QED BY <1>1, <1>2, <1>4, <1>6, <1>7, QueriesKeep

LEMMA AskingKeeps ==
  ASSUME MapInv, Poll \/ RefetchAll
  PROVE  MapInv'
<1>1. \A q \in Queries : query[q] \in QueryState
  BY DEF MapInv, StateTyped
<1>2. filter' \in Filters /\ UNCHANGED <<rows, data, picked>> /\ Commit
  BY DEF Poll, RefetchAll, MapInv, StateTyped
<1>3. spent' \in [Bounds -> Nat]
  BY SpendTyped DEF Poll, RefetchAll, MapInv, StateTyped, Bounds
<1>4. /\ query' \in [Queries -> QueryState]
      /\ \A q \in Queries : query'[q] \in {query[q], Fetched(query[q])}
  BY <1>1, FetchedTyped DEF Poll, RefetchAll, MapInv, StateTyped, Queries
<1>5. \A q \in Queries : /\ query'[q].some = query[q].some
                         /\ query'[q].status = "ok" => query[q].some \/ query[q].status = "ok"
  BY <1>1, <1>4, FetchedTyped
<1> QED BY <1>2, <1>3, <1>4, <1>5, QueriesKeep

LEMMA FilterKeeps ==
  ASSUME MapInv, Filter
  PROVE  MapInv'
<1>1. PICK f \in UserFilters : SetFilter(f)
  BY DEF Filter
<1> DEFINE keyed == (IF f.sector # filter.sector THEN {"devices", "assets"} ELSE {})
                    \cup (IF f.kind # filter.kind THEN {"devices"} ELSE {})
<1>2. /\ filter' = f
      /\ query' = [q \in Queries |-> IF q \in keyed THEN Rekeyed(query[q]) ELSE query[q]]
      /\ Spend("gestures", MaxGestures)
      /\ UNCHANGED <<rows, data, picked>>
      /\ Commit
  BY <1>1 DEF SetFilter
<1> HIDE DEF keyed
<1>3. \A q \in Queries : query[q] \in QueryState
  BY DEF MapInv, StateTyped
<1>4. /\ query' \in [Queries -> QueryState]
      /\ \A q \in Queries : query'[q] \in {query[q], Rekeyed(query[q])}
  BY <1>2, <1>3, FetchedTyped
<1>5. \A q \in Queries : /\ query'[q].some = query[q].some
                         /\ query'[q].status = "ok" => query[q].some \/ query[q].status = "ok"
  BY <1>3, <1>4, FetchedTyped
<1>6. spent' \in [Bounds -> Nat]
  BY <1>2, SpendTyped DEF MapInv, Bounds
<1>7. filter' \in Filters
  BY <1>2, MapRowsAssumption
<1> QED BY <1>2, <1>4, <1>5, <1>6, <1>7, QueriesKeep

-----------------------------------------------------------------------------
(* Selections.                                                             *)

LEMMA SectorKnownTyped ==
  ASSUME MapInv, Ready, NEW x \in Devices \cup Assets
  PROVE  /\ SectorKnown(x) \in Sectors \cup {None}
         /\ SectorOf[x] \in AlwaysListed => SectorKnown(x) = SectorOf[x]
<1>1. data.sectors \subseteq Sectors /\ picked.sector \in Sectors \cup {None}
  BY DEF MapInv, StateTyped, Data, Selection
<1>2. AlwaysListed \subseteq data.sectors
  BY ReadyHasSectors DEF MapInv
<1> QED BY <1>1, <1>2 DEF SectorKnown

LEMMA PickKeeps ==
  ASSUME MapInv, NEW p \in Selection, Pick(p),
         p.device = None \/ p.asset = None,
         p.device # None =>
           /\ p.alert \in {None, p.device}
           /\ SectorOf[p.device] \in AlwaysListed => p.sector = SectorOf[p.device]
  PROVE  MapInv'
<1>1. /\ picked' = p /\ UNCHANGED <<rows, query, data, filter>> /\ Commit
      /\ Spend("gestures", MaxGestures)
  BY DEF Pick
<1>2. StateTyped'
  BY <1>1, CommitKeeps, SpendTyped DEF MapInv, StateTyped, Bounds
<1>3. AnsweredQueriesHaveData'
  BY <1>1 DEF MapInv, AnsweredQueriesHaveData
<1>4. SelectionCoherent'
  BY <1>1 DEF SelectionCoherent
<1> QED BY <1>1, <1>2, <1>3, <1>4, CommitKeeps DEF MapInv

LEMMA DrawnThings ==
  ASSUME MapInv, Ready
  PROVE  /\ Drawables(leaflet.drawn.sensors) \subseteq Devices
         /\ Drawables(leaflet.drawn.sectors) \subseteq Sectors
         /\ Drawables(leaflet.drawn.pipes \cup leaflet.drawn.valves) \subseteq Assets
<1>1. leaflet.drawn = Drawn(Inputs)
  BY InputsShape DEF MapInv, Current
<1>2. /\ DOMAIN Inputs.devices \subseteq Devices
      /\ Inputs.sectors \subseteq Sectors
      /\ Inputs.assets \subseteq Assets
  <2>1. data \in Data
    BY DEF MapInv, StateTyped
  <2>2. DOMAIN data.devices \subseteq Devices /\ data.sectors \subseteq Sectors
        /\ data.assets \subseteq Assets
    BY <2>1 DEF Data
  <2> QED BY <2>2, InputsShape DEF filteredDevices, filteredSectors
<1> DEFINE in == Inputs
<1>3. leaflet.drawn = Drawn(in) /\ DOMAIN in.devices \subseteq Devices
      /\ in.sectors \subseteq Sectors /\ in.assets \subseteq Assets
  BY <1>1, <1>2
<1> HIDE DEF in
<1>4. Drawables(leaflet.drawn.sensors) \subseteq Devices
  BY <1>3 DEF Drawn, Drawables, SensorLayers
<1>5. Drawables(leaflet.drawn.sectors) \subseteq Sectors
  BY <1>3 DEF Drawn, Drawables, SectorLayers
<1>6. Drawables(leaflet.drawn.pipes \cup leaflet.drawn.valves) \subseteq Assets
  BY <1>3 DEF Drawn, Drawables, AssetLayers
<1> QED BY <1>4, <1>5, <1>6

LEMMA ClickKeeps ==
  ASSUME MapInv, Click
  PROVE  MapInv'
<1>1. Ready /\ picked \in Selection /\ SelectionCoherent
  BY DEF Click, MapInv, StateTyped
<1>2. CASE \E d \in Drawables(leaflet.drawn.sensors) : Pick(handleDeviceSelect(d))
  <2>1. PICK d \in Devices : Pick(handleDeviceSelect(d))
    BY <1>1, <1>2, DrawnThings
  <2> DEFINE p == handleDeviceSelect(d)
  <2>2. /\ SectorKnown(d) \in Sectors \cup {None}
        /\ SectorOf[d] \in AlwaysListed => SectorKnown(d) = SectorOf[d]
    BY <1>1, SectorKnownTyped
  <2>3. /\ p \in Selection
        /\ p.device = d /\ p.asset = None /\ p.alert \in {None, d}
        /\ SectorOf[d] \in AlwaysListed => p.sector = SectorOf[d]
    BY <2>2 DEF handleDeviceSelect, Selection
  <2> HIDE DEF p
  <2> QED BY <2>1, <2>3, PickKeeps DEF p
<1>3. CASE \E s \in Drawables(leaflet.drawn.sectors) : Pick(handleSectorSelect(s))
  <2>1. PICK s \in Sectors : Pick(handleSectorSelect(s))
    BY <1>1, <1>3, DrawnThings
  <2> DEFINE p == handleSectorSelect(s)
  <2>2. p \in Selection /\ p.device = None
    BY <1>1 DEF handleSectorSelect, Selection
  <2> HIDE DEF p
  <2> QED BY <2>1, <2>2, PickKeeps DEF p
<1>4. CASE \E a \in Drawables(leaflet.drawn.pipes \cup leaflet.drawn.valves) :
             Pick(handleAssetSelect(a))
  <2>1. PICK a \in Assets : Pick(handleAssetSelect(a))
    BY <1>1, <1>4, DrawnThings
  <2> DEFINE p == handleAssetSelect(a)
  <2>2. SectorKnown(a) \in Sectors \cup {None}
    BY <1>1, SectorKnownTyped
  <2>3. p \in Selection /\ p.device = None
    BY <1>1, <2>2 DEF handleAssetSelect, Selection
  <2> HIDE DEF p
  <2> QED BY <2>1, <2>3, PickKeeps DEF p
<1> QED BY <1>2, <1>3, <1>4 DEF Click

(* What a panel that closes lets go of was not beside a device.            *)
LEMMA ClosePanelKeeps ==
  ASSUME MapInv, ClosePanel
  PROVE  MapInv'
<1>1. picked \in Selection /\ SelectionCoherent
  BY DEF MapInv, StateTyped
<1>2. CASE Pick([picked EXCEPT !.device = None])
  <2> DEFINE p == [picked EXCEPT !.device = None]
  <2>1. p \in Selection /\ p.device = None
    BY <1>1 DEF Selection
  <2> HIDE DEF p
  <2> QED BY <1>2, <2>1, PickKeeps DEF p
<1>3. ASSUME picked.device = None,
             NEW p \in {[picked EXCEPT !.asset = None], [picked EXCEPT !.sector = None],
                        [picked EXCEPT !.alert = None]},
             Pick(p)
      PROVE  MapInv'
  <2>1. p \in Selection /\ p.device = None
    BY <1>1, <1>3 DEF Selection
  <2> QED BY <1>3, <2>1, PickKeeps
<1>4. /\ Panel = "asset" => picked.device = None
      /\ Panel = "sector" => picked.device = None
      /\ Panel = "alert" => picked.device = None
  BY DEF Panel
<1> QED BY <1>2, <1>3, <1>4 DEF ClosePanel

-----------------------------------------------------------------------------
(* Choices and moves on the map; rows that change.                         *)

LEMMA ChooseKeeps ==
  ASSUME MapInv, NEW c \in Choices, Choose(c)
  PROVE  MapInv'
<1>1. /\ choices' = c /\ UNCHANGED <<rows, query, data, filter, picked>>
      /\ leaflet' = Committed(Inputs, Inputs', leaflet)
      /\ Spend("gestures", MaxGestures)
  BY DEF Choose
<1>2. StateTyped'
  BY <1>1, SpendTyped DEF MapInv, StateTyped, Bounds
<1>3. AnsweredQueriesHaveData' /\ SelectionCoherent'
  BY <1>1 DEF MapInv, AnsweredQueriesHaveData, SelectionCoherent
<1> QED BY <1>1, <1>2, <1>3, CommitIsCurrent DEF MapInv

LEMMA ChoosingKeeps ==
  ASSUME MapInv, toggleLayer \/ toggleHeat \/ tuneHeat \/ setBasemap
  PROVE  MapInv'
<1>1. choices \in Choices
  BY DEF MapInv, StateTyped
<1>2. CASE toggleLayer
  <2>1. PICK t \in UserToggles :
          Choose([choices EXCEPT !.layers = IF t \in @ THEN @ \ {t} ELSE @ \cup {t}])
    BY <1>2 DEF toggleLayer
  <2> DEFINE c == [choices EXCEPT !.layers = IF t \in @ THEN @ \ {t} ELSE @ \cup {t}]
  <2>2. t \in Toggles
    BY MapPageAssumption
  <2>3. c \in Choices
    BY <1>1, <2>2 DEF Choices
  <2> HIDE DEF c
  <2> QED BY <2>1, <2>3, ChooseKeeps DEF c
<1>3. CASE toggleHeat
  <2> DEFINE c == [choices EXCEPT !.heat = ~@]
  <2>1. c \in Choices
    BY <1>1 DEF Choices
  <2> HIDE DEF c
  <2> QED BY <1>3, <2>1, ChooseKeeps DEF toggleHeat, c
<1>4. CASE tuneHeat
  <2>1. PICK t \in Tunings : Choose([choices EXCEPT !.tuning = t])
    BY <1>4 DEF tuneHeat
  <2>2. [choices EXCEPT !.tuning = t] \in Choices
    BY <1>1 DEF Choices
  <2> QED BY <2>1, <2>2, ChooseKeeps
<1>5. CASE setBasemap
  <2>1. PICK b \in Basemaps : Choose([choices EXCEPT !.basemap = b])
    BY <1>5 DEF setBasemap
  <2>2. [choices EXCEPT !.basemap = b] \in Choices
    BY <1>1 DEF Choices
  <2> QED BY <2>1, <2>2, ChooseKeeps
<1> QED BY <1>2, <1>3, <1>4, <1>5

LEMMA LookKeeps ==
  ASSUME MapInv, NEW v, Look(v)
  PROVE  MapInv'
<1>1. /\ Ready /\ leaflet' = MovedTo(Inputs, leaflet, v)
      /\ Spend("gestures", MaxGestures)
      /\ UNCHANGED <<rows, query, data, filter, picked, choices>>
  BY DEF Look, page
<1>2. StateTyped'
  BY <1>1, SpendTyped DEF MapInv, StateTyped, Bounds
<1>3. AnsweredQueriesHaveData' /\ SelectionCoherent'
  BY <1>1 DEF MapInv, AnsweredQueriesHaveData, SelectionCoherent
<1> DEFINE in == Inputs
<1>4. in.mounted = TRUE /\ Current(in, leaflet)
  BY <1>1, InputsShape DEF MapInv
<1>5. Inputs' = in
  BY <1>1 DEF Inputs, Ready, isLoading, isError, filteredSectors, filteredDevices, Found,
              StatusFits, ActiveAlert
<1>6. leaflet' = MovedTo(in, leaflet, v)
  BY <1>1
<1> HIDE DEF in
<1>7. Current(in, leaflet')
  BY <1>4, <1>6, MovedIsCurrent
<1> QED BY <1>2, <1>3, <1>5, <1>7 DEF MapInv

(* Nothing of a rendering is read from the rows themselves.                *)
LEMMA ChangeKeeps ==
  ASSUME MapInv, Change \/ UNCHANGED vars
  PROVE  MapInv'
<1>1. UNCHANGED <<query, data, filter, picked, choices, leaflet>>
  BY DEF Change, page, vars
<1>2. rows' \in Rows
  <2>1. rows \in Rows
    BY DEF MapInv, StateTyped
  <2>2. CASE \E d \in Devices, a \in AlertRows : rows' = [rows EXCEPT !.alert[d] = a]
    BY <2>1, <2>2 DEF Rows
  <2>3. CASE \E d \in Devices, s \in DeviceStatuses : rows' = [rows EXCEPT !.status[d] = s]
    BY <2>1, <2>3 DEF Rows
  <2>4. CASE \E l \in NewLists : rows' = [rows EXCEPT !.sectors = l]
    BY <2>1, <2>4, MapRowsAssumption DEF Rows
  <2>5. CASE rows' = rows
    BY <2>1, <2>5
  <2> QED BY <2>2, <2>3, <2>4, <2>5, MapRowsAssumption DEF Change, vars
<1>3. spent' \in [Bounds -> Nat]
  BY SpendTyped DEF MapInv, StateTyped, Change, vars, Bounds
<1>4. AlwaysListed \subseteq rows'.sectors
  <2>1. rows \in Rows /\ AlwaysListed \subseteq rows.sectors
    BY DEF MapInv, StateTyped, AnsweredQueriesHaveData
  <2>2. CASE rows'.sectors = rows.sectors
    BY <2>1, <2>2
  <2>3. CASE \E l \in NewLists : rows' = [rows EXCEPT !.sectors = l]
    BY <2>1, <2>3 DEF Rows, AlwaysListed
  <2> QED BY <2>1, <2>2, <2>3 DEF Change, vars, Rows
<1>5. StateTyped' /\ AnsweredQueriesHaveData' /\ SelectionCoherent'
  BY <1>1, <1>2, <1>3, <1>4 DEF MapInv, StateTyped, AnsweredQueriesHaveData, SelectionCoherent
<1>6. Inputs' = Inputs
  BY <1>1 DEF Inputs, Ready, isLoading, isError, filteredSectors, filteredDevices, Found,
              StatusFits, ActiveAlert
<1> QED BY <1>1, <1>5, <1>6 DEF MapInv

-----------------------------------------------------------------------------
LEMMA NextKeepsMapInv ==
  ASSUME MapInv, [Next]_vars
  PROVE  MapInv'
<1>1. CASE \E q \in Queries : Answered(q) \/ RefusedOrFailed(q)
  BY <1>1, AnsweredKeeps, RefusedOrFailedKeeps
<1>2. CASE Poll \/ RefetchAll
  BY <1>2, AskingKeeps
<1>3. CASE Filter
  BY <1>3, FilterKeeps
<1>4. CASE Click
  BY <1>4, ClickKeeps
<1>5. CASE ClosePanel
  BY <1>5, ClosePanelKeeps
<1>6. CASE toggleLayer \/ toggleHeat \/ tuneHeat \/ setBasemap
  BY <1>6, ChoosingKeeps
<1>7. CASE Move \/ handleFitBounds
  BY <1>7, LookKeeps DEF Move, handleFitBounds
<1>8. CASE Change \/ UNCHANGED vars
  BY <1>8, ChangeKeeps
<1> QED BY <1>1, <1>2, <1>3, <1>4, <1>5, <1>6, <1>7, <1>8 DEF Next

(* The inductive invariant: at every commit the map shows the rendering.   *)
THEOREM MapInvariant == Spec => []MapInv
<1>1. Init => MapInv
  BY InitMapInv
<1>2. MapInv /\ [Next]_vars => MapInv'
  BY NextKeepsMapInv
<1> QED BY <1>1, <1>2, PTL DEF Spec

(* The state of MapPage has the types its queries and handlers give it, and *)
(* the Leaflet map is there exactly while the page is ready to show it.     *)
THEOREM MapTypes == Spec => []MapTypeOK
<1>1. MapInv => MapTypeOK
  <2> SUFFICES ASSUME MapInv PROVE MapTypeOK
    OBVIOUS
  <2>1. StateTyped
    BY DEF MapInv
  <2>2. CASE Ready
    <3>1. leaflet.tiles = {leaflet.tile}
      BY <2>2, InputsShape DEF MapInv, Current, TilesAreCurrent
    <3>2. NoMap.tiles = {}
      BY DEF NoMap
    <3>3. leaflet # NoMap
      BY <3>1, <3>2
    <3> QED BY <2>1, <2>2, <3>3 DEF MapTypeOK, StateTyped
  <2>3. CASE ~Ready
    <3>1. leaflet = NoMap
      BY <2>3, InputsShape DEF MapInv, Current
    <3>2. (leaflet # NoMap) <=> Ready
      BY <2>3, <3>1
    <3> HIDE DEF Ready
    <3> QED BY <2>1, <3>2 DEF MapTypeOK, StateTyped
  <2> QED BY <2>2, <2>3
<1> QED BY <1>1, MapInvariant, PTL

(* NetworkMap's two effects that add a tile layer leave one on the map, of  *)
(* the basemap chosen.                                                      *)
THEOREM MapOneTileLayer == Spec => []OneTileLayer
<1>1. MapInv => OneTileLayer
  BY InputsShape DEF MapInv, Current, TilesAreCurrent, OneTileLayer
<1> QED BY <1>1, MapInvariant, PTL

(* NetworkMap's layers effect lists every input it draws from: what is      *)
(* drawn is what the page's state says, after every commit.                 *)
THEOREM MapLayersAreCurrent == Spec => []LayersAreCurrent
<1>1. MapInv => LayersAreCurrent
  BY InputsShape DEF MapInv, Current, LayersAreCurrent
<1> QED BY <1>1, MapInvariant, PTL

(* NetworkMap's canvas shows the heat of the devices and alerts shown now,  *)
(* and is where the map is while its moves are listened to.                 *)
THEOREM MapHeatmapIsCurrent == Spec => []HeatmapIsCurrent
<1>1. MapInv => HeatmapIsCurrent
  BY InputsShape DEF MapInv, Current, HeatIsCurrent, HeatmapIsCurrent
<1> QED BY <1>1, MapInvariant, PTL

(* MapPage's handlers of selections never leave a device beside an asset or *)
(* another device's alert; nor beside another sector than its own, if the   *)
(* API never listed its sectors without it.                                 *)
THEOREM MapSelectionCoherent == Spec => []SelectionCoherent
<1>1. MapInv => SelectionCoherent
  BY DEF MapInv
<1> QED BY <1>1, MapInvariant, PTL
=============================================================================
