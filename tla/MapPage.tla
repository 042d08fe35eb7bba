-------------------------------- MODULE MapPage --------------------------------
(***************************************************************************)
(* The page /mapa: MapPage.tsx with the four queries it makes of the API,  *)
(* its filters and selections, and the NetworkMap it shows once it has its *)
(* data.  The map is mounted and unmounted as the page turns from loading  *)
(* or failed to ready and back, and with it go the choices made on it.     *)
(*                                                                         *)
(* The API answers a list whose limit is over what pagination accepts with *)
(* a refusal (400), as it does a list the role may not read (403): those   *)
(* are final; a failure of the network may be followed by an answer.       *)
(***************************************************************************)
EXTENDS NetworkMap

CONSTANTS
  SectorOf,    \* [Devices \cup Assets -> Sectors \cup {None}]
  Search,      \* texts that may be searched for, and what each one finds
  Hits,
  Asked,       \* [Queries -> Nat]: the limit each query of the page asks for
  MaxLimit,    \* the largest one paginationQuerySchema accepts
  Forbidden,   \* queries whose permission the user lacks
  Start,       \* rows the system starts with: status and alert of the devices,
               \* and the sectors listed: the first ones, as many as are asked for
  NewAlerts, NewStatuses, NewLists,   \* what may become of them
  UserToggles, UserFilters, \* bounds: toggles and filters the user may come to,
  MaxChanges,  \* changes of the rows,
  Fallible, MaxFailures, \* failures of these queries,
  MaxAsked,    \* times everything is asked for again,
  MaxGestures  \* clicks, choices, filters and moves of the user

Queries == {"sectors", "devices", "assets", "alerts"}
Unset == ""
NoFilter == [search |-> Unset, sector |-> Unset, kind |-> Unset, status |-> Unset, severity |-> Unset]

ASSUME MapPageAssumption ==
  /\ Forbidden \subseteq Queries /\ Fallible \subseteq Queries
  /\ UserToggles \subseteq Toggles
  /\ {MaxLimit, MaxChanges, MaxFailures, MaxAsked, MaxGestures} \subseteq Nat
  /\ Unset \notin Search \cup Sectors

VARIABLES
  rows,      \* the API's: status and alert (also a closed one) of each device,
             \* and the sectors it lists
  query,     \* status of each query, whether it is being asked, whether it has data
  data,      \* the data the page holds: devices by key, alerts
  filter,    \* search, sector, kind, status, severity
  picked,    \* activeDevice, activeSector, activeAsset, activeAlert
  choices,   \* what the NetworkMap holds in its own state
  leaflet,   \* NetworkMap's map and canvas
  spent      \* what of the bounds is used up

page == <<query, data, filter, picked, choices>>
vars == <<rows, page, leaflet, spent>>

AlertRows == Severities \cup {None, "CLOSED"}
Rows == [status : [Devices -> DeviceStatuses], alert : [Devices -> AlertRows],
         sectors : SUBSET Sectors]
QueryState == [status : {"loading", "ok", "error"}, fetching : BOOLEAN, some : BOOLEAN]
Filters == [search : Search \cup {Unset}, sector : Sectors \cup {Unset},
            kind : {Unset, "PRESSURE_SENSOR", "FLOW_METER"},
            status : {Unset, "ALERT"} \cup DeviceStatuses, severity : Severities \cup {Unset}]
Selection == [device : Devices \cup {None}, sector : Sectors \cup {None},
              asset : Assets \cup {None}, alert : Devices \cup {None}]
Data == [sectors : SUBSET Sectors, assets : SUBSET Assets, alerts : [Devices -> AlertRows],
         devices : UNION {[some -> DeviceStatuses] : some \in SUBSET Devices}]
Bounds == {"changes", "failures", "asked", "gestures"}
NothingPicked == [device |-> None, sector |-> None, asset |-> None, alert |-> None]
NoData == [sectors |-> {}, devices |-> <<>>, assets |-> {}, alerts |-> [d \in Devices |-> None]]

ASSUME MapRowsAssumption ==
  /\ SectorOf \in [Devices \cup Assets -> Sectors \cup {None}]
  /\ Start \in Rows /\ NewAlerts \subseteq AlertRows /\ NewStatuses \subseteq DeviceStatuses
  /\ NewLists \subseteq SUBSET Sectors
  /\ UserFilters \subseteq Filters

Spend(bound, most) == spent[bound] < most /\ spent' = [spent EXCEPT ![bound] = @ + 1]

-----------------------------------------------------------------------------
(* What the page makes of its data.                                        *)

isLoading == \E q \in Queries : query[q].status = "loading"
isError == query["sectors"].status = "error" \/ query["devices"].status = "error"
Ready == ~isLoading /\ ~isError

(* activeAlertsByDeviceId: neither resolved nor dismissed.                 *)
ActiveAlert(d) == IF data.alerts[d] \in Severities THEN data.alerts[d] ELSE None

Found(what) == filter.search = Unset \/ what \in Hits[filter.search]
StatusFits(d) ==
  CASE filter.status = "ALERT" -> ActiveAlert(d) # None
    [] filter.status \in DeviceStatuses -> data.devices[d] = filter.status
    [] OTHER -> TRUE
filteredDevices ==
  {d \in DOMAIN data.devices :
      Found(d) /\ StatusFits(d) /\ (filter.severity # Unset => ActiveAlert(d) = filter.severity)}
filteredSectors == {s \in data.sectors : Found(s)}
alertSensorsCount == Cardinality({d \in filteredDevices : ActiveAlert(d) # None})

(* The inputs of the NetworkMap.                                           *)
Inputs ==
  [mounted |-> Ready, basemap |-> choices.basemap, heat |-> choices.heat,
   tuning |-> choices.tuning, layers |-> choices.layers, sectors |-> filteredSectors,
   devices |-> [d \in filteredDevices |-> data.devices[d]], assets |-> data.assets,
   alerts |-> [d \in Devices |-> ActiveAlert(d)], picked |-> picked]

(* The side panel: the first of them that there is.                        *)
Panel == CASE picked.device # None -> "device"
           [] picked.device = None /\ picked.asset # None -> "asset"
           [] picked.device = None /\ picked.asset = None /\ picked.sector # None -> "sector"
           [] OTHER -> IF picked.alert # None THEN "alert" ELSE "none"

-----------------------------------------------------------------------------
(* Queries.                                                                *)

Refused(q) == Asked[q] > MaxLimit \/ q \in Forbidden

(* A query without data goes back to pending whenever it is asked again.   *)
Fetched(s) == [s EXCEPT !.fetching = TRUE, !.status = IF s.some THEN @ ELSE "loading"]

OfSector(x) == filter.sector = Unset \/ SectorOf[x] = filter.sector
OfKind(d) == filter.kind = Unset \/ KindOf[d] = filter.kind
Answer(q) ==
  CASE q = "sectors" -> [data EXCEPT !.sectors = rows.sectors]
    [] q = "devices" ->
         [data EXCEPT !.devices = [d \in {e \in Devices : OfSector(e) /\ OfKind(e)} |-> rows.status[d]]]
    [] q = "assets" -> [data EXCEPT !.assets = {a \in Assets : OfSector(a)}]
    [] q = "alerts" -> [data EXCEPT !.alerts = rows.alert]

Commit == /\ choices' = IF Ready' THEN choices ELSE DefaultChoices
          /\ leaflet' = Committed(Inputs, Inputs', leaflet)

Answered(q) ==
  /\ query[q].fetching /\ ~Refused(q)
  /\ data' = Answer(q)
  /\ query' = [query EXCEPT ![q] = [status |-> "ok", fetching |-> FALSE, some |-> TRUE]]
  /\ UNCHANGED <<rows, filter, picked, spent>>
  /\ Commit

RefusedOrFailed(q) ==
  /\ query[q].fetching
  /\ \/ Refused(q) /\ UNCHANGED spent
     \/ ~Refused(q) /\ q \in Fallible /\ Spend("failures", MaxFailures)
  /\ query' = [query EXCEPT ![q].status = "error", ![q].fetching = FALSE]
  /\ UNCHANGED <<rows, data, filter, picked>>
  /\ Commit

(* refetchInterval of the alerts.                                          *)
Poll ==
  /\ ~query["alerts"].fetching
  /\ query' = [query EXCEPT !["alerts"] = Fetched(@)]
  /\ UNCHANGED <<rows, data, filter, picked, spent>>
  /\ Commit

(* "Atualizar Malha", and onRetry of the error state.                      *)
RefetchAll ==
  /\ \E q \in Queries : ~query[q].fetching
  /\ Spend("asked", MaxAsked)
  /\ query' = [q \in Queries |-> Fetched(query[q])]
  /\ UNCHANGED <<rows, data, filter, picked>>
  /\ Commit

(* Another sector or kind is another key: what the query had last is shown *)
(* in its place (keepPreviousData) until it answers.                       *)
Rekeyed(s) == [s EXCEPT !.fetching = TRUE, !.status = IF s.some THEN "ok" ELSE "loading"]
SetFilter(f) ==
  LET keyed == (IF f.sector # filter.sector THEN {"devices", "assets"} ELSE {})
               \cup (IF f.kind # filter.kind THEN {"devices"} ELSE {})
  IN /\ f # filter
     /\ filter' = f
     /\ query' = [q \in Queries |-> IF q \in keyed THEN Rekeyed(query[q]) ELSE query[q]]
     /\ Spend("gestures", MaxGestures)
     /\ UNCHANGED <<rows, data, picked>>
     /\ Commit

(* A control of the page sets one field; clearAllFilters, all of them.     *)
Filter ==
  \E f \in UserFilters :
    /\ f = NoFilter \/ \E k \in DOMAIN f : f = [filter EXCEPT ![k] = f[k]]
    /\ f.sector \in data.sectors \cup {Unset}
    /\ SetFilter(f)

-----------------------------------------------------------------------------
(* Selections: clicks on what is drawn, and the buttons of the panel.      *)

(* A device or an asset without a sector, or of one that is not on the     *)
(* page's list, leaves the sector selected before.                         *)
SectorKnown(x) == IF SectorOf[x] \in data.sectors THEN SectorOf[x] ELSE picked.sector

(* Mutant: a device without an open alert leaves the alert selected.       *)
handleDeviceSelectKeepingAlert(d) ==
  [device |-> d, asset |-> None, sector |-> SectorKnown(d),
   alert |-> IF ActiveAlert(d) # None THEN d ELSE picked.alert]

(* A marker calls onSelectDevice, and onSelectAlert when its device has an *)
(* open one: handleAlertSelect finds the device again.                     *)
handleDeviceSelect(d) ==
  [device |-> d, asset |-> None, sector |-> SectorKnown(d),
   alert |-> IF ActiveAlert(d) # None THEN d ELSE None]
handleSectorSelect(s) == [picked EXCEPT !.sector = s, !.device = None, !.asset = None]
handleAssetSelect(a) == [picked EXCEPT !.asset = a, !.device = None, !.sector = SectorKnown(a)]

Pick(p) == /\ Spend("gestures", MaxGestures)
           /\ picked' = p
           /\ UNCHANGED <<rows, query, data, filter>>
           /\ Commit

Drawables(layers) == {l.what : l \in layers}
Click ==
  /\ Ready
  /\ \/ \E d \in Drawables(leaflet.drawn.sensors) : Pick(handleDeviceSelect(d))
     \/ \E s \in Drawables(leaflet.drawn.sectors) : Pick(handleSectorSelect(s))
     \/ \E a \in Drawables(leaflet.drawn.pipes \cup leaflet.drawn.valves) : Pick(handleAssetSelect(a))

ClosePanel ==
  /\ Ready
  /\ \/ Panel = "device" /\ Pick([picked EXCEPT !.device = None])
     \/ Panel = "asset" /\ Pick([picked EXCEPT !.asset = None])
     \/ Panel = "sector" /\ Pick([picked EXCEPT !.sector = None])
     \/ Panel = "alert" /\ Pick([picked EXCEPT !.alert = None])

-----------------------------------------------------------------------------
(* What a user chooses on the map.                                         *)

Choose(c) == /\ Ready
             /\ c # choices
             /\ Spend("gestures", MaxGestures)
             /\ choices' = c
             /\ UNCHANGED <<rows, query, data, filter, picked>>
             /\ leaflet' = Committed(Inputs, Inputs', leaflet)
toggleLayer == \E t \in UserToggles :
  Choose([choices EXCEPT !.layers = IF t \in @ THEN @ \ {t} ELSE @ \cup {t}])
toggleHeat == Choose([choices EXCEPT !.heat = ~@])
tuneHeat == choices.heat /\ \E t \in Tunings : Choose([choices EXCEPT !.tuning = t])
setBasemap == \E b \in Basemaps : Choose([choices EXCEPT !.basemap = b])

Look(v) == /\ Ready
           /\ v # leaflet.view
           /\ Spend("gestures", MaxGestures)
           /\ leaflet' = MovedTo(Inputs, leaflet, v)
           /\ UNCHANGED <<rows, page>>
Move == \E v \in Views : Look(v)
handleFitBounds == Look(FitView(leaflet))

-----------------------------------------------------------------------------
(* The rows change behind the page's back; a sector that is new or renamed *)
(* may also drop another one from the first of them.                       *)
Change ==
  /\ Spend("changes", MaxChanges)
  /\ \E d \in Devices :
        \/ \E a \in NewAlerts : a # rows.alert[d] /\ rows' = [rows EXCEPT !.alert[d] = a]
        \/ \E s \in NewStatuses : s # rows.status[d] /\ rows' = [rows EXCEPT !.status[d] = s]
        \/ \E l \in NewLists : l # rows.sectors /\ rows' = [rows EXCEPT !.sectors = l]
  /\ UNCHANGED <<page, leaflet>>

Init ==
  /\ rows = Start
  /\ query = [q \in Queries |-> [status |-> "loading", fetching |-> TRUE, some |-> FALSE]]
  /\ data = NoData
  /\ filter = NoFilter
  /\ picked = NothingPicked
  /\ choices = DefaultChoices
  /\ leaflet = NoMap
  /\ spent = [b \in Bounds |-> 0]

Next ==
  \/ \E q \in Queries : Answered(q) \/ RefusedOrFailed(q)
  \/ Poll \/ RefetchAll \/ Filter
  \/ Click \/ ClosePanel
  \/ toggleLayer \/ toggleHeat \/ tuneHeat \/ setBasemap
  \/ Move \/ handleFitBounds
  \/ Change

(* A request that was sent is answered, refused or given up; the user owes *)
(* nothing.                                                                *)
Fairness == \A q \in Queries : WF_vars(Answered(q) \/ RefusedOrFailed(q))
Spec == Init /\ [][Next]_vars
FairSpec == Spec /\ Fairness
-----------------------------------------------------------------------------
(* The page's state has the types NetworkMap and the queries give it, and  *)
(* the map is there exactly while the page is ready to show it.            *)
MapTypeOK ==
  /\ rows \in Rows
  /\ query \in [Queries -> QueryState] /\ data \in Data
  /\ spent \in [Bounds -> Nat]
  /\ filter \in Filters /\ picked \in Selection /\ choices \in Choices
  /\ (leaflet # NoMap) <=> Ready

(* Two effects put a tile layer on the map, one where it makes the map and *)
(* one where the basemap changes: whatever made them run, the map carries  *)
(* one tile layer, of the basemap that the menu ticks.                     *)
OneTileLayer ==
  Ready => leaflet.tiles = {leaflet.tile} /\ leaflet.tile.basemap = choices.basemap

(* What is drawn on the map is what the page's data, filters, selection    *)
(* and visible layers say now, on whichever map the basemap, a reload or a *)
(* failure left: no marker of an alert that is over, none missing.         *)
LayersAreCurrent == Ready => leaflet.drawn = Drawn(Inputs)

(* The heat on the canvas is that of the devices and open alerts shown     *)
(* now; and, as long as a handler hears this map move, it is where the map *)
(* is: "Listener para redesenhar o heatmap ao mover ou dar zoom no mapa".  *)
HeatmapIsCurrent ==
  LET canvas == leaflet.canvas
  IN Ready => /\ canvas.points = IF choices.heat THEN HeatPoints(Inputs) ELSE {}
              /\ canvas.points # {} => canvas.tuning = choices.tuning
              /\ canvas.points # {} /\ leaflet.listening => canvas.view = leaflet.view

(* Sectors that no change of the rows takes off the list.                  *)
AlwaysListed == {s \in Start.sectors : \A l \in NewLists : s \in l}

(* The selections that the handlers of the page set one by one agree: of a *)
(* device and an asset one at most; an alert selected beside a device is   *)
(* the device's; and so is the sector, if the list never went without it   *)
(* (beside any other device, a sector selected earlier may stay).          *)
SelectionCoherent ==
  /\ picked.device = None \/ picked.asset = None
  /\ picked.device # None =>
       /\ picked.alert \in {None, picked.device}
       /\ SectorOf[picked.device] \in AlwaysListed => picked.sector = SectorOf[picked.device]

(* NetworkMap.tsx:264 "Listener para redesenhar o heatmap ao mover ou dar  *)
(* zoom no mapa": the heat is where the map is after every move.           *)
HeatmapFollowsTheMap ==
  Ready /\ leaflet.canvas.points # {} => leaflet.canvas.view = leaflet.view

(* README.md:25 "Mapa Georreferenciado Interativo (GIS): Tela /mapa": once *)
(* every query of the page has been answered, the page shows the map.      *)
MapShown == <>Ready
=============================================================================
