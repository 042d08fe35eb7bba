------------------------------ MODULE NetworkMap ------------------------------
(***************************************************************************)
(* NetworkMap.tsx: a React component around a Leaflet map.  The component  *)
(* is rendered from inputs (its props and its own choices); what is on the *)
(* screen is a Leaflet map, the layers put on it and a canvas, which four  *)
(* effects bring after the inputs.  An effect runs again only when one of  *)
(* the dependencies it lists has changed, in the order of declaration, and *)
(* all of them within the commit of a rendering.                           *)
(***************************************************************************)
EXTENDS Integers, FiniteSets

CONSTANTS
  Devices, Sectors, Assets,
  KindOf,           \* [Devices \cup Assets -> kind]
  Located,          \* devices whose location can be drawn
  Basemaps, DefaultBasemap,
  Tunings, DefaultTuning, \* intensity and radius of the heat
  Home, Elsewhere,  \* the view a map starts with, and another
  None

ASSUME NetworkMapAssumption ==
  /\ DefaultBasemap \in Basemaps /\ DefaultTuning \in Tunings
  /\ Located \subseteq Devices
  /\ Home # Elsewhere
  /\ None \notin Devices \cup Sectors \cup Assets \cup Basemaps

Severities == {"LOW", "MEDIUM", "HIGH", "CRITICAL"}
DeviceStatuses == {"ACTIVE", "INACTIVE"}
Toggles == {"sectors", "pipes", "valves", "pressureSensors", "flowMeters", "activeAlerts"}
Views == {Home, Elsewhere}

-----------------------------------------------------------------------------
(* Inputs of a rendering: mounted, basemap, heat, tuning, layers, the rows *)
(* of sectors, devices (with their status) and assets, the open alert of   *)
(* each device, and what is selected.                                      *)

Choices == [basemap : Basemaps, heat : BOOLEAN, tuning : Tunings, layers : SUBSET Toggles]
DefaultChoices == [basemap |-> DefaultBasemap, heat |-> FALSE, tuning |-> DefaultTuning,
                   layers |-> Toggles]

(* The weight of a device in the heat, in hundredths.                      *)
Weight(status, alert) ==
  CASE alert = "CRITICAL" -> 100
    [] alert = "HIGH" -> 80
    [] alert = "MEDIUM" -> 60
    [] alert = "LOW" -> 45
    [] alert = None /\ status = "INACTIVE" -> 40
    [] OTHER -> 20

HeatPoints(in) ==
  {[device |-> d, weight |-> Weight(in.devices[d], in.alerts[d])] :
      d \in DOMAIN in.devices \cap Located}

SensorToggle(d) == IF KindOf[d] = "PRESSURE_SENSOR" THEN "pressureSensors" ELSE "flowMeters"

Colour(d, status, alert) ==
  CASE status # "ACTIVE" -> "slate"
    [] status = "ACTIVE" /\ alert = "CRITICAL" -> "red"
    [] status = "ACTIVE" /\ alert \in Severities \ {"CRITICAL"} -> "amber"
    [] OTHER -> IF KindOf[d] = "PRESSURE_SENSOR" THEN "blue" ELSE "emerald"

Pulse(in, d) ==
  IF in.alerts[d] = None \/ "activeAlerts" \notin in.layers THEN None
  ELSE IF in.alerts[d] = "CRITICAL" THEN "red" ELSE "amber"

SectorLayers(in) ==
  {[what |-> s, selected |-> s = in.picked.sector] :
      s \in {t \in in.sectors : "sectors" \in in.layers}}

AssetLayers(in, kind, toggle) ==
  {[what |-> a, selected |-> a = in.picked.asset, dark |-> kind = "PIPE" /\ in.basemap = "dark"] :
      a \in {b \in in.assets : KindOf[b] = kind /\ toggle \in in.layers}}

SensorLayers(in) ==
  {[what |-> d, selected |-> d = in.picked.device,
    colour |-> Colour(d, in.devices[d], in.alerts[d]), pulse |-> Pulse(in, d),
    badge |-> in.alerts[d] # None] :
      d \in {e \in DOMAIN in.devices \cap Located : SensorToggle(e) \in in.layers}}

(* The feature group once the effect of the layers has run.                *)
Drawn(in) == [sectors |-> SectorLayers(in),
              pipes |-> AssetLayers(in, "PIPE", "pipes"),
              valves |-> AssetLayers(in, "VALVE", "valves"),
              sensors |-> SensorLayers(in)]
NothingDrawn == [sectors |-> {}, pipes |-> {}, valves |-> {}, sensors |-> {}]

-----------------------------------------------------------------------------
(* leaflet: the map that mapRef holds, the tile layers on it and the one   *)
(* in baseTileLayerRef, whether a handler listens to its moves, the group  *)
(* of layers on it, and what is on the canvas.                             *)

Blank == [points |-> {}, tuning |-> None, view |-> None]
Tile(by, b) == [by |-> by, basemap |-> b]
NoMap == [view |-> None, tiles |-> {}, tile |-> None, listening |-> FALSE,
          drawn |-> NothingDrawn, canvas |-> Blank]

(* renderHeatmap.                                                          *)
Painted(in, m) ==
  IF ~in.heat \/ HeatPoints(in) = {} THEN [m EXCEPT !.canvas = Blank]
  ELSE [m EXCEPT !.canvas = [points |-> HeatPoints(in), tuning |-> in.tuning, view |-> m.view]]

Changed(old, new, dependencies) == \E f \in dependencies : old[f] # new[f]
Created(old, new) == new.mounted /\ (~old.mounted \/ Changed(old, new, {"basemap"}))

(* Mutant: no reference is kept to the tile layer the map starts with.     *)
MapEffectLosingTile(old, new, m) ==
  IF ~Created(old, new) THEN m
  ELSE [NoMap EXCEPT !.view = Home, !.tiles = {Tile("map", new.basemap)}, !.canvas = m.canvas]

(* Effect 1 makes a map of its own for each basemap; its clean-up removes  *)
(* the map before.  The canvas is the component's and outlives the map.    *)
MapEffect(old, new, m) ==
  IF ~Created(old, new) THEN m
  ELSE [NoMap EXCEPT !.view = Home,
                     !.tiles = {Tile("map", new.basemap)},
                     !.tile = Tile("map", new.basemap),
                     !.canvas = m.canvas]

(* Effect 2 takes the tile layer it knows off the map and adds one.        *)
TileEffect(old, new, m) ==
  IF ~Created(old, new) THEN m
  ELSE [m EXCEPT !.tiles = (@ \ {m.tile}) \cup {Tile("basemap", new.basemap)},
                 !.tile = Tile("basemap", new.basemap)]

(* Mutant: renderHeatmap does not depend on the open alerts.               *)
HeatIgnoringAlerts == {"mounted", "devices", "heat", "tuning"}

(* Effect 3 listens to the moves of the map, and paints: its dependencies  *)
(* are those of renderHeatmap, and the basemap is not among them.          *)
HeatDependencies == {"mounted", "devices", "alerts", "heat", "tuning"}
HeatEffect(old, new, m) ==
  IF ~Changed(old, new, HeatDependencies) THEN m
  ELSE Painted(new, [m EXCEPT !.listening = TRUE])

(* Mutant: the layers' effect does not depend on the basemap.              *)
LayersIgnoringBasemap == {"mounted", "sectors", "devices", "assets", "picked", "layers",
                          "alerts"}

(* Effect 4 draws the layers anew.  The handlers it is passed change at    *)
(* each rendering of the page as well: drawing the same again is the same. *)
LayerDependencies == {"mounted", "sectors", "devices", "assets", "picked", "layers",
                      "alerts", "basemap"}
LayersEffect(old, new, m) ==
  IF ~Changed(old, new, LayerDependencies) THEN m
  ELSE [m EXCEPT !.drawn = Drawn(new)]

(* The effects of a commit in order; the clean-up as the component goes.    *)
Committed(old, new, m) ==
  IF ~new.mounted THEN NoMap
  ELSE LayersEffect(old, new, HeatEffect(old, new, TileEffect(old, new, MapEffect(old, new, m))))

(* What a user does to the map itself.                                     *)
MovedTo(in, m, v) ==
  IF m.listening THEN Painted(in, [m EXCEPT !.view = v]) ELSE [m EXCEPT !.view = v]

(* handleFitBounds: to the layers, or back to Recife when there is none.   *)
FitView(m) == IF m.drawn = NothingDrawn THEN Home ELSE Elsewhere
=============================================================================
