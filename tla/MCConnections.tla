----------------------------- MODULE MCConnections -----------------------------
(***************************************************************************)
(* The small instance of Connections: tables tt, with a point and a        *)
(* polygon column, and u; a connection of the page and one of the server;  *)
(* and five states that an earlier page may have left.                     *)
(***************************************************************************)
EXTENDS Connections, TLC

CONSTANTS tt, u, s1, s2, pt, pg, nn, ff, gg

MCServerIds == {-1}
MCGeometryOf == (tt :> (pt :> "point" @@ pg :> "polygon")) @@ (u :> (pt :> "point"))
MCNumericOf == (tt :> {nn}) @@ (u :> {})
MCSchemaOf == (tt :> s1) @@ (u :> s2)
MCGuessOf == (tt :> nn) @@ (u :> None)

MCKept(id) ==
  [id |-> id, server |-> id < 0, active |-> TRUE, secret |-> FALSE, bundled |-> FALSE,
   test |-> "success"]
MCLayer(id, source, kind, icon) ==
  [id |-> id, kind |-> kind, connection |-> 1, source |-> source, name |-> "given",
   visible |-> TRUE, tooltip |-> TRUE, icon |-> icon, purpose |-> None, style |-> None]
MCState ==
  [EmptyStore EXCEPT
     !.connections = <<MCKept(1), MCKept(-1)>>, !.selected = 1, !.made = 8,
     !.views = <<[id |-> 2, connection |-> 1, table |-> tt, filter |-> ff]>>,
     !.names = (1 :> {}) @@ (-1 :> {}),
     !.tables = (1 :> [kind |-> "table", value |-> tt]) @@ (-1 :> None)]
MCStored(s) == [imported |-> << >>, filters |-> << >>, state |-> s]

\* A layer of a view.
MCViewed ==
  MCStored([MCState EXCEPT
    !.mapSources = <<[Source("geojson", 3, GeometryPayload(1, tt, pt, "configured"))
                        EXCEPT !.filter = ff, !.view = 2]>>,
    !.mapLayers = <<MCLayer(4, 3, "geojson", "circle")>>])
\* Two layers of one source, from a build that had no sources.
MCImported(id, visible, opacity) ==
  GeometryPayload(1, tt, pt, "configured")
    @@ [id |-> id, visible |-> visible, icon |-> "circle", color |-> 1, opacity |-> opacity]
MCLegacy ==
  [MCStored(MCState) EXCEPT !.imported = <<MCImported(3, FALSE, 90), MCImported(4, TRUE, 80)>>]
\* A layer of each kind, one of them a record's preview.
MCDrawn ==
  MCStored([MCState EXCEPT
    !.mapSources = <<Source("geojson", 3, GeometryPayload(1, tt, pt, "configured")),
                     Source("flowmap", 5, FlowPayload(1, tt, GeometryFlow(pt), 1)),
                     Source("flowmap", 8, FlowPayload(1, tt, CoordinateFlow(nn, nn, pt), None))>>,
    !.mapLayers = <<MCLayer(4, 3, "geojson", "circle"),
                    [MCLayer(6, 5, "arc", "flow") EXCEPT !.purpose = "record-preview"],
                    MCLayer(7, 8, "flowmap", "flow")>>])
\* A page of the server's connection alone, left while that was tested.
MCTested ==
  MCStored([EmptyStore EXCEPT
    !.connections = <<[MCKept(-1) EXCEPT !.test = "testing"]>>, !.selected = -1,
    !.names = (-1 :> {}), !.tables = (-1 :> None)])

MCPlacesOf ==
  (MCStored(EmptyStore) :> {"store"}) @@ (MCViewed :> {"store", "catalog"})
    @@ (MCLegacy :> {"store"}) @@ (MCDrawn :> {"editor", "map", "forms"})
    @@ (MCTested :> {"forms"})
MCFirstStored == DOMAIN MCPlacesOf

=============================================================================
