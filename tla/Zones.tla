------------------------------- MODULE Zones -------------------------------
(***************************************************************************)
(* Alert areas: how their polygons are read (the lenient parser.py, the    *)
(* strict geo.py), asked whether a recipient is inside (geo.py), and found *)
(* by the bounding box the cache keeps (alert_cache.py).  Nothing in src/  *)
(* puts a polygon's box in the cache yet: FindableBy takes that as the use *)
(* the cache's docstring shows.                                            *)
(*                                                                         *)
(* Coordinates are floats in the code.  Here they are counted in a unit so *)
(* small that each is a whole number of it, and whatever geo.py computes   *)
(* from them is rounded: where an edge passes within EdgeSlack of a point, *)
(* RoundedWest decides, and may decide otherwise for the edge turned round.*)
(* Circles and great-circle distances are left out.                        *)
(***************************************************************************)
EXTENDS Integers, Sequences, FiniteSetsExt, SequencesExt, Keep

CONSTANTS MaxLat, MaxLon,  \* 90 and 180 degrees
          Texts,           \* polygon texts, see Point
          Garbled,         \* a pair that is not two numbers
          Recipients,      \* points that are asked for
          EdgeSlack,       \* how far rounding can move the crossing of an edge
          RoundedWest(_, _, _),  \* what it makes of a point as near as that
          NoText, Invalid

\* A text is a sequence of pairs; their numbers need not be coordinates.
Point == [lat : Int, lon : Int]

ASSUME TextsAssumption ==
  /\ MaxLat \in Nat /\ MaxLon \in Nat /\ EdgeSlack \in Nat /\ NoText \notin Texts
  /\ Texts \subseteq Seq(Point \cup {Garbled}) /\ Garbled \notin Point
  /\ Recipients \subseteq Point

\* Coordinate.__post_init__ does not raise.
InRange(p) == p.lat \in -MaxLat .. MaxLat /\ p.lon \in -MaxLon .. MaxLon

----------------------------------------------------------------------------
(***************************************************************************)
(* Two readers of one text.                                                *)
(***************************************************************************)
\* CAPParser._parse_area drops a pair it cannot read, and keeps any numbers.
Lenient(text) == Keep(text, ToSet(text) \ {Garbled})

\* parse_cap_polygon raises for either.
Strict(text) ==
  IF \E i \in DOMAIN text : text[i] = Garbled \/ ~InRange(text[i])
  THEN Invalid ELSE text

----------------------------------------------------------------------------
(***************************************************************************)
(* Polygon.                                                                *)
(***************************************************************************)
\* bounding_box
Box(poly) ==
  LET lats == {poly[i].lat : i \in DOMAIN poly}
      lons == {poly[i].lon : i \in DOMAIN poly} IN
  [lat |-> Min(lats), lon |-> Min(lons), toLat |-> Max(lats), toLon |-> Max(lons)]

\* Which side of the line from a to b the point is on; 0 on the line.
Side(p, a, b) ==
  (b.lon - a.lon) * (p.lat - a.lat) - (b.lat - a.lat) * (p.lon - a.lon)

Straddles(p, a, b) == (a.lat > p.lat) # (b.lat > p.lat)

\* The edge meets the point's latitude within EdgeSlack of it.  On an edge due
\* north or south the code multiplies by 0, and nothing is rounded.
NearEdge(p, a, b) ==
  LET rise == IF b.lat > a.lat THEN b.lat - a.lat ELSE a.lat - b.lat
      slack == EdgeSlack * rise IN
  Straddles(p, a, b) /\ a.lon # b.lon /\ Side(p, a, b) \in -slack .. slack

\* The point is west of where the edge from b to a meets its latitude.  The
\* quotient of the code is multiplied out, which turns the comparison round for
\* an edge that falls.
West(p, a, b) ==
  IF NearEdge(p, a, b) THEN RoundedWest(p, a, b)
  ELSE IF b.lat > a.lat THEN Side(p, a, b) > 0
  ELSE Side(p, a, b) < 0

\* Mutant: a vertex at the point's latitude counts for both its edges.
CrossesAtVertices(p, a, b) == (a.lat >= p.lat) # (b.lat > p.lat) /\ West(p, a, b)

\* The ray from p to the east crosses the edge from b to a.
Crosses(p, a, b) == Straddles(p, a, b) /\ West(p, a, b)

Before(poly, i) == poly[IF i = 1 THEN Len(poly) ELSE i - 1]

\* contains_point, and recipient_in_zone for a polygon
ContainsPoint(poly, p) ==
  Quantify(DOMAIN poly, LAMBDA i : Crosses(p, poly[i], Before(poly, i))) % 2 = 1

----------------------------------------------------------------------------
(***************************************************************************)
(* The box in the cache (CachedAlert.has_geo, AlertCache.query_geo).       *)
(***************************************************************************)
\* Mutant: every corner must be away from 0.
HasGeoInside(box) == box.lat # 0 /\ box.toLat # 0 /\ box.lon # 0 /\ box.toLon # 0

HasGeo(box) == box.lat # 0 \/ box.toLat # 0 \/ box.lon # 0 \/ box.toLon # 0

FindableBy(box, region) ==
  /\ HasGeo(box)
  /\ box.lat <= region.toLat /\ box.toLat >= region.lat
  /\ box.lon <= region.toLon /\ box.toLon >= region.lon

----------------------------------------------------------------------------
VARIABLES text,     \* the polygon's text in a document
          polygon   \* what parse_cap_polygon makes of it

zoneVars == <<text, polygon>>

ZoneInit == text = NoText /\ polygon = Invalid

ReadZone(t) == text = NoText /\ text' = t /\ polygon' = Strict(t)

NextZone == text # NoText /\ text' = NoText /\ polygon' = Invalid

ZoneNext == (\E t \in Texts : ReadZone(t)) \/ NextZone

ZoneSpec == ZoneInit /\ [][ZoneNext]_zoneVars

----------------------------------------------------------------------------
(***************************************************************************)
(* Properties.                                                             *)
(***************************************************************************)
ZoneTypeOK ==
  /\ text \in Texts \cup {NoText}
  /\ polygon = Invalid \/ \A i \in DOMAIN polygon : InRange(polygon[i])

Understood == polygon # Invalid
Clear(poly, p) == \A i \in DOMAIN poly : ~NearEdge(p, poly[i], Before(poly, i))
At(p) == [lat |-> p.lat, lon |-> p.lon, toLat |-> p.lat, toLon |-> p.lon]

\* Every recipient in a zone, as the lenient reader of the feeds sees it, is
\* found through the box of the zone the strict reader takes, also where that
\* box touches the equator or the prime meridian, whose zeros mean "no box" to
\* the cache.  Not one on the zone's very edge, which rounding can put in the
\* zone and out of the box (geo.py:42-61, 70-78, parser.py:155-163,
\* alert_cache.py:41-46, 166-176).
RecipientsAreFound ==
  Understood =>
    \A p \in Recipients :
      Clear(polygon, p) /\ ContainsPoint(Lenient(text), p) => FindableBy(Box(polygon), At(p))

\* The same zone written from another vertex, or closed by its first vertex as
\* CAP wants it, has the same recipients; written the other way round, the same
\* but for those that rounding decides on (geo.py:52-61).
ZoneIsTheSameHoweverWritten ==
  Understood /\ polygon # <<>> =>
    \A p \in Recipients :
      LET inside == ContainsPoint(polygon, p) IN
      /\ ContainsPoint(Append(Tail(polygon), Head(polygon)), p) = inside
      /\ Clear(polygon, p) => ContainsPoint(Reverse(polygon), p) = inside
      /\ ContainsPoint(Append(polygon, Head(polygon)), p) = inside

\* Neighbouring zones neither share a recipient nor lose one: a zone cut along
\* a line between two vertices has each recipient it had, in exactly one part,
\* whatever rounding does at the other edges.  Only a recipient on the cut can
\* be in both or in neither, since the two parts have the line in opposite
\* directions (geo.py:58).
NeighboursShareNoRecipient ==
  Understood /\ Len(polygon) = 4 =>
    \A p \in Recipients :
      LET part(i, j, k) == ContainsPoint(<<polygon[i], polygon[j], polygon[k]>>, p) IN
      ~NearEdge(p, polygon[1], polygon[3]) =>
        ContainsPoint(polygon, p) = (part(1, 2, 3) # part(1, 3, 4))

\* For a triangle, inside is inside: on the same side of all three edges.
TrianglesAreExact ==
  Understood /\ Len(polygon) = 3 =>
    \A p \in Recipients :
      LET side(i) == Side(p, polygon[i], polygon[IF i = 3 THEN 1 ELSE i + 1])
          flat == Side(polygon[1], polygon[2], polygon[3]) = 0
          allLeft == \A i \in 1 .. 3 : side(i) > 0
          allRight == \A i \in 1 .. 3 : side(i) < 0
          left == \E i \in 1 .. 3 : side(i) > 0
          right == \E i \in 1 .. 3 : side(i) < 0 IN
      Clear(polygon, p) =>
        /\ allLeft \/ allRight => ContainsPoint(polygon, p)
        /\ flat \/ (left /\ right) => ~ContainsPoint(polygon, p)

\* The crossing test answers as the geometry does where rounding does not decide,
\* and consistently at vertices and on edges due north, south, east or west.
CrossingTestIsSound ==
  TrianglesAreExact /\ NeighboursShareNoRecipient /\ ZoneIsTheSameHoweverWritten

=============================================================================
