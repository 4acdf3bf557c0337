------------------------------ MODULE Flights ------------------------------
(***************************************************************************)
(* s-rpc-flights streams the flights of its table, each with the           *)
(* coordinates of its airports, to the map of s-web-flights and to its own *)
(* yearly statistics.  The airports are fetched once, by whoever needs     *)
(* them first and with that caller's context; the outcome is kept for the  *)
(* life of the process.                                                    *)
(***************************************************************************)
EXTENDS FiniteSets, Naturals

CONSTANTS
  Airport,         \* airport codes
  Listed,          \* the codes with coordinates in the published CSV
  closedAirports,  \* the codes the source adds to it
  Flight,          \* the rows of the table: pairs of airport codes
  MaxFlightFaults, \* bound: failures of database and network
  MaxLists         \* bound: streams begun

ASSUME FlightsAssumption ==
  /\ Listed \subseteq Airport
  /\ closedAirports \subseteq Airport
  /\ Flight \subseteq Airport \X Airport
  /\ MaxFlightFaults \in Nat
  /\ MaxLists \in Nat

\* Who lists the flights: constructGeoMap, and refreshYearlyCo2.
Lister == {"map", "stats"}

\* RefreshPromStats refreshes these one after the other.
Gauges == {"latest", "airlines", "flights", "airports", "co2"}
GaugeAfter == [latest |-> "airlines", airlines |-> "flights", flights |-> "airports",
               airports |-> "co2", co2 |-> "latest"]

VARIABLES
  once,         \* airportsOnce: "new", "loading", "done" or "failed"
  loader,       \* who runs it
  airports,     \* the table it made
  list,         \* how far each stream is
  row,          \* the row the stream is at
  sent,         \* the flights its client has received
  lists,        \* streams begun
  refreshing,   \* the gauge RefreshPromStats is at
  figure,       \* gauges: "unset", "right", "zero" or "partial"
  brokenSets,   \* result sets that broke off
  flightFaults  \* failures so far

flightVars == <<once, loader, airports, list, row, sent, lists, refreshing, figure,
                brokenSets, flightFaults>>

NoRow == <<>>

FlightsInit ==
  /\ once = "new"
  /\ loader = "map"
  /\ airports = {}
  /\ list = [c \in Lister |-> "idle"]
  /\ row = [c \in Lister |-> NoRow]
  /\ sent = [c \in Lister |-> {}]
  /\ lists = 0
  /\ refreshing = "latest"
  /\ figure = [g \in Gauges |-> "unset"]
  /\ brokenSets = 0
  /\ flightFaults = 0

Fault == flightFaults < MaxFlightFaults /\ flightFaults' = flightFaults + 1

\* The stream ends with an error for its client.
Fails(c) ==
  /\ list' = [list EXCEPT ![c] = "error"]
  /\ UNCHANGED <<loader, airports, row, sent, lists, figure, brokenSets>>

-----------------------------------------------------------------------------
(* RefreshPromStats: the gauges read from the database.                    *)

SetGauge(g, f) ==
  /\ figure' = [figure EXCEPT ![g] = f]
  /\ refreshing' = GaugeAfter[g]
  /\ UNCHANGED <<once, loader, airports, list, row, sent, lists>>

Refresh(g) ==
  /\ g # "co2"
  /\ refreshing = g
  /\ SetGauge(g, "right")
  /\ UNCHANGED <<brokenSets, flightFaults>>

\* A query that fails keeps the gauge; the next one is refreshed all the same.
RefreshFails(g) ==
  /\ g # "co2"
  /\ refreshing = g
  /\ Fault
  /\ SetGauge(g, figure[g])
  /\ UNCHANGED brokenSets

\* rows.Err is not looked at: a count that was never scanned is 0, and only
\* some airlines are set.
RefreshBreaks(g) ==
  /\ g \in {"airlines", "flights", "airports"}
  /\ refreshing = g
  /\ Fault
  /\ brokenSets' = brokenSets + 1
  /\ SetGauge(g, IF g = "airlines" THEN "partial" ELSE "zero")

-----------------------------------------------------------------------------
(* ListAll.                                                                *)

ListAll(c) ==
  /\ lists < MaxLists
  /\ lists' = lists + 1
  /\ sent' = [sent EXCEPT ![c] = {}]
  /\ list' = [list EXCEPT ![c] = "next"]
  /\ UNCHANGED <<once, loader, airports, row, refreshing, figure, brokenSets, flightFaults>>

\* The map is requested: drawn at "eof", answered with a 500 at "error".
constructGeoMap == list["map"] \in {"idle", "eof", "error"} /\ ListAll("map")

\* The statistics ask when their turn comes.
ListForYears == refreshing = "co2" /\ list["stats"] = "idle" /\ ListAll("stats")

Scan(c) ==
  /\ list[c] = "next"
  /\ \E f \in Flight \ sent[c] : row' = [row EXCEPT ![c] = f]
  /\ list' = [list EXCEPT ![c] = "lookup"]
  /\ UNCHANGED <<once, loader, airports, sent, lists, refreshing, figure, brokenSets,
                 flightFaults>>

\* sync.Once: the first caller fetches, the others wait for it.
LoadAirports(c) ==
  /\ list[c] = "lookup"
  /\ once = "new"
  /\ once' = "loading"
  /\ loader' = c
  /\ UNCHANGED <<airports, list, row, sent, lists, refreshing, figure, brokenSets,
                 flightFaults>>

\* Rows without a code or coordinates are skipped.  An error page parses too,
\* and has no airport in it.
parseAirportsCSV(body) == IF body = "csv" THEN Listed ELSE {}

\* The status of the response is not looked at.
Loaded ==
  /\ once = "loading"
  /\ once' = "done"
  /\ \E body \in {"csv", "error page"} :
       /\ airports' = parseAirportsCSV(body) \cup closedAirports
       /\ IF body = "csv" THEN UNCHANGED flightFaults ELSE Fault
  /\ UNCHANGED <<loader, list, row, sent, lists, refreshing, figure, brokenSets>>

LoadFails ==
  /\ once = "loading"
  /\ Fault
  /\ once' = "failed"
  /\ UNCHANGED <<loader, airports, list, row, sent, lists, refreshing, figure, brokenSets>>

\* Of an empty response the CSV has no first record: the process panics, and is
\* started again.
LoadPanics ==
  /\ once = "loading"
  /\ Fault
  /\ once' = "new"
  /\ airports' = {}
  /\ list' = [c \in Lister |-> IF c = "stats" THEN "idle" ELSE "error"]
  /\ refreshing' = "latest"
  /\ figure' = [g \in Gauges |-> "unset"]
  /\ UNCHANGED <<loader, row, sent, lists, brokenSets>>

Known(f) == f[1] \in airports /\ f[2] \in airports
Unresolved(c) == once = "failed" \/ (once = "done" /\ ~Known(row[c]))

Send(c) ==
  /\ list[c] = "lookup"
  /\ once = "done"
  /\ Known(row[c])
  /\ sent' = [sent EXCEPT ![c] = @ \cup {row[c]}]
  /\ list' = [list EXCEPT ![c] = IF c = "stats" THEN "emissions" ELSE "next"]
  /\ UNCHANGED <<once, loader, airports, row, lists, refreshing, figure, brokenSets,
                 flightFaults>>

\* Mutant: a flight whose airports are not known is left out.
LookupFailsSkips(c) ==
  /\ list[c] = "lookup"
  /\ Unresolved(c)
  /\ list' = [list EXCEPT ![c] = "eof"]
  /\ UNCHANGED <<once, loader, airports, row, sent, lists, refreshing, figure, brokenSets,
                 flightFaults>>

\* airportFromCode: one unknown code, or the failure kept by airportsOnce, ends
\* every stream.
LookupFails(c) ==
  /\ list[c] = "lookup"
  /\ Unresolved(c)
  /\ Fails(c)
  /\ UNCHANGED <<once, refreshing, flightFaults>>

\* The last row: io.EOF at the client.
Eof(c) ==
  /\ list[c] = "next"
  /\ sent[c] = Flight
  /\ list' = [list EXCEPT ![c] = "eof"]
  /\ UNCHANGED <<once, loader, airports, row, sent, lists, refreshing, figure, brokenSets,
                 flightFaults>>

\* The result set breaks off: rows.Err is tested, but err, which is nil, is
\* returned.  The client sees io.EOF.
RowsBreak(c) ==
  /\ list[c] = "next"
  /\ Fault
  /\ brokenSets' = brokenSets + 1
  /\ list' = [list EXCEPT ![c] = "eof"]
  /\ UNCHANGED <<once, loader, airports, row, sent, lists, refreshing, figure>>

\* The query, the transport, or the caller gives up.  If the caller is the one
\* who fetches the airports, its context ends the fetch.
Abort(c) ==
  /\ list[c] \in {"next", "lookup", "emissions"}
  /\ Fault
  /\ once' = IF once = "loading" /\ loader = c THEN "failed" ELSE once
  /\ Fails(c)
  /\ UNCHANGED refreshing

\* refreshYearlyCo2 asks for the emissions of each flight before the next one.
EmissionsForJourney ==
  /\ list["stats"] = "emissions"
  /\ list' = [list EXCEPT !["stats"] = "next"]
  /\ UNCHANGED <<once, loader, airports, row, sent, lists, refreshing, figure, brokenSets,
                 flightFaults>>

\* The sums are set once the stream has ended, and only if it ended well.
refreshYearlyCo2 ==
  /\ list["stats"] \in {"eof", "error"}
  /\ list' = [list EXCEPT !["stats"] = "idle"]
  /\ figure' = [figure EXCEPT !["co2"] =
       IF list["stats"] = "error" THEN @
       ELSE IF sent["stats"] = Flight THEN "right" ELSE "partial"]
  /\ refreshing' = "latest"
  /\ UNCHANGED <<once, loader, airports, row, sent, lists, brokenSets, flightFaults>>

FlightsNext ==
  \/ \E g \in Gauges : Refresh(g) \/ RefreshFails(g) \/ RefreshBreaks(g)
  \/ \E c \in Lister :
       \/ Scan(c) \/ LoadAirports(c) \/ Send(c) \/ LookupFails(c)
       \/ Eof(c) \/ RowsBreak(c) \/ Abort(c)
  \/ constructGeoMap \/ ListForYears
  \/ Loaded \/ LoadFails \/ LoadPanics
  \/ EmissionsForJourney \/ refreshYearlyCo2

FlightsSpec == FlightsInit /\ [][FlightsNext]_flightVars

-----------------------------------------------------------------------------
\* As long as no result set broke off, what is shown is complete: a map that is
\* drawn has every flight, and every gauge that is set counts all of them.
\* Unknown airports, a failed fetch of the airports and callers who give up end
\* in an error, never in a part of the flights.
ShownIsComplete ==
  brokenSets = 0 =>
    /\ \A c \in Lister : list[c] = "eof" => sent[c] = Flight
    /\ \A g \in Gauges : figure[g] \in {"unset", "right"}
=============================================================================
