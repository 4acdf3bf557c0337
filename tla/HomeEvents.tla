----------------------------- MODULE HomeEvents -----------------------------
(***************************************************************************)
(* The light page of s-web-home on top of LightWatch: the page a browser   *)
(* loads (home), the server-sent events it opens (lightEvents, with its    *)
(* receiver goroutine and its snapshot), the forms it posts (setLight) and *)
(* the script of home.gsx, which puts the rows it is sent into the page.   *)
(* Every page is one watcher of s-rpc-mqtt.  A row is the version of the   *)
(* light it was rendered from.  Temperatures are in module Temperature.    *)
(***************************************************************************)
EXTENDS LightWatch

CONSTANTS
  Unknown,   \* a row with Known = false
  MaxPosts   \* BOUND: forms posted by one page

ASSUME HomeAssumption ==
  /\ Unknown \notin Nat \cup {None}
  /\ None \notin Nat
  /\ MaxPosts \in Nat

VARIABLES
  at,        \* where lightEvents is, or "closed"
  gone,      \* the context of the request is done
  stream,    \* the WatchLights call as the page's handler sees it
  wire,      \* statuses sent by s-rpc-mqtt and not yet received
  receiver,  \* the receiver goroutine: "off", "recv", "select" or "done"
  held,      \* the status it offers on the updates channel
  got,       \* what fetchLights read of each light, None if nothing yet
  shown,     \* the rows of the page, None for a row it does not have
  drag,      \* the light whose slider is being dragged, or None
  pendingRow,\* the row kept for the end of the drag
  post,      \* the posted form: None, or its light and the status read
  posts,     \* forms posted
  overtaken  \* lights whose row was replaced by the older row of a post

handlerVars == <<at, gone, stream, wire, receiver, held, got>>
pageVars == <<shown, drag, pendingRow, post, posts, overtaken>>
homeVars == <<vars, handlerVars, pageVars>>

Row == Version \cup {Unknown}
NoPost == [id |-> None, row |-> {}]

HomeTypeOK ==
  /\ TypeOK
  /\ at \in [Watcher -> {"closed", "watching", "snapshot", "sending", "loop"}]
  /\ gone \in [Watcher -> BOOLEAN]
  /\ stream \in [Watcher -> {"none", "open", "ended"}]
  /\ wire \in [Watcher -> Seq(Status)]
  /\ receiver \in [Watcher -> {"off", "recv", "select", "done"}]
  /\ held \in [Watcher -> SUBSET Status]
  /\ got \in [Watcher -> [Light -> Row \cup {None}]]
  /\ shown \in [Watcher -> [Light -> Row \cup {None}]]
  /\ drag \in [Watcher -> Light \cup {None}]
  /\ pendingRow \in [Watcher -> SUBSET [id : Light, version : Row]]
  /\ post \in [Watcher -> [id : Light \cup {None}, row : SUBSET Version]]
  /\ posts \in [Watcher -> 0..MaxPosts]
  /\ overtaken \in [Watcher -> SUBSET Light]

HomeInit ==
  /\ Init
  /\ at = [p \in Watcher |-> "closed"]
  /\ gone = [p \in Watcher |-> TRUE]
  /\ stream = [p \in Watcher |-> "none"]
  /\ wire = [p \in Watcher |-> <<>>]
  /\ receiver = [p \in Watcher |-> "off"]
  /\ held = [p \in Watcher |-> {}]
  /\ got = [p \in Watcher |-> [l \in Light |-> None]]
  /\ shown = [p \in Watcher |-> light]
  /\ drag = [p \in Watcher |-> None]
  /\ pendingRow = [p \in Watcher |-> {}]
  /\ post = [p \in Watcher |-> NoPost]
  /\ posts = [p \in Watcher |-> 0]
  /\ overtaken = [p \in Watcher |-> {}]

-----------------------------------------------------------------------------
(* s-rpc-mqtt, seen from the page: the steps of LightWatch.                *)

\* The steps no page takes part in.  Left to LightWatch: notifications that are
\* repeated, or without a change, only make the service read a light once more,
\* one lost by the broker looks like one whose read fails, and a shutdown ends
\* streams as falling behind does.
ServiceStep ==
  /\ \/ \E l \in Light : LightChanges(l)
     \/ Deliver \/ BroadcastStep \/ ReadFails
  /\ UNCHANGED <<handlerVars, pageVars>>

\* The call reaches the service, which subscribes and then sends the header.
CallArrives(p) ==
  /\ at[p] = "watching"
  /\ stream[p] = "none"
  /\ ~gone[p]
  /\ Subscribe(p)
  /\ UNCHANGED <<handlerVars, pageVars>>

HeaderSent(p) ==
  /\ SendHeader(p)
  /\ stream' = [stream EXCEPT ![p] = "open"]
  /\ UNCHANGED <<at, gone, wire, receiver, held, got, pageVars>>

StatusSent(p) ==
  /\ Send(p)
  /\ wire' = IF gone[p] THEN wire
              ELSE [wire EXCEPT ![p] = Append(@, Head(updates[p]))]
  /\ UNCHANGED <<at, gone, stream, receiver, held, got, pageVars>>

\* The call ends: with watch_ended, or because its client is gone.
CallEnds(p) ==
  /\ WatchEnded(p) \/ (gone[p] /\ ClientLeaves(p))
  /\ stream' = [stream EXCEPT ![p] = "ended"]
  /\ UNCHANGED <<at, gone, wire, receiver, held, got, pageVars>>

-----------------------------------------------------------------------------
(* lightEvents.                                                            *)

\* fetchLights reads the lights concurrently; one it cannot read within its
\* three seconds stays unknown.
fetchLight(l) == {light[l]} \cup (IF "read" \in Faults THEN {Unknown} ELSE {})

\* home: a new page, with the rows of fetchLights, or with none at all ("Could
\* not load lights.") if ListLights failed.
LoadPage(p) ==
  /\ at[p] = "closed"
  /\ \E rows \in [Light -> Row \cup {None}] :
       /\ \/ \A l \in Light : rows[l] \in fetchLight(l)
          \/ "read" \in Faults /\ \A l \in Light : rows[l] = None
       /\ shown' = [shown EXCEPT ![p] = rows]
  /\ drag' = [drag EXCEPT ![p] = None]
  /\ pendingRow' = [pendingRow EXCEPT ![p] = {}]
  /\ post' = [post EXCEPT ![p] = NoPost]
  /\ overtaken' = [overtaken EXCEPT ![p] = {}]
  /\ UNCHANGED <<vars, handlerVars, posts>>

\* The browser opens the event source, or opens it again once it has ended.  After
\* an answer other than 200 it would not, and the viewer loads the page again.
OpenEvents(p) ==
  /\ at[p] = "closed"
  /\ receiver[p] \in {"off", "done"}
  /\ call[p] = "idle"
  /\ at' = [at EXCEPT ![p] = "watching"]
  /\ gone' = [gone EXCEPT ![p] = FALSE]
  /\ stream' = [stream EXCEPT ![p] = "none"]
  /\ wire' = [wire EXCEPT ![p] = <<>>]
  /\ receiver' = [receiver EXCEPT ![p] = "off"]
  /\ UNCHANGED <<vars, held, got, pageVars>>

\* The viewer leaves, or the connection of the page breaks.
PageLeaves(p) ==
  /\ ~gone[p]
  /\ gone' = [gone EXCEPT ![p] = TRUE]
  /\ UNCHANGED <<vars, at, stream, wire, receiver, held, got, pageVars>>

\* lightEvents returns; net/http then cancels the request's context.
Return(p) ==
  /\ at' = [at EXCEPT ![p] = "closed"]
  /\ gone' = [gone EXCEPT ![p] = TRUE]
  /\ got' = [got EXCEPT ![p] = [l \in Light |-> None]]
  /\ UNCHANGED <<vars, stream, wire, receiver, held, pageVars>>

\* Mutant: the handler does not wait for the header.
HeaderReceivedUnwaited(p) ==
  /\ at[p] = "watching"
  /\ at' = [at EXCEPT ![p] = "snapshot"]
  /\ receiver' = [receiver EXCEPT ![p] = "recv"]
  /\ UNCHANGED <<vars, gone, stream, wire, held, got, pageVars>>

\* stream.Header returned: s-rpc-mqtt has subscribed.  The receiver starts, and
\* ": connected" is sent.
HeaderReceived(p) ==
  /\ at[p] = "watching"
  /\ stream[p] # "none"
  /\ at' = [at EXCEPT ![p] = "snapshot"]
  /\ receiver' = [receiver EXCEPT ![p] = "recv"]
  /\ UNCHANGED <<vars, gone, stream, wire, held, got, pageVars>>

\* WatchLights, stream.Header, ListLights or a write fails: lightEvents gives up.
GivesUp(p) ==
  /\ at[p] # "closed"
  /\ gone[p] \/ ("read" \in Faults /\ at[p] \in {"watching", "snapshot"})
  /\ Return(p)

\* fetchLights of the snapshot.
SnapshotReads(p, l) ==
  /\ at[p] = "snapshot"
  /\ got[p][l] = None
  /\ \E row \in fetchLight(l) :
       got' = [got EXCEPT ![p][l] = row]
  /\ at' = [at EXCEPT ![p] = IF \A m \in Light \ {l} : got[p][m] # None
                                THEN "sending" ELSE @]
  /\ UNCHANGED <<vars, gone, stream, wire, receiver, held, pageVars>>

-----------------------------------------------------------------------------
(* The page's script.                                                      *)

\* The newest row the page has of a light.
RowOf(p, l) ==
  IF \E row \in pendingRow[p] : row.id = l
    THEN (CHOOSE row \in pendingRow[p] : row.id = l).version
    ELSE shown[p][l]

\* showRow: a row that is being dragged waits for the end of the drag, and one the
\* page does not have is dropped (applyRow).
showRow(p, l, row) ==
  IF drag[p] = l
    THEN /\ pendingRow' = [pendingRow EXCEPT ![p] = {[id |-> l, version |-> row]}]
         /\ UNCHANGED shown
    ELSE /\ shown' = IF shown[p][l] = None THEN shown
                                           ELSE [shown EXCEPT ![p][l] = row]
         /\ UNCHANGED pendingRow

\* A "light" event reaches the page.
Event(p, l, row) ==
  /\ showRow(p, l, row)
  /\ overtaken' = [overtaken EXCEPT ![p] = @ \ {l}]
  /\ UNCHANGED <<drag, post, posts>>

SendSnapshot(p, l) ==
  /\ at[p] = "sending"
  /\ ~gone[p]
  /\ got[p][l] # None
  /\ Event(p, l, got[p][l])
  /\ got' = [got EXCEPT ![p][l] = None]
  /\ at' = [at EXCEPT ![p] = IF \A m \in Light \ {l} : got[p][m] = None
                                THEN "loop" ELSE @]
  /\ UNCHANGED <<vars, gone, stream, wire, receiver, held>>

\* The receiver's stream.Recv returns a status, which it then offers.
Recv(p) ==
  /\ receiver[p] = "recv"
  /\ wire[p] # <<>>
  /\ held' = [held EXCEPT ![p] = {Head(wire[p])}]
  /\ wire' = [wire EXCEPT ![p] = Tail(@)]
  /\ receiver' = [receiver EXCEPT ![p] = "select"]
  /\ UNCHANGED <<vars, at, gone, stream, got, pageVars>>

\* Mutant: the send on updates has no case for ctx.Done.
ReceiverEndsInRecv(p) ==
  /\ receiver[p] = "recv" /\ (gone[p] \/ (stream[p] = "ended" /\ wire[p] = <<>>))
  /\ receiver' = [receiver EXCEPT ![p] = "done"]
  /\ held' = [held EXCEPT ![p] = {}]
  /\ wire' = [wire EXCEPT ![p] = <<>>]
  /\ UNCHANGED <<vars, at, gone, stream, got, pageVars>>

\* Recv fails, at the end of the stream or with its context, or the context is
\* done while a status is offered.  Either way updates is closed.
ReceiverEnds(p) ==
  /\ \/ receiver[p] = "recv" /\ (gone[p] \/ (stream[p] = "ended" /\ wire[p] = <<>>))
     \/ receiver[p] = "select" /\ gone[p]
  /\ receiver' = [receiver EXCEPT ![p] = "done"]
  /\ held' = [held EXCEPT ![p] = {}]
  /\ wire' = [wire EXCEPT ![p] = <<>>]
  /\ UNCHANGED <<vars, at, gone, stream, got, pageVars>>

\* The loop takes a status from updates and sends its row.
Update(p) ==
  /\ at[p] = "loop"
  /\ receiver[p] = "select"
  /\ ~gone[p]
  /\ \E status \in held[p] : Event(p, status.id, status.version)
  /\ held' = [held EXCEPT ![p] = {}]
  /\ receiver' = [receiver EXCEPT ![p] = "recv"]
  /\ UNCHANGED <<vars, at, gone, stream, wire, got>>

\* Mutant: a closed channel is taken for an empty one.
UpdatesClosedIgnored(p) == at[p] = "loop" /\ UNCHANGED homeVars

\* The loop finds updates closed.
UpdatesClosed(p) ==
  /\ at[p] = "loop"
  /\ receiver[p] = "done"
  /\ Return(p)

\* setLight: SetLight of s-rpc-mqtt changes the light and then reads it; its row
\* is the response, which reaches the page on its own.
PostSets(p, l) ==
  /\ post[p] = NoPost
  /\ posts[p] < MaxPosts
  /\ shown[p][l] \notin {Unknown, None}
  /\ LightChanges(l)
  /\ post' = [post EXCEPT ![p] = [id |-> l, row |-> {}]]
  /\ posts' = [posts EXCEPT ![p] = @ + 1]
  /\ UNCHANGED <<handlerVars, shown, drag, pendingRow, overtaken>>

PostReads(p) ==
  /\ post[p].id # None
  /\ post[p].row = {}
  /\ post' = [post EXCEPT ![p].row = {light[post[p].id]}]
  /\ UNCHANGED <<vars, handlerVars, shown, drag, pendingRow, posts, overtaken>>

\* The response is shown, whatever events have arrived since.
PostShown(p) ==
  /\ \E row \in post[p].row :
       /\ showRow(p, post[p].id, row)
       /\ overtaken' = IF row # light[post[p].id]
                         THEN [overtaken EXCEPT ![p] = @ \cup {post[p].id}]
                         ELSE overtaken
  /\ post' = [post EXCEPT ![p] = NoPost]
  /\ UNCHANGED <<vars, handlerVars, drag, posts>>

\* setLight fails: the page shows an error, no row.
PostFails(p) ==
  /\ post[p] # NoPost
  /\ post' = [post EXCEPT ![p] = NoPost]
  /\ UNCHANGED <<vars, handlerVars, shown, drag, pendingRow, posts, overtaken>>

StartDrag(p, l) ==
  /\ drag[p] = None
  /\ shown[p][l] \notin {Unknown, None}
  /\ drag' = [drag EXCEPT ![p] = l]
  /\ UNCHANGED <<vars, handlerVars, shown, pendingRow, post, posts, overtaken>>

EndDrag(p) ==
  /\ drag[p] # None
  /\ drag' = [drag EXCEPT ![p] = None]
  /\ shown' = [shown EXCEPT ![p] = [l \in Light |-> RowOf(p, l)]]
  /\ pendingRow' = [pendingRow EXCEPT ![p] = {}]
  /\ UNCHANGED <<vars, handlerVars, post, posts, overtaken>>

-----------------------------------------------------------------------------

\* What the goroutines of the handler and of the service do by themselves.
HandlerSteps(p) ==
  \/ CallArrives(p) \/ HeaderSent(p) \/ StatusSent(p) \/ CallEnds(p)
  \/ HeaderReceived(p) \/ UpdatesClosed(p)
  \/ (at[p] # "closed" /\ gone[p] /\ Return(p))
  \/ \E l \in Light : SnapshotReads(p, l) \/ SendSnapshot(p, l)

ReceiverSteps(p) == Recv(p) \/ ReceiverEnds(p)

PageSteps(p) ==
  \/ LoadPage(p) \/ OpenEvents(p) \/ PageLeaves(p)
  \/ PostReads(p) \/ PostShown(p) \/ PostFails(p) \/ EndDrag(p)
  \/ \E l \in Light : PostSets(p, l) \/ StartDrag(p, l)

HomeNext ==
  \/ ServiceStep
  \/ \E p \in Watcher :
       HandlerSteps(p) \/ ReceiverSteps(p) \/ Update(p) \/ GivesUp(p) \/ PageSteps(p)

\* The fairness of LightWatch, and goroutines run.  select chooses at random
\* among ready cases, so an update is taken even if the ticker is always ready.
\* No browser has to load, open, drag, post or leave.
HomeSpec ==
  /\ HomeInit /\ [][HomeNext]_homeVars
  /\ WF_homeVars(Deliver /\ UNCHANGED <<handlerVars, pageVars>>)
  /\ WF_homeVars(BroadcastStep /\ UNCHANGED <<handlerVars, pageVars>>)
  /\ \A p \in Watcher : /\ WF_homeVars(HandlerSteps(p))
                        /\ WF_homeVars(ReceiverSteps(p))
                        /\ WF_homeVars(Update(p))

-----------------------------------------------------------------------------
(* Properties.                                                             *)

LastOf(seq, l) ==
  {seq[i].version : i \in {j \in 1..Len(seq) :
      seq[j].id = l /\ \A k \in (j + 1)..Len(seq) : seq[k].id # l}}

\* The row of l the page ends up with once what is on its way has arrived.
Final(p, l) ==
  LET queued == LastOf(updates[p], l)
      sent == LastOf(wire[p], l)
      offered == {s.version : s \in {s \in held[p] : s.id = l}}
  IN  IF queued # {} THEN queued
      ELSE IF sent # {} THEN sent
      ELSE IF offered # {} THEN offered
      ELSE IF got[p][l] # None THEN {got[p][l]}
      ELSE {RowOf(p, l)}

\* "so the snapshot below cannot miss a change": once lightEvents has read a
\* light, a page with a row for it has its state, will get it from what is on
\* the way or from a change the service has yet to publish, or shows it as
\* unknown.  The exceptions: the service gave up on a change (see
\* MissesAccountedFor), and the response to a form overtook a newer event.
SnapshotMissesNothing ==
  \A p \in Watcher \ closedChans, l \in Light :
    /\ ~gone[p] /\ stream[p] # "ended"
    /\ at[p] = "loop" \/ got[p][l] # None
    /\ shown[p][l] # None
    =>
      \/ Final(p, l) \subseteq {light[l], Unknown}
      \/ Pending(l)
      \/ l \in missed \cup overtaken[p]

\* "It starts with all of them, which is what catches a page up": once the
\* snapshot has been sent, the page has a row of every light.
SnapshotCatchesPageUp ==
  \A p \in Watcher :
    at[p] = "loop" /\ ~gone[p] => \A l \in Light : shown[p][l] # None

\* A page that is open and has a row of a light comes to show its state or to
\* show it as unknown, however many events, forms and changes race, or its
\* event source ends.  The exceptions: the row is being dragged, the service
\* gave up on a change, or the response to a form overtook a newer event.
PageCatchesUp ==
  \A p \in Watcher, l \in Light :
    (at[p] = "loop" /\ shown[p][l] \notin {light[l], None})
      ~> \/ shown[p][l] \in {light[l], Unknown}
         \/ at[p] = "closed" \/ drag[p] = l
         \/ l \in missed \cup overtaken[p]

\* When lightEvents returns it leaves nothing behind: its receiver goroutine
\* ends, and s-rpc-mqtt unsubscribes it.
NothingLeftBehind ==
  \A p \in Watcher :
    at[p] = "closed" ~> receiver[p] \in {"off", "done"} /\ p \notin subscribers
=============================================================================
