------------------------------- MODULE Relay --------------------------------
(***************************************************************************)
(* Remote access: relay_client.py in the daemon, the relay's session       *)
(* objects, and the pairing pages (relay/src/pair-page.ts).                *)
(*                                                                         *)
(* The relay client lives on a thread of its own; rotate_token() and       *)
(* revoke_all() are called from the web server's thread and interleave     *)
(* with it at every statement.  Frames in flight are sets: a page has at   *)
(* most one handshake and one chat message under way per connection.      *)
(***************************************************************************)
EXTENDS RelaySession

CONSTANTS
  MaxDrops,   \* bound: connections that fail, on either side
  EdgeReports \* the relay's edge notices that the daemon's peer is gone

ASSUME RelayAssumption ==
  /\ MaxDrops \in Nat
  /\ EdgeReports \in BOOLEAN

VARIABLES
  cred,    \* self.session_id and self.token
  rot,     \* rotate_token() has done: "idle", "session", "token", "cleared", "held"
  held,    \* its local reference to self.ws, as that socket is now
  loop,    \* _connect(): "down", "dialing", "connecting", "accepted", "open"
  url,     \* the credentials in the URL of this connection
  ws,      \* self.ws: "none", "live" (the socket of loop) or "stale"
  orders,  \* coroutines scheduled from the other thread: "revoke", "close"
  ciphers, \* _ciphers: <<page, conn>> (a page has a new id per connection)
  inbox,   \* frames forwarded to the daemon and not handled yet
  replies, \* handshake replies on the way to pages
  page,    \* "off", "open", "ready" or "revoked"
  link,    \* the pairing link a page was opened with
  conn,    \* number of the connection of a page
  drops,   \* connections that failed so far
  gap,     \* history: a rotation ended while a connection was being made or just
           \* after one was, or a page paired in the middle of a rotation
  late     \* history: pages whose chat ran on a link that had been rotated away

daemonVars == <<cred, rot, held, loop, url, ws, orders, ciphers>>
pageVars   == <<page, link, conn>>
frames     == <<inbox, replies>>
vars == <<sessionVars, daemonVars, frames, pageVars, drops, gap, late>>

Link(n)  == [sid |-> n, tok |-> n]
NoLink   == [sid |-> 0, tok |-> NoToken]
Links    == [sid : Sessions, tok : Tokens]
Frame    == [kind : {"handshake", "chat"}, page : Pages, conn : Nat]

Init ==
  /\ SessionInit
  /\ cred    = Link(0)
  /\ rot     = "idle"
  /\ held    = "none"
  /\ loop    = "down"
  /\ url     = Link(0)
  /\ ws      = "none"
  /\ orders  = {}
  /\ ciphers = {}
  /\ inbox   = {}
  /\ replies = {}
  /\ page    = [p \in Pages |-> "off"]
  /\ link    = [p \in Pages |-> NoLink]
  /\ conn    = [p \in Pages |-> 0]
  /\ drops   = 0
  /\ gap     = FALSE
  /\ late    = {}

-----------------------------------------------------------------------------
(* _connect(), on the relay thread                                         *)

\* The URL is built from session_id and token, one after the other.
DialSession ==
  /\ loop = "down"
  /\ loop' = "dialing"
  /\ url'  = [url EXCEPT !.sid = cred.sid]
  /\ UNCHANGED <<sessionVars, cred, rot, held, ws, orders, ciphers, frames, pageVars,
                 drops, gap, late>>

DialToken ==
  /\ loop = "dialing"
  /\ loop' = "connecting"
  /\ url'  = [url EXCEPT !.tok = cred.tok]
  /\ UNCHANGED <<sessionVars, cred, rot, held, ws, orders, ciphers, frames, pageVars,
                 drops, gap, late>>

Accepted ==
  /\ loop = "connecting"
  /\ AdmitDaemon(url.sid, url.tok)
  /\ loop' = "accepted"
  /\ UNCHANGED <<cred, rot, held, url, ws, orders, ciphers, frames, pageVars, drops,
                 gap, late>>

\* 409: the session still has a daemon socket.  start() backs off and dials again.
Refused ==
  /\ loop = "connecting"
  /\ daemonAt[url.sid] # "none"
  /\ loop' = "down"
  /\ UNCHANGED <<sessionVars, cred, rot, held, url, ws, orders, ciphers, frames,
                 pageVars, drops, gap, late>>

\* The worker's rate limit, DNS, TLS: the attempt fails before the session object.
DialFails ==
  /\ loop = "connecting"
  /\ drops < MaxDrops
  /\ drops' = drops + 1
  /\ loop'  = "down"
  /\ UNCHANGED <<sessionVars, cred, rot, held, url, ws, orders, ciphers, frames,
                 pageVars, gap, late>>

\* self.ws = ws, and the per-client state is dropped.
Opened ==
  /\ loop = "accepted"
  /\ loop'    = "open"
  /\ ws'      = "live"
  /\ ciphers' = {}
  /\ UNCHANGED <<sessionVars, cred, rot, held, url, orders, frames, pageVars, drops,
                 gap, late>>

\* What the end of the connection leaves: self.ws is not reset.
Ended(sock) == IF sock = "live" THEN "stale" ELSE sock

Disconnected ==
  /\ loop'   = "down"
  /\ ws'     = Ended(ws)
  /\ held'   = Ended(held)
  /\ orders' = {}
  /\ inbox'  = {}
  /\ UNCHANGED <<cred, rot, url, ciphers, replies, pageVars, gap, late>>

\* The connection breaks, and the session object sees a close frame, the end of the
\* connection without one, an error or nothing.
Drop ==
  /\ loop \in {"accepted", "open"}
  /\ drops < MaxDrops
  /\ drops' = drops + 1
  /\ \/ \E reserved \in BOOLEAN : CloseDaemon(url.sid, reserved)
     \/ FailDaemon(url.sid)
     \/ LoseDaemon(url.sid)
  /\ Disconnected

\* ws.send({"type": "revoke_all"}), scheduled by revoke_all(), runs before the close.
SendRevoke ==
  /\ loop = "open"
  /\ "revoke" \in orders
  /\ RevokeAllClients(url.sid)
  /\ orders' = orders \ {"revoke"}
  /\ UNCHANGED <<cred, rot, held, loop, url, ws, ciphers, frames, pageVars, drops,
                 gap, late>>

\* ws.close(), scheduled by rotate_token(), with code 1000.
CloseSocket ==
  /\ loop = "open"
  /\ orders = {"close"}
  /\ CloseDaemon(url.sid, FALSE)
  /\ Disconnected
  /\ UNCHANGED drops

-----------------------------------------------------------------------------
(* revoke_all() and rotate_token(), on the web server's thread             *)

\* revoke_all() first orders the frame; then a new session id.
Rotate(revoke) ==
  /\ rot = "idle"
  /\ cred.sid < MaxLinks
  /\ rot'    = "session"
  /\ cred'   = [cred EXCEPT !.sid = @ + 1]
  /\ orders' = IF revoke /\ ws = "live" THEN orders \cup {"revoke"} ELSE orders
  /\ UNCHANGED <<sessionVars, held, loop, url, ws, ciphers, frames, pageVars, drops,
                 gap, late>>

RotateToken ==
  /\ rot = "session"
  /\ rot'  = "token"
  /\ cred' = [cred EXCEPT !.tok = @ + 1]
  /\ UNCHANGED <<sessionVars, held, loop, url, ws, orders, ciphers, frames, pageVars,
                 drops, gap, late>>

\* Mutant: the keys of the paired pages are kept until the reconnect.
RotateKeepsKeys ==
  /\ rot = "token"
  /\ rot' = "cleared"
  /\ UNCHANGED <<sessionVars, cred, held, loop, url, ws, orders, ciphers, frames,
                 pageVars, drops, gap, late>>

\* The keys, chat sessions and history ids of all clients are dropped.
RotateClear ==
  /\ rot = "token"
  /\ rot'     = "cleared"
  /\ ciphers' = {}
  /\ UNCHANGED <<sessionVars, cred, held, loop, url, ws, orders, frames, pageVars,
                 drops, gap, late>>

\* ws = self.ws: the relay thread may replace the socket before it is reset below.
RotateHold ==
  /\ rot = "cleared"
  /\ rot'  = "held"
  /\ held' = ws
  /\ UNCHANGED <<sessionVars, cred, loop, url, ws, orders, ciphers, frames,
                 pageVars, drops, gap, late>>

\* Mutant: the socket is let go of and never closed.
RotateForgetsClose ==
  /\ rot = "held"
  /\ rot'  = "idle"
  /\ ws'   = IF held = "none" THEN ws ELSE "none"
  /\ gap'  = (gap \/ loop \in {"dialing", "connecting", "accepted"} \/ held # ws)
  /\ held' = "none"
  /\ UNCHANGED <<sessionVars, cred, loop, url, orders, ciphers, frames, pageVars, drops,
                 late>>

\* self.ws is reset and the socket held is closed; a connection in the making is
\* not, and neither is one that was made after the reference was taken.
RotateClose ==
  /\ rot = "held"
  /\ rot'    = "idle"
  /\ orders' = IF held = "live" THEN orders \cup {"close"} ELSE orders
  /\ ws'     = IF held = "none" THEN ws ELSE "none"
  /\ gap'    = (gap \/ loop \in {"dialing", "connecting", "accepted"} \/ held # ws)
  /\ held'   = "none"
  /\ UNCHANGED <<sessionVars, cred, loop, url, ciphers, frames, pageVars, drops,
                 late>>

-----------------------------------------------------------------------------
(* The pairing page                                                        *)

\* The link on the console (read on the web server's thread) is scanned.
Scan(p) ==
  /\ page[p] \in {"off", "revoked"}
  /\ rot = "idle"
  /\ link[p] # cred
  /\ link' = [link EXCEPT ![p] = cred]
  /\ page' = [page EXCEPT ![p] = "off"]
  /\ UNCHANGED <<sessionVars, daemonVars, frames, conn, drops, gap, late>>

\* A frame from a page reaches the daemon while its socket is up.
Forwarded(s, f) == IF daemonAt[s] = "up" THEN inbox \cup {f} ELSE inbox

\* connectWS() and onopen: the handshake goes out with a new client id.
Join(p) ==
  /\ page[p] = "off"
  /\ AdmitPage(link[p].sid, link[p].tok, p)
  /\ page' = [page EXCEPT ![p] = "open"]
  /\ conn' = [conn EXCEPT ![p] = @ + 1]
  /\ inbox' = Forwarded(link[p].sid,
                        [kind |-> "handshake", page |-> p, conn |-> conn'[p]])
  /\ UNCHANGED <<daemonVars, replies, link, drops, gap, late>>

\* completeHandshake(), for a reply to this connection's key.
Secure(p) ==
  /\ page[p] = "open"
  /\ p \in attached[link[p].sid]
  /\ <<p, conn[p]>> \in replies
  /\ page'    = [page EXCEPT ![p] = "ready"]
  /\ replies' = replies \ {<<p, conn[p]>>}
  /\ UNCHANGED <<sessionVars, daemonVars, inbox, link, conn, drops, gap, late>>

Chat(p) ==
  /\ page[p] = "ready"
  /\ p \in attached[link[p].sid]
  /\ inbox' = Forwarded(link[p].sid,
                        [kind |-> "chat", page |-> p, conn |-> conn[p]])
  /\ UNCHANGED <<sessionVars, daemonVars, replies, pageVars, drops, gap, late>>

\* The connection of a page breaks, with or without the relay noticing.
PageDrop(p, silently) ==
  /\ page[p] \in {"open", "ready"}
  /\ p \in attached[link[p].sid]
  /\ drops < MaxDrops
  /\ drops' = drops + 1
  /\ DetachPage(link[p].sid, p, silently)
  /\ page'  = [page EXCEPT ![p] = "off"]
  /\ UNCHANGED <<daemonVars, frames, link, conn, gap, late>>

\* onmessage("revoked") and onclose: a page that read the notice stays away.
PageClosed(p) ==
  /\ page[p] \in {"open", "ready"}
  /\ p \notin attached[link[p].sid]
  /\ page'   = [page EXCEPT ![p] = IF p \in notice THEN "revoked" ELSE "off"]
  /\ notice' = notice \ {p}
  /\ UNCHANGED <<daemonAt, storedTok, attached, ghosts, stranded, daemonVars, frames,
                 link, conn, drops, gap, late>>

-----------------------------------------------------------------------------
(* _handle_raw(): the socket is read as long as it is open, whatever       *)
(* self.ws says                                                            *)

Take(f) ==
  /\ loop = "open"
  /\ f \in inbox
  /\ inbox' = inbox \ {f}

\* _on_handshake(): a key for this id, and a reply if self.ws is set.
HandleHandshake(f) ==
  /\ f.kind = "handshake"
  /\ Take(f)
  /\ ciphers' = ciphers \cup {<<f.page, f.conn>>}
  /\ replies' = IF ws = "live" THEN replies \cup {<<f.page, f.conn>>} ELSE replies
  /\ gap'     = (gap \/ rot \in {"cleared", "held"})
  /\ UNCHANGED <<sessionVars, cred, rot, held, loop, url, ws, orders, pageVars, drops,
                 late>>

\* client_id in _ciphers; otherwise "handshake_required".
HasKey(f) == <<f.page, f.conn>> \in ciphers

\* An encrypted frame: decrypted and run, or refused for want of a key.
HandleChat(f) ==
  /\ f.kind = "chat"
  /\ Take(f)
  /\ late' = IF HasKey(f) /\ rot = "idle" /\ url # cred
             THEN late \cup {f.page}
             ELSE late
  /\ UNCHANGED <<sessionVars, daemonVars, replies, pageVars, drops, gap>>

-----------------------------------------------------------------------------
(* The session object on its own                                           *)

Expire(s) ==
  /\ Alarm(s)
  /\ UNCHANGED <<daemonVars, frames, pageVars, drops, gap, late>>

\* The edge reports the end of the daemon's connection: webSocketClose runs late.
ReportLoss(s) ==
  /\ EdgeReports
  /\ daemonAt[s] = "lost"
  /\ \E reserved \in BOOLEAN : CloseDaemon(s, reserved)
  /\ UNCHANGED <<daemonVars, frames, pageVars, drops, gap, late>>

-----------------------------------------------------------------------------

Connect    == DialSession \/ DialToken \/ Accepted \/ Refused \/ Opened
Finish     == RotateToken \/ RotateClear \/ RotateHold \/ RotateClose
Handle     == \E f \in inbox : HandleHandshake(f) \/ HandleChat(f)
Recover(p) == Join(p) \/ Secure(p) \/ PageClosed(p)

Next ==
  \/ Connect \/ DialFails \/ Drop \/ SendRevoke \/ CloseSocket
  \/ (\E revoke \in BOOLEAN : Rotate(revoke)) \/ Finish
  \/ \E p \in Pages :
       \/ Scan(p) \/ Recover(p) \/ Chat(p)
       \/ \E silently \in BOOLEAN : PageDrop(p, silently)
  \/ Handle
  \/ \E s \in Sessions : Expire(s) \/ ReportLoss(s)

Spec == Init /\ [][Next]_vars

\* Both threads run, the relay and the pages react; what users and the network do
\* is not assumed to happen.
Fairness ==
  /\ WF_vars(Connect)
  /\ WF_vars(SendRevoke) /\ WF_vars(CloseSocket)
  /\ WF_vars(Finish)
  /\ WF_vars(Handle)
  /\ \A p \in Pages : WF_vars(Recover(p))
  /\ \A s \in Sessions : WF_vars(Expire(s)) /\ WF_vars(ReportLoss(s))

FairSpec == Spec /\ Fairness

-----------------------------------------------------------------------------
(* Properties                                                              *)

TypeOK ==
  /\ SessionTypeOK
  /\ cred \in Links /\ url \in Links
  /\ rot \in {"idle", "session", "token", "cleared", "held"}
  /\ loop \in {"down", "dialing", "connecting", "accepted", "open"}
  /\ ws \in {"none", "live", "stale"} /\ held \in {"none", "live", "stale"}
  /\ orders \subseteq {"revoke", "close"}
  /\ ciphers \subseteq Pages \X Nat
  /\ inbox \subseteq Frame
  /\ replies \subseteq Pages \X Nat
  /\ page \in [Pages -> {"off", "open", "ready", "revoked"}]
  /\ link \in [Pages -> Links \cup {NoLink}]
  /\ conn \in [Pages -> Nat]
  /\ drops \in Nat /\ gap \in BOOLEAN /\ late \subseteq Pages

\* A page that completed its handshake on the session the daemon is serving can be
\* decrypted: the daemon holds the key of that very connection, unless a rotation
\* is under way or its close is still to come, one fell into the threads' gaps, or the
\* relay left the page's socket open when it lost an earlier daemon.
\* (The page never handshakes twice on one connection: asked to by "handshake_required"
\* it shows an error, and stays mute; a second rotation after one that closed nothing
\* leaves it like that, too.)
ReadyPageHasKey ==
  \A p \in Pages \ stranded :
    /\ ~gap
    /\ page[p] = "ready"
    /\ p \in attached[link[p].sid]
    /\ loop = "open" /\ url.sid = link[p].sid
    /\ rot = "idle" /\ orders = {}
    => <<p, conn[p]>> \in ciphers

\* "The old link is dead": chat from a page on a rotated link runs only if the
\* rotation fell into one of the two gaps the threads leave open.
\* And the daemon is online with the credentials on show.
LateOnlyThroughGap ==
  ~gap => /\ late = {}
          /\ loop = "open" /\ rot = "idle" /\ orders = {} => url = cred

\* rotate_token() is "forcing a reconnect" that "will pick up the new credentials":
\* a daemon that is online after a rotation is online with the new ones.
RotationTakesEffect ==
  loop = "open" /\ rot = "idle" /\ orders = {} => url = cred

\* Whatever the network and the rotations do, the daemon gets back online.
DaemonComesBack == loop # "open" ~> loop = "open"

\* A page with the current link gets through to the daemon again, unless the
\* session is full, the link is replaced, the page was locked by a revocation, or the
\* relay left it on a socket that nobody will ever answer or close.
Full(s) == Cardinality(attached[s]) + ghosts[s] >= MaxClients

PagePairs ==
  \A p \in Pages :
    (page[p] = "off" /\ link[p] = cred)
      ~> \/ page[p] \in {"ready", "revoked"} \/ link[p] # cred
         \/ gap \/ Full(link[p].sid) \/ p \in stranded

\* Rotating an open connection ends the session rotated away for good: no daemon serves
\* it again, and no page is connected to it but those the relay failed to close.
RotationCutsOff ==
  \A s \in Sessions :
    (rot = "held" /\ held = "live" /\ loop = "open" /\ url.sid = s /\ s # cred.sid)
      ~> [](daemonAt[s] = "none" /\ attached[s] \subseteq stranded)
=============================================================================
