---------------------------- MODULE RelayProofs -----------------------------
(***************************************************************************)
(* Proofs about Relay, for any number of pages, links and failures.        *)
(*                                                                         *)
(* The two threads of the daemon meet in self.ws: SocketInv says what a    *)
(* value of it tells about the connection.  A connection of a page is      *)
(* identified by its number, used once (FrameInv); from there KeyInv       *)
(* follows a key from the handshake to the rotation, and LateInv a         *)
(* rotation to the reconnect.                                              *)
(***************************************************************************)
EXTENDS Relay, TLAPS

USE SessionAssumption, RelayAssumption DEF Sessions, Tokens

-----------------------------------------------------------------------------
(* Types                                                                   *)

\* The token is replaced after the session id, and the two match outside a rotation.
CredInv == IF rot = "session" THEN cred.sid = cred.tok + 1 ELSE cred.sid = cred.tok

TypeInv == TypeOK /\ CredInv

LEMMA InitTyped == Init => TypeInv
<1> SUFFICES ASSUME Init PROVE TypeInv
  OBVIOUS
<1>1. SessionTypeOK
  BY DEF Init, SessionInit, SessionTypeOK
<1>2. Link(0) \in Links /\ Link(0).sid = 0 /\ Link(0).tok = 0
  BY DEF Link, Links
<1> QED BY <1>1, <1>2 DEF Init, TypeInv, CredInv, TypeOK

\* The ways a daemon's socket goes.
Ends(s) == (\E reserved \in BOOLEAN : CloseDaemon(s, reserved)) \/ FailDaemon(s) \/ LoseDaemon(s)

LEMMA WaysToEnd ==
  ASSUME NEW s, Ends(s)
  PROVE  \/ TearDown(s, NoToken) \/ TearDown(s, storedTok[s]) \/ Abandon(s) \/ LoseDaemon(s)
BY DEF Ends, CloseDaemon, FailDaemon

\* Every one of them leaves the session object well formed.
LEMMA EndsTyped ==
  ASSUME SessionTypeOK, NEW s \in Sessions, Ends(s)
  PROVE  SessionTypeOK'
<1>1. storedTok[s] \in Tokens \cup {NoToken}
  BY DEF SessionTypeOK
<1>2. ASSUME NEW tok \in Tokens \cup {NoToken}, TearDown(s, tok)
      PROVE  SessionTypeOK'
  BY <1>2 DEF SessionTypeOK, TearDown
<1>3. ASSUME LoseDaemon(s)
      PROVE  SessionTypeOK'
  BY <1>3 DEF SessionTypeOK, LoseDaemon
<1>4. ASSUME Abandon(s)
      PROVE  SessionTypeOK'
  BY <1>4 DEF SessionTypeOK, Abandon
<1> QED BY <1>1, <1>2, <1>3, <1>4, WaysToEnd

LEMMA DetachTyped ==
  ASSUME SessionTypeOK, NEW s \in Sessions, NEW p, NEW silently \in BOOLEAN,
         DetachPage(s, p, silently)
  PROVE  SessionTypeOK'
<1>1. ghosts' = [ghosts EXCEPT ![s] = @ + 1] \/ ghosts' = [ghosts EXCEPT ![s] = @]
  BY Zenon DEF DetachPage
<1>2. attached' \in [Sessions -> SUBSET Pages]
  BY DEF SessionTypeOK, DetachPage
<1>3. ghosts' \in [Sessions -> Nat]
  <2>1. ghosts[s] \in Nat /\ ghosts[s] + 1 \in Nat
    BY DEF SessionTypeOK
  <2> QED BY <1>1, <2>1, Zenon DEF SessionTypeOK
<1> QED BY <1>2, <1>3 DEF SessionTypeOK, DetachPage

\* What TypeInv says of the daemon, of the frames, of the pages and of the marks.
DaemonTypes ==
  /\ cred \in Links /\ url \in Links /\ CredInv
  /\ rot \in {"idle", "session", "token", "cleared", "held"}
  /\ loop \in {"down", "dialing", "connecting", "accepted", "open"}
  /\ ws \in {"none", "live", "stale"} /\ held \in {"none", "live", "stale"}
  /\ orders \subseteq {"revoke", "close"}
  /\ ciphers \subseteq Pages \X Nat

FramesTyped == inbox \subseteq Frame /\ replies \subseteq Pages \X Nat

PageTypes ==
  /\ page \in [Pages -> {"off", "open", "ready", "revoked"}]
  /\ link \in [Pages -> Links \cup {NoLink}]
  /\ conn \in [Pages -> Nat]

MarkTypes == drops \in Nat /\ gap \in BOOLEAN /\ late \subseteq Pages

Parts == SessionTypeOK /\ DaemonTypes /\ FramesTyped /\ PageTypes /\ MarkTypes

LEMMA TypeParts == (TypeInv => Parts) /\ (Parts' => TypeInv')
<1>1. TypeInv => Parts
  BY Zenon DEF Parts, TypeInv, TypeOK, DaemonTypes, FramesTyped, PageTypes, MarkTypes
<1>2. Parts' => TypeInv'
  BY Zenon DEF Parts, TypeInv, TypeOK, DaemonTypes, FramesTyped, PageTypes, MarkTypes
<1> QED BY <1>1, <1>2

\* A part whose variables a step leaves alone stays well formed.
LEMMA PartsKept ==
  /\ SessionTypeOK /\ UNCHANGED sessionVars => SessionTypeOK'
  /\ DaemonTypes /\ UNCHANGED daemonVars => DaemonTypes'
  /\ FramesTyped /\ UNCHANGED frames => FramesTyped'
  /\ PageTypes /\ UNCHANGED pageVars => PageTypes'
  /\ MarkTypes /\ UNCHANGED <<drops, gap, late>> => MarkTypes'
<1>1. SessionTypeOK /\ UNCHANGED sessionVars => SessionTypeOK'
  BY DEF SessionTypeOK, sessionVars
<1>2. DaemonTypes /\ UNCHANGED daemonVars => DaemonTypes'
  BY DEF DaemonTypes, CredInv, daemonVars
<1>3. FramesTyped /\ UNCHANGED frames => FramesTyped'
  BY DEF FramesTyped, frames
<1>4. PageTypes /\ UNCHANGED pageVars => PageTypes'
  BY DEF PageTypes, pageVars
<1>5. MarkTypes /\ UNCHANGED <<drops, gap, late>> => MarkTypes'
  BY DEF MarkTypes
<1> QED BY <1>1, <1>2, <1>3, <1>4, <1>5

\* The relay thread: what _connect and the end of a connection do to the daemon.
LEMMA ConnectTypes ==
  ASSUME DaemonTypes, DialSession \/ DialToken \/ Accepted \/ Refused \/ DialFails \/ Opened
  PROVE  DaemonTypes'
<1>1. ASSUME DialSession \/ DialToken PROVE DaemonTypes'
  <2>1. url' \in Links
    BY <1>1 DEF DaemonTypes, DialSession, DialToken, Links
  <2>2. loop' \in {"dialing", "connecting"}
        /\ UNCHANGED <<cred, rot, held, ws, orders, ciphers>>
    BY <1>1 DEF DialSession, DialToken
  <2> QED BY <2>1, <2>2 DEF DaemonTypes, CredInv
<1>2. ASSUME Accepted \/ Refused \/ DialFails PROVE DaemonTypes'
  <2>1. loop' \in {"accepted", "down"}
        /\ UNCHANGED <<cred, rot, held, url, ws, orders, ciphers>>
    BY <1>2 DEF Accepted, Refused, DialFails
  <2> QED BY <2>1 DEF DaemonTypes, CredInv
<1>3. ASSUME Opened PROVE DaemonTypes'
  <2>1. /\ loop' = "open" /\ ws' = "live" /\ ciphers' = {}
        /\ UNCHANGED <<cred, rot, held, url, orders>>
    BY <1>3 DEF Opened
  <2> QED BY <2>1 DEF DaemonTypes, CredInv
<1> QED BY <1>1, <1>2, <1>3

LEMMA DisconnectTypes ==
  ASSUME DaemonTypes, FramesTyped, Disconnected
  PROVE  DaemonTypes' /\ FramesTyped'
<1>1. /\ loop' = "down" /\ orders' = {} /\ UNCHANGED <<cred, rot, url, ciphers>>
      /\ ws' \in {"none", "stale"} /\ held' \in {"none", "stale"}
  BY DEF Disconnected, Ended, DaemonTypes
<1>2. inbox' = {} /\ replies' = replies
  BY DEF Disconnected
<1> QED BY <1>1, <1>2 DEF DaemonTypes, CredInv, FramesTyped

\* The web server's thread: revoke_all() and rotate_token().
LEMMA RotationTypes ==
  ASSUME DaemonTypes, NEW revoke \in BOOLEAN, Rotate(revoke) \/ Finish
  PROVE  DaemonTypes'
<1>1. ASSUME Rotate(revoke) PROVE DaemonTypes'
  <2>1. cred' \in Links /\ cred'.sid = cred'.tok + 1
    BY <1>1 DEF Rotate, DaemonTypes, CredInv, Links
  <2>2. orders' \subseteq {"revoke", "close"}
    BY <1>1 DEF Rotate, DaemonTypes
  <2>3. rot' = "session" /\ UNCHANGED <<held, loop, url, ws, ciphers>>
    BY <1>1 DEF Rotate
  <2> QED BY <2>1, <2>2, <2>3 DEF DaemonTypes, CredInv
<1>2. ASSUME RotateToken PROVE DaemonTypes'
  <2>1. cred' \in Links /\ cred'.sid = cred'.tok
    BY <1>2 DEF RotateToken, DaemonTypes, CredInv, Links
  <2>2. rot' = "token" /\ UNCHANGED <<held, loop, url, ws, orders, ciphers>>
    BY <1>2 DEF RotateToken
  <2> QED BY <2>1, <2>2 DEF DaemonTypes, CredInv
<1>3. ASSUME RotateClear \/ RotateHold PROVE DaemonTypes'
  <2>1. rot \in {"token", "cleared"} /\ rot' \in {"cleared", "held"}
    BY <1>3 DEF RotateClear, RotateHold
  <2>2. /\ ciphers' \in {ciphers, {}} /\ held' \in {held, ws}
        /\ UNCHANGED <<cred, loop, url, ws, orders>>
    BY <1>3 DEF RotateClear, RotateHold
  <2> QED BY <2>1, <2>2 DEF DaemonTypes, CredInv
<1>4. ASSUME RotateClose PROVE DaemonTypes'
  <2>1. rot = "held" /\ rot' = "idle" /\ held' = "none" /\ ws' \in {ws, "none"}
    BY <1>4 DEF RotateClose
  <2>2. orders' \subseteq orders \cup {"close"} /\ UNCHANGED <<cred, loop, url, ciphers>>
    BY <1>4 DEF RotateClose
  <2> QED BY <2>1, <2>2 DEF DaemonTypes, CredInv
<1> QED BY <1>1, <1>2, <1>3, <1>4 DEF Finish

\* Every frame in flight belongs to a page and a number of a connection.
LEMMA FramesTypes ==
  ASSUME FramesTyped, PageTypes,
         \/ \E p \in Pages : Join(p) \/ Secure(p) \/ Chat(p)
         \/ \E f \in inbox : Take(f) /\ (replies' = replies
                                         \/ replies' = replies \cup {<<f.page, f.conn>>})
  PROVE  FramesTyped'
<1>1. ASSUME NEW p \in Pages, Join(p) \/ Chat(p) PROVE FramesTyped'
  <2>1. conn' \in [Pages -> Nat]
    BY <1>1 DEF PageTypes, Join, Chat, pageVars
  <2>2. PICK kind \in {"handshake", "chat"} :
          inbox' = Forwarded(link[p].sid, [kind |-> kind, page |-> p, conn |-> conn'[p]])
    BY <1>1 DEF Join, Chat, pageVars
  <2>3. [kind |-> kind, page |-> p, conn |-> conn'[p]] \in Frame
    BY <2>1 DEF Frame
  <2>4. replies' = replies
    BY <1>1 DEF Join, Chat
  <2> QED BY <2>2, <2>3, <2>4 DEF FramesTyped, Forwarded
<1>2. ASSUME NEW p \in Pages, Secure(p) PROVE FramesTyped'
  BY <1>2 DEF FramesTyped, Secure
<1>3. ASSUME NEW f \in inbox, Take(f),
             replies' = replies \/ replies' = replies \cup {<<f.page, f.conn>>}
      PROVE  FramesTyped'
  <2>1. <<f.page, f.conn>> \in Pages \X Nat
    BY DEF FramesTyped, Frame
  <2> QED BY <1>3, <2>1 DEF FramesTyped, Take
<1> QED BY <1>1, <1>2, <1>3

\* The pages: their state and the number of their connection.
LEMMA PagesTypes ==
  ASSUME PageTypes, cred \in Links, NEW p \in Pages, NEW silently \in BOOLEAN,
         Scan(p) \/ Join(p) \/ Secure(p) \/ PageDrop(p, silently) \/ PageClosed(p)
  PROVE  PageTypes'
<1>1. page' \in [Pages -> {"off", "open", "ready", "revoked"}]
  <2>1. PICK how \in {"off", "open", "ready", "revoked"} : page' = [page EXCEPT ![p] = how]
    BY DEF Scan, Join, Secure, PageDrop, PageClosed
  <2> QED BY <2>1 DEF PageTypes
<1>2. link' = link \/ link' = [link EXCEPT ![p] = cred]
  BY DEF Scan, Join, Secure, PageDrop, PageClosed
<1>3. conn' = conn \/ conn' = [conn EXCEPT ![p] = @ + 1]
  BY DEF Scan, Join, Secure, PageDrop, PageClosed
<1>4. conn' \in [Pages -> Nat]
  BY <1>3 DEF PageTypes
<1> QED BY <1>1, <1>2, <1>4 DEF PageTypes

LEMMA TypePreserved == TypeInv /\ [Next]_vars => TypeInv'
<1> SUFFICES ASSUME TypeInv, [Next]_vars PROVE TypeInv'
  OBVIOUS
<1>0. /\ SessionTypeOK /\ DaemonTypes /\ FramesTyped /\ PageTypes /\ MarkTypes
      /\ SessionTypeOK' /\ DaemonTypes' /\ FramesTyped' /\ PageTypes' /\ MarkTypes' => TypeInv'
  BY TypeParts DEF Parts
<1>url. url.sid \in Sessions /\ url.tok \in Tokens /\ cred \in Links
  BY <1>0 DEF DaemonTypes, Links
<1>link. \A p \in Pages : link[p].sid \in Sessions
  BY <1>0 DEF PageTypes, Links, NoLink
<1>1. ASSUME DialSession \/ DialToken \/ Accepted \/ Refused \/ DialFails \/ Opened
      PROVE  TypeInv'
  <2>1. SessionTypeOK'
    <3>1. CASE Accepted
      BY <1>0, <1>url, <3>1 DEF Accepted, AdmitDaemon, SessionTypeOK
    <3>2. CASE ~Accepted
      BY <1>0, <1>1, <3>2, PartsKept DEF DialSession, DialToken, Refused, DialFails, Opened
    <3> QED BY <3>1, <3>2
  <2>2. UNCHANGED <<frames, pageVars, gap, late>> /\ drops' \in {drops, drops + 1}
    BY <1>1 DEF DialSession, DialToken, Accepted, Refused, DialFails, Opened
  <2>3. MarkTypes'
    BY <1>0, <2>2 DEF MarkTypes
  <2> QED BY <1>0, <1>1, <2>1, <2>2, <2>3, ConnectTypes, PartsKept
<1>2. ASSUME Drop \/ CloseSocket PROVE TypeInv'
  <2>1. SessionTypeOK'
    BY <1>0, <1>url, <1>2, EndsTyped DEF Drop, CloseSocket, Ends
  <2>2. Disconnected /\ drops' \in {drops, drops + 1} /\ UNCHANGED <<pageVars, gap, late>>
    BY <1>2 DEF Drop, CloseSocket, Disconnected
  <2>3. MarkTypes'
    BY <1>0, <2>2 DEF MarkTypes
  <2> QED BY <1>0, <2>1, <2>2, <2>3, DisconnectTypes, PartsKept
<1>3. ASSUME SendRevoke PROVE TypeInv'
  <2>1. SessionTypeOK'
    BY <1>0, <1>url, <1>3 DEF SendRevoke, RevokeAllClients, SessionTypeOK
  <2>2. /\ orders' \subseteq orders /\ UNCHANGED <<cred, rot, held, loop, url, ws, ciphers>>
        /\ UNCHANGED <<frames, pageVars, drops, gap, late>>
    BY <1>3 DEF SendRevoke
  <2>3. DaemonTypes'
    BY <1>0, <2>2 DEF DaemonTypes, CredInv
  <2> QED BY <1>0, <2>1, <2>2, <2>3, PartsKept
<1>4. ASSUME NEW revoke \in BOOLEAN, Rotate(revoke) \/ Finish PROVE TypeInv'
  <2>1. UNCHANGED <<sessionVars, frames, pageVars, drops, late>>
    BY <1>4 DEF Rotate, Finish, RotateToken, RotateClear, RotateHold, RotateClose
  <2>2. gap' \in BOOLEAN
    BY <1>0, <1>4, Zenon
       DEF MarkTypes, Rotate, Finish, RotateToken, RotateClear, RotateHold, RotateClose
  <2>3. MarkTypes'
    BY <1>0, <2>1, <2>2 DEF MarkTypes
  <2> QED BY <1>0, <1>4, <2>1, <2>3, RotationTypes, PartsKept
<1>5. ASSUME NEW p \in Pages, Scan(p) PROVE TypeInv'
  <2>1. UNCHANGED <<sessionVars, daemonVars, frames, drops, gap, late>>
    BY <1>5 DEF Scan
  <2> QED BY <1>0, <1>url, <1>5, <2>1, PagesTypes, PartsKept
<1>6. ASSUME NEW p \in Pages, Join(p) PROVE TypeInv'
  <2>1. SessionTypeOK'
    <3>1. AdmitPage(link[p].sid, link[p].tok, p)
      BY <1>6 DEF Join
    <3> QED BY <1>0, <1>link, <3>1 DEF AdmitPage, SessionTypeOK
  <2>2. UNCHANGED <<daemonVars, drops, gap, late>>
    BY <1>6 DEF Join
  <2> QED BY <1>0, <1>url, <1>6, <2>1, <2>2, FramesTypes, PagesTypes, PartsKept
<1>7. ASSUME NEW p \in Pages, Secure(p) PROVE TypeInv'
  <2>1. UNCHANGED <<sessionVars, daemonVars, drops, gap, late>>
    BY <1>7 DEF Secure
  <2> QED BY <1>0, <1>url, <1>7, <2>1, FramesTypes, PagesTypes, PartsKept
<1>8. ASSUME NEW p \in Pages, Chat(p) PROVE TypeInv'
  <2>1. UNCHANGED <<sessionVars, daemonVars, pageVars, drops, gap, late>>
    BY <1>8 DEF Chat
  <2> QED BY <1>0, <1>8, <2>1, FramesTypes, PartsKept
<1>9. ASSUME NEW p \in Pages, NEW silently \in BOOLEAN, PageDrop(p, silently) PROVE TypeInv'
  <2>1. SessionTypeOK'
    BY <1>0, <1>link, <1>9, DetachTyped DEF PageDrop
  <2>2. UNCHANGED <<daemonVars, frames, gap, late>> /\ drops' = drops + 1
    BY <1>9 DEF PageDrop
  <2>3. MarkTypes'
    BY <1>0, <2>2 DEF MarkTypes
  <2> QED BY <1>0, <1>url, <1>9, <2>1, <2>2, <2>3, PagesTypes, PartsKept
<1>10. ASSUME NEW p \in Pages, PageClosed(p) PROVE TypeInv'
  <2>1. SessionTypeOK'
    BY <1>0, <1>10 DEF PageClosed, SessionTypeOK
  <2>2. UNCHANGED <<daemonVars, frames, drops, gap, late>>
    BY <1>10 DEF PageClosed
  <2> QED BY <1>0, <1>url, <1>10, <2>1, <2>2, PagesTypes, PartsKept
<1>11. ASSUME NEW f \in inbox, HandleHandshake(f) PROVE TypeInv'
  <2>1. UNCHANGED <<sessionVars, pageVars, drops, late>>
        /\ UNCHANGED <<cred, rot, held, loop, url, ws, orders>>
    BY <1>11 DEF HandleHandshake
  <2>2. /\ Take(f) /\ ciphers' = ciphers \cup {<<f.page, f.conn>>}
        /\ replies' = replies \/ replies' = replies \cup {<<f.page, f.conn>>}
    BY <1>11 DEF HandleHandshake
  <2>3. <<f.page, f.conn>> \in Pages \X Nat
    BY <1>0 DEF FramesTyped, Frame
  <2>4. DaemonTypes'
    BY <1>0, <2>1, <2>2, <2>3 DEF DaemonTypes, CredInv
  <2>5. gap' \in BOOLEAN
    BY <1>0, <1>11, Zenon DEF HandleHandshake, MarkTypes
  <2>6. MarkTypes'
    BY <1>0, <2>1, <2>5 DEF MarkTypes
  <2> QED BY <1>0, <2>1, <2>2, <2>4, <2>6, FramesTypes, PartsKept
<1>12. ASSUME NEW f \in inbox, HandleChat(f) PROVE TypeInv'
  <2>1. /\ UNCHANGED <<sessionVars, daemonVars, replies, pageVars, drops, gap>>
        /\ Take(f) /\ late' \subseteq late \cup {f.page}
    BY <1>12 DEF HandleChat
  <2>2. f.page \in Pages
    BY <1>0 DEF FramesTyped, Frame
  <2>3. MarkTypes'
    BY <1>0, <2>1, <2>2 DEF MarkTypes
  <2> QED BY <1>0, <2>1, <2>3, FramesTypes, PartsKept
<1>13. ASSUME NEW s \in Sessions, Expire(s) \/ ReportLoss(s) PROVE TypeInv'
  <2>1. SessionTypeOK'
    BY <1>0, <1>13, EndsTyped DEF Expire, Alarm, ReportLoss, Ends
  <2>2. UNCHANGED <<daemonVars, frames, pageVars, drops, gap, late>>
    BY <1>13 DEF Expire, ReportLoss
  <2> QED BY <1>0, <2>1, <2>2, PartsKept
<1>14. ASSUME UNCHANGED vars PROVE TypeInv'
  BY <1>0, <1>14, PartsKept DEF vars
<1>15. (\E revoke \in BOOLEAN : Rotate(revoke)) \/ Finish => TypeInv'
  <2>1. TRUE \in BOOLEAN
    OBVIOUS
  <2> QED BY <1>4, <2>1
<1> QED BY <1>1, <1>2, <1>3, <1>5, <1>6, <1>7, <1>8, <1>9, <1>10, <1>11, <1>12, <1>13, <1>14,
           <1>15 DEF Next, Connect, Recover, Handle

\* The state of both threads, of the session objects and of the pages is well formed.
THEOREM WellFormed == Spec => []TypeOK
<1>1. TypeInv => TypeOK
  BY DEF TypeInv
<1> QED BY InitTyped, TypePreserved, <1>1, PTL DEF Spec

LEMMA Typed == Spec => []TypeInv
BY InitTyped, TypePreserved, PTL DEF Spec

-----------------------------------------------------------------------------
(* What self.ws tells about the connection                                 *)

\* A socket that is live is the one of the open connection; what is ordered of it is
\* ordered while it is open; it is never live again once its close is ordered.
SocketInv ==
  /\ ws = "live" => loop = "open"
  /\ held = "live" => loop = "open"
  /\ held # "none" => rot = "held"
  /\ orders # {} => loop = "open"
  /\ "close" \in orders => ws = "none"

LEMMA SocketPreserved == SocketInv /\ [Next]_vars => SocketInv'
<1> SUFFICES ASSUME SocketInv, [Next]_vars PROVE SocketInv'
  OBVIOUS
<1> USE DEF SocketInv
<1>1. ASSUME Connect \/ DialFails PROVE SocketInv'
  BY <1>1 DEF Connect, DialFails, DialSession, DialToken, Accepted, Refused, Opened
<1>2. ASSUME Drop \/ CloseSocket PROVE SocketInv'
  BY <1>2 DEF Drop, CloseSocket, Disconnected, Ended
<1>3. ASSUME SendRevoke PROVE SocketInv'
  BY <1>3 DEF SendRevoke
<1>4. ASSUME NEW revoke \in BOOLEAN, Rotate(revoke) PROVE SocketInv'
  <2>1. /\ rot' = "session" /\ rot = "idle" /\ UNCHANGED <<ws, held, loop>>
    BY <1>4 DEF Rotate
  <2>2. orders' = orders \/ (ws = "live" /\ orders' = orders \cup {"revoke"})
    BY <1>4, Zenon DEF Rotate
  <2> QED BY <2>1, <2>2
<1>5. ASSUME Finish PROVE SocketInv'
  BY <1>5 DEF Finish, RotateToken, RotateClear, RotateHold, RotateClose
<1>6. ASSUME NEW p \in Pages,
             \/ Scan(p) \/ Recover(p) \/ Chat(p) \/ \E silently \in BOOLEAN : PageDrop(p, silently)
      PROVE  SocketInv'
  BY <1>6 DEF Scan, Recover, Join, Secure, PageClosed, Chat, PageDrop, daemonVars
<1>7. ASSUME Handle PROVE SocketInv'
  BY <1>7 DEF Handle, HandleHandshake, HandleChat, Take, daemonVars
<1>8. ASSUME NEW s \in Sessions, Expire(s) \/ ReportLoss(s) PROVE SocketInv'
  BY <1>8 DEF Expire, ReportLoss, daemonVars
<1>9. ASSUME UNCHANGED vars PROVE SocketInv'
  BY <1>9 DEF vars, daemonVars
<1> QED BY <1>1, <1>2, <1>3, <1>4, <1>5, <1>6, <1>7, <1>8, <1>9 DEF Next

-----------------------------------------------------------------------------
(* The pages a session object holds                                        *)

\* A page is attached to the session of its link only, and to one without a daemon only
\* if the relay failed to close it.
AttachInv ==
  /\ \A s \in Sessions : \A p \in attached[s] : s = link[p].sid /\ page[p] \in {"open", "ready"}
  /\ \A s \in Sessions : daemonAt[s] = "none" => attached[s] \subseteq stranded

\* A step by which no page joins, and none that was stranded is forgotten.
Shrinks ==
  \A t \in Sessions : /\ attached'[t] \subseteq attached[t]
                      /\ attached'[t] \cap stranded \subseteq stranded'

\* What the handlers do to the attached pages.
LEMMA TornDown ==
  ASSUME SessionTypeOK, AttachInv, NEW s \in Sessions, Ends(s)
  PROVE  /\ Shrinks
         /\ \A t \in Sessions : daemonAt'[t] = "none" =>
              attached'[t] \subseteq stranded' \/ daemonAt[t] = "none"
<1>1. ASSUME NEW tok, TearDown(s, tok)
      PROVE  /\ Shrinks
             /\ \A t \in Sessions : daemonAt'[t] = "none" =>
                  attached'[t] \subseteq stranded' \/ daemonAt[t] = "none"
  <2>1. /\ attached'[s] = {} /\ stranded' = stranded \ attached[s]
        /\ \A t \in Sessions \ {s} : attached'[t] = attached[t] /\ daemonAt'[t] = daemonAt[t]
    BY <1>1 DEF TearDown, SessionTypeOK
  <2>2. \A t \in Sessions \ {s} : attached[t] \cap attached[s] = {}
    BY DEF AttachInv
  <2> QED BY <2>1, <2>2 DEF Shrinks
<1>2. ASSUME Abandon(s) \/ LoseDaemon(s)
      PROVE  /\ Shrinks
             /\ \A t \in Sessions : daemonAt'[t] = "none" =>
                  attached'[t] \subseteq stranded' \/ daemonAt[t] = "none"
  BY <1>2 DEF SessionTypeOK, Abandon, LoseDaemon, Shrinks
<1> QED BY <1>1, <1>2, WaysToEnd

LEMMA FewerAttached ==
  ASSUME AttachInv, UNCHANGED <<page, link>>, Shrinks,
         \A t \in Sessions : daemonAt'[t] = "none" =>
           attached'[t] \subseteq stranded' \/ daemonAt[t] = "none"
  PROVE  AttachInv'
<1>1. \A s \in Sessions : \A p \in attached'[s] : s = link'[p].sid /\ page'[p] \in {"open", "ready"}
  BY DEF AttachInv, Shrinks
<1>2. \A s \in Sessions : daemonAt'[s] = "none" => attached'[s] \subseteq stranded'
  BY DEF AttachInv, Shrinks
<1> QED BY <1>1, <1>2 DEF AttachInv

LEMMA RevokedAll ==
  ASSUME SessionTypeOK, AttachInv, NEW s \in Sessions, RevokeAllClients(s)
  PROVE  Shrinks /\ daemonAt' = daemonAt
<1>1. /\ attached'[s] = {} /\ stranded' = stranded \ attached[s] /\ daemonAt' = daemonAt
      /\ \A t \in Sessions \ {s} : attached'[t] = attached[t]
  BY DEF RevokeAllClients, SessionTypeOK
<1>2. \A t \in Sessions \ {s} : attached[t] \cap attached[s] = {}
  BY DEF AttachInv
<1> QED BY <1>1, <1>2 DEF Shrinks

LEMMA Detached ==
  ASSUME SessionTypeOK, AttachInv, NEW p \in Pages, link[p].sid \in Sessions,
         NEW silently \in BOOLEAN, DetachPage(link[p].sid, p, silently)
  PROVE  /\ Shrinks /\ UNCHANGED daemonAt
         /\ \A t \in Sessions : attached'[t] = attached[t] \ {p}
         /\ stranded' = stranded \ {p}
<1>1. UNCHANGED daemonAt /\ attached' = [attached EXCEPT ![link[p].sid] = @ \ {p}]
      /\ stranded' = stranded \ {p}
  BY DEF DetachPage
<1>2. \A t \in Sessions \ {link[p].sid} : p \notin attached[t]
  BY DEF AttachInv
<1>3. \A t \in Sessions : attached'[t] = attached[t] \ {p}
  BY <1>1, <1>2 DEF SessionTypeOK
<1> QED BY <1>1, <1>3 DEF Shrinks

LEMMA AttachPreserved == TypeInv /\ AttachInv /\ [Next]_vars => AttachInv'
<1> SUFFICES ASSUME TypeInv, AttachInv, [Next]_vars PROVE AttachInv'
  OBVIOUS
<1>0. /\ SessionTypeOK /\ page \in [Pages -> {"off", "open", "ready", "revoked"}]
      /\ link \in [Pages -> Links \cup {NoLink}]
      /\ \A p \in Pages : link[p].sid \in Sessions
      /\ url.sid \in Sessions
  BY DEF TypeInv, TypeOK, Links, NoLink
<1>1. ASSUME Accepted PROVE AttachInv'
  <2>1. /\ \A t \in Sessions : attached'[t] = attached[t] /\ (daemonAt'[t] = "none" => daemonAt[t] = "none")
        /\ UNCHANGED <<page, link, stranded>>
    BY <1>0, <1>1 DEF Accepted, AdmitDaemon, SessionTypeOK, pageVars
  <2> QED BY <2>1, FewerAttached DEF Shrinks
<1>2. ASSUME Drop \/ CloseSocket PROVE AttachInv'
  <2>1. Ends(url.sid)
    BY <1>2 DEF Drop, CloseSocket, Ends
  <2>2. UNCHANGED <<page, link>>
    BY <1>2 DEF Drop, CloseSocket, Disconnected, pageVars
  <2> QED BY <1>0, <2>1, <2>2, TornDown, FewerAttached
<1>3. ASSUME SendRevoke PROVE AttachInv'
  <2>1. RevokeAllClients(url.sid) /\ UNCHANGED <<page, link>>
    BY <1>3 DEF SendRevoke, pageVars
  <2>2. Shrinks /\ daemonAt' = daemonAt
    BY <1>0, <2>1, RevokedAll
  <2> QED BY <2>1, <2>2, FewerAttached
<1>4. ASSUME NEW s \in Sessions, Expire(s) \/ ReportLoss(s) PROVE AttachInv'
  <2>1. Ends(s) /\ UNCHANGED <<page, link>>
    BY <1>4 DEF Expire, Alarm, ReportLoss, pageVars, Ends
  <2> QED BY <1>0, <2>1, TornDown, FewerAttached
<1>5. ASSUME NEW p \in Pages, Scan(p) PROVE AttachInv'
  <2>1. page[p] \in {"off", "revoked"} /\ UNCHANGED <<attached, daemonAt, stranded>>
        /\ \A q \in Pages \ {p} : page'[q] = page[q] /\ link'[q] = link[q]
    BY <1>0, <1>5 DEF Scan, sessionVars
  <2>2. \A s \in Sessions : p \notin attached[s] /\ attached[s] \subseteq Pages
    BY <1>0, <2>1 DEF AttachInv, SessionTypeOK
  <2> QED BY <2>1, <2>2 DEF AttachInv
<1>6. ASSUME NEW p \in Pages, Join(p) PROVE AttachInv'
  <2>1. /\ page[p] = "off" /\ UNCHANGED <<daemonAt, link, stranded>> /\ daemonAt[link[p].sid] # "none"
        /\ page'[p] = "open" /\ \A q \in Pages \ {p} : page'[q] = page[q]
        /\ attached'[link[p].sid] = attached[link[p].sid] \cup {p}
        /\ \A t \in Sessions \ {link[p].sid} : attached'[t] = attached[t]
    BY <1>0, <1>6 DEF Join, AdmitPage, Admits, SessionTypeOK
  <2>2. \A s \in Sessions : p \notin attached[s] /\ attached[s] \subseteq Pages
    BY <1>0, <2>1 DEF AttachInv, SessionTypeOK
  <2> QED BY <1>0, <2>1, <2>2 DEF AttachInv
<1>7. ASSUME NEW p \in Pages, Secure(p) PROVE AttachInv'
  <2>1. /\ UNCHANGED <<daemonAt, attached, stranded, link>>
        /\ page'[p] = "ready" /\ \A q \in Pages \ {p} : page'[q] = page[q]
    BY <1>0, <1>7 DEF Secure, sessionVars
  <2>2. \A s \in Sessions : attached[s] \subseteq Pages
    BY <1>0 DEF SessionTypeOK
  <2> QED BY <2>1, <2>2 DEF AttachInv
<1>8. ASSUME NEW p \in Pages, NEW silently \in BOOLEAN, PageDrop(p, silently) PROVE AttachInv'
  <2>1. DetachPage(link[p].sid, p, silently) /\ page' = [page EXCEPT ![p] = "off"]
    BY <1>8 DEF PageDrop
  <2>2. link' = link
    BY <1>8 DEF PageDrop
  <2>3. /\ daemonAt' = daemonAt /\ stranded' = stranded \ {p}
        /\ \A t \in Sessions : attached'[t] = attached[t] \ {p}
    BY <1>0, <2>1, Detached
  <2>4. \A s \in Sessions : attached[s] \subseteq Pages
    BY <1>0 DEF SessionTypeOK
  <2>5. \A q \in Pages \ {p} : page'[q] = page[q]
    BY <1>0, <2>1
  <2> QED BY <2>2, <2>3, <2>4, <2>5 DEF AttachInv
<1>9. ASSUME NEW p \in Pages, PageClosed(p) PROVE AttachInv'
  <2>1. /\ UNCHANGED <<daemonAt, attached, stranded, link>> /\ p \notin attached[link[p].sid]
        /\ \A q \in Pages \ {p} : page'[q] = page[q]
    BY <1>0, <1>9 DEF PageClosed
  <2>2. \A s \in Sessions : p \notin attached[s] /\ attached[s] \subseteq Pages
    BY <1>0, <2>1 DEF AttachInv, SessionTypeOK
  <2> QED BY <2>1, <2>2 DEF AttachInv
<1>10. ASSUME UNCHANGED <<sessionVars, page, link>> PROVE AttachInv'
  BY <1>10 DEF AttachInv, sessionVars
<1>11. ASSUME \/ DialSession \/ DialToken \/ Refused \/ Opened \/ DialFails \/ Finish \/ Handle
              \/ (\E revoke \in BOOLEAN : Rotate(revoke)) \/ (\E p \in Pages : Chat(p))
       PROVE  AttachInv'
  BY <1>10, <1>11 DEF DialSession, DialToken, Refused, Opened, DialFails, Finish, RotateToken,
     RotateClear, RotateHold, RotateClose, Handle, HandleHandshake, HandleChat, Rotate, Chat, pageVars
<1>12. ASSUME UNCHANGED vars PROVE AttachInv'
  BY <1>10, <1>12 DEF vars, pageVars
<1> QED BY <1>1, <1>2, <1>3, <1>4, <1>5, <1>6, <1>7, <1>8, <1>9, <1>11, <1>12
        DEF Next, Connect, Recover

-----------------------------------------------------------------------------
(* The frames of one connection                                            *)

\* What is in flight belongs to a connection that was made; the handshake of one is
\* answered, and followed by chat, only after it has been handled.
FrameInv ==
  /\ \A k \in replies : k[2] <= conn[k[1]]
  /\ \A f \in inbox : f.conn <= conn[f.page]
  /\ \A f \in inbox : f.kind = "handshake" =>
       /\ <<f.page, f.conn>> \notin replies
       /\ ~(page[f.page] = "ready" /\ conn[f.page] = f.conn)
       /\ \A g \in inbox : g.kind = "chat" => ~(g.page = f.page /\ g.conn = f.conn)

\* What FrameInv needs of the types.
FrameTypes ==
  /\ inbox \subseteq Frame /\ replies \subseteq Pages \X Nat
  /\ page \in [Pages -> {"off", "open", "ready", "revoked"}] /\ conn \in [Pages -> Nat]

LEMMA TypesOfFrames == TypeInv => FrameTypes
BY DEF TypeInv, TypeOK, FrameTypes

\* A page that loses its connection, or reads another link, is not ready.
LEMMA FewerReady ==
  ASSUME FrameInv, inbox' \subseteq inbox, UNCHANGED <<replies, conn>>,
         FrameTypes, \A p \in Pages : page'[p] = "ready" => page[p] = "ready"
  PROVE  FrameInv'
BY DEF FrameInv, FrameTypes, Frame

\* A frame of a page that is connected, when the daemon's socket takes it.
LEMMA ForwardedIn ==
  ASSUME NEW s, NEW f, NEW g, g \in Forwarded(s, f)
  PROVE  g \in inbox \/ g = f
BY DEF Forwarded

LEMMA JoinFrames ==
  ASSUME TypeInv, FrameInv, NEW p \in Pages, Join(p)
  PROVE  FrameInv'
<1> DEFINE n == conn[p] + 1
           h == [kind |-> "handshake", page |-> p, conn |-> n]
<1>0. FrameTypes /\ n \in Nat /\ n > conn[p]
  BY TypesOfFrames DEF FrameTypes
<1>1. /\ page'[p] = "open" /\ \A q \in Pages \ {p} : page'[q] = page[q]
      /\ conn'[p] = n /\ \A q \in Pages \ {p} : conn'[q] = conn[q]
      /\ replies' = replies /\ \A g \in inbox' : g \in inbox \/ g = h
  BY <1>0 DEF Join, FrameTypes, Forwarded
<1>2. h.kind = "handshake" /\ h.page = p /\ h.conn = n
  OBVIOUS
<1> HIDE DEF h, n
<1>3. \A k \in replies' : k[2] <= conn'[k[1]]
  <2> SUFFICES ASSUME NEW k \in replies PROVE k[2] <= conn'[k[1]]
    BY <1>1
  <2>1. k[1] \in Pages /\ k[2] \in Nat /\ k[2] <= conn[k[1]] /\ conn[p] \in Nat
    BY <1>0 DEF FrameInv, FrameTypes
  <2> QED BY <1>0, <1>1, <2>1
<1>4. \A f \in inbox : f.page \in Pages /\ f.conn \in Nat /\ f.conn <= conn[f.page]
                       /\ conn[f.page] \in Nat
  BY <1>0 DEF FrameInv, FrameTypes, Frame
<1>5. \A f \in inbox' : f.conn <= conn'[f.page]
  BY <1>0, <1>1, <1>2, <1>4
<1>6. <<p, n>> \notin replies /\ \A f \in inbox : ~(f.page = p /\ f.conn = n)
  <2>1. \A k \in replies : k # <<p, n>>
    BY <1>0 DEF FrameInv, FrameTypes
  <2>2. \A f \in inbox : ~(f.page = p /\ f.conn = n)
    BY <1>0, <1>4
  <2> QED BY <2>1, <2>2
<1>7. ASSUME NEW f \in inbox', f.kind = "handshake"
      PROVE  /\ <<f.page, f.conn>> \notin replies
             /\ ~(page'[f.page] = "ready" /\ conn'[f.page] = f.conn)
             /\ \A g \in inbox' : g.kind = "chat" => ~(g.page = f.page /\ g.conn = f.conn)
  <2>1. CASE f = h
    BY <1>1, <1>2, <1>6, <2>1
  <2>2. CASE f \in inbox
    <3>1. \A g \in inbox' : g.kind = "chat" => g \in inbox
      BY <1>1, <1>2
    <3> QED BY <1>1, <1>4, <1>7, <2>2, <3>1 DEF FrameInv
  <2> QED BY <1>1, <2>1, <2>2
<1> QED BY <1>1, <1>3, <1>5, <1>7 DEF FrameInv

LEMMA FramePreserved == TypeInv /\ FrameInv /\ [Next]_vars => FrameInv'
<1> SUFFICES ASSUME TypeInv, FrameInv, [Next]_vars PROVE FrameInv'
  OBVIOUS
<1>0. FrameTypes
  BY TypesOfFrames
<1>1. ASSUME Drop \/ CloseSocket PROVE FrameInv'
  <2>1. inbox' = {} /\ UNCHANGED <<replies, page, conn>>
    BY <1>1 DEF Drop, CloseSocket, Disconnected, pageVars
  <2> QED BY <1>0, <2>1, FewerReady
<1>2. ASSUME NEW p \in Pages, NEW silently \in BOOLEAN,
             Scan(p) \/ PageDrop(p, silently) \/ PageClosed(p)
      PROVE  FrameInv'
  <2>1. UNCHANGED <<inbox, replies, conn>>
    BY <1>2 DEF Scan, PageDrop, PageClosed, frames
  <2>2. page' = [page EXCEPT ![p] = "off"] \/ page' = [page EXCEPT ![p] = "revoked"]
    BY <1>2 DEF Scan, PageDrop, PageClosed
  <2>3. \A q \in Pages : page'[q] = "ready" => page[q] = "ready"
    BY <1>0, <2>2 DEF FrameTypes
  <2> QED BY <1>0, <2>1, <2>3, FewerReady
<1>3. ASSUME NEW p \in Pages, Join(p) PROVE FrameInv'
  BY <1>3, JoinFrames
<1>4. ASSUME NEW p \in Pages, Secure(p) PROVE FrameInv'
  <2>1. /\ <<p, conn[p]>> \in replies /\ replies' = replies \ {<<p, conn[p]>>}
        /\ UNCHANGED <<inbox, conn>> /\ \A q \in Pages \ {p} : page'[q] = page[q]
    BY <1>0, <1>4 DEF Secure, FrameTypes
  <2>2. \A f \in inbox : f.page \in Pages
    BY <1>0 DEF FrameTypes, Frame
  <2>3. \A f \in inbox : f.kind = "handshake" => ~(f.page = p /\ f.conn = conn[p])
    BY <2>1 DEF FrameInv
  <2> QED BY <2>1, <2>2, <2>3 DEF FrameInv
<1>5. ASSUME NEW p \in Pages, Chat(p) PROVE FrameInv'
  <2> DEFINE c == [kind |-> "chat", page |-> p, conn |-> conn[p]]
  <2>1. /\ page[p] = "ready" /\ UNCHANGED <<replies, page, conn>>
        /\ \A g \in inbox' : g \in inbox \/ g = c
    BY <1>5, ForwardedIn DEF Chat, pageVars
  <2>2. c.kind = "chat" /\ c.page = p /\ c.conn = conn[p] /\ conn[p] \in Nat
    BY <1>0 DEF FrameTypes
  <2> HIDE DEF c
  <2>3. \A f \in inbox' : f.kind = "handshake" => f \in inbox /\ ~(f.page = p /\ f.conn = conn[p])
    BY <2>1, <2>2 DEF FrameInv
  <2>4. \A f \in inbox' : f.conn <= conn[f.page]
    BY <2>1, <2>2 DEF FrameInv
  <2> QED BY <2>1, <2>2, <2>3, <2>4 DEF FrameInv
<1>6. ASSUME NEW f \in inbox, HandleHandshake(f) PROVE FrameInv'
  <2>1. /\ f.kind = "handshake" /\ inbox' = inbox \ {f} /\ UNCHANGED <<page, conn>>
        /\ \A k \in replies' : k \in replies \/ k = <<f.page, f.conn>>
    BY <1>6 DEF HandleHandshake, Take, pageVars
  <2>2. f.page \in Pages /\ f.conn \in Nat /\ f.conn <= conn[f.page]
    BY <1>0 DEF FrameInv, FrameTypes, Frame
  <2>3. ASSUME NEW g \in inbox', g.kind = "handshake"
        PROVE  ~(g.page = f.page /\ g.conn = f.conn)
    <3>1. g \in Frame /\ f \in Frame /\ g # f /\ g.kind = f.kind
      BY <1>0, <2>1, <2>3 DEF FrameTypes
    <3> QED BY <3>1 DEF Frame
  <2>4. \A k \in replies' : k[2] <= conn[k[1]]
    BY <2>1, <2>2 DEF FrameInv
  <2>5. \A g \in inbox' : g.kind = "handshake" => <<g.page, g.conn>> \notin replies'
    BY <2>1, <2>3 DEF FrameInv
  <2> QED BY <2>1, <2>4, <2>5 DEF FrameInv
<1>7. ASSUME UNCHANGED <<replies, pageVars>>, inbox' \subseteq inbox PROVE FrameInv'
  BY <1>7 DEF FrameInv, pageVars
<1>8. ASSUME \/ Connect \/ DialFails \/ SendRevoke \/ Finish
             \/ (\E revoke \in BOOLEAN : Rotate(revoke))
             \/ (\E f \in inbox : HandleChat(f))
             \/ (\E s \in Sessions : Expire(s) \/ ReportLoss(s))
      PROVE  FrameInv'
  BY <1>7, <1>8 DEF Connect, DialSession, DialToken, Accepted, Refused, Opened, DialFails,
     SendRevoke, Finish, RotateToken, RotateClear, RotateHold, RotateClose, Rotate, HandleChat,
     Take, Expire, ReportLoss, frames
<1>9. ASSUME UNCHANGED vars PROVE FrameInv'
  BY <1>7, <1>9 DEF vars, frames
<1> QED BY <1>1, <1>2, <1>3, <1>4, <1>5, <1>6, <1>8, <1>9 DEF Next, Handle, Recover

-----------------------------------------------------------------------------
(* The keys                                                                *)

\* Between the accept of the daemon's socket and self.ws = ws no page of its session has
\* paired but those stranded there: no other was left, and the daemon has handled no frame
\* since.
FreshInv ==
  loop = "accepted" =>
    \A p \in attached[url.sid] \ stranded : page[p] = "open" /\ <<p, conn[p]>> \notin replies

Serving == rot \in {"idle", "session", "token"} /\ loop = "open" /\ "close" \notin orders

\* While the daemon serves its session, it holds the key of every page there that has
\* paired or is about to.
KeyInv ==
  ~gap /\ Serving =>
    \A p \in attached[url.sid] \ stranded :
      page[p] = "ready" \/ <<p, conn[p]>> \in replies => <<p, conn[p]>> \in ciphers

\* No chat was, or ever will be, sent with the key k: its handshake got no reply.
Mute(k) ==
  /\ k \notin replies
  /\ ~(page[k[1]] = "ready" /\ conn[k[1]] = k[2])
  /\ \A f \in inbox : f.kind = "chat" => <<f.page, f.conn>> # k

\* Unless a rotation fell into a gap: the connection is on the current link, or its close
\* is ordered and whatever key it still hands out is of no use.
LateInv ==
  ~gap =>
    /\ late = {}
    /\ loop = "open" => ws = "live" \/ (ws = "none" /\ "close" \in orders)
    /\ rot = "idle" /\ "close" \notin orders =>
         /\ loop \in {"connecting", "accepted", "open"} => url = cred
         /\ loop = "dialing" => url.sid = cred.sid
    /\ rot \in {"cleared", "held"} => ciphers = {}
    /\ "close" \in orders => \A k \in ciphers : Mute(k)

Inv == SocketInv /\ AttachInv /\ FrameInv /\ FreshInv /\ KeyInv /\ LateInv

\* A step by which no page pairs: the pages stay on their connections or lose them, and
\* no reply is added.
Fewer ==
  /\ UNCHANGED conn
  /\ replies' \subseteq replies
  /\ \A p \in Pages : page'[p] = "ready" => page[p] = "ready"

LEMMA SpecificTypes ==
  TypeInv => /\ FrameTypes /\ SessionTypeOK /\ url \in Links /\ cred \in Links
             /\ url.sid \in Sessions /\ attached[url.sid] \subseteq Pages
             /\ ciphers \subseteq Pages \X Nat
             /\ \A p \in Pages : link[p].sid \in Sessions
<1> SUFFICES ASSUME TypeInv
             PROVE  /\ FrameTypes /\ SessionTypeOK /\ url \in Links /\ cred \in Links
                    /\ url.sid \in Sessions /\ attached[url.sid] \subseteq Pages
                    /\ ciphers \subseteq Pages \X Nat
                    /\ \A p \in Pages : link[p].sid \in Sessions
  OBVIOUS
<1>1. /\ FrameTypes /\ SessionTypeOK /\ url \in Links /\ cred \in Links
      /\ ciphers \subseteq Pages \X Nat
  BY DEF TypeInv, TypeOK, FrameTypes
<1>2. url.sid \in Sessions
  BY <1>1 DEF Links
<1>3. attached[url.sid] \subseteq Pages
  BY <1>1, <1>2 DEF SessionTypeOK
<1>4. \A p \in Pages : link[p].sid \in Sessions
  BY DEF TypeInv, TypeOK, Links, NoLink
<1> QED BY <1>1, <1>2, <1>3, <1>4

LEMMA FreshKept ==
  ASSUME TypeInv, FreshInv, AttachInv', TypeInv', Fewer,
         loop' = "accepted" => loop = "accepted" /\ url' = url, Shrinks
  PROVE  FreshInv'
<1> SUFFICES ASSUME loop' = "accepted", NEW p \in attached'[url'.sid] \ stranded'
             PROVE  page'[p] = "open" /\ <<p, conn'[p]>> \notin replies'
  BY DEF FreshInv
<1>1. url' = url /\ p \in attached[url.sid] \ stranded /\ url.sid \in Sessions /\ p \in Pages
  BY SpecificTypes DEF Shrinks
<1>2. page[p] = "open" /\ <<p, conn[p]>> \notin replies
  BY <1>1 DEF FreshInv
<1>3. page'[p] \in {"open", "ready"}
  BY <1>1 DEF AttachInv
<1> QED BY <1>1, <1>2, <1>3 DEF Fewer

LEMMA KeyKept ==
  ASSUME TypeInv, KeyInv, Fewer, url' = url, gap => gap', Serving' => Serving,
         ciphers \subseteq ciphers', Shrinks
  PROVE  KeyInv'
<1> SUFFICES ASSUME ~gap', Serving', NEW p \in attached'[url'.sid] \ stranded',
                    page'[p] = "ready" \/ <<p, conn'[p]>> \in replies'
             PROVE  <<p, conn'[p]>> \in ciphers'
  BY DEF KeyInv
<1>1. p \in attached[url.sid] \ stranded /\ p \in Pages
  BY SpecificTypes DEF Shrinks
<1>2. page[p] = "ready" \/ <<p, conn[p]>> \in replies
  BY <1>1 DEF Fewer
<1> QED BY <1>1, <1>2 DEF KeyInv, Fewer

LEMMA MuteKept ==
  ASSUME TypeInv, Fewer, inbox' \subseteq inbox, NEW k \in ciphers, Mute(k)
  PROVE  Mute(k)'
BY SpecificTypes DEF Mute, Fewer

\* A page that joins does so on a connection nobody has answered.
LEMMA JoinDoes ==
  ASSUME TypeInv, FrameInv, NEW p \in Pages, Join(p)
  PROVE  /\ page'[p] = "open" /\ \A q \in Pages \ {p} : page'[q] = page[q] /\ conn'[q] = conn[q]
         /\ replies' = replies /\ <<p, conn'[p]>> \notin replies
         /\ \A f \in inbox' : f \in inbox \/ f.kind = "handshake"
         /\ \A q \in attached'[url.sid] : q = p \/ q \in attached[url.sid]
         /\ UNCHANGED <<daemonVars, stranded, gap, late>>
<1>0. FrameTypes /\ SessionTypeOK /\ link[p].sid \in Sessions /\ url.sid \in Sessions
  BY SpecificTypes
<1>1. conn'[p] = conn[p] + 1 /\ conn[p] \in Nat
  BY <1>0 DEF Join, FrameTypes
<1>2. <<p, conn'[p]>> \notin replies
  BY <1>0, <1>1 DEF FrameInv, FrameTypes
<1>3. \A f \in inbox' : f \in inbox \/ f.kind = "handshake"
  BY DEF Join, Forwarded
<1>4. \A q \in attached'[url.sid] : q = p \/ q \in attached[url.sid]
  BY <1>0 DEF Join, AdmitPage, SessionTypeOK
<1> QED BY <1>0, <1>2, <1>3, <1>4 DEF Join, AdmitPage, FrameTypes


\* All other steps but the two that complete a handshake let no page pair, and attach
\* none to the daemon's session.
LEMMA QuietSteps ==
  ASSUME TypeInv, AttachInv,
         \/ Connect \/ DialFails \/ Drop \/ SendRevoke \/ CloseSocket \/ Finish
         \/ \E revoke \in BOOLEAN : Rotate(revoke)
         \/ \E p \in Pages : Scan(p) \/ Chat(p) \/ PageClosed(p)
         \/ \E p \in Pages, silently \in BOOLEAN : PageDrop(p, silently)
         \/ \E f \in inbox : HandleChat(f)
         \/ \E s \in Sessions : Expire(s) \/ ReportLoss(s)
         \/ UNCHANGED vars
  PROVE  Fewer /\ Shrinks
<1>0. FrameTypes /\ SessionTypeOK /\ url.sid \in Sessions
  BY SpecificTypes
<1> USE DEF Fewer
<1>1. CASE UNCHANGED <<replies, page, conn, attached, stranded>>
  BY <1>1 DEF Shrinks
<1>2. CASE Connect \/ DialFails \/ Finish
  BY <1>1, <1>2 DEF Connect, DialFails, Finish, DialSession, DialToken, Accepted, AdmitDaemon,
     Refused, Opened, RotateToken, RotateClear, RotateHold, RotateClose, sessionVars, frames, pageVars
<1>3. CASE Drop \/ CloseSocket
  <2>1. UNCHANGED <<replies, page, conn>>
    BY <1>3 DEF Drop, CloseSocket, Disconnected, pageVars
  <2>2. Ends(url.sid)
    BY <1>3 DEF Drop, CloseSocket, Ends
  <2> QED BY <1>0, <2>1, <2>2, TornDown
<1>4. CASE SendRevoke
  <2>1. Shrinks
    BY <1>0, <1>4, RevokedAll DEF SendRevoke
  <2> QED BY <1>4, <2>1 DEF SendRevoke, frames, pageVars
<1>5. CASE \E revoke \in BOOLEAN : Rotate(revoke)
  BY <1>1, <1>5 DEF Rotate, sessionVars, frames, pageVars
<1>6. ASSUME NEW p \in Pages, Scan(p) \/ PageClosed(p)
      PROVE  Fewer /\ Shrinks
  <2>1. page' = [page EXCEPT ![p] = "off"] \/ page' = [page EXCEPT ![p] = "revoked"]
    BY <1>6 DEF Scan, PageClosed
  <2>2. UNCHANGED <<replies, conn, attached, stranded>>
    BY <1>6 DEF Scan, PageClosed, frames, sessionVars
  <2> QED BY <1>0, <2>1, <2>2 DEF FrameTypes, Shrinks
<1>7. ASSUME NEW p \in Pages, Chat(p)
      PROVE  Fewer /\ Shrinks
  BY <1>1, <1>7 DEF Chat, pageVars, sessionVars
<1>8. ASSUME NEW p \in Pages, NEW silently \in BOOLEAN, PageDrop(p, silently)
      PROVE  Fewer /\ Shrinks
  <2>1. UNCHANGED <<replies, conn>> /\ page' = [page EXCEPT ![p] = "off"]
    BY <1>8 DEF PageDrop, frames
  <2>2. Shrinks
    BY <1>0, <1>8, SpecificTypes, Detached DEF PageDrop
  <2> QED BY <1>0, <2>1, <2>2 DEF FrameTypes
<1>9. CASE \E f \in inbox : HandleChat(f)
  BY <1>1, <1>9 DEF HandleChat, pageVars, sessionVars
<1>10. ASSUME NEW s \in Sessions, Expire(s) \/ ReportLoss(s)
       PROVE  Fewer /\ Shrinks
  <2>1. Ends(s) /\ UNCHANGED <<replies, page, conn>>
    BY <1>10 DEF Expire, Alarm, ReportLoss, frames, pageVars, Ends
  <2> QED BY <1>0, <2>1, TornDown
<1>11. CASE UNCHANGED vars
  BY <1>1, <1>11 DEF vars, sessionVars, frames, pageVars
<1> QED BY <1>2, <1>3, <1>4, <1>5, <1>6, <1>7, <1>8, <1>9, <1>10, <1>11

LEMMA FreshPreserved ==
  TypeInv /\ TypeInv' /\ AttachInv /\ AttachInv' /\ FrameInv /\ SocketInv /\ FreshInv /\ [Next]_vars
    => FreshInv'
<1> SUFFICES ASSUME TypeInv, TypeInv', AttachInv, AttachInv', FrameInv, FreshInv, [Next]_vars,
                    loop' = "accepted"
             PROVE  FreshInv'
  BY DEF FreshInv
<1>0. FrameTypes /\ SessionTypeOK /\ url.sid \in Sessions /\ attached[url.sid] \subseteq Pages
  BY SpecificTypes
<1>1. CASE Accepted
  <2>1. daemonAt[url.sid] = "none" /\ UNCHANGED <<attached, stranded, url>>
    BY <1>1 DEF Accepted, AdmitDaemon
  <2>2. attached'[url'.sid] \subseteq stranded'
    BY <1>0, <2>1 DEF AttachInv
  <2> QED BY <2>2 DEF FreshInv
<1>2. ASSUME NEW p \in Pages, Join(p) PROVE FreshInv'
  <2>1. /\ page'[p] = "open" /\ \A q \in Pages \ {p} : page'[q] = page[q] /\ conn'[q] = conn[q]
        /\ replies' = replies /\ <<p, conn'[p]>> \notin replies
        /\ \A q \in attached'[url.sid] : q = p \/ q \in attached[url.sid]
        /\ url' = url /\ loop' = loop /\ stranded' = stranded
    BY <1>2, JoinDoes DEF daemonVars
  <2> QED BY <1>0, <2>1 DEF FreshInv
<1>3. ASSUME NEW p \in Pages, Secure(p) PROVE FreshInv'
  <2>1. /\ <<p, conn[p]>> \in replies /\ replies' \subseteq replies
        /\ UNCHANGED <<conn, url, loop, attached, stranded>> /\ \A q \in Pages \ {p} : page'[q] = page[q]
    BY <1>0, <1>3 DEF Secure, FrameTypes, sessionVars, daemonVars
  <2>2. p \notin attached[url.sid] \ stranded
    BY <2>1 DEF FreshInv
  <2> QED BY <1>0, <2>1, <2>2 DEF FreshInv
<1>4. ASSUME NEW f \in inbox, HandleHandshake(f) PROVE FreshInv'
  BY <1>4 DEF HandleHandshake, Take
<1>5. CASE ~Accepted /\ ~(\E p \in Pages : Join(p) \/ Secure(p)) /\ ~(\E f \in inbox : HandleHandshake(f))
  <2>1. Fewer /\ Shrinks
    BY <1>5, QuietSteps DEF Next, Recover, Handle
  <2>2. loop = "accepted" /\ url' = url
    BY <1>5 DEF Next, Connect, DialSession, DialToken, Refused, Opened, DialFails, Drop, SendRevoke,
       CloseSocket, Disconnected, Rotate, Finish, RotateToken, RotateClear, RotateHold, RotateClose,
       Scan, Recover, PageClosed, Chat, PageDrop, Handle, HandleChat, Take, Expire, ReportLoss,
       vars, daemonVars
  <2> QED BY <2>1, <2>2, FreshKept
<1> QED BY <1>1, <1>2, <1>3, <1>4, <1>5


LEMMA KeyPreserved ==
  TypeInv /\ TypeInv' /\ Inv /\ [Next]_vars => KeyInv'
<1> SUFFICES ASSUME TypeInv, TypeInv', Inv, [Next]_vars, ~gap', Serving'
             PROVE  KeyInv'
  BY DEF KeyInv
<1> USE DEF Inv
<1>0. FrameTypes /\ url.sid \in Sessions /\ attached[url.sid] \subseteq Pages
  BY SpecificTypes
<1>1. CASE Opened
  <2>1. UNCHANGED <<url, attached, stranded, page, conn, replies>> /\ loop = "accepted"
    BY <1>1 DEF Opened, sessionVars, pageVars, frames
  <2> QED BY <2>1 DEF FreshInv, KeyInv
<1>2. CASE RotateClose
  <2>1. /\ rot = "held" /\ ~gap /\ held = ws /\ loop' = loop
        /\ orders' = IF held = "live" THEN orders \cup {"close"} ELSE orders
    BY <1>2 DEF RotateClose
  <2>2. loop = "open" /\ "close" \notin orders'
    BY <2>1 DEF Serving
  <2>3. "close" \in orders'
    BY <2>1, <2>2 DEF LateInv
  <2> QED BY <2>2, <2>3
<1>3. ASSUME NEW p \in Pages, Join(p) PROVE KeyInv'
  <2>1. /\ page'[p] = "open" /\ \A q \in Pages \ {p} : page'[q] = page[q] /\ conn'[q] = conn[q]
        /\ replies' = replies /\ <<p, conn'[p]>> \notin replies
        /\ \A q \in attached'[url.sid] : q = p \/ q \in attached[url.sid]
        /\ UNCHANGED <<url, gap, ciphers, stranded>> /\ (Serving' => Serving)
    BY <1>3, JoinDoes DEF daemonVars, Serving
  <2> QED BY <1>0, <2>1 DEF KeyInv
<1>4. ASSUME NEW p \in Pages, Secure(p) PROVE KeyInv'
  <2>1. /\ <<p, conn[p]>> \in replies /\ replies' \subseteq replies
        /\ UNCHANGED <<conn, url, attached, stranded, gap, ciphers>> /\ (Serving' => Serving)
        /\ \A q \in Pages \ {p} : page'[q] = page[q]
    BY <1>0, <1>4 DEF Secure, FrameTypes, sessionVars, daemonVars, Serving
  <2> QED BY <1>0, <2>1 DEF KeyInv
<1>5. ASSUME NEW f \in inbox, HandleHandshake(f) PROVE KeyInv'
  <2>1. /\ ciphers' = ciphers \cup {<<f.page, f.conn>>}
        /\ \A k \in replies' : k \in replies \/ k = <<f.page, f.conn>>
        /\ UNCHANGED <<page, conn, url, attached, stranded>> /\ (gap => gap') /\ (Serving' => Serving)
    BY <1>5 DEF HandleHandshake, sessionVars, pageVars, Serving
  <2> QED BY <2>1 DEF KeyInv
<1>6. CASE /\ ~Opened /\ ~RotateClose
           /\ ~(\E p \in Pages : Join(p) \/ Secure(p)) /\ ~(\E f \in inbox : HandleHandshake(f))
  <2>1. Fewer /\ Shrinks
    BY <1>6, QuietSteps DEF Next, Recover, Handle
  <2>2. CASE Connect \/ DialFails \/ Drop \/ CloseSocket
    <3>1. loop' # "open"
      BY <1>6, <2>2 DEF Connect, DialSession, DialToken, Accepted, Refused, DialFails, Drop,
         CloseSocket, Disconnected
    <3> QED BY <3>1 DEF Serving
  <2>3. CASE ~(Connect \/ DialFails \/ Drop \/ CloseSocket)
    <3>1. url' = url /\ gap' = gap /\ ciphers' = ciphers /\ (Serving' => Serving)
      <4>1. CASE \E revoke \in BOOLEAN : Rotate(revoke)
        BY <4>1 DEF Rotate, Serving
      <4>2. CASE Finish
        BY <1>6, <4>2 DEF Finish, RotateToken, RotateClear, RotateHold, Serving
      <4>3. CASE SendRevoke
        BY <4>3 DEF SendRevoke, Serving
      <4>4. CASE UNCHANGED <<daemonVars, gap>>
        BY <4>4 DEF daemonVars, Serving
      <4> QED BY <1>6, <2>3, <4>1, <4>2, <4>3, <4>4 DEF Next, Recover, Handle, Scan, Chat, PageDrop,
                 PageClosed, HandleChat, Expire, ReportLoss, vars
    <3> QED BY <2>1, <3>1, KeyKept
  <2> QED BY <2>2, <2>3
<1> QED BY <1>1, <1>2, <1>3, <1>4, <1>5, <1>6

LEMMA LatePreserved ==
  TypeInv /\ TypeInv' /\ Inv /\ [Next]_vars => LateInv'
<1> SUFFICES ASSUME TypeInv, TypeInv', Inv, [Next]_vars, ~gap'
             PROVE  LateInv'
  BY DEF LateInv
<1> USE DEF Inv
<1>0. FrameTypes /\ url \in Links /\ cred \in Links /\ ciphers \subseteq Pages \X Nat
  BY SpecificTypes
\* A step that touches neither the connection nor a rotation.
<1>1. ASSUME UNCHANGED <<cred, rot, loop, url, ws, gap, late>>,
             ciphers' \subseteq ciphers, "close" \in orders' <=> "close" \in orders,
             "close" \in orders => \A k \in ciphers : Mute(k)'
      PROVE  LateInv'
  BY <1>1 DEF LateInv
<1>2. CASE Connect \/ DialFails
  <2>1. orders = {} /\ orders' = {} /\ late' = late /\ gap' = gap /\ rot' = rot /\ cred' = cred
    BY <1>2 DEF SocketInv, Connect, DialFails, DialSession, DialToken, Accepted, Refused, Opened
  <2>2. loop' = "open" => ws' = "live"
    BY <1>2 DEF Connect, DialFails, DialSession, DialToken, Accepted, Refused, Opened
  <2>3. rot \in {"cleared", "held"} => ciphers' = {}
    BY <1>2, <2>1 DEF LateInv, Connect, DialFails, DialSession, DialToken, Accepted, Refused, Opened
  <2>4. ASSUME rot = "idle"
        PROVE  /\ loop' \in {"connecting", "accepted", "open"} => url' = cred
               /\ loop' = "dialing" => url'.sid = cred.sid
    <3>1. CASE DialSession
      BY <1>0, <3>1 DEF DialSession, Links
    <3>2. CASE DialToken
      <4>1. url.sid = cred.sid
        BY <2>1, <2>4, <3>2 DEF DialToken, LateInv
      <4> QED BY <1>0, <3>2, <4>1 DEF DialToken, Links
    <3>3. CASE Accepted \/ Refused \/ Opened \/ DialFails
      BY <2>1, <2>4, <3>3 DEF LateInv, Accepted, Refused, Opened, DialFails
    <3> QED BY <1>2, <3>1, <3>2, <3>3 DEF Connect
  <2> QED BY <2>1, <2>2, <2>3, <2>4 DEF LateInv
<1>3. CASE Drop \/ CloseSocket
  BY <1>3 DEF Drop, CloseSocket, Disconnected, LateInv
<1>4. CASE SendRevoke
  <2>1. UNCHANGED <<inbox, replies, page, conn>>
    BY <1>4 DEF SendRevoke, frames, pageVars
  <2>2. Fewer
    BY <2>1 DEF Fewer
  <2>3. "close" \in orders => \A k \in ciphers : Mute(k)'
    BY <1>4, <2>1, <2>2, MuteKept DEF SendRevoke, LateInv
  <2> QED BY <1>1, <1>4, <2>3 DEF SendRevoke
<1>5. ASSUME NEW revoke \in BOOLEAN, Rotate(revoke) PROVE LateInv'
  <2>1. /\ rot' = "session" /\ UNCHANGED <<loop, ws, gap, late, ciphers>>
        /\ "close" \in orders' <=> "close" \in orders
        /\ UNCHANGED <<inbox, replies, page, conn>>
    BY <1>5 DEF Rotate, frames, pageVars
  <2>2. Fewer
    BY <2>1 DEF Fewer
  <2>3. "close" \in orders => \A k \in ciphers : Mute(k)'
    BY <2>1, <2>2, MuteKept DEF LateInv
  <2> QED BY <2>1, <2>3 DEF LateInv
<1>6. CASE Finish
  <2>1. UNCHANGED <<loop, late, inbox, replies, page, conn>>
    BY <1>6 DEF Finish, RotateToken, RotateClear, RotateHold, RotateClose, frames, pageVars
  <2>2. Fewer
    BY <2>1 DEF Fewer
  <2>3. CASE RotateToken \/ RotateClear \/ RotateHold
    <3>1. UNCHANGED <<ws, orders, gap>> /\ ciphers' \subseteq ciphers /\ rot' # "idle"
          /\ (rot' \in {"cleared", "held"} => ciphers' = {})
      BY <2>3 DEF RotateToken, RotateClear, RotateHold, LateInv
    <3>2. "close" \in orders => \A k \in ciphers : Mute(k)'
      BY <2>1, <2>2, <3>1, MuteKept DEF LateInv
    <3> QED BY <2>1, <3>1, <3>2 DEF LateInv
  <2>4. CASE RotateClose
    <3>1. /\ rot' = "idle" /\ ~gap /\ held = ws /\ loop \notin {"dialing", "connecting", "accepted"}
          /\ orders' = (IF held = "live" THEN orders \cup {"close"} ELSE orders)
          /\ ws' = (IF held = "none" THEN ws ELSE "none")
          /\ ciphers' = ciphers /\ rot = "held"
      BY <2>4 DEF RotateClose
    <3>2. ciphers' = {} /\ late' = {} /\ ws' = "none"
      BY <2>1, <3>1 DEF LateInv
    <3>3. loop' = "open" => "close" \in orders'
      BY <2>1, <3>1 DEF LateInv
    <3> QED BY <2>1, <3>1, <3>2, <3>3 DEF LateInv
  <2> QED BY <1>6, <2>3, <2>4 DEF Finish
<1>7. ASSUME NEW p \in Pages, Join(p) PROVE LateInv'
  <2>1. /\ page'[p] = "open" /\ \A q \in Pages \ {p} : page'[q] = page[q] /\ conn'[q] = conn[q]
        /\ replies' = replies /\ \A f \in inbox' : f \in inbox \/ f.kind = "handshake"
        /\ UNCHANGED <<daemonVars, gap, late>>
    BY <1>7, JoinDoes
  <2>2. ASSUME NEW k \in ciphers, Mute(k)
        PROVE  Mute(k)'
    <3>1. k[1] \in Pages
      BY <1>0
    <3>2. ~(page'[k[1]] = "ready" /\ conn'[k[1]] = k[2])
      BY <2>1, <2>2, <3>1 DEF Mute
    <3> QED BY <2>1, <2>2, <3>2 DEF Mute
  <2>3. "close" \in orders => \A k \in ciphers : Mute(k)'
    BY <2>1, <2>2 DEF LateInv
  <2> QED BY <1>1, <2>1, <2>3 DEF daemonVars
<1>8. ASSUME NEW p \in Pages, Secure(p) PROVE LateInv'
  <2>1. /\ <<p, conn[p]>> \in replies /\ replies' \subseteq replies
        /\ UNCHANGED <<conn, inbox, daemonVars, gap, late>>
        /\ \A q \in Pages \ {p} : page'[q] = page[q]
    BY <1>0, <1>8 DEF Secure, FrameTypes
  <2>2. ASSUME NEW k \in ciphers, Mute(k)
        PROVE  Mute(k)'
    <3>1. k[1] \in Pages /\ k = <<k[1], k[2]>> /\ k # <<p, conn[p]>>
      BY <1>0, <2>1, <2>2 DEF Mute
    <3>2. ~(page'[k[1]] = "ready" /\ conn'[k[1]] = k[2])
      BY <2>1, <2>2, <3>1 DEF Mute
    <3> QED BY <2>1, <2>2, <3>2 DEF Mute
  <2>3. "close" \in orders => \A k \in ciphers : Mute(k)'
    BY <2>1, <2>2 DEF LateInv
  <2> QED BY <1>1, <2>1, <2>3 DEF daemonVars
<1>9. ASSUME NEW p \in Pages, Chat(p) PROVE LateInv'
  <2>1. /\ page[p] = "ready" /\ UNCHANGED <<replies, page, conn, daemonVars, gap, late>>
        /\ \A f \in inbox' : f \in inbox \/ f = [kind |-> "chat", page |-> p, conn |-> conn[p]]
    BY <1>9 DEF Chat, Forwarded, pageVars
  <2>2. ASSUME NEW k \in ciphers, Mute(k)
        PROVE  Mute(k)'
    <3>1. k[1] \in Pages /\ k = <<k[1], k[2]>> /\ k # <<p, conn[p]>>
      BY <1>0, <2>1, <2>2 DEF Mute
    <3>2. \A f \in inbox' : f.kind = "chat" => <<f.page, f.conn>> # k
      BY <2>1, <2>2, <3>1 DEF Mute
    <3> QED BY <2>1, <2>2, <3>2 DEF Mute
  <2>3. "close" \in orders => \A k \in ciphers : Mute(k)'
    BY <2>1, <2>2 DEF LateInv
  <2> QED BY <1>1, <2>1, <2>3 DEF daemonVars
<1>10. ASSUME NEW f \in inbox, HandleHandshake(f) PROVE LateInv'
  <2> DEFINE h == <<f.page, f.conn>>
  <2>1. /\ f.kind = "handshake" /\ loop = "open" /\ inbox' = inbox \ {f}
        /\ ciphers' = ciphers \cup {h}
        /\ replies' = IF ws = "live" THEN replies \cup {h} ELSE replies
        /\ ~gap /\ rot \notin {"cleared", "held"}
        /\ UNCHANGED <<cred, rot, loop, url, ws, orders, page, conn, late>>
    BY <1>10 DEF HandleHandshake, Take, pageVars
  <2>2. ASSUME "close" \in orders, NEW k \in ciphers'
        PROVE  Mute(k)'
    <3>1. ws = "none" /\ replies' = replies
      BY <2>1, <2>2 DEF SocketInv
    <3>2. CASE k \in ciphers
      <4>1. Mute(k)
        BY <2>1, <2>2, <3>2 DEF LateInv
      <4> QED BY <2>1, <3>1, <4>1 DEF Mute
    <3>3. CASE k = h
      <4>1. f.page \in Pages /\ f.conn \in Nat /\ h[1] = f.page /\ h[2] = f.conn
        BY <1>0 DEF FrameTypes, Frame
      <4>2. /\ h \notin replies /\ ~(page[f.page] = "ready" /\ conn[f.page] = f.conn)
            /\ \A g \in inbox : g.kind = "chat" => ~(g.page = f.page /\ g.conn = f.conn)
        BY <2>1 DEF FrameInv
      <4>3. \A g \in inbox' : g.kind = "chat" => <<g.page, g.conn>> # h
        BY <2>1, <4>2
      <4> QED BY <2>1, <3>1, <3>3, <4>1, <4>2, <4>3 DEF Mute
    <3> QED BY <2>1, <3>2, <3>3
  <2> QED BY <2>1, <2>2 DEF LateInv
<1>11. ASSUME NEW f \in inbox, HandleChat(f) PROVE LateInv'
  <2>1. /\ f.kind = "chat" /\ loop = "open" /\ inbox' \subseteq inbox
        /\ UNCHANGED <<daemonVars, replies, page, conn, gap>>
        /\ late' = IF HasKey(f) /\ rot = "idle" /\ url # cred THEN late \cup {f.page} ELSE late
    BY <1>11 DEF HandleChat, Take, pageVars
  <2>2. ~(HasKey(f) /\ rot = "idle" /\ url # cred)
    <3> SUFFICES ASSUME HasKey(f), rot = "idle", url # cred PROVE FALSE
      OBVIOUS
    <3>1. "close" \in orders
      BY <2>1 DEF LateInv
    <3>2. Mute(<<f.page, f.conn>>)
      BY <2>1, <3>1 DEF LateInv, HasKey
    <3> QED BY <2>1, <3>2 DEF Mute
  <2>3. Fewer
    BY <2>1 DEF Fewer
  <2>4. "close" \in orders => \A k \in ciphers : Mute(k)'
    BY <2>1, <2>3, MuteKept DEF LateInv
  <2> QED BY <1>1, <2>1, <2>2, <2>4 DEF daemonVars
<1>12. CASE \/ \E p \in Pages : Scan(p) \/ PageClosed(p)
            \/ \E p \in Pages, silently \in BOOLEAN : PageDrop(p, silently)
            \/ \E s \in Sessions : Expire(s) \/ ReportLoss(s)
            \/ UNCHANGED vars
  <2>1. Fewer
    BY <1>12, QuietSteps
  <2>2. UNCHANGED <<daemonVars, gap, late, inbox>>
    BY <1>12 DEF Scan, PageClosed, PageDrop, Expire, ReportLoss, vars, frames
  <2>3. "close" \in orders => \A k \in ciphers : Mute(k)'
    BY <2>1, <2>2, MuteKept DEF LateInv
  <2> QED BY <1>1, <2>2, <2>3 DEF daemonVars
<1> QED BY <1>2, <1>3, <1>4, <1>5, <1>6, <1>7, <1>8, <1>9, <1>10, <1>11, <1>12
        DEF Next, Recover, Handle

-----------------------------------------------------------------------------

LEMMA InvHolds == Spec => []Inv
<1>1. Init => Inv
  <2> SUFFICES ASSUME Init PROVE Inv
    OBVIOUS
  <2>1. SocketInv /\ FrameInv /\ FreshInv /\ KeyInv
    BY DEF Init, SocketInv, FrameInv, FreshInv, KeyInv, Serving
  <2>2. AttachInv
    BY DEF Init, SessionInit, AttachInv
  <2>3. LateInv
    BY DEF Init, LateInv
  <2> QED BY <2>1, <2>2, <2>3 DEF Inv
<1>2. TypeInv /\ TypeInv' /\ Inv /\ [Next]_vars => Inv'
  <2> SUFFICES ASSUME TypeInv, TypeInv', Inv, [Next]_vars PROVE Inv'
    OBVIOUS
  <2>1. SocketInv' /\ AttachInv' /\ FrameInv'
    BY SocketPreserved, AttachPreserved, FramePreserved DEF Inv
  <2> QED BY <2>1, FreshPreserved, KeyPreserved, LatePreserved DEF Inv
<1> QED BY <1>1, <1>2, Typed, PTL DEF Spec

\* As long as no rotation falls into a gap between the threads, a page that has paired
\* on the session the daemon serves is never mute, for any number of pages, rotations,
\* revocations, reconnects and failures that the relay notices late or never, unless the
\* relay failed to close that page when it lost an earlier daemon.
THEOREM PairedPagesAreHeard == Spec => []ReadyPageHasKey
<1>1. TypeInv /\ Inv => ReadyPageHasKey
  <2> SUFFICES ASSUME TypeInv, Inv, NEW p \in Pages \ stranded, ~gap, page[p] = "ready",
                      p \in attached[link[p].sid], loop = "open", url.sid = link[p].sid,
                      rot = "idle", orders = {}
               PROVE  <<p, conn[p]>> \in ciphers
    BY DEF ReadyPageHasKey
  <2> QED BY DEF Inv, KeyInv, Serving
<1> QED BY <1>1, InvHolds, Typed, PTL

\* A rotated link is dead, and the daemon online with the one on show, unless a rotation
\* fell into a gap between the threads.
THEOREM OldLinkIsDead == Spec => []LateOnlyThroughGap
<1>1. Inv => LateOnlyThroughGap
  BY DEF Inv, LateInv, LateOnlyThroughGap
<1> QED BY <1>1, InvHolds, PTL
=============================================================================
