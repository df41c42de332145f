---------------------------- MODULE RelaySession ----------------------------
(***************************************************************************)
(* relay/src/relay-session.ts: one Durable Object per session id, between  *)
(* the daemon's socket and the sockets of the paired pages.                *)
(*                                                                         *)
(* The runtime delivers one event at a time and holds the next one back    *)
(* while a handler waits for storage, so every handler is one step.  The   *)
(* operators below are the handlers; Relay composes each with the event    *)
(* that causes it at the daemon or at a page.                              *)
(***************************************************************************)
EXTENDS Integers, FiniteSets

CONSTANTS
  Pages,      \* browsers with the pairing page open
  MaxLinks,   \* bound: session ids and tokens are numbered 0 .. MaxLinks
  MaxClients, \* MAX_CLIENTS
  NoToken     \* no pairing token stored

ASSUME SessionAssumption ==
  /\ MaxLinks \in Nat
  /\ MaxClients \in Nat \ {0}
  /\ NoToken \notin Nat

Sessions == 0 .. MaxLinks
Tokens   == 0 .. MaxLinks

VARIABLES
  daemonAt,  \* the socket tagged "daemon": "none", "up", or "lost" (the peer
             \* is gone but the runtime has not noticed)
  storedTok, \* TOKEN_KEY
  attached,  \* pages with a live client socket
  ghosts,    \* client sockets whose peer is gone
  notice,    \* pages sent a "revoked" frame they have not read yet
  stranded   \* history: pages whose socket was left open when the daemon's closed

sessionVars == <<daemonAt, storedTok, attached, ghosts, notice, stranded>>

SessionInit ==
  /\ daemonAt  = [s \in Sessions |-> "none"]
  /\ storedTok = [s \in Sessions |-> NoToken]
  /\ attached  = [s \in Sessions |-> {}]
  /\ ghosts    = [s \in Sessions |-> 0]
  /\ notice    = {}
  /\ stranded  = {}

\* Mutant: a session that still stores a token takes no daemon.
AdmitIfUnclaimed(s, tok) ==
  /\ daemonAt[s] = "none"
  /\ storedTok[s] = NoToken
  /\ daemonAt'  = [daemonAt EXCEPT ![s] = "up"]
  /\ storedTok' = [storedTok EXCEPT ![s] = tok]
  /\ UNCHANGED <<attached, ghosts, notice, stranded>>

\* handleDaemonUpgrade: one daemon per session, whose token is stored.
AdmitDaemon(s, tok) ==
  /\ daemonAt[s] = "none"
  /\ daemonAt'  = [daemonAt EXCEPT ![s] = "up"]
  /\ storedTok' = [storedTok EXCEPT ![s] = tok]
  /\ UNCHANGED <<attached, ghosts, notice, stranded>>

\* Mutant: the limit is off by one.
AdmitsOneLess(s, tok) ==
  /\ daemonAt[s] # "none"
  /\ storedTok[s] # NoToken /\ storedTok[s] = tok
  /\ Cardinality(attached[s]) + ghosts[s] < MaxClients - 1

\* handleClientUpgrade: a daemon is there, the token is its token, and fewer than
\* MAX_CLIENTS sockets are open (dead ones count until the runtime drops them).
Admits(s, tok) ==
  /\ daemonAt[s] # "none"
  /\ storedTok[s] # NoToken /\ storedTok[s] = tok
  /\ Cardinality(attached[s]) + ghosts[s] < MaxClients

AdmitPage(s, tok, p) ==
  /\ Admits(s, tok)
  /\ attached' = [attached EXCEPT ![s] = @ \cup {p}]
  /\ UNCHANGED <<daemonAt, storedTok, ghosts, notice, stranded>>

\* Mutant: the pages stay connected when the daemon goes.
TearDownKeepsPages(s, tok) ==
  /\ daemonAt'  = [daemonAt EXCEPT ![s] = "none"]
  /\ storedTok' = [storedTok EXCEPT ![s] = tok]
  /\ UNCHANGED <<attached, ghosts, notice, stranded>>

\* disconnectAllClients and what remains of the session.
TearDown(s, tok) ==
  /\ daemonAt'  = [daemonAt EXCEPT ![s] = "none"]
  /\ attached'  = [attached EXCEPT ![s] = {}]
  /\ ghosts'    = [ghosts EXCEPT ![s] = 0]
  /\ storedTok' = [storedTok EXCEPT ![s] = tok]
  /\ stranded'  = stranded \ attached[s]
  /\ UNCHANGED notice

\* disconnectAllClients with a code that an endpoint may not send (1005, 1006): close()
\* throws, the exception is swallowed, and the sockets of the pages stay open.
Abandon(s) ==
  /\ daemonAt'  = [daemonAt EXCEPT ![s] = "none"]
  /\ storedTok' = [storedTok EXCEPT ![s] = NoToken]
  /\ stranded'  = stranded \cup attached[s]
  /\ UNCHANGED <<attached, ghosts, notice>>

\* webSocketClose of the daemon's socket deletes the token, and closes the pages with the
\* code it was given: a reserved one if the daemon's connection ended without a close
\* frame.  webSocketError has a code of its own, and leaves the token.
CloseDaemon(s, reserved) == IF reserved THEN Abandon(s) ELSE TearDown(s, NoToken)
FailDaemon(s)            == TearDown(s, storedTok[s])

\* revokeAllClients: notice, close and forget the token; the daemon stays.
RevokeAllClients(s) ==
  /\ notice'    = notice \cup attached[s]
  /\ attached'  = [attached EXCEPT ![s] = {}]
  /\ ghosts'    = [ghosts EXCEPT ![s] = 0]
  /\ storedTok' = [storedTok EXCEPT ![s] = NoToken]
  /\ stranded'  = stranded \ attached[s]
  /\ UNCHANGED daemonAt

\* The socket of a page goes away; silently it stays behind as a ghost.
DetachPage(s, p, silently) ==
  /\ attached' = [attached EXCEPT ![s] = @ \ {p}]
  /\ ghosts'   = [ghosts EXCEPT ![s] = IF silently THEN @ + 1 ELSE @]
  /\ stranded' = stranded \ {p}
  /\ UNCHANGED <<daemonAt, storedTok, notice>>

\* The peer of the daemon's socket disappears without a close frame.
LoseDaemon(s) ==
  /\ daemonAt' = [daemonAt EXCEPT ![s] = "lost"]
  /\ UNCHANGED <<storedTok, attached, ghosts, notice, stranded>>

\* alarm(): touchActivity() re-arms it on every message and every live peer pings,
\* so it fires an hour after the last live peer left; the session is then over.
\* sweepZombies() only runs here.  A close deletes the alarm: the dead sockets of a
\* session without a daemon stay until a later daemon's end (or are dropped at once:
\* DetachPage, not silently).
Alarm(s) ==
  /\ daemonAt[s] = "lost"
  /\ attached[s] = {}
  /\ CloseDaemon(s, FALSE)

SessionTypeOK ==
  /\ daemonAt \in [Sessions -> {"none", "up", "lost"}]
  /\ storedTok \in [Sessions -> Tokens \cup {NoToken}]
  /\ attached \in [Sessions -> SUBSET Pages]
  /\ ghosts \in [Sessions -> Nat]
  /\ notice \subseteq Pages
  /\ stranded \subseteq Pages
=============================================================================
