---------------------------- MODULE SocketSessions ----------------------------
(***************************************************************************)
(* One user's WebSocket connections: the reconnecting client (ws-client)   *)
(* in each browser tab, and the server's sessions, connection registry and *)
(* channel subscriptions.  A connection has two ends that learn of its     *)
(* loss at different times.  The server authenticates a connection by its  *)
(* first frame, restores the session of the reconnect token the client     *)
(* kept, and handles the frames of one connection one after the other,     *)
(* with database reads in between.                                         *)
(*                                                                         *)
(* Every tab wants one bus channel; presence is granted (the student or    *)
(* driver asks for the bus assigned).  A reconnect token is named by the   *)
(* connection it was issued for.                                           *)
(***************************************************************************)
EXTENDS Integers, Sequences, FiniteSets

CONSTANTS Tabs,        \* browser tabs of the user, with one localStorage
          Sockets,     \* names of connections; dead ones are used again
          MaxTrouble,  \* bound on network failures, refusals, evictions, live
                       \* sockets a tab closes of its own, ...
          None         \* no connection, no token

ASSUME BoundsAssumption == MaxTrouble \in Nat /\ None \notin Sockets

VARIABLES
  tab,       \* tab[t] : socket in use, timer armed, token renewals, hidden
  store,     \* localStorage ws_reconnect_token
  sock,      \* sock[s] : both ends of connection s, and its handler
  sess,      \* sess[s] : the Session object: has a busId, is subscribed
  sessions,  \* sockets with an entry in the session manager
  registry,  \* sockets with an entry in the connection registry
  channel,   \* subscribers of the channel
  saved,     \* saved[s] : snapshot in disconnectedSessions under s's token
  trouble,   \* troubles so far
  astray     \* tabs that closed a live socket of their own or gave up

vars == <<tab, store, sock, sess, sessions, registry, channel, saved, trouble, astray>>
server == <<sess, sessions, registry, channel, saved>>
-----------------------------------------------------------------------------
NoSession == [here |-> FALSE, subs |-> FALSE]
NoSnap == [here |-> FALSE, subs |-> FALSE, kept |-> FALSE]
Snap(x) == [here |-> x.here, subs |-> x.subs, kept |-> TRUE]

Dead == [tab |-> None, given |-> None, cli |-> "closed", srv |-> "closed",
         cut |-> FALSE, phase |-> "refused", inbox |-> <<>>, out |-> <<>>,
         busy |-> "none"]

Init ==
  /\ tab = [t \in Tabs |-> [ws |-> None, timer |-> TRUE, renew |-> 0, hidden |-> FALSE]]
  /\ store = None
  /\ sock = [s \in Sockets |-> Dead]
  /\ sess = [s \in Sockets |-> NoSession]
  /\ sessions = {} /\ registry = {} /\ channel = {}
  /\ saved = [s \in Sockets |-> NoSnap]
  /\ trouble = 0 /\ astray = {}

Trouble == trouble < MaxTrouble /\ trouble' = trouble + 1

\* Connection s becomes x, or nothing once both ends and the handler are done.
Becomes(s, x) ==
  sock' = [sock EXCEPT ![s] =
    IF /\ x.cli = "closed" /\ x.srv = "closed" /\ x.phase # "verify"
       /\ x.inbox = <<>> /\ x.busy = "none"
    THEN Dead ELSE x]

\* Nothing anywhere refers to connection s or its token any more.
Fresh(s) ==
  /\ sock[s] = Dead
  /\ s \notin sessions \cup registry /\ ~saved[s].kept
  /\ \A q \in Sockets : sock[q].phase \in {"hello", "verify"} => sock[q].given # s

-----------------------------------------------------------------------------
(* The client.                                                             *)

Live(s) == s # None /\ sock[s].cli \in {"connecting", "open"}

\* connectInternal: a paused client does nothing; else the timer is cleared,
\* a live socket is closed without its handlers being taken off, and a new
\* socket takes its place.  A token nobody knows is as good as none.
ConnectInternal(t, rest) ==
  LET s == CHOOSE s \in Sockets : Fresh(s)
      old == tab[t].ws
      token == IF store = s THEN None ELSE store
  IN /\ \E q \in Sockets : Fresh(q)
     /\ tab' = [tab EXCEPT ![t] = [rest EXCEPT !.ws = s, !.timer = FALSE]]
     /\ sock' = [q \in Sockets |->
          IF q = s THEN [Dead EXCEPT !.tab = t, !.given = token, !.cli = "connecting",
                                     !.srv = "open", !.phase = "hello"]
          ELSE IF q = old /\ Live(old) THEN [sock[q] EXCEPT !.cli = "closing"]
          ELSE sock[q]]
     /\ store' = token
     /\ sess' = [sess EXCEPT ![s] = NoSession]
     /\ channel' = channel \ {s}
     /\ IF Live(old) THEN Trouble /\ astray' = astray \cup {t}
        ELSE UNCHANGED <<trouble, astray>>
     /\ UNCHANGED <<sessions, registry, saved>>

TimerFires(t) ==
  /\ tab[t].timer /\ ~tab[t].hidden
  /\ ConnectInternal(t, tab[t])

\* handleAuthRequired got a new token, or none and the client gives up.
Renewed(t) ==
  /\ tab[t].renew > 0
  /\ LET rest == [tab[t] EXCEPT !.renew = @ - 1]
     IN \/ ~tab[t].hidden /\ ConnectInternal(t, rest)
        \/ /\ tab[t].hidden /\ tab' = [tab EXCEPT ![t] = rest]
           /\ UNCHANGED <<server, store, sock, trouble, astray>>
        \/ /\ Trouble /\ tab' = [tab EXCEPT ![t] = rest]
           /\ astray' = astray \cup {t}
           /\ UNCHANGED <<server, store, sock>>

\* onopen: the token is fresh, then auth, presence and subscribe are sent.
Opens(s) ==
  /\ sock[s].cli = "connecting" /\ ~sock[s].cut /\ sock[s].srv # "closed"
  /\ sock' = [sock EXCEPT ![s].cli = "open",
       ![s].inbox = IF sock[s].phase = "hello"
                    THEN <<"auth", "presence", "subscribe">> ELSE @]
  /\ UNCHANGED <<server, tab, store, trouble, astray>>

\* A close never schedules a reconnection (mutant).
OnCloseOfCurrent(t, code) ==
  IF code = "close4001" THEN tab' = [tab EXCEPT ![t].renew = @ + 1] ELSE UNCHANGED tab

\* onclose, whichever of the tab's sockets it is for.
OnClose(t, code) ==
  IF code = "close4001" THEN tab' = [tab EXCEPT ![t].renew = @ + 1]
  ELSE tab' = [tab EXCEPT ![t].timer = @ \/ ~tab[t].hidden]

\* The next frame of the server; a socket that is closing takes only the close.
Receives(s) ==
  LET t == sock[s].tab  frame == Head(sock[s].out)
      rest == [sock[s] EXCEPT !.out = Tail(@)]
  IN /\ sock[s].out # <<>> /\ ~sock[s].cut /\ sock[s].cli \in {"open", "closing"}
     /\ \/ /\ frame = "auth_ok" /\ sock[s].cli = "open"
           /\ store' = s
           /\ Becomes(s, [rest EXCEPT !.inbox = Append(@, "subscribe")])
           /\ UNCHANGED tab
        \/ /\ frame = "auth_required" /\ sock[s].cli = "open"
           /\ tab' = [tab EXCEPT ![t].renew = @ + 1]
           /\ Becomes(s, rest) /\ UNCHANGED store
        \/ /\ frame \in {"close", "close4001"}
           /\ OnClose(t, frame)
           /\ Becomes(s, [rest EXCEPT !.cli = "closed", !.out = <<>>]) /\ UNCHANGED store
        \/ /\ frame \in {"auth_ok", "auth_required"} /\ sock[s].cli = "closing"
           /\ Becomes(s, rest) /\ UNCHANGED <<tab, store>>
     /\ UNCHANGED <<server, trouble, astray>>

\* The client's end is done: its own close() completed, the watchdog saw no
\* traffic on a broken connection, or the server's end is gone.
ClientEndCloses(s) ==
  /\ sock[s].cli # "closed"
  /\ \/ sock[s].cut
     \/ sock[s].cli = "closing" /\ sock[s].out = <<>>
     \/ sock[s].srv = "closed" /\ sock[s].out = <<>>
  /\ Becomes(s, [sock[s] EXCEPT !.cli = "closed", !.cut = FALSE, !.out = <<>>])
  /\ OnClose(sock[s].tab, "close")
  /\ UNCHANGED <<server, store, trouble, astray>>

Hide(t) ==
  /\ Trouble /\ ~tab[t].hidden
  /\ tab' = [tab EXCEPT ![t].hidden = TRUE, ![t].timer = FALSE]
  /\ UNCHANGED <<server, store, sock, astray>>

Show(t) ==
  /\ tab[t].hidden
  /\ LET rest == [tab[t] EXCEPT !.hidden = FALSE]  ws == tab[t].ws
     IN IF ws # None /\ sock[ws].cli = "open"
        THEN /\ tab' = [tab EXCEPT ![t] = rest]
             /\ UNCHANGED <<server, store, sock, trouble, astray>>
        ELSE ConnectInternal(t, rest)

-----------------------------------------------------------------------------
(* The network.                                                            *)

Cut(s) ==
  /\ Trouble /\ sock[s].cli # "closed" /\ ~sock[s].cut
  /\ sock' = [sock EXCEPT ![s].cut = TRUE, ![s].out = <<>>]
  /\ UNCHANGED <<server, tab, store, astray>>

-----------------------------------------------------------------------------
(* The server: authentication and session restore.                         *)

\* ws.send and ws.close, as far as the frames can arrive.
Sends(s, frames) ==
  IF sock[s].srv = "open" /\ ~sock[s].cut /\ sock[s].cli # "closed"
  THEN sock[s].out \o frames ELSE sock[s].out

Refuse(s) ==
  Becomes(s, [sock[s] EXCEPT !.phase = "refused", !.inbox = <<>>, !.given = None,
                             !.out = Sends(s, <<"auth_required", "close4001">>),
                             !.srv = IF @ = "open" THEN "closing" ELSE @])

AuthTimesOut(s) ==
  /\ sock[s].phase = "hello" /\ Trouble
  /\ Refuse(s)
  /\ UNCHANGED <<server, tab, store, astray>>

AuthArrives(s) ==
  /\ sock[s].phase = "hello" /\ sock[s].inbox # <<>>
  /\ sock' = [sock EXCEPT ![s].phase = "verify", ![s].inbox = Tail(@)]
  /\ UNCHANGED <<server, tab, store, trouble, astray>>

TokenRefused(s) ==
  /\ sock[s].phase = "verify" /\ Trouble
  /\ Refuse(s)
  /\ UNCHANGED <<server, tab, store, astray>>

\* The session the token finds: an active one, or a snapshot of one.
Found(g) == g # None /\ (g \in sessions \/ saved[g].kept)
Old(g) == IF g \in sessions THEN sess[g] ELSE saved[g]

\* As if the old socket kept its subscriptions (mutant).
RestoreCopy(s, g) ==
  /\ sess' = [sess EXCEPT ![g].subs = IF g \in sessions THEN FALSE ELSE @,
                          ![s] = [here |-> Old(g).here, subs |-> Old(g).subs]]
  /\ channel' = IF Old(g).subs THEN channel \cup {s} ELSE channel
  /\ saved' = [saved EXCEPT ![g] =
       IF g \in sessions THEN Snap([sess[g] EXCEPT !.subs = FALSE]) ELSE NoSnap]
  /\ sessions' = (sessions \ {g}) \cup {s}

\* The old session's subscriptions and bus move to socket s.
Restore(s, g) ==
  /\ sess' = [sess EXCEPT ![g].subs = IF g \in sessions THEN FALSE ELSE @,
                          ![s] = [here |-> Old(g).here, subs |-> Old(g).subs]]
  /\ channel' = IF Old(g).subs THEN (channel \ {g}) \cup {s} ELSE channel
  /\ saved' = [saved EXCEPT ![g] =
       IF g \in sessions THEN Snap([sess[g] EXCEPT !.subs = FALSE]) ELSE NoSnap]
  /\ sessions' = (sessions \ {g}) \cup {s}

\* The connection may have been lost while its token was verified.
Verified(s) ==
  /\ sock[s].phase = "verify"
  /\ \/ Found(sock[s].given) /\ Restore(s, sock[s].given)
     \/ /\ ~Found(sock[s].given)
        /\ sess' = [sess EXCEPT ![s] = NoSession]
        /\ sessions' = sessions \cup {s}
        /\ UNCHANGED <<channel, saved>>
  /\ registry' = registry \cup {s}
  /\ Becomes(s, [sock[s] EXCEPT !.phase = "live", !.given = None,
                                !.out = Sends(s, <<"auth_ok">>)])
  /\ UNCHANGED <<tab, store, trouble, astray>>

-----------------------------------------------------------------------------
(* The frames of one connection are handled one after the other.           *)

\* As if a frame did not wait for the one before it (mutant).
ReadyAtOnce(s) == sock[s].phase = "live" /\ sock[s].inbox # <<>>

Ready(s) == sock[s].phase = "live" /\ sock[s].busy = "none" /\ sock[s].inbox # <<>>

Rejects(s) == Ready(s) /\ Head(sock[s].inbox) = "subscribe" /\ ~sess[s].here

\* presence and subscribe read the database before they change anything; a
\* subscription without a bus is rejected at once.
Takes(s) ==
  /\ Ready(s)
  /\ Becomes(s, [sock[s] EXCEPT !.inbox = Tail(@),
       !.busy = IF Rejects(s) THEN @ ELSE Head(sock[s].inbox)])
  /\ UNCHANGED <<server, tab, store, trouble, astray>>

\* setBusId looks the session up, subscribe uses the object it was given.
Finishes(s) ==
  /\ sock[s].busy # "none"
  /\ \/ /\ sock[s].busy = "presence"
        /\ sess' = [sess EXCEPT ![s].here = @ \/ s \in sessions]
        /\ UNCHANGED channel
     \/ /\ sock[s].busy = "subscribe"
        /\ sess' = [sess EXCEPT ![s].subs = TRUE]
        /\ channel' = channel \cup {s}
  /\ Becomes(s, [sock[s] EXCEPT !.busy = "none"])
  /\ UNCHANGED <<sessions, registry, saved, tab, store, trouble, astray>>

-----------------------------------------------------------------------------
(* The server: the end of a connection, evictions and time.                *)

\* A cleanup that leaves the session behind (mutant).
CleanupRegistry(s) == registry' = registry \ {s} /\ UNCHANGED <<channel, sess, saved, sessions>>

\* connectionCleanupService.cleanup: a socket whose session is gone keeps
\* its place in the channel.
Cleanup(s) ==
  /\ registry' = registry \ {s}
  /\ IF s \in sessions
     THEN /\ channel' = IF sess[s].subs THEN channel \ {s} ELSE channel
          /\ sess' = [sess EXCEPT ![s].subs = FALSE]
          /\ saved' = [saved EXCEPT ![s] = Snap([sess[s] EXCEPT !.subs = FALSE])]
          /\ sessions' = sessions \ {s}
     ELSE UNCHANGED <<channel, sess, saved, sessions>>

\* The close event; only an authenticated connection has a listener that
\* cleans up.
ServerEndCloses(s) ==
  /\ sock[s].srv # "closed"
  /\ sock[s].cut \/ sock[s].cli \in {"closing", "closed"}
  /\ Becomes(s, IF sock[s].phase = "hello"
                 THEN [sock[s] EXCEPT !.srv = "closed", !.phase = "refused",
                                      !.given = None, !.inbox = <<>>]
                 ELSE [sock[s] EXCEPT !.srv = "closed"])
  /\ IF sock[s].phase = "live" THEN Cleanup(s) ELSE UNCHANGED server
  /\ UNCHANGED <<tab, store, trouble, astray>>

\* role_invalidate, student_assign_invalidate or the revalidation of
\* entitlements: every session of the user is closed and forgotten; its
\* subscriptions stay in the snapshot and in the channel.
Evict ==
  /\ Trouble /\ sessions # {}
  /\ sock' = [s \in Sockets |->
       IF s \in sessions \cap registry
       THEN [sock[s] EXCEPT !.out = Sends(s, <<"close">>),
                            !.srv = IF @ = "open" THEN "closing" ELSE @]
       ELSE sock[s]]
  /\ saved' = [s \in Sockets |-> IF s \in sessions THEN Snap(sess[s]) ELSE saved[s]]
  /\ registry' = registry \ sessions
  /\ sessions' = {}
  /\ UNCHANGED <<tab, store, sess, channel, astray>>

\* A snapshot is kept for 60 seconds.
Expires(s) ==
  /\ saved[s].kept
  /\ saved' = [saved EXCEPT ![s] = NoSnap]
  /\ UNCHANGED <<tab, store, sock, sess, sessions, registry, channel, trouble, astray>>

-----------------------------------------------------------------------------
TabStep(t) == TimerFires(t) \/ Renewed(t) \/ Show(t)

SocketStep(s) ==
  \/ Opens(s) \/ Receives(s) \/ ClientEndCloses(s)
  \/ AuthArrives(s) \/ Verified(s) \/ Takes(s) \/ Finishes(s)
  \/ ServerEndCloses(s) \/ Expires(s)

Next ==
  \/ \E t \in Tabs : TabStep(t) \/ Hide(t)
  \/ \E s \in Sockets : \/ SocketStep(s) \/ Cut(s)
                        \/ AuthTimesOut(s) \/ TokenRefused(s)
  \/ Evict

Spec == Init /\ [][Next]_vars

\* Timers fire, a token is renewed or not, users come back to the tab, frames
\* arrive on a connection that is whole, both ends learn of one that is not,
\* and handlers go on.
FairSpec ==
  /\ Spec
  /\ \A t \in Tabs : WF_vars(TimerFires(t)) /\ WF_vars(Renewed(t)) /\ WF_vars(Show(t))
  /\ \A s \in Sockets :
       /\ WF_vars(Opens(s)) /\ WF_vars(Receives(s)) /\ WF_vars(ClientEndCloses(s))
       /\ WF_vars(AuthArrives(s)) /\ WF_vars(Verified(s))
       /\ WF_vars(Takes(s)) /\ WF_vars(Finishes(s))
       /\ WF_vars(ServerEndCloses(s)) /\ WF_vars(Expires(s))

-----------------------------------------------------------------------------
(* Every variable keeps its range; a tab has one live socket, the one it   *)
(* uses; a session is restored to one socket only.                         *)
TypeOK ==
  /\ \A t \in Tabs : /\ tab[t].ws \in Sockets \cup {None}
                     /\ tab[t].renew \in Nat
                     /\ {tab[t].timer, tab[t].hidden} \subseteq BOOLEAN
  /\ store \in Sockets \cup {None}
  /\ \A s \in Sockets :
       /\ sock[s].cli \in {"connecting", "open", "closing", "closed"}
       /\ sock[s].srv \in {"open", "closing", "closed"}
       /\ sock[s].phase \in {"hello", "verify", "live", "refused"}
       /\ sock[s].busy \in {"none", "presence", "subscribe"}
       /\ Live(s) => tab[sock[s].tab].ws = s
  /\ sessions \cup registry \cup channel \subseteq Sockets
  /\ sessions \subseteq registry
  /\ trouble \in 0..MaxTrouble /\ astray \subseteq Tabs

(* The session object and the channel are two records of one subscription, *)
(* kept by different modules and changed by restores, evictions, closes    *)
(* and handlers that finish late: for every socket a broadcast can reach   *)
(* they agree.                                                             *)
SubscriptionsAgree == \A s \in registry : s \in channel <=> sess[s].subs

(* The per-socket queue: a subscription sent after presence is never       *)
(* rejected for want of a bus, unless the session was taken away from the  *)
(* socket meanwhile (websocket-server, PER-SOCKET ASYNC QUEUE).            *)
PresenceComesFirst == [][\A s \in Sockets : Rejects(s) /\ Takes(s) => s \notin sessions]_vars

Served(t) ==
  LET s == tab[t].ws
  IN /\ s # None /\ sock[s].cli = "open" /\ sock[s].srv = "open" /\ ~sock[s].cut
     /\ s \in registry /\ s \in channel

(* After the last of the troubles a client is served again and stays so,   *)
(* unless it went astray: it closed a live socket of its own, whose        *)
(* onclose then closes the next one, or it gave up for want of a token.    *)
SettlesOrStrays == \A t \in Tabs : <>[](Served(t) \/ t \in astray)
=============================================================================
