------------------------ MODULE SocketSessionsProofs ------------------------
(***************************************************************************)
(* One user's connections, for any number of tabs, sockets and troubles:   *)
(* the session objects and the channel say the same of every registered    *)
(* socket, a tab has one live socket, and no subscription is rejected that *)
(* was sent after presence.                                                *)
(*                                                                         *)
(* The server knows nothing of a socket before its token is verified, and  *)
(* a snapshot that says subscribed is of a socket no longer registered     *)
(* (ServerOK): so a restored session takes nobody else's place in the      *)
(* channel.  A session without a bus still has its presence to come, as    *)
(* the next frame or the one being handled (Awaits).                       *)
(***************************************************************************)
EXTENDS SocketSessions, SequenceTheorems, TLAPS

Requests == {"presence", "subscribe"}
Frames == {"auth_ok", "auth_required", "close", "close4001"}

TabState == [ws : Sockets \cup {None}, timer : BOOLEAN, renew : Nat, hidden : BOOLEAN]
Session == [here : BOOLEAN, subs : BOOLEAN]
Snapshot == [here : BOOLEAN, subs : BOOLEAN, kept : BOOLEAN]

Connection ==
  [tab : Tabs \cup {None}, given : Sockets \cup {None},
   cli : {"connecting", "open", "closing", "closed"}, srv : {"open", "closing", "closed"},
   cut : BOOLEAN, phase : {"hello", "verify", "live", "refused"},
   inbox : Seq(Requests \cup {"auth"}), out : Seq(Frames),
   busy : Requests \cup {"none"}]

Alive(x) == x.cli \in {"connecting", "open"}

\* The server has not verified the token of connection x.
Unknown(x) == x.phase \in {"hello", "verify"}

\* The user's presence is still to come over connection x.
Awaits(x) == x.busy = "presence" \/ (x.inbox # <<>> /\ Head(x.inbox) = "presence")

\* What connection s may be, by how far the server has got with it.
Fits(s, x) ==
  /\ x \in Connection
  /\ x.phase = "hello" => x.inbox \in {<<>>, <<"auth", "presence", "subscribe">>}
  /\ x.phase = "verify" => x.inbox = <<"presence", "subscribe">>
  /\ ~Unknown(x) => x.inbox \in Seq(Requests)
  /\ Unknown(x) => x.out = <<>> /\ x.given # s
  /\ x.busy # "none" => x.phase = "live"
  /\ Alive(x) => x.tab \in Tabs

\* Connections so and tabs tb: a live socket is the one its tab uses.
ClientOK(tb, so) ==
  /\ tb \in [Tabs -> TabState]
  /\ so \in [Sockets -> Connection]
  /\ \A s \in Sockets : Fits(s, so[s]) /\ (Alive(so[s]) => tb[so[s].tab].ws = s)

ServerOK(so, se, ses, reg, ch, sa) ==
  /\ se \in [Sockets -> Session] /\ sa \in [Sockets -> Snapshot]
  /\ ses \subseteq reg /\ reg \subseteq Sockets /\ ch \subseteq Sockets
  /\ \A s \in reg : s \in ch <=> se[s].subs
  /\ \A s \in Sockets : sa[s].subs => sa[s].kept /\ s \notin reg
  /\ \A s \in Sockets : Unknown(so[s]) => s \notin reg \cup ch /\ ~sa[s].kept
  /\ \A s \in ses : se[s].here \/ Awaits(so[s])

Inv ==
  /\ ClientOK(tab, sock)
  /\ ServerOK(sock, sess, sessions, registry, channel, saved)
  /\ store \in Sockets \cup {None}
  /\ trouble \in 0..MaxTrouble /\ astray \subseteq Tabs

-----------------------------------------------------------------------------
(* Frames on their way.                                                    *)

LEMMA FirstFrames ==
  /\ <<"auth", "presence", "subscribe">> \in Seq(Requests \cup {"auth"})
  /\ <<"presence", "subscribe">> \in Seq(Requests)
  /\ Tail(<<"auth", "presence", "subscribe">>) = <<"presence", "subscribe">>
  /\ Head(<<"presence", "subscribe">>) = "presence"
  /\ <<"presence", "subscribe">> # <<>>
  /\ <<"auth", "presence", "subscribe">> # <<>>
BY DEF Requests

LEMMA RequestsFirst == \A q \in Seq(Requests) : q \in Seq(Requests \cup {"auth"})
BY SeqMonotonic

LEMMA NextFrame ==
  ASSUME NEW S, NEW q \in Seq(S), q # <<>>
  PROVE  Head(q) \in S /\ Tail(q) \in Seq(S)
BY HeadTailProperties

LEMMA LastFrame ==
  ASSUME NEW q \in Seq(Requests)
  PROVE  LET a == Append(q, "subscribe") IN
         a \in Seq(Requests) /\ a # <<>> /\ (q # <<>> => Head(a) = Head(q))
<1>1. "subscribe" \in Requests
  BY DEF Requests
<1> QED
  BY <1>1, AppendProperties, HeadTailAppend

-----------------------------------------------------------------------------
(* One connection moves, and the server does not.                          *)

LEMMA DeadFits ==
  ASSUME NEW s
  PROVE  Fits(s, Dead) /\ ~Alive(Dead) /\ ~Unknown(Dead) /\ ~Awaits(Dead)
<1>1. <<>> \in Seq(Requests) /\ <<>> \in Seq(Frames) /\ <<>> \in Seq(Requests \cup {"auth"})
  BY EmptySeq
<1>2. Dead \in Connection
  BY <1>1 DEF Dead, Connection, Requests
<1> QED
  BY <1>1, <1>2 DEF Dead, Fits, Alive, Unknown, Awaits

(* x may take the place of connection s, the sessions being se.            *)
Moves(s, x, se) ==
  /\ Fits(s, x)
  /\ Unknown(x) => Unknown(sock[s])
  /\ s \in sessions /\ ~se[s].here /\ Awaits(sock[s]) => Awaits(x)
  /\ Alive(x) => Alive(sock[s]) /\ x.tab = sock[s].tab

LEMMA MovesClient ==
  ASSUME NEW tb, ClientOK(tab, sock), NEW s \in Sockets, NEW x, NEW se, Moves(s, x, se),
         tb \in [Tabs -> TabState], \A t \in Tabs : tb[t].ws = tab[t].ws,
         sock' = [sock EXCEPT ![s] = x]
  PROVE  ClientOK(tb, sock')
<1>1. /\ sock' \in [Sockets -> Connection] /\ sock'[s] = x
      /\ \A q \in Sockets \ {s} : sock'[q] = sock[q]
  BY DEF ClientOK, Moves, Fits
<1>2. ASSUME NEW q \in Sockets
      PROVE  Fits(q, sock'[q]) /\ (Alive(sock'[q]) => tb[sock'[q].tab].ws = q)
  <2>1. Fits(q, sock'[q]) /\ (Alive(sock'[q]) => Alive(sock[q]) /\ sock'[q].tab = sock[q].tab)
    BY <1>1 DEF ClientOK, Moves
  <2>2. Alive(sock[q]) => sock[q].tab \in Tabs /\ tab[sock[q].tab].ws = q
    BY DEF ClientOK, Fits
  <2> QED
    BY <2>1, <2>2
<1> QED
  BY <1>1, <1>2 DEF ClientOK

LEMMA MovesServer ==
  ASSUME NEW se, NEW ch, ServerOK(sock, se, sessions, registry, ch, saved),
         sock \in [Sockets -> Connection],
         NEW s \in Sockets, NEW x, Moves(s, x, se), sock' = [sock EXCEPT ![s] = x]
  PROVE  ServerOK(sock', se, sessions, registry, ch, saved)
<1>1. sock'[s] = x /\ \A q \in Sockets \ {s} : sock'[q] = sock[q]
  OBVIOUS
<1>2. \A q \in Sockets : Unknown(sock'[q]) => Unknown(sock[q])
  BY <1>1 DEF Moves
<1>3. \A q \in Sockets :
        q \in sessions /\ ~se[q].here /\ Awaits(sock[q]) => Awaits(sock'[q])
  BY <1>1 DEF Moves
<1> QED
  BY <1>2, <1>3 DEF ServerOK

LEMMA BecomesMoves ==
  ASSUME NEW s, NEW x, NEW se, Moves(s, x, se), Becomes(s, x)
  PROVE  \E z : sock' = [sock EXCEPT ![s] = z] /\ Moves(s, z, se)
<1>1. CASE sock' = [sock EXCEPT ![s] = x]
  BY <1>1
<1>2. CASE sock' = [sock EXCEPT ![s] = Dead] /\ x.inbox = <<>> /\ x.busy = "none"
  <2>1. ~Awaits(x)
    BY <1>2 DEF Awaits
  <2>2. Moves(s, Dead, se)
    BY <2>1, DeadFits DEF Moves
  <2> QED
    BY <1>2, <2>2
<1> QED
  BY <1>1, <1>2 DEF Becomes

(* The step of a connection that leaves the server's records alone.        *)
LEMMA SocketMoves ==
  ASSUME Inv, NEW s \in Sockets, NEW x, Moves(s, x, sess),
         Becomes(s, x) \/ sock' = [sock EXCEPT ![s] = x],
         tab' \in [Tabs -> TabState], \A t \in Tabs : tab'[t].ws = tab[t].ws,
         UNCHANGED server, store' \in Sockets \cup {None},
         trouble' \in 0..MaxTrouble, astray' \subseteq Tabs
  PROVE  Inv'
<1>1. PICK z : sock' = [sock EXCEPT ![s] = z] /\ Moves(s, z, sess)
  BY BecomesMoves
<1>2. ClientOK(tab', sock')
  BY <1>1, MovesClient DEF Inv
<1>3. ServerOK(sock', sess, sessions, registry, channel, saved)
  BY <1>1, MovesServer DEF Inv, ClientOK
<1> QED
  BY <1>2, <1>3 DEF Inv, server

-----------------------------------------------------------------------------
(* The steps of the client that leave its socket in use.                   *)

\* The tabs change, but not the socket a tab uses.
TabsKeep == tab' \in [Tabs -> TabState] /\ \A t \in Tabs : tab'[t].ws = tab[t].ws

LEMMA TabSet ==
  ASSUME tab \in [Tabs -> TabState], NEW t, NEW r,
         t \in Tabs => r \in TabState /\ r.ws = tab[t].ws,
         tab' = [tab EXCEPT ![t] = r]
  PROVE  TabsKeep
BY DEF TabsKeep

LEMMA TabRenews ==
  ASSUME tab \in [Tabs -> TabState], NEW t, tab' = [tab EXCEPT ![t].renew = @ + 1]
  PROVE  TabsKeep
<1>1. t \in Tabs => [tab[t] EXCEPT !.renew = @ + 1] \in TabState
  BY DEF TabState
<1>2. t \in Tabs => [tab[t] EXCEPT !.renew = @ + 1].ws = tab[t].ws
  BY DEF TabState
<1> QED
  BY <1>1, <1>2 DEF TabsKeep

LEMMA OnCloseKeeps ==
  ASSUME tab \in [Tabs -> TabState], NEW t, NEW code, OnClose(t, code)
  PROVE  TabsKeep
<1>1. CASE tab' = [tab EXCEPT ![t].renew = @ + 1]
  BY <1>1, TabRenews
<1>2. CASE tab' = [tab EXCEPT ![t].timer = @ \/ ~tab[t].hidden]
  <2> DEFINE b == tab[t].timer \/ ~tab[t].hidden
             r == [tab[t] EXCEPT !.timer = b]
  <2>1. t \in Tabs => b \in BOOLEAN
    BY DEF TabState
  <2>2. tab' = [tab EXCEPT ![t] = r]
    BY <1>2
  <2> HIDE DEF b
  <2>3. t \in Tabs => r \in TabState /\ r.ws = tab[t].ws
    BY <2>1 DEF TabState
  <2> HIDE DEF r
  <2> QED
    BY <2>2, <2>3, TabSet
<1> QED
  BY <1>1, <1>2 DEF OnClose

LEMMA Untroubled ==
  ASSUME Inv, (UNCHANGED trouble \/ Trouble)
  PROVE  trouble' \in 0..MaxTrouble
<1>1. trouble \in 0..MaxTrouble /\ MaxTrouble \in Nat
  BY BoundsAssumption DEF Inv
<1> QED
  BY <1>1 DEF Trouble

(* A connection the server knows changes what a frame changes.             *)
LEMMA KnownMoves ==
  ASSUME Inv, NEW s \in Sockets, ~Unknown(sock[s]), NEW x \in Connection,
         x.phase = sock[s].phase, x.inbox \in Seq(Requests), x.tab = sock[s].tab,
         x.busy # "none" => x.phase = "live",
         Alive(x) => Alive(sock[s]), s \in sessions /\ Awaits(sock[s]) => Awaits(x)
  PROVE  Moves(s, x, sess)
BY DEF Moves, Fits, Unknown, Inv, ClientOK

LEMMA ConnectionOf ==
  ASSUME Inv, NEW s \in Sockets
  PROVE  /\ sock[s] \in Connection /\ Fits(s, sock[s])
         /\ tab \in [Tabs -> TabState] /\ store \in Sockets \cup {None}
BY DEF Inv, ClientOK, Fits

LEMMA OpensKeeps ==
  ASSUME Inv, NEW s \in Sockets, Opens(s)
  PROVE  Inv'
<1>0. sock[s] \in Connection /\ Fits(s, sock[s]) /\ tab \in [Tabs -> TabState]
  BY ConnectionOf
<1> DEFINE x == [sock[s] EXCEPT !.cli = "open", !.inbox =
                   IF sock[s].phase = "hello" THEN <<"auth", "presence", "subscribe">> ELSE @]
<1>1. sock' = [sock EXCEPT ![s] = x]
  BY DEF Opens, Inv, ClientOK
<1>2. /\ x \in Connection /\ x.cli = "open" /\ x.phase = sock[s].phase /\ x.tab = sock[s].tab
      /\ x.out = sock[s].out /\ x.given = sock[s].given /\ x.busy = sock[s].busy
      /\ x.inbox = IF sock[s].phase = "hello" THEN <<"auth", "presence", "subscribe">>
                   ELSE sock[s].inbox
  BY <1>0, FirstFrames DEF Connection
<1>3. Alive(sock[s])
  BY DEF Opens, Alive
<1> HIDE DEF x
<1>4. Fits(s, x)
  BY <1>0, <1>2, <1>3 DEF Fits, Unknown, Alive
<1>5. s \in sessions => ~Unknown(sock[s])
  BY DEF Inv, ServerOK
<1>6. Moves(s, x, sess)
  BY <1>2, <1>3, <1>4, <1>5 DEF Moves, Unknown, Awaits
<1> QED
  BY <1>0, <1>1, <1>6, SocketMoves DEF Opens, Inv

LEMMA ReceivesKeeps ==
  ASSUME Inv, NEW s \in Sockets, Receives(s)
  PROVE  Inv'
<1>0. /\ sock[s] \in Connection /\ Fits(s, sock[s]) /\ tab \in [Tabs -> TabState]
      /\ store \in Sockets \cup {None}
  BY ConnectionOf
<1>1. ~Unknown(sock[s]) /\ sock[s].inbox \in Seq(Requests) /\ sock[s].out \in Seq(Frames)
  BY <1>0 DEF Receives, Fits, Connection
<1> DEFINE rest == [sock[s] EXCEPT !.out = Tail(@)]
<1>2. Tail(sock[s].out) \in Seq(Frames) /\ <<>> \in Seq(Frames)
  BY <1>1, NextFrame, EmptySeq DEF Receives
<1>3. rest \in Connection /\ Moves(s, rest, sess)
  <2>1. /\ rest \in Connection /\ rest.phase = sock[s].phase /\ rest.inbox = sock[s].inbox
        /\ rest.tab = sock[s].tab /\ rest.busy = sock[s].busy /\ rest.cli = sock[s].cli
    BY <1>0, <1>2 DEF Connection
  <2> QED
    BY <1>0, <1>1, <2>1, KnownMoves DEF Alive, Awaits, Fits
<1>4. CASE Becomes(s, rest) /\ UNCHANGED store /\ (UNCHANGED tab \/ tab' = [tab EXCEPT ![sock[s].tab].renew = @ + 1])
  <2>1. TabsKeep
    BY <1>0, <1>4, TabRenews DEF TabsKeep
  <2> HIDE DEF rest
  <2> QED
    BY <1>0, <1>3, <1>4, <2>1, SocketMoves DEF Receives, Inv, TabsKeep
<1>5. CASE store' = s /\ Becomes(s, [rest EXCEPT !.inbox = Append(@, "subscribe")]) /\ UNCHANGED tab
  <2> DEFINE x == [rest EXCEPT !.inbox = Append(@, "subscribe")]
  <2>1. /\ Append(sock[s].inbox, "subscribe") \in Seq(Requests)
        /\ Append(sock[s].inbox, "subscribe") # <<>>
        /\ sock[s].inbox # <<>> => Head(Append(sock[s].inbox, "subscribe")) = Head(sock[s].inbox)
    BY <1>1, LastFrame
  <2>2. Append(sock[s].inbox, "subscribe") \in Seq(Requests \cup {"auth"})
    BY <2>1, RequestsFirst
  <2>3. /\ x \in Connection /\ x.phase = sock[s].phase /\ x.inbox = Append(sock[s].inbox, "subscribe")
        /\ x.tab = sock[s].tab /\ x.busy = sock[s].busy /\ x.cli = sock[s].cli
    BY <1>0, <1>2, <2>2 DEF Connection
  <2> HIDE DEF x
  <2>4. Moves(s, x, sess)
    BY <1>0, <1>1, <2>1, <2>3, KnownMoves DEF Alive, Awaits, Fits
  <2>5. Becomes(s, x)
    BY <1>5 DEF x
  <2> QED
    BY <1>0, <1>5, <2>4, <2>5, SocketMoves DEF Receives, Inv
<1>6. CASE \E code : OnClose(sock[s].tab, code) /\ UNCHANGED store
             /\ Becomes(s, [rest EXCEPT !.cli = "closed", !.out = <<>>])
  <2> DEFINE x == [rest EXCEPT !.cli = "closed", !.out = <<>>]
  <2>1. /\ x \in Connection /\ x.phase = sock[s].phase /\ x.inbox = sock[s].inbox
        /\ x.tab = sock[s].tab /\ x.busy = sock[s].busy /\ x.cli = "closed"
    BY <1>0, <1>2 DEF Connection
  <2>2. Becomes(s, x)
    BY <1>6
  <2> HIDE DEF x
  <2>3. Moves(s, x, sess)
    BY <1>0, <1>1, <2>1, KnownMoves DEF Alive, Awaits, Fits
  <2>4. TabsKeep
    BY <1>0, <1>6, OnCloseKeeps
  <2> QED
    BY <1>0, <1>6, <2>2, <2>3, <2>4, SocketMoves DEF Receives, Inv, TabsKeep
<1> QED
  BY <1>4, <1>5, <1>6 DEF Receives

LEMMA ClientEndClosesKeeps ==
  ASSUME Inv, NEW s \in Sockets, ClientEndCloses(s)
  PROVE  Inv'
<1>0. /\ sock[s] \in Connection /\ Fits(s, sock[s]) /\ tab \in [Tabs -> TabState]
      /\ store \in Sockets \cup {None}
  BY ConnectionOf
<1> DEFINE x == [sock[s] EXCEPT !.cli = "closed", !.cut = FALSE, !.out = <<>>]
<1>1. <<>> \in Seq(Frames)
  BY EmptySeq
<1>2. /\ x \in Connection /\ x.phase = sock[s].phase /\ x.inbox = sock[s].inbox
      /\ x.tab = sock[s].tab /\ x.busy = sock[s].busy /\ x.cli = "closed"
      /\ x.out = <<>> /\ x.given = sock[s].given
  BY <1>0, <1>1 DEF Connection
<1>3. Becomes(s, x)
  BY DEF ClientEndCloses
<1> HIDE DEF x
<1>4. Moves(s, x, sess)
  BY <1>0, <1>2 DEF Moves, Fits, Unknown, Alive, Awaits
<1>5. TabsKeep
  BY <1>0, OnCloseKeeps DEF ClientEndCloses
<1> QED
  BY <1>0, <1>3, <1>4, <1>5, SocketMoves DEF ClientEndCloses, Inv, TabsKeep

LEMMA CutKeeps ==
  ASSUME Inv, NEW s \in Sockets, Cut(s)
  PROVE  Inv'
<1>0. sock[s] \in Connection /\ Fits(s, sock[s]) /\ tab \in [Tabs -> TabState]
  BY ConnectionOf
<1> DEFINE x == [sock[s] EXCEPT !.cut = TRUE, !.out = <<>>]
<1>1. <<>> \in Seq(Frames)
  BY EmptySeq
<1>2. /\ x \in Connection /\ x.phase = sock[s].phase /\ x.inbox = sock[s].inbox
      /\ x.tab = sock[s].tab /\ x.busy = sock[s].busy /\ x.cli = sock[s].cli
      /\ x.out = <<>> /\ x.given = sock[s].given
  BY <1>0, <1>1 DEF Connection
<1>3. sock' = [sock EXCEPT ![s] = x]
  BY DEF Cut, Inv, ClientOK
<1> HIDE DEF x
<1>4. Moves(s, x, sess)
  BY <1>0, <1>2 DEF Moves, Fits, Unknown, Alive, Awaits
<1>5. trouble' \in 0..MaxTrouble
  BY Untroubled DEF Cut
<1> QED
  BY <1>0, <1>3, <1>4, <1>5, SocketMoves DEF Cut, Inv

-----------------------------------------------------------------------------
(* Authentication, and the frames of one connection.                       *)

LEMMA SendsTyped ==
  ASSUME NEW s, sock[s] \in Connection, NEW q \in Seq(Frames)
  PROVE  Sends(s, q) \in Seq(Frames)
<1>1. sock[s].out \in Seq(Frames)
  BY DEF Connection
<1>2. sock[s].out \o q \in Seq(Frames)
  BY <1>1, ConcatProperties
<1> QED
  BY <1>1, <1>2 DEF Sends

LEMMA Answers ==
  /\ <<"auth_required", "close4001">> \in Seq(Frames)
  /\ <<"auth_ok">> \in Seq(Frames) /\ <<"close">> \in Seq(Frames)
BY DEF Frames

LEMMA RefuseKeeps ==
  ASSUME Inv, NEW s \in Sockets, AuthTimesOut(s) \/ TokenRefused(s)
  PROVE  Inv'
<1>0. /\ sock[s] \in Connection /\ Fits(s, sock[s]) /\ tab \in [Tabs -> TabState]
      /\ store \in Sockets \cup {None}
  BY ConnectionOf
<1> DEFINE q == Sends(s, <<"auth_required", "close4001">>)
           x == [sock[s] EXCEPT !.phase = "refused", !.inbox = <<>>, !.given = None, !.out = q,
                                !.srv = IF @ = "open" THEN "closing" ELSE @]
<1>1. q \in Seq(Frames) /\ <<>> \in Seq(Requests) /\ <<>> \in Seq(Requests \cup {"auth"})
  BY <1>0, SendsTyped, Answers, EmptySeq
<1>2. Becomes(s, x)
  BY DEF AuthTimesOut, TokenRefused, Refuse
<1>3. Unknown(sock[s]) /\ s \notin sessions /\ sock[s].busy = "none"
  BY <1>0 DEF AuthTimesOut, TokenRefused, Unknown, Inv, ServerOK, Fits
<1> HIDE DEF q
<1>4. /\ x \in Connection /\ x.phase = "refused" /\ x.inbox = <<>>
      /\ x.tab = sock[s].tab /\ x.busy = sock[s].busy /\ x.cli = sock[s].cli
  BY <1>0, <1>1 DEF Connection
<1> HIDE DEF x
<1>5. Moves(s, x, sess)
  BY <1>0, <1>1, <1>3, <1>4 DEF Moves, Fits, Unknown, Alive
<1>6. trouble' \in 0..MaxTrouble
  BY Untroubled DEF AuthTimesOut, TokenRefused
<1> QED
  BY <1>0, <1>2, <1>5, <1>6, SocketMoves DEF AuthTimesOut, TokenRefused, Inv

LEMMA AuthArrivesKeeps ==
  ASSUME Inv, NEW s \in Sockets, AuthArrives(s)
  PROVE  Inv'
<1>0. sock[s] \in Connection /\ Fits(s, sock[s]) /\ tab \in [Tabs -> TabState]
  BY ConnectionOf
<1> DEFINE x == [sock[s] EXCEPT !.phase = "verify", !.inbox = Tail(@)]
<1>1. Unknown(sock[s]) /\ s \notin sessions /\ Tail(sock[s].inbox) = <<"presence", "subscribe">>
  BY <1>0, FirstFrames DEF AuthArrives, Unknown, Inv, ServerOK, Fits
<1>2. <<"presence", "subscribe">> \in Seq(Requests \cup {"auth"})
  BY FirstFrames, RequestsFirst
<1>3. /\ x \in Connection /\ x.phase = "verify" /\ x.inbox = <<"presence", "subscribe">>
      /\ x.tab = sock[s].tab /\ x.busy = sock[s].busy /\ x.cli = sock[s].cli
      /\ x.out = sock[s].out /\ x.given = sock[s].given
  BY <1>0, <1>1, <1>2 DEF Connection
<1>4. sock' = [sock EXCEPT ![s] = x]
  BY DEF AuthArrives, Inv, ClientOK
<1> HIDE DEF x
<1>5. Moves(s, x, sess)
  BY <1>0, <1>1, <1>3 DEF AuthArrives, Moves, Fits, Unknown, Alive
<1> QED
  BY <1>0, <1>4, <1>5, SocketMoves DEF AuthArrives, Inv

LEMMA TakesKeeps ==
  ASSUME Inv, NEW s \in Sockets, Takes(s)
  PROVE  Inv'
<1>0. sock[s] \in Connection /\ Fits(s, sock[s]) /\ tab \in [Tabs -> TabState]
  BY ConnectionOf
<1>1. /\ sock[s].phase = "live" /\ sock[s].busy = "none" /\ sock[s].inbox # <<>>
      /\ sock[s].inbox \in Seq(Requests)
  BY <1>0 DEF Takes, Ready, Fits, Unknown
<1>2. Head(sock[s].inbox) \in Requests /\ Tail(sock[s].inbox) \in Seq(Requests)
  BY <1>1, NextFrame
<1>3. Tail(sock[s].inbox) \in Seq(Requests \cup {"auth"})
  BY <1>2, RequestsFirst
<1> DEFINE b == IF Rejects(s) THEN sock[s].busy ELSE Head(sock[s].inbox)
           x == [sock[s] EXCEPT !.inbox = Tail(@), !.busy = b]
<1>4. b \in Requests \cup {"none"} /\ (Head(sock[s].inbox) = "presence" => b = "presence")
  BY <1>1, <1>2 DEF Rejects
<1>5. Becomes(s, x)
  BY DEF Takes
<1> HIDE DEF b
<1>6. /\ x \in Connection /\ x.phase = "live" /\ x.inbox = Tail(sock[s].inbox)
      /\ x.tab = sock[s].tab /\ x.busy = b /\ x.cli = sock[s].cli
  BY <1>0, <1>1, <1>3, <1>4 DEF Connection
<1> HIDE DEF x
<1>7. ~Unknown(sock[s]) /\ (Awaits(sock[s]) => Awaits(x))
  BY <1>1, <1>4, <1>6 DEF Unknown, Awaits
<1>8. Moves(s, x, sess)
  BY <1>1, <1>2, <1>6, <1>7, KnownMoves DEF Alive
<1> QED
  BY <1>0, <1>5, <1>8, SocketMoves DEF Takes, Inv

LEMMA FinishesKeeps ==
  ASSUME Inv, NEW s \in Sockets, Finishes(s)
  PROVE  Inv'
<1>0. sock[s] \in Connection /\ Fits(s, sock[s]) /\ tab \in [Tabs -> TabState]
  BY ConnectionOf
<1>1. ~Unknown(sock[s]) /\ sock[s].phase = "live" /\ sock[s].inbox \in Seq(Requests)
  BY <1>0 DEF Finishes, Fits, Unknown
<1> DEFINE x == [sock[s] EXCEPT !.busy = "none"]
<1>2. Becomes(s, x)
  BY DEF Finishes
<1>3. /\ x \in Connection /\ x.phase = sock[s].phase /\ x.inbox = sock[s].inbox
      /\ x.tab = sock[s].tab /\ x.busy = "none" /\ x.cli = sock[s].cli
  BY <1>0 DEF Connection
<1> HIDE DEF x
<1>4. sess \in [Sockets -> Session] /\ channel \subseteq Sockets
  BY DEF Inv, ServerOK
<1>5. /\ sess' \in [Sockets -> Session] /\ channel' \subseteq Sockets
      /\ \A q \in Sockets : sess[q].here => sess'[q].here
      /\ \A q \in Sockets \ {s} : sess'[q] = sess[q] /\ (q \in channel' <=> q \in channel)
      /\ (s \in channel <=> sess[s].subs) => (s \in channel' <=> sess'[s].subs)
      /\ sock[s].busy = "presence" /\ s \in sessions => sess'[s].here
  <2>1. CASE /\ sock[s].busy = "presence" /\ UNCHANGED channel
             /\ sess' = [sess EXCEPT ![s].here = @ \/ s \in sessions]
    <3> DEFINE b == sess[s].here \/ s \in sessions
               e == [sess[s] EXCEPT !.here = b]
    <3>1. b \in BOOLEAN /\ (sess[s].here => b) /\ (s \in sessions => b)
      BY <1>4 DEF Session
    <3>2. sess' = [sess EXCEPT ![s] = e]
      BY <1>4, <2>1
    <3> HIDE DEF b
    <3>3. e \in Session /\ e.here = b /\ e.subs = sess[s].subs
      BY <1>4, <3>1 DEF Session
    <3> HIDE DEF e
    <3> QED
      BY <1>4, <2>1, <3>1, <3>2, <3>3
  <2>2. CASE /\ sock[s].busy = "subscribe" /\ channel' = channel \cup {s}
             /\ sess' = [sess EXCEPT ![s].subs = TRUE]
    <3> DEFINE e == [sess[s] EXCEPT !.subs = TRUE]
    <3>1. sess' = [sess EXCEPT ![s] = e] /\ e \in Session /\ e.here = sess[s].here /\ e.subs = TRUE
      BY <1>4, <2>2 DEF Session
    <3> HIDE DEF e
    <3> QED
      BY <1>4, <2>2, <3>1
  <2> QED
    BY <2>1, <2>2 DEF Finishes
<1>6. ServerOK(sock, sess', sessions, registry, channel', saved)
  BY <1>1, <1>5 DEF Inv, ServerOK
<1>7. Moves(s, x, sess')
  BY <1>0, <1>1, <1>3, <1>5 DEF Moves, Fits, Unknown, Alive, Awaits
<1>8. PICK z : sock' = [sock EXCEPT ![s] = z] /\ Moves(s, z, sess')
  BY <1>2, <1>7, BecomesMoves
<1>9. ServerOK(sock', sess', sessions, registry, channel', saved)
  BY <1>6, <1>8, MovesServer DEF Inv, ClientOK
<1>10. ClientOK(tab, sock')
  BY <1>0, <1>8, MovesClient DEF Inv
<1> QED
  BY <1>9, <1>10 DEF Finishes, Inv

-----------------------------------------------------------------------------
(* Sessions begin, move and end.                                           *)

(* What the restore of g's session to s does to the server's records.      *)
LEMMA RestoreKeeps ==
  ASSUME Inv, NEW s \in Sockets, sock[s].phase = "verify", NEW g, g = sock[s].given, Found(g),
         Restore(s, g), registry' = registry \cup {s}
  PROVE  /\ sess' \in [Sockets -> Session] /\ saved' \in [Sockets -> Snapshot]
         /\ channel' \subseteq Sockets /\ sessions' = (sessions \ {g}) \cup {s}
         /\ \A q \in registry' : q \in channel' <=> sess'[q].subs
         /\ \A q \in Sockets : saved'[q].subs => saved'[q].kept /\ q \notin registry'
         /\ \A q \in Sockets \ {s} : q \in channel' => q \in channel
         /\ \A q \in Sockets : Unknown(sock[q]) => ~saved'[q].kept
         /\ \A q \in Sockets \ {s} : sess'[q].here = sess[q].here
<1>1. g \in Sockets /\ g # s
  BY ConnectionOf DEF Found, Connection, Fits, Unknown
<1>2. /\ sess \in [Sockets -> Session] /\ saved \in [Sockets -> Snapshot]
      /\ sessions \subseteq registry /\ registry \subseteq Sockets /\ channel \subseteq Sockets
      /\ s \notin registry /\ s \notin channel /\ ~saved[s].kept /\ ~saved[s].subs
      /\ \A q \in registry : q \in channel <=> sess[q].subs
      /\ \A q \in Sockets : saved[q].subs => saved[q].kept /\ q \notin registry
      /\ \A q \in Sockets : Unknown(sock[q]) => q \notin registry /\ ~saved[q].kept
  BY DEF Inv, ServerOK, Unknown
<1>3. sessions' = (sessions \ {g}) \cup {s}
  BY DEF Restore
<1>4. CASE g \in sessions
  <2>1. Old(g) = sess[g]
    BY <1>4 DEF Old
  <2> DEFINE e == [sess[g] EXCEPT !.subs = FALSE]
             f == [here |-> sess[g].here, subs |-> sess[g].subs]
             h == Snap(e)
  <2>2. /\ e \in Session /\ e.subs = FALSE /\ e.here = sess[g].here
        /\ f \in Session /\ f.subs = sess[g].subs
    <3>1. sess[g] \in Session
      BY <1>1, <1>2
    <3>2. sess[g].here \in BOOLEAN /\ sess[g].subs \in BOOLEAN
      BY <3>1 DEF Session
    <3> QED
      BY <3>1, <3>2 DEF Session
  <2>3. h \in Snapshot /\ h.subs = FALSE
    BY <2>2 DEF Snap, Session, Snapshot
  <2>4. sess' = [[sess EXCEPT ![g] = e] EXCEPT ![s] = f]
    BY <1>1, <1>2, <1>4, <2>1 DEF Restore
  <2>5. saved' = [saved EXCEPT ![g] = h]
    BY <1>4 DEF Restore
  <2>6. channel' = IF sess[g].subs THEN (channel \ {g}) \cup {s} ELSE channel
    BY <2>1 DEF Restore
  <2> HIDE DEF e, f, h
  <2>7. /\ sess' \in [Sockets -> Session] /\ sess'[s] = f /\ sess'[g] = e
        /\ \A q \in Sockets \ {s, g} : sess'[q] = sess[q]
    BY <1>1, <1>2, <2>2, <2>4
  <2>8. /\ saved' \in [Sockets -> Snapshot] /\ saved'[g] = h
        /\ \A q \in Sockets \ {g} : saved'[q] = saved[q]
    BY <1>1, <1>2, <2>3, <2>5
  <2>9. ~Unknown(sock[g])
    BY <1>1, <1>2, <1>4
  <2>10. \A q \in registry' : q \in channel' <=> sess'[q].subs
    BY <1>1, <1>2, <1>4, <2>2, <2>6, <2>7
  <2>11. \A q \in Sockets : saved'[q].subs => saved'[q].kept /\ q \notin registry'
    BY <1>1, <1>2, <2>3, <2>8
  <2>12. \A q \in Sockets \ {s} : sess'[q].here = sess[q].here
    BY <2>2, <2>7
  <2>13. channel' \subseteq Sockets /\ \A q \in Sockets \ {s} : q \in channel' => q \in channel
    BY <1>2, <2>6
  <2>14. \A q \in Sockets : Unknown(sock[q]) => ~saved'[q].kept
    BY <1>2, <2>8, <2>9
  <2> QED
    BY <1>3, <2>7, <2>8, <2>10, <2>11, <2>12, <2>13, <2>14
<1>5. CASE g \notin sessions
  <2>1. Old(g) = saved[g] /\ saved[g].kept
    BY <1>5 DEF Old, Found
  <2> DEFINE f == [here |-> saved[g].here, subs |-> saved[g].subs]
  <2>2. f \in Session /\ f.subs = saved[g].subs
    BY <1>1, <1>2 DEF Session, Snapshot
  <2>3. sess' = [sess EXCEPT ![s] = f]
    <3>1. sess' = [[sess EXCEPT ![g].subs = sess[g].subs] EXCEPT ![s] = f]
      BY <1>1, <1>2, <1>5, <2>1 DEF Restore
    <3>2. [sess EXCEPT ![g].subs = sess[g].subs] = sess
      BY <1>1, <1>2 DEF Session
    <3> QED
      BY <3>1, <3>2
  <2>4. saved' = [saved EXCEPT ![g] = NoSnap] /\ NoSnap \in Snapshot /\ ~NoSnap.subs /\ ~NoSnap.kept
    BY <1>5 DEF Restore, NoSnap, Snapshot
  <2>5. channel' = IF saved[g].subs THEN (channel \ {g}) \cup {s} ELSE channel
    BY <2>1 DEF Restore
  <2> HIDE DEF f
  <2>6. /\ sess' \in [Sockets -> Session] /\ sess'[s] = f
        /\ \A q \in Sockets \ {s} : sess'[q] = sess[q]
    BY <1>2, <2>2, <2>3
  <2>7. /\ saved' \in [Sockets -> Snapshot] /\ saved'[g] = NoSnap
        /\ \A q \in Sockets \ {g} : saved'[q] = saved[q]
    BY <1>1, <1>2, <2>4
  <2>8. saved[g].subs => g \notin registry
    BY <1>1, <1>2
  <2>9. \A q \in registry' : q \in channel' <=> sess'[q].subs
    BY <1>1, <1>2, <2>2, <2>5, <2>6, <2>8
  <2>10. \A q \in Sockets : saved'[q].subs => saved'[q].kept /\ q \notin registry'
    BY <1>1, <1>2, <2>4, <2>7
  <2>11. \A q \in Sockets : Unknown(sock[q]) => ~saved'[q].kept
    BY <1>2, <2>4, <2>7
  <2>12. channel' \subseteq Sockets /\ \A q \in Sockets \ {s} : q \in channel' => q \in channel
    BY <1>2, <2>5
  <2> QED
    BY <1>3, <2>6, <2>7, <2>9, <2>10, <2>11, <2>12
<1> QED
  BY <1>4, <1>5

LEMMA VerifiedKeeps ==
  ASSUME Inv, NEW s \in Sockets, Verified(s)
  PROVE  Inv'
<1>0. /\ sock[s] \in Connection /\ Fits(s, sock[s]) /\ tab \in [Tabs -> TabState]
      /\ sock[s].phase = "verify" /\ sock \in [Sockets -> Connection]
  BY ConnectionOf DEF Verified, Inv, ClientOK
<1> DEFINE q == Sends(s, <<"auth_ok">>)
           x == [sock[s] EXCEPT !.phase = "live", !.given = None, !.out = q]
<1>1. q \in Seq(Frames)
  BY <1>0, SendsTyped, Answers
<1>2. Becomes(s, x)
  BY DEF Verified
<1> HIDE DEF q
<1>3. /\ x \in Connection /\ x.phase = "live" /\ x.inbox = <<"presence", "subscribe">>
      /\ x.tab = sock[s].tab /\ x.busy = sock[s].busy /\ x.cli = sock[s].cli
  BY <1>0, <1>1 DEF Connection, Fits
<1> HIDE DEF x
<1>4. sock' = [sock EXCEPT ![s] = x]
  BY <1>2, <1>3, FirstFrames DEF Becomes
<1>5. ~Unknown(x) /\ Awaits(x) /\ Moves(s, x, sess)
  <2>1. ~Unknown(x) /\ Awaits(x)
    BY <1>3, FirstFrames DEF Unknown, Awaits
  <2> QED
    BY <1>0, <1>3, <2>1, FirstFrames DEF Moves, Fits, Alive
<1>6. ClientOK(tab, sock')
  BY <1>0, <1>4, <1>5, MovesClient DEF Inv
<1>7. sock'[s] = x /\ \A p \in Sockets \ {s} : sock'[p] = sock[p]
  BY <1>0, <1>4
<1>8. /\ sess \in [Sockets -> Session] /\ saved \in [Sockets -> Snapshot]
      /\ sessions \subseteq registry /\ registry \subseteq Sockets /\ channel \subseteq Sockets
      /\ s \notin registry /\ s \notin channel
      /\ \A p \in registry : p \in channel <=> sess[p].subs
      /\ \A p \in Sockets : saved[p].subs => saved[p].kept /\ p \notin registry
      /\ \A p \in Sockets : Unknown(sock[p]) => p \notin registry \cup channel /\ ~saved[p].kept
      /\ \A p \in sessions : sess[p].here \/ Awaits(sock[p])
      /\ ~saved[s].kept /\ registry' = registry \cup {s}
  BY <1>0 DEF Inv, ServerOK, Unknown, Verified
<1>9. CASE Found(sock[s].given) /\ Restore(s, sock[s].given)
  <2>1. /\ sess' \in [Sockets -> Session] /\ saved' \in [Sockets -> Snapshot]
        /\ channel' \subseteq Sockets /\ sessions' \subseteq sessions \cup {s}
        /\ \A p \in registry' : p \in channel' <=> sess'[p].subs
        /\ \A p \in Sockets : saved'[p].subs => saved'[p].kept /\ p \notin registry'
        /\ \A p \in Sockets \ {s} : p \in channel' => p \in channel
        /\ \A p \in Sockets : Unknown(sock[p]) => ~saved'[p].kept
        /\ \A p \in Sockets \ {s} : sess'[p].here = sess[p].here
    BY <1>0, <1>8, <1>9, RestoreKeeps
  <2>2. sessions' \subseteq registry' /\ registry' \subseteq Sockets
    BY <1>8, <2>1
  <2>3. \A p \in Sockets : Unknown(sock'[p]) => p \notin registry' \cup channel' /\ ~saved'[p].kept
    BY <1>5, <1>7, <1>8, <2>1
  <2>4. \A p \in sessions' : sess'[p].here \/ Awaits(sock'[p])
    BY <1>5, <1>7, <1>8, <2>1
  <2> QED
    BY <1>6, <2>1, <2>2, <2>3, <2>4 DEF Verified, Inv, ServerOK
<1>10. CASE /\ ~Found(sock[s].given) /\ sess' = [sess EXCEPT ![s] = NoSession]
            /\ sessions' = sessions \cup {s} /\ UNCHANGED <<channel, saved>>
  <2>1. /\ sess' \in [Sockets -> Session] /\ ~sess'[s].subs
        /\ \A p \in Sockets \ {s} : sess'[p] = sess[p]
    BY <1>8, <1>10 DEF NoSession, Session
  <2>2. sessions' \subseteq registry' /\ registry' \subseteq Sockets
    BY <1>8, <1>10
  <2>3. \A p \in registry' : p \in channel' <=> sess'[p].subs
    BY <1>8, <1>10, <2>1
  <2>4. \A p \in Sockets : saved'[p].subs => saved'[p].kept /\ p \notin registry'
    BY <1>8, <1>10
  <2>5. \A p \in Sockets : Unknown(sock'[p]) => p \notin registry' \cup channel' /\ ~saved'[p].kept
    BY <1>5, <1>7, <1>8, <1>10
  <2>6. \A p \in sessions' : sess'[p].here \/ Awaits(sock'[p])
    BY <1>5, <1>7, <1>8, <1>10, <2>1
  <2> QED
    BY <1>6, <1>8, <1>10, <2>1, <2>2, <2>3, <2>4, <2>5, <2>6 DEF Verified, Inv, ServerOK
<1> QED
  BY <1>9, <1>10 DEF Verified

LEMMA ServerEndClosesKeeps ==
  ASSUME Inv, NEW s \in Sockets, ServerEndCloses(s)
  PROVE  Inv'
<1>0. sock[s] \in Connection /\ Fits(s, sock[s]) /\ tab \in [Tabs -> TabState]
  BY ConnectionOf
<1> DEFINE x == IF sock[s].phase = "hello"
                THEN [sock[s] EXCEPT !.srv = "closed", !.phase = "refused",
                                     !.given = None, !.inbox = <<>>]
                ELSE [sock[s] EXCEPT !.srv = "closed"]
<1>1. Becomes(s, x)
  BY DEF ServerEndCloses
<1>2. Moves(s, x, sess)
  <2>1. CASE sock[s].phase = "hello"
    <3>1. Unknown(sock[s]) /\ s \notin sessions /\ sock[s].busy = "none"
      BY <1>0, <2>1 DEF Unknown, Inv, ServerOK, Fits
    <3>2. <<>> \in Seq(Requests) /\ <<>> \in Seq(Requests \cup {"auth"})
      BY EmptySeq
    <3>3. /\ x \in Connection /\ x.phase = "refused" /\ x.inbox = <<>>
          /\ x.tab = sock[s].tab /\ x.busy = "none" /\ x.cli = sock[s].cli
      BY <1>0, <2>1, <3>1, <3>2 DEF Connection
    <3> HIDE DEF x
    <3> QED
      BY <1>0, <3>1, <3>2, <3>3 DEF Moves, Fits, Unknown, Alive
  <2>2. CASE sock[s].phase # "hello"
    <3>1. /\ x \in Connection /\ x.phase = sock[s].phase /\ x.inbox = sock[s].inbox
          /\ x.tab = sock[s].tab /\ x.busy = sock[s].busy /\ x.cli = sock[s].cli
          /\ x.out = sock[s].out /\ x.given = sock[s].given
      BY <1>0, <2>2 DEF Connection
    <3> HIDE DEF x
    <3> QED
      BY <1>0, <3>1 DEF Moves, Fits, Unknown, Alive, Awaits
  <2> QED
    BY <2>1, <2>2
<1> HIDE DEF x
<1>3. PICK z : sock' = [sock EXCEPT ![s] = z] /\ Moves(s, z, sess)
  BY <1>1, <1>2, BecomesMoves
<1>4. ClientOK(tab, sock')
  BY <1>0, <1>3, MovesClient DEF Inv
<1>5. ServerOK(sock', sess, sessions, registry, channel, saved)
  BY <1>3, MovesServer DEF Inv, ClientOK
<1>6. CASE sock[s].phase = "live" /\ Cleanup(s)
  <2>1. ~Unknown(sock'[s])
    BY <1>3, <1>6 DEF Moves, Unknown, Inv, ClientOK
  <2>2. CASE s \notin sessions
    <3>1. registry' = registry \ {s} /\ UNCHANGED <<channel, sess, saved, sessions>>
      BY <1>6, <2>2 DEF Cleanup
    <3>2. ServerOK(sock', sess', sessions', registry', channel', saved')
      BY <1>5, <2>2, <3>1 DEF ServerOK
    <3> QED
      BY <1>4, <3>2 DEF ServerEndCloses, Inv
  <2>3. CASE s \in sessions
    <3> DEFINE e == [sess[s] EXCEPT !.subs = FALSE]
               h == Snap(e)
    <3>1. e \in Session /\ ~e.subs /\ e.here = sess[s].here
      BY DEF Inv, ServerOK, Session
    <3>2. h \in Snapshot /\ ~h.subs /\ h.kept
      BY <3>1 DEF Snap, Session, Snapshot
    <3>3. /\ sess' = [sess EXCEPT ![s] = e] /\ saved' = [saved EXCEPT ![s] = h]
          /\ registry' = registry \ {s} /\ sessions' = sessions \ {s}
          /\ channel' = IF sess[s].subs THEN channel \ {s} ELSE channel
      BY <1>6, <2>3 DEF Cleanup, Inv, ServerOK
    <3> HIDE DEF e, h
    <3>4. /\ sess' \in [Sockets -> Session] /\ saved' \in [Sockets -> Snapshot]
          /\ saved'[s] = h
          /\ \A q \in Sockets \ {s} : sess'[q] = sess[q] /\ saved'[q] = saved[q]
      BY <3>1, <3>2, <3>3 DEF Inv, ServerOK
    <3>5. channel' \subseteq channel /\ \A q \in Sockets \ {s} : q \in channel' <=> q \in channel
      BY <3>3
    <3>6. sessions' \subseteq registry' /\ registry' \subseteq Sockets /\ channel' \subseteq Sockets
      BY <1>5, <3>3, <3>5 DEF ServerOK
    <3>7. \A q \in registry' : q \in channel' <=> sess'[q].subs
      BY <1>5, <3>3, <3>4, <3>5 DEF ServerOK
    <3>8. \A q \in Sockets : saved'[q].subs => saved'[q].kept /\ q \notin registry'
      BY <1>5, <3>2, <3>3, <3>4 DEF ServerOK
    <3>9. \A q \in Sockets : Unknown(sock'[q]) => q \notin registry' \cup channel' /\ ~saved'[q].kept
      BY <1>5, <2>1, <3>3, <3>4, <3>5 DEF ServerOK
    <3>10. \A q \in sessions' : sess'[q].here \/ Awaits(sock'[q])
      BY <1>5, <3>3, <3>4 DEF ServerOK
    <3>11. ServerOK(sock', sess', sessions', registry', channel', saved')
      BY <3>4, <3>6, <3>7, <3>8, <3>9, <3>10 DEF ServerOK
    <3> QED
      BY <1>4, <3>11 DEF ServerEndCloses, Inv
  <2> QED
    BY <2>2, <2>3
<1>7. CASE UNCHANGED server
  BY <1>4, <1>5, <1>7 DEF ServerEndCloses, Inv, server
<1> QED
  BY <1>6, <1>7 DEF ServerEndCloses

LEMMA EvictKeeps ==
  ASSUME Inv, Evict
  PROVE  Inv'
<1>0. /\ sock \in [Sockets -> Connection] /\ tab \in [Tabs -> TabState]
      /\ sess \in [Sockets -> Session] /\ saved \in [Sockets -> Snapshot]
      /\ sessions \subseteq registry /\ registry \subseteq Sockets /\ channel \subseteq Sockets
  BY DEF Inv, ClientOK, ServerOK
<1>1. ASSUME NEW s \in Sockets
      PROVE  /\ sock'[s] \in Connection /\ Fits(s, sock'[s])
             /\ Alive(sock'[s]) => Alive(sock[s])
             /\ sock'[s].tab = sock[s].tab /\ sock'[s].phase = sock[s].phase
             /\ sock'[s].inbox = sock[s].inbox /\ sock'[s].busy = sock[s].busy
  <2>1. CASE s \in sessions \cap registry
    <3> DEFINE q == Sends(s, <<"close">>)
               x == [sock[s] EXCEPT !.out = q, !.srv = IF @ = "open" THEN "closing" ELSE @]
    <3>1. q \in Seq(Frames) /\ sock[s] \in Connection
      BY <1>0, SendsTyped, Answers
    <3>2. sock'[s] = x
      BY <2>1 DEF Evict
    <3>3. ~Unknown(sock[s])
      BY <2>1 DEF Inv, ServerOK
    <3> HIDE DEF q
    <3>4. /\ x \in Connection /\ x.cli = sock[s].cli
          /\ x.tab = sock[s].tab /\ x.phase = sock[s].phase
          /\ x.inbox = sock[s].inbox /\ x.busy = sock[s].busy
      BY <3>1 DEF Connection
    <3> HIDE DEF x
    <3>5. Fits(s, sock[s])
      BY ConnectionOf
    <3> QED
      BY <3>2, <3>3, <3>4, <3>5 DEF Fits, Alive, Unknown
  <2>2. CASE s \notin sessions \cap registry
    <3>1. sock'[s] = sock[s]
      BY <2>2 DEF Evict
    <3> QED
      BY <3>1, ConnectionOf
  <2> QED
    BY <2>1, <2>2
<1>2. sock' \in [Sockets -> Connection]
  <2>1. \E F : sock' = [s \in Sockets |-> F[s]]
    <3>1. sock' = [s \in Sockets |-> sock'[s]]
      BY DEF Evict
    <3> QED
      BY <3>1
  <2> QED
    BY <1>1, <2>1
<1>3. ClientOK(tab, sock')
  <2>1. \A s \in Sockets : Alive(sock'[s]) => tab[sock'[s].tab].ws = s
    BY <1>1 DEF Inv, ClientOK
  <2> QED
    BY <1>0, <1>1, <1>2, <2>1 DEF ClientOK
<1>4. /\ saved' \in [Sockets -> Snapshot]
      /\ \A s \in Sockets : saved'[s].subs => saved'[s].kept
      /\ \A s \in Sockets \ sessions : saved'[s] = saved[s]
  <2>1. \A s \in Sockets : Snap(sess[s]) \in Snapshot /\ Snap(sess[s]).kept
    BY <1>0 DEF Snap, Session, Snapshot
  <2>2. \A s \in Sockets : saved[s].subs => saved[s].kept
    BY DEF Inv, ServerOK
  <2>3. saved' = [s \in Sockets |-> IF s \in sessions THEN Snap(sess[s]) ELSE saved[s]]
    BY DEF Evict
  <2> QED
    BY <1>0, <2>1, <2>2, <2>3
<1>5. registry' = registry \ sessions /\ sessions' = {} /\ UNCHANGED <<sess, channel>>
  BY DEF Evict
<1>6. \A s \in Sockets : saved'[s].subs => s \notin registry'
  BY <1>4, <1>5 DEF Inv, ServerOK
<1>7. \A s \in Sockets : Unknown(sock'[s]) => s \notin registry' \cup channel' /\ ~saved'[s].kept
  <2>1. \A s \in Sockets : Unknown(sock'[s]) => Unknown(sock[s])
    BY <1>1 DEF Unknown
  <2>2. \A s \in Sockets : Unknown(sock[s]) => s \notin registry \cup channel /\ ~saved[s].kept /\ s \notin sessions
    BY <1>0 DEF Inv, ServerOK
  <2> QED
    BY <1>4, <1>5, <2>1, <2>2
<1>8. \A s \in registry' : s \in channel' <=> sess'[s].subs
  BY <1>5 DEF Inv, ServerOK
<1>9. ServerOK(sock', sess', sessions', registry', channel', saved')
  BY <1>0, <1>4, <1>5, <1>6, <1>7, <1>8 DEF ServerOK
<1>10. trouble' \in 0..MaxTrouble
  BY Untroubled DEF Evict
<1> QED
  BY <1>3, <1>9, <1>10 DEF Evict, Inv

LEMMA ExpiresKeeps ==
  ASSUME Inv, NEW s \in Sockets, Expires(s)
  PROVE  Inv'
<1>1. saved \in [Sockets -> Snapshot] /\ NoSnap \in Snapshot /\ ~NoSnap.subs /\ ~NoSnap.kept
  BY DEF Inv, ServerOK, NoSnap, Snapshot
<1>2. /\ saved' \in [Sockets -> Snapshot] /\ saved'[s] = NoSnap
      /\ \A q \in Sockets \ {s} : saved'[q] = saved[q]
  BY <1>1 DEF Expires
<1>3. ServerOK(sock, sess, sessions, registry, channel, saved')
  BY <1>1, <1>2 DEF Inv, ServerOK
<1> QED
  BY <1>3 DEF Expires, Inv

-----------------------------------------------------------------------------
(* A tab takes a new socket.                                               *)

LEMMA ConnectKeeps ==
  ASSUME Inv, NEW t \in Tabs, NEW rest \in TabState, ConnectInternal(t, rest)
  PROVE  Inv'
<1> DEFINE s == CHOOSE s \in Sockets : Fresh(s)
           old == tab[t].ws
           token == IF store = s THEN None ELSE store
           x == [Dead EXCEPT !.tab = t, !.given = token, !.cli = "connecting",
                             !.srv = "open", !.phase = "hello"]
           r == [rest EXCEPT !.ws = s, !.timer = FALSE]
<1>1. s \in Sockets /\ Fresh(s)
  BY DEF ConnectInternal
<1>2. /\ tab' = [tab EXCEPT ![t] = r] /\ store' = token
      /\ sock' = [q \in Sockets |-> IF q = s THEN x
           ELSE IF q = old /\ Live(old) THEN [sock[q] EXCEPT !.cli = "closing"] ELSE sock[q]]
      /\ sess' = [sess EXCEPT ![s] = NoSession] /\ channel' = channel \ {s}
      /\ UNCHANGED <<sessions, registry, saved>>
  BY DEF ConnectInternal
<1>3. (UNCHANGED trouble \/ Trouble) /\ (UNCHANGED astray \/ astray' = astray \cup {t})
  BY DEF ConnectInternal
<1> HIDE DEF s
<1>4. store \in Sockets \cup {None} /\ token \in Sockets \cup {None} /\ token # s
  BY <1>1, BoundsAssumption DEF Inv
<1>5. r \in TabState /\ r.ws = s
  BY <1>1 DEF TabState
<1> HIDE DEF token, r
<1>6. Fits(s, x) /\ Alive(x) /\ x.tab = t
  <2>1. <<>> \in Seq(Frames) /\ <<>> \in Seq(Requests \cup {"auth"})
    BY EmptySeq
  <2>2. /\ x \in Connection /\ x.inbox = <<>> /\ x.out = <<>> /\ x.given = token
        /\ x.cli = "connecting" /\ x.phase = "hello" /\ x.busy = "none" /\ x.tab = t
    BY <1>4, <2>1 DEF Connection, Dead
  <2> HIDE DEF x
  <2> QED
    BY <1>4, <2>2 DEF Fits, Alive, Unknown
<1>7. /\ sock \in [Sockets -> Connection] /\ tab \in [Tabs -> TabState]
      /\ tab' \in [Tabs -> TabState] /\ tab'[t].ws = s
      /\ \A u \in Tabs \ {t} : tab'[u] = tab[u]
  BY <1>2, <1>5 DEF Inv, ClientOK
<1>8. sock'[s] = x
  BY <1>1, <1>2
<1> HIDE DEF x
<1>9. ASSUME NEW q \in Sockets \ {s}
      PROVE  /\ Fits(q, sock'[q])
             /\ Alive(sock'[q]) => tab'[sock'[q].tab].ws = q
             /\ sock'[q].phase = sock[q].phase /\ sock'[q].inbox = sock[q].inbox
             /\ sock'[q].busy = sock[q].busy
  <2>0. Fits(q, sock[q]) /\ sock[q] \in Connection /\ (Alive(sock[q]) => tab[sock[q].tab].ws = q)
    BY DEF Inv, ClientOK, Fits
  <2>1. CASE q = old /\ Live(old)
    <3> DEFINE y == [sock[q] EXCEPT !.cli = "closing"]
    <3>1. sock'[q] = y
      BY <1>2, <2>1
    <3>2. /\ y \in Connection /\ y.cli = "closing" /\ y.phase = sock[q].phase
          /\ y.inbox = sock[q].inbox /\ y.busy = sock[q].busy /\ y.out = sock[q].out
          /\ y.given = sock[q].given
      BY <2>0 DEF Connection
    <3> HIDE DEF y
    <3> QED
      BY <2>0, <3>1, <3>2 DEF Fits, Alive, Unknown
  <2>2. CASE ~(q = old /\ Live(old))
    <3>1. sock'[q] = sock[q]
      BY <1>2, <2>2
    <3>2. Alive(sock[q]) => q # old
      BY <2>2, BoundsAssumption DEF Live, Alive
    <3>3. Alive(sock[q]) => sock[q].tab \in Tabs \ {t}
      BY <2>0, <3>2 DEF Fits
    <3> QED
      BY <1>7, <2>0, <3>1, <3>3
  <2> QED
    BY <2>1, <2>2
<1>10. ClientOK(tab', sock')
  <2>1. \A q \in Sockets : Fits(q, sock'[q]) /\ (Alive(sock'[q]) => tab'[sock'[q].tab].ws = q)
    BY <1>6, <1>7, <1>8, <1>9
  <2>2. sock' \in [Sockets -> Connection]
    <3>1. \A q \in Sockets : sock'[q] \in Connection
      BY <2>1 DEF Fits
    <3>2. sock' = [q \in Sockets |-> sock'[q]]
      BY <1>2
    <3> QED
      BY <3>1, <3>2
  <2> QED
    BY <1>7, <2>1, <2>2 DEF ClientOK
<1>11. s \notin sessions \cup registry /\ ~saved[s].kept /\ NoSession \in Session
  BY <1>1 DEF Fresh, NoSession, Session
<1>12. ServerOK(sock', sess', sessions, registry, channel', saved)
  <2>1. /\ sess' \in [Sockets -> Session] /\ channel' \subseteq Sockets /\ s \notin channel'
        /\ \A q \in Sockets \ {s} : sess'[q] = sess[q] /\ (q \in channel' <=> q \in channel)
    BY <1>2, <1>11 DEF Inv, ServerOK
  <2>2. /\ sessions \subseteq registry /\ registry \subseteq Sockets
        /\ saved \in [Sockets -> Snapshot]
        /\ \A q \in Sockets : saved[q].subs => saved[q].kept /\ q \notin registry
        /\ \A q \in registry : q \in channel <=> sess[q].subs
        /\ \A q \in Sockets : Unknown(sock[q]) => q \notin registry \cup channel /\ ~saved[q].kept
        /\ \A q \in sessions : sess[q].here \/ Awaits(sock[q])
    BY DEF Inv, ServerOK
  <2>3. \A q \in Sockets \ {s} : /\ Unknown(sock'[q]) <=> Unknown(sock[q])
                                 /\ Awaits(sock'[q]) <=> Awaits(sock[q])
    BY <1>9 DEF Unknown, Awaits
  <2>4. \A q \in registry : q \in channel' <=> sess'[q].subs
    BY <1>11, <2>1, <2>2
  <2>5. \A q \in Sockets : Unknown(sock'[q]) => q \notin registry \cup channel' /\ ~saved[q].kept
    BY <1>11, <2>1, <2>2, <2>3
  <2>6. \A q \in sessions : sess'[q].here \/ Awaits(sock'[q])
    BY <1>11, <2>1, <2>2, <2>3
  <2> QED
    BY <2>1, <2>2, <2>4, <2>5, <2>6 DEF ServerOK
<1>13. trouble' \in 0..MaxTrouble /\ astray' \subseteq Tabs
  BY <1>3, Untroubled DEF Inv
<1> QED
  BY <1>2, <1>4, <1>10, <1>12, <1>13 DEF Inv

(* A step that changes no socket and no record of the server.              *)
LEMMA TabMoves ==
  ASSUME Inv, TabsKeep, UNCHANGED <<server, store, sock>>,
         trouble' \in 0..MaxTrouble, astray' \subseteq Tabs
  PROVE  Inv'
<1>1. ClientOK(tab', sock)
  <2>1. \A s \in Sockets : Alive(sock[s]) => tab'[sock[s].tab].ws = s
    BY DEF Inv, ClientOK, TabsKeep, Fits
  <2> QED
    BY <2>1 DEF Inv, ClientOK, TabsKeep
<1> QED
  BY <1>1 DEF Inv, server

LEMMA TimerFiresKeeps ==
  ASSUME Inv, NEW t \in Tabs, TimerFires(t)
  PROVE  Inv'
<1>1. tab[t] \in TabState
  BY DEF Inv, ClientOK
<1> QED
  BY <1>1, ConnectKeeps DEF TimerFires

LEMMA RenewedKeeps ==
  ASSUME Inv, NEW t \in Tabs, Renewed(t)
  PROVE  Inv'
<1> DEFINE rest == [tab[t] EXCEPT !.renew = @ - 1]
<1>1. tab[t] \in TabState /\ tab \in [Tabs -> TabState]
  BY DEF Inv, ClientOK
<1>2. rest \in TabState /\ rest.ws = tab[t].ws
  BY <1>1 DEF Renewed, TabState
<1>3. \/ ConnectInternal(t, rest)
      \/ /\ tab' = [tab EXCEPT ![t] = rest] /\ UNCHANGED <<server, store, sock>>
         /\ UNCHANGED trouble \/ Trouble
         /\ UNCHANGED astray \/ astray' = astray \cup {t}
  BY DEF Renewed
<1> HIDE DEF rest
<1>4. CASE ConnectInternal(t, rest)
  BY <1>2, <1>4, ConnectKeeps
<1>5. CASE /\ tab' = [tab EXCEPT ![t] = rest] /\ UNCHANGED <<server, store, sock>>
           /\ UNCHANGED trouble \/ Trouble
           /\ UNCHANGED astray \/ astray' = astray \cup {t}
  <2>1. TabsKeep
    BY <1>1, <1>2, <1>5, TabSet
  <2>2. trouble' \in 0..MaxTrouble /\ astray' \subseteq Tabs
    BY <1>5, Untroubled DEF Inv
  <2> QED
    BY <1>5, <2>1, <2>2, TabMoves
<1> QED
  BY <1>3, <1>4, <1>5

LEMMA HideKeeps ==
  ASSUME Inv, NEW t \in Tabs, Hide(t)
  PROVE  Inv'
<1> DEFINE r == [tab[t] EXCEPT !.hidden = TRUE, !.timer = FALSE]
<1>1. tab[t] \in TabState /\ tab \in [Tabs -> TabState]
  BY DEF Inv, ClientOK
<1>2. r \in TabState /\ r.ws = tab[t].ws
  BY <1>1 DEF TabState
<1>3. tab' = [tab EXCEPT ![t] = r]
  BY <1>1 DEF Hide
<1> HIDE DEF r
<1>4. TabsKeep
  BY <1>1, <1>2, <1>3, TabSet
<1>5. trouble' \in 0..MaxTrouble
  BY Untroubled DEF Hide
<1> QED
  BY <1>4, <1>5, TabMoves DEF Hide, Inv

LEMMA ShowKeeps ==
  ASSUME Inv, NEW t \in Tabs, Show(t)
  PROVE  Inv'
<1> DEFINE rest == [tab[t] EXCEPT !.hidden = FALSE]
<1>1. tab[t] \in TabState /\ tab \in [Tabs -> TabState]
  BY DEF Inv, ClientOK
<1>2. rest \in TabState /\ rest.ws = tab[t].ws
  BY <1>1 DEF TabState
<1>3. \/ ConnectInternal(t, rest)
      \/ tab' = [tab EXCEPT ![t] = rest] /\ UNCHANGED <<server, store, sock, trouble, astray>>
  BY DEF Show
<1> HIDE DEF rest
<1>4. CASE ConnectInternal(t, rest)
  BY <1>2, <1>4, ConnectKeeps
<1>5. CASE tab' = [tab EXCEPT ![t] = rest] /\ UNCHANGED <<server, store, sock, trouble, astray>>
  <2>1. TabsKeep
    BY <1>1, <1>2, <1>5, TabSet
  <2> QED
    BY <1>5, <2>1, TabMoves DEF Inv
<1> QED
  BY <1>3, <1>4, <1>5

-----------------------------------------------------------------------------
LEMMA Begins ==
  ASSUME Init
  PROVE  Inv
<1>1. ClientOK(tab, sock)
  <2>1. tab \in [Tabs -> TabState]
    BY DEF Init, TabState
  <2>2. \A s \in Sockets : sock[s] = Dead
    BY DEF Init
  <2>3. sock \in [Sockets -> Connection]
    BY DeadFits DEF Init, Fits
  <2> QED
    BY <2>1, <2>2, <2>3, DeadFits DEF ClientOK
<1>2. ServerOK(sock, sess, sessions, registry, channel, saved)
  <2>1. /\ NoSession \in Session /\ NoSnap \in Snapshot /\ ~NoSnap.subs
    BY DEF NoSession, NoSnap, Session, Snapshot
  <2>2. \A s \in Sockets : ~Unknown(sock[s])
    BY DeadFits DEF Init
  <2> QED
    BY <2>1, <2>2 DEF Init, ServerOK
<1> QED
  BY <1>1, <1>2, BoundsAssumption DEF Init, Inv

LEMMA EveryStep ==
  ASSUME Inv, [Next]_vars
  PROVE  Inv'
<1>1. ASSUME NEW t \in Tabs, TabStep(t) \/ Hide(t)
      PROVE  Inv'
  BY <1>1, TimerFiresKeeps, RenewedKeeps, ShowKeeps, HideKeeps DEF TabStep
<1>2. ASSUME NEW s \in Sockets,
             SocketStep(s) \/ Cut(s) \/ AuthTimesOut(s) \/ TokenRefused(s)
      PROVE  Inv'
  BY <1>2, OpensKeeps, ReceivesKeeps, ClientEndClosesKeeps, AuthArrivesKeeps, VerifiedKeeps,
     TakesKeeps, FinishesKeeps, ServerEndClosesKeeps, ExpiresKeeps, CutKeeps, RefuseKeeps
  DEF SocketStep
<1>3. CASE UNCHANGED vars
  BY <1>3 DEF vars, Inv, ClientOK, ServerOK
<1> QED
  BY <1>1, <1>2, <1>3, EvictKeeps DEF Next

(* The parts of the invariant hold always.                                 *)
THEOREM SessionsInvariant == Spec => []Inv
<1>1. Init => Inv
  BY Begins
<1>2. Inv /\ [Next]_vars => Inv'
  BY EveryStep
<1> QED
  BY <1>1, <1>2, PTL DEF Spec

(* However many tabs and sockets: every variable keeps its range, a tab    *)
(* has one live socket, the one it uses, and a socket with a session is    *)
(* registered for broadcasts.                                              *)
THEOREM SessionsTyped == Spec => []TypeOK
<1>1. Inv => TypeOK
  <2> SUFFICES ASSUME Inv PROVE TypeOK
    OBVIOUS
  <2>1. ASSUME NEW t \in Tabs
        PROVE  /\ tab[t].ws \in Sockets \cup {None} /\ tab[t].renew \in Nat
               /\ {tab[t].timer, tab[t].hidden} \subseteq BOOLEAN
    BY DEF Inv, ClientOK, TabState
  <2>2. ASSUME NEW s \in Sockets
        PROVE  /\ sock[s].cli \in {"connecting", "open", "closing", "closed"}
               /\ sock[s].srv \in {"open", "closing", "closed"}
               /\ sock[s].phase \in {"hello", "verify", "live", "refused"}
               /\ sock[s].busy \in {"none", "presence", "subscribe"}
    BY ConnectionOf DEF Connection, Requests
  <2>3. \A s \in Sockets : Live(s) => tab[sock[s].tab].ws = s
    BY DEF Inv, ClientOK, Live, Alive
  <2> QED
    BY <2>1, <2>2, <2>3 DEF Inv, ServerOK, TypeOK
<1> QED
  BY <1>1, SessionsInvariant, PTL

(* However restores, evictions, closes and late handlers follow upon each  *)
(* other: the session object and the channel record the same subscription  *)
(* for every socket a broadcast can reach.                                 *)
THEOREM SubscriptionsAlwaysAgree == Spec => []SubscriptionsAgree
<1>1. Inv => SubscriptionsAgree
  BY DEF Inv, ServerOK, SubscriptionsAgree
<1> QED
  BY <1>1, SessionsInvariant, PTL

(* No subscription is rejected for want of a bus on a socket that still    *)
(* has its session: presence is handled first, also after a restore.       *)
THEOREM PresenceIsFirst == Spec => PresenceComesFirst
<1>1. Inv => \A s \in Sockets : Rejects(s) /\ Takes(s) => s \notin sessions
  BY DEF Inv, ServerOK, Rejects, Ready, Awaits
<1> QED
  BY <1>1, SessionsInvariant, PTL DEF PresenceComesFirst
=============================================================================
