------------------------------ MODULE Notices ------------------------------
(***************************************************************************)
(* Internal notifications: the rows, and their delivery over websockets.   *)
(*                                                                         *)
(* Worker threads insert a row, commit, and hand a publish task to the     *)
(* event loop (call_soon_threadsafe).  The loop runs one task at a time    *)
(* between awaits: tasks start in the order they were scheduled, copy the  *)
(* connections of the recipient, and queue for one lock, under which they  *)
(* send to a connection at a time.                                         *)
(***************************************************************************)
EXTENDS Sessions, Sequences, SequencesExt

CONSTANTS
  Recipients,      \* users who receive notifications
  Sockets,         \* websockets a run opens
  OwnerOf,         \* the authenticated user of a websocket
  NoticeIds,       \* notifications.id
  LastRead,        \* bound on the times at which notifications are read
  NoticeModes      \* whether requests overlap, the operations of a run

NoticeServices == {"sockets", "reading"}
ASSUME NoticeModesAreTyped == NoticeModes \subseteq [serial: BOOLEAN, ops: SUBSET NoticeServices]
ASSUME SocketsAreOwned == OwnerOf \in [Sockets -> Recipients] /\ LastRead \in Nat

VARIABLES
  noticeMode,     \* one of NoticeModes, fixed at the start
  notice,         \* notifications: recipient and read_at, or None
  readTick,       \* utcnow, when something is read
  noticeSession,  \* what a worker is about to do, or None
  socket,         \* a websocket: where its handler is, and whether the peer is there
  connections,    \* NotificationsConnectionManager._connections
  ready,          \* publish tasks that have not started
  sending,        \* publish tasks in the order of the lock: the first one holds it
  received,       \* what the peer of a socket received
  published,      \* notifications in the order they were scheduled
  since           \* number of notifications scheduled before a socket was registered

noticeVars == <<noticeMode, notice, readTick, noticeSession, socket, connections, ready, sending,
                received, published, since>>
socketVars == <<socket, connections, since>>
rowVars == <<noticeMode, notice, readTick, noticeSession>>
taskVars == <<ready, sending, received, published>>

NoticeRow == [to: Recipients, readAt: Maybe(0..LastRead)]
ASSUME NoneIsNoNotice == None \notin NoticeRow
Phases == {"new", "accepted", "registered", "left"}

-----------------------------------------------------------------------------
(* Worker threads                                                          *)

NewNotices == {n \in NoticeIds : notice[n] = None}

(* create_notification: the row is committed, then published.              *)
CreateNotification(w) ==
  \E u \in Recipients :
    /\ MayServe(noticeSession, w, noticeMode.serial)
    /\ NewNotices # {}
    /\ LET n == CHOOSE m \in NewNotices : TRUE IN
       /\ notice' = [notice EXCEPT ![n] = [to |-> u, readAt |-> None]]
       /\ noticeSession' = [noticeSession EXCEPT ![w] = [kind |-> "publish", id |-> n]]
    /\ UNCHANGED <<noticeMode, readTick, socketVars, taskVars>>

(* The manager knows the loop once a socket was accepted.                  *)
LoopKnown == \E s \in Sockets : socket[s].phase \in {"registered", "left"}

(* publish_to_user_threadsafe                                              *)
Publish(w) ==
  LET x == noticeSession[w] IN
  /\ x # None /\ x.kind = "publish"
  /\ IF LoopKnown
     THEN /\ ready' = Append(ready, x.id)
          /\ published' = Append(published, x.id)
     ELSE UNCHANGED <<ready, published>>
  /\ noticeSession' = [noticeSession EXCEPT ![w] = None]
  /\ UNCHANGED <<noticeMode, notice, readTick, socketVars, sending, received>>

Unread(u) == {n \in NoticeIds : notice[n] # None /\ notice[n].to = u /\ notice[n].readAt = None}

(* mark_as_read for one unread notification of the caller, and             *)
(* mark_all_as_read for all of them.                                       *)
Markable(u) == ({{n} : n \in Unread(u)} \cup {Unread(u)}) \ {{}}

MarkRead(w) ==
  \E u \in Recipients : \E ns \in Markable(u) :
    /\ MayServe(noticeSession, w, noticeMode.serial)
    /\ readTick < LastRead
    /\ readTick' = readTick + 1
    /\ noticeSession' = [noticeSession EXCEPT ![w] = [kind |-> "read", ids |-> ns, at |-> readTick]]
    /\ UNCHANGED <<noticeMode, notice, socketVars, taskVars>>

CommitRead(w) ==
  LET x == noticeSession[w] IN
  /\ x # None /\ x.kind = "read"
  /\ notice' = [n \in NoticeIds |-> IF n \in x.ids THEN [notice[n] EXCEPT !.readAt = x.at]
                                    ELSE notice[n]]
  /\ noticeSession' = [noticeSession EXCEPT ![w] = None]
  /\ UNCHANGED <<noticeMode, readTick, socketVars, taskVars>>

-----------------------------------------------------------------------------
(* The event loop                                                          *)

OpenSocket(s) ==
  /\ socket[s].phase = "new"
  /\ socket' = [socket EXCEPT ![s] = [phase |-> "accepted", open |-> TRUE]]
  /\ UNCHANGED <<connections, since, rowVars, taskVars>>

(* connect, once the handshake was sent.                                   *)
Register(s) ==
  /\ socket[s].phase = "accepted"
  /\ socket' = [socket EXCEPT ![s].phase = "registered"]
  /\ connections' = [connections EXCEPT ![OwnerOf[s]] = Append(@, s)]
  /\ since' = [since EXCEPT ![s] = Len(published)]
  /\ UNCHANGED <<rowVars, taskVars>>

PeerCloses(s) ==
  /\ socket[s].open
  /\ socket' = [socket EXCEPT ![s].open = FALSE]
  /\ UNCHANGED <<connections, since, rowVars, taskVars>>

(* Mutant: every connection of the user goes with the stale ones.          *)
DropsUser(list, gone) == IF gone = {} THEN list ELSE <<>>

Without(list, gone) ==
  LET kept[i \in 0..Len(list)] ==
        IF i = 0 THEN <<>>
        ELSE IF list[i] \in gone THEN kept[i - 1] ELSE Append(kept[i - 1], list[i])
  IN  kept[Len(list)]

(* The handler notices that the peer is gone: disconnect.                  *)
Leave(s) ==
  /\ socket[s].phase = "registered" /\ ~socket[s].open
  /\ socket' = [socket EXCEPT ![s].phase = "left"]
  /\ connections' = [connections EXCEPT ![OwnerOf[s]] = Without(@, {s})]
  /\ UNCHANGED <<since, rowVars, taskVars>>

(* publish_to_user up to the lock.  A task without connections is done.    *)
StartPublish ==
  /\ ready # <<>>
  /\ LET n == Head(ready)
         to == notice[n].to
     IN sending' = IF connections[to] = <<>> THEN sending
                   ELSE Append(sending, [id |-> n, to |-> to, rest |-> connections[to], stale |-> {}])
  /\ ready' = Tail(ready)
  /\ UNCHANGED <<rowVars, socketVars, received, published>>

(* Mutant: a send that raises leaves the lock taken.                       *)
HolderUnlessFailed == IF sending = <<>> THEN {} ELSE {i \in {1} : sending[i].stale = {}}

(* The lock is fair: its holder is the first task.                         *)
Holder == IF sending = <<>> THEN {} ELSE {1}

(* A send to a peer that is gone raises, or is not noticed to be lost.     *)
SendNext ==
  \E i \in Holder :
    /\ sending[i].rest # <<>>
    /\ LET s == Head(sending[i].rest) IN
       \E raises \in IF socket[s].open THEN {FALSE} ELSE BOOLEAN :
         /\ received' = IF socket[s].open THEN [received EXCEPT ![s] = Append(@, sending[i].id)]
                        ELSE received
         /\ sending' = [sending EXCEPT ![i].rest = Tail(@),
                                       ![i].stale = IF raises THEN @ \cup {s} ELSE @]
    /\ UNCHANGED <<rowVars, socketVars, ready, published>>

(* The lock is released, and the stale connections are dropped.            *)
EndPublish ==
  \E i \in Holder :
    /\ sending[i].rest = <<>>
    /\ connections' = [connections EXCEPT ![sending[i].to] = Without(@, sending[i].stale)]
    /\ sending' = RemoveAt(sending, i)
    /\ UNCHANGED <<rowVars, socket, since, ready, received, published>>

-----------------------------------------------------------------------------
NoticeInit ==
  /\ noticeMode \in NoticeModes
  /\ notice = [n \in NoticeIds |-> None]
  /\ readTick = 0
  /\ noticeSession = [w \in Workers |-> None]
  /\ socket = [s \in Sockets |-> [phase |-> "new", open |-> FALSE]]
  /\ connections = [u \in Recipients |-> <<>>]
  /\ ready = <<>> /\ sending = <<>> /\ published = <<>>
  /\ received = [s \in Sockets |-> <<>>]
  /\ since = [s \in Sockets |-> 0]

Loop ==
  \/ \E s \in Sockets : Register(s) \/ Leave(s)
  \/ StartPublish \/ SendNext \/ EndPublish

NoticeNext ==
  \/ \E w \in Workers :
       \/ CreateNotification(w) \/ Publish(w)
       \/ "reading" \in noticeMode.ops /\ MarkRead(w)
       \/ CommitRead(w)
  \/ "sockets" \in noticeMode.ops /\ \E s \in Sockets : OpenSocket(s) \/ PeerCloses(s)
  \/ Loop

(* The event loop keeps running, and a peer takes what is sent or is gone. *)
NoticeFairness == WF_noticeVars(Loop)

NoticeSpec == NoticeInit /\ [][NoticeNext]_noticeVars /\ NoticeFairness

-----------------------------------------------------------------------------
NoticeTypeOK ==
  /\ noticeMode \in NoticeModes
  /\ notice \in [NoticeIds -> Maybe(NoticeRow)]
  /\ readTick \in 0..LastRead
  /\ socket \in [Sockets -> [phase: Phases, open: BOOLEAN]]
  /\ \A u \in Recipients : \A i \in DOMAIN connections[u] : OwnerOf[connections[u][i]] = u
  /\ \A i \in DOMAIN published : published[i] \in NoticeIds

(* A peer receives notifications in the order they were published, each at *)
(* most once and only the own ones, however many sockets and publish tasks *)
(* are under way (_send_lock in publish_to_user).                          *)
PlaceOf(n) == SelectInSeq(published, LAMBDA m : m = n)

DeliveredInOrder ==
  \A s \in Sockets :
    /\ \A i, j \in DOMAIN received[s] : i < j => PlaceOf(received[s][i]) < PlaceOf(received[s][j])
    /\ \A i \in DOMAIN received[s] : notice[received[s][i]].to = OwnerOf[s]

PendingFor(s) ==
  ToSet(ready) \cup {sending[i].id : i \in {j \in DOMAIN sending : s \in ToSet(sending[j].rest)}}

(* Whatever was published to a user since a socket was registered has      *)
(* reached its peer or is on the way to it, while the peer is there: no    *)
(* other connection going stale or being closed takes it along.            *)
NothingMissed ==
  \A s \in Sockets : socket[s] = [phase |-> "registered", open |-> TRUE] =>
    \A i \in since[s] + 1 .. Len(published) :
      notice[published[i]].to = OwnerOf[s] => published[i] \in ToSet(received[s]) \cup PendingFor(s)

(* Whatever a connected user is to hear arrives, in the order published.   *)
DeliveryInv ==
  /\ NoticeTypeOK
  /\ DeliveredInOrder
  /\ NothingMissed

(* Every publish task ends, so that the lock is free for the next user's.  *)
PublishesEnd == \A n \in NoticeIds :
  (n \in ToSet(ready) \/ \E i \in DOMAIN sending : sending[i].id = n)
    ~> (n \notin ToSet(ready) /\ \A i \in DOMAIN sending : sending[i].id # n)

=============================================================================
