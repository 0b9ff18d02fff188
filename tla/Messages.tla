------------------------------ MODULE Messages ------------------------------
(***************************************************************************)
(* Internal messages: who may write to whom, conversations, what has been  *)
(* read, and the notifications that follow the commit of a message, each   *)
(* in a transaction of its own.                                            *)
(*                                                                         *)
(* Subjects and texts say nothing about any of this and are left out.      *)
(* Notifications are taken further in Notices.                             *)
(***************************************************************************)
EXTENDS Sessions

CONSTANTS
  Correspondents,   \* users
  Ranks,            \* hierarchical levels of their job titles
  LastSent,         \* bound on the number of messages
  MessageModes      \* where a run starts, its operations, whose rights and level change,
                    \* bounds on the messages, the recipients of one, what they may do

Rights == {"read_users", "send_all", "send_same_or_down", "reply", "send"}
MessageServices == {"send", "reply", "read", "rights", "ranks", "activation", "breakoff"}
SentIds == 1..LastSent   \* messages.id, in the order of insertion
ASSUME RanksAreLevels == Ranks \subseteq Nat /\ LastSent \in Nat
ASSUME MessageModesAreTyped ==
  MessageModes \subseteq
    [serial: BOOLEAN, ops: SUBSET MessageServices, rights: [Correspondents -> SUBSET Rights],
     rank: [Correspondents -> Maybe(Ranks)], changing: SUBSET Correspondents,
     last: 0..LastSent, size: Nat, flags: SUBSET BOOLEAN]

VARIABLES
  messageMode,     \* one of MessageModes, fixed at the start
  right,           \* the messaging permissions of a user
  rank,            \* the level of the active title of the active employee, or None
  reachable,       \* users.is_active
  sent,            \* messages with their recipients, or None
  opened,          \* who opened which message
  announced,       \* committed notifications: message and recipient
  brokenOff,       \* messages whose notifications were cut off by a failure
  messageSession   \* what a worker is about to do, or None

messageVars == <<messageMode, right, rank, reachable, sent, opened, announced, brokenOff, messageSession>>
peopleVars == <<messageMode, right, rank, reachable>>

(* to maps a recipient to the row of message_recipients; scope, which is   *)
(* not stored, is the rule that let the recipients through.                *)
Delivery == [canReply: BOOLEAN, isRead: BOOLEAN]
Addressees == UNION {[vs -> Delivery] : vs \in SUBSET Correspondents}
Scopes == {"anyone", "down", "thread"}
Message == [sender: Correspondents, conversation: Maybe(SentIds), parent: Maybe(SentIds),
            scope: Scopes, to: Addressees]
AnnounceRequest == [kind: {"announce"}, id: SentIds, rest: SUBSET Correspondents]
ASSUME NoneIsNoMessage == None \notin Scopes \cup Message \cup AnnounceRequest

SentMessages == {m \in SentIds : sent[m] # None}

-----------------------------------------------------------------------------
(* _MessagingAccessPolicy                                                  *)

CanReadUsers(u) == right[u] \cap {"read_users", "send"} # {}
CanSendToAnyone(u) == right[u] \cap {"send_all", "send"} # {}
CanInitiate(u) == CanSendToAnyone(u) \/ "send_same_or_down" \in right[u]
CanReplyInThread(u) == "reply" \in right[u] \/ CanInitiate(u)

(* _get_same_or_down_user_ids                                              *)
SameOrDown(u) == {v \in Correspondents : reachable[v] /\ rank[v] # None /\ rank[v] <= rank[u]}

(* list_available_recipients                                               *)
Offered(u) ==
  IF ~CanReadUsers(u) THEN {}
  ELSE IF CanSendToAnyone(u) THEN {v \in Correspondents : reachable[v]}
  ELSE IF "send_same_or_down" \in right[u] /\ rank[u] # None THEN SameOrDown(u) ELSE {}

(* Mutant: everyone who ever wrote or received anything takes part.        *)
AllParticipants(c) ==
  UNION {{sent[m].sender} \cup DOMAIN sent[m].to : m \in SentMessages}

(* _get_conversation_participant_user_ids                                  *)
Participants(c) ==
  UNION {{sent[m].sender} \cup DOMAIN sent[m].to : m \in {n \in SentMessages : sent[n].conversation = c}}

(* _ensure_recipients_allowed: the first rule that applies to the sender   *)
(* decides; parent is None for a new message.                              *)
ScopeFor(u, parent) ==
  IF CanSendToAnyone(u) THEN "anyone"
  ELSE IF "send_same_or_down" \in right[u] THEN "down"
  ELSE IF parent # None /\ "reply" \in right[u] THEN "thread"
  ELSE None

Addressable(u, parent) ==
  CASE ScopeFor(u, parent) = "anyone" -> Correspondents
    [] ScopeFor(u, parent) = "down" -> IF rank[u] = None THEN {} ELSE SameOrDown(u)
    [] ScopeFor(u, parent) = "thread" -> Participants(sent[parent].conversation)
    [] OTHER -> {}

(* _user_can_reply                                                         *)
UserCanReply(m, u) ==
  \/ sent[m].sender = u
  \/ u \in DOMAIN sent[m].to /\ sent[m].to[u].canReply

-----------------------------------------------------------------------------
(* send_message                                                            *)

(* _normalize_recipients: distinct, active, at least one.                  *)
Audiences ==
  {to \in UNION {[vs -> messageMode.flags] : vs \in (SUBSET Correspondents) \ {{}}} :
     Cardinality(DOMAIN to) <= messageMode.size /\ \A v \in DOMAIN to : reachable[v]}

ConversationOf(parent) == IF parent = None THEN None ELSE sent[parent].conversation

Compose(w, u, parent) ==
  \E to \in Audiences :
    /\ reachable[u]
    /\ DOMAIN to \subseteq Addressable(u, parent)
    /\ MayServe(messageSession, w, messageMode.serial)
    /\ messageSession' = [messageSession EXCEPT ![w] =
         [kind |-> "send",
          message |-> [sender |-> u, conversation |-> ConversationOf(parent), parent |-> parent,
                       scope |-> ScopeFor(u, parent),
                       to |-> [v \in DOMAIN to |-> [canReply |-> to[v], isRead |-> FALSE]]]]]
    /\ UNCHANGED <<peopleVars, sent, opened, announced, brokenOff>>

SendNew(w) == \E u \in Correspondents : CanInitiate(u) /\ Compose(w, u, None)

SendReply(w) ==
  \E u \in Correspondents, m \in SentMessages :
    CanReplyInThread(u) /\ UserCanReply(m, u) /\ Compose(w, u, m)

(* The message and its recipients are committed together; one without a    *)
(* conversation starts its own.                                            *)
CommitMessage(w) ==
  LET x == messageSession[w]
      id == Cardinality(SentMessages) + 1
  IN
  /\ x # None /\ x.kind = "send"
  /\ id <= messageMode.last
  /\ sent' = [sent EXCEPT ![id] =
                [x.message EXCEPT !.conversation = IF @ = None THEN id ELSE @]]
  /\ messageSession' = [messageSession EXCEPT ![w] =
       [kind |-> "announce", id |-> id, rest |-> DOMAIN x.message.to]]
  /\ UNCHANGED <<peopleVars, opened, announced, brokenOff>>

(* Mutant: the loop stops at the sender.                                   *)
RestUntilSender(rest, v, sender) == IF v = sender THEN {} ELSE rest \ {v}

RestAfter(rest, v, sender) == rest \ {v}

(* _send_notifications: one committed notification per recipient except    *)
(* the sender.                                                             *)
Announce(w) ==
  LET x == messageSession[w] IN
  /\ x # None /\ x.kind = "announce"
  /\ IF x.rest = {} THEN
       /\ messageSession' = [messageSession EXCEPT ![w] = None]
       /\ UNCHANGED announced
     ELSE LET v == CHOOSE u \in x.rest : TRUE IN
       /\ announced' = IF v = sent[x.id].sender THEN announced ELSE announced \cup {<<x.id, v>>}
       /\ messageSession' = [messageSession EXCEPT ![w].rest = RestAfter(@, v, sent[x.id].sender)]
  /\ UNCHANGED <<peopleVars, sent, opened, brokenOff>>

(* The process or the connection fails between two commits.                *)
SendBreaksOff(w) ==
  LET x == messageSession[w] IN
  /\ x # None
  /\ brokenOff' = IF x.kind = "announce" THEN brokenOff \cup {x.id} ELSE brokenOff
  /\ messageSession' = [messageSession EXCEPT ![w] = None]
  /\ UNCHANGED <<peopleVars, sent, opened, announced>>

-----------------------------------------------------------------------------
(* Reading                                                                 *)

ReadBy(to, u) == [v \in DOMAIN to |-> IF v = u THEN [to[v] EXCEPT !.isRead = TRUE] ELSE to[v]]

(* get_message and mark_as_read: by a recipient, whose row is marked, or   *)
(* by the sender, for whom nothing is, a copy to oneself included.         *)
OpenMessage ==
  \E m \in SentMessages :
    \E u \in {sent[m].sender} \cup DOMAIN sent[m].to :
      /\ reachable[u]
      /\ opened' = opened \cup {<<m, u>>}
      /\ sent' = IF u = sent[m].sender THEN sent ELSE [sent EXCEPT ![m].to = ReadBy(@, u)]
      /\ UNCHANGED <<peopleVars, announced, brokenOff, messageSession>>

(* get_unread_count, and list_inbox with unread_only.                      *)
UnreadInbox(u) == {m \in SentMessages : u \in DOMAIN sent[m].to /\ ~sent[m].to[u].isRead}

-----------------------------------------------------------------------------
(* Other services change permissions, job titles and accounts.             *)
ChangeRights ==
  /\ \E u \in messageMode.changing, r \in Rights :
       right' = [right EXCEPT ![u] = IF r \in @ THEN @ \ {r} ELSE @ \cup {r}]
  /\ UNCHANGED <<messageMode, rank, reachable, sent, opened, announced, brokenOff, messageSession>>

ChangeRank ==
  /\ \E u \in messageMode.changing, l \in Maybe(Ranks) : rank' = [rank EXCEPT ![u] = l]
  /\ UNCHANGED <<messageMode, right, reachable, sent, opened, announced, brokenOff, messageSession>>

ChangeReachable ==
  /\ \E u \in Correspondents : reachable' = [reachable EXCEPT ![u] = ~@]
  /\ UNCHANGED <<messageMode, right, rank, sent, opened, announced, brokenOff, messageSession>>

-----------------------------------------------------------------------------
MessageInit ==
  /\ messageMode \in MessageModes
  /\ right = messageMode.rights
  /\ rank = messageMode.rank
  /\ reachable = [u \in Correspondents |-> TRUE]
  /\ sent = [m \in SentIds |-> None]
  /\ opened = {} /\ announced = {} /\ brokenOff = {}
  /\ messageSession = [w \in Workers |-> None]

MessageNext ==
  \/ \E w \in Workers :
       \/ "send" \in messageMode.ops /\ SendNew(w)
       \/ "reply" \in messageMode.ops /\ SendReply(w)
       \/ CommitMessage(w) \/ Announce(w)
       \/ "breakoff" \in messageMode.ops /\ SendBreaksOff(w)
  \/ "read" \in messageMode.ops /\ OpenMessage
  \/ "rights" \in messageMode.ops /\ ChangeRights
  \/ "ranks" \in messageMode.ops /\ ChangeRank
  \/ "activation" \in messageMode.ops /\ ChangeReachable

MessageSpec == MessageInit /\ [][MessageNext]_messageVars

-----------------------------------------------------------------------------
MessageTypeOK ==
  /\ messageMode \in MessageModes
  /\ right \in [Correspondents -> SUBSET Rights]
  /\ rank \in [Correspondents -> Maybe(Ranks)]
  /\ reachable \in [Correspondents -> BOOLEAN]
  /\ sent \in [SentIds -> Maybe(Message)]
  /\ opened \subseteq SentMessages \X Correspondents
  /\ announced \subseteq SentMessages \X Correspondents
  /\ brokenOff \subseteq SentMessages

(* A conversation is one tree: it is named after the message that started  *)
(* it, and a reply stays in the conversation of the message it answers, at *)
(* any depth (send_message).                                               *)
ConversationsAreTrees ==
  \A m \in SentMessages :
    LET c == sent[m].conversation
        parent == sent[m].parent
    IN
    /\ c \in SentMessages /\ sent[c].parent = None /\ sent[c].conversation = c
    /\ parent # None => parent \in SentMessages /\ sent[parent].conversation = c

(* Nobody is drawn into a conversation by people who may only reply: who   *)
(* takes part was there from the start, or was addressed by someone with a *)
(* right to write to them, in whatever order the replies came.             *)
NobodyJoinsUninvited ==
  \A m \in SentMessages :
    \A v \in {sent[m].sender} \cup DOMAIN sent[m].to :
      \E n \in SentMessages :
        /\ sent[n].conversation = sent[m].conversation
        /\ sent[n].scope # "thread"
        /\ v = sent[n].sender \/ v \in DOMAIN sent[n].to

(* Messages are numbered without gaps; one that is about to be sent starts *)
(* a conversation or continues the one it answers, nobody has read it, and *)
(* whoever may only reply writes to people who take part in it.            *)
MessageFits(y) ==
  /\ y \in Message /\ \A v \in DOMAIN y.to : ~y.to[v].isRead
  /\ IF y.parent = None THEN y.conversation = None /\ y.scope # "thread"
     ELSE y.parent \in SentMessages /\ y.conversation = sent[y.parent].conversation
  /\ y.scope = "thread" => {y.sender} \cup DOMAIN y.to \subseteq Participants(y.conversation)
SendsFit ==
  /\ \E n \in 0..LastSent : SentMessages = 1..n
  /\ \A w \in Workers : LET x == messageSession[w] IN x # None =>
       /\ x.kind = "send" => MessageFits(x.message)
       /\ x.kind = "announce" =>
            x \in AnnounceRequest /\ x.id \in SentMessages /\ x.rest \subseteq DOMAIN sent[x.id].to

(* A conversation stays together and among those who were invited to it.   *)
ConversationInv ==
  /\ MessageTypeOK
  /\ SendsFit
  /\ ConversationsAreTrees
  /\ NobodyJoinsUninvited

(* The people offered for a new message are those that may be addressed    *)
(* (list_available_recipients against send_message, two computations of    *)
(* the same scope), for everyone who may see them.                         *)
OfferedAreAddressable ==
  \A u \in Correspondents : CanReadUsers(u) =>
    Offered(u) = {v \in Addressable(u, None) : reachable[v]}

(* Every recipient of a stored message has been notified, is about to be,  *)
(* or lost the notification to a failure of the sender's request; nobody   *)
(* else was (_send_notifications).                                         *)
EverybodyIsNotified ==
  \A m \in SentMessages :
    LET told == {v \in Correspondents : <<m, v>> \in announced}
        due == DOMAIN sent[m].to \ {sent[m].sender}
        waiting == UNION {messageSession[w].rest :
                            w \in {x \in Workers : messageSession[x] # None
                                     /\ messageSession[x].kind = "announce" /\ messageSession[x].id = m}}
    IN  told \subseteq due /\ (m \notin brokenOff => due \subseteq told \cup waiting)

(* A message is unread by exactly the recipients who did not open it; a    *)
(* copy to oneself stays unread for ever.                                  *)
UnreadUntilOpened ==
  \A u \in Correspondents, m \in SentMessages : u \in DOMAIN sent[m].to =>
    (m \in UnreadInbox(u) <=> (<<m, u>> \notin opened \/ u = sent[m].sender))

(* From being offered to having read: what a recipient may count on.       *)
RecipientInv ==
  /\ OfferedAreAddressable
  /\ EverybodyIsNotified
  /\ UnreadUntilOpened

=============================================================================
