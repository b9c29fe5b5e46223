---------------------------- MODULE DirectMessages ----------------------------
(***************************************************************************)
(* Messages between departments (routes/direct-messages.ts) and the page   *)
(* that shows them (components/DirectMessages.tsx).  A message goes from a *)
(* user to a department, and whoever works there shares its inbox.  The    *)
(* page shows what its last poll returned, and deleting a conversation     *)
(* takes three statements without a transaction.                           *)
(***************************************************************************)
EXTENDS Integers, FiniteSets

CONSTANTS
  User,       \* users
  Viewer,     \* those who have the page open
  Role,       \* departments
  RoleOf,     \* the department of each user
  Message,    \* ids of messages
  MayCrash    \* whether the server may restart

ASSUME RoleAssumption == RoleOf \in [User -> Role] /\ Viewer \subseteq User

VARIABLES
  message,   \* the direct_messages table
  shown,     \* per viewer: the messages the page shows
  marking,   \* per viewer: messages whose PATCH /:id/read is under way
  deleting,  \* per user: the deletion under way
  \* what the properties compare with:
  seen       \* messages some user of the recipient department was shown

dmVars == <<message, shown, marking, deleting, seen>>

Nobody == [life |-> "free"]
Gone == [life |-> "deleted"]
AllRoles == "all"
Idle == [step |-> "idle"]
There == {m \in Message : message[m].life = "sent"}
ReceivedBy(u) == {m \in There : message[m].recipientRole = RoleOf[u]}
SentBy(u) == {m \in There : message[m].sender = u}

DMInit ==
  /\ message = [m \in Message |-> Nobody]
  /\ shown = [u \in Viewer |-> {}]
  /\ marking = [u \in Viewer |-> {}]
  /\ deleting = [u \in User |-> Idle]
  /\ seen = {}

\* POST /.
Send(u, role) ==
  /\ \E m \in Message :
       /\ message[m] = Nobody
       /\ message' = [message EXCEPT ![m] =
                        [life |-> "sent", sender |-> u, recipientRole |-> role, isRead |-> FALSE]]
  /\ UNCHANGED <<shown, marking, deleting, seen>>

\* GET /conversations: the inbox of the department and what the user has sent.
\* A message to the own department shows as received only.
Poll(u) ==
  /\ shown' = [shown EXCEPT ![u] = ReceivedBy(u) \cup SentBy(u)]
  /\ seen' = seen \cup ReceivedBy(u)
  /\ UNCHANGED <<message, marking, deleting>>

\* Fault: the thread marks what has come in since, too.
WholeInbox(u, otherRole) == {m \in ReceivedBy(u) : RoleOf[message[m].sender] = otherRole}

Unread(u, otherRole) ==
  {m \in shown[u] \cap There :
     /\ message[m].recipientRole = RoleOf[u] /\ ~message[m].isRead
     /\ RoleOf[message[m].sender] = otherRole}

\* openThread: the unread messages of the conversation as shown, one request
\* for each; those for messages that are gone or read already change nothing.
OpenThread(u, otherRole) ==
  /\ Unread(u, otherRole) # {}
  /\ marking' = [marking EXCEPT ![u] = @ \cup Unread(u, otherRole)]
  /\ UNCHANGED <<message, shown, deleting, seen>>

\* PATCH /:id/read: 404 when it is not there, or not in this inbox.
MarkRead(u, m) ==
  /\ m \in marking[u]
  /\ marking' = [marking EXCEPT ![u] = @ \ {m}]
  /\ message' = IF m \in ReceivedBy(u) THEN [message EXCEPT ![m].isRead = TRUE] ELSE message
  /\ UNCHANGED <<shown, deleting, seen>>

-----------------------------------------------------------------------------
(* DELETE /conversation/:otherRole and DELETE /all. *)

Matches(role, otherRole) == otherRole = AllRoles \/ role = otherRole

Own(u, otherRole) == {m \in SentBy(u) : Matches(message[m].recipientRole, otherRole)}

\* Fault: what has been read is kept.
UnreadReceived(u, otherRole) ==
  {m \in ReceivedBy(u) : ~message[m].isRead /\ Matches(RoleOf[message[m].sender], otherRole)}

Received(u, otherRole) == {m \in ReceivedBy(u) : Matches(RoleOf[message[m].sender], otherRole)}

\* What the deletion is about, for the property ConversationGone.
Conversation(u, otherRole) ==
  {m \in There :
     \/ message[m].sender = u /\ otherRole \in {AllRoles, message[m].recipientRole}
     \/ message[m].recipientRole = RoleOf[u] /\ otherRole \in {AllRoles, RoleOf[message[m].sender]}}

Drop(ms) ==
  message' = [m \in Message |-> IF m \in ms THEN Gone ELSE message[m]]

\* The first deleteMany: what the user sent.
DeleteOwn(u, otherRole) ==
  /\ deleting[u] = Idle
  /\ Drop(Own(u, otherRole))
  /\ deleting' = [deleting EXCEPT ![u] =
                    [step |-> "find", otherRole |-> otherRole, toDelete |-> {},
                     since |-> Conversation(u, otherRole)]]
  /\ UNCHANGED <<shown, marking, seen>>

\* findMany: what the department received.
FindReceived(u) ==
  /\ deleting[u].step = "find"
  /\ deleting' = [deleting EXCEPT ![u].step = "received",
                                  ![u].toDelete = Received(u, deleting[u].otherRole)]
  /\ UNCHANGED <<message, shown, marking, seen>>

\* The second deleteMany, skipped when there is nothing; DM_DELETED follows and
\* the page polls again.
DeleteReceived(u) ==
  /\ deleting[u].step = "received"
  /\ Drop(deleting[u].toDelete \cap There)
  /\ deleting' = [deleting EXCEPT ![u] = Idle]
  /\ UNCHANGED <<shown, marking, seen>>

\* A restart: requests die.
DMCrash ==
  /\ MayCrash
  /\ deleting' = [u \in User |-> Idle]
  /\ marking' = [u \in Viewer |-> {}]
  /\ UNCHANGED <<message, shown, seen>>

DMNext ==
  \/ \E u \in User :
       \/ \E role \in Role : Send(u, role)
       \/ \E role \in Role \cup {AllRoles} : DeleteOwn(u, role)
       \/ FindReceived(u) \/ DeleteReceived(u)
  \/ \E u \in Viewer :
       \/ Poll(u)
       \/ \E role \in Role : OpenThread(u, role)
       \/ \E m \in Message : MarkRead(u, m)
  \/ DMCrash

DMSpec == DMInit /\ [][DMNext]_dmVars

-----------------------------------------------------------------------------
\* A deletion that runs to its end (it is not cut off by a restart) leaves
\* nothing of what was there when it began, though messages come and go between
\* its statements.
ConversationGone ==
  [][\A u \in User :
       /\ deleting[u].step = "received" /\ deleting'[u] = Idle
       /\ message' # message \/ deleting[u].toDelete \cap There = {}
       => \A m \in deleting[u].since : message'[m].life = "deleted"]_dmVars

\* No message counts as read that nobody of the department was shown: new ones
\* stay unread even if they arrive while a thread is being opened.
ReadWasSeen == \A m \in There : message[m].isRead => m \in seen
=============================================================================
