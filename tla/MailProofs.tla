------------------------------ MODULE MailProofs ------------------------------
(***************************************************************************)
(* Theorems about the messages between departments and about the bulk      *)
(* deletions of a list.                                                    *)
(*                                                                         *)
(* Messages, for any users, departments and messages and however requests  *)
(* interleave: a message that counts as read was shown to somebody of its  *)
(* department, and a deletion that is not cut off leaves nothing of the    *)
(* conversation it found.  Both rest on a message never changing hands     *)
(* once it is sent.                                                        *)
(*                                                                         *)
(* Lists, for any reports, offices and length of the log: a bulk deletion  *)
(* takes what was reviewed, a selection is of what the page lists, and a   *)
(* wipe of the audit log is documented in it.  The first needs the         *)
(* snapshot of the transaction to remember what the dialog was confirmed   *)
(* for; the second needs a page that is behind to be told; the third needs *)
(* every step that removes rows to say what becomes of the row that        *)
(* documents the last wipe.                                                *)
(***************************************************************************)
EXTENDS DirectMessages, BulkDeletion, FiniteSetTheorems, TLAPS

-----------------------------------------------------------------------------
(* Messages between departments. *)

Mail == [life : {"sent"}, sender : User, recipientRole : Role, isRead : BOOLEAN]

Deleting ==
  [step : {"find", "received"}, otherRole : Role \cup {AllRoles},
   toDelete : SUBSET Message, since : SUBSET Message]

DMTypeOK ==
  /\ message \in [Message -> {Nobody, Gone} \cup Mail]
  /\ shown \in [Viewer -> SUBSET Message]
  /\ marking \in [Viewer -> SUBSET Message]
  /\ deleting \in [User -> {Idle} \cup Deleting]
  /\ seen \in SUBSET Message

\* Whatever a page shows its viewer as received, or is marking, was seen; a
\* page shows nothing that was not sent.
MarkingIsSeen ==
  /\ \A u \in Viewer : \A m \in shown[u] :
       /\ message[m] # Nobody
       /\ m \in There /\ message[m].recipientRole = RoleOf[u] => m \in seen
  /\ \A u \in Viewer : marking[u] \subseteq seen

\* What is left of a conversation after the first statement was received, and
\* after the second is on the list of the third.
RestIsKnown ==
  \A u \in User :
    deleting[u] # Idle =>
      \A m \in deleting[u].since :
        /\ message[m] # Nobody
        /\ deleting[u].step = "find" /\ m \in There =>
             m \in Received(u, deleting[u].otherRole)
        /\ deleting[u].step = "received" /\ m \in There =>
             m \in deleting[u].toDelete

DMInv == DMTypeOK /\ MarkingIsSeen /\ ReadWasSeen /\ RestIsKnown

\* Lives of messages: what is sent keeps its sender and its recipient until it
\* is deleted, and nothing comes back.
Passes(m) ==
  \/ message'[m] = message[m]
  \/ message[m] = Nobody /\ message'[m] \in Mail /\ ~message'[m].isRead
  \/ message[m] \in Mail /\ message'[m] = Gone
  \/ /\ message[m] \in Mail /\ message'[m] \in Mail
     /\ message'[m].sender = message[m].sender
     /\ message'[m].recipientRole = message[m].recipientRole
     /\ m \in seen

LEMMA Lives ==
  ASSUME message \in [Message -> {Nobody, Gone} \cup Mail]
  PROVE  /\ There = {m \in Message : message[m] \in Mail}
         /\ \A m \in Message : message[m] # Nobody /\ m \notin There => message[m] = Gone
         /\ Gone # Nobody /\ Gone \notin Mail /\ Nobody \notin Mail
BY DEF There, Nobody, Gone, Mail

LEMMA DMInitInv == DMInit => DMInv
<1> SUFFICES ASSUME DMInit PROVE DMInv OBVIOUS
<1>1. DMTypeOK BY DEF DMInit, DMTypeOK
<1>2. MarkingIsSeen BY DEF DMInit, MarkingIsSeen
<1>3. ReadWasSeen BY <1>1, Lives DEF DMInit, ReadWasSeen, DMTypeOK
<1>4. RestIsKnown BY DEF DMInit, RestIsKnown
<1> QED BY <1>1, <1>2, <1>3, <1>4 DEF DMInv

\* A step that moves messages along their lives keeps what was read seen.
LEMMA ReadStaysSeen ==
  ASSUME DMInv, DMTypeOK', seen \subseteq seen', \A m \in Message : Passes(m)
  PROVE  ReadWasSeen'
<1> SUFFICES ASSUME NEW m \in Message, message'[m] \in Mail, message'[m].isRead
             PROVE  m \in seen'
  BY Lives, There' = {m \in Message : message'[m] \in Mail} DEF ReadWasSeen, DMTypeOK, There, Mail, Nobody, Gone
<1>1. Passes(m) OBVIOUS
<1>2. message[m] \in Mail /\ message[m].isRead => m \in seen
  BY Lives DEF DMInv, DMTypeOK, ReadWasSeen
<1> QED BY <1>1, <1>2, Lives DEF Passes, DMInv, DMTypeOK

\* It keeps what pages that did not change were shown seen.
LEMMA ShownStaysSeen ==
  ASSUME DMInv, DMTypeOK', seen \subseteq seen', \A m \in Message : Passes(m),
         UNCHANGED <<shown, marking>>
  PROVE  MarkingIsSeen'
<1>1. ASSUME NEW u \in Viewer, NEW m \in shown[u]
      PROVE  /\ message'[m] # Nobody
             /\ message'[m] \in Mail /\ message'[m].recipientRole = RoleOf[u] => m \in seen'
  <2>1. m \in Message /\ Passes(m) BY DEF DMInv, DMTypeOK
  <2>2. message[m] # Nobody /\ (message[m] \in Mail /\ message[m].recipientRole = RoleOf[u] => m \in seen)
    BY <2>1, Lives DEF DMInv, MarkingIsSeen, DMTypeOK
  <2> QED BY <2>1, <2>2, Lives DEF Passes, DMInv, DMTypeOK
<1>2. There' = {m \in Message : message'[m] \in Mail}
  BY DEF DMTypeOK, There, Mail, Nobody, Gone
<1> QED BY <1>1, <1>2 DEF MarkingIsSeen, DMInv

\* It keeps the rest of a deletion that did not change known.
LEMMA RestStaysKnown ==
  ASSUME DMInv, DMTypeOK', \A m \in Message : Passes(m), NEW u \in User,
         deleting[u] # Idle, deleting'[u] = deleting[u], NEW m \in deleting[u].since
  PROVE  /\ message'[m] # Nobody
         /\ deleting[u].step = "find" /\ m \in There' =>
              m \in Received(u, deleting[u].otherRole)'
         /\ deleting[u].step = "received" /\ m \in There' =>
              m \in deleting[u].toDelete
<1>1. m \in Message /\ Passes(m) BY DEF DMInv, DMTypeOK, Deleting
<1>2. There' = {x \in Message : message'[x] \in Mail}
  BY DEF DMTypeOK, There, Mail, Nobody, Gone
<1>3. message[m] # Nobody BY DEF DMInv, RestIsKnown
<1>4. message'[m] # Nobody BY <1>1, <1>3, Lives DEF Passes, DMInv, DMTypeOK, Mail, Nobody, Gone
<1>5. m \in There' =>
        /\ m \in There
        /\ message'[m].sender = message[m].sender
        /\ message'[m].recipientRole = message[m].recipientRole
  BY <1>1, <1>2, <1>3, Lives DEF Passes, DMInv, DMTypeOK
<1>6. ASSUME deleting[u].step = "find", m \in There'
      PROVE  m \in Received(u, deleting[u].otherRole)'
  <2>1. m \in Received(u, deleting[u].otherRole) BY <1>5, <1>6 DEF DMInv, RestIsKnown
  <2>2. deleting[u].otherRole = AllRoles \/ RoleOf[message[m].sender] = deleting[u].otherRole
    BY <2>1 DEF Received, Matches
  <2>3. message[m].recipientRole = RoleOf[u] BY <2>1 DEF Received, ReceivedBy
  <2> QED BY <1>5, <1>6, <2>2, <2>3 DEF Received, ReceivedBy, Matches
<1> QED BY <1>4, <1>5, <1>6 DEF DMInv, RestIsKnown

LEMMA DMNextInv == DMInv /\ [DMNext]_dmVars => DMInv'
<1> SUFFICES ASSUME DMInv, [DMNext]_dmVars PROVE DMInv' OBVIOUS
<1> USE DEF DMInv
<1>1. CASE UNCHANGED dmVars
  BY <1>1 DEF dmVars, DMTypeOK, MarkingIsSeen, ReadWasSeen, RestIsKnown, There, Received,
              ReceivedBy, Matches
<1>2. ASSUME NEW u \in User, NEW role \in Role, Send(u, role) PROVE DMInv'
  <2>1. PICK m \in Message :
          /\ message[m] = Nobody
          /\ message' = [message EXCEPT ![m] =
                           [life |-> "sent", sender |-> u, recipientRole |-> role, isRead |-> FALSE]]
    BY <1>2 DEF Send
  <2>2. UNCHANGED <<shown, marking, deleting, seen>> BY <1>2 DEF Send
  <2>3. DMTypeOK' BY <2>1, <2>2 DEF DMTypeOK, Mail
  <2>4. \A x \in Message : Passes(x) BY <2>1 DEF Passes, Mail, DMTypeOK
  <2>5. ReadWasSeen' /\ MarkingIsSeen' BY <2>2, <2>3, <2>4, ReadStaysSeen, ShownStaysSeen
  <2>6. RestIsKnown' BY <2>2, <2>3, <2>4, RestStaysKnown DEF RestIsKnown
  <2> QED BY <2>3, <2>5, <2>6
<1>3. ASSUME NEW u \in Viewer, Poll(u) PROVE DMInv'
  <2>1. UNCHANGED <<message, marking, deleting>> /\ seen' = seen \cup ReceivedBy(u)
    BY <1>3 DEF Poll
  <2>2. shown' = [shown EXCEPT ![u] = ReceivedBy(u) \cup SentBy(u)] BY <1>3 DEF Poll
  <2>3. ReceivedBy(u) \subseteq There /\ SentBy(u) \subseteq There /\ There \subseteq Message
    BY DEF ReceivedBy, SentBy, There
  <2>4. DMTypeOK' BY <2>1, <2>2, <2>3 DEF DMTypeOK
  <2>5. There' = There BY <2>1 DEF There
  <2>6. ReadWasSeen' BY <2>1, <2>5 DEF ReadWasSeen
  <2>7. RestIsKnown'
    BY <2>1 DEF RestIsKnown, There, Received, ReceivedBy, Matches
  <2>8. \A m \in There : message[m] # Nobody BY Lives DEF DMTypeOK
  <2>9. ASSUME NEW v \in Viewer, NEW m \in shown'[v]
        PROVE  /\ message[m] # Nobody
               /\ m \in There /\ message[m].recipientRole = RoleOf[v] => m \in seen'
    <3>1. CASE v = u
      BY <2>1, <2>2, <2>3, <2>8, <3>1 DEF DMTypeOK, ReceivedBy
    <3>2. CASE v # u
      BY <2>1, <2>2, <3>2 DEF DMTypeOK, MarkingIsSeen
    <3> QED BY <3>1, <3>2
  <2>10. MarkingIsSeen' BY <2>1, <2>5, <2>9 DEF MarkingIsSeen
  <2> QED BY <2>4, <2>6, <2>7, <2>10
<1>4. ASSUME NEW u \in Viewer, NEW role \in Role, OpenThread(u, role) PROVE DMInv'
  <2>1. UNCHANGED <<message, shown, deleting, seen>> BY <1>4 DEF OpenThread
  <2>2. marking' = [marking EXCEPT ![u] = @ \cup Unread(u, role)] BY <1>4 DEF OpenThread
  <2>3. Unread(u, role) \subseteq seen /\ Unread(u, role) \subseteq Message
    BY DEF Unread, MarkingIsSeen, DMTypeOK
  <2>4. DMTypeOK' BY <2>1, <2>2, <2>3 DEF DMTypeOK
  <2>5. There' = There BY <2>1 DEF There
  <2>6. ReadWasSeen' /\ RestIsKnown'
    BY <2>1, <2>5 DEF ReadWasSeen, RestIsKnown, Received, ReceivedBy, Matches
  <2>7. MarkingIsSeen' BY <2>1, <2>2, <2>3, <2>5 DEF MarkingIsSeen, DMTypeOK
  <2> QED BY <2>4, <2>6, <2>7
<1>5. ASSUME NEW u \in Viewer, NEW m \in Message, MarkRead(u, m) PROVE DMInv'
  <2>1. UNCHANGED <<shown, deleting, seen>> /\ m \in marking[u] BY <1>5 DEF MarkRead
  <2>2. marking' = [marking EXCEPT ![u] = @ \ {m}] BY <1>5 DEF MarkRead
  <2>3. message' = message \/ (m \in There /\ message' = [message EXCEPT ![m].isRead = TRUE])
    BY <1>5 DEF MarkRead, ReceivedBy
  <2>4. m \in seen BY <2>1 DEF MarkingIsSeen
  <2>10. m \in There => [message[m] EXCEPT !.isRead = TRUE] \in Mail /\ message[m] \in Mail
    BY Lives DEF Mail, DMTypeOK
  <2>5. DMTypeOK'
    <3>1. message' \in [Message -> {Nobody, Gone} \cup Mail] BY <2>3, <2>10 DEF DMTypeOK
    <3> QED BY <2>1, <2>2, <3>1 DEF DMTypeOK
  <2>6. ASSUME NEW x \in Message PROVE Passes(x)
    <3>1. CASE x # m \/ message' = message BY <2>3, <3>1 DEF Passes, DMTypeOK
    <3>2. CASE x = m /\ m \in There /\ message' = [message EXCEPT ![m].isRead = TRUE]
      <4>1. message'[m] = [message[m] EXCEPT !.isRead = TRUE] BY <3>2 DEF DMTypeOK
      <4>2. message'[m].sender = message[m].sender
            /\ message'[m].recipientRole = message[m].recipientRole
        BY <2>10, <3>2, <4>1 DEF Mail
      <4> QED BY <2>4, <2>10, <3>2, <4>1, <4>2 DEF Passes
    <3> QED BY <2>3, <3>1, <3>2
  <2>7. ReadWasSeen' BY <2>1, <2>5, <2>6, ReadStaysSeen
  <2>8. RestIsKnown' BY <2>1, <2>5, <2>6, RestStaysKnown DEF RestIsKnown
  <2>9. MarkingIsSeen'
    <3>1. \A v \in Viewer : marking'[v] \subseteq seen' BY <2>1, <2>2 DEF MarkingIsSeen, DMTypeOK
    <3>2. There' = {x \in Message : message'[x] \in Mail}
      BY <2>5 DEF DMTypeOK, There, Mail, Nobody, Gone
    <3>3. ASSUME NEW v \in Viewer, NEW x \in shown[v]
          PROVE  /\ message'[x] # Nobody
                 /\ message'[x] \in Mail /\ message'[x].recipientRole = RoleOf[v] => x \in seen
      <4>1. x \in Message /\ Passes(x) BY <2>6 DEF DMTypeOK
      <4>2. message[x] # Nobody /\ (message[x] \in Mail /\ message[x].recipientRole = RoleOf[v] => x \in seen)
        BY <4>1, Lives DEF MarkingIsSeen, DMTypeOK
      <4> QED BY <4>1, <4>2, Lives DEF Passes, DMTypeOK
    <3> QED BY <2>1, <3>1, <3>2, <3>3 DEF MarkingIsSeen
  <2> QED BY <2>5, <2>7, <2>8, <2>9
<1>6. ASSUME NEW u \in User, NEW role \in Role \cup {AllRoles}, DeleteOwn(u, role) PROVE DMInv'
  <2>1. UNCHANGED <<shown, marking, seen>> /\ Drop(Own(u, role)) BY <1>6 DEF DeleteOwn
  <2>2. deleting' = [deleting EXCEPT ![u] =
                       [step |-> "find", otherRole |-> role, toDelete |-> {},
                        since |-> Conversation(u, role)]]
    BY <1>6 DEF DeleteOwn
  <2>3. Own(u, role) \subseteq There BY DEF Own, SentBy
  <2>4. Conversation(u, role) \subseteq There /\ There \subseteq Message BY DEF Conversation, There
  <2>5. DMTypeOK' BY <2>1, <2>2, <2>4 DEF DMTypeOK, Deleting, Drop
  <2>6. \A x \in Message : Passes(x) BY <2>1, <2>3, Lives DEF Passes, Drop, DMTypeOK
  <2>7. ReadWasSeen' /\ MarkingIsSeen' BY <2>1, <2>5, <2>6, ReadStaysSeen, ShownStaysSeen
  <2>8. ASSUME NEW v \in User, deleting'[v] # Idle, NEW m \in deleting'[v].since
        PROVE  /\ message'[m] # Nobody
               /\ deleting'[v].step = "find" /\ m \in There' =>
                    (m \in Received(v, deleting[v].otherRole))'
               /\ deleting'[v].step = "received" /\ m \in There' =>
                    m \in deleting'[v].toDelete
    <3>1. CASE v # u
      <4>1. deleting'[v] = deleting[v] BY <2>2, <3>1 DEF DMTypeOK
      <4> QED BY <2>5, <2>6, <2>8, <4>1, RestStaysKnown
    <3>2. CASE v = u
      <4>1. deleting'[u] = [step |-> "find", otherRole |-> role, toDelete |-> {},
                            since |-> Conversation(u, role)]
        BY <2>2 DEF DMTypeOK
      <4>2. m \in Conversation(u, role) /\ m \in There BY <2>4, <2>8, <3>2, <4>1
      <4>3. message'[m] = IF m \in Own(u, role) THEN Gone ELSE message[m]
        BY <2>1, <2>4, <4>2 DEF Drop
      <4>4. message'[m] # Nobody BY <4>2, <4>3, Lives DEF DMTypeOK
      <4>5. ASSUME m \in There' PROVE m \notin Own(u, role) /\ message'[m] = message[m]
        BY <4>3, <4>5 DEF There, Gone
      <4>6. m \notin Own(u, role) => m \in Received(u, role)
        BY <4>2 DEF Conversation, Own, SentBy, Received, ReceivedBy, Matches
      <4>7. m \in There' => m \in Received(u, deleting[u].otherRole)'
        BY <4>1, <4>5, <4>6 DEF Received, ReceivedBy, Matches
      <4> QED BY <3>2, <4>1, <4>4, <4>7
    <3> QED BY <3>1, <3>2
  <2>9. RestIsKnown' BY <2>8 DEF RestIsKnown
  <2> QED BY <2>5, <2>7, <2>9
<1>7. ASSUME NEW u \in User, FindReceived(u) PROVE DMInv'
  <2>1. UNCHANGED <<message, shown, marking, seen>> /\ deleting[u].step = "find"
    BY <1>7 DEF FindReceived
  <2>2. deleting' = [deleting EXCEPT ![u].step = "received",
                                     ![u].toDelete = Received(u, deleting[u].otherRole)]
    BY <1>7 DEF FindReceived
  <2>3. deleting[u] \in Deleting BY <2>1 DEF DMTypeOK, Idle
  <2>4. \A r : Received(u, r) \subseteq Message BY DEF Received, ReceivedBy, There
  <2>5. DMTypeOK' BY <2>1, <2>2, <2>3, <2>4 DEF DMTypeOK, Deleting
  <2>6. There' = There BY <2>1 DEF There
  <2>7. ReadWasSeen' /\ MarkingIsSeen' BY <2>1, <2>6 DEF ReadWasSeen, MarkingIsSeen
  <2>8. ASSUME NEW v \in User, deleting'[v] # Idle, NEW m \in deleting'[v].since
        PROVE  /\ message'[m] # Nobody
               /\ deleting'[v].step = "find" /\ m \in There' =>
                    (m \in Received(v, deleting[v].otherRole))'
               /\ deleting'[v].step = "received" /\ m \in There' =>
                    m \in deleting'[v].toDelete
    <3>1. CASE v # u
      <4>1. deleting'[v] = deleting[v] BY <2>2, <3>1 DEF DMTypeOK
      <4>2. \A x \in Message : Passes(x) BY <2>1 DEF Passes
      <4> QED BY <2>5, <2>8, <4>1, <4>2, RestStaysKnown
    <3>2. CASE v = u
      <4>1. /\ deleting'[u].step = "received" /\ deleting'[u].since = deleting[u].since
            /\ deleting'[u].toDelete = Received(u, deleting[u].otherRole)
        BY <2>2, <2>3 DEF DMTypeOK, Deleting
      <4>2. deleting[u] # Idle BY <2>1 DEF Idle
      <4> QED BY <2>1, <2>6, <2>8, <3>2, <4>1, <4>2 DEF RestIsKnown
    <3> QED BY <3>1, <3>2
  <2>9. RestIsKnown' BY <2>8 DEF RestIsKnown
  <2> QED BY <2>5, <2>7, <2>9
<1>8. ASSUME NEW u \in User, DeleteReceived(u) PROVE DMInv'
  <2>1. UNCHANGED <<shown, marking, seen>> /\ Drop(deleting[u].toDelete \cap There)
    BY <1>8 DEF DeleteReceived
  <2>2. deleting' = [deleting EXCEPT ![u] = Idle] BY <1>8 DEF DeleteReceived
  <2>3. DMTypeOK' BY <2>1, <2>2 DEF DMTypeOK, Drop
  <2>4. \A x \in Message : Passes(x) BY <2>1, Lives DEF Passes, Drop, DMTypeOK
  <2>5. ReadWasSeen' /\ MarkingIsSeen' BY <2>1, <2>3, <2>4, ReadStaysSeen, ShownStaysSeen
  <2>6. \A v \in User : deleting'[v] = Idle \/ deleting'[v] = deleting[v]
    BY <2>2 DEF DMTypeOK
  <2>7. RestIsKnown' BY <2>3, <2>4, <2>6, RestStaysKnown DEF RestIsKnown
  <2> QED BY <2>3, <2>5, <2>7
<1>9. CASE DMCrash
  <2>1. UNCHANGED <<message, shown, seen>> BY <1>9 DEF DMCrash
  <2>2. deleting' = [u \in User |-> Idle] /\ marking' = [u \in Viewer |-> {}]
    BY <1>9 DEF DMCrash
  <2>3. There' = There BY <2>1 DEF There
  <2>4. DMTypeOK' BY <2>1, <2>2 DEF DMTypeOK
  <2>5. ReadWasSeen' /\ MarkingIsSeen' BY <2>1, <2>2, <2>3 DEF ReadWasSeen, MarkingIsSeen
  <2>6. RestIsKnown' BY <2>2 DEF RestIsKnown
  <2> QED BY <2>4, <2>5, <2>6
<1> QED BY <1>1, <1>2, <1>3, <1>4, <1>5, <1>6, <1>7, <1>8, <1>9 DEF DMNext

\* No message counts as read that nobody of its department was shown, for any
\* users and messages (openThread, PATCH /:id/read).
THEOREM ReadMessagesWereSeen == DMSpec => []ReadWasSeen
<1>1. DMInv => ReadWasSeen BY DEF DMInv
<1> QED BY <1>1, DMInitInv, DMNextInv, PTL DEF DMSpec

\* A deletion that runs to its end leaves nothing of the conversation it found,
\* whatever is sent, read and deleted between its three statements (DELETE
\* /conversation/:otherRole, DELETE /all).
THEOREM ConversationsAreGone == DMSpec => ConversationGone
<1>1. DMSpec => []DMInv BY DMInitInv, DMNextInv, PTL DEF DMSpec
<1> DEFINE Cleared ==
      \A u \in User :
        /\ deleting[u].step = "received" /\ deleting'[u] = Idle
        /\ message' # message \/ deleting[u].toDelete \cap There = {}
        => \A m \in deleting[u].since : message'[m].life = "deleted"
<1>2. DMInv /\ [DMNext]_dmVars => [Cleared]_dmVars
  <2> SUFFICES ASSUME DMInv, DMNext, NEW u \in User,
                      deleting[u].step = "received", deleting'[u] = Idle,
                      message' # message \/ deleting[u].toDelete \cap There = {},
                      NEW m \in deleting[u].since
               PROVE  message'[m].life = "deleted"
    BY DEF Cleared
  <2> USE DEF DMInv
  <2>1. deleting[u] # Idle /\ deleting[u] \in Deleting BY DEF Idle, DMTypeOK
  <2>2. m \in Message /\ message[m] # Nobody /\ (m \in There => m \in deleting[u].toDelete)
    BY <2>1 DEF RestIsKnown, Deleting
  <2>3. m \in There \/ message[m] = Gone BY <2>2, Lives DEF DMTypeOK
  <2>4. CASE message' = message
    <3>1. m \notin There BY <2>2, <2>4
    <3> QED BY <2>3, <2>4, <3>1 DEF Gone
  <2>5. CASE DeleteReceived(u)
    <3>1. message'[m] = IF m \in deleting[u].toDelete \cap There THEN Gone ELSE message[m]
      BY <2>2, <2>5 DEF DeleteReceived, Drop
    <3> QED BY <2>2, <2>3, <3>1 DEF Gone
  <2>6. DeleteReceived(u) \/ message' = message
    <3>1. ASSUME NEW v \in User, NEW role \in Role, Send(v, role) PROVE FALSE
      BY <2>1, <3>1 DEF Send
    <3>2. ASSUME NEW v \in User, NEW role, DeleteOwn(v, role) PROVE FALSE
      BY <2>1, <3>2 DEF DeleteOwn, DMTypeOK, Idle
    <3>3. ASSUME NEW v \in User, v # u, DeleteReceived(v) PROVE FALSE
      BY <2>1, <3>3 DEF DeleteReceived, DMTypeOK
    <3>4. ASSUME NEW v \in Viewer, NEW x \in Message, MarkRead(v, x) PROVE FALSE
      BY <2>1, <3>4 DEF MarkRead
    <3> QED BY <3>1, <3>2, <3>3, <3>4 DEF DMNext, FindReceived, Poll, OpenThread, DMCrash
  <2> QED BY <2>4, <2>5, <2>6
<1> QED BY <1>1, <1>2, PTL DEF DMSpec, ConversationGone

-----------------------------------------------------------------------------
(* Bulk deletions. *)

Deletion ==
  [step : {"sent", "snapshot", "log"}, ids : SUBSET Report, all : BOOLEAN,
   toDelete : SUBSET Report, expectedCount : Int]

BulkTypeOK ==
  /\ reports \in SUBSET Report /\ IsFiniteSet(reports)
  /\ listed \in [Office -> [ids : SUBSET Report, total : Int]]
  /\ selected \in [Office -> SUBSET Report]
  /\ deletion \in [Office -> {Waiting} \cup Deletion]
  /\ \A o \in Office : IsFiniteSet(listed[o].ids) /\ IsFiniteSet(selected[o])

\* What a transaction is about to delete is what the dialog was confirmed for.
SnapshotAsReviewed ==
  \A o \in Office :
    LET d == deletion[o]
    IN  d.step = "snapshot" =>
          IF d.all THEN Cardinality(d.toDelete) = d.expectedCount ELSE d.toDelete = d.ids

WipeTypeOK ==
  \/ wipe = Waiting
  \/ wipe = [step |-> wipe.step, toDelete |-> wipe.toDelete] /\ wipe.step \in {"snapshot", "log"}

BulkInv == BulkTypeOK /\ SnapshotAsReviewed

LEMMA BulkInitInv == BulkInit => BulkInv /\ WipeTypeOK /\ WipeIsTraced
<1>1. IsFiniteSet({}) /\ Cardinality({}) = 0 BY FS_EmptySet
<1> SUFFICES ASSUME BulkInit PROVE BulkInv /\ WipeTypeOK /\ WipeIsTraced OBVIOUS
<1>2. BulkTypeOK
  <2>1. listed \in [Office -> [ids : SUBSET Report, total : Int]] BY DEF BulkInit
  <2>2. \A o \in Office : listed[o].ids = {} /\ selected[o] = {} BY DEF BulkInit
  <2>3. selected \in [Office -> SUBSET Report] /\ reports = {} BY DEF BulkInit
  <2>4. deletion \in [Office -> {Waiting} \cup Deletion] BY DEF BulkInit
  <2> QED BY <1>1, <2>1, <2>2, <2>3, <2>4 DEF BulkTypeOK
<1>3. SnapshotAsReviewed
  <2>1. \A o \in Office : deletion[o].step = "none" BY DEF BulkInit, Waiting
  <2> QED BY <2>1 DEF SnapshotAsReviewed
<1>4. WipeTypeOK BY DEF BulkInit, WipeTypeOK
<1>5. WipeIsTraced BY DEF BulkInit, WipeIsTraced
<1> QED BY <1>2, <1>3, <1>4, <1>5 DEF BulkInv

\* A deletion that keeps its place, or stops waiting to be sent, keeps its
\* promise.
LEMMA OthersKeepTheirs ==
  ASSUME BulkInv, BulkTypeOK', NEW o \in Office,
         \A p \in Office \ {o} : deletion'[p] = deletion[p],
         deletion'[o].step # "snapshot"
  PROVE  SnapshotAsReviewed'
BY DEF BulkInv, SnapshotAsReviewed

LEMMA ListingType ==
  ASSUME BulkTypeOK PROVE Listing \in [ids : SUBSET Report, total : Int] /\ IsFiniteSet(Listing.ids)
<1>1. Cardinality(reports) \in Int BY FS_CardinalityType DEF BulkTypeOK
<1> QED BY <1>1 DEF Listing, BulkTypeOK

LEMMA BulkNextInv == BulkInv /\ [BulkNext]_bulkVars => BulkInv'
<1> SUFFICES ASSUME BulkInv, [BulkNext]_bulkVars PROVE BulkInv' OBVIOUS
<1> USE DEF BulkInv
<1>0. /\ Listing \in [ids : SUBSET Report, total : Int] /\ IsFiniteSet(Listing.ids)
      /\ Waiting.step = "none" /\ Waiting \notin Deletion
  BY ListingType DEF Waiting, Deletion
<1>1. CASE UNCHANGED bulkVars \/ Audited \/ DeleteOne \/ BeginWipe \/ CommitWipe \/ LogWipe
  <2>1. UNCHANGED reportVars
    BY <1>1 DEF bulkVars, Audited, DeleteOne, BeginWipe, CommitWipe, LogWipe
  <2> QED BY <2>1 DEF reportVars, BulkTypeOK, SnapshotAsReviewed
<1>2. ASSUME NEW c \in Report, AddReport(c) \/ DeleteReport(c) PROVE BulkInv'
  <2>1. UNCHANGED <<listed, selected, deletion>> BY <1>2 DEF AddReport, DeleteReport
  <2>2. reports' = reports \cup {c} \/ reports' = reports \ {c} BY <1>2 DEF AddReport, DeleteReport
  <2>3. IsFiniteSet(reports')
    <3>1. IsFiniteSet(reports \cup {c}) BY FS_AddElement DEF BulkTypeOK
    <3>2. IsFiniteSet(reports \ {c}) BY FS_RemoveElement DEF BulkTypeOK
    <3> QED BY <2>2, <3>1, <3>2
  <2> QED BY <2>1, <2>2, <2>3 DEF BulkTypeOK, SnapshotAsReviewed
<1>3. ASSUME NEW o \in Office, NEW what, Hear(o, what) PROVE BulkInv'
  <2>1. UNCHANGED <<reports, deletion>> BY <1>3 DEF Hear
  <2>2. /\ selected' = [selected EXCEPT ![o] = SelectionAfter(o, what)]
        /\ listed' = [listed EXCEPT ![o] = Listing]
    BY <1>3 DEF Hear
  <2>3. SelectionAfter(o, what) \in SUBSET Report /\ IsFiniteSet(SelectionAfter(o, what))
    BY FS_EmptySet DEF SelectionAfter, BulkTypeOK
  <2> QED BY <1>0, <2>1, <2>2, <2>3 DEF BulkTypeOK, SnapshotAsReviewed
<1>4. ASSUME NEW o \in Office, TickReport(o) PROVE BulkInv'
  <2>1. UNCHANGED <<reports, listed, deletion>> BY <1>4 DEF TickReport
  <2>2. PICK ids \in SUBSET listed[o].ids : selected' = [selected EXCEPT ![o] = ids]
    BY <1>4 DEF TickReport
  <2>3. ids \in SUBSET Report /\ IsFiniteSet(ids) BY FS_Subset DEF BulkTypeOK
  <2> QED BY <2>1, <2>2, <2>3 DEF BulkTypeOK, SnapshotAsReviewed
<1>5. ASSUME NEW o \in Office, Confirm(o) PROVE BulkInv'
  <2>1. UNCHANGED <<reports, listed, selected>> BY <1>5 DEF Confirm
  <2>2. PICK all \in BOOLEAN :
          deletion' = [deletion EXCEPT ![o] =
            [step |-> "sent", ids |-> IF all THEN {} ELSE selected[o], all |-> all,
             toDelete |-> {},
             expectedCount |-> IF all THEN listed[o].total
                               ELSE Cardinality(IF all THEN {} ELSE selected[o])]]
    BY <1>5 DEF Confirm
  <2>3. Cardinality(selected[o]) \in Int BY FS_CardinalityType DEF BulkTypeOK
  <2>4. deletion' \in [Office -> {Waiting} \cup Deletion]
    BY <2>2, <2>3 DEF BulkTypeOK, Deletion
  <2>5. BulkTypeOK' BY <2>1, <2>4 DEF BulkTypeOK
  <2>6. deletion'[o].step = "sent" /\ \A p \in Office \ {o} : deletion'[p] = deletion[p]
    BY <2>2 DEF BulkTypeOK
  <2> QED BY <2>5, <2>6, OthersKeepTheirs
<1>6. ASSUME NEW o \in Office, BeginDeletion(o) PROVE BulkInv'
  <2> DEFINE d == deletion[o]
             target == IF d.all THEN reports ELSE d.ids \cap reports
  <2>1. UNCHANGED <<reports, selected>> /\ d.step = "sent" BY <1>6 DEF BeginDeletion
  <2>2. d \in Deletion BY <1>0, <2>1 DEF BulkTypeOK
  <2>3. CASE /\ CountIsExpected(d) /\ target # {}
             /\ deletion' = [deletion EXCEPT ![o].step = "snapshot", ![o].toDelete = target]
             /\ UNCHANGED listed
    <3>1. target \in SUBSET Report BY <2>2 DEF BulkTypeOK, Deletion
    <3>2. deletion' \in [Office -> {Waiting} \cup Deletion]
      <4> HIDE DEF target
      <4> QED BY <2>2, <2>3, <3>1 DEF BulkTypeOK, Deletion
    <3>3. /\ deletion'[o].toDelete = target /\ deletion'[o].all = d.all
          /\ deletion'[o].ids = d.ids /\ deletion'[o].expectedCount = d.expectedCount
      <4> HIDE DEF target
      <4> QED BY <2>2, <2>3 DEF BulkTypeOK, Deletion
    <3>4. IF d.all THEN Cardinality(target) = d.expectedCount ELSE target = d.ids
      BY <2>3 DEF CountIsExpected
    <3>5. \A p \in Office \ {o} : deletion'[p] = deletion[p] BY <2>3 DEF BulkTypeOK
    <3>6. SnapshotAsReviewed'
      <4> HIDE DEF target, d
      <4>1. IF deletion'[o].all THEN Cardinality(deletion'[o].toDelete) = deletion'[o].expectedCount
            ELSE deletion'[o].toDelete = deletion'[o].ids
        BY <3>3, <3>4
      <4> QED BY <3>5, <4>1 DEF SnapshotAsReviewed
    <3> QED BY <2>1, <2>3, <3>2, <3>6 DEF BulkTypeOK
  <2>4. CASE deletion' = [deletion EXCEPT ![o] = Waiting] /\ listed' = [listed EXCEPT ![o] = Listing]
    <3>1. BulkTypeOK' BY <1>0, <2>1, <2>4 DEF BulkTypeOK
    <3>2. deletion'[o].step # "snapshot" /\ \A p \in Office \ {o} : deletion'[p] = deletion[p]
      BY <1>0, <2>4 DEF BulkTypeOK
    <3> QED BY <3>1, <3>2, OthersKeepTheirs
  <2> QED BY <1>6, <2>3, <2>4 DEF BeginDeletion
<1>7. ASSUME NEW o \in Office, CommitDeletion(o) PROVE BulkInv'
  <2>1. UNCHANGED selected /\ deletion[o].step = "snapshot" BY <1>7 DEF CommitDeletion
  <2>2. deletion[o] \in Deletion BY <1>0, <2>1 DEF BulkTypeOK
  <2>3. /\ reports' \in SUBSET Report /\ IsFiniteSet(reports')
        /\ \/ deletion' = [deletion EXCEPT ![o].step = "log"]
           \/ deletion' = [deletion EXCEPT ![o] = Waiting]
        /\ listed' = listed \/ listed' = [listed EXCEPT ![o] = Listing]
    BY <1>7, FS_Subset DEF CommitDeletion, BulkTypeOK
  <2>4. deletion' \in [Office -> {Waiting} \cup Deletion] BY <2>2, <2>3 DEF BulkTypeOK, Deletion
  <2>5. BulkTypeOK' BY <1>0, <2>1, <2>3, <2>4 DEF BulkTypeOK
  <2>6. deletion'[o].step # "snapshot" /\ \A p \in Office \ {o} : deletion'[p] = deletion[p]
    BY <1>0, <2>2, <2>3 DEF BulkTypeOK, Deletion
  <2> QED BY <2>5, <2>6, OthersKeepTheirs
<1>8. ASSUME NEW o \in Office, LogDeletion(o) PROVE BulkInv'
  <2>1. /\ UNCHANGED <<reports, listed>> /\ deletion' = [deletion EXCEPT ![o] = Waiting]
        /\ selected' = [selected EXCEPT ![o] = {}]
    BY <1>8 DEF LogDeletion
  <2>2. BulkTypeOK' BY <2>1, FS_EmptySet DEF BulkTypeOK
  <2>3. deletion'[o].step # "snapshot" /\ \A p \in Office \ {o} : deletion'[p] = deletion[p]
    BY <1>0, <2>1 DEF BulkTypeOK
  <2> QED BY <2>2, <2>3, OthersKeepTheirs
<1> QED BY <1>1, <1>2, <1>3, <1>4, <1>5, <1>6, <1>7, <1>8 DEF BulkNext

\* A bulk deletion removes the ticked reports, or as many as the list said, for
\* any reports and offices (DELETE /bulk, DELETE /all).
THEOREM DeletionsAreReviewed == BulkSpec => DeletedAsReviewed
<1>1. BulkSpec => []BulkInv BY BulkInitInv, BulkNextInv, PTL DEF BulkSpec
<1> DEFINE AsReviewed ==
      \A o \in Office :
        deletion[o].step = "snapshot" /\ reports' # reports /\ deletion'[o] # deletion[o]
        => LET gone == reports \ reports'
           IN IF deletion[o].all THEN Cardinality(gone) = deletion[o].expectedCount
              ELSE gone = deletion[o].ids
<1>2. BulkInv /\ [BulkNext]_bulkVars => [AsReviewed]_bulkVars
  <2> SUFFICES ASSUME BulkInv, BulkNext, NEW o \in Office,
                      deletion[o].step = "snapshot", reports' # reports,
                      deletion'[o] # deletion[o]
               PROVE  IF deletion[o].all
                      THEN Cardinality(reports \ reports') = deletion[o].expectedCount
                      ELSE reports \ reports' = deletion[o].ids
    BY DEF AsReviewed
  <2> USE DEF BulkInv
  <2>1. PICK p \in Office : CommitDeletion(p)
    BY DEF BulkNext, AddReport, DeleteReport, Hear, TickReport, Confirm, BeginDeletion, LogDeletion,
           Audited, DeleteOne, BeginWipe, CommitWipe, LogWipe, reportVars
  <2>2. p = o BY <2>1 DEF CommitDeletion, BulkTypeOK
  <2>3. deletion[o].toDelete \subseteq reports /\ reports' = reports \ deletion[o].toDelete
    BY <2>1, <2>2 DEF CommitDeletion
  <2>4. reports \ reports' = deletion[o].toDelete BY <2>3
  <2> QED BY <2>4 DEF SnapshotAsReviewed
<1> QED BY <1>1, <1>2, PTL DEF BulkSpec, DeletedAsReviewed

LEMMA WipeNextInv ==
  ASSUME WipeTypeOK, WipeIsTraced, [BulkNext]_bulkVars PROVE WipeTypeOK' /\ WipeIsTraced'
<1>1. CASE UNCHANGED <<auditLog, wipe, trace>> BY <1>1 DEF WipeTypeOK, WipeIsTraced
<1>2. CASE Audited \/ \E o \in Office : LogDeletion(o)
  <2>1. auditLog' = auditLog \cup {FreeRow} /\ UNCHANGED <<wipe, trace>>
    BY <1>2 DEF Audited, LogDeletion
  <2> QED BY <2>1 DEF WipeTypeOK, WipeIsTraced
<1>3. CASE DeleteOne
  <2>1. PICK row \in auditLog :
          auditLog' = auditLog \ {row} /\ trace' = IF row = trace THEN Removed ELSE trace
    BY <1>3 DEF DeleteOne
  <2>2. UNCHANGED wipe BY <1>3 DEF DeleteOne
  <2> QED BY <2>1, <2>2 DEF WipeTypeOK, WipeIsTraced
<1>4. CASE BeginWipe
  <2>1. wipe = Waiting /\ UNCHANGED <<auditLog, trace>> BY <1>4 DEF BeginWipe
  <2>2. trace \in {NoWipe, Removed} \cup auditLog BY <2>1 DEF WipeIsTraced
  <2>3. wipe' = [step |-> "snapshot", toDelete |-> auditLog] BY <1>4 DEF BeginWipe
  <2> QED BY <2>1, <2>2, <2>3 DEF WipeTypeOK, WipeIsTraced
<1>5. CASE CommitWipe
  <2>1. wipe # Waiting /\ wipe.step = "snapshot" BY <1>5 DEF CommitWipe
  <2>2. trace \in {NoWipe, Removed} \cup auditLog BY <2>1 DEF WipeIsTraced
  <2>3. CASE wipe' = Waiting /\ UNCHANGED <<auditLog, trace>>
    BY <2>2, <2>3 DEF WipeTypeOK, WipeIsTraced
  <2>4. CASE wipe' = [wipe EXCEPT !.step = "log"]
    <3>1. wipe = [step |-> "snapshot", toDelete |-> wipe.toDelete] BY <2>1 DEF WipeTypeOK
    <3>2. wipe' = [step |-> "log", toDelete |-> wipe.toDelete] BY <2>4, <3>1
    <3> QED BY <3>2 DEF WipeTypeOK, WipeIsTraced, Waiting
  <2> QED BY <1>5, <2>3, <2>4 DEF CommitWipe
<1>6. CASE LogWipe
  <2>1. auditLog' = auditLog \cup {FreeRow} /\ trace' = FreeRow /\ wipe' = Waiting
    BY <1>6 DEF LogWipe
  <2> QED BY <2>1 DEF WipeTypeOK, WipeIsTraced
<1> QED
  BY <1>1, <1>2, <1>3, <1>4, <1>5, <1>6
  DEF BulkNext, bulkVars, AddReport, DeleteReport, Hear, TickReport, Confirm, BeginDeletion,
      CommitDeletion

\* A wipe of the audit log stays documented in it, for a log of any length
\* (DELETE /audit-logs, messages.ts:66-70).
THEOREM WipesAreTraced == BulkSpec => []WipeIsTraced
<1>1. BulkInit => WipeTypeOK /\ WipeIsTraced BY BulkInitInv
<1>2. WipeTypeOK /\ WipeIsTraced /\ [BulkNext]_bulkVars => WipeTypeOK' /\ WipeIsTraced'
  BY WipeNextInv
<1> QED BY <1>1, <1>2, PTL DEF BulkSpec

-----------------------------------------------------------------------------
(* The selection of a page.  A page is behind only while it will hear of a   *)
(* deletion: until then it lists reports that exist and ticks some of them.  *)

WillHear(o) ==
  \/ "deleted" \in news[o]
  \/ \E other \in Office : deletion[other].step = "log"

ListsFollow ==
  \A o \in Office :
    \/ WillHear(o)
    \/ listed[o].ids \subseteq reports /\ selected[o] \subseteq listed[o].ids

SelectionInv ==
  /\ BulkInv
  /\ news \in [Office -> SUBSET {"new", "deleted"}]
  /\ ListsFollow

LEMMA SelectionInitInv == BulkInit => SelectionInv
<1> SUFFICES ASSUME BulkInit PROVE SelectionInv OBVIOUS
<1>1. BulkInv BY BulkInitInv
<1>2. news \in [Office -> SUBSET {"new", "deleted"}] BY DEF BulkInit
<1>3. \A o \in Office : listed[o].ids = {} /\ selected[o] = {} BY DEF BulkInit
<1> QED BY <1>1, <1>2, <1>3 DEF SelectionInv, ListsFollow

\* A page that is behind stays so until it hears of the deletion.
LEMMA StillWillHear ==
  ASSUME NEW o \in Office, WillHear(o),
         "deleted" \in news[o] => "deleted" \in news'[o],
         \A p \in Office : deletion[p].step = "log" => deletion'[p].step = "log"
  PROVE  WillHear(o)'
BY DEF WillHear

\* A page whose list and ticks are as before, over no fewer reports, is as far
\* as it was.
LEMMA PageFollows ==
  ASSUME NEW o \in Office,
         WillHear(o) \/ (listed[o].ids \subseteq reports /\ selected[o] \subseteq listed[o].ids),
         WillHear(o) => WillHear(o)',
         listed'[o] = listed[o] \/ listed'[o] = Listing, reports \subseteq reports',
         selected'[o] \subseteq selected[o] \/ selected'[o] \subseteq listed'[o].ids
  PROVE  \/ WillHear(o)'
         \/ listed'[o].ids \subseteq reports' /\ selected'[o] \subseteq listed'[o].ids
<1>1. Listing.ids = reports BY DEF Listing
<1> QED BY <1>1

LEMMA SelectionNextInv == SelectionInv /\ [BulkNext]_bulkVars => SelectionInv'
<1> SUFFICES ASSUME SelectionInv, [BulkNext]_bulkVars PROVE SelectionInv' OBVIOUS
<1> USE DEF SelectionInv
<1>0. BulkInv' BY BulkNextInv
<1>a. BulkTypeOK BY DEF BulkInv
<1>w. Waiting.step = "none" /\ Waiting \notin Deletion BY DEF Waiting, Deletion
<1>1. CASE UNCHANGED bulkVars \/ Audited \/ DeleteOne \/ BeginWipe \/ CommitWipe \/ LogWipe
  <2>1. UNCHANGED reportVars
    BY <1>1 DEF bulkVars, Audited, DeleteOne, BeginWipe, CommitWipe, LogWipe
  <2> QED BY <1>0, <2>1 DEF reportVars, ListsFollow, WillHear
<1>2. ASSUME NEW c \in Report, AddReport(c) PROVE SelectionInv'
  <2>1. /\ UNCHANGED <<listed, selected, deletion>> /\ reports' = reports \cup {c}
        /\ news' = [o \in Office |-> news[o] \cup {"new"}]
    BY <1>2 DEF AddReport, Tell
  <2>2. news' \in [Office -> SUBSET {"new", "deleted"}] BY <2>1
  <2>3. ASSUME NEW o \in Office, WillHear(o) PROVE WillHear(o)'
    BY <2>1, <2>3 DEF WillHear
  <2> QED BY <1>0, <2>1, <2>2, <2>3 DEF ListsFollow
<1>3. ASSUME NEW c \in Report, DeleteReport(c) PROVE SelectionInv'
  <2>1. news' = [o \in Office |-> news[o] \cup {"deleted"}] BY <1>3 DEF DeleteReport, Tell
  <2> QED BY <1>0, <2>1 DEF ListsFollow, WillHear
<1>4. ASSUME NEW o \in Office, NEW what \in {"new", "deleted"}, Hear(o, what)
      PROVE  SelectionInv'
  <2>1. /\ UNCHANGED <<reports, deletion>>
        /\ news' = [news EXCEPT ![o] = @ \ {what}]
        /\ selected' = [selected EXCEPT ![o] = SelectionAfter(o, what)]
        /\ listed' = [listed EXCEPT ![o] = Listing]
    BY <1>4 DEF Hear
  <2>2. news' \in [Office -> SUBSET {"new", "deleted"}] BY <2>1
  <2>3. ASSUME NEW p \in Office \ {o}
        PROVE  \/ WillHear(p)'
               \/ listed'[p].ids \subseteq reports' /\ selected'[p] \subseteq listed'[p].ids
    <3>1. listed'[p] = listed[p] /\ selected'[p] = selected[p] /\ news'[p] = news[p]
      BY <2>1, <1>a DEF BulkTypeOK
    <3> QED BY <2>1, <3>1 DEF ListsFollow, WillHear
  <2>4. \/ WillHear(o)'
        \/ listed'[o].ids \subseteq reports' /\ selected'[o] \subseteq listed'[o].ids
    <3>1. listed'[o].ids = reports /\ reports' = reports
      BY <2>1, <1>a DEF BulkTypeOK, Listing
    <3>2. selected'[o] = SelectionAfter(o, what) /\ news'[o] = news[o] \ {what}
      BY <2>1, <1>a DEF BulkTypeOK
    <3>3. CASE what = "deleted" BY <3>1, <3>2, <3>3 DEF SelectionAfter
    <3>4. CASE what = "new"
      <4>1. selected'[o] = selected[o] /\ ("deleted" \in news[o] => "deleted" \in news'[o])
        BY <3>2, <3>4 DEF SelectionAfter
      <4>2. WillHear(o) => WillHear(o)' BY <2>1, <4>1 DEF WillHear
      <4> QED BY <3>1, <4>1, <4>2 DEF ListsFollow
    <3> QED BY <3>3, <3>4
  <2> QED BY <1>0, <2>2, <2>3, <2>4 DEF ListsFollow
<1>5. ASSUME NEW o \in Office, TickReport(o) PROVE SelectionInv'
  <2>1. UNCHANGED <<reports, listed, news, deletion>> BY <1>5 DEF TickReport
  <2>2. PICK ids \in SUBSET listed[o].ids : selected' = [selected EXCEPT ![o] = ids]
    BY <1>5 DEF TickReport
  <2>3. \A p \in Office : selected'[p] = selected[p] \/ selected'[p] \subseteq listed[p].ids
    BY <2>2, <1>a DEF BulkTypeOK
  <2>4. \A p \in Office : WillHear(p) => WillHear(p)' BY <2>1 DEF WillHear
  <2> QED BY <1>0, <2>1, <2>3, <2>4 DEF ListsFollow
<1>6. ASSUME NEW o \in Office, Confirm(o) \/ BeginDeletion(o) \/ CommitDeletion(o), UNCHANGED reports
      PROVE  SelectionInv'
  <2>1. /\ UNCHANGED <<selected, news>> /\ deletion[o].step # "log"
        /\ \A p \in Office \ {o} : deletion'[p] = deletion[p]
        /\ listed' = listed \/ listed' = [listed EXCEPT ![o] = Listing]
    <3>1. CASE Confirm(o) BY <3>1, <1>a, <1>w DEF Confirm, BulkTypeOK
    <3>2. CASE BeginDeletion(o) BY <3>2, <1>a DEF BeginDeletion, BulkTypeOK
    <3>3. CASE CommitDeletion(o) BY <3>3, <1>a DEF CommitDeletion, BulkTypeOK
    <3> QED BY <1>6, <3>1, <3>2, <3>3
  <2>2. ASSUME NEW p \in Office
        PROVE  \/ WillHear(p)'
               \/ listed'[p].ids \subseteq reports' /\ selected'[p] \subseteq listed'[p].ids
    <3>1. listed'[p] = listed[p] \/ listed'[p] = Listing BY <2>1, <1>a DEF BulkTypeOK
    <3>2. WillHear(p) => WillHear(p)' BY <2>1, StillWillHear
    <3>3. WillHear(p) \/ (listed[p].ids \subseteq reports /\ selected[p] \subseteq listed[p].ids)
      BY DEF ListsFollow
    <3>4. selected'[p] = selected[p] /\ reports \subseteq reports' BY <1>6, <2>1
    <3> QED BY <3>1, <3>2, <3>3, <3>4, PageFollows
  <2> QED BY <1>0, <2>1, <2>2 DEF ListsFollow
<1>7. ASSUME NEW o \in Office, CommitDeletion(o), reports' # reports PROVE SelectionInv'
  <2>1. deletion' = [deletion EXCEPT ![o].step = "log"] /\ deletion[o].step = "snapshot"
    BY <1>7 DEF CommitDeletion
  <2>2. deletion[o] \in Deletion BY <2>1, <1>a, <1>w DEF BulkTypeOK
  <2>3. deletion'[o].step = "log" BY <2>1, <2>2, <1>a DEF BulkTypeOK, Deletion
  <2>4. UNCHANGED news BY <1>7 DEF CommitDeletion
  <2> QED BY <1>0, <2>3, <2>4 DEF ListsFollow, WillHear
<1>8. ASSUME NEW o \in Office, LogDeletion(o) PROVE SelectionInv'
  <2>1. news' = [p \in Office |-> news[p] \cup {"deleted"}] BY <1>8 DEF LogDeletion, Tell
  <2> QED BY <1>0, <2>1 DEF ListsFollow, WillHear
<1>9. ASSUME NEW o \in Office, Confirm(o) \/ BeginDeletion(o) PROVE UNCHANGED reports
  BY <1>9 DEF Confirm, BeginDeletion
<1> QED
  BY <1>1, <1>2, <1>3, <1>4, <1>5, <1>6, <1>7, <1>8, <1>9 DEF BulkNext

\* A ticked report is on its page's list or news of a deletion is on its way,
\* for any reports and offices (CallReports.tsx, onNew and onDeleted).
THEOREM SelectionsAreListed == BulkSpec => []SelectionIsListed
<1>1. SelectionInv => SelectionIsListed
  BY DEF SelectionInv, ListsFollow, WillHear, SelectionIsListed
<1> QED BY <1>1, SelectionInitInv, SelectionNextInv, PTL DEF BulkSpec
===============================================================================
