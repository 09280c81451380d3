-------------------------- MODULE ConversationProofs --------------------------
(***************************************************************************)
(* Proofs about two windows that share a session (Conversation): what the     *)
(* author of a message is told is true and is not taken back, and quotations   *)
(* follow what they quote, whatever the order of frames and of the results of  *)
(* encrypting and decrypting them.  The second half is about a calm            *)
(* conversation: once all has been handled both windows show the same.        *)
(***************************************************************************)
EXTENDS Conversation, FiniteSetTheorems, TLAPS

NoteTypes == {"send", "message", "edit", "message_edit", "message_delete", "add",
              "remove", "message_read", "ack"}
Notes == [type : NoteTypes, id : Ids,
          arg : Versions \cup Ids \cup {NoMessage} \cup Emojis]

\* The notes that bring a message to a list that does not hold it: the author's
\* own, once it is encrypted, and the partner's.
IsNew(n) == n.type \in {"send", "message"}
NewIds(S) == {n.id : n \in {m \in S : IsNew(m)}}
SentIds(S) == {n.id : n \in {m \in S : m.type = "send"}}
TellsAuthor(n) == n.type \in {"ack", "message_read"}

NoteOK(n, last) ==
    /\ n \in Notes /\ n.id <= last
    /\ n.type \in {"edit", "message_edit"} => n.arg \in Versions

NewOnceIn(s) == \A i, j \in DOMAIN s :
    IsNew(s[i]) /\ IsNew(s[j]) /\ s[i].id = s[j].id => i = j
NewOnce(S) == \A n, m \in S : IsNew(n) /\ IsNew(m) /\ n.id = m.id => n = m

\* The quotation of message i says what the list says of the quoted message.
QuoteOK(l, i) == LET q == l[i].replyTo IN
    \/ q.id = NoMessage
    \/ /\ q.id \in DOMAIN l /\ q.id # i
       /\ q.text = l[q.id].text /\ q.isDeleted = l[q.id].isDeleted

ListOK(l) == \A i \in DOMAIN l : i \in Ids /\ l[i] \in Message /\ QuoteOK(l, i)

ListsOK ==
    /\ DOMAIN messages = Writers /\ shown \in [Writers -> SUBSET Ids]
    /\ written \in 0 .. MaxMessages
    /\ \A p \in Writers :
          /\ ListOK(messages[p])
          /\ DOMAIN messages[p] \subseteq shown[p] /\ shown[p] \subseteq 1 .. written

NotesOK ==
    /\ DOMAIN inbox = Writers /\ DOMAIN crypting = Writers
    /\ \A p \in Writers :
          /\ inbox[p] \in Seq(Notes)
          /\ \A n \in ToSet(inbox[p]) \cup crypting[p] : NoteOK(n, written)

\* A message comes to a list once, the author's before it is sent.
NewComesOnce == \A p \in Writers :
    /\ NewOnceIn(inbox[p]) /\ NewOnce(crypting[p])
    /\ NewIds(ToSet(inbox[p])) \cap NewIds(crypting[p]) = {}
    /\ NewIds(ToSet(inbox[p])) \cap DOMAIN messages[p] = {}
    /\ NewIds(crypting[p]) \cap DOMAIN messages[p] = {}
    /\ SentIds(crypting[p]) \cap NewIds(ToSet(inbox[Partner(p)])) = {}
    /\ SentIds(crypting[p]) \cap NewIds(crypting[Partner(p)]) = {}
    /\ SentIds(crypting[p]) \cap DOMAIN messages[Partner(p)] = {}

ToldTruly == \A p \in Writers :
    /\ \A n \in ToSet(inbox[p]) : TellsAuthor(n) => n.id \in shown[Partner(p)]
    /\ \A i \in DOMAIN messages[p] :
          messages[p][i].deliveryStatus \in {"delivered", "read"}
             => i \in shown[Partner(p)]

OtherVars ==
    /\ calm \in BOOLEAN /\ ops \in 0 .. MaxOps
    /\ withdrawn \subseteq 1 .. written

ConversationInv == ListsOK /\ NotesOK /\ NewComesOnce /\ ToldTruly /\ OtherVars

-----------------------------------------------------------------------------
(* What the updaters keep of a list.                                       *)

SameStatuses(l, k) ==
    /\ DOMAIN k = DOMAIN l
    /\ \A i \in DOMAIN l : k[i].deliveryStatus = l[i].deliveryStatus

NotTakenBack(l, k) == \A i \in DOMAIN l \cap DOMAIN k :
    StatusRank(l[i].deliveryStatus) <= StatusRank(k[i].deliveryStatus)

LEMMA VersionsAreNumbers == 0 \in Versions /\ 1 \in Versions /\ NoText \in Versions
BY ConversationAssumption DEF Versions, NoText

LEMMA RanksAreNumbers == \A s : StatusRank(s) \in 0 .. 2
BY DEF StatusRank

LEMMA SameIsNotTakenBack ==
    ASSUME NEW l, NEW k, SameStatuses(l, k)
    PROVE  NotTakenBack(l, k)
<1>1. \A n \in 0 .. 2 : n <= n
  OBVIOUS
<1>2. QED
  BY <1>1, RanksAreNumbers DEF NotTakenBack, SameStatuses

LEMMA SameTexts ==
    ASSUME NEW l, ListOK(l), NEW k, DOMAIN k = DOMAIN l,
           \A i \in DOMAIN l : /\ k[i] \in Message /\ k[i].text = l[i].text
                               /\ k[i].isDeleted = l[i].isDeleted
                               /\ k[i].replyTo = l[i].replyTo
    PROVE  ListOK(k)
BY DEF ListOK, QuoteOK

LEMMA EditedList ==
    ASSUME NEW l, ListOK(l), NEW id \in Ids, NEW text \in Versions
    PROVE  ListOK(WithEdit(l, id, text)) /\ SameStatuses(l, WithEdit(l, id, text))
<1> DEFINE k == WithEdit(l, id, text)
<1>1. /\ DOMAIN k = DOMAIN l
      /\ \A i \in DOMAIN l : k[i] =
            IF i = id THEN [l[i] EXCEPT !.text = text]
            ELSE IF l[i].replyTo.id = id THEN [l[i] EXCEPT !.replyTo.text = text]
            ELSE l[i]
  BY DEF WithEdit
<1>2. id # NoMessage
  BY DEF Ids, NoMessage
<1>3. \A i \in DOMAIN l : i \in Ids /\ l[i] \in Message /\ QuoteOK(l, i)
  BY DEF ListOK
<1> HIDE DEF k
<1>4. ASSUME NEW i \in DOMAIN l
      PROVE  /\ k[i] \in Message /\ k[i].deliveryStatus = l[i].deliveryStatus
             /\ k[i].text = (IF i = id THEN text ELSE l[i].text)
             /\ k[i].isDeleted = l[i].isDeleted
             /\ k[i].replyTo.id = l[i].replyTo.id
             /\ k[i].replyTo.isDeleted = l[i].replyTo.isDeleted
             /\ i # id => k[i].replyTo.text =
                   IF l[i].replyTo.id = id THEN text ELSE l[i].replyTo.text
             /\ i = id => k[i].replyTo.text = l[i].replyTo.text
  <2>1. CASE i = id
    BY <1>1, <1>3, <2>1 DEF Message
  <2>2. CASE i # id /\ l[i].replyTo.id = id
    <3> DEFINE q == [l[i].replyTo EXCEPT !.text = text]
    <3>1. l[i].replyTo \in Preview
      BY <1>3 DEF Message
    <3>2. q \in Preview /\ q.text = text /\ q.id = l[i].replyTo.id
          /\ q.isDeleted = l[i].replyTo.isDeleted
      BY <3>1 DEF Preview
    <3>3. k[i] = [l[i] EXCEPT !.replyTo = q]
      BY <1>1, <2>2
    <3> HIDE DEF q
    <3>4. QED
      BY <1>3, <2>2, <3>2, <3>3 DEF Message
  <2>3. CASE i # id /\ l[i].replyTo.id # id
    BY <1>1, <1>3, <2>3
  <2>4. QED
    BY <2>1, <2>2, <2>3
<1>5. ASSUME NEW i \in DOMAIN l
      PROVE  QuoteOK(k, i)
  <2>1. CASE l[i].replyTo.id = NoMessage
    BY <1>4, <2>1 DEF QuoteOK
  <2>2. CASE l[i].replyTo.id # NoMessage
    <3> DEFINE q == l[i].replyTo
    <3>1. q.id \in DOMAIN l /\ q.id # i /\ q.text = l[q.id].text
          /\ q.isDeleted = l[q.id].isDeleted
      BY <1>3, <2>2 DEF QuoteOK
    <3>2. k[i].replyTo.text = IF q.id = id THEN text ELSE q.text
      BY <1>4, <3>1
    <3>3. QED
      BY <1>1, <1>4, <3>1, <3>2 DEF QuoteOK
  <2>3. QED
    BY <2>1, <2>2
<1>6. QED
  BY <1>1, <1>3, <1>4, <1>5 DEF ListOK, SameStatuses, k

LEMMA DeletedList ==
    ASSUME NEW l, ListOK(l), NEW id \in Ids
    PROVE  ListOK(WithDelete(l, id)) /\ SameStatuses(l, WithDelete(l, id))
<1> DEFINE k == WithDelete(l, id)
<1>1. /\ DOMAIN k = DOMAIN l
      /\ \A i \in DOMAIN l : k[i] =
            IF i = id THEN [l[i] EXCEPT !.isDeleted = TRUE, !.text = NoText]
            ELSE IF l[i].replyTo.id = id
            THEN [l[i] EXCEPT !.replyTo.isDeleted = TRUE, !.replyTo.text = NoText]
            ELSE l[i]
  BY DEF WithDelete
<1>2. id # NoMessage
  BY DEF Ids, NoMessage
<1>3. \A i \in DOMAIN l : i \in Ids /\ l[i] \in Message /\ QuoteOK(l, i)
  BY DEF ListOK
<1> HIDE DEF k
<1>4. ASSUME NEW i \in DOMAIN l
      PROVE  /\ k[i] \in Message /\ k[i].deliveryStatus = l[i].deliveryStatus
             /\ k[i].text = (IF i = id THEN NoText ELSE l[i].text)
             /\ k[i].isDeleted = (IF i = id THEN TRUE ELSE l[i].isDeleted)
             /\ k[i].replyTo.id = l[i].replyTo.id
             /\ i # id =>
                   /\ k[i].replyTo.text =
                         IF l[i].replyTo.id = id THEN NoText ELSE l[i].replyTo.text
                   /\ k[i].replyTo.isDeleted =
                         IF l[i].replyTo.id = id THEN TRUE ELSE l[i].replyTo.isDeleted
             /\ i = id => k[i].replyTo = l[i].replyTo
  <2>1. CASE i = id
    BY <1>1, <1>3, <2>1, VersionsAreNumbers DEF Message
  <2>2. CASE i # id /\ l[i].replyTo.id = id
    <3> DEFINE q == [l[i].replyTo EXCEPT !.isDeleted = TRUE, !.text = NoText]
    <3>1. l[i].replyTo \in Preview
      BY <1>3 DEF Message
    <3>2. q \in Preview /\ q.text = NoText /\ q.id = l[i].replyTo.id
          /\ q.isDeleted = TRUE
      BY <3>1, VersionsAreNumbers DEF Preview
    <3>3. k[i] = [l[i] EXCEPT !.replyTo = q]
      BY <1>1, <1>3, <2>2 DEF Message
    <3> HIDE DEF q
    <3>4. QED
      BY <1>3, <2>2, <3>2, <3>3 DEF Message
  <2>3. CASE i # id /\ l[i].replyTo.id # id
    BY <1>1, <1>3, <2>3
  <2>4. QED
    BY <2>1, <2>2, <2>3
<1>5. ASSUME NEW i \in DOMAIN l
      PROVE  QuoteOK(k, i)
  <2>1. CASE l[i].replyTo.id = NoMessage
    BY <1>4, <2>1 DEF QuoteOK
  <2>2. CASE l[i].replyTo.id # NoMessage
    <3> DEFINE q == l[i].replyTo
    <3>1. q.id \in DOMAIN l /\ q.id # i /\ q.text = l[q.id].text
          /\ q.isDeleted = l[q.id].isDeleted
      BY <1>3, <2>2 DEF QuoteOK
    <3>2. /\ k[i].replyTo.text = IF q.id = id THEN NoText ELSE q.text
          /\ k[i].replyTo.isDeleted = IF q.id = id THEN TRUE ELSE q.isDeleted
      BY <1>4, <3>1
    <3>3. k[i].replyTo.id = q.id /\ k[i].replyTo.id \in DOMAIN k /\ k[i].replyTo.id # i
      BY <1>1, <1>4, <3>1
    <3>4. k[i].replyTo.text = k[q.id].text
      BY <1>4, <3>1, <3>2
    <3>5. k[i].replyTo.isDeleted = k[q.id].isDeleted
      <4>1. k[q.id].isDeleted = IF q.id = id THEN TRUE ELSE l[q.id].isDeleted
        BY <1>4, <3>1
      <4>2. CASE q.id = id
        BY <3>2, <4>1, <4>2
      <4>3. CASE q.id # id
        BY <3>1, <3>2, <4>1, <4>3
      <4>4. QED
        BY <4>2, <4>3
    <3>6. QED
      BY <3>3, <3>4, <3>5 DEF QuoteOK
  <2>3. QED
    BY <2>1, <2>2
<1>6. QED
  BY <1>1, <1>3, <1>4, <1>5 DEF ListOK, SameStatuses, k

LEMMA ReactedList ==
    ASSUME NEW l, ListOK(l), NEW id \in DOMAIN l, NEW r \in [Emojis -> SUBSET Writers],
           NEW k, k = [l EXCEPT ![id].reactions = r]
    PROVE  ListOK(k) /\ SameStatuses(l, k)
<1>1. DOMAIN k = DOMAIN l
      /\ \A i \in DOMAIN l : k[i] = IF i = id THEN [l[i] EXCEPT !.reactions = r] ELSE l[i]
  OBVIOUS
<1>2. \A i \in DOMAIN l : l[i] \in Message
  BY DEF ListOK
<1>3. \A i \in DOMAIN l :
          /\ k[i] \in Message /\ k[i].deliveryStatus = l[i].deliveryStatus
          /\ k[i].text = l[i].text /\ k[i].isDeleted = l[i].isDeleted
          /\ k[i].replyTo = l[i].replyTo
  BY <1>1, <1>2 DEF Message
<1>4. QED
  BY <1>1, <1>3, SameTexts DEF SameStatuses

LEMMA ToggledList ==
    ASSUME NEW l, ListOK(l), NEW id, NEW emoji, NEW who \in Writers, NEW add \in BOOLEAN
    PROVE  /\ ListOK(WithReaction(l, id, emoji, who, add))
           /\ SameStatuses(l, WithReaction(l, id, emoji, who, add))
<1>1. CASE id \notin DOMAIN l
  BY <1>1 DEF WithReaction, SameStatuses
<1>2. CASE id \in DOMAIN l
  <2> DEFINE old == l[id].reactions
             r == [old EXCEPT ![emoji] = IF add THEN @ \cup {who} ELSE @ \ {who}]
  <2>1. old \in [Emojis -> SUBSET Writers]
    BY <1>2 DEF ListOK, Message
  <2>2. r \in [Emojis -> SUBSET Writers]
    BY <2>1
  <2>3. WithReaction(l, id, emoji, who, add) = [l EXCEPT ![id].reactions = r]
    BY <1>2 DEF WithReaction
  <2> HIDE DEF r
  <2>4. QED
    BY <1>2, <2>2, <2>3, ReactedList
<1>3. QED
  BY <1>1, <1>2

\* A status that is set does not touch what quotations say.
LEMMA AckedList ==
    ASSUME NEW l, ListOK(l), NEW id
    PROVE  LET k == WithAck(l, id) IN
           /\ ListOK(k) /\ DOMAIN k = DOMAIN l /\ NotTakenBack(l, k)
           /\ \A i \in DOMAIN l :
                 i # id => k[i].deliveryStatus = l[i].deliveryStatus
<1>1. CASE id \in DOMAIN l /\ l[id].isOwn /\ l[id].deliveryStatus = "sending"
  <2>1. PICK k : k = [l EXCEPT ![id].deliveryStatus = "delivered"]
    OBVIOUS
  <2>2. k = WithAck(l, id) /\ "delivered" \in Statuses
    BY <1>1, <2>1 DEF WithAck, Statuses
  <2>3. /\ ListOK(k) /\ DOMAIN k = DOMAIN l /\ k[id].deliveryStatus = "delivered"
        /\ \A i \in DOMAIN l :
              i # id => k[i].deliveryStatus = l[i].deliveryStatus
    <3>1. DOMAIN k = DOMAIN l
          /\ \A i \in DOMAIN l :
                k[i] = IF i = id THEN [l[i] EXCEPT !.deliveryStatus = "delivered"] ELSE l[i]
      BY <2>1
    <3>2. \A i \in DOMAIN l : l[i] \in Message
      BY DEF ListOK
    <3>3. \A i \in DOMAIN l :
              /\ k[i] \in Message
              /\ k[i].deliveryStatus = IF i = id THEN "delivered" ELSE l[i].deliveryStatus
              /\ k[i].text = l[i].text /\ k[i].isDeleted = l[i].isDeleted
              /\ k[i].replyTo = l[i].replyTo
      BY <2>2, <3>1, <3>2 DEF Message
    <3>4. QED
      BY <1>1, <3>1, <3>3, SameTexts
  <2>4. StatusRank("sending") <= StatusRank("delivered")
    BY DEF StatusRank
  <2>5. \A n \in 0 .. 2 : n <= n
    OBVIOUS
  <2>6. NotTakenBack(l, k)
    BY <1>1, <2>3, <2>4, <2>5, RanksAreNumbers DEF NotTakenBack
  <2>7. QED
    BY <2>2, <2>3, <2>6
<1>2. CASE ~(id \in DOMAIN l /\ l[id].isOwn /\ l[id].deliveryStatus = "sending")
  <2>1. WithAck(l, id) = l
    BY <1>2 DEF WithAck
  <2>2. NotTakenBack(l, l)
    BY SameIsNotTakenBack DEF SameStatuses
  <2>3. QED
    BY <2>1, <2>2
<1>3. QED
  BY <1>1, <1>2

LEMMA ReadList ==
    ASSUME NEW l, ListOK(l), NEW id
    PROVE  LET k == WithRead(l, id) IN
           /\ ListOK(k) /\ DOMAIN k = DOMAIN l /\ NotTakenBack(l, k)
           /\ \A i \in DOMAIN l :
                 i # id => k[i].deliveryStatus = l[i].deliveryStatus
<1>1. CASE id \in DOMAIN l /\ l[id].isOwn
  <2>1. PICK k : k = [l EXCEPT ![id].deliveryStatus = "read"]
    OBVIOUS
  <2>2. k = WithRead(l, id) /\ "read" \in Statuses
    BY <1>1, <2>1 DEF WithRead, Statuses
  <2>3. /\ ListOK(k) /\ DOMAIN k = DOMAIN l /\ k[id].deliveryStatus = "read"
        /\ \A i \in DOMAIN l :
              i # id => k[i].deliveryStatus = l[i].deliveryStatus
    <3>1. DOMAIN k = DOMAIN l
          /\ \A i \in DOMAIN l :
                k[i] = IF i = id THEN [l[i] EXCEPT !.deliveryStatus = "read"] ELSE l[i]
      BY <2>1
    <3>2. \A i \in DOMAIN l : l[i] \in Message
      BY DEF ListOK
    <3>3. \A i \in DOMAIN l :
              /\ k[i] \in Message
              /\ k[i].deliveryStatus = IF i = id THEN "read" ELSE l[i].deliveryStatus
              /\ k[i].text = l[i].text /\ k[i].isDeleted = l[i].isDeleted
              /\ k[i].replyTo = l[i].replyTo
      BY <2>2, <3>1, <3>2 DEF Message
    <3>4. QED
      BY <1>1, <3>1, <3>3, SameTexts
  <2>4. \A s : StatusRank(s) <= StatusRank("read")
    BY DEF StatusRank
  <2>5. \A n \in 0 .. 2 : n <= n
    OBVIOUS
  <2>6. NotTakenBack(l, k)
    BY <2>3, <2>4, <2>5, RanksAreNumbers DEF NotTakenBack
  <2>7. QED
    BY <2>2, <2>3, <2>6
<1>2. CASE ~(id \in DOMAIN l /\ l[id].isOwn)
  <2>1. WithRead(l, id) = l
    BY <1>2 DEF WithRead
  <2>2. NotTakenBack(l, l)
    BY SameIsNotTakenBack DEF SameStatuses
  <2>3. QED
    BY <2>1, <2>2
<1>3. QED
  BY <1>1, <1>2

\* A message that comes to a list quotes what the list says now; no older message
\* of the list quotes it.
LEMMA LongerList ==
    ASSUME NEW l, ListOK(l), NEW id \in Ids, id \notin DOMAIN l, NEW own \in BOOLEAN,
           NEW replyTo, NEW k, k = WithMessage(l, id, NewMessage(l, 1, own, replyTo))
    PROVE  /\ ListOK(k) /\ DOMAIN k = DOMAIN l \cup {id} /\ NotTakenBack(l, k)
           /\ k[id].deliveryStatus \in {"none", "sending"}
           /\ \A i \in DOMAIN l : k[i] = l[i]
<1> DEFINE m == NewMessage(l, 1, own, replyTo)
           q == PreviewOf(l, replyTo)
<1>1. \A i \in DOMAIN l : i \in Ids /\ l[i] \in Message /\ QuoteOK(l, i)
  BY DEF ListOK
<1>2. /\ q \in Preview
      /\ q.id # NoMessage => /\ q.id \in DOMAIN l /\ q.text = l[q.id].text
                             /\ q.isDeleted = l[q.id].isDeleted
  <2>1. CASE replyTo \in DOMAIN l
    <3>1. q = [id |-> replyTo, text |-> l[replyTo].text, isDeleted |-> l[replyTo].isDeleted]
      BY <2>1 DEF PreviewOf
    <3>2. l[replyTo].text \in Versions /\ l[replyTo].isDeleted \in BOOLEAN
          /\ replyTo \in Ids
      BY <1>1, <2>1 DEF Message
    <3>3. QED
      BY <2>1, <3>1, <3>2 DEF Preview
  <2>2. CASE replyTo \notin DOMAIN l
    BY <2>2, VersionsAreNumbers DEF PreviewOf, NoPreview, Preview
  <2>3. QED
    BY <2>1, <2>2
<1> HIDE DEF q
<1>3. /\ m \in Message /\ m.replyTo = q /\ m.deliveryStatus \in {"none", "sending"}
  BY <1>2, VersionsAreNumbers DEF NewMessage, Message, Statuses, q
<1> HIDE DEF m
<1>4. /\ DOMAIN k = DOMAIN l \cup {id} /\ k[id] = m
      /\ \A i \in DOMAIN l : k[i] = l[i]
  BY DEF WithMessage, m
<1>5. \A i \in DOMAIN k : i \in Ids /\ k[i] \in Message
  BY <1>1, <1>3, <1>4
<1>6. QuoteOK(k, id)
  BY <1>2, <1>3, <1>4 DEF QuoteOK
<1>7. \A i \in DOMAIN l : QuoteOK(k, i)
  BY <1>1, <1>4 DEF QuoteOK
<1>8. ListOK(k)
  BY <1>4, <1>5, <1>6, <1>7 DEF ListOK
<1>9. NotTakenBack(l, k)
  <2>1. \A n \in 0 .. 2 : n <= n
    OBVIOUS
  <2>2. QED
    BY <1>4, <2>1, RanksAreNumbers DEF NotTakenBack
<1>10. QED
  BY <1>3, <1>4, <1>8, <1>9 DEF m

-----------------------------------------------------------------------------
(* The two windows, and what sending and taking do to an inbox.            *)

LEMMA TwoWriters == \A p \in Writers :
    /\ Partner(p) \in Writers /\ Partner(p) # p /\ Partner(Partner(p)) = p
    /\ \A q \in Writers : q = p \/ q = Partner(p)
<1>1. \A p \in Writers : Partner(p) \in Writers /\ Partner(p) # p
  <2> SUFFICES ASSUME NEW p \in Writers
               PROVE  Partner(p) \in Writers /\ Partner(p) # p
    OBVIOUS
  <2>1. IsFiniteSet(Writers \ {p}) /\ Cardinality(Writers \ {p}) = 1
    BY ConversationAssumption, FS_RemoveElement
  <2>2. Writers \ {p} # {}
    BY <2>1, FS_EmptySet
  <2>3. \E q \in Writers : q # p
    BY <2>2
  <2>4. QED
    BY <2>3 DEF Partner
<1>2. \A p, q \in Writers : q = p \/ q = Partner(p)
  <2> SUFFICES ASSUME NEW p \in Writers, NEW q \in Writers, q # p, q # Partner(p)
               PROVE  FALSE
    OBVIOUS
  <2>1. IsFiniteSet(Writers \ {p}) /\ Cardinality(Writers \ {p}) = 1
    BY ConversationAssumption, FS_RemoveElement
  <2>2. PICK x : Writers \ {p} = {x}
    BY <2>1, FS_Singleton
  <2>3. QED
    BY <1>1, <2>2
<1>3. QED
  BY <1>1, <1>2

LEMMA LongerInbox ==
    ASSUME NEW s \in Seq(Notes), NEW notes \in Seq(Notes)
    PROVE  /\ s \o notes \in Seq(Notes)
           /\ ToSet(s \o notes) = ToSet(s) \cup ToSet(notes)
<1> DEFINE N == Notes
           k == s \o notes
<1>1. s \in Seq(N) /\ notes \in Seq(N)
  OBVIOUS
<1> HIDE DEF N
<1>2. /\ k \in Seq(N) /\ Len(k) = Len(s) + Len(notes)
      /\ \A i \in 1 .. Len(s) : k[i] = s[i]
      /\ \A i \in 1 .. Len(notes) : k[Len(s) + i] = notes[i]
      /\ \A i \in 1 .. Len(s) + Len(notes) :
            i \notin 1 .. Len(s) => k[i] = notes[i - Len(s)]
      /\ Len(s) \in Nat /\ Len(notes) \in Nat
      /\ DOMAIN s = 1 .. Len(s) /\ DOMAIN notes = 1 .. Len(notes)
      /\ DOMAIN k = 1 .. Len(s) + Len(notes)
  BY <1>1
<1> HIDE DEF k
<1>3. ToSet(k) \subseteq ToSet(s) \cup ToSet(notes)
  <2> SUFFICES ASSUME NEW i \in 1 .. Len(s) + Len(notes)
               PROVE  k[i] \in ToSet(s) \cup ToSet(notes)
    BY <1>2 DEF ToSet
  <2>1. CASE i \in 1 .. Len(s)
    <3>1. k[i] = s[i] /\ i \in DOMAIN s
      BY <1>2, <2>1
    <3>2. QED
      BY <3>1 DEF ToSet
  <2>2. CASE i \notin 1 .. Len(s)
    <3>1. i - Len(s) \in 1 .. Len(notes)
      BY <1>2, <2>2
    <3>2. QED
      BY <1>2, <2>2, <3>1 DEF ToSet
  <2>3. QED
    BY <2>1, <2>2
<1>4. ToSet(s) \subseteq ToSet(k)
  <2>1. \A i \in 1 .. Len(s) : i \in 1 .. Len(s) + Len(notes)
    BY <1>2
  <2>2. QED
    BY <1>2, <2>1 DEF ToSet
<1>5. ToSet(notes) \subseteq ToSet(k)
  <2>1. \A i \in 1 .. Len(notes) : Len(s) + i \in 1 .. Len(s) + Len(notes)
    BY <1>2
  <2>2. QED
    BY <1>2, <2>1 DEF ToSet
<1>6. QED
  BY <1>2, <1>3, <1>4, <1>5 DEF N, k

\* The new messages of a longer inbox come once when those of the rest are others.
LEMMA LongerComesOnce ==
    ASSUME NEW s \in Seq(Notes), NewOnceIn(s), NEW notes \in Seq(Notes),
           NewOnceIn(notes), NewIds(ToSet(s)) \cap NewIds(ToSet(notes)) = {}
    PROVE  NewOnceIn(s \o notes)
<1> DEFINE N == Notes
           k == s \o notes
<1>1. s \in Seq(N) /\ notes \in Seq(N)
  OBVIOUS
<1> HIDE DEF N
<1>2. /\ Len(s) \in Nat /\ Len(notes) \in Nat
      /\ DOMAIN s = 1 .. Len(s) /\ DOMAIN notes = 1 .. Len(notes)
      /\ DOMAIN k = 1 .. Len(s) + Len(notes)
      /\ \A i \in 1 .. Len(s) : k[i] = s[i]
      /\ \A i \in 1 .. Len(s) + Len(notes) :
            i \notin 1 .. Len(s) => k[i] = notes[i - Len(s)]
  BY <1>1
<1> HIDE DEF k
<1>3. \A i \in 1 .. Len(s) + Len(notes) :
          i \notin 1 .. Len(s) => i - Len(s) \in 1 .. Len(notes)
  BY <1>2
<1>4. \A i, j \in 1 .. Len(s) + Len(notes) : i - Len(s) = j - Len(s) => i = j
  BY <1>2
<1>5. \A i \in 1 .. Len(s) : IsNew(s[i]) => s[i].id \in NewIds(ToSet(s))
  BY <1>2 DEF NewIds, ToSet
<1>6. \A i \in 1 .. Len(notes) : IsNew(notes[i]) => notes[i].id \in NewIds(ToSet(notes))
  BY <1>2 DEF NewIds, ToSet
<1>7. ASSUME NEW i \in DOMAIN k, NEW j \in DOMAIN k,
             IsNew(k[i]), IsNew(k[j]), k[i].id = k[j].id
      PROVE  i = j
  <2>1. CASE i \in 1 .. Len(s) /\ j \in 1 .. Len(s)
    BY <1>2, <1>7, <2>1 DEF NewOnceIn
  <2>2. CASE i \in 1 .. Len(s) /\ j \notin 1 .. Len(s)
    BY <1>2, <1>3, <1>5, <1>6, <1>7, <2>2
  <2>3. CASE i \notin 1 .. Len(s) /\ j \in 1 .. Len(s)
    BY <1>2, <1>3, <1>5, <1>6, <1>7, <2>3
  <2>4. CASE i \notin 1 .. Len(s) /\ j \notin 1 .. Len(s)
    <3> DEFINE a == i - Len(s)
               b == j - Len(s)
    <3>1. /\ a \in DOMAIN notes /\ b \in DOMAIN notes
          /\ k[i] = notes[a] /\ k[j] = notes[b]
      BY <1>2, <1>3, <1>7, <2>4
    <3> HIDE DEF a, b
    <3>2. a = b
      BY <1>7, <3>1 DEF NewOnceIn
    <3>3. QED
      BY <1>2, <1>4, <1>7, <3>2 DEF a, b
  <2>5. QED
    BY <2>1, <2>2, <2>3, <2>4
<1>8. QED
  BY <1>7 DEF NewOnceIn, k

\* Taking a note leaves the others, and no second of a new message.
LEMMA ShorterInbox ==
    ASSUME NEW s \in Seq(Notes), NewOnceIn(s), NEW i \in DOMAIN s
    PROVE  LET k == RemoveAt(s, i) IN
           /\ k \in Seq(Notes) /\ ToSet(k) \subseteq ToSet(s) /\ NewOnceIn(k)
           /\ IsNew(s[i]) => s[i].id \notin NewIds(ToSet(k))
<1> DEFINE N == Notes
           k == RemoveAt(s, i)
           At(j) == IF j < i THEN j ELSE j + 1
<1>1. s \in Seq(N)
  OBVIOUS
<1> HIDE DEF N
<1>2. /\ Len(s) \in Nat /\ DOMAIN s = 1 .. Len(s) /\ i \in 1 .. Len(s)
      /\ k \in Seq(N) /\ DOMAIN k = 1 .. Len(s) - 1
      /\ \A j \in 1 .. Len(s) - 1 : k[j] = IF j < i THEN s[j] ELSE s[j + 1]
  <2>1. /\ SubSeq(s, 1, i - 1) \in Seq(N) /\ Len(SubSeq(s, 1, i - 1)) = i - 1
        /\ \A j \in 1 .. i - 1 : SubSeq(s, 1, i - 1)[j] = s[j]
    BY <1>1
  <2>2. /\ SubSeq(s, i + 1, Len(s)) \in Seq(N)
        /\ Len(SubSeq(s, i + 1, Len(s))) = Len(s) - i
        /\ \A j \in 1 .. Len(s) - i : SubSeq(s, i + 1, Len(s))[j] = s[i + j]
    BY <1>1
  <2> DEFINE a == SubSeq(s, 1, i - 1)
             b == SubSeq(s, i + 1, Len(s))
  <2>3. k = a \o b
    BY DEF RemoveAt
  <2>4. Len(s) \in Nat /\ DOMAIN s = 1 .. Len(s) /\ i \in 1 .. Len(s)
    BY <1>1
  <2> HIDE DEF a, b, k
  <2>5. a \in Seq(N) /\ Len(a) = i - 1 /\ (\A j \in 1 .. i - 1 : a[j] = s[j])
    BY <2>1 DEF a
  <2>6. b \in Seq(N) /\ Len(b) = Len(s) - i /\ (\A j \in 1 .. Len(s) - i : b[j] = s[i + j])
    BY <2>2 DEF b
  <2>7. k \in Seq(N) /\ Len(k) = Len(s) - 1 /\ DOMAIN k = 1 .. Len(s) - 1
    <3>1. k \in Seq(N) /\ Len(k) = Len(a) + Len(b)
      BY <2>3, <2>5, <2>6
    <3>2. Len(k) = Len(s) - 1
      BY <2>4, <2>5, <2>6, <3>1
    <3>3. QED
      BY <3>1, <3>2
  <2>8. \A j \in 1 .. i - 1 : k[j] = s[j]
    BY <2>3, <2>4, <2>5, <2>6
  <2>9. \A j \in 1 .. Len(s) - 1 : ~(j < i) => k[j] = s[j + 1]
    <3> SUFFICES ASSUME NEW j \in 1 .. Len(s) - 1, ~(j < i)
                 PROVE  k[j] = s[j + 1]
      OBVIOUS
    <3>1. j - Len(a) \in 1 .. Len(b) /\ i + (j - Len(a)) = j + 1
      BY <2>4, <2>5, <2>6
    <3>2. k[j] = b[j - Len(a)]
      BY <2>3, <2>4, <2>5, <2>6
    <3>3. QED
      BY <2>6, <3>1, <3>2
  <2>10. QED
    BY <2>4, <2>7, <2>8, <2>9
<1> HIDE DEF k
<1>3. \A j \in DOMAIN k : At(j) \in DOMAIN s /\ At(j) # i
  BY <1>2
<1>4. \A j \in DOMAIN k : k[j] = s[At(j)]
  BY <1>2
<1>5. \A j, h \in DOMAIN k : At(j) = At(h) => j = h
  BY <1>2
<1> HIDE DEF At
<1>6. ToSet(k) \subseteq ToSet(s)
  BY <1>3, <1>4 DEF ToSet
<1>7. NewOnceIn(k)
  BY <1>3, <1>4, <1>5 DEF NewOnceIn
<1>8. IsNew(s[i]) => s[i].id \notin NewIds(ToSet(k))
  BY <1>3, <1>4 DEF NewIds, ToSet, NewOnceIn
<1>9. QED
  BY <1>2, <1>6, <1>7, <1>8 DEF k, N

-----------------------------------------------------------------------------
(* Steps that bring no new message keep the invariant when what they add is   *)
(* sound, list by list and note by note.                                      *)

PlainNote(n, p) ==
    ~IsNew(n) /\ NoteOK(n, written) /\ (TellsAuthor(n) => n.id \in shown[Partner(p)])

TruthfulList(p, l) == \A i \in DOMAIN l :
    l[i].deliveryStatus \in {"delivered", "read"} => i \in shown[Partner(p)]

PlainInbox ==
    /\ DOMAIN inbox' = Writers
    /\ \A p \in Writers :
          /\ inbox'[p] \in Seq(Notes) /\ NewOnceIn(inbox'[p])
          /\ \A n \in ToSet(inbox'[p]) : n \in ToSet(inbox[p]) \/ PlainNote(n, p)

PlainCrypting ==
    /\ DOMAIN crypting' = Writers
    /\ \A p \in Writers : \A n \in crypting'[p] :
          n \in crypting[p] \/ (~IsNew(n) /\ NoteOK(n, written))

PlainLists ==
    /\ DOMAIN messages' = Writers /\ shown' = shown
    /\ \A p \in Writers :
          /\ ListOK(messages'[p]) /\ TruthfulList(p, messages'[p])
          /\ DOMAIN messages'[p] \subseteq DOMAIN messages[p]

LEMMA PlainStep ==
    ASSUME ConversationInv, PlainInbox, PlainCrypting, PlainLists, written' = written
    PROVE  (ListsOK /\ NotesOK /\ NewComesOnce /\ ToldTruly)'
<1>1. ListsOK /\ NotesOK /\ NewComesOnce /\ ToldTruly
  BY DEF ConversationInv
<1>2. \A p \in Writers : Partner(p) \in Writers
  BY TwoWriters
<1>3. ListsOK'
  BY <1>1 DEF ListsOK, PlainLists
<1>4. NotesOK'
  BY <1>1 DEF NotesOK, PlainInbox, PlainCrypting, PlainNote
<1>5. ToldTruly'
  BY <1>1, <1>2 DEF ToldTruly, PlainLists, PlainInbox, PlainNote, TruthfulList
<1>6. \A p \in Writers :
          /\ NewIds(ToSet(inbox'[p])) \subseteq NewIds(ToSet(inbox[p]))
          /\ NewIds(crypting'[p]) \subseteq NewIds(crypting[p])
          /\ SentIds(crypting'[p]) \subseteq SentIds(crypting[p])
          /\ NewOnce(crypting'[p])
  <2> SUFFICES ASSUME NEW p \in Writers
               PROVE  /\ NewIds(ToSet(inbox'[p])) \subseteq NewIds(ToSet(inbox[p]))
                      /\ NewIds(crypting'[p]) \subseteq NewIds(crypting[p])
                      /\ SentIds(crypting'[p]) \subseteq SentIds(crypting[p])
                      /\ NewOnce(crypting'[p])
    OBVIOUS
  <2>1. \A n \in ToSet(inbox'[p]) : IsNew(n) => n \in ToSet(inbox[p])
    BY DEF PlainInbox, PlainNote
  <2>2. \A n \in crypting'[p] : IsNew(n) => n \in crypting[p]
    BY DEF PlainCrypting
  <2>3. NewOnce(crypting[p])
    BY <1>1 DEF NewComesOnce
  <2>4. NewIds(ToSet(inbox'[p])) \subseteq NewIds(ToSet(inbox[p]))
    BY <2>1 DEF NewIds
  <2>5. NewIds(crypting'[p]) \subseteq NewIds(crypting[p])
    BY <2>2 DEF NewIds
  <2>6. SentIds(crypting'[p]) \subseteq SentIds(crypting[p])
    BY <2>2 DEF SentIds, IsNew
  <2>7. NewOnce(crypting'[p])
    BY <2>2, <2>3 DEF NewOnce
  <2>8. QED
    BY <2>4, <2>5, <2>6, <2>7
<1>7. \A p \in Writers : /\ NewOnceIn(inbox'[p])
                         /\ DOMAIN messages'[p] \subseteq DOMAIN messages[p]
  BY DEF PlainInbox, PlainLists
<1>8. NewComesOnce'
  <2> SUFFICES ASSUME NEW p \in Writers
               PROVE
      /\ NewOnceIn(inbox'[p]) /\ NewOnce(crypting'[p])
      /\ NewIds(ToSet(inbox'[p])) \cap NewIds(crypting'[p]) = {}
      /\ NewIds(ToSet(inbox'[p])) \cap DOMAIN messages'[p] = {}
      /\ NewIds(crypting'[p]) \cap DOMAIN messages'[p] = {}
      /\ SentIds(crypting'[p]) \cap NewIds(ToSet(inbox'[Partner(p)])) = {}
      /\ SentIds(crypting'[p]) \cap NewIds(crypting'[Partner(p)]) = {}
      /\ SentIds(crypting'[p]) \cap DOMAIN messages'[Partner(p)] = {}
    BY DEF NewComesOnce
  <2>1. /\ NewIds(ToSet(inbox[p])) \cap NewIds(crypting[p]) = {}
        /\ NewIds(ToSet(inbox[p])) \cap DOMAIN messages[p] = {}
        /\ NewIds(crypting[p]) \cap DOMAIN messages[p] = {}
        /\ SentIds(crypting[p]) \cap NewIds(ToSet(inbox[Partner(p)])) = {}
        /\ SentIds(crypting[p]) \cap NewIds(crypting[Partner(p)]) = {}
        /\ SentIds(crypting[p]) \cap DOMAIN messages[Partner(p)] = {}
    BY <1>1 DEF NewComesOnce
  <2>2. Partner(p) \in Writers
    BY <1>2
  <2>3. QED
    BY <1>6, <1>7, <2>1, <2>2
<1>9. QED
  BY <1>3, <1>4, <1>5, <1>8

LEMMA SameInbox == ASSUME ConversationInv, inbox' = inbox PROVE PlainInbox
BY DEF ConversationInv, NotesOK, NewComesOnce, PlainInbox

LEMMA SameCrypting == ASSUME ConversationInv, crypting' = crypting PROVE PlainCrypting
BY DEF ConversationInv, NotesOK, PlainCrypting

LEMMA SameLists ==
    ASSUME ConversationInv, messages' = messages, shown' = shown
    PROVE  PlainLists /\ \A p \in Writers : NotTakenBack(messages[p], messages'[p])
<1>1. \A n \in 0 .. 2 : n <= n
  OBVIOUS
<1>2. \A p \in Writers : NotTakenBack(messages[p], messages'[p])
  BY <1>1, RanksAreNumbers DEF NotTakenBack
<1>3. PlainLists
  BY DEF ConversationInv, ListsOK, ToldTruly, PlainLists, TruthfulList
<1>4. QED
  BY <1>2, <1>3

LEMMA LessCrypting ==
    ASSUME ConversationInv, NEW p \in Writers, NEW t,
           crypting' = [crypting EXCEPT ![p] = @ \ {t}]
    PROVE  PlainCrypting
BY DEF ConversationInv, NotesOK, PlainCrypting

LEMMA MoreCrypting ==
    ASSUME ConversationInv, NEW p \in Writers, NEW t, ~IsNew(t), NoteOK(t, written),
           crypting' = [crypting EXCEPT ![p] = @ \cup {t}]
    PROVE  PlainCrypting
BY DEF ConversationInv, NotesOK, PlainCrypting

\* What the updaters make of the list of p, when its statuses are truthful.
LEMMA ShowsList ==
    ASSUME ConversationInv, NEW p \in Writers, NEW l, ListOK(l),
           DOMAIN l = DOMAIN messages[p], NotTakenBack(messages[p], l),
           TruthfulList(p, l), Show(p, l)
    PROVE  PlainLists /\ \A q \in Writers : NotTakenBack(messages[q], messages'[q])
<1>1. ListsOK /\ ToldTruly
  BY DEF ConversationInv
<1>2. DOMAIN messages' = Writers /\ messages'[p] = l
      /\ \A q \in Writers : q # p => messages'[q] = messages[q]
  BY <1>1 DEF ListsOK, Show
<1>3. shown' = shown
  <2>1. shown \in [Writers -> SUBSET Ids] /\ DOMAIN l \subseteq shown[p]
    BY <1>1 DEF ListsOK
  <2>2. shown[p] \cup DOMAIN l = shown[p]
    BY <2>1
  <2>3. shown' = [shown EXCEPT ![p] = shown[p]]
    BY <2>2 DEF Show
  <2>4. QED
    BY <2>1, <2>3
<1>4. \A q \in Writers : TruthfulList(q, messages[q]) /\ ListOK(messages[q])
  BY <1>1 DEF ListsOK, ToldTruly, TruthfulList
<1>5. PlainLists
  BY <1>2, <1>3, <1>4 DEF PlainLists
<1>6. \A q \in Writers : NotTakenBack(messages[q], messages'[q])
  <2>1. \A n \in 0 .. 2 : n <= n
    OBVIOUS
  <2>2. \A q \in Writers : NotTakenBack(messages[q], messages[q])
    BY <2>1, RanksAreNumbers DEF NotTakenBack
  <2>3. QED
    BY <1>2, <2>2
<1>7. QED
  BY <1>5, <1>6

LEMMA ShowsSameStatuses ==
    ASSUME ConversationInv, NEW p \in Writers, NEW l, ListOK(l),
           SameStatuses(messages[p], l), Show(p, l)
    PROVE  PlainLists /\ \A q \in Writers : NotTakenBack(messages[q], messages'[q])
<1>1. DOMAIN l = DOMAIN messages[p] /\ NotTakenBack(messages[p], l)
  BY SameIsNotTakenBack DEF SameStatuses
<1>2. TruthfulList(p, l)
  BY <1>1 DEF ConversationInv, ToldTruly, TruthfulList, SameStatuses
<1>3. QED
  BY <1>1, <1>2, ShowsList

LEMMA SendsPlain ==
    ASSUME ConversationInv, NEW p \in Writers, NEW notes \in Seq(Notes),
           \A n \in ToSet(notes) : PlainNote(n, Partner(p)), SendNotes(p, notes)
    PROVE  PlainInbox
<1>1. NotesOK /\ NewComesOnce /\ Partner(p) \in Writers
  BY TwoWriters DEF ConversationInv
<1> DEFINE s == inbox[Partner(p)]
<1>2. s \in Seq(Notes) /\ NewOnceIn(s)
  BY <1>1 DEF NotesOK, NewComesOnce
<1>3. NewOnceIn(notes) /\ NewIds(ToSet(notes)) = {}
  BY DEF PlainNote, NewOnceIn, NewIds, ToSet
<1>4. s \o notes \in Seq(Notes) /\ ToSet(s \o notes) = ToSet(s) \cup ToSet(notes)
  BY <1>2, LongerInbox
<1>5. NewOnceIn(s \o notes)
  BY <1>2, <1>3, LongerComesOnce
<1>6. /\ DOMAIN inbox' = Writers /\ inbox'[Partner(p)] = s \o notes
      /\ \A q \in Writers : q # Partner(p) => inbox'[q] = inbox[q]
  BY <1>1 DEF NotesOK, SendNotes
<1> HIDE DEF s
<1>7. \A q \in Writers : inbox[q] \in Seq(Notes) /\ NewOnceIn(inbox[q])
  BY <1>1 DEF NotesOK, NewComesOnce
<1>8. QED
  BY <1>4, <1>5, <1>6, <1>7 DEF PlainInbox, s

LEMMA TakesPlain ==
    ASSUME ConversationInv, NEW p \in Writers, NEW i \in DOMAIN inbox[p], Take(p, i)
    PROVE  /\ PlainInbox /\ NoteOK(inbox[p][i], written)
           /\ inbox[p][i] \in ToSet(inbox[p])
           /\ IsNew(inbox[p][i]) => inbox[p][i].id \notin NewIds(ToSet(inbox'[p]))
<1>1. NotesOK /\ NewComesOnce
  BY DEF ConversationInv
<1>2. inbox[p] \in Seq(Notes) /\ NewOnceIn(inbox[p])
  BY <1>1 DEF NotesOK, NewComesOnce
<1> DEFINE k == RemoveAt(inbox[p], i)
<1>3. /\ k \in Seq(Notes) /\ ToSet(k) \subseteq ToSet(inbox[p]) /\ NewOnceIn(k)
      /\ IsNew(inbox[p][i]) => inbox[p][i].id \notin NewIds(ToSet(k))
  BY <1>2, ShorterInbox
<1>4. /\ DOMAIN inbox' = Writers /\ inbox'[p] = k
      /\ \A q \in Writers : q # p => inbox'[q] = inbox[q]
  BY <1>1 DEF NotesOK, Take
<1> HIDE DEF k
<1>5. \A q \in Writers : inbox[q] \in Seq(Notes) /\ NewOnceIn(inbox[q])
  BY <1>1 DEF NotesOK, NewComesOnce
<1>6. PlainInbox
  BY <1>3, <1>4, <1>5 DEF PlainInbox
<1>7. inbox[p][i] \in ToSet(inbox[p])
  BY DEF ToSet
<1>8. NoteOK(inbox[p][i], written)
  BY <1>1, <1>7 DEF NotesOK
<1>9. QED
  BY <1>3, <1>4, <1>6, <1>7, <1>8

-----------------------------------------------------------------------------
(* The steps that bring no new message.                                    *)

Kept ==
    /\ ConversationInv'
    /\ \A p \in Writers : NotTakenBack(messages[p], messages'[p])

LEMMA KeptByPlainStep ==
    ASSUME ConversationInv, PlainInbox, PlainCrypting, PlainLists,
           \A p \in Writers : NotTakenBack(messages[p], messages'[p]),
           written' = written, OtherVars'
    PROVE  Kept
BY PlainStep DEF ConversationInv, Kept

LEMMA ListedMessages ==
    ASSUME ConversationInv, NEW p \in Writers, NEW id \in DOMAIN messages[p]
    PROVE  /\ ListOK(messages[p]) /\ messages[p][id] \in Message
           /\ id \in Ids /\ id \in 1 .. written /\ id <= written /\ id \in shown[p]
<1>1. ListOK(messages[p]) /\ id \in 1 .. written /\ id \in shown[p]
  BY DEF ConversationInv, ListsOK
<1>2. QED
  BY <1>1 DEF ListOK

\* A note of one of the types that tell nothing new.
LEMMA PlainNotes ==
    ASSUME ConversationInv, NEW p \in Writers, NEW id \in Ids, id <= written,
           NEW arg \in Versions \cup Emojis,
           NEW type \in {"message_delete", "add", "remove"}
    PROVE  PlainNote(Note(type, id, arg), p) /\ Note(type, id, arg) \in Notes
BY DEF PlainNote, Note, NoteOK, Notes, NoteTypes, IsNew, TellsAuthor

LEMMA OneNote ==
    ASSUME NEW n \in Notes
    PROVE  <<n>> \in Seq(Notes) /\ ToSet(<<n>>) = {n}
BY DEF ToSet

LEMMA StartEditKeeps ==
    ASSUME ConversationInv, NEW p \in Writers, StartEdit(p)
    PROVE  Kept
<1>1. PICK id \in DOMAIN messages[p] : StartEdit(p)!(id)
  BY DEF StartEdit
<1>2. id \in Ids /\ id <= written
  BY ListedMessages
<1>3. ops + 2 \in Versions /\ ops' \in 0 .. MaxOps
  BY <1>1, ConversationAssumption DEF Acts, Versions, ConversationInv, OtherVars
<1>4. NoteOK(Note("edit", id, ops + 2), written) /\ ~IsNew(Note("edit", id, ops + 2))
  BY <1>2, <1>3 DEF NoteOK, Note, Notes, NoteTypes, IsNew
<1>5. PlainCrypting
  BY <1>1, <1>4, MoreCrypting
<1>6. PlainInbox
  BY <1>1, SameInbox
<1>7. PlainLists /\ \A q \in Writers : NotTakenBack(messages[q], messages'[q])
  BY <1>1, SameLists
<1>8. OtherVars' /\ written' = written
  BY <1>1, <1>3 DEF ConversationInv, OtherVars, history
<1>9. QED
  BY <1>5, <1>6, <1>7, <1>8, KeptByPlainStep

LEMMA EditEncryptedKeeps ==
    ASSUME ConversationInv, NEW p \in Writers, EditEncrypted(p)
    PROVE  Kept
<1>1. PICK t \in crypting[p] : EditEncrypted(p)!(t)
  BY DEF EditEncrypted
<1>2. t.id \in Ids /\ t.id <= written /\ t.arg \in Versions
  BY <1>1 DEF ConversationInv, NotesOK, NoteOK, Notes
<1>3. ListOK(messages[p])
  BY DEF ConversationInv, ListsOK
<1>4. PlainLists /\ \A q \in Writers : NotTakenBack(messages[q], messages'[q])
  <2> DEFINE l == WithEdit(messages[p], t.id, t.arg)
  <2>1. ListOK(l) /\ SameStatuses(messages[p], l) /\ Show(p, l)
    BY <1>1, <1>2, <1>3, EditedList
  <2> HIDE DEF l
  <2>2. QED
    BY <2>1, ShowsSameStatuses
<1>5. PlainCrypting
  BY <1>1, LessCrypting
<1>6. PlainInbox
  <2> DEFINE n == Note("message_edit", t.id, t.arg)
  <2>1. n \in Notes /\ PlainNote(n, Partner(p)) /\ SendNotes(p, <<n>>)
    BY <1>1, <1>2 DEF PlainNote, Note, NoteOK, Notes, NoteTypes, IsNew, TellsAuthor
  <2> HIDE DEF n
  <2>2. <<n>> \in Seq(Notes) /\ \A m \in ToSet(<<n>>) : PlainNote(m, Partner(p))
    BY <2>1, OneNote
  <2>3. QED
    BY <2>1, <2>2, SendsPlain
<1>7. OtherVars' /\ written' = written
  BY <1>1 DEF ConversationInv, OtherVars, history
<1>8. QED
  BY <1>4, <1>5, <1>6, <1>7, KeptByPlainStep

LEMMA DeleteMessageKeeps ==
    ASSUME ConversationInv, NEW p \in Writers, DeleteMessage(p)
    PROVE  Kept
<1>1. PICK id \in DOMAIN messages[p], all \in BOOLEAN : DeleteMessage(p)!(id, all)
  BY DEF DeleteMessage
<1>2. id \in Ids /\ id <= written /\ id \in 1 .. written /\ ListOK(messages[p])
  BY ListedMessages
<1>3. PlainLists /\ \A q \in Writers : NotTakenBack(messages[q], messages'[q])
  <2> DEFINE l == WithDelete(messages[p], id)
  <2>1. ListOK(l) /\ SameStatuses(messages[p], l) /\ Show(p, l)
    BY <1>1, <1>2, DeletedList
  <2> HIDE DEF l
  <2>2. QED
    BY <2>1, ShowsSameStatuses
<1>4. PlainCrypting
  BY <1>1, SameCrypting
<1>5. PlainInbox
  <2> DEFINE n == Note("message_delete", id, NoText)
  <2>1. n \in Notes /\ PlainNote(n, Partner(p))
    BY <1>2, TwoWriters, VersionsAreNumbers, PlainNotes
  <2> HIDE DEF n
  <2>2. <<n>> \in Seq(Notes) /\ \A m \in ToSet(<<n>>) : PlainNote(m, Partner(p))
    BY <2>1, OneNote
  <2>3. <<>> \in Seq(Notes) /\ \A m \in ToSet(<<>>) : PlainNote(m, Partner(p))
    BY DEF ToSet
  <2>4. SendNotes(p, IF all THEN <<n>> ELSE <<>>)
    BY <1>1 DEF n
  <2>5. CASE all
    BY <2>2, <2>4, <2>5, SendsPlain
  <2>6. CASE ~all
    BY <2>3, <2>4, <2>6, SendsPlain
  <2>7. QED
    BY <2>5, <2>6
<1>6. OtherVars' /\ written' = written
  <2>1. withdrawn' \subseteq 1 .. written
    BY <1>1, <1>2 DEF ConversationInv, OtherVars
  <2>2. ops' \in 0 .. MaxOps
    BY <1>1, ConversationAssumption DEF Acts, ConversationInv, OtherVars
  <2>3. calm' = calm /\ written' = written
    BY <1>1 DEF history
  <2>4. QED
    BY <2>1, <2>2, <2>3 DEF ConversationInv, OtherVars
<1>7. QED
  BY <1>3, <1>4, <1>5, <1>6, KeptByPlainStep

LEMMA MarkAsReadKeeps ==
    ASSUME ConversationInv, NEW p \in Writers, MarkAsRead(p)
    PROVE  Kept
<1>1. PICK id \in DOMAIN messages[p] : MarkAsRead(p)!(id)
  BY DEF MarkAsRead
<1>2. id \in Ids /\ id <= written /\ id \in shown[p]
  BY ListedMessages
<1>3. PlainLists /\ \A q \in Writers : NotTakenBack(messages[q], messages'[q])
  BY <1>1, SameLists
<1>4. PlainCrypting
  BY <1>1, SameCrypting
<1>5. PlainInbox
  <2> DEFINE n == Note("message_read", id, NoText)
  <2>1. n \in Notes /\ PlainNote(n, Partner(p)) /\ SendNotes(p, <<n>>)
    BY <1>1, <1>2, TwoWriters, VersionsAreNumbers
       DEF PlainNote, Note, NoteOK, Notes, NoteTypes, IsNew, TellsAuthor
  <2> HIDE DEF n
  <2>2. <<n>> \in Seq(Notes) /\ \A m \in ToSet(<<n>>) : PlainNote(m, Partner(p))
    BY <2>1, OneNote
  <2>3. QED
    BY <2>1, <2>2, SendsPlain
<1>6. OtherVars' /\ written' = written
  <2>1. ops' \in 0 .. MaxOps
    BY <1>1, ConversationAssumption DEF Acts, ConversationInv, OtherVars
  <2>2. QED
    BY <1>1, <2>1 DEF ConversationInv, OtherVars, history
<1>7. QED
  BY <1>3, <1>4, <1>5, <1>6, KeptByPlainStep

LEMMA RemoveReactionKeeps ==
    ASSUME ConversationInv, NEW p \in Writers, RemoveReaction(p)
    PROVE  Kept
<1>1. PICK id \in DOMAIN messages[p], emoji \in Emojis : RemoveReaction(p)!(id, emoji)
  BY DEF RemoveReaction
<1>2. id \in Ids /\ id <= written /\ ListOK(messages[p])
  BY ListedMessages
<1>3. PlainLists /\ \A q \in Writers : NotTakenBack(messages[q], messages'[q])
  <2> DEFINE l == WithReaction(messages[p], id, emoji, p, FALSE)
  <2>1. ListOK(l) /\ SameStatuses(messages[p], l) /\ Show(p, l)
    BY <1>1, <1>2, ToggledList
  <2> HIDE DEF l
  <2>2. QED
    BY <2>1, ShowsSameStatuses
<1>4. PlainCrypting
  BY <1>1, SameCrypting
<1>5. PlainInbox
  <2> DEFINE n == Note("remove", id, emoji)
  <2>1. n \in Notes /\ PlainNote(n, Partner(p))
    BY <1>2, TwoWriters, PlainNotes
  <2>2. SendNotes(p, <<n>>)
    BY <1>1
  <2> HIDE DEF n
  <2>3. <<n>> \in Seq(Notes) /\ \A m \in ToSet(<<n>>) : PlainNote(m, Partner(p))
    BY <2>1, OneNote
  <2>4. QED
    BY <2>2, <2>3, SendsPlain
<1>6. OtherVars' /\ written' = written
  <2>1. ops' \in 0 .. MaxOps
    BY <1>1, ConversationAssumption DEF Acts, ConversationInv, OtherVars
  <2>2. QED
    BY <1>1, <2>1 DEF ConversationInv, OtherVars, history
<1>7. QED
  BY <1>3, <1>4, <1>5, <1>6, KeptByPlainStep

\* The notes of an added reaction: the one it replaces, if any, and its own.
LEMMA NotesOfReaction ==
    ASSUME NEW id, NEW emoji, NEW old, old = {} \/ (\E e : old = {e}),
           NEW N, \A e \in old : Note("remove", id, e) \in N,
           Note("add", id, emoji) \in N
    PROVE  ReactionNotes(id, emoji, old) \in Seq(N)
<1> DEFINE S == {Note("remove", id, e) : e \in old}
<1>1. Cardinality(S) \in Nat
      /\ \E f \in [1 .. Cardinality(S) -> S] : IsInjective(f)
  <2>1. CASE old = {}
    <3>1. S = {} /\ Cardinality(S) = 0
      BY <2>1, FS_EmptySet
    <3> HIDE DEF S
    <3>2. PICK f : f = [i \in 1 .. 0 |-> 0]
      OBVIOUS
    <3>3. f \in [1 .. Cardinality(S) -> S]
      BY <3>1, <3>2
    <3>4. IsInjective(f)
      BY <3>2 DEF IsInjective
    <3>5. Cardinality(S) \in Nat
      BY <3>1
    <3>6. QED
      BY <3>3, <3>4, <3>5
  <2>2. CASE \E e : old = {e}
    <3>1. PICK e : old = {e}
      BY <2>2
    <3> DEFINE n == Note("remove", id, e)
    <3>2. S = {n}
      BY <3>1
    <3> HIDE DEF n, S
    <3>3. Cardinality(S) = 1
      BY <3>2, FS_Singleton
    <3>4. [i \in 1 .. 1 |-> n] \in [1 .. Cardinality(S) -> S]
      BY <3>2, <3>3
    <3>5. IsInjective([i \in 1 .. 1 |-> n])
      BY DEF IsInjective
    <3>6. QED
      BY <3>3, <3>4, <3>5
  <2>3. QED
    BY <2>1, <2>2
<1>2. S \subseteq N
  OBVIOUS
<1> HIDE DEF S
<1>3. SetToSeq(S) \in [1 .. Cardinality(S) -> S]
  BY <1>1 DEF SetToSeq
<1>4. SetToSeq(S) \in Seq(N)
  BY <1>1, <1>2, <1>3
<1>5. ReactionNotes(id, emoji, old) = Append(SetToSeq(S), Note("add", id, emoji))
  BY DEF ReactionNotes, S
<1>6. QED
  BY <1>4, <1>5

LEMMA AddReactionKeeps ==
    ASSUME ConversationInv, NEW p \in Writers, AddReaction(p)
    PROVE  Kept
<1>1. PICK id \in DOMAIN messages[p], emoji \in Emojis : AddReaction(p)!(id, emoji)
  BY DEF AddReaction
<1>2. id \in Ids /\ id <= written /\ ListOK(messages[p]) /\ messages[p][id] \in Message
  BY ListedMessages
<1> DEFINE rest == [messages[p][id].reactions EXCEPT ![emoji] = @ \cup {p}]
<1>3. PICK old \in ReplacedEmojis(p, id) :
          /\ SendNotes(p, ReactionNotes(id, emoji, old))
          /\ Show(p, [messages[p] EXCEPT ![id].reactions =
                [e \in Emojis |-> IF e \in old THEN rest[e] \ {p} ELSE rest[e]]])
  BY <1>1
<1>4. rest \in [Emojis -> SUBSET Writers]
  BY <1>2 DEF Message
<1>5. PlainLists /\ \A q \in Writers : NotTakenBack(messages[q], messages'[q])
  <2> DEFINE r == [e \in Emojis |-> IF e \in old THEN rest[e] \ {p} ELSE rest[e]]
             l == [messages[p] EXCEPT ![id].reactions = r]
  <2> HIDE DEF rest
  <2>1. r \in [Emojis -> SUBSET Writers]
    BY <1>4
  <2>2. Show(p, l)
    BY <1>3
  <2> HIDE DEF r
  <2>3. ListOK(l) /\ SameStatuses(messages[p], l)
    BY <1>2, <2>1, ReactedList
  <2> HIDE DEF l
  <2>4. QED
    BY <2>2, <2>3, ShowsSameStatuses
<1>6. PlainCrypting
  BY <1>1, SameCrypting
<1>7. PlainInbox
  <2> DEFINE q == Partner(p)
             N == {n \in Notes : PlainNote(n, q)}
             s == ReactionNotes(id, emoji, old)
  <2>1. old \subseteq Emojis /\ (old = {} \/ (\E e : old = {e}))
    BY <1>3 DEF ReplacedEmojis, MyEmojis
  <2>2. /\ \A e \in old : Note("remove", id, e) \in N
        /\ Note("add", id, emoji) \in N
    BY <1>2, <2>1, TwoWriters, PlainNotes
  <2> HIDE DEF N
  <2>3. s \in Seq(N)
    BY <2>1, <2>2, NotesOfReaction
  <2>4. SendNotes(p, s)
    BY <1>3
  <2> HIDE DEF s
  <2>5. \A n \in ToSet(s) : n \in N
    BY <2>3 DEF ToSet
  <2>6. N \subseteq Notes /\ \A n \in N : PlainNote(n, Partner(p))
    BY DEF N
  <2>7. s \in Seq(Notes)
    <3> DEFINE M == Notes
    <3>1. N \subseteq M
      BY <2>6
    <3> HIDE DEF M
    <3>2. s \in Seq(M)
      BY <2>3, <3>1
    <3>3. QED
      BY <3>2 DEF M
  <2>8. QED
    BY <2>4, <2>5, <2>6, <2>7, SendsPlain
<1>8. OtherVars' /\ written' = written
  <2>1. ops' \in 0 .. MaxOps
    BY <1>1, ConversationAssumption DEF Acts, ConversationInv, OtherVars
  <2>2. QED
    BY <1>1, <2>1 DEF ConversationInv, OtherVars, history
<1>9. QED
  BY <1>5, <1>6, <1>7, <1>8, KeptByPlainStep

LEMMA EditDecryptedKeeps ==
    ASSUME ConversationInv, NEW p \in Writers, EditDecrypted(p)
    PROVE  Kept
<1>1. PICK t \in crypting[p] : EditDecrypted(p)!(t)
  BY DEF EditDecrypted
<1>2. t.id \in Ids /\ t.arg \in Versions
  BY <1>1 DEF ConversationInv, NotesOK, NoteOK, Notes
<1>3. ListOK(messages[p])
  BY DEF ConversationInv, ListsOK
<1>4. PlainLists /\ \A q \in Writers : NotTakenBack(messages[q], messages'[q])
  <2> DEFINE l == WithEdit(messages[p], t.id, t.arg)
  <2>1. ListOK(l) /\ SameStatuses(messages[p], l) /\ Show(p, l)
    BY <1>1, <1>2, <1>3, EditedList
  <2> HIDE DEF l
  <2>2. QED
    BY <2>1, ShowsSameStatuses
<1>5. PlainCrypting
  BY <1>1, LessCrypting
<1>6. PlainInbox
  BY <1>1, SameInbox
<1>7. OtherVars' /\ written' = written
  BY <1>1 DEF ConversationInv, OtherVars, history
<1>8. QED
  BY <1>4, <1>5, <1>6, <1>7, KeptByPlainStep

LEMMA PeerGoneKeeps ==
    ASSUME ConversationInv, NEW p \in Writers, PeerGone(p)
    PROVE  Kept
<1>1. /\ messages' = [messages EXCEPT ![p] = <<>>]
      /\ UNCHANGED <<calm, written, ops, inbox, crypting, shown, withdrawn>>
  BY DEF PeerGone
<1>2. ListsOK /\ ToldTruly
  BY DEF ConversationInv
<1>3. DOMAIN messages' = Writers /\ messages'[p] = <<>>
      /\ \A q \in Writers : q # p => messages'[q] = messages[q]
  BY <1>1, <1>2 DEF ListsOK
<1>4. DOMAIN <<>> = {}
  OBVIOUS
<1>5. ListOK(<<>>) /\ TruthfulList(p, <<>>) /\ NotTakenBack(messages[p], <<>>)
  BY <1>4 DEF ListOK, TruthfulList, NotTakenBack
<1>6. \A q \in Writers : /\ TruthfulList(q, messages[q]) /\ ListOK(messages[q])
                         /\ NotTakenBack(messages[q], messages[q])
  <2>1. \A n \in 0 .. 2 : n <= n
    OBVIOUS
  <2>2. QED
    BY <1>2, <2>1, RanksAreNumbers DEF ListsOK, ToldTruly, TruthfulList, NotTakenBack
<1>7. PlainLists
  BY <1>1, <1>3, <1>4, <1>5, <1>6 DEF PlainLists
<1>8. \A q \in Writers : NotTakenBack(messages[q], messages'[q])
  BY <1>3, <1>5, <1>6
<1>9. PlainInbox /\ PlainCrypting
  BY <1>1, SameInbox, SameCrypting
<1>10. OtherVars' /\ written' = written
  BY <1>1 DEF ConversationInv, OtherVars
<1>11. QED
  BY <1>7, <1>8, <1>9, <1>10, KeptByPlainStep

\* What an author is told of a message is true, by what was said when it was sent.
LEMMA ReceivePlainKeeps ==
    ASSUME ConversationInv, NEW p \in Writers, ReceivePlain(p)
    PROVE  Kept
<1>1. PICK i \in NextPlaces(p) : ReceivePlain(p)!(i)
  BY DEF ReceivePlain
<1> DEFINE f == inbox[p][i]
           l == CASE f.type = "ack" -> WithAck(messages[p], f.id)
                  [] f.type = "message_read" -> WithRead(messages[p], f.id)
                  [] f.type = "message_delete" -> WithDelete(messages[p], f.id)
                  [] OTHER -> WithReaction(messages[p], f.id, f.arg, Partner(p),
                                           f.type = "add")
<1>2. i \in DOMAIN inbox[p] /\ Take(p, i) /\ Show(p, l)
      /\ UNCHANGED <<history, ops, crypting, withdrawn>>
  BY <1>1 DEF NextPlaces
<1>3. PlainInbox /\ f \in ToSet(inbox[p]) /\ NoteOK(f, written)
  BY <1>2, TakesPlain
<1>4. f.id \in Ids /\ (TellsAuthor(f) => f.id \in shown[Partner(p)])
  BY <1>3 DEF NoteOK, Notes, ConversationInv, ToldTruly
<1> HIDE DEF f
<1>5. ListOK(messages[p]) /\ Partner(p) \in Writers /\ TruthfulList(p, messages[p])
  BY TwoWriters DEF ConversationInv, ListsOK, ToldTruly, TruthfulList
<1>6. PlainLists /\ \A q \in Writers : NotTakenBack(messages[q], messages'[q])
  <2>1. CASE f.type \in {"ack", "message_read"}
    <3>1. f.id \in shown[Partner(p)]
      BY <1>4, <2>1 DEF TellsAuthor
    <3>2. /\ ListOK(l) /\ DOMAIN l = DOMAIN messages[p]
          /\ NotTakenBack(messages[p], l)
          /\ \A j \in DOMAIN messages[p] :
                j # f.id => l[j].deliveryStatus = messages[p][j].deliveryStatus
      <4>1. CASE f.type = "ack"
        <5>1. l = WithAck(messages[p], f.id)
          BY <4>1
        <5> HIDE DEF l
        <5>2. QED
          BY <1>5, <5>1, AckedList
      <4>2. CASE f.type = "message_read"
        <5>1. l = WithRead(messages[p], f.id)
          BY <4>2
        <5> HIDE DEF l
        <5>2. QED
          BY <1>5, <5>1, ReadList
      <4>3. QED
        BY <2>1, <4>1, <4>2
    <3> HIDE DEF l
    <3>3. TruthfulList(p, l)
      BY <1>5, <3>1, <3>2 DEF TruthfulList
    <3>4. QED
      BY <1>2, <3>2, <3>3, ShowsList
  <2>2. CASE f.type \notin {"ack", "message_read"}
    <3>1. ListOK(l) /\ SameStatuses(messages[p], l)
      <4>1. CASE f.type = "message_delete"
        <5>1. l = WithDelete(messages[p], f.id)
          BY <4>1
        <5> HIDE DEF l
        <5>2. QED
          BY <1>4, <1>5, <5>1, DeletedList
      <4>2. CASE f.type # "message_delete"
        <5>1. l = WithReaction(messages[p], f.id, f.arg, Partner(p), f.type = "add")
          BY <2>2, <4>2
        <5> HIDE DEF l
        <5>2. QED
          BY <1>5, <5>1, ToggledList
      <4>3. QED
        BY <4>1, <4>2
    <3> HIDE DEF l
    <3>2. QED
      BY <1>2, <3>1, ShowsSameStatuses
  <2>3. QED
    BY <2>1, <2>2
<1>7. PlainCrypting
  BY <1>2, SameCrypting
<1>8. OtherVars' /\ written' = written
  BY <1>2 DEF ConversationInv, OtherVars, history
<1>9. QED
  BY <1>3, <1>6, <1>7, <1>8, KeptByPlainStep

-----------------------------------------------------------------------------
(* The steps that bring a new message, from the author's encryption to the    *)
(* partner's list.  Where it is, it is nowhere else.                         *)

LEMMA WhereNewIs ==
    ASSUME NewComesOnce, NEW p \in Writers
    PROVE  LET q == Partner(p) IN
           /\ NewOnceIn(inbox[p]) /\ NewOnce(crypting[p])
           /\ NewIds(ToSet(inbox[p])) \cap NewIds(crypting[p]) = {}
           /\ NewIds(ToSet(inbox[p])) \cap DOMAIN messages[p] = {}
           /\ NewIds(crypting[p]) \cap DOMAIN messages[p] = {}
           /\ SentIds(crypting[p]) \cap NewIds(ToSet(inbox[q])) = {}
           /\ SentIds(crypting[p]) \cap NewIds(crypting[q]) = {}
           /\ SentIds(crypting[p]) \cap DOMAIN messages[q] = {}
           /\ SentIds(crypting[p]) \subseteq NewIds(crypting[p])
<1>1. SentIds(crypting[p]) \subseteq NewIds(crypting[p])
  BY DEF SentIds, NewIds, IsNew
<1>2. QED
  BY <1>1 DEF NewComesOnce

LEMMA NewIsWritten ==
    ASSUME ConversationInv, NEW p \in Writers
    PROVE  /\ written + 1 \notin NewIds(ToSet(inbox[p]))
           /\ written + 1 \notin NewIds(crypting[p])
           /\ written + 1 \notin SentIds(crypting[p])
           /\ written + 1 \notin DOMAIN messages[p]
<1>1. written \in Nat
  BY ConversationAssumption DEF ConversationInv, ListsOK
<1>2. ~(written + 1 <= written) /\ written + 1 \notin 1 .. written
  BY <1>1
<1>3. \A n \in ToSet(inbox[p]) \cup crypting[p] : n.id <= written
  BY DEF ConversationInv, NotesOK, NoteOK
<1>4. DOMAIN messages[p] \subseteq 1 .. written
  BY DEF ConversationInv, ListsOK
<1>5. QED
  BY <1>2, <1>3, <1>4 DEF NewIds, SentIds

\* What an encryption or decryption under way that starts or ends does to the ids.
LEMMA MoreNewIds ==
    ASSUME NEW S, NEW n, IsNew(n)
    PROVE  /\ NewIds(S \cup {n}) = NewIds(S) \cup {n.id}
           /\ SentIds(S \cup {n}) =
                 IF n.type = "send" THEN SentIds(S) \cup {n.id} ELSE SentIds(S)
           /\ (NewOnce(S) /\ n.id \notin NewIds(S)) => NewOnce(S \cup {n})
<1>1. NewIds(S \cup {n}) = NewIds(S) \cup {n.id}
  BY DEF NewIds
<1>2. n.type = "send" => SentIds(S \cup {n}) = SentIds(S) \cup {n.id}
  BY DEF SentIds
<1>3. n.type # "send" => SentIds(S \cup {n}) = SentIds(S)
  BY DEF SentIds
<1>4. ASSUME NewOnce(S), n.id \notin NewIds(S)
      PROVE  NewOnce(S \cup {n})
  <2>1. \A m \in S : IsNew(m) => m.id # n.id
    BY <1>4 DEF NewIds
  <2>2. QED
    BY <1>4, <2>1 DEF NewOnce
<1>5. QED
  BY <1>1, <1>2, <1>3, <1>4

LEMMA FewerNewIds ==
    ASSUME NEW S, NewOnce(S), NEW n \in S, IsNew(n)
    PROVE  /\ NewIds(S \ {n}) \subseteq NewIds(S) /\ n.id \notin NewIds(S \ {n})
           /\ SentIds(S \ {n}) \subseteq SentIds(S) /\ n.id \notin SentIds(S \ {n})
           /\ NewOnce(S \ {n}) /\ n.id \in NewIds(S)
           /\ n.type = "send" => n.id \in SentIds(S)
<1>1. \A m \in S \ {n} : IsNew(m) => m.id # n.id
  BY DEF NewOnce
<1>2. \A m \in S \ {n} : m.type = "send" => m.id # n.id
  BY <1>1 DEF IsNew
<1>3. NewIds(S \ {n}) \subseteq NewIds(S) /\ SentIds(S \ {n}) \subseteq SentIds(S)
  BY DEF NewIds, SentIds
<1>4. n.id \notin NewIds(S \ {n}) /\ n.id \notin SentIds(S \ {n})
  BY <1>1, <1>2 DEF NewIds, SentIds
<1>5. NewOnce(S \ {n})
  BY DEF NewOnce
<1>6. n.id \in NewIds(S) /\ (n.type = "send" => n.id \in SentIds(S))
  BY DEF NewIds, SentIds
<1>7. QED
  BY <1>3, <1>4, <1>5, <1>6

LEMMA StartMessageKeeps ==
    ASSUME ConversationInv, NEW p \in Writers, StartMessage(p)
    PROVE  Kept
<1>1. PICK replyTo \in DOMAIN messages[p] \cup {NoMessage} : StartMessage(p)!(replyTo)
  BY DEF StartMessage
<1> DEFINE n == Note("send", written + 1, replyTo)
<1>2. /\ written' = written + 1 /\ written + 1 \in Ids /\ written \in Nat
      /\ written' \in 0 .. MaxMessages
  BY <1>1, ConversationAssumption DEF ConversationInv, ListsOK, Ids
<1>3. /\ n \in Notes /\ NoteOK(n, written') /\ n.type = "send" /\ n.id = written + 1
      /\ IsNew(n)
  <2>1. replyTo \in Ids \cup {NoMessage}
    BY <1>1, ListedMessages
  <2>2. QED
    BY <1>2, <2>1 DEF Note, Notes, NoteTypes, NoteOK, IsNew
<1>4. crypting' = [crypting EXCEPT ![p] = @ \cup {n}]
      /\ UNCHANGED <<calm, joined, messages, inbox, shown, withdrawn>>
  BY <1>1
<1> HIDE DEF n
<1>5. ListsOK /\ NotesOK /\ NewComesOnce /\ ToldTruly /\ OtherVars
  BY DEF ConversationInv
<1>6. DOMAIN crypting' = Writers /\ crypting'[p] = crypting[p] \cup {n}
      /\ \A q \in Writers : q # p => crypting'[q] = crypting[q]
  BY <1>4, <1>5 DEF NotesOK
<1>7. ListsOK'
  <2>1. 1 .. written \subseteq 1 .. written'
    BY <1>2
  <2>2. QED
    BY <1>2, <1>4, <1>5, <2>1 DEF ListsOK
<1>8. NotesOK'
  <2>1. \A m : NoteOK(m, written) => NoteOK(m, written')
    <3>1. \A i \in Ids : i <= written => i <= written'
      BY <1>2 DEF Ids
    <3>2. QED
      BY <3>1 DEF NoteOK, Notes
  <2>2. QED
    BY <1>3, <1>4, <1>5, <1>6, <2>1 DEF NotesOK
<1>9. ToldTruly'
  BY <1>4, <1>5 DEF ToldTruly
<1>10. OtherVars'
  <2>1. ops' \in 0 .. MaxOps
    BY <1>1, <1>5, ConversationAssumption DEF Acts, OtherVars
  <2>2. 1 .. written \subseteq 1 .. written'
    BY <1>2
  <2>3. QED
    BY <1>4, <1>5, <2>1, <2>2 DEF OtherVars
<1>11. NewComesOnce'
  <2> SUFFICES ASSUME NEW r \in Writers
               PROVE
      /\ NewOnceIn(inbox'[r]) /\ NewOnce(crypting'[r])
      /\ NewIds(ToSet(inbox'[r])) \cap NewIds(crypting'[r]) = {}
      /\ NewIds(ToSet(inbox'[r])) \cap DOMAIN messages'[r] = {}
      /\ NewIds(crypting'[r]) \cap DOMAIN messages'[r] = {}
      /\ SentIds(crypting'[r]) \cap NewIds(ToSet(inbox'[Partner(r)])) = {}
      /\ SentIds(crypting'[r]) \cap NewIds(crypting'[Partner(r)]) = {}
      /\ SentIds(crypting'[r]) \cap DOMAIN messages'[Partner(r)] = {}
    BY DEF NewComesOnce
  <2> DEFINE q == Partner(r)
  <2>1. q \in Writers /\ q # r /\ (r = p \/ q = p)
    BY TwoWriters
  <2>2. /\ NewOnceIn(inbox[r]) /\ NewOnce(crypting[r])
        /\ NewIds(ToSet(inbox[r])) \cap NewIds(crypting[r]) = {}
        /\ NewIds(ToSet(inbox[r])) \cap DOMAIN messages[r] = {}
        /\ NewIds(crypting[r]) \cap DOMAIN messages[r] = {}
        /\ SentIds(crypting[r]) \cap NewIds(ToSet(inbox[q])) = {}
        /\ SentIds(crypting[r]) \cap NewIds(crypting[q]) = {}
        /\ SentIds(crypting[r]) \cap DOMAIN messages[q] = {}
    BY <1>5, WhereNewIs
  <2>3. \A w \in Writers :
            /\ n.id \notin NewIds(ToSet(inbox[w])) /\ n.id \notin NewIds(crypting[w])
            /\ n.id \notin SentIds(crypting[w]) /\ n.id \notin DOMAIN messages[w]
    BY <1>3, NewIsWritten
  <2>4. /\ NewIds(crypting'[p]) = NewIds(crypting[p]) \cup {n.id}
        /\ SentIds(crypting'[p]) = SentIds(crypting[p]) \cup {n.id}
        /\ NewOnce(crypting[p]) => NewOnce(crypting'[p])
    <3>1. crypting'[p] = crypting[p] \cup {n} /\ n.id \notin NewIds(crypting[p])
      BY <1>6, <2>3
    <3>2. /\ NewIds(crypting[p] \cup {n}) = NewIds(crypting[p]) \cup {n.id}
          /\ SentIds(crypting[p] \cup {n}) =
                IF n.type = "send" THEN SentIds(crypting[p]) \cup {n.id}
                ELSE SentIds(crypting[p])
          /\ (NewOnce(crypting[p]) /\ n.id \notin NewIds(crypting[p]))
                => NewOnce(crypting[p] \cup {n})
      BY <1>3, MoreNewIds
    <3>3. QED
      BY <1>3, <3>1, <3>2
  <2>5. \A w \in Writers : inbox'[w] = inbox[w] /\ messages'[w] = messages[w]
    BY <1>4
  <2> HIDE DEF q
  <2>6. CASE r = p
    <3>1. crypting'[q] = crypting[q] /\ inbox'[q] = inbox[q] /\ inbox'[r] = inbox[r]
          /\ messages'[q] = messages[q] /\ messages'[r] = messages[r]
      BY <1>6, <2>1, <2>5, <2>6
    <3>2. /\ NewIds(crypting'[r]) = NewIds(crypting[r]) \cup {n.id}
          /\ SentIds(crypting'[r]) = SentIds(crypting[r]) \cup {n.id}
          /\ NewOnce(crypting'[r])
      BY <2>2, <2>4, <2>6
    <3>3. /\ NewIds(ToSet(inbox'[r])) \cap NewIds(crypting'[r]) = {}
          /\ NewIds(crypting'[r]) \cap DOMAIN messages'[r] = {}
      BY <2>2, <2>3, <3>1, <3>2
    <3>4. /\ SentIds(crypting'[r]) \cap NewIds(ToSet(inbox'[q])) = {}
          /\ SentIds(crypting'[r]) \cap NewIds(crypting'[q]) = {}
          /\ SentIds(crypting'[r]) \cap DOMAIN messages'[q] = {}
      BY <2>1, <2>2, <2>3, <3>1, <3>2
    <3>5. QED
      BY <2>2, <3>1, <3>2, <3>3, <3>4 DEF q
  <2>7. CASE q = p
    BY <1>6, <2>1, <2>2, <2>3, <2>4, <2>5, <2>7 DEF q
  <2>8. QED
    BY <2>1, <2>6, <2>7
<1>12. \A r \in Writers : NotTakenBack(messages[r], messages'[r])
  BY <1>4, SameLists
<1>13. QED
  BY <1>7, <1>8, <1>9, <1>10, <1>11, <1>12 DEF ConversationInv, Kept

LEMMA ShowsNewMessage ==
    ASSUME ConversationInv, NEW p \in Writers, NEW t \in crypting[p], IsNew(t),
           NEW own \in BOOLEAN,
           Show(p, WithMessage(messages[p], t.id, NewMessage(messages[p], 1, own, t.arg)))
    PROVE  /\ DOMAIN messages' = Writers
           /\ DOMAIN messages'[p] = DOMAIN messages[p] \cup {t.id}
           /\ \A q \in Writers : q # p => messages'[q] = messages[q]
           /\ shown' \in [Writers -> SUBSET Ids] /\ t.id \in shown'[p]
           /\ \A q \in Writers :
                 /\ ListOK(messages'[q]) /\ NotTakenBack(messages[q], messages'[q])
                 /\ DOMAIN messages'[q] \subseteq shown'[q]
                 /\ shown[q] \subseteq shown'[q] /\ shown'[q] \subseteq 1 .. written
                 /\ TruthfulList(q, messages'[q])
<1>1. ListsOK /\ NotesOK /\ NewComesOnce /\ ToldTruly
  BY DEF ConversationInv
<1> DEFINE l == WithMessage(messages[p], t.id, NewMessage(messages[p], 1, own, t.arg))
<1>2. t.id \in Ids /\ t.id \in 1 .. written /\ t.id \notin DOMAIN messages[p]
  <2>1. t.id \in NewIds(crypting[p])
    BY DEF NewIds
  <2>2. t.id \notin DOMAIN messages[p]
    BY <1>1, <2>1 DEF NewComesOnce
  <2>3. t \in Notes /\ t.id <= written
    BY <1>1 DEF NotesOK, NoteOK
  <2>4. written \in Nat
    BY <1>1, ConversationAssumption DEF ListsOK
  <2>5. t.id \in Ids
    BY <2>3 DEF Notes
  <2>6. QED
    BY <2>2, <2>3, <2>4, <2>5 DEF Ids
<1>3. /\ ListOK(messages[p]) /\ DOMAIN messages[p] \subseteq shown[p]
      /\ TruthfulList(p, messages[p])
  BY <1>1 DEF ListsOK, ToldTruly, TruthfulList
<1>4. /\ ListOK(l) /\ DOMAIN l = DOMAIN messages[p] \cup {t.id}
      /\ NotTakenBack(messages[p], l)
      /\ l[t.id].deliveryStatus \in {"none", "sending"}
      /\ \A i \in DOMAIN messages[p] : l[i] = messages[p][i]
  <2>1. ListOK(messages[p]) /\ t.id \in Ids /\ t.id \notin DOMAIN messages[p]
    BY <1>2, <1>3
  <2>2. QED
    BY <2>1, LongerList
<1>5. Show(p, l)
  OBVIOUS
<1> HIDE DEF l
<1>6. /\ DOMAIN messages' = Writers /\ messages'[p] = l
      /\ \A q \in Writers : q # p => messages'[q] = messages[q]
  BY <1>1, <1>5 DEF ListsOK, Show
<1>7. /\ shown' \in [Writers -> SUBSET Ids] /\ shown'[p] = shown[p] \cup {t.id}
      /\ \A q \in Writers : q # p => shown'[q] = shown[q]
  <2>1. shown \in [Writers -> SUBSET Ids]
    BY <1>1 DEF ListsOK
  <2>2. shown[p] \cup DOMAIN l = shown[p] \cup {t.id}
    BY <1>3, <1>4
  <2>3. shown' = [shown EXCEPT ![p] = shown[p] \cup {t.id}]
    BY <1>5, <2>2 DEF Show
  <2>4. QED
    BY <1>2, <2>1, <2>3
<1>8. TruthfulList(p, l)
  <2>1. l[t.id].deliveryStatus \notin {"delivered", "read"}
    BY <1>4
  <2>2. QED
    BY <1>3, <1>4, <2>1 DEF TruthfulList
<1>9. \A q \in Writers : /\ ListOK(messages[q]) /\ TruthfulList(q, messages[q])
                         /\ DOMAIN messages[q] \subseteq shown[q]
                         /\ shown[q] \subseteq 1 .. written
                         /\ NotTakenBack(messages[q], messages[q])
  <2>1. \A n \in 0 .. 2 : n <= n
    OBVIOUS
  <2>2. QED
    BY <1>1, <2>1, RanksAreNumbers DEF ListsOK, ToldTruly, TruthfulList, NotTakenBack
<1>10. ASSUME NEW q \in Writers
       PROVE  /\ ListOK(messages'[q]) /\ NotTakenBack(messages[q], messages'[q])
              /\ DOMAIN messages'[q] \subseteq shown'[q]
              /\ shown[q] \subseteq shown'[q] /\ shown'[q] \subseteq 1 .. written
              /\ TruthfulList(q, messages'[q])
  <2>1. CASE q = p
    BY <1>2, <1>3, <1>4, <1>6, <1>7, <1>8, <1>9, <2>1
  <2>2. CASE q # p
    BY <1>6, <1>7, <1>9, <2>2
  <2>3. QED
    BY <2>1, <2>2
<1>11. QED
  BY <1>4, <1>6, <1>7, <1>10

LEMMA SendsOne ==
    ASSUME ConversationInv, NEW p \in Writers, NEW n \in Notes, SendNotes(p, <<n>>),
           IsNew(n) => n.id \notin NewIds(ToSet(inbox[Partner(p)]))
    PROVE  LET q == Partner(p) IN
           /\ DOMAIN inbox' = Writers
           /\ inbox'[q] \in Seq(Notes) /\ NewOnceIn(inbox'[q])
           /\ ToSet(inbox'[q]) = ToSet(inbox[q]) \cup {n}
           /\ NewIds(ToSet(inbox'[q])) =
                 IF IsNew(n) THEN NewIds(ToSet(inbox[q])) \cup {n.id}
                 ELSE NewIds(ToSet(inbox[q]))
           /\ \A r \in Writers : r # q => inbox'[r] = inbox[r]
<1> DEFINE q == Partner(p)
           s == inbox[q]
<1>1. /\ q \in Writers /\ s \in Seq(Notes) /\ NewOnceIn(s) /\ DOMAIN inbox = Writers
  BY TwoWriters DEF ConversationInv, NotesOK, NewComesOnce
<1>2. <<n>> \in Seq(Notes) /\ ToSet(<<n>>) = {n}
  BY OneNote
<1>3. NewOnceIn(<<n>>)
  BY DEF NewOnceIn
<1>4. NewIds(ToSet(s)) \cap NewIds(ToSet(<<n>>)) = {}
  <2>1. NewIds({n}) = IF IsNew(n) THEN {n.id} ELSE {}
    BY DEF NewIds
  <2>2. QED
    BY <1>2, <2>1
<1>5. /\ inbox'[q] = s \o <<n>> /\ DOMAIN inbox' = Writers
      /\ \A r \in Writers : r # q => inbox'[r] = inbox[r]
  BY <1>1 DEF SendNotes
<1>6. s \o <<n>> \in Seq(Notes) /\ ToSet(s \o <<n>>) = ToSet(s) \cup {n}
  <2>1. s \o <<n>> \in Seq(Notes) /\ ToSet(s \o <<n>>) = ToSet(s) \cup ToSet(<<n>>)
    BY <1>1, <1>2, LongerInbox
  <2>2. QED
    BY <1>2, <2>1
<1>7. NewOnceIn(s \o <<n>>)
  BY <1>1, <1>2, <1>3, <1>4, LongerComesOnce
<1>8. NewIds(ToSet(s) \cup {n}) = IF IsNew(n) THEN NewIds(ToSet(s)) \cup {n.id}
                                  ELSE NewIds(ToSet(s))
  BY DEF NewIds
<1>9. QED
  BY <1>5, <1>6, <1>7, <1>8

LEMMA MessageEncryptedKeeps ==
    ASSUME ConversationInv, NEW p \in Writers, MessageEncrypted(p)
    PROVE  Kept
<1>1. PICK t \in crypting[p] : MessageEncrypted(p)!(t)
  BY DEF MessageEncrypted
<1> DEFINE q == Partner(p)
           n == Note("message", t.id, t.arg)
<1>2. ListsOK /\ NotesOK /\ NewComesOnce /\ ToldTruly /\ OtherVars
  BY DEF ConversationInv
<1>3. /\ q \in Writers /\ q # p /\ Partner(q) = p
      /\ \A r \in Writers : r = p \/ r = q
  BY TwoWriters
<1>4. NoteOK(t, written) /\ t.type = "send" /\ IsNew(t)
  BY <1>1, <1>2 DEF NotesOK, IsNew
<1>5. /\ n \in Notes /\ NoteOK(n, written) /\ IsNew(n) /\ n.id = t.id
      /\ ~TellsAuthor(n)
  BY <1>4 DEF NoteOK, Note, Notes, NoteTypes, IsNew, TellsAuthor
<1>6. /\ NewIds(crypting[p] \ {t}) \subseteq NewIds(crypting[p])
      /\ t.id \notin NewIds(crypting[p] \ {t})
      /\ SentIds(crypting[p] \ {t}) \subseteq SentIds(crypting[p])
      /\ t.id \notin SentIds(crypting[p] \ {t})
      /\ NewOnce(crypting[p] \ {t})
      /\ t.id \in NewIds(crypting[p]) /\ t.id \in SentIds(crypting[p])
  <2>1. NewOnce(crypting[p])
    BY <1>2 DEF NewComesOnce
  <2>2. QED
    BY <1>1, <1>4, <2>1, FewerNewIds
<1>7. /\ SendNotes(p, <<n>>) /\ crypting' = [crypting EXCEPT ![p] = @ \ {t}]
      /\ Show(p, WithMessage(messages[p], t.id, NewMessage(messages[p], 1, TRUE, t.arg)))
      /\ UNCHANGED <<history, ops, withdrawn>>
  BY <1>1
<1> HIDE DEF n
<1>8. /\ DOMAIN messages' = Writers
      /\ DOMAIN messages'[p] = DOMAIN messages[p] \cup {t.id}
      /\ \A r \in Writers : r # p => messages'[r] = messages[r]
      /\ shown' \in [Writers -> SUBSET Ids]
      /\ \A r \in Writers :
            /\ ListOK(messages'[r]) /\ NotTakenBack(messages[r], messages'[r])
            /\ DOMAIN messages'[r] \subseteq shown'[r]
            /\ shown[r] \subseteq shown'[r] /\ shown'[r] \subseteq 1 .. written
            /\ TruthfulList(r, messages'[r])
  BY <1>4, <1>7, ShowsNewMessage
<1>9. t.id \notin NewIds(ToSet(inbox[q]))
  BY <1>2, <1>6, WhereNewIs
<1>10. /\ DOMAIN inbox' = Writers
       /\ inbox'[q] \in Seq(Notes) /\ NewOnceIn(inbox'[q])
       /\ ToSet(inbox'[q]) = ToSet(inbox[q]) \cup {n}
       /\ NewIds(ToSet(inbox'[q])) = NewIds(ToSet(inbox[q])) \cup {t.id}
       /\ inbox'[p] = inbox[p]
  BY <1>3, <1>5, <1>7, <1>9, SendsOne
<1>11. /\ DOMAIN crypting' = Writers /\ crypting'[p] = crypting[p] \ {t}
       /\ crypting'[q] = crypting[q]
  BY <1>2, <1>3, <1>7 DEF NotesOK
<1>12. written' = written
  BY <1>7 DEF history
<1>13. ListsOK'
  BY <1>2, <1>8, <1>12 DEF ListsOK
<1>14. NotesOK'
  <2>1. \A r \in Writers : /\ inbox'[r] \in Seq(Notes)
                           /\ \A m \in ToSet(inbox'[r]) \cup crypting'[r] : NoteOK(m, written)
    BY <1>2, <1>3, <1>5, <1>10, <1>11 DEF NotesOK
  <2>2. QED
    BY <1>10, <1>11, <1>12, <2>1 DEF NotesOK
<1>15. ToldTruly'
  <2>1. \A r \in Writers : \A m \in ToSet(inbox'[r]) :
            TellsAuthor(m) => m.id \in shown[Partner(r)]
    BY <1>2, <1>3, <1>5, <1>10 DEF ToldTruly
  <2>2. QED
    BY <1>3, <1>8, <2>1, TwoWriters DEF ToldTruly, TruthfulList
<1>16. NewComesOnce'
  <2>1. /\ NewOnceIn(inbox[p]) /\ NewOnce(crypting[p])
        /\ NewIds(ToSet(inbox[p])) \cap NewIds(crypting[p]) = {}
        /\ NewIds(ToSet(inbox[p])) \cap DOMAIN messages[p] = {}
        /\ NewIds(crypting[p]) \cap DOMAIN messages[p] = {}
        /\ SentIds(crypting[p]) \cap NewIds(ToSet(inbox[q])) = {}
        /\ SentIds(crypting[p]) \cap NewIds(crypting[q]) = {}
        /\ SentIds(crypting[p]) \cap DOMAIN messages[q] = {}
    BY <1>2, WhereNewIs
  <2>2. /\ NewOnceIn(inbox[q]) /\ NewOnce(crypting[q])
        /\ NewIds(ToSet(inbox[q])) \cap NewIds(crypting[q]) = {}
        /\ NewIds(ToSet(inbox[q])) \cap DOMAIN messages[q] = {}
        /\ NewIds(crypting[q]) \cap DOMAIN messages[q] = {}
        /\ SentIds(crypting[q]) \cap NewIds(ToSet(inbox[p])) = {}
        /\ SentIds(crypting[q]) \cap NewIds(crypting[p]) = {}
        /\ SentIds(crypting[q]) \cap DOMAIN messages[p] = {}
        /\ SentIds(crypting[q]) \subseteq NewIds(crypting[q])
    BY <1>2, <1>3, WhereNewIs
  <2>3. /\ DOMAIN messages'[p] = DOMAIN messages[p] \cup {t.id}
        /\ DOMAIN messages'[q] = DOMAIN messages[q]
        /\ inbox'[p] = inbox[p] /\ crypting'[q] = crypting[q]
        /\ NewIds(ToSet(inbox'[q])) = NewIds(ToSet(inbox[q])) \cup {t.id}
    BY <1>3, <1>8, <1>10, <1>11
  <2>4. /\ NewIds(crypting'[p]) \subseteq NewIds(crypting[p])
        /\ t.id \notin NewIds(crypting'[p])
        /\ SentIds(crypting'[p]) \subseteq SentIds(crypting[p])
        /\ t.id \notin SentIds(crypting'[p]) /\ NewOnce(crypting'[p])
        /\ t.id \in NewIds(crypting[p]) /\ t.id \in SentIds(crypting[p])
        /\ NewOnceIn(inbox'[q])
    BY <1>6, <1>10, <1>11
  <2> HIDE DEF q
  <2>5. /\ NewOnceIn(inbox'[p]) /\ NewOnce(crypting'[p])
        /\ NewIds(ToSet(inbox'[p])) \cap NewIds(crypting'[p]) = {}
        /\ NewIds(ToSet(inbox'[p])) \cap DOMAIN messages'[p] = {}
        /\ NewIds(crypting'[p]) \cap DOMAIN messages'[p] = {}
    BY <2>1, <2>2, <2>3, <2>4
  <2>6. /\ SentIds(crypting'[p]) \cap NewIds(ToSet(inbox'[q])) = {}
        /\ SentIds(crypting'[p]) \cap NewIds(crypting'[q]) = {}
        /\ SentIds(crypting'[p]) \cap DOMAIN messages'[q] = {}
    BY <2>1, <2>2, <2>3, <2>4
  <2>7. /\ NewOnceIn(inbox'[q]) /\ NewOnce(crypting'[q])
        /\ NewIds(ToSet(inbox'[q])) \cap NewIds(crypting'[q]) = {}
        /\ NewIds(ToSet(inbox'[q])) \cap DOMAIN messages'[q] = {}
        /\ NewIds(crypting'[q]) \cap DOMAIN messages'[q] = {}
    BY <2>1, <2>2, <2>3, <2>4
  <2>8. /\ SentIds(crypting'[q]) \cap NewIds(ToSet(inbox'[p])) = {}
        /\ SentIds(crypting'[q]) \cap NewIds(crypting'[p]) = {}
        /\ SentIds(crypting'[q]) \cap DOMAIN messages'[p] = {}
    BY <2>1, <2>2, <2>3, <2>4
  <2>9. QED
    BY <1>3, <2>5, <2>6, <2>7, <2>8 DEF NewComesOnce, q
<1>17. OtherVars'
  BY <1>2, <1>7 DEF OtherVars, history
<1>18. QED
  BY <1>8, <1>13, <1>14, <1>15, <1>16, <1>17 DEF ConversationInv, Kept

LEMMA ReceiveCiphertextKeeps ==
    ASSUME ConversationInv, NEW p \in Writers, ReceiveCiphertext(p)
    PROVE  Kept
<1>1. PICK i \in NextPlaces(p) : ReceiveCiphertext(p)!(i)
  BY DEF ReceiveCiphertext
<1> DEFINE f == inbox[p][i]
           q == Partner(p)
<1>2. /\ i \in DOMAIN inbox[p] /\ Take(p, i) /\ f.type \in {"message", "message_edit"}
      /\ crypting' = IF joined[p] THEN [crypting EXCEPT ![p] = @ \cup {f}] ELSE crypting
      /\ UNCHANGED <<history, ops, messages, shown, withdrawn>>
  BY <1>1 DEF NextPlaces
<1>3. /\ PlainInbox /\ f \in ToSet(inbox[p]) /\ NoteOK(f, written)
      /\ IsNew(f) => f.id \notin NewIds(ToSet(inbox'[p]))
  BY <1>2, TakesPlain
<1>4. PlainLists /\ \A r \in Writers : NotTakenBack(messages[r], messages'[r])
  BY <1>2, SameLists
<1>5. OtherVars' /\ written' = written
  BY <1>2 DEF ConversationInv, OtherVars, history
<1>6. CASE ~joined[p]
  <2>1. PlainCrypting
    BY <1>2, <1>6, SameCrypting
  <2>2. QED
    BY <1>3, <1>4, <1>5, <2>1, KeptByPlainStep
<1>7. CASE joined[p] /\ f.type = "message_edit"
  <2>1. ~IsNew(f)
    BY <1>7 DEF IsNew
  <2>2. crypting' = [crypting EXCEPT ![p] = @ \cup {f}]
    BY <1>2, <1>7
  <2> HIDE DEF f
  <2>3. PlainCrypting
    BY <1>3, <2>1, <2>2, MoreCrypting
  <2>4. QED
    BY <1>3, <1>4, <1>5, <2>3, KeptByPlainStep
<1>8. CASE joined[p] /\ f.type = "message"
  <2>1. IsNew(f) /\ f.type # "send"
    BY <1>8 DEF IsNew
  <2>2. crypting' = [crypting EXCEPT ![p] = @ \cup {f}]
    BY <1>2, <1>8
  <2>3. inbox' = [inbox EXCEPT ![p] = RemoveAt(inbox[p], i)]
    BY <1>2 DEF Take
  <2> HIDE DEF f
  <2>4. ListsOK /\ NotesOK /\ NewComesOnce /\ ToldTruly /\ OtherVars
    BY DEF ConversationInv
  <2>5. /\ q \in Writers /\ q # p /\ Partner(q) = p
        /\ \A r \in Writers : r = p \/ r = q
    BY TwoWriters
  <2>6. /\ DOMAIN crypting' = Writers /\ crypting'[p] = crypting[p] \cup {f}
        /\ crypting'[q] = crypting[q] /\ inbox'[q] = inbox[q]
    BY <2>2, <2>3, <2>4, <2>5 DEF NotesOK
  <2>7. ListsOK'
    BY <1>2, <1>5, <2>4 DEF ListsOK
  <2>8. NotesOK'
    <3>1. \A r \in Writers : /\ inbox'[r] \in Seq(Notes)
                             /\ \A m \in ToSet(inbox'[r]) \cup crypting'[r] :
                                   NoteOK(m, written)
      BY <1>3, <2>4, <2>5, <2>6 DEF NotesOK, PlainInbox, PlainNote
    <3>2. QED
      BY <1>3, <1>5, <2>6, <3>1 DEF NotesOK, PlainInbox
  <2>9. ToldTruly'
    BY <1>2, <1>3, <2>4 DEF ToldTruly, PlainInbox, PlainNote
  <2>10. NewComesOnce'
    <3>1. /\ f.id \in NewIds(ToSet(inbox[p]))
          /\ NewIds(ToSet(inbox'[p])) \subseteq NewIds(ToSet(inbox[p]))
      <4>1. \A m \in ToSet(inbox'[p]) : IsNew(m) => m \in ToSet(inbox[p])
        BY <1>3 DEF PlainInbox, PlainNote
      <4>2. QED
        BY <1>3, <2>1, <4>1 DEF NewIds
    <3>2. /\ NewOnceIn(inbox[p]) /\ NewOnce(crypting[p])
          /\ NewIds(ToSet(inbox[p])) \cap NewIds(crypting[p]) = {}
          /\ NewIds(ToSet(inbox[p])) \cap DOMAIN messages[p] = {}
          /\ NewIds(crypting[p]) \cap DOMAIN messages[p] = {}
          /\ SentIds(crypting[p]) \cap NewIds(ToSet(inbox[q])) = {}
          /\ SentIds(crypting[p]) \cap NewIds(crypting[q]) = {}
          /\ SentIds(crypting[p]) \cap DOMAIN messages[q] = {}
      BY <2>4, WhereNewIs
    <3>3. /\ NewOnceIn(inbox[q]) /\ NewOnce(crypting[q])
          /\ NewIds(ToSet(inbox[q])) \cap NewIds(crypting[q]) = {}
          /\ NewIds(ToSet(inbox[q])) \cap DOMAIN messages[q] = {}
          /\ NewIds(crypting[q]) \cap DOMAIN messages[q] = {}
          /\ SentIds(crypting[q]) \cap NewIds(ToSet(inbox[p])) = {}
          /\ SentIds(crypting[q]) \cap NewIds(crypting[p]) = {}
          /\ SentIds(crypting[q]) \cap DOMAIN messages[p] = {}
      BY <2>4, <2>5, WhereNewIs
    <3>4. /\ NewIds(crypting'[p]) = NewIds(crypting[p]) \cup {f.id}
          /\ SentIds(crypting'[p]) = SentIds(crypting[p])
          /\ NewOnce(crypting'[p])
      <4>1. /\ NewIds(crypting[p] \cup {f}) = NewIds(crypting[p]) \cup {f.id}
            /\ SentIds(crypting[p] \cup {f}) =
                  IF f.type = "send" THEN SentIds(crypting[p]) \cup {f.id}
                  ELSE SentIds(crypting[p])
            /\ (NewOnce(crypting[p]) /\ f.id \notin NewIds(crypting[p]))
                  => NewOnce(crypting[p] \cup {f})
        BY <2>1, MoreNewIds
      <4>2. f.id \notin NewIds(crypting[p])
        BY <3>1, <3>2
      <4>3. QED
        BY <2>1, <2>6, <3>2, <4>1, <4>2
    <3>5. /\ messages' = messages /\ NewOnceIn(inbox'[p])
          /\ inbox'[q] = inbox[q] /\ crypting'[q] = crypting[q]
          /\ f.id \notin NewIds(ToSet(inbox'[p]))
      BY <1>2, <1>3, <2>1, <2>6 DEF PlainInbox
    <3> HIDE DEF q
    <3>6. /\ NewOnceIn(inbox'[p]) /\ NewOnce(crypting'[p])
          /\ NewIds(ToSet(inbox'[p])) \cap NewIds(crypting'[p]) = {}
          /\ NewIds(ToSet(inbox'[p])) \cap DOMAIN messages'[p] = {}
          /\ NewIds(crypting'[p]) \cap DOMAIN messages'[p] = {}
      BY <3>1, <3>2, <3>4, <3>5
    <3>7. /\ SentIds(crypting'[p]) \cap NewIds(ToSet(inbox'[q])) = {}
          /\ SentIds(crypting'[p]) \cap NewIds(crypting'[q]) = {}
          /\ SentIds(crypting'[p]) \cap DOMAIN messages'[q] = {}
      BY <3>2, <3>4, <3>5
    <3>8. /\ NewOnceIn(inbox'[q]) /\ NewOnce(crypting'[q])
          /\ NewIds(ToSet(inbox'[q])) \cap NewIds(crypting'[q]) = {}
          /\ NewIds(ToSet(inbox'[q])) \cap DOMAIN messages'[q] = {}
          /\ NewIds(crypting'[q]) \cap DOMAIN messages'[q] = {}
      BY <3>3, <3>5
    <3>9. /\ SentIds(crypting'[q]) \cap NewIds(ToSet(inbox'[p])) = {}
          /\ SentIds(crypting'[q]) \cap NewIds(crypting'[p]) = {}
          /\ SentIds(crypting'[q]) \cap DOMAIN messages'[p] = {}
      BY <3>1, <3>3, <3>4, <3>5
    <3>10. QED
      BY <2>5, <3>6, <3>7, <3>8, <3>9 DEF NewComesOnce, q
  <2>11. QED
    BY <1>4, <1>5, <2>7, <2>8, <2>9, <2>10 DEF ConversationInv, Kept
<1>9. QED
  BY <1>2, <1>6, <1>7, <1>8

LEMMA MessageDecryptedKeeps ==
    ASSUME ConversationInv, NEW p \in Writers, MessageDecrypted(p)
    PROVE  Kept
<1>1. PICK t \in crypting[p] : MessageDecrypted(p)!(t)
  BY DEF MessageDecrypted
<1> DEFINE q == Partner(p)
           n == Note("ack", t.id, NoText)
<1>2. ListsOK /\ NotesOK /\ NewComesOnce /\ ToldTruly /\ OtherVars
  BY DEF ConversationInv
<1>3. /\ q \in Writers /\ q # p /\ Partner(q) = p
      /\ \A r \in Writers : r = p \/ r = q
  BY TwoWriters
<1>4. NoteOK(t, written) /\ t.type = "message" /\ IsNew(t)
  BY <1>1, <1>2 DEF NotesOK, IsNew
<1>5. n \in Notes /\ NoteOK(n, written) /\ ~IsNew(n) /\ n.id = t.id
  BY <1>4, VersionsAreNumbers DEF NoteOK, Note, Notes, NoteTypes, IsNew
<1>6. /\ NewIds(crypting[p] \ {t}) \subseteq NewIds(crypting[p])
      /\ t.id \notin NewIds(crypting[p] \ {t})
      /\ SentIds(crypting[p] \ {t}) \subseteq SentIds(crypting[p])
      /\ NewOnce(crypting[p] \ {t}) /\ t.id \in NewIds(crypting[p])
  <2>1. NewOnce(crypting[p])
    BY <1>2 DEF NewComesOnce
  <2>2. QED
    BY <1>1, <1>4, <2>1, FewerNewIds
<1>7. /\ SendNotes(p, <<n>>) /\ crypting' = [crypting EXCEPT ![p] = @ \ {t}]
      /\ Show(p, WithMessage(messages[p], t.id, NewMessage(messages[p], 1, FALSE, t.arg)))
      /\ UNCHANGED <<history, ops, withdrawn>>
  BY <1>1
<1> HIDE DEF n
<1>8. /\ DOMAIN messages' = Writers
      /\ DOMAIN messages'[p] = DOMAIN messages[p] \cup {t.id}
      /\ \A r \in Writers : r # p => messages'[r] = messages[r]
      /\ shown' \in [Writers -> SUBSET Ids] /\ t.id \in shown'[p]
      /\ \A r \in Writers :
            /\ ListOK(messages'[r]) /\ NotTakenBack(messages[r], messages'[r])
            /\ DOMAIN messages'[r] \subseteq shown'[r]
            /\ shown[r] \subseteq shown'[r] /\ shown'[r] \subseteq 1 .. written
            /\ TruthfulList(r, messages'[r])
  BY <1>4, <1>7, ShowsNewMessage
<1>9. /\ DOMAIN inbox' = Writers
      /\ inbox'[q] \in Seq(Notes) /\ NewOnceIn(inbox'[q])
      /\ ToSet(inbox'[q]) = ToSet(inbox[q]) \cup {n}
      /\ NewIds(ToSet(inbox'[q])) = NewIds(ToSet(inbox[q]))
      /\ inbox'[p] = inbox[p]
  BY <1>3, <1>5, <1>7, SendsOne
<1>10. /\ DOMAIN crypting' = Writers /\ crypting'[p] = crypting[p] \ {t}
       /\ crypting'[q] = crypting[q]
  BY <1>2, <1>3, <1>7 DEF NotesOK
<1>11. written' = written
  BY <1>7 DEF history
<1>12. ListsOK'
  BY <1>2, <1>8, <1>11 DEF ListsOK
<1>13. NotesOK'
  <2>1. \A r \in Writers : /\ inbox'[r] \in Seq(Notes)
                           /\ \A m \in ToSet(inbox'[r]) \cup crypting'[r] : NoteOK(m, written)
    BY <1>2, <1>3, <1>5, <1>9, <1>10 DEF NotesOK
  <2>2. QED
    BY <1>9, <1>10, <1>11, <2>1 DEF NotesOK
<1>14. ToldTruly'
  <2>1. ASSUME NEW r \in Writers, NEW m \in ToSet(inbox'[r]), TellsAuthor(m)
        PROVE  m.id \in shown'[Partner(r)]
    <3>1. CASE m \in ToSet(inbox[r])
      <4>1. m.id \in shown[Partner(r)] /\ Partner(r) \in Writers
        BY <1>2, <2>1, <3>1, TwoWriters DEF ToldTruly
      <4>2. QED
        BY <1>8, <4>1
    <3>2. CASE m \notin ToSet(inbox[r])
      <4>1. r = q /\ m = n
        BY <1>3, <1>9, <2>1, <3>2
      <4>2. QED
        BY <1>3, <1>5, <1>8, <4>1
    <3>3. QED
      BY <3>1, <3>2
  <2>2. \A r \in Writers : TruthfulList(r, messages'[r]) /\ Partner(r) \in Writers
    BY <1>8, TwoWriters
  <2>3. QED
    BY <1>8, <2>1, <2>2 DEF ToldTruly, TruthfulList
<1>15. NewComesOnce'
  <2>1. /\ NewOnceIn(inbox[p]) /\ NewOnce(crypting[p])
        /\ NewIds(ToSet(inbox[p])) \cap NewIds(crypting[p]) = {}
        /\ NewIds(ToSet(inbox[p])) \cap DOMAIN messages[p] = {}
        /\ NewIds(crypting[p]) \cap DOMAIN messages[p] = {}
        /\ SentIds(crypting[p]) \cap NewIds(ToSet(inbox[q])) = {}
        /\ SentIds(crypting[p]) \cap NewIds(crypting[q]) = {}
        /\ SentIds(crypting[p]) \cap DOMAIN messages[q] = {}
    BY <1>2, WhereNewIs
  <2>2. /\ NewOnceIn(inbox[q]) /\ NewOnce(crypting[q])
        /\ NewIds(ToSet(inbox[q])) \cap NewIds(crypting[q]) = {}
        /\ NewIds(ToSet(inbox[q])) \cap DOMAIN messages[q] = {}
        /\ NewIds(crypting[q]) \cap DOMAIN messages[q] = {}
        /\ SentIds(crypting[q]) \cap NewIds(ToSet(inbox[p])) = {}
        /\ SentIds(crypting[q]) \cap NewIds(crypting[p]) = {}
        /\ SentIds(crypting[q]) \cap DOMAIN messages[p] = {}
    BY <1>2, <1>3, WhereNewIs
  <2>3. /\ DOMAIN messages'[p] = DOMAIN messages[p] \cup {t.id}
        /\ DOMAIN messages'[q] = DOMAIN messages[q]
        /\ inbox'[p] = inbox[p] /\ crypting'[q] = crypting[q]
        /\ NewIds(ToSet(inbox'[q])) = NewIds(ToSet(inbox[q])) /\ NewOnceIn(inbox'[q])
    BY <1>3, <1>8, <1>9, <1>10
  <2>4. /\ NewIds(crypting'[p]) \subseteq NewIds(crypting[p])
        /\ t.id \notin NewIds(crypting'[p])
        /\ SentIds(crypting'[p]) \subseteq SentIds(crypting[p])
        /\ NewOnce(crypting'[p]) /\ t.id \in NewIds(crypting[p])
    BY <1>6, <1>10
  <2> HIDE DEF q
  <2>5. /\ NewOnceIn(inbox'[p]) /\ NewOnce(crypting'[p])
        /\ NewIds(ToSet(inbox'[p])) \cap NewIds(crypting'[p]) = {}
        /\ NewIds(ToSet(inbox'[p])) \cap DOMAIN messages'[p] = {}
        /\ NewIds(crypting'[p]) \cap DOMAIN messages'[p] = {}
    BY <2>1, <2>2, <2>3, <2>4
  <2>6. /\ SentIds(crypting'[p]) \cap NewIds(ToSet(inbox'[q])) = {}
        /\ SentIds(crypting'[p]) \cap NewIds(crypting'[q]) = {}
        /\ SentIds(crypting'[p]) \cap DOMAIN messages'[q] = {}
    BY <2>1, <2>3, <2>4
  <2>7. /\ NewOnceIn(inbox'[q]) /\ NewOnce(crypting'[q])
        /\ NewIds(ToSet(inbox'[q])) \cap NewIds(crypting'[q]) = {}
        /\ NewIds(ToSet(inbox'[q])) \cap DOMAIN messages'[q] = {}
        /\ NewIds(crypting'[q]) \cap DOMAIN messages'[q] = {}
    BY <2>2, <2>3
  <2>8. /\ SentIds(crypting'[q]) \cap NewIds(ToSet(inbox'[p])) = {}
        /\ SentIds(crypting'[q]) \cap NewIds(crypting'[p]) = {}
        /\ SentIds(crypting'[q]) \cap DOMAIN messages'[p] = {}
    BY <2>2, <2>3, <2>4
  <2>9. QED
    BY <1>3, <2>5, <2>6, <2>7, <2>8 DEF NewComesOnce, q
<1>16. OtherVars'
  BY <1>2, <1>7 DEF OtherVars, history
<1>17. QED
  BY <1>8, <1>12, <1>13, <1>14, <1>15, <1>16 DEF ConversationInv, Kept

-----------------------------------------------------------------------------
(* The invariant holds from the start and is kept.                         *)

LEMMA InitialInv == ConversationInit => ConversationInv
<1> SUFFICES ASSUME ConversationInit
             PROVE  ConversationInv
  OBVIOUS
<1> DEFINE first(a, p) ==
        [text |-> 1, isOwn |-> p = a, isDeleted |-> FALSE,
         deliveryStatus |-> IF p = a THEN "delivered" ELSE "none",
         replyTo |-> NoPreview, reactions |-> [e \in Emojis |-> {}]]
<1>1. /\ shown = [p \in Writers |-> DOMAIN messages[p]]
      /\ inbox = [p \in Writers |-> <<>>] /\ crypting = [p \in Writers |-> {}]
      /\ written = Cardinality(UNION {DOMAIN messages[p] : p \in Writers})
      /\ calm \in BOOLEAN /\ ops = 0 /\ withdrawn = {}
  BY DEF ConversationInit
<1>2. PICK w \in Writers : TRUE
  <2>1. Writers # {}
    BY ConversationAssumption, FS_EmptySet
  <2>2. QED
    BY <2>1
<1>3. \/ messages = [p \in Writers |-> <<>>]
      \/ \E author \in Writers : messages = Delivered(author)
  BY DEF ConversationInit
<1>4. /\ DOMAIN messages = Writers /\ written \in {0, 1}
      /\ \A p \in Writers : DOMAIN messages[p] = 1 .. written /\ ListOK(messages[p])
  <2>1. CASE messages = [p \in Writers |-> <<>>]
    <3>1. DOMAIN messages = Writers /\ \A p \in Writers : messages[p] = <<>>
      BY <2>1
    <3>2. DOMAIN <<>> = {} /\ 1 .. 0 = {}
      OBVIOUS
    <3>3. UNION {DOMAIN messages[p] : p \in Writers} = {}
      BY <3>1, <3>2
    <3>4. written = 0
      BY <1>1, <3>3, FS_EmptySet
    <3>5. QED
      BY <3>1, <3>2, <3>4 DEF ListOK
  <2>2. CASE \E author \in Writers : messages = Delivered(author)
    <3>1. PICK a \in Writers : messages = Delivered(a)
      BY <2>2
    <3>2. DOMAIN messages = Writers /\ \A p \in Writers : messages[p] = <<first(a, p)>>
      BY <3>1 DEF Delivered
    <3>3. \A p \in Writers : first(a, p) \in Message /\ first(a, p).replyTo = NoPreview
      BY VersionsAreNumbers DEF Message, Statuses, Preview, NoPreview
    <3> HIDE DEF first
    <3>4. \A p \in Writers : DOMAIN messages[p] = {1} /\ messages[p][1] = first(a, p)
      BY <3>2
    <3>5. UNION {DOMAIN messages[p] : p \in Writers} = {1}
      BY <1>2, <3>4
    <3>6. written = 1 /\ {1} = 1 .. written
      <4>1. Cardinality({1}) = 1
        BY FS_Singleton
      <4>2. written = 1
        BY <1>1, <3>5, <4>1
      <4>3. {1} = 1 .. 1
        OBVIOUS
      <4>4. QED
        BY <4>2, <4>3
    <3>7. 1 \in Ids
      BY ConversationAssumption DEF Ids
    <3>8. \A p \in Writers : ListOK(messages[p])
      BY <3>3, <3>4, <3>7 DEF ListOK, QuoteOK, NoPreview
    <3>9. QED
      BY <3>2, <3>4, <3>6, <3>8
  <2>3. QED
    BY <1>3, <2>1, <2>2
<1>5. 1 .. written \subseteq Ids /\ written \in 0 .. MaxMessages
  BY <1>4, ConversationAssumption DEF Ids
<1>6. ListsOK
  BY <1>1, <1>4, <1>5 DEF ListsOK
<1>7. ToSet(<<>>) = {} /\ NewIds({}) = {} /\ SentIds({}) = {} /\ NewOnce({})
      /\ NewOnceIn(<<>>) /\ <<>> \in Seq(Notes)
  BY DEF ToSet, NewIds, SentIds, NewOnce, NewOnceIn
<1>8. \A p \in Writers : inbox[p] = <<>> /\ crypting[p] = {} /\ Partner(p) \in Writers
  BY <1>1, TwoWriters
<1>9. NotesOK
  BY <1>1, <1>7, <1>8 DEF NotesOK
<1>10. NewComesOnce
  BY <1>7, <1>8 DEF NewComesOnce
<1>11. ToldTruly
  <2>1. \A p \in Writers : shown[Partner(p)] = DOMAIN messages[p]
    BY <1>1, <1>4, <1>8
  <2>2. QED
    BY <1>7, <1>8, <2>1 DEF ToldTruly
<1>12. OtherVars
  BY <1>1, ConversationAssumption DEF OtherVars
<1>13. QED
  BY <1>6, <1>9, <1>10, <1>11, <1>12 DEF ConversationInv

LEMMA StepKeepsInv ==
    ConversationInv /\ [ConversationNext]_conversationVars => Kept
<1> SUFFICES ASSUME ConversationInv, [ConversationNext]_conversationVars
             PROVE  Kept
  OBVIOUS
<1>1. ASSUME NEW p \in Writers,
             \/ StartMessage(p) \/ MessageEncrypted(p)
             \/ StartEdit(p) \/ EditEncrypted(p) \/ DeleteMessage(p)
             \/ AddReaction(p) \/ RemoveReaction(p) \/ MarkAsRead(p)
             \/ ReceiveCiphertext(p) \/ MessageDecrypted(p) \/ EditDecrypted(p)
             \/ ReceivePlain(p) \/ PeerGone(p)
      PROVE  Kept
  BY <1>1, StartMessageKeeps, MessageEncryptedKeeps, StartEditKeeps,
     EditEncryptedKeeps, DeleteMessageKeeps, AddReactionKeeps, RemoveReactionKeeps,
     MarkAsReadKeeps, ReceiveCiphertextKeeps, MessageDecryptedKeeps,
     EditDecryptedKeeps, ReceivePlainKeeps, PeerGoneKeeps
<1>2. CASE UNCHANGED conversationVars
  <2>1. \A p \in Writers : NotTakenBack(messages[p], messages'[p])
    BY <1>2, SameLists DEF conversationVars
  <2>2. ConversationInv'
    BY <1>2 DEF conversationVars, ConversationInv, ListsOK, NotesOK, NewComesOnce,
                ToldTruly, OtherVars
  <2>3. QED
    BY <2>1, <2>2 DEF Kept
<1>3. QED
  BY <1>1, <1>2 DEF ConversationNext

\* What follows is proved from this: lists are well formed, a message comes to a
\* list once, and what authors are told is true (the updaters of useChatSession.ts
\* and useIncomingMessageHandlers.ts).
THEOREM ConversationInvHolds == ConversationSpec => []ConversationInv
<1>1. ConversationInit => ConversationInv
  BY InitialInv
<1>2. ConversationInv /\ [ConversationNext]_conversationVars => ConversationInv'
  BY StepKeepsInv DEF Kept
<1>3. QED
  BY <1>1, <1>2, PTL DEF ConversationSpec

\* A list holds messages that were sent and that its window has shown, whatever
\* was edited, deleted, reacted to, read or lost (ChatMessage, useChatSession.ts).
THEOREM ConversationTypeOKHolds == ConversationSpec => []ConversationTypeOK
<1>1. ConversationInv => ConversationTypeOK
  <2> SUFFICES ASSUME ConversationInv
               PROVE  ConversationTypeOK
    OBVIOUS
  <2>1. calm \in BOOLEAN /\ ops \in 0 .. MaxOps /\ written \in 0 .. MaxMessages
        /\ withdrawn \subseteq 1 .. written
    BY DEF ConversationInv, ListsOK, OtherVars
  <2>2. ASSUME NEW p \in Writers
        PROVE  /\ DOMAIN messages[p] \subseteq 1 .. written
               /\ \A id \in DOMAIN messages[p] : messages[p][id] \in Message
               /\ DOMAIN messages[p] \subseteq shown[p]
    BY ListedMessages
  <2>3. QED
    BY <2>1, <2>2 DEF ConversationTypeOK
<1>2. QED
  BY <1>1, ConversationInvHolds, PTL

\* An author who sees a message as delivered or read is right: the partner's
\* window has shown it (handleMessageAck and handleMessageRead, in any order and
\* number, after any reset).
THEOREM DeliveryIsTruthfulHolds == ConversationSpec => []DeliveryIsTruthful
<1>1. ConversationInv => DeliveryIsTruthful
  BY DEF ConversationInv, ToldTruly, DeliveryIsTruthful
<1>2. QED
  BY <1>1, ConversationInvHolds, PTL

\* A quotation says what the quoted message of the list says, since the edit and
\* delete updaters change both and a new message quotes the list as it is.
THEOREM PreviewFollowsTargetHolds == ConversationSpec => []PreviewFollowsTarget
<1>1. ConversationInv => PreviewFollowsTarget
  <2> SUFFICES ASSUME ConversationInv, NEW p \in Writers, NEW id \in DOMAIN messages[p],
                      messages[p][id].replyTo.id \in DOMAIN messages[p]
               PROVE  messages[p][id].replyTo =
                         PreviewOf(messages[p], messages[p][id].replyTo.id)
    BY DEF PreviewFollowsTarget
  <2> DEFINE l == messages[p]
             quoted == l[id].replyTo
  <2>1. ListOK(l)
    BY ListedMessages
  <2>2. quoted \in Preview /\ quoted.id \in Ids /\ QuoteOK(l, id)
    BY <2>1 DEF ListOK, Message
  <2>3. quoted.id # NoMessage
    BY <2>2 DEF Ids, NoMessage
  <2>4. quoted.text = l[quoted.id].text /\ quoted.isDeleted = l[quoted.id].isDeleted
    BY <2>2, <2>3 DEF QuoteOK
  <2>5. PreviewOf(l, quoted.id) = [id |-> quoted.id, text |-> l[quoted.id].text,
                                   isDeleted |-> l[quoted.id].isDeleted]
    BY DEF PreviewOf
  <2> HIDE DEF quoted
  <2>6. quoted = [id |-> quoted.id, text |-> quoted.text,
                  isDeleted |-> quoted.isDeleted]
    BY <2>2 DEF Preview
  <2>7. QED
    BY <2>4, <2>5, <2>6 DEF quoted
<1>2. QED
  BY <1>1, ConversationInvHolds, PTL

\* The status of a message never goes back from read to delivered or from
\* delivered to sending, however late an acknowledgement comes (handleMessageAck
\* only moves a message that is being sent).
THEOREM StatusNeverRegressesHolds == ConversationSpec => StatusNeverRegresses
<1>1. ConversationInv /\ [ConversationNext]_conversationVars =>
         [\A p \in Writers : \A id \in DOMAIN messages[p] \cap DOMAIN messages'[p] :
             StatusRank(messages[p][id].deliveryStatus)
                <= StatusRank(messages'[p][id].deliveryStatus)]_conversationVars
  BY StepKeepsInv DEF Kept, NotTakenBack
<1>2. QED
  BY <1>1, ConversationInvHolds, PTL DEF ConversationSpec, StatusNeverRegresses

-----------------------------------------------------------------------------
(* Both windows in a calm conversation.  What comes to a window is a queue:   *)
(* the frame that is being decrypted, and the inbox behind it.               *)

IsCipher(n) == n.type \in {"message", "message_edit"}
Decrypting(p) == {t \in crypting[p] : IsCipher(t)}
Queue(D, s) == IF D = {} THEN s ELSE <<CHOOSE t \in D : TRUE>> \o s
Coming(p) == Queue(Decrypting(p), inbox[p])

\* The last of the notes K in the queue C is x; if there is none, b holds.
Settled(C, K, x, b) ==
    /\ \A i \in DOMAIN C :
          C[i] \in K /\ (\A j \in DOMAIN C : j > i => C[j] \notin K) => C[i] = x
    /\ (\A i \in DOMAIN C : C[i] \notin K) => b

\* The list l of one window, the list k of its partner, and the queue C of what
\* comes to the partner: a message is in both lists or on its way, and what
\* changes it comes after it.
IsMessage(n, id) == n.type = "message" /\ n.id = id
Changes == {"message_edit", "message_delete", "add", "remove"}

MessagesArrive(l, k, C) ==
    /\ \A id \in DOMAIN l :
          \/ id \in DOMAIN k
          \/ l[id].isOwn /\ \E i \in DOMAIN C : IsMessage(C[i], id)
    /\ \A id \in DOMAIN l \cap DOMAIN k : l[id].isOwn = ~k[id].isOwn
    /\ \A i \in DOMAIN C :
          /\ C[i].type \in Changes \cup {"message"} => C[i].id \in DOMAIN l
          /\ C[i].type \in {"message", "message_edit", "message_delete"}
                => l[C[i].id].isOwn
          /\ C[i].type \in Changes =>
                \/ C[i].id \in DOMAIN k
                \/ \E j \in DOMAIN C : j < i /\ IsMessage(C[j], C[i].id)

\* The last of the notes about a reaction of p tells what p shows.
Reacts(l, id, e, p) == id \in DOMAIN l /\ p \in l[id].reactions[e]
Reaction(id, e, adds) == Note(IF adds THEN "add" ELSE "remove", id, e)
Reactions(id, e) == {Reaction(id, e, adds) : adds \in BOOLEAN}
ReactionsFollow(p, l, k, C) == \A id \in Ids, e \in Emojis :
    Settled(C, Reactions(id, e), Reaction(id, e, Reacts(l, id, e, p)),
            Reacts(k, id, e, p) = Reacts(l, id, e, p))

\* The last edit of a message says what its author sees.
Edits(id) == {Note("message_edit", id, text) : text \in Versions}
TextsFollow(l, k, C) == \A id \in DOMAIN l : l[id].isOwn /\ ~l[id].isDeleted =>
    Settled(C, Edits(id), Note("message_edit", id, l[id].text),
            IF id \in DOMAIN k THEN k[id].isDeleted \/ k[id].text = l[id].text
                               ELSE l[id].text = 1)

\* What was deleted for both is deleted, or its deletion is on its way.
DeletionsFollow(gone, k, C) == \A id \in gone :
    \/ id \in DOMAIN k /\ k[id].isDeleted
    \/ \E i \in DOMAIN C : C[i] = Note("message_delete", id, NoText)

Follows(p, l, k, C, gone) ==
    /\ MessagesArrive(l, k, C) /\ ReactionsFollow(p, l, k, C)
    /\ TextsFollow(l, k, C) /\ DeletionsFollow(gone, k, C)

\* What a window sends, and where it says what the other one is to show.
SentNotes == {n \in Notes :
    /\ n.type \notin {"send", "edit"}
    /\ n.type = "message_edit" => n.arg \in Versions
    /\ n.type = "message_delete" => n.arg = NoText
    /\ n.type \in {"add", "remove"} => n.arg \in Emojis}

\* One frame is decrypted at a time, and only an own message is being edited.
OneDecrypted(p) == \A s, t \in Decrypting(p) : s = t
EditsAreOwn(p) == \A t \in crypting[p] : t.type = "edit" =>
    t.id \in DOMAIN messages[p] /\ messages[p][t.id].isOwn

Together == calm /\ \A p \in Writers : joined[p]
Views == \A p \in Writers :
    /\ Coming(p) \in Seq(SentNotes) /\ OneDecrypted(p) /\ EditsAreOwn(p)
    /\ Follows(p, messages[p], messages[Partner(p)], Coming(Partner(p)), withdrawn)
ViewsInv == DOMAIN joined = Writers /\ (Together => Views)

-----------------------------------------------------------------------------
(* Queues.                                                                 *)

LEMMA AppendedQueue ==
    ASSUME NEW S, NEW C \in Seq(S), NEW x \in S
    PROVE  /\ Append(C, x) \in Seq(S) /\ Len(C) \in Nat /\ DOMAIN C = 1 .. Len(C)
           /\ DOMAIN Append(C, x) = 1 .. Len(C) + 1
           /\ Append(C, x)[Len(C) + 1] = x
           /\ \A i \in 1 .. Len(C) : Append(C, x)[i] = C[i]
OBVIOUS

LEMMA TailOfQueue ==
    ASSUME NEW S, NEW C \in Seq(S), C # <<>>
    PROVE  /\ Tail(C) \in Seq(S) /\ Len(C) \in Nat /\ DOMAIN C = 1 .. Len(C)
           /\ 1 \in DOMAIN C /\ DOMAIN Tail(C) = 1 .. Len(C) - 1
           /\ \A i \in 1 .. Len(C) - 1 : Tail(C)[i] = C[i + 1]
<1>1. Len(C) \in Nat /\ Len(C) # 0 /\ DOMAIN C = 1 .. Len(C)
  OBVIOUS
<1>2. Tail(C) \in Seq(S) /\ Len(Tail(C)) = Len(C) - 1
      /\ \A i \in 1 .. Len(C) - 1 : Tail(C)[i] = C[i + 1]
  OBVIOUS
<1>3. QED
  BY <1>1, <1>2

LEMMA SettledMore ==
    ASSUME NEW C, NEW K, NEW x, NEW b, NEW c, Settled(C, K, x, b), b => c
    PROVE  Settled(C, K, x, c)
BY DEF Settled

\* A note of another kind changes nothing when it is sent; one of the kind settles.
LEMMA SettledBySending ==
    ASSUME NEW S, NEW C \in Seq(S), NEW K, NEW x, NEW b, NEW n \in S,
           IF n \in K THEN n = x ELSE Settled(C, K, x, b)
    PROVE  Settled(Append(C, n), K, x, b)
<1> DEFINE D == Append(C, n)
           m == Len(C)
<1>1. /\ m \in Nat /\ DOMAIN C = 1 .. m /\ DOMAIN D = 1 .. m + 1 /\ D[m + 1] = n
      /\ \A i \in 1 .. m : D[i] = C[i]
  BY AppendedQueue
<1> HIDE DEF D, m
<1>2. m + 1 \in DOMAIN D /\ \A i \in 1 .. m : i \in DOMAIN D /\ m + 1 > i
  BY <1>1
<1>3. \A i \in DOMAIN D : i = m + 1 \/ i \in 1 .. m
  BY <1>1
<1>4. CASE n \in K
  <2>1. ASSUME NEW i \in DOMAIN D, D[i] \in K,
               \A j \in DOMAIN D : j > i => D[j] \notin K
        PROVE  D[i] = x
    BY <1>1, <1>2, <1>3, <1>4, <2>1
  <2>2. QED
    BY <1>1, <1>2, <1>4, <2>1 DEF Settled, D
<1>5. CASE n \notin K
  <2>1. Settled(C, K, x, b)
    BY <1>5
  <2>2. ASSUME NEW i \in DOMAIN D, D[i] \in K,
               \A j \in DOMAIN D : j > i => D[j] \notin K
        PROVE  D[i] = x
    <3>1. i \in 1 .. m
      BY <1>1, <1>3, <1>5, <2>2
    <3>2. \A j \in DOMAIN C : j > i => C[j] \notin K
      BY <1>1, <1>2, <2>2
    <3>3. QED
      BY <1>1, <2>1, <2>2, <3>1, <3>2 DEF Settled
  <2>3. (\A i \in DOMAIN D : D[i] \notin K) => b
    BY <1>1, <1>2, <2>1 DEF Settled
  <2>4. QED
    BY <2>2, <2>3 DEF Settled, D
<1>6. QED
  BY <1>4, <1>5

\* Taking the last note of a kind leaves what it has told.
LEMMA SettledByTaking ==
    ASSUME NEW S, NEW C \in Seq(S), C # <<>>, NEW K, NEW x, NEW b, NEW c,
           Settled(C, K, x, b), IF C[1] \in K THEN C[1] = x => c ELSE b => c
    PROVE  Settled(Tail(C), K, x, c)
<1> DEFINE D == Tail(C)
           m == Len(C)
<1>1. /\ m \in Nat /\ DOMAIN C = 1 .. m /\ 1 \in DOMAIN C /\ DOMAIN D = 1 .. m - 1
      /\ \A i \in 1 .. m - 1 : D[i] = C[i + 1]
  BY TailOfQueue
<1> HIDE DEF D, m
<1>2. \A i \in DOMAIN C : i # 1 => i - 1 \in DOMAIN D /\ D[i - 1] = C[i]
  BY <1>1
<1>3. \A i \in DOMAIN D : i + 1 \in DOMAIN C /\ i + 1 # 1 /\ D[i] = C[i + 1]
  BY <1>1
<1>4. ASSUME NEW i \in DOMAIN D, D[i] \in K,
             \A j \in DOMAIN D : j > i => D[j] \notin K
      PROVE  D[i] = x
  <2>1. ASSUME NEW j \in DOMAIN C, j > i + 1
        PROVE  C[j] \notin K
    <3>1. j # 1 /\ j - 1 > i
      BY <1>1, <2>1
    <3>2. QED
      BY <1>2, <1>4, <3>1
  <2>2. QED
    BY <1>3, <1>4, <2>1 DEF Settled
<1>5. ASSUME \A i \in DOMAIN D : D[i] \notin K
      PROVE  c
  <2>1. \A i \in DOMAIN C : i # 1 => C[i] \notin K
    BY <1>2, <1>5
  <2>2. CASE C[1] \in K
    <3>1. \A j \in DOMAIN C : j > 1 => C[j] \notin K
      BY <2>1
    <3>2. C[1] = x
      BY <1>1, <2>2, <3>1 DEF Settled
    <3>3. QED
      BY <2>2, <3>2
  <2>3. CASE C[1] \notin K
    BY <2>1, <2>3 DEF Settled
  <2>4. QED
    BY <2>2, <2>3
<1>6. QED
  BY <1>4, <1>5 DEF Settled, D

\* The queue D is C without its first note or with one more, none of these types,
\* or it is C.
Passes(C, D, types) ==
    \/ D = C
    \/ \E n \in Notes : n.type \notin types /\ D = Append(C, n)
    \/ C # <<>> /\ C[1].type \notin types /\ D = Tail(C)

LEMMA SettledByPassing ==
    ASSUME NEW C \in Seq(Notes), NEW D, NEW types, Passes(C, D, types),
           NEW K, \A n \in K : n.type \in types, NEW x, NEW b, NEW c,
           Settled(C, K, x, b), b => c
    PROVE  Settled(D, K, x, c)
<1>1. Settled(C, K, x, c)
  BY DEF Settled
<1> DEFINE N == Notes
<1>2. C \in Seq(N)
  OBVIOUS
<1> HIDE DEF N
<1>3. ASSUME NEW n \in N, n.type \notin types, D = Append(C, n)
      PROVE  Settled(D, K, x, c)
  BY <1>1, <1>2, <1>3, SettledBySending
<1>4. ASSUME C # <<>>, C[1].type \notin types, D = Tail(C)
      PROVE  Settled(D, K, x, c)
  <2>1. C[1] \notin K
    BY <1>4
  <2>2. QED
    BY <1>2, <1>4, <2>1, SettledByTaking
<1>5. QED
  BY <1>1, <1>3, <1>4 DEF Passes, N

-----------------------------------------------------------------------------
(* Messages arrive.                                                        *)

SameShape(l, m) == DOMAIN m = DOMAIN l /\ \A i \in DOMAIN l : m[i].isOwn = l[i].isOwn

\* A note that changes a message is sent by who has it and comes after it.
LEMMA ArriveBySending ==
    ASSUME NEW C \in Seq(Notes), NEW l, NEW k, MessagesArrive(l, k, C),
           NEW m, SameShape(l, m), NEW j, SameShape(k, j), NEW n \in Notes,
           n.type # "message", n.type \in Changes => n.id \in DOMAIN l,
           n.type \in {"message_edit", "message_delete"} => l[n.id].isOwn
    PROVE  MessagesArrive(m, j, Append(C, n))
<1> DEFINE N == Notes
           D == Append(C, n)
           z == Len(C)
<1>1. C \in Seq(N) /\ n \in N
  OBVIOUS
<1> HIDE DEF N
<1>2. /\ z \in Nat /\ DOMAIN C = 1 .. z /\ DOMAIN D = 1 .. z + 1 /\ D[z + 1] = n
      /\ \A i \in 1 .. z : D[i] = C[i]
  BY <1>1, AppendedQueue
<1> HIDE DEF D, z
<1>3. \A i \in DOMAIN D : i = z + 1 \/ i \in DOMAIN C
  BY <1>2
<1>4. \A i \in DOMAIN C : i \in DOMAIN D /\ D[i] = C[i] /\ i < z + 1
  BY <1>2
<1>5. \A id \in DOMAIN m :
          \/ id \in DOMAIN j
          \/ m[id].isOwn /\ \E i \in DOMAIN D : IsMessage(D[i], id)
  BY <1>4 DEF MessagesArrive, SameShape
<1>6. \A id \in DOMAIN m \cap DOMAIN j : m[id].isOwn = ~j[id].isOwn
  BY DEF MessagesArrive, SameShape
<1>7. ASSUME NEW i \in DOMAIN D
      PROVE  /\ D[i].type \in Changes \cup {"message"} => D[i].id \in DOMAIN m
             /\ D[i].type \in {"message", "message_edit", "message_delete"}
                   => m[D[i].id].isOwn
             /\ D[i].type \in Changes =>
                   \/ D[i].id \in DOMAIN j
                   \/ \E h \in DOMAIN D : h < i /\ IsMessage(D[h], D[i].id)
  <2>1. CASE i \in DOMAIN C
    <3>1. /\ C[i].type \in Changes \cup {"message"} => C[i].id \in DOMAIN l
          /\ C[i].type \in {"message", "message_edit", "message_delete"}
                => C[i].id \in DOMAIN l /\ l[C[i].id].isOwn
          /\ C[i].type \in Changes =>
                \/ C[i].id \in DOMAIN k
                \/ \E h \in DOMAIN C : h < i /\ IsMessage(C[h], C[i].id)
      BY <2>1 DEF MessagesArrive, Changes
    <3>2. D[i] = C[i] /\ DOMAIN m = DOMAIN l /\ DOMAIN j = DOMAIN k
      BY <1>4, <2>1 DEF SameShape
    <3>3. D[i].type \in Changes =>
                \/ D[i].id \in DOMAIN j
                \/ \E h \in DOMAIN D : h < i /\ IsMessage(D[h], D[i].id)
      BY <1>4, <3>1, <3>2
    <3>4. QED
      BY <3>1, <3>2, <3>3 DEF SameShape
  <2>2. CASE i = z + 1
    <3>1. D[i] = n
      BY <1>2, <2>2
    <3>2. n.type \in Changes \cup {"message"} => n.id \in DOMAIN m
      BY DEF SameShape
    <3>3. n.type \in {"message", "message_edit", "message_delete"} => m[n.id].isOwn
      BY DEF SameShape, Changes
    <3>4. n.type \in Changes =>
             n.id \in DOMAIN j \/ \E h \in DOMAIN D : h < i /\ IsMessage(D[h], n.id)
      BY <1>4, <2>2 DEF SameShape, MessagesArrive
    <3>5. QED
      BY <3>1, <3>2, <3>3, <3>4
  <2>3. QED
    BY <1>3, <2>1, <2>2
<1>8. QED
  BY <1>5, <1>6, <1>7 DEF MessagesArrive, D

LEMMA ArriveByTaking ==
    ASSUME NEW C \in Seq(Notes), C # <<>>, C[1].type # "message",
           NEW l, NEW k, MessagesArrive(l, k, C),
           NEW m, SameShape(l, m), NEW j, SameShape(k, j)
    PROVE  MessagesArrive(m, j, Tail(C))
<1> DEFINE N == Notes
           D == Tail(C)
           z == Len(C)
<1>1. C \in Seq(N)
  OBVIOUS
<1> HIDE DEF N
<1>2. /\ z \in Nat /\ DOMAIN C = 1 .. z /\ 1 \in DOMAIN C /\ DOMAIN D = 1 .. z - 1
      /\ \A i \in 1 .. z - 1 : D[i] = C[i + 1]
  BY <1>1, TailOfQueue
<1> HIDE DEF D, z
<1>3. \A i \in DOMAIN C : i # 1 => i - 1 \in DOMAIN D /\ D[i - 1] = C[i]
  BY <1>2
<1>4. \A i \in DOMAIN D : i + 1 \in DOMAIN C /\ D[i] = C[i + 1]
  BY <1>2
<1>5. \A i \in DOMAIN C, h \in DOMAIN C : h < i => h - 1 < i - 1
  BY <1>2
<1>6. \A i \in DOMAIN C : \A id : IsMessage(C[i], id) => i # 1
  BY DEF IsMessage
<1>7. \A id \in DOMAIN m :
          \/ id \in DOMAIN j
          \/ m[id].isOwn /\ \E i \in DOMAIN D : IsMessage(D[i], id)
  <2> SUFFICES ASSUME NEW id \in DOMAIN m, id \notin DOMAIN j
               PROVE  m[id].isOwn /\ \E i \in DOMAIN D : IsMessage(D[i], id)
    OBVIOUS
  <2>1. l[id].isOwn /\ id \in DOMAIN l /\ \E i \in DOMAIN C : IsMessage(C[i], id)
    BY DEF MessagesArrive, SameShape
  <2>2. QED
    BY <1>3, <1>6, <2>1 DEF SameShape
<1>8. \A id \in DOMAIN m \cap DOMAIN j : m[id].isOwn = ~j[id].isOwn
  BY DEF MessagesArrive, SameShape
<1>9. ASSUME NEW i \in DOMAIN D
      PROVE  /\ D[i].type \in Changes \cup {"message"} => D[i].id \in DOMAIN m
             /\ D[i].type \in {"message", "message_edit", "message_delete"}
                   => m[D[i].id].isOwn
             /\ D[i].type \in Changes =>
                   \/ D[i].id \in DOMAIN j
                   \/ \E h \in DOMAIN D : h < i /\ IsMessage(D[h], D[i].id)
  <2> DEFINE n == C[i + 1]
  <2>1. D[i] = n /\ i + 1 \in DOMAIN C /\ i + 1 - 1 = i
        /\ DOMAIN m = DOMAIN l /\ DOMAIN j = DOMAIN k
    BY <1>2, <1>4 DEF SameShape
  <2>2. /\ n.type \in Changes \cup {"message"} => n.id \in DOMAIN l
        /\ n.type \in {"message", "message_edit", "message_delete"}
              => n.id \in DOMAIN l /\ l[n.id].isOwn
        /\ n.type \in Changes =>
              \/ n.id \in DOMAIN k
              \/ \E h \in DOMAIN C : h < i + 1 /\ IsMessage(C[h], n.id)
    BY <2>1 DEF MessagesArrive, Changes
  <2> HIDE DEF n
  <2>3. ASSUME NEW h \in DOMAIN C, h < i + 1, IsMessage(C[h], n.id)
        PROVE  \E g \in DOMAIN D : g < i /\ IsMessage(D[g], n.id)
    <3>1. h # 1
      BY <1>6, <2>3
    <3>2. h - 1 < i
      BY <1>2, <2>1, <2>3
    <3>3. QED
      BY <1>3, <2>3, <3>1, <3>2
  <2>4. QED
    BY <2>1, <2>2, <2>3 DEF SameShape
<1>10. QED
  BY <1>7, <1>8, <1>9 DEF MessagesArrive, D

LEMMA ArriveByPassing ==
    ASSUME NEW C \in Seq(Notes), NEW D, Passes(C, D, Changes \cup {"message"}),
           NEW l, NEW k, MessagesArrive(l, k, C),
           NEW m, SameShape(l, m), NEW j, SameShape(k, j)
    PROVE  MessagesArrive(m, j, D)
<1>1. CASE D = C
  BY <1>1 DEF MessagesArrive, SameShape, Changes
<1>2. ASSUME NEW n \in Notes, n.type \notin Changes \cup {"message"}, D = Append(C, n)
      PROVE  MessagesArrive(m, j, D)
  BY <1>2, ArriveBySending DEF Changes
<1>3. CASE C # <<>> /\ C[1].type \notin Changes \cup {"message"} /\ D = Tail(C)
  BY <1>3, ArriveByTaking
<1>4. QED
  BY <1>1, <1>2, <1>3 DEF Passes

-----------------------------------------------------------------------------
(* Reactions, texts and deletions follow.                                  *)

SameReactions(p, l, m) == \A id \in Ids, e \in Emojis :
    Reacts(m, id, e, p) = Reacts(l, id, e, p)

LEMMA ReactionNotesDiffer ==
    /\ \A id, e : \A adds \in BOOLEAN : Reaction(id, e, adds).type \in {"add", "remove"}
                        /\ Reaction(id, e, adds).id = id
                        /\ Reaction(id, e, adds).arg = e
    /\ \A id, e : \A n \in Reactions(id, e) :
          n.type \in {"add", "remove"} /\ n.id = id /\ n.arg = e
    /\ \A id, e : \A adds \in BOOLEAN : Reaction(id, e, adds) \in Reactions(id, e)
    /\ \A id, e : Reaction(id, e, TRUE) # Reaction(id, e, FALSE)
<1>1. \A id, e : \A adds \in BOOLEAN :
         /\ Reaction(id, e, adds).type = IF adds THEN "add" ELSE "remove"
         /\ Reaction(id, e, adds).id = id /\ Reaction(id, e, adds).arg = e
  BY DEF Reaction, Note
<1>2. \A id, e : \A n \in Reactions(id, e) :
          n.type \in {"add", "remove"} /\ n.id = id /\ n.arg = e
  BY <1>1 DEF Reactions
<1>3. \A id, e : \A adds \in BOOLEAN : Reaction(id, e, adds) \in Reactions(id, e)
  <2> SUFFICES ASSUME NEW id, NEW e, NEW adds \in BOOLEAN
               PROVE  Reaction(id, e, adds) \in Reactions(id, e)
    OBVIOUS
  <2>1. Reaction(id, e, adds) = Reaction(id, e, TRUE)
        \/ Reaction(id, e, adds) = Reaction(id, e, FALSE)
    BY DEF Reaction
  <2>2. QED
    BY <2>1 DEF Reactions
<1>4. ASSUME NEW id, NEW e
      PROVE  Reaction(id, e, TRUE) # Reaction(id, e, FALSE)
  <2>1. Reaction(id, e, TRUE).type = "add"
    BY DEF Reaction, Note
  <2>2. Reaction(id, e, FALSE).type = "remove"
    BY DEF Reaction, Note
  <2>3. QED
    BY <2>1, <2>2
<1>5. \A id, e : \A adds \in BOOLEAN : Reaction(id, e, adds).type \in {"add", "remove"}
                        /\ Reaction(id, e, adds).id = id
                        /\ Reaction(id, e, adds).arg = e
  BY <1>1
<1>6. QED
  BY <1>2, <1>3, <1>4, <1>5

LEMMA ReactionsByPassing ==
    ASSUME NEW C \in Seq(Notes), NEW D, Passes(C, D, {"add", "remove"}),
           NEW p, NEW l, NEW k, ReactionsFollow(p, l, k, C),
           NEW m, SameReactions(p, l, m), NEW j, SameReactions(p, k, j)
    PROVE  ReactionsFollow(p, m, j, D)
<1> SUFFICES ASSUME NEW id \in Ids, NEW e \in Emojis
             PROVE  Settled(D, Reactions(id, e), Reaction(id, e, Reacts(m, id, e, p)),
                            Reacts(j, id, e, p) = Reacts(m, id, e, p))
  BY DEF ReactionsFollow
<1>1. Reacts(m, id, e, p) = Reacts(l, id, e, p) /\ Reacts(j, id, e, p) = Reacts(k, id, e, p)
  BY DEF SameReactions
<1>2. Settled(C, Reactions(id, e), Reaction(id, e, Reacts(l, id, e, p)),
              Reacts(k, id, e, p) = Reacts(l, id, e, p))
  BY DEF ReactionsFollow
<1>3. \A n \in Reactions(id, e) : n.type \in {"add", "remove"}
  BY ReactionNotesDiffer
<1>4. Reaction(id, e, Reacts(m, id, e, p)) = Reaction(id, e, Reacts(l, id, e, p))
  BY <1>1 DEF Reaction
<1>5. (Reacts(k, id, e, p) = Reacts(l, id, e, p))
         => (Reacts(j, id, e, p) = Reacts(m, id, e, p))
  BY <1>1
<1>6. QED
  BY <1>2, <1>3, <1>4, <1>5, SettledByPassing

\* The only reaction of p in which the list m differs from l.
ReactsOnlyAt(p, l, m, id, e) == \A i \in Ids, f \in Emojis :
    i # id \/ f # e => Reacts(m, i, f, p) = Reacts(l, i, f, p)

LEMMA ReactionsBySending ==
    ASSUME NEW C \in Seq(Notes), NEW p, NEW l, NEW k, ReactionsFollow(p, l, k, C),
           NEW id \in Ids, NEW e \in Emojis, NEW adds \in BOOLEAN,
           Reaction(id, e, adds) \in Notes,
           NEW m, ReactsOnlyAt(p, l, m, id, e), Reacts(m, id, e, p) = adds
    PROVE  ReactionsFollow(p, m, k, Append(C, Reaction(id, e, adds)))
<1> DEFINE n == Reaction(id, e, adds)
           N == Notes
<1>0. C \in Seq(N) /\ n \in N
  OBVIOUS
<1> HIDE DEF N
<1> SUFFICES ASSUME NEW i \in Ids, NEW f \in Emojis
             PROVE  Settled(Append(C, n), Reactions(i, f),
                            Reaction(i, f, Reacts(m, i, f, p)),
                            Reacts(k, i, f, p) = Reacts(m, i, f, p))
  BY DEF ReactionsFollow
<1>1. CASE i = id /\ f = e
  <2>1. n \in Reactions(i, f) /\ n = Reaction(i, f, Reacts(m, i, f, p))
    BY <1>1, ReactionNotesDiffer
  <2> HIDE DEF n
  <2>2. QED
    BY <1>0, <2>1, SettledBySending
<1>2. CASE ~(i = id /\ f = e)
  <2>1. n \notin Reactions(i, f)
    BY <1>2, ReactionNotesDiffer
  <2>2. Reacts(m, i, f, p) = Reacts(l, i, f, p)
    BY <1>2 DEF ReactsOnlyAt
  <2>3. Settled(C, Reactions(i, f), Reaction(i, f, Reacts(l, i, f, p)),
                Reacts(k, i, f, p) = Reacts(l, i, f, p))
    BY DEF ReactionsFollow
  <2> HIDE DEF n
  <2>4. Settled(C, Reactions(i, f), Reaction(i, f, Reacts(m, i, f, p)),
                Reacts(k, i, f, p) = Reacts(m, i, f, p))
    BY <2>2, <2>3 DEF Settled, Reaction
  <2>5. QED
    BY <1>0, <2>1, <2>4, SettledBySending
<1>3. QED
  BY <1>1, <1>2

LEMMA ReactionsByTaking ==
    ASSUME NEW C \in Seq(Notes), C # <<>>, NEW p, NEW l, NEW k,
           ReactionsFollow(p, l, k, C),
           NEW id \in Ids, NEW e \in Emojis, NEW adds \in BOOLEAN,
           C[1] = Reaction(id, e, adds),
           NEW j, ReactsOnlyAt(p, k, j, id, e), Reacts(j, id, e, p) = adds
    PROVE  ReactionsFollow(p, l, j, Tail(C))
<1> DEFINE N == Notes
<1>0. C \in Seq(N)
  OBVIOUS
<1> HIDE DEF N
<1> SUFFICES ASSUME NEW i \in Ids, NEW f \in Emojis
             PROVE  Settled(Tail(C), Reactions(i, f), Reaction(i, f, Reacts(l, i, f, p)),
                            Reacts(j, i, f, p) = Reacts(l, i, f, p))
  BY DEF ReactionsFollow
<1>1. Settled(C, Reactions(i, f), Reaction(i, f, Reacts(l, i, f, p)),
              Reacts(k, i, f, p) = Reacts(l, i, f, p))
  BY DEF ReactionsFollow
<1>2. CASE i = id /\ f = e
  <2>1. C[1] \in Reactions(i, f)
    BY <1>2, ReactionNotesDiffer
  <2>2. ASSUME C[1] = Reaction(i, f, Reacts(l, i, f, p))
        PROVE  Reacts(j, i, f, p) = Reacts(l, i, f, p)
    <3>1. Reacts(l, i, f, p) \in BOOLEAN
      BY DEF Reacts
    <3>2. Reaction(id, e, adds) = Reaction(id, e, Reacts(l, id, e, p))
      BY <1>2, <2>2
    <3>3. Reacts(l, id, e, p) = adds
      <4>1. CASE adds = TRUE /\ Reacts(l, id, e, p) = FALSE
        BY <3>2, <4>1, ReactionNotesDiffer
      <4>2. CASE adds = FALSE /\ Reacts(l, id, e, p) = TRUE
        BY <3>2, <4>2, ReactionNotesDiffer
      <4>3. QED
        BY <1>2, <3>1, <4>1, <4>2
    <3>4. QED
      BY <1>2, <3>3
  <2>3. QED
    BY <1>0, <1>1, <2>1, <2>2, SettledByTaking
<1>3. CASE ~(i = id /\ f = e)
  <2>1. C[1] \notin Reactions(i, f)
    BY <1>3, ReactionNotesDiffer
  <2>2. Reacts(j, i, f, p) = Reacts(k, i, f, p)
    BY <1>3 DEF ReactsOnlyAt
  <2>3. QED
    BY <1>0, <1>1, <2>1, <2>2, SettledByTaking
<1>4. QED
  BY <1>2, <1>3

LEMMA EditNotesDiffer ==
    /\ \A id : \A n \in Edits(id) : n.type = "message_edit" /\ n.id = id
    /\ \A id, text : /\ Note("message_edit", id, text).type = "message_edit"
                     /\ Note("message_edit", id, text).id = id
                     /\ Note("message_edit", id, text).arg = text
    /\ \A id : \A text \in Versions : Note("message_edit", id, text) \in Edits(id)
BY DEF Edits, Note

\* The author sees what he saw of the messages he has not deleted.
TextsStay(l, m) == \A id \in DOMAIN m : m[id].isOwn /\ ~m[id].isDeleted =>
    /\ id \in DOMAIN l /\ l[id].isOwn /\ ~l[id].isDeleted
    /\ m[id].text = l[id].text

\* The partner sees what he saw of the author's messages, or a new one unedited.
CopiesStay(l, k, j) == \A id \in DOMAIN l : l[id].isOwn =>
    IF id \in DOMAIN k
    THEN /\ id \in DOMAIN j
         /\ j[id].isDeleted \/ (~k[id].isDeleted /\ j[id].text = k[id].text)
    ELSE id \in DOMAIN j => j[id].text = 1

LEMMA TextsByPassing ==
    ASSUME NEW C \in Seq(Notes), NEW D, Passes(C, D, {"message_edit"}),
           NEW l, NEW k, TextsFollow(l, k, C),
           NEW m, TextsStay(l, m), NEW j, CopiesStay(l, k, j)
    PROVE  TextsFollow(m, j, D)
<1> DEFINE Saw(id) == IF id \in DOMAIN k THEN k[id].isDeleted \/ k[id].text = l[id].text
                      ELSE l[id].text = 1
           Sees(id) == IF id \in DOMAIN j THEN j[id].isDeleted \/ j[id].text = m[id].text
                       ELSE m[id].text = 1
<1> SUFFICES ASSUME NEW id \in DOMAIN m, m[id].isOwn, ~m[id].isDeleted
             PROVE  Settled(D, Edits(id), Note("message_edit", id, m[id].text), Sees(id))
  BY DEF TextsFollow
<1>1. /\ id \in DOMAIN l /\ l[id].isOwn /\ ~l[id].isDeleted
      /\ m[id].text = l[id].text
  BY DEF TextsStay
<1>2. Settled(C, Edits(id), Note("message_edit", id, l[id].text), Saw(id))
  BY <1>1 DEF TextsFollow
<1>3. Saw(id) => Sees(id)
  BY <1>1 DEF CopiesStay
<1>4. \A n \in Edits(id) : n.type \in {"message_edit"}
  BY EditNotesDiffer
<1>5. Note("message_edit", id, l[id].text) = Note("message_edit", id, m[id].text)
  BY <1>1
<1> HIDE DEF Saw, Sees
<1>6. QED
  BY <1>2, <1>3, <1>4, <1>5, SettledByPassing

\* The author edits one of his messages.
LEMMA TextsBySending ==
    ASSUME NEW C \in Seq(Notes), NEW l, NEW k, TextsFollow(l, k, C),
           NEW id, NEW text \in Versions, Note("message_edit", id, text) \in Notes,
           NEW m, m[id].text = text, DOMAIN m = DOMAIN l,
           \A i \in DOMAIN m : i # id /\ m[i].isOwn /\ ~m[i].isDeleted =>
              l[i].isOwn /\ ~l[i].isDeleted /\ m[i].text = l[i].text
    PROVE  TextsFollow(m, k, Append(C, Note("message_edit", id, text)))
<1> DEFINE N == Notes
           n == Note("message_edit", id, text)
           Seen(i) == IF i \in DOMAIN k THEN k[i].isDeleted \/ k[i].text = m[i].text
                      ELSE m[i].text = 1
<1>0. C \in Seq(N) /\ n \in N
  OBVIOUS
<1> HIDE DEF N
<1> SUFFICES ASSUME NEW i \in DOMAIN m, m[i].isOwn, ~m[i].isDeleted
             PROVE  Settled(Append(C, n), Edits(i), Note("message_edit", i, m[i].text),
                            Seen(i))
  BY DEF TextsFollow
<1>1. CASE i = id
  <2>1. n \in Edits(i) /\ n = Note("message_edit", i, m[i].text)
    BY <1>1, EditNotesDiffer
  <2> HIDE DEF n, Seen
  <2>2. QED
    BY <1>0, <2>1, SettledBySending
<1>2. CASE i # id
  <2>1. n \notin Edits(i)
    BY <1>2, EditNotesDiffer
  <2>2. l[i].isOwn /\ ~l[i].isDeleted /\ m[i].text = l[i].text /\ i \in DOMAIN l
    BY <1>2
  <2>3. Settled(C, Edits(i), Note("message_edit", i, m[i].text), Seen(i))
    BY <2>2 DEF TextsFollow
  <2> HIDE DEF n, Seen
  <2>4. QED
    BY <1>0, <2>1, <2>3, SettledBySending
<1>3. QED
  BY <1>1, <1>2

\* The partner takes an edit.
LEMMA TextsByTaking ==
    ASSUME NEW C \in Seq(Notes), C # <<>>, NEW l, NEW k, TextsFollow(l, k, C),
           NEW id, NEW text \in Versions, C[1] = Note("message_edit", id, text),
           NEW j, DOMAIN j = DOMAIN k, j[id].text = text, id \in DOMAIN k,
           \A i \in DOMAIN k : i # id =>
              j[i].text = k[i].text /\ j[i].isDeleted = k[i].isDeleted
    PROVE  TextsFollow(l, j, Tail(C))
<1> DEFINE N == Notes
           n == Note("message_edit", id, text)
           Saw(i) == IF i \in DOMAIN k THEN k[i].isDeleted \/ k[i].text = l[i].text
                     ELSE l[i].text = 1
           Sees(i) == IF i \in DOMAIN j THEN j[i].isDeleted \/ j[i].text = l[i].text
                      ELSE l[i].text = 1
<1>0. C \in Seq(N)
  OBVIOUS
<1> HIDE DEF N
<1> SUFFICES ASSUME NEW i \in DOMAIN l, l[i].isOwn, ~l[i].isDeleted
             PROVE  Settled(Tail(C), Edits(i), Note("message_edit", i, l[i].text),
                            Sees(i))
  BY DEF TextsFollow
<1>1. Settled(C, Edits(i), Note("message_edit", i, l[i].text), Saw(i))
  BY DEF TextsFollow
<1>2. CASE i = id
  <2>1. C[1] \in Edits(i)
    BY <1>2, EditNotesDiffer
  <2>2. C[1] = Note("message_edit", i, l[i].text) => Sees(i)
    BY <1>2, EditNotesDiffer
  <2> HIDE DEF n, Saw, Sees
  <2>3. QED
    BY <1>0, <1>1, <2>1, <2>2, SettledByTaking
<1>3. CASE i # id
  <2>1. C[1] \notin Edits(i)
    BY <1>3, EditNotesDiffer
  <2>2. Saw(i) => Sees(i)
    BY <1>3
  <2> HIDE DEF n, Saw, Sees
  <2>3. QED
    BY <1>0, <1>1, <2>1, <2>2, SettledByTaking
<1>4. QED
  BY <1>2, <1>3

StayDeleted(k, j) == \A id \in DOMAIN k : k[id].isDeleted => id \in DOMAIN j /\ j[id].isDeleted

LEMMA DeletionsByPassing ==
    ASSUME NEW C \in Seq(Notes), NEW D, NEW k, NEW j, NEW gone, NEW id,
           Passes(C, D, {"message_delete"})
              \/ (C # <<>> /\ D = Tail(C) /\ C[1].id = id
                  /\ id \in DOMAIN j /\ j[id].isDeleted),
           DeletionsFollow(gone, k, C), StayDeleted(k, j)
    PROVE  DeletionsFollow(gone, j, D)
<1> DEFINE N == Notes
<1>0. C \in Seq(N)
  OBVIOUS
<1> HIDE DEF N
<1> SUFFICES ASSUME NEW i \in gone
             PROVE  \/ i \in DOMAIN j /\ j[i].isDeleted
                    \/ \E h \in DOMAIN D : D[h] = Note("message_delete", i, NoText)
  BY DEF DeletionsFollow
<1>1. \/ i \in DOMAIN j /\ j[i].isDeleted
      \/ \E h \in DOMAIN C : C[h] = Note("message_delete", i, NoText)
  BY DEF DeletionsFollow, StayDeleted
<1>2. SUFFICES ASSUME NEW h \in DOMAIN C, C[h] = Note("message_delete", i, NoText)
               PROVE  \/ i \in DOMAIN j /\ j[i].isDeleted
                      \/ \E g \in DOMAIN D : D[g] = Note("message_delete", i, NoText)
  BY <1>1
<1>3. C[h].type = "message_delete" /\ C[h].id = i
  BY <1>2 DEF Note
<1>4. CASE D = C
  BY <1>2, <1>4
<1>5. ASSUME NEW n \in N, D = Append(C, n)
      PROVE  \E g \in DOMAIN D : D[g] = Note("message_delete", i, NoText)
  <2>1. h \in DOMAIN D /\ D[h] = C[h]
    BY <1>0, <1>5, AppendedQueue
  <2>2. QED
    BY <1>2, <2>1
<1>6. ASSUME C # <<>>, D = Tail(C), h # 1
      PROVE  \E g \in DOMAIN D : D[g] = Note("message_delete", i, NoText)
  <2>1. h - 1 \in DOMAIN D /\ D[h - 1] = C[h]
    BY <1>0, <1>6, TailOfQueue
  <2>2. QED
    BY <1>2, <2>1
<1>7. QED
  BY <1>3, <1>4, <1>5, <1>6 DEF Passes, N

\* A message is deleted for both.
LEMMA DeletionsBySending ==
    ASSUME NEW C \in Seq(Notes), NEW k, NEW gone, NEW id, DeletionsFollow(gone, k, C),
           Note("message_delete", id, NoText) \in Notes
    PROVE  DeletionsFollow(gone \cup {id}, k,
                           Append(C, Note("message_delete", id, NoText)))
<1> DEFINE N == Notes
           n == Note("message_delete", id, NoText)
           D == Append(C, n)
<1>1. C \in Seq(N) /\ n \in N
  OBVIOUS
<1> HIDE DEF N, n
<1>2. /\ Len(C) \in Nat /\ DOMAIN C = 1 .. Len(C) /\ DOMAIN D = 1 .. Len(C) + 1
      /\ D[Len(C) + 1] = n /\ \A i \in 1 .. Len(C) : D[i] = C[i]
  BY <1>1, AppendedQueue
<1>3. Len(C) + 1 \in DOMAIN D /\ \A i \in DOMAIN C : i \in DOMAIN D /\ D[i] = C[i]
  BY <1>2
<1> HIDE DEF D
<1>4. \A i \in gone : \/ i \in DOMAIN k /\ k[i].isDeleted
                      \/ \E h \in DOMAIN D : D[h] = Note("message_delete", i, NoText)
  BY <1>3 DEF DeletionsFollow
<1>5. \E h \in DOMAIN D : D[h] = Note("message_delete", id, NoText)
  BY <1>2, <1>3 DEF n
<1>6. QED
  BY <1>4, <1>5 DEF DeletionsFollow, D, n

-----------------------------------------------------------------------------
(* A new message: its author gets it and sends it, his partner gets it.     *)

Gains(l, m, id, own) ==
    /\ id \notin DOMAIN l /\ DOMAIN m = DOMAIN l \cup {id}
    /\ \A i \in DOMAIN l : m[i] = l[i]
    /\ m[id].isOwn = own /\ m[id].text = 1 /\ m[id].isDeleted = FALSE
    /\ \A e \in Emojis : m[id].reactions[e] = {}

LEMMA GainedReactions ==
    ASSUME NEW l, NEW m, NEW id, NEW own, Gains(l, m, id, own), NEW p
    PROVE  SameReactions(p, l, m)
<1> SUFFICES ASSUME NEW i \in Ids, NEW e \in Emojis
             PROVE  Reacts(m, i, e, p) = Reacts(l, i, e, p)
  BY DEF SameReactions
<1>1. CASE i = id
  BY <1>1 DEF Gains, Reacts
<1>2. CASE i # id
  BY <1>2 DEF Gains, Reacts
<1>3. QED
  BY <1>1, <1>2

LEMMA SameListReacts == ASSUME NEW p, NEW l PROVE SameReactions(p, l, l)
BY DEF SameReactions

\* The author's own, before it is sent.
LEMMA FollowsByWriting ==
    ASSUME NEW C \in Seq(Notes), NEW p, NEW l, NEW k, NEW gone, Follows(p, l, k, C, gone),
           NEW id, NEW m, Gains(l, m, id, TRUE), id \notin DOMAIN k,
           NEW n \in Notes, IsMessage(n, id)
    PROVE  Follows(p, m, k, Append(C, n), gone)
<1> DEFINE N == Notes
           D == Append(C, n)
           z == Len(C)
<1>1. C \in Seq(N) /\ n \in N
  OBVIOUS
<1> HIDE DEF N
<1>2. /\ z \in Nat /\ DOMAIN C = 1 .. z /\ DOMAIN D = 1 .. z + 1 /\ D[z + 1] = n
      /\ \A i \in 1 .. z : D[i] = C[i]
  BY <1>1, AppendedQueue
<1>3. Passes(C, D, {"add", "remove"}) /\ Passes(C, D, {"message_edit"})
      /\ Passes(C, D, {"message_delete"})
  BY DEF Passes, IsMessage
<1> HIDE DEF D, z
<1>4. /\ z + 1 \in DOMAIN D /\ \A i \in DOMAIN D : i = z + 1 \/ i \in DOMAIN C
      /\ \A i \in DOMAIN C : i \in DOMAIN D /\ D[i] = C[i]
  BY <1>2
<1>5. ReactionsFollow(p, m, k, D)
  <2>1. SameReactions(p, l, m) /\ SameReactions(p, k, k)
    BY GainedReactions, SameListReacts
  <2>2. QED
    BY <1>3, <2>1, ReactionsByPassing DEF Follows
<1>6. DeletionsFollow(gone, k, D)
  <2>1. StayDeleted(k, k)
    BY DEF StayDeleted
  <2>2. QED
    BY <1>3, <2>1, DeletionsByPassing DEF Follows
<1>7. MessagesArrive(l, k, C) /\ TextsFollow(l, k, C)
  BY DEF Follows
<1>8. TextsFollow(m, k, D)
  <2>1. TextsFollow(l, k, D)
    <3>1. TextsStay(l, l) /\ CopiesStay(l, k, k)
      BY DEF TextsStay, CopiesStay
    <3>2. QED
      BY <1>3, <1>7, <3>1, TextsByPassing
  <2>2. ASSUME NEW i \in DOMAIN D
        PROVE  D[i] \notin Edits(id)
    <3>1. CASE i = z + 1
      BY <1>2, <3>1, EditNotesDiffer DEF IsMessage
    <3>2. CASE i \in DOMAIN C
      <4>1. C[i].type = "message_edit" => C[i].id \in DOMAIN l
        BY <1>7, <3>2 DEF MessagesArrive, Changes
      <4>2. QED
        BY <1>4, <3>2, <4>1, EditNotesDiffer DEF Gains
    <3>3. QED
      BY <1>4, <3>1, <3>2
  <2>3. Settled(D, Edits(id), Note("message_edit", id, m[id].text),
                IF id \in DOMAIN k THEN k[id].isDeleted \/ k[id].text = m[id].text
                                   ELSE m[id].text = 1)
    BY <2>2 DEF Settled, Gains
  <2>4. ASSUME NEW i \in DOMAIN m, i # id
        PROVE  i \in DOMAIN l /\ m[i] = l[i]
    BY <2>4 DEF Gains
  <2>5. QED
    BY <2>1, <2>3, <2>4 DEF TextsFollow
<1>9. MessagesArrive(m, k, D)
  <2>1. \A i \in DOMAIN m : i = id \/ (i \in DOMAIN l /\ m[i] = l[i])
    BY DEF Gains
  <2>2. \A i \in DOMAIN l : i \in DOMAIN m /\ m[i] = l[i] /\ i # id
    BY DEF Gains
  <2>3. id \in DOMAIN m /\ m[id].isOwn
    BY DEF Gains
  <2>4. ASSUME NEW i \in DOMAIN m
        PROVE  i \in DOMAIN k \/ (m[i].isOwn /\ \E h \in DOMAIN D : IsMessage(D[h], i))
    BY <1>2, <1>4, <1>7, <2>1, <2>3 DEF MessagesArrive
  <2>5. \A i \in DOMAIN m \cap DOMAIN k : m[i].isOwn = ~k[i].isOwn
    BY <1>7, <2>1 DEF MessagesArrive
  <2>6. ASSUME NEW i \in DOMAIN D
        PROVE  /\ D[i].type \in Changes \cup {"message"} => D[i].id \in DOMAIN m
               /\ D[i].type \in {"message", "message_edit", "message_delete"}
                     => m[D[i].id].isOwn
               /\ D[i].type \in Changes =>
                     \/ D[i].id \in DOMAIN k
                     \/ \E h \in DOMAIN D : h < i /\ IsMessage(D[h], D[i].id)
    <3>1. CASE i = z + 1
      BY <1>2, <2>3, <3>1 DEF IsMessage, Changes
    <3>2. CASE i \in DOMAIN C
      <4>1. /\ C[i].type \in Changes \cup {"message"} => C[i].id \in DOMAIN l
            /\ C[i].type \in {"message", "message_edit", "message_delete"}
                  => C[i].id \in DOMAIN l /\ l[C[i].id].isOwn
            /\ C[i].type \in Changes =>
                  \/ C[i].id \in DOMAIN k
                  \/ \E h \in DOMAIN C : h < i /\ IsMessage(C[h], C[i].id)
        BY <1>7, <3>2 DEF MessagesArrive, Changes
      <4>2. QED
        BY <1>4, <2>2, <3>2, <4>1
    <3>3. QED
      BY <1>4, <3>1, <3>2
  <2>7. QED
    BY <2>4, <2>5, <2>6 DEF MessagesArrive
<1>10. QED
  BY <1>5, <1>6, <1>8, <1>9 DEF Follows, D

\* It is new to what the author knows of his partner's messages.
LEMMA FollowsThePartnersOwn ==
    ASSUME NEW C \in Seq(Notes), NEW p, NEW l, NEW k, NEW gone, Follows(p, l, k, C, gone),
           NEW id, NEW j, Gains(k, j, id, TRUE), id \notin DOMAIN l
    PROVE  Follows(p, l, j, C, gone)
<1>1. \A types : Passes(C, C, types)
  BY DEF Passes
<1>2. ReactionsFollow(p, l, j, C)
  <2>1. SameReactions(p, k, j) /\ SameReactions(p, l, l)
    BY GainedReactions, SameListReacts
  <2>2. QED
    BY <1>1, <2>1, ReactionsByPassing DEF Follows
<1>3. DeletionsFollow(gone, j, C)
  <2>1. StayDeleted(k, j)
    BY DEF StayDeleted, Gains
  <2>2. QED
    BY <1>1, <2>1, DeletionsByPassing DEF Follows
<1>4. TextsFollow(l, j, C)
  <2>1. TextsStay(l, l) /\ CopiesStay(l, k, j)
    BY DEF TextsStay, CopiesStay, Gains
  <2>2. QED
    BY <1>1, <2>1, TextsByPassing DEF Follows
<1>5. MessagesArrive(l, j, C)
  BY DEF Follows, MessagesArrive, Gains
<1>6. QED
  BY <1>2, <1>3, <1>4, <1>5 DEF Follows

\* The partner takes the message.
LEMMA FollowsByShowing ==
    ASSUME NEW C \in Seq(Notes), C # <<>>, NEW p, NEW l, NEW k, NEW gone,
           Follows(p, l, k, C, gone),
           NEW id, NEW j, Gains(k, j, id, FALSE), IsMessage(C[1], id)
    PROVE  Follows(p, l, j, Tail(C), gone)
<1> DEFINE N == Notes
           D == Tail(C)
           z == Len(C)
<1>1. C \in Seq(N)
  OBVIOUS
<1> HIDE DEF N
<1>2. /\ z \in Nat /\ DOMAIN C = 1 .. z /\ 1 \in DOMAIN C /\ DOMAIN D = 1 .. z - 1
      /\ \A i \in 1 .. z - 1 : D[i] = C[i + 1]
  BY <1>1, TailOfQueue
<1>3. Passes(C, D, {"add", "remove"}) /\ Passes(C, D, {"message_edit"})
      /\ Passes(C, D, {"message_delete"})
  BY DEF Passes, IsMessage
<1> HIDE DEF D, z
<1>4. \A i \in DOMAIN C : i # 1 => i - 1 \in DOMAIN D /\ D[i - 1] = C[i]
  BY <1>2
<1>5. \A i \in DOMAIN D : i + 1 \in DOMAIN C /\ D[i] = C[i + 1]
  BY <1>2
<1>6. ReactionsFollow(p, l, j, D)
  <2>1. SameReactions(p, k, j) /\ SameReactions(p, l, l)
    BY GainedReactions, SameListReacts
  <2>2. QED
    BY <1>3, <2>1, ReactionsByPassing DEF Follows
<1>7. DeletionsFollow(gone, j, D)
  <2>1. StayDeleted(k, j)
    BY DEF StayDeleted, Gains
  <2>2. QED
    BY <1>3, <2>1, DeletionsByPassing DEF Follows
<1>8. TextsFollow(l, j, D)
  <2>1. TextsStay(l, l) /\ CopiesStay(l, k, j)
    BY DEF TextsStay, CopiesStay, Gains
  <2>2. QED
    BY <1>3, <2>1, TextsByPassing DEF Follows
<1>9. MessagesArrive(l, k, C)
  BY DEF Follows
<1>10. id \in DOMAIN l /\ l[id].isOwn
  BY <1>2, <1>9 DEF MessagesArrive, IsMessage
<1>11. MessagesArrive(l, j, D)
  <2>1. ASSUME NEW i \in DOMAIN C, NEW a, IsMessage(C[i], a), a # id
        PROVE  i # 1
    BY <2>1 DEF IsMessage
  <2>2. ASSUME NEW a \in DOMAIN l
        PROVE  a \in DOMAIN j \/ (l[a].isOwn /\ \E i \in DOMAIN D : IsMessage(D[i], a))
    <3>1. a \in DOMAIN k \/ (l[a].isOwn /\ \E i \in DOMAIN C : IsMessage(C[i], a))
      BY <1>9 DEF MessagesArrive
    <3>2. CASE a = id \/ a \in DOMAIN k
      BY <3>2 DEF Gains
    <3>3. CASE a # id /\ a \notin DOMAIN k
      <4>1. PICK i \in DOMAIN C : IsMessage(C[i], a)
        BY <3>1, <3>3
      <4>2. i # 1
        BY <2>1, <3>3, <4>1
      <4>3. QED
        BY <1>4, <3>1, <3>3, <4>1, <4>2
    <3>4. QED
      BY <3>2, <3>3
  <2>3. \A a \in DOMAIN l \cap DOMAIN j : l[a].isOwn = ~j[a].isOwn
    BY <1>9, <1>10 DEF MessagesArrive, Gains
  <2>4. ASSUME NEW i \in DOMAIN D
        PROVE  /\ D[i].type \in Changes \cup {"message"} => D[i].id \in DOMAIN l
               /\ D[i].type \in {"message", "message_edit", "message_delete"}
                     => l[D[i].id].isOwn
               /\ D[i].type \in Changes =>
                     \/ D[i].id \in DOMAIN j
                     \/ \E h \in DOMAIN D : h < i /\ IsMessage(D[h], D[i].id)
    <3> DEFINE n == C[i + 1]
    <3>1. D[i] = n /\ i + 1 \in DOMAIN C
      BY <1>5
    <3>2. /\ n.type \in Changes \cup {"message"} => n.id \in DOMAIN l
          /\ n.type \in {"message", "message_edit", "message_delete"}
                => l[n.id].isOwn
          /\ n.type \in Changes =>
                \/ n.id \in DOMAIN k
                \/ \E h \in DOMAIN C : h < i + 1 /\ IsMessage(C[h], n.id)
      BY <1>9, <3>1 DEF MessagesArrive
    <3> HIDE DEF n
    <3>3. ASSUME NEW h \in DOMAIN C, h < i + 1, IsMessage(C[h], n.id)
          PROVE  n.id \in DOMAIN j \/ \E g \in DOMAIN D : g < i /\ IsMessage(D[g], n.id)
      <4>1. CASE n.id = id
        BY <4>1 DEF Gains
      <4>2. CASE n.id # id
        <5>1. h # 1
          BY <2>1, <3>3, <4>2
        <5>2. h - 1 < i
          BY <1>2, <3>1, <3>3
        <5>3. QED
          BY <1>4, <3>3, <5>1, <5>2
      <4>3. QED
        BY <4>1, <4>2
    <3>4. n.id \in DOMAIN k => n.id \in DOMAIN j
      BY DEF Gains
    <3>5. QED
      BY <3>1, <3>2, <3>3, <3>4
  <2>5. QED
    BY <2>2, <2>3, <2>4 DEF MessagesArrive
<1>12. QED
  BY <1>6, <1>7, <1>8, <1>11 DEF Follows, D

\* The partner's own changes follow to the author as before.
LEMMA FollowsTheShown ==
    ASSUME NEW C \in Seq(Notes), NEW p, NEW l, NEW k, NEW gone, Follows(p, l, k, C, gone),
           NEW id, NEW m, Gains(l, m, id, FALSE), id \in DOMAIN k, k[id].isOwn = TRUE
    PROVE  Follows(p, m, k, C, gone)
<1>1. \A types : Passes(C, C, types)
  BY DEF Passes
<1>2. ReactionsFollow(p, m, k, C)
  <2>1. SameReactions(p, k, k) /\ SameReactions(p, l, m)
    BY GainedReactions, SameListReacts
  <2>2. QED
    BY <1>1, <2>1, ReactionsByPassing DEF Follows
<1>3. TextsFollow(m, k, C)
  <2>1. TextsStay(l, m) /\ CopiesStay(l, k, k)
    BY DEF TextsStay, CopiesStay, Gains
  <2>2. QED
    BY <1>1, <2>1, TextsByPassing DEF Follows
<1>4. MessagesArrive(m, k, C)
  <2>1. \A i \in DOMAIN m : i = id \/ (i \in DOMAIN l /\ m[i] = l[i])
    BY DEF Gains
  <2>2. \A i \in DOMAIN l : i \in DOMAIN m /\ m[i] = l[i]
    BY DEF Gains
  <2>3. m[id].isOwn = FALSE
    BY DEF Gains
  <2>4. MessagesArrive(l, k, C)
    BY DEF Follows
  <2>5. ASSUME NEW i \in DOMAIN m
        PROVE  i \in DOMAIN k \/ (m[i].isOwn /\ \E h \in DOMAIN C : IsMessage(C[h], i))
    BY <2>1, <2>4 DEF MessagesArrive
  <2>6. \A i \in DOMAIN m \cap DOMAIN k : m[i].isOwn = ~k[i].isOwn
    BY <2>1, <2>3, <2>4 DEF MessagesArrive
  <2>7. ASSUME NEW i \in DOMAIN C
        PROVE  /\ C[i].type \in Changes \cup {"message"} => C[i].id \in DOMAIN m
               /\ C[i].type \in {"message", "message_edit", "message_delete"}
                     => m[C[i].id].isOwn
    BY <2>2, <2>4 DEF MessagesArrive, Changes
  <2>8. QED
    BY <2>4, <2>5, <2>6, <2>7 DEF MessagesArrive
<1>5. QED
  BY <1>2, <1>3, <1>4 DEF Follows

-----------------------------------------------------------------------------
(* Changes of messages that are there.                                     *)

\* The lists l and m hold the same messages with the same reactions.
SameBesidesTexts(l, m) == /\ DOMAIN m = DOMAIN l
                          /\ \A i \in DOMAIN l : /\ m[i].isOwn = l[i].isOwn
                                                 /\ m[i].reactions = l[i].reactions

LEMMA SameBesidesTextsKeeps ==
    ASSUME NEW l, NEW m, SameBesidesTexts(l, m), NEW p
    PROVE  SameShape(l, m) /\ SameReactions(p, l, m)
BY DEF SameBesidesTexts, SameShape, SameReactions, Reacts

LEMMA PassesLess ==
    ASSUME NEW C, NEW D, Passes(C, D, Changes \cup {"message"}),
           NEW types, types \subseteq Changes \cup {"message"}
    PROVE  Passes(C, D, types)
BY DEF Passes

\* What a note does not tell of changes nothing for the other window.
LEMMA FollowsByPassing ==
    ASSUME NEW C \in Seq(Notes), NEW D, Passes(C, D, Changes \cup {"message"}),
           NEW p, NEW l, NEW k, NEW gone, Follows(p, l, k, C, gone),
           NEW m, SameShape(l, m), SameReactions(p, l, m), TextsStay(l, m),
           NEW j, SameShape(k, j), SameReactions(p, k, j), CopiesStay(l, k, j),
           StayDeleted(k, j)
    PROVE  Follows(p, m, j, D, gone)
<1>1. /\ Passes(C, D, {"add", "remove"}) /\ Passes(C, D, {"message_edit"})
      /\ Passes(C, D, {"message_delete"})
  BY PassesLess DEF Changes
<1>2. MessagesArrive(l, k, C) /\ ReactionsFollow(p, l, k, C) /\ TextsFollow(l, k, C)
      /\ DeletionsFollow(gone, k, C)
  BY DEF Follows
<1>3. MessagesArrive(m, j, D)
  BY <1>2, ArriveByPassing
<1>4. ReactionsFollow(p, m, j, D)
  BY <1>1, <1>2, ReactionsByPassing
<1>5. TextsFollow(m, j, D)
  BY <1>1, <1>2, TextsByPassing
<1>6. DeletionsFollow(gone, j, D)
  BY <1>1, <1>2, DeletionsByPassing
<1>7. QED
  BY <1>3, <1>4, <1>5, <1>6 DEF Follows

LEMMA SameListStays ==
    ASSUME NEW p, NEW l, NEW k
    PROVE  /\ SameShape(k, k) /\ SameReactions(p, k, k) /\ TextsStay(l, l)
           /\ CopiesStay(l, k, k) /\ StayDeleted(k, k)
BY DEF SameShape, SameReactions, TextsStay, CopiesStay, StayDeleted

LEMMA FollowsAChangeOfOwn ==
    ASSUME NEW C \in Seq(Notes), NEW D, Passes(C, D, Changes \cup {"message"}),
           NEW p, NEW l, NEW k, NEW gone, Follows(p, l, k, C, gone),
           NEW m, SameShape(l, m), SameReactions(p, l, m), TextsStay(l, m)
    PROVE  Follows(p, m, k, D, gone)
BY SameListStays, FollowsByPassing

LEMMA FollowsAChangeOfPartner ==
    ASSUME NEW C \in Seq(Notes), NEW D, Passes(C, D, Changes \cup {"message"}),
           NEW p, NEW l, NEW k, NEW gone, Follows(p, l, k, C, gone),
           NEW j, SameShape(k, j), SameReactions(p, k, j), CopiesStay(l, k, j),
           StayDeleted(k, j)
    PROVE  Follows(p, l, j, D, gone)
BY SameListStays, FollowsByPassing

\* What the updaters change.
Edited(l, m, id, text) ==
    /\ SameBesidesTexts(l, m)
    /\ \A i \in DOMAIN l : /\ m[i].isDeleted = l[i].isDeleted
                           /\ m[i].text = IF i = id THEN text ELSE l[i].text
Hidden(l, m, id) ==
    /\ SameBesidesTexts(l, m)
    /\ \A i \in DOMAIN l : IF i = id THEN m[i].isDeleted = TRUE
                           ELSE m[i].isDeleted = l[i].isDeleted /\ m[i].text = l[i].text
Reacted(l, m, id, e, p, adds) ==
    /\ DOMAIN m = DOMAIN l
    /\ \A i \in DOMAIN l :
          /\ m[i].isOwn = l[i].isOwn /\ m[i].isDeleted = l[i].isDeleted
          /\ m[i].text = l[i].text
          /\ \A f \in Emojis : m[i].reactions[f] =
                IF i = id /\ f = e
                THEN IF adds THEN l[i].reactions[f] \cup {p} ELSE l[i].reactions[f] \ {p}
                ELSE l[i].reactions[f]

LEMMA ReactedReacts ==
    ASSUME NEW l, NEW m, NEW id \in DOMAIN l, NEW e \in Emojis, NEW p,
           NEW adds \in BOOLEAN, Reacted(l, m, id, e, p, adds)
    PROVE  /\ SameShape(l, m) /\ \A q : q # p => SameReactions(q, l, m)
           /\ ReactsOnlyAt(p, l, m, id, e) /\ Reacts(m, id, e, p) = adds
           /\ TextsStay(l, m) /\ StayDeleted(l, m) /\ \A h : CopiesStay(h, l, m)
<1>1. SameShape(l, m) /\ TextsStay(l, m) /\ StayDeleted(l, m) /\ \A h : CopiesStay(h, l, m)
  BY DEF Reacted, SameShape, TextsStay, StayDeleted, CopiesStay
<1>2. \A q : q # p =>
         \A i \in Ids, f \in Emojis : Reacts(m, i, f, q) = Reacts(l, i, f, q)
  BY DEF Reacted, Reacts
<1>3. \A i \in Ids, f \in Emojis :
          i # id \/ f # e => Reacts(m, i, f, p) = Reacts(l, i, f, p)
  BY DEF Reacted, Reacts
<1>4. Reacts(m, id, e, p) = adds
  BY DEF Reacted, Reacts
<1>5. QED
  BY <1>1, <1>2, <1>3, <1>4 DEF SameReactions, ReactsOnlyAt

LEMMA FollowsByEditing ==
    ASSUME NEW C \in Seq(Notes), NEW p, NEW l, NEW k, NEW gone, Follows(p, l, k, C, gone),
           NEW id \in DOMAIN l, l[id].isOwn = TRUE, NEW text \in Versions,
           Note("message_edit", id, text) \in Notes, NEW m, Edited(l, m, id, text)
    PROVE  Follows(p, m, k, Append(C, Note("message_edit", id, text)), gone)
<1> DEFINE n == Note("message_edit", id, text)
           D == Append(C, n)
<1>1. n \in Notes /\ n.type = "message_edit" /\ n.id = id
  BY EditNotesDiffer
<1>2. Passes(C, D, {"add", "remove"}) /\ Passes(C, D, {"message_delete"})
  BY <1>1 DEF Passes
<1>3. SameShape(l, m) /\ SameReactions(p, l, m)
  BY SameBesidesTextsKeeps DEF Edited
<1>4. SameShape(k, k) /\ SameReactions(p, k, k) /\ StayDeleted(k, k)
  BY SameListStays
<1>5. MessagesArrive(m, k, D)
  BY <1>1, <1>3, <1>4, ArriveBySending DEF Follows
<1>6. ReactionsFollow(p, m, k, D)
  BY <1>2, <1>3, <1>4, ReactionsByPassing DEF Follows
<1>7. TextsFollow(m, k, D)
  <2>1. m[id].text = text /\ DOMAIN m = DOMAIN l
        /\ \A i \in DOMAIN m : i # id /\ m[i].isOwn /\ ~m[i].isDeleted =>
              l[i].isOwn /\ ~l[i].isDeleted /\ m[i].text = l[i].text
    BY DEF Edited, SameBesidesTexts
  <2>2. QED
    BY <2>1, TextsBySending DEF Follows
<1>8. DeletionsFollow(gone, k, D)
  BY <1>2, <1>4, DeletionsByPassing DEF Follows
<1>9. QED
  BY <1>5, <1>6, <1>7, <1>8 DEF Follows

LEMMA FollowsTheEdited ==
    ASSUME NEW C \in Seq(Notes), C # <<>>, NEW p, NEW l, NEW k, NEW gone,
           Follows(p, l, k, C, gone), NEW id \in DOMAIN k, NEW text \in Versions,
           C[1] = Note("message_edit", id, text), NEW j, Edited(k, j, id, text)
    PROVE  Follows(p, l, j, Tail(C), gone)
<1> DEFINE D == Tail(C)
<1>1. C[1].type = "message_edit" /\ C[1].id = id
  BY EditNotesDiffer
<1>2. Passes(C, D, {"add", "remove"}) /\ Passes(C, D, {"message_delete"})
  BY <1>1 DEF Passes
<1>3. SameShape(k, j) /\ SameReactions(p, k, j)
  BY SameBesidesTextsKeeps DEF Edited
<1>4. SameShape(l, l) /\ SameReactions(p, l, l)
  BY SameListStays
<1>5. StayDeleted(k, j)
  BY DEF StayDeleted, Edited, SameBesidesTexts
<1>6. MessagesArrive(l, j, D)
  BY <1>1, <1>3, <1>4, ArriveByTaking DEF Follows
<1>7. ReactionsFollow(p, l, j, D)
  BY <1>2, <1>3, <1>4, ReactionsByPassing DEF Follows
<1>8. TextsFollow(l, j, D)
  <2>1. DOMAIN j = DOMAIN k /\ j[id].text = text
        /\ \A i \in DOMAIN k : i # id =>
              j[i].text = k[i].text /\ j[i].isDeleted = k[i].isDeleted
    BY DEF Edited, SameBesidesTexts
  <2>2. QED
    BY <2>1, TextsByTaking DEF Follows
<1>9. DeletionsFollow(gone, j, D)
  BY <1>2, <1>5, DeletionsByPassing DEF Follows
<1>10. QED
  BY <1>6, <1>7, <1>8, <1>9 DEF Follows

LEMMA FollowsByDeleting ==
    ASSUME NEW C \in Seq(Notes), NEW p, NEW l, NEW k, NEW gone, Follows(p, l, k, C, gone),
           NEW id \in DOMAIN l, l[id].isOwn = TRUE,
           Note("message_delete", id, NoText) \in Notes, NEW m, Hidden(l, m, id)
    PROVE  Follows(p, m, k, Append(C, Note("message_delete", id, NoText)), gone \cup {id})
<1> DEFINE n == Note("message_delete", id, NoText)
           D == Append(C, n)
<1>1. n \in Notes /\ n.type = "message_delete" /\ n.id = id
  BY DEF Note
<1>2. Passes(C, D, {"add", "remove"}) /\ Passes(C, D, {"message_edit"})
  BY <1>1 DEF Passes
<1>3. SameShape(l, m) /\ SameReactions(p, l, m)
  BY SameBesidesTextsKeeps DEF Hidden
<1>4. SameShape(k, k) /\ SameReactions(p, k, k) /\ CopiesStay(l, k, k)
  BY SameListStays
<1>5. TextsStay(l, m)
  BY DEF TextsStay, Hidden, SameBesidesTexts
<1>6. MessagesArrive(m, k, D)
  BY <1>1, <1>3, <1>4, ArriveBySending DEF Follows
<1>7. ReactionsFollow(p, m, k, D)
  BY <1>2, <1>3, <1>4, ReactionsByPassing DEF Follows
<1>8. TextsFollow(m, k, D)
  BY <1>2, <1>4, <1>5, TextsByPassing DEF Follows
<1>9. DeletionsFollow(gone \cup {id}, k, D)
  BY DeletionsBySending DEF Follows
<1>10. QED
  BY <1>6, <1>7, <1>8, <1>9 DEF Follows

LEMMA FollowsTheDeleted ==
    ASSUME NEW C \in Seq(Notes), C # <<>>, NEW p, NEW l, NEW k, NEW gone,
           Follows(p, l, k, C, gone), NEW id \in DOMAIN k,
           C[1] = Note("message_delete", id, NoText), NEW j, Hidden(k, j, id)
    PROVE  Follows(p, l, j, Tail(C), gone)
<1> DEFINE D == Tail(C)
<1>1. C[1].type = "message_delete" /\ C[1].id = id
  BY DEF Note
<1>2. Passes(C, D, {"add", "remove"}) /\ Passes(C, D, {"message_edit"})
  BY <1>1 DEF Passes
<1>3. SameShape(k, j) /\ SameReactions(p, k, j)
  BY SameBesidesTextsKeeps DEF Hidden
<1>4. SameShape(l, l) /\ SameReactions(p, l, l) /\ TextsStay(l, l)
  BY SameListStays
<1>5. StayDeleted(k, j) /\ CopiesStay(l, k, j) /\ id \in DOMAIN j /\ j[id].isDeleted
  BY DEF StayDeleted, Hidden, SameBesidesTexts, CopiesStay
<1>6. MessagesArrive(l, j, D)
  BY <1>1, <1>3, <1>4, ArriveByTaking DEF Follows
<1>7. ReactionsFollow(p, l, j, D)
  BY <1>2, <1>3, <1>4, ReactionsByPassing DEF Follows
<1>8. TextsFollow(l, j, D)
  BY <1>2, <1>4, <1>5, TextsByPassing DEF Follows
<1>9. DeletionsFollow(gone, j, D)
  BY <1>1, <1>5, DeletionsByPassing DEF Follows
<1>10. QED
  BY <1>6, <1>7, <1>8, <1>9 DEF Follows

LEMMA FollowsByReacting ==
    ASSUME NEW C \in Seq(Notes), NEW p, NEW l, NEW k, NEW gone, Follows(p, l, k, C, gone),
           NEW id \in DOMAIN l, id \in Ids, NEW e \in Emojis, NEW adds \in BOOLEAN,
           Reaction(id, e, adds) \in Notes, NEW m, Reacted(l, m, id, e, p, adds)
    PROVE  Follows(p, m, k, Append(C, Reaction(id, e, adds)), gone)
<1> DEFINE n == Reaction(id, e, adds)
           D == Append(C, n)
<1>1. n.type \in {"add", "remove"} /\ n.id = id
  BY ReactionNotesDiffer
<1>2. Passes(C, D, {"message_edit"}) /\ Passes(C, D, {"message_delete"})
  BY <1>1 DEF Passes
<1>4. /\ SameShape(l, m) /\ ReactsOnlyAt(p, l, m, id, e) /\ Reacts(m, id, e, p) = adds
      /\ TextsStay(l, m)
  BY ReactedReacts
<1>5. SameShape(k, k) /\ CopiesStay(l, k, k) /\ StayDeleted(k, k)
  BY SameListStays
<1>6. MessagesArrive(m, k, D)
  BY <1>1, <1>4, <1>5, ArriveBySending DEF Follows
<1>7. ReactionsFollow(p, m, k, D)
  BY <1>4, ReactionsBySending DEF Follows
<1>8. TextsFollow(m, k, D)
  BY <1>2, <1>4, <1>5, TextsByPassing DEF Follows
<1>9. DeletionsFollow(gone, k, D)
  BY <1>2, <1>5, DeletionsByPassing DEF Follows
<1>10. QED
  BY <1>6, <1>7, <1>8, <1>9 DEF Follows

LEMMA FollowsTheReaction ==
    ASSUME NEW C \in Seq(Notes), C # <<>>, NEW p, NEW l, NEW k, NEW gone,
           Follows(p, l, k, C, gone), NEW id \in DOMAIN k, id \in Ids, NEW e \in Emojis,
           NEW adds \in BOOLEAN, C[1] = Reaction(id, e, adds),
           NEW j, Reacted(k, j, id, e, p, adds)
    PROVE  Follows(p, l, j, Tail(C), gone)
<1> DEFINE D == Tail(C)
<1>1. C[1].type \in {"add", "remove"} /\ C[1].id = id
  BY ReactionNotesDiffer
<1>2. Passes(C, D, {"message_edit"}) /\ Passes(C, D, {"message_delete"})
  BY <1>1 DEF Passes
<1>4. /\ SameShape(k, j) /\ ReactsOnlyAt(p, k, j, id, e) /\ Reacts(j, id, e, p) = adds
      /\ StayDeleted(k, j) /\ CopiesStay(l, k, j)
  BY ReactedReacts
<1>5. SameShape(l, l) /\ TextsStay(l, l)
  BY SameListStays
<1>6. MessagesArrive(l, j, D)
  BY <1>1, <1>4, <1>5, ArriveByTaking DEF Follows
<1>7. ReactionsFollow(p, l, j, D)
  BY <1>4, ReactionsByTaking DEF Follows
<1>8. TextsFollow(l, j, D)
  BY <1>2, <1>4, <1>5, TextsByPassing DEF Follows
<1>9. DeletionsFollow(gone, j, D)
  BY <1>2, <1>4, DeletionsByPassing DEF Follows
<1>10. QED
  BY <1>6, <1>7, <1>8, <1>9 DEF Follows
-----------------------------------------------------------------------------
(* The updaters, as a window sees them.                                    *)

LEMMA EditIsEdited ==
    ASSUME NEW l, ListOK(l), NEW id, NEW text \in Versions
    PROVE  Edited(l, WithEdit(l, id, text), id, text)
<1> DEFINE k == WithEdit(l, id, text)
<1>1. /\ DOMAIN k = DOMAIN l
      /\ \A i \in DOMAIN l : k[i] =
            IF i = id THEN [l[i] EXCEPT !.text = text]
            ELSE IF l[i].replyTo.id = id
            THEN [l[i] EXCEPT !.replyTo = [l[i].replyTo EXCEPT !.text = text]]
            ELSE l[i]
  BY DEF WithEdit
<1> HIDE DEF k
<1>2. ASSUME NEW i \in DOMAIN l
      PROVE  /\ k[i].isOwn = l[i].isOwn /\ k[i].reactions = l[i].reactions
             /\ k[i].isDeleted = l[i].isDeleted
             /\ k[i].text = IF i = id THEN text ELSE l[i].text
  <2>1. l[i] \in Message
    BY DEF ListOK
  <2>2. QED
    BY <1>1, <2>1 DEF Message
<1>3. QED
  BY <1>1, <1>2 DEF Edited, SameBesidesTexts, k

LEMMA DeleteHides ==
    ASSUME NEW l, ListOK(l), NEW id
    PROVE  Hidden(l, WithDelete(l, id), id)
<1> DEFINE k == WithDelete(l, id)
           q(i) == [l[i].replyTo EXCEPT !.isDeleted = TRUE, !.text = NoText]
<1>0. \A i \in DOMAIN l : l[i] \in Message
  BY DEF ListOK
<1>1. DOMAIN k = DOMAIN l
  BY DEF WithDelete
<1>2. ASSUME NEW i \in DOMAIN l
      PROVE  k[i] =
            IF i = id THEN [l[i] EXCEPT !.isDeleted = TRUE, !.text = NoText]
            ELSE IF l[i].replyTo.id = id THEN [l[i] EXCEPT !.replyTo = q(i)]
            ELSE l[i]
  BY <1>0, <1>2 DEF WithDelete, Message
<1> HIDE DEF k, q
<1>3. ASSUME NEW i \in DOMAIN l
      PROVE  /\ k[i].isOwn = l[i].isOwn /\ k[i].reactions = l[i].reactions
             /\ IF i = id THEN k[i].isDeleted = TRUE
                ELSE k[i].isDeleted = l[i].isDeleted /\ k[i].text = l[i].text
  BY <1>0, <1>2 DEF Message
<1>4. QED
  BY <1>1, <1>3 DEF Hidden, SameBesidesTexts, k

LEMMA ReactionIsReacted ==
    ASSUME NEW l, ListOK(l), NEW id \in DOMAIN l, NEW e \in Emojis, NEW p,
           NEW adds \in BOOLEAN
    PROVE  Reacted(l, WithReaction(l, id, e, p, adds), id, e, p, adds)
<1> DEFINE old == l[id].reactions
           r == [old EXCEPT ![e] = IF adds THEN @ \cup {p} ELSE @ \ {p}]
<1>1. old \in [Emojis -> SUBSET Writers] /\ \A i \in DOMAIN l : l[i] \in Message
  BY DEF ListOK, Message
<1>2. \A f \in Emojis : r[f] = IF f = e THEN IF adds THEN old[f] \cup {p} ELSE old[f] \ {p}
                               ELSE old[f]
  BY <1>1
<1>3. PICK k : k = WithReaction(l, id, e, p, adds)
  OBVIOUS
<1>4. k = [l EXCEPT ![id].reactions = r]
  BY <1>3 DEF WithReaction
<1> HIDE DEF r
<1>5. DOMAIN k = DOMAIN l
      /\ \A i \in DOMAIN l : k[i] = IF i = id THEN [l[i] EXCEPT !.reactions = r] ELSE l[i]
  BY <1>4
<1>6. ASSUME NEW i \in DOMAIN l
      PROVE  /\ k[i].isOwn = l[i].isOwn /\ k[i].isDeleted = l[i].isDeleted
             /\ k[i].text = l[i].text
             /\ k[i].reactions = IF i = id THEN r ELSE l[i].reactions
  BY <1>1, <1>5 DEF Message
<1>7. QED
  BY <1>2, <1>3, <1>5, <1>6 DEF Reacted

\* A status is none of what both windows show.
Alike(l, m) == /\ SameBesidesTexts(l, m)
               /\ \A i \in DOMAIN l : /\ m[i].isDeleted = l[i].isDeleted
                                      /\ m[i].text = l[i].text

LEMMA SameListIsAlike == ASSUME NEW l PROVE Alike(l, l)
BY DEF Alike, SameBesidesTexts

LEMMA AckIsAlike ==
    ASSUME NEW l, ListOK(l), NEW id
    PROVE  Alike(l, WithAck(l, id))
<1>1. CASE id \in DOMAIN l /\ l[id].isOwn /\ l[id].deliveryStatus = "sending"
  <2>1. PICK k : k = [l EXCEPT ![id].deliveryStatus = "delivered"]
    OBVIOUS
  <2>2. k = WithAck(l, id)
    BY <1>1, <2>1 DEF WithAck
  <2>3. DOMAIN k = DOMAIN l
        /\ \A i \in DOMAIN l :
              k[i] = IF i = id THEN [l[i] EXCEPT !.deliveryStatus = "delivered"] ELSE l[i]
    BY <2>1
  <2>4. \A i \in DOMAIN l : l[i] \in Message
    BY DEF ListOK
  <2>5. Alike(l, k)
    BY <2>3, <2>4 DEF Alike, SameBesidesTexts, Message
  <2>6. QED
    BY <2>2, <2>5
<1>2. CASE ~(id \in DOMAIN l /\ l[id].isOwn /\ l[id].deliveryStatus = "sending")
  BY <1>2, SameListIsAlike DEF WithAck
<1>3. QED
  BY <1>1, <1>2

LEMMA ReadIsAlike ==
    ASSUME NEW l, ListOK(l), NEW id
    PROVE  Alike(l, WithRead(l, id))
<1>1. CASE id \in DOMAIN l /\ l[id].isOwn
  <2>1. PICK k : k = [l EXCEPT ![id].deliveryStatus = "read"]
    OBVIOUS
  <2>2. k = WithRead(l, id)
    BY <1>1, <2>1 DEF WithRead
  <2>3. DOMAIN k = DOMAIN l
        /\ \A i \in DOMAIN l :
              k[i] = IF i = id THEN [l[i] EXCEPT !.deliveryStatus = "read"] ELSE l[i]
    BY <2>1
  <2>4. \A i \in DOMAIN l : l[i] \in Message
    BY DEF ListOK
  <2>5. Alike(l, k)
    BY <2>3, <2>4 DEF Alike, SameBesidesTexts, Message
  <2>6. QED
    BY <2>2, <2>5
<1>2. CASE ~(id \in DOMAIN l /\ l[id].isOwn)
  BY <1>2, SameListIsAlike DEF WithRead
<1>3. QED
  BY <1>1, <1>2

LEMMA NewIsGained ==
    ASSUME NEW l, NEW id, id \notin DOMAIN l, NEW own \in BOOLEAN, NEW replyTo
    PROVE  Gains(l, WithMessage(l, id, NewMessage(l, 1, own, replyTo)), id, own)
<1> DEFINE m == NewMessage(l, 1, own, replyTo)
           k == WithMessage(l, id, m)
<1>1. /\ m.isOwn = own /\ m.text = 1 /\ m.isDeleted = FALSE
      /\ m.reactions = [e \in Emojis |-> {}]
  BY DEF NewMessage
<1> HIDE DEF m
<1>2. /\ DOMAIN k = DOMAIN l \cup {id}
      /\ \A i \in DOMAIN l \cup {id} : k[i] = IF i = id THEN m ELSE l[i]
  BY DEF WithMessage
<1> HIDE DEF k
<1>3. k[id] = m /\ \A i \in DOMAIN l : k[i] = l[i]
  BY <1>2
<1>4. \A e \in Emojis : k[id].reactions[e] = {}
  BY <1>1, <1>3
<1>5. QED
  BY <1>1, <1>2, <1>3, <1>4 DEF Gains, k, m

\* What the changes of one window are to what follows it, and to what it follows.
LEMMA AlikeKeeps ==
    ASSUME NEW l, NEW m, Alike(l, m), NEW p, NEW h
    PROVE  /\ SameShape(l, m) /\ SameReactions(p, l, m) /\ TextsStay(l, m)
           /\ CopiesStay(h, l, m) /\ StayDeleted(l, m)
<1>1. SameShape(l, m) /\ SameReactions(p, l, m)
  BY SameBesidesTextsKeeps DEF Alike
<1>2. QED
  BY <1>1 DEF Alike, SameBesidesTexts, TextsStay, CopiesStay, StayDeleted
-----------------------------------------------------------------------------
(* What comes to a window.                                                 *)

LEMMA LaterOneSent ==
    ASSUME NEW S, NEW s \in Seq(S), NEW a \in S, NEW n \in S
    PROVE  <<a>> \o Append(s, n) = Append(<<a>> \o s, n)
OBVIOUS

LEMMA NoteSent ==
    ASSUME NEW S, NEW s \in Seq(S), NEW n \in S
    PROVE  s \o <<n>> = Append(s, n) /\ s \o <<>> = s
OBVIOUS

LEMMA TwoNotesSent ==
    ASSUME NEW S, NEW s \in Seq(S), NEW n \in S, NEW o \in S
    PROVE  s \o Append(<<n>>, o) = Append(Append(s, n), o)
OBVIOUS

LEMMA FirstTaken ==
    ASSUME NEW S, NEW s \in Seq(S), s # <<>>
    PROVE  /\ RemoveAt(s, 1) = Tail(s) /\ <<s[1]>> \o Tail(s) = s
           /\ Tail(s) \in Seq(S) /\ s[1] \in S
BY DEF RemoveAt

LEMMA FirstInFront ==
    ASSUME NEW S, NEW s \in Seq(S), NEW a \in S
    PROVE  /\ (<<a>> \o s)[1] = a /\ <<a>> \o s # <<>> /\ Tail(<<a>> \o s) = s
           /\ <<a>> \o s \in Seq(S)
OBVIOUS

LEMMA SeqOfMore ==
    ASSUME NEW S, NEW T, S \subseteq T, NEW s \in Seq(S)
    PROVE  s \in Seq(T)
OBVIOUS

LEMMA TogetherFacts ==
    ASSUME ConversationInv, Views, NEW p \in Writers
    PROVE  /\ Partner(p) \in Writers /\ Partner(p) # p /\ Partner(Partner(p)) = p
           /\ \A r \in Writers : r = p \/ r = Partner(p)
           /\ Coming(p) \in Seq(SentNotes) /\ Coming(p) \in Seq(Notes)
           /\ inbox[p] \in Seq(Notes) /\ Decrypting(p) \subseteq Notes
           /\ ListOK(messages[p]) /\ OneDecrypted(p) /\ EditsAreOwn(p)
           /\ Follows(p, messages[p], messages[Partner(p)], Coming(Partner(p)), withdrawn)
<1>1. /\ Partner(p) \in Writers /\ Partner(p) # p /\ Partner(Partner(p)) = p
      /\ \A r \in Writers : r = p \/ r = Partner(p)
  BY TwoWriters
<1>2. Coming(p) \in Seq(SentNotes)
  BY DEF Views
<1>3. SentNotes \subseteq Notes
  BY DEF SentNotes
<1>4. Coming(p) \in Seq(Notes)
  BY <1>2, <1>3, SeqOfMore
<1>5. inbox[p] \in Seq(Notes) /\ Decrypting(p) \subseteq Notes /\ ListOK(messages[p])
  BY DEF ConversationInv, NotesOK, ListsOK, Decrypting, NoteOK
<1>6. QED
  BY <1>1, <1>2, <1>4, <1>5 DEF Views

LEMMA QueueGrows ==
    ASSUME NEW S, NEW s \in Seq(S), NEW D, D \subseteq S, NEW n \in S
    PROVE  Queue(D, Append(s, n)) = Append(Queue(D, s), n)
<1>1. CASE D = {}
  BY <1>1 DEF Queue
<1>2. CASE D # {}
  <2> DEFINE a == CHOOSE t \in D : TRUE
  <2>1. a \in S
    BY <1>2
  <2> HIDE DEF a
  <2>2. <<a>> \o Append(s, n) = Append(<<a>> \o s, n)
    BY <2>1, LaterOneSent
  <2>3. QED
    BY <1>2, <2>2 DEF Queue, a
<1>3. QED
  BY <1>1, <1>2

\* What is sent to a window comes to it last.
LEMMA ComingGrows ==
    ASSUME ConversationInv, Views, NEW p \in Writers, NEW n \in SentNotes,
           SendNotes(p, <<n>>), Decrypting(Partner(p))' = Decrypting(Partner(p))
    PROVE  /\ Coming(Partner(p))' = Append(Coming(Partner(p)), n)
           /\ Coming(Partner(p))' \in Seq(SentNotes) /\ inbox'[p] = inbox[p]
<1> DEFINE q == Partner(p)
           N == Notes
           S == SentNotes
<1>1. q \in Writers /\ q # p /\ Coming(q) \in Seq(S) /\ n \in S
      /\ inbox[q] \in Seq(N) /\ Decrypting(q) \subseteq N
  BY TogetherFacts
<1>2. n \in N
  BY DEF SentNotes
<1>3. inbox' = [inbox EXCEPT ![q] = inbox[q] \o <<n>>] /\ DOMAIN inbox = Writers
  BY DEF SendNotes, ConversationInv, NotesOK
<1> HIDE DEF q, N, S
<1>4. inbox'[q] = Append(inbox[q], n) /\ inbox'[p] = inbox[p]
  BY <1>1, <1>2, <1>3, NoteSent
<1>5. Coming(q)' = Queue(Decrypting(q), Append(inbox[q], n))
  BY <1>4 DEF Coming, q
<1>6. Queue(Decrypting(q), Append(inbox[q], n)) = Append(Coming(q), n)
  BY <1>1, <1>2, QueueGrows DEF Coming
<1>7. Append(Coming(q), n) \in Seq(S)
  BY <1>1
<1>8. QED
  BY <1>4, <1>5, <1>6, <1>7 DEF q, S

LEMMA ComingStays ==
    ASSUME NEW r, inbox'[r] = inbox[r], Decrypting(r)' = Decrypting(r)
    PROVE  Coming(r)' = Coming(r)
BY DEF Coming

\* A step of p that shows the list m.
Steps(p, m, X) ==
    /\ messages'[p] = m /\ messages'[Partner(p)] = messages[Partner(p)]
    /\ crypting'[p] = X /\ crypting'[Partner(p)] = crypting[Partner(p)]

LEMMA ViewsStep ==
    ASSUME ConversationInv, Views, NEW p \in Writers, NEW m, NEW X, Steps(p, m, X),
           Coming(p)' \in Seq(SentNotes), Coming(Partner(p))' \in Seq(SentNotes),
           OneDecrypted(p)', EditsAreOwn(p)',
           Follows(p, m, messages[Partner(p)], Coming(Partner(p))', withdrawn'),
           Follows(Partner(p), messages[Partner(p)], m, Coming(p)', withdrawn')
    PROVE  Views'
<1> DEFINE q == Partner(p)
<1>1. /\ q \in Writers /\ q # p /\ Partner(q) = p
      /\ \A r \in Writers : r = p \/ r = q
      /\ OneDecrypted(q) /\ EditsAreOwn(q)
  BY TogetherFacts
<1>2. messages'[p] = m /\ messages'[q] = messages[q] /\ crypting'[q] = crypting[q]
  BY DEF Steps
<1> HIDE DEF q
<1>3. OneDecrypted(q)' /\ EditsAreOwn(q)'
  BY <1>1, <1>2 DEF OneDecrypted, EditsAreOwn, Decrypting
<1>4. Follows(p, messages'[p], messages'[q], Coming(q)', withdrawn')
      /\ Follows(q, messages'[q], messages'[p], Coming(p)', withdrawn')
  BY <1>2 DEF q
<1>5. QED
  BY <1>1, <1>3, <1>4 DEF Views, q

\* The messages of the list l are in m, each of the same author.
Keeps(l, m) == \A id \in DOMAIN l : id \in DOMAIN m /\ m[id].isOwn = l[id].isOwn

LEMMA FewerCrypting ==
    ASSUME ConversationInv, Views, NEW p \in Writers, NEW m, NEW X, X \subseteq crypting[p],
           Steps(p, m, X), Keeps(messages[p], m)
    PROVE  /\ OneDecrypted(p)' /\ EditsAreOwn(p)'
           /\ Decrypting(Partner(p))' = Decrypting(Partner(p))
           /\ Decrypting(p)' = {t \in X : IsCipher(t)}
<1>1. OneDecrypted(p) /\ EditsAreOwn(p)
  BY TogetherFacts
<1>2. QED
  BY <1>1 DEF OneDecrypted, EditsAreOwn, Decrypting, Steps, Keeps

\* Where a window only shows and sends, what comes to it stays.
LEMMA OwnStep ==
    ASSUME ConversationInv, Views, NEW p \in Writers, NEW m, NEW X, X \subseteq crypting[p],
           \A t \in crypting[p] : IsCipher(t) => t \in X,
           Steps(p, m, X), Keeps(messages[p], m),
           inbox'[p] = inbox[p], Coming(Partner(p))' \in Seq(SentNotes),
           Follows(p, m, messages[Partner(p)], Coming(Partner(p))', withdrawn'),
           Follows(Partner(p), messages[Partner(p)], m, Coming(p), withdrawn')
    PROVE  Views'
<1>1. OneDecrypted(p)' /\ EditsAreOwn(p)' /\ Decrypting(p)' = {t \in X : IsCipher(t)}
  BY FewerCrypting
<1>2. {t \in X : IsCipher(t)} = Decrypting(p)
  BY DEF Decrypting
<1>3. Coming(p)' = Coming(p)
  BY <1>1, <1>2, ComingStays
<1>4. Coming(p)' \in Seq(SentNotes)
  BY <1>3, TogetherFacts
<1>5. QED
  BY <1>1, <1>3, <1>4, ViewsStep

LEMMA ShowSteps ==
    ASSUME ConversationInv, NEW p \in Writers, NEW m, NEW X, Show(p, m),
           \/ crypting' = crypting /\ X = crypting[p]
           \/ crypting' = [crypting EXCEPT ![p] = X]
    PROVE  Steps(p, m, X)
BY TwoWriters DEF ConversationInv, ListsOK, NotesOK, Show, Steps

-----------------------------------------------------------------------------
(* What the user does.                                                     *)

LEMMA StartMessageKeepsViews ==
    ASSUME ConversationInv, Views, NEW p \in Writers, StartMessage(p)
    PROVE  Views'
<1>1. PICK replyTo \in DOMAIN messages[p] \cup {NoMessage} : StartMessage(p)!(replyTo)
  BY DEF StartMessage
<1>2. \A r \in Writers : \A t \in crypting'[r] : t \in crypting[r] \/ t.type = "send"
  BY <1>1 DEF ConversationInv, NotesOK, Note
<1>3. \A r \in Writers : crypting[r] \subseteq crypting'[r]
  BY <1>1 DEF ConversationInv, NotesOK
<1>4. \A r \in Writers : Decrypting(r)' = Decrypting(r) /\ inbox'[r] = inbox[r]
  BY <1>1, <1>2, <1>3 DEF Decrypting, IsCipher
<1>5. \A r \in Writers : Coming(r)' = Coming(r)
  BY <1>4, ComingStays
<1>6. \A r \in Writers : EditsAreOwn(r)' /\ OneDecrypted(r)'
  BY <1>1, <1>2, <1>4 DEF EditsAreOwn, OneDecrypted, Views
<1>7. messages' = messages /\ withdrawn' = withdrawn
  BY <1>1
<1>8. QED
  BY <1>5, <1>6, <1>7, TwoWriters DEF Views

LEMMA StartEditKeepsViews ==
    ASSUME ConversationInv, Views, NEW p \in Writers, StartEdit(p)
    PROVE  Views'
<1>1. PICK id \in DOMAIN messages[p] : StartEdit(p)!(id)
  BY DEF StartEdit
<1>2. \A r \in Writers : \A t \in crypting'[r] :
         t \in crypting[r] \/ (r = p /\ t.type = "edit" /\ t.id = id)
  BY <1>1 DEF ConversationInv, NotesOK, Note
<1>3. \A r \in Writers : crypting[r] \subseteq crypting'[r]
  BY <1>1 DEF ConversationInv, NotesOK
<1>4. \A r \in Writers : Decrypting(r)' = Decrypting(r) /\ inbox'[r] = inbox[r]
  BY <1>1, <1>2, <1>3 DEF Decrypting, IsCipher
<1>5. \A r \in Writers : Coming(r)' = Coming(r)
  BY <1>4, ComingStays
<1>6. \A r \in Writers : EditsAreOwn(r)' /\ OneDecrypted(r)'
  BY <1>1, <1>2, <1>4 DEF EditsAreOwn, OneDecrypted, Views, CanEdit
<1>7. messages' = messages /\ withdrawn' = withdrawn
  BY <1>1
<1>8. QED
  BY <1>5, <1>6, <1>7, TwoWriters DEF Views

LEMMA MessageEncryptedKeepsViews ==
    ASSUME ConversationInv, Views, NEW p \in Writers, MessageEncrypted(p)
    PROVE  Views'
<1>1. PICK t \in crypting[p] : MessageEncrypted(p)!(t)
  BY DEF MessageEncrypted
<1> DEFINE q == Partner(p)
           l == messages[p]
           k == messages[q]
           n == Note("message", t.id, t.arg)
           m == WithMessage(l, t.id, NewMessage(l, 1, TRUE, t.arg))
           X == crypting[p] \ {t}
<1>2. t \in Notes
  BY DEF ConversationInv, NotesOK, NoteOK
<1>3. n \in SentNotes /\ n \in Notes /\ IsMessage(n, t.id)
  BY <1>2 DEF Notes, NoteTypes, Note, IsMessage, SentNotes
<1>4. t.id \notin DOMAIN l /\ t.id \notin DOMAIN k
  BY <1>1 DEF ConversationInv, NewComesOnce, NewIds, SentIds, IsNew
<1>5. Gains(l, m, t.id, TRUE)
  BY <1>4, NewIsGained
<1>6. Steps(p, m, X)
  BY <1>1, ShowSteps
<1>7. /\ SendNotes(p, <<n>>) /\ withdrawn' = withdrawn
      /\ Coming(q) \in Seq(Notes) /\ Coming(p) \in Seq(Notes)
      /\ q \in Writers /\ Partner(q) = p
      /\ Follows(p, l, k, Coming(q), withdrawn) /\ Follows(q, k, l, Coming(p), withdrawn)
  BY <1>1, TogetherFacts
<1> HIDE DEF q, l, k, n, m, X
<1>8. Keeps(l, m)
  BY <1>5 DEF Keeps, Gains
<1>9. Decrypting(q)' = Decrypting(q) /\ \A s \in crypting[p] : IsCipher(s) => s \in X
  BY <1>1, <1>6, <1>7 DEF Steps, Decrypting, q, X, IsCipher
<1>10. /\ Coming(q)' = Append(Coming(q), n) /\ Coming(q)' \in Seq(SentNotes)
       /\ inbox'[p] = inbox[p]
  BY <1>3, <1>7, <1>9, ComingGrows DEF q
<1>11. Follows(p, m, k, Coming(q)', withdrawn')
  BY <1>3, <1>4, <1>5, <1>7, <1>10, FollowsByWriting
<1>12. Follows(q, k, m, Coming(p), withdrawn')
  BY <1>4, <1>5, <1>7, FollowsThePartnersOwn
<1>13. QED
  BY <1>6, <1>8, <1>9, <1>10, <1>11, <1>12, OwnStep DEF q, l, k, X

\* An edit by the partner is of none of the author's own messages.
LEMMA FollowsTheEditor ==
    ASSUME NEW C \in Seq(Notes), NEW p, NEW l, NEW k, NEW gone, Follows(p, l, k, C, gone),
           NEW id \in DOMAIN k, k[id].isOwn = TRUE, NEW text, NEW j, Edited(k, j, id, text)
    PROVE  Follows(p, l, j, C, gone)
<1>1. SameShape(k, j) /\ SameReactions(p, k, j)
  BY SameBesidesTextsKeeps DEF Edited
<1>2. id \in DOMAIN l => l[id].isOwn = FALSE
  BY DEF Follows, MessagesArrive
<1>3. CopiesStay(l, k, j)
  BY <1>2 DEF CopiesStay, Edited, SameBesidesTexts
<1>4. StayDeleted(k, j)
  BY DEF StayDeleted, Edited, SameBesidesTexts
<1>5. QED
  BY <1>1, <1>3, <1>4, SameListStays, FollowsByPassing DEF Passes
LEMMA FollowsAnEdited ==
    ASSUME NEW C \in Seq(Notes), NEW p, NEW l, NEW k, NEW gone, Follows(p, l, k, C, gone),
           NEW id \in DOMAIN l, l[id].isOwn = FALSE, NEW text, NEW m, Edited(l, m, id, text)
    PROVE  Follows(p, m, k, C, gone)
<1>1. SameShape(l, m) /\ SameReactions(p, l, m)
  BY SameBesidesTextsKeeps DEF Edited
<1>2. TextsStay(l, m)
  BY DEF TextsStay, Edited, SameBesidesTexts
<1>3. QED
  BY <1>1, <1>2, SameListStays, FollowsByPassing DEF Passes

LEMMA EditEncryptedKeepsViews ==
    ASSUME ConversationInv, Views, NEW p \in Writers, EditEncrypted(p)
    PROVE  Views'
<1>1. PICK t \in crypting[p] : EditEncrypted(p)!(t)
  BY DEF EditEncrypted
<1> DEFINE q == Partner(p)
           l == messages[p]
           k == messages[q]
           n == Note("message_edit", t.id, t.arg)
           m == WithEdit(l, t.id, t.arg)
           X == crypting[p] \ {t}
<1>2. t \in Notes /\ t.arg \in Versions
  BY <1>1 DEF ConversationInv, NotesOK, NoteOK
<1>3. n \in SentNotes /\ n \in Notes
  BY <1>2 DEF Notes, NoteTypes, Note, SentNotes
<1>4. /\ SendNotes(p, <<n>>) /\ withdrawn' = withdrawn /\ ListOK(l) /\ EditsAreOwn(p)
      /\ Coming(q) \in Seq(Notes) /\ Coming(p) \in Seq(Notes)
      /\ q \in Writers /\ Partner(q) = p
      /\ Follows(p, l, k, Coming(q), withdrawn) /\ Follows(q, k, l, Coming(p), withdrawn)
  BY <1>1, TogetherFacts
<1>5. t.id \in DOMAIN l /\ l[t.id].isOwn = TRUE
  BY <1>1, <1>4 DEF EditsAreOwn, ListOK, Message
<1>6. Edited(l, m, t.id, t.arg)
  BY <1>2, <1>4, EditIsEdited
<1>7. Steps(p, m, X)
  BY <1>1, ShowSteps
<1> HIDE DEF q, l, k, m, X
<1>8. Keeps(l, m)
  BY <1>6 DEF Keeps, Edited, SameBesidesTexts
<1>9. Decrypting(q)' = Decrypting(q) /\ \A s \in crypting[p] : IsCipher(s) => s \in X
  BY <1>1, <1>7 DEF Steps, Decrypting, q, X, IsCipher
<1>10. /\ Coming(q)' = Append(Coming(q), n) /\ Coming(q)' \in Seq(SentNotes)
       /\ inbox'[p] = inbox[p]
  BY <1>3, <1>4, <1>9, ComingGrows DEF q
<1>11. Follows(p, m, k, Coming(q)', withdrawn')
  BY <1>2, <1>3, <1>4, <1>5, <1>6, <1>10, FollowsByEditing
<1>12. Follows(q, k, m, Coming(p), withdrawn')
  BY <1>4, <1>5, <1>6, FollowsTheEditor
<1>13. QED
  BY <1>7, <1>8, <1>9, <1>10, <1>11, <1>12, OwnStep DEF q, l, k, X

\* What a window hides is hidden there.
LEMMA HiddenKeeps ==
    ASSUME NEW l, NEW m, NEW id, Hidden(l, m, id), NEW p, NEW h
    PROVE  /\ SameShape(l, m) /\ SameReactions(p, l, m) /\ TextsStay(l, m)
           /\ CopiesStay(h, l, m) /\ StayDeleted(l, m)
<1>1. SameShape(l, m) /\ SameReactions(p, l, m)
  BY SameBesidesTextsKeeps DEF Hidden
<1>2. QED
  BY <1>1 DEF Hidden, SameBesidesTexts, TextsStay, CopiesStay, StayDeleted

LEMMA GoneIsGone ==
    ASSUME NEW C, NEW p, NEW l, NEW k, NEW gone, Follows(p, l, k, C, gone),
           NEW id \in DOMAIN k, k[id].isDeleted
    PROVE  Follows(p, l, k, C, gone \cup {id})
BY DEF Follows, DeletionsFollow

LEMMA DeleteMessageKeepsViews ==
    ASSUME ConversationInv, Views, NEW p \in Writers, DeleteMessage(p)
    PROVE  Views'
<1>1. PICK id \in DOMAIN messages[p], all \in BOOLEAN : DeleteMessage(p)!(id, all)
  BY DEF DeleteMessage
<1> DEFINE q == Partner(p)
           l == messages[p]
           k == messages[q]
           n == Note("message_delete", id, NoText)
           m == WithDelete(l, id)
           X == crypting[p]
<1>2. /\ ListOK(l) /\ Coming(q) \in Seq(Notes) /\ Coming(p) \in Seq(Notes)
      /\ q \in Writers /\ q # p /\ Partner(q) = p /\ Coming(q) \in Seq(SentNotes)
      /\ inbox[q] \in Seq(Notes)
      /\ Follows(p, l, k, Coming(q), withdrawn) /\ Follows(q, k, l, Coming(p), withdrawn)
  BY TogetherFacts
<1>3. n \in SentNotes /\ n \in Notes
  BY ListedMessages, VersionsAreNumbers DEF Notes, NoteTypes, Note, SentNotes
<1>4. id \in DOMAIN l /\ l[id].isOwn = TRUE
  BY <1>1, ListedMessages DEF CanDelete, Message
<1>5. Hidden(l, m, id)
  BY <1>2, DeleteHides
<1>6. Steps(p, m, X)
  BY <1>1, ShowSteps
<1>7. /\ SendNotes(p, IF all THEN <<n>> ELSE <<>>)
      /\ withdrawn' = IF all THEN withdrawn \cup {id} ELSE withdrawn
  BY <1>1
<1> HIDE DEF q, l, k, n, m, X
<1>8. Keeps(l, m)
  BY <1>5 DEF Keeps, Hidden, SameBesidesTexts
<1>9. Decrypting(q)' = Decrypting(q) /\ \A s \in crypting[p] : IsCipher(s) => s \in X
  BY <1>6 DEF Steps, Decrypting, q, X
<1>10. Follows(q, k, m, Coming(p), withdrawn)
  BY <1>2, <1>5, HiddenKeeps, SameListStays, FollowsByPassing DEF Passes
<1>11. CASE all = TRUE
  <2>1. /\ Coming(q)' = Append(Coming(q), n) /\ Coming(q)' \in Seq(SentNotes)
        /\ inbox'[p] = inbox[p]
    BY <1>3, <1>7, <1>9, <1>11, ComingGrows DEF q
  <2>2. Follows(p, m, k, Coming(q)', withdrawn')
    <3>1. Follows(p, m, k, Append(Coming(q), n), withdrawn \cup {id})
      BY <1>2, <1>3, <1>4, <1>5, FollowsByDeleting DEF n
    <3>2. QED
      BY <1>7, <1>11, <2>1, <3>1
  <2>3. id \in DOMAIN m /\ m[id].isDeleted
    BY <1>4, <1>5 DEF Hidden, SameBesidesTexts
  <2>4. Follows(q, k, m, Coming(p), withdrawn')
    BY <1>7, <1>10, <1>11, <2>3, GoneIsGone
  <2>5. QED
    BY <1>6, <1>8, <1>9, <2>1, <2>2, <2>4, OwnStep DEF q, l, k, X
<1>12. CASE all = FALSE
  <2>1. inbox'[p] = inbox[p] /\ inbox'[q] = inbox[q]
    <3>1. inbox' = [inbox EXCEPT ![q] = inbox[q] \o <<>>] /\ DOMAIN inbox = Writers
      BY <1>7, <1>12 DEF SendNotes, ConversationInv, NotesOK, q
    <3> DEFINE N == Notes
    <3>2. inbox[q] \in Seq(N)
      BY <1>2
    <3> HIDE DEF N
    <3>3. inbox[q] \o <<>> = inbox[q]
      BY <3>2
    <3>4. QED
      BY <1>2, <3>1, <3>3
  <2>2. Coming(q)' = Coming(q)
    BY <1>9, <2>1, ComingStays
  <2>3. Follows(p, m, k, Coming(q)', withdrawn')
    BY <1>2, <1>5, <1>7, <1>12, <2>2, HiddenKeeps, SameListStays, FollowsByPassing DEF Passes
  <2>4. QED
    BY <1>2, <1>6, <1>7, <1>8, <1>9, <1>10, <1>12, <2>1, <2>2, <2>3, OwnStep DEF q, l, k, X
<1>13. QED
  BY <1>11, <1>12
LEMMA MarkAsReadKeepsViews ==
    ASSUME ConversationInv, Views, NEW p \in Writers, MarkAsRead(p)
    PROVE  Views'
<1>1. PICK id \in DOMAIN messages[p] : MarkAsRead(p)!(id)
  BY DEF MarkAsRead
<1> DEFINE q == Partner(p)
           l == messages[p]
           k == messages[q]
           n == Note("message_read", id, NoText)
           X == crypting[p]
<1>2. /\ Coming(q) \in Seq(Notes) /\ Coming(p) \in Seq(Notes)
      /\ q \in Writers /\ Partner(q) = p /\ withdrawn' = withdrawn
      /\ Follows(p, l, k, Coming(q), withdrawn) /\ Follows(q, k, l, Coming(p), withdrawn)
  BY <1>1, TogetherFacts
<1>3. n \in SentNotes /\ n \in Notes /\ n.type \notin Changes \cup {"message"}
  BY ListedMessages, VersionsAreNumbers DEF Notes, NoteTypes, Note, SentNotes, Changes
<1>4. Steps(p, l, X) /\ SendNotes(p, <<n>>)
  BY <1>1 DEF Steps
<1> HIDE DEF q, l, k, n, X
<1>5. Keeps(l, l)
  BY DEF Keeps
<1>6. Decrypting(q)' = Decrypting(q) /\ \A s \in crypting[p] : IsCipher(s) => s \in X
  BY <1>4 DEF Steps, Decrypting, q, X
<1>7. /\ Coming(q)' = Append(Coming(q), n) /\ Coming(q)' \in Seq(SentNotes)
      /\ inbox'[p] = inbox[p]
  BY <1>3, <1>4, <1>6, ComingGrows DEF q
<1>8. Passes(Coming(q), Coming(q)', Changes \cup {"message"})
  BY <1>3, <1>7 DEF Passes
<1>9. Follows(p, l, k, Coming(q)', withdrawn')
  BY <1>2, <1>8, SameListStays, FollowsByPassing
<1>10. QED
  BY <1>2, <1>4, <1>5, <1>6, <1>7, <1>9, OwnStep DEF q, l, k, X

\* The reactions of p, in the list of p or of the partner, are none of the partner's.
LEMMA OtherReactions ==
    ASSUME NEW l, NEW m, NEW id \in DOMAIN l, NEW e \in Emojis, NEW p, NEW q, q # p,
           NEW adds \in BOOLEAN, Reacted(l, m, id, e, p, adds),
           NEW C \in Seq(Notes), NEW k, NEW gone
    PROVE  /\ Follows(q, l, k, C, gone) => Follows(q, m, k, C, gone)
           /\ Follows(q, k, l, C, gone) => Follows(q, k, m, C, gone)
<1>1. /\ SameShape(l, m) /\ SameReactions(q, l, m) /\ TextsStay(l, m)
      /\ StayDeleted(l, m) /\ \A h : CopiesStay(h, l, m)
  BY ReactedReacts
<1>2. Passes(C, C, Changes \cup {"message"})
  BY DEF Passes
<1>3. QED
  BY <1>1, <1>2, SameListStays, FollowsByPassing

LEMMA ReactionNotesAreSent ==
    ASSUME NEW id \in Ids, NEW e \in Emojis, NEW adds \in BOOLEAN
    PROVE  Reaction(id, e, adds) \in SentNotes /\ Reaction(id, e, adds) \in Notes
BY DEF Reaction, Notes, NoteTypes, Note, SentNotes

LEMMA RemoveReactionKeepsViews ==
    ASSUME ConversationInv, Views, NEW p \in Writers, RemoveReaction(p)
    PROVE  Views'
<1>1. PICK id \in DOMAIN messages[p], e \in Emojis : RemoveReaction(p)!(id, e)
  BY DEF RemoveReaction
<1> DEFINE q == Partner(p)
           l == messages[p]
           k == messages[q]
           n == Reaction(id, e, FALSE)
           m == WithReaction(l, id, e, p, FALSE)
           X == crypting[p]
<1>2. /\ Coming(q) \in Seq(Notes) /\ Coming(p) \in Seq(Notes)
      /\ q \in Writers /\ q # p /\ Partner(q) = p /\ withdrawn' = withdrawn
      /\ Follows(p, l, k, Coming(q), withdrawn) /\ Follows(q, k, l, Coming(p), withdrawn)
  BY <1>1, TogetherFacts
<1>3. n \in SentNotes /\ n \in Notes /\ id \in Ids /\ id \in DOMAIN l /\ ListOK(l)
  BY ListedMessages, ReactionNotesAreSent
<1>4. Reacted(l, m, id, e, p, FALSE)
  BY <1>3, ReactionIsReacted
<1>5. Steps(p, m, X) /\ SendNotes(p, <<n>>)
  BY <1>1, ShowSteps DEF Reaction
<1> HIDE DEF q, l, k, m, X
<1>6. Keeps(l, m)
  BY <1>4 DEF Keeps, Reacted
<1>7. Decrypting(q)' = Decrypting(q) /\ \A s \in crypting[p] : IsCipher(s) => s \in X
  BY <1>5 DEF Steps, Decrypting, q, X
<1> HIDE DEF n
<1>8. /\ Coming(q)' = Append(Coming(q), n) /\ Coming(q)' \in Seq(SentNotes)
      /\ inbox'[p] = inbox[p]
  BY <1>3, <1>5, <1>7, ComingGrows DEF q
<1>9. Follows(p, m, k, Append(Coming(q), n), withdrawn)
  BY <1>2, <1>3, <1>4, FollowsByReacting DEF n
<1>10. Follows(q, k, m, Coming(p), withdrawn)
  BY <1>2, <1>3, <1>4, OtherReactions
<1>11. QED
  BY <1>2, <1>5, <1>6, <1>7, <1>8, <1>9, <1>10, OwnStep DEF q, l, k, X
LEMMA NotesOfNone ==
    ASSUME NEW id, NEW e
    PROVE  ReactionNotes(id, e, {}) = <<Note("add", id, e)>>
<1>1. {Note("remove", id, f) : f \in {}} = {} /\ Cardinality({}) = 0
  BY FS_EmptySet
<1>2. SetToSeq({}) = CHOOSE f \in [1 .. 0 -> {}] : IsInjective(f)
  BY <1>1 DEF SetToSeq
<1>3. \A f \in [1 .. 0 -> {}] : f = <<>>
  OBVIOUS
<1>4. PICK f : f = [i \in 1 .. 0 |-> 0]
  OBVIOUS
<1>5. f \in [1 .. 0 -> {}] /\ IsInjective(f)
  BY <1>4 DEF IsInjective
<1>6. SetToSeq({}) = <<>>
  BY <1>2, <1>3, <1>5
<1>7. ReactionNotes(id, e, {}) = Append(<<>>, Note("add", id, e))
  BY <1>1, <1>6 DEF ReactionNotes
<1> DEFINE n == Note("add", id, e)
<1>8. Append(<<>>, n) = <<n>>
  OBVIOUS
<1>9. QED
  BY <1>7, <1>8

LEMMA NotesOfOne ==
    ASSUME NEW id, NEW e, NEW f
    PROVE  ReactionNotes(id, e, {f}) = Append(<<Note("remove", id, f)>>, Note("add", id, e))
<1> DEFINE n == Note("remove", id, f)
<1>1. {Note("remove", id, g) : g \in {f}} = {n}
  OBVIOUS
<1> HIDE DEF n
<1>2. Cardinality({n}) = 1
  BY FS_Singleton
<1>3. SetToSeq({n}) = CHOOSE g \in [1 .. 1 -> {n}] : IsInjective(g)
  BY <1>2 DEF SetToSeq
<1>4. \A g \in [1 .. 1 -> {n}] : g = <<n>>
  OBVIOUS
<1>5. [i \in 1 .. 1 |-> n] \in [1 .. 1 -> {n}] /\ IsInjective([i \in 1 .. 1 |-> n])
  BY DEF IsInjective
<1>6. SetToSeq({n}) = <<n>>
  BY <1>3, <1>4, <1>5
<1>7. QED
  BY <1>1, <1>6 DEF ReactionNotes, n
\* A reaction is added, or replaces an earlier one in a list l2 between.
WithAdded(l, id, e, p, old) ==
    LET rest == [l[id].reactions EXCEPT ![e] = @ \cup {p}]
    IN  [l EXCEPT ![id].reactions =
            [f \in Emojis |-> IF f \in old THEN rest[f] \ {p} ELSE rest[f]]]

LEMMA ReactionIsAdded ==
    ASSUME NEW l, ListOK(l), NEW id \in DOMAIN l, NEW e \in Emojis, NEW p, NEW old
    PROVE  LET m == WithAdded(l, id, e, p, old) IN
           /\ old = {} => Reacted(l, m, id, e, p, TRUE)
           /\ \A g \in Emojis : g # e /\ old = {g} =>
                 \E l2 : Reacted(l, l2, id, g, p, FALSE) /\ Reacted(l2, m, id, e, p, TRUE)
<1> DEFINE rest == [l[id].reactions EXCEPT ![e] = @ \cup {p}]
           r == [f \in Emojis |-> IF f \in old THEN rest[f] \ {p} ELSE rest[f]]
           m == WithAdded(l, id, e, p, old)
<1>1. l[id].reactions \in [Emojis -> SUBSET Writers] /\ \A i \in DOMAIN l : l[i] \in Message
  BY DEF ListOK, Message
<1>2. \A f \in Emojis : rest[f] = IF f = e THEN l[id].reactions[f] \cup {p}
                                  ELSE l[id].reactions[f]
  BY <1>1
<1>3. \A f \in Emojis : r[f] = IF f \in old THEN rest[f] \ {p} ELSE rest[f]
  OBVIOUS
<1>4. m = [l EXCEPT ![id].reactions = r]
  BY DEF WithAdded
<1> HIDE DEF r, rest, m
<1>5. /\ DOMAIN m = DOMAIN l
      /\ \A i \in DOMAIN l :
            /\ m[i].isOwn = l[i].isOwn /\ m[i].isDeleted = l[i].isDeleted
            /\ m[i].text = l[i].text
            /\ m[i].reactions = IF i = id THEN r ELSE l[i].reactions
  <2>1. DOMAIN m = DOMAIN l
        /\ \A i \in DOMAIN l : m[i] = IF i = id THEN [l[i] EXCEPT !.reactions = r] ELSE l[i]
    BY <1>4
  <2>2. QED
    BY <1>1, <2>1 DEF Message
<1>6. ASSUME old = {}
      PROVE  Reacted(l, m, id, e, p, TRUE)
  BY <1>2, <1>3, <1>5, <1>6 DEF Reacted
<1>7. ASSUME NEW g \in Emojis, g # e, old = {g}
      PROVE  \E l2 : Reacted(l, l2, id, g, p, FALSE) /\ Reacted(l2, m, id, e, p, TRUE)
  <2> DEFINE l2 == WithReaction(l, id, g, p, FALSE)
  <2>1. Reacted(l, l2, id, g, p, FALSE)
    BY ReactionIsReacted
  <2> HIDE DEF l2
  <2>2. DOMAIN m = DOMAIN l2 /\ id \in DOMAIN l2
        /\ \A i \in DOMAIN l2 :
              m[i].isOwn = l2[i].isOwn /\ m[i].isDeleted = l2[i].isDeleted
              /\ m[i].text = l2[i].text
    BY <1>5, <2>1 DEF Reacted
  <2>3. ASSUME NEW i \in DOMAIN l2, NEW f \in Emojis
        PROVE  m[i].reactions[f] = IF i = id /\ f = e THEN l2[i].reactions[f] \cup {p}
                                   ELSE l2[i].reactions[f]
    <3>1. /\ i \in DOMAIN l
          /\ l2[i].reactions[f] = IF i = id /\ f = g THEN l[i].reactions[f] \ {p}
                                  ELSE l[i].reactions[f]
      BY <2>1, <2>3 DEF Reacted
    <3>2. m[i].reactions = IF i = id THEN r ELSE l[i].reactions
      BY <1>5, <3>1
    <3>3. CASE i # id
      BY <3>1, <3>2, <3>3
    <3>4. CASE i = id
      <4>1. r[f] = IF f = g THEN rest[f] \ {p} ELSE rest[f]
        BY <1>3, <1>7
      <4>2. CASE f = e
        BY <1>2, <1>7, <3>1, <3>2, <3>4, <4>1, <4>2
      <4>3. CASE f # e
        BY <1>2, <3>1, <3>2, <3>4, <4>1, <4>3
      <4>4. QED
        BY <4>2, <4>3
    <3>5. QED
      BY <3>3, <3>4
  <2>4. \A i \in DOMAIN l2, f \in Emojis :
           m[i].reactions[f] = IF i = id /\ f = e
                               THEN IF TRUE THEN l2[i].reactions[f] \cup {p}
                                            ELSE l2[i].reactions[f] \ {p}
                               ELSE l2[i].reactions[f]
    BY <2>3
  <2>5. Reacted(l2, m, id, e, p, TRUE)
    BY <2>2, <2>4 DEF Reacted
  <2>6. QED
    BY <2>1, <2>5
<1>8. QED
  BY <1>6, <1>7 DEF m

LEMMA AddReactionKeepsViews ==
    ASSUME ConversationInv, Views, NEW p \in Writers, AddReaction(p)
    PROVE  Views'
<1>1. PICK id \in DOMAIN messages[p], e \in Emojis : AddReaction(p)!(id, e)
  BY DEF AddReaction
<1> DEFINE q == Partner(p)
           l == messages[p]
           k == messages[q]
           X == crypting[p]
           C == Coming(q)
           S == SentNotes
           a == Reaction(id, e, TRUE)
<1>2. PICK old \in ReplacedEmojis(p, id) :
          /\ SendNotes(p, ReactionNotes(id, e, old))
          /\ Show(p, WithAdded(l, id, e, p, old))
  BY <1>1 DEF WithAdded
<1> DEFINE m == WithAdded(l, id, e, p, old)
<1>3. /\ C \in Seq(Notes) /\ Coming(p) \in Seq(Notes) /\ C \in Seq(S)
      /\ q \in Writers /\ q # p /\ Partner(q) = p /\ withdrawn' = withdrawn
      /\ inbox[q] \in Seq(Notes) /\ Decrypting(q) \subseteq Notes
      /\ Follows(p, l, k, C, withdrawn) /\ Follows(q, k, l, Coming(p), withdrawn)
  BY <1>1, TogetherFacts
<1>4. a \in S /\ a \in Notes /\ id \in Ids /\ id \in DOMAIN l /\ ListOK(l)
  BY ListedMessages, ReactionNotesAreSent
<1>5. old = {} \/ \E g \in Emojis : g # e /\ old = {g}
  <2>1. p \notin l[id].reactions[e]
    BY <1>1 DEF ToggleAdds
  <2>2. QED
    BY <1>2, <2>1 DEF ReplacedEmojis, MyEmojis
<1>6. /\ old = {} => Reacted(l, m, id, e, p, TRUE)
      /\ \A g \in Emojis : g # e /\ old = {g} =>
            \E l2 : Reacted(l, l2, id, g, p, FALSE) /\ Reacted(l2, m, id, e, p, TRUE)
  BY <1>4, ReactionIsAdded
<1>7. Steps(p, m, X) /\ SendNotes(p, ReactionNotes(id, e, old))
  BY <1>1, <1>2, ShowSteps
<1> HIDE DEF q, l, k, m, X, C, S
<1>8. Decrypting(q)' = Decrypting(q) /\ \A s \in crypting[p] : IsCipher(s) => s \in X
  BY <1>7 DEF Steps, Decrypting, q, X
<1>9. CASE old = {}
  <2>1. Reacted(l, m, id, e, p, TRUE)
    BY <1>6, <1>9
  <2>2. SendNotes(p, <<a>>)
    BY <1>7, <1>9, NotesOfNone DEF Reaction
  <2> HIDE DEF a
  <2>3. Coming(q)' = Append(C, a) /\ Coming(q)' \in Seq(S) /\ inbox'[p] = inbox[p]
    BY <1>4, <1>8, <2>2, ComingGrows DEF q, C, S
  <2>4. Follows(p, m, k, Append(C, a), withdrawn)
    BY <1>3, <1>4, <2>1, FollowsByReacting DEF a
  <2>5. Follows(q, k, m, Coming(p), withdrawn)
    BY <1>3, <1>4, <2>1, OtherReactions
  <2>6. Keeps(l, m)
    BY <2>1 DEF Keeps, Reacted
  <2>7. QED
    BY <1>3, <1>7, <1>8, <2>3, <2>4, <2>5, <2>6, OwnStep DEF q, l, k, X, S
<1>10. ASSUME NEW g \in Emojis, g # e, old = {g}
       PROVE  Views'
  <2> DEFINE r == Reaction(id, g, FALSE)
             N == Notes
             D == Append(Append(C, r), a)
  <2>1. PICK l2 : Reacted(l, l2, id, g, p, FALSE) /\ Reacted(l2, m, id, e, p, TRUE)
    BY <1>6, <1>10
  <2>2. r \in S /\ r \in N
    BY <1>4, ReactionNotesAreSent DEF S
  <2>3. ReactionNotes(id, e, old) = Append(<<r>>, a)
    BY <1>10, NotesOfOne DEF Reaction
  <2>4. inbox' = [inbox EXCEPT ![q] = inbox[q] \o Append(<<r>>, a)] /\ DOMAIN inbox = Writers
    BY <1>7, <2>3 DEF SendNotes, ConversationInv, NotesOK, q
  <2>5. /\ inbox[q] \in Seq(N) /\ r \in N /\ a \in N /\ Decrypting(q) \subseteq N
        /\ C \in Seq(S) /\ C \in Seq(N) /\ a \in S
    BY <1>3, <1>4, <2>2
  <2> HIDE DEF r, N, a
  <2>6. inbox[q] \o Append(<<r>>, a) = Append(Append(inbox[q], r), a)
        /\ Append(C, r) \in Seq(N) /\ D \in Seq(S)
    <3>1. inbox[q] \o Append(<<r>>, a) = Append(Append(inbox[q], r), a)
      BY <2>5, TwoNotesSent
    <3>2. Append(C, r) \in Seq(N)
      BY <2>5
    <3>3. Append(C, r) \in Seq(S)
      BY <2>2, <2>5
    <3>4. Append(Append(C, r), a) \in Seq(S)
      BY <2>5, <3>3
    <3>5. QED
      BY <3>1, <3>2, <3>4
  <2>7. inbox'[p] = inbox[p] /\ inbox'[q] = Append(Append(inbox[q], r), a)
    BY <1>3, <2>4, <2>6
  <2>8. Queue(Decrypting(q), Append(Append(inbox[q], r), a)) = D
    <3> DEFINE s == Append(inbox[q], r)
    <3>1. s \in Seq(N)
      BY <2>5
    <3>2. Queue(Decrypting(q), s) = Append(C, r)
      BY <2>5, QueueGrows DEF C, Coming
    <3> HIDE DEF s
    <3>3. Queue(Decrypting(q), Append(s, a)) = Append(Queue(Decrypting(q), s), a)
      <4>1. a \in N /\ Decrypting(q) \subseteq N
        BY <2>5
      <4>2. QED
        BY <3>1, <4>1, QueueGrows
    <3>4. QED
      BY <3>2, <3>3 DEF s
  <2>9. Coming(q)' = D
    BY <1>8, <2>7, <2>8 DEF Coming
  <2>10. Follows(p, l2, k, Append(C, r), withdrawn)
    BY <1>3, <1>4, <1>10, <2>1, <2>2, FollowsByReacting DEF r, N
  <2>11. id \in DOMAIN l2 /\ Append(C, r) \in Seq(Notes)
    BY <1>4, <2>1, <2>6 DEF Reacted, N
  <2>12. Follows(p, m, k, D, withdrawn)
    BY <1>4, <2>1, <2>10, <2>11, FollowsByReacting DEF a
  <2>13. Follows(q, k, l2, Coming(p), withdrawn)
    BY <1>3, <1>4, <1>10, <2>1, OtherReactions
  <2>14. Follows(q, k, m, Coming(p), withdrawn)
    BY <1>3, <2>1, <2>11, <2>13, OtherReactions
  <2>15. Keeps(l, m)
    BY <2>1 DEF Keeps, Reacted
  <2> HIDE DEF D
  <2>16. QED
    BY <1>3, <1>7, <1>8, <2>6, <2>7, <2>9, <2>12, <2>14, <2>15, OwnStep DEF q, l, k, X, S
<1>11. QED
  BY <1>5, <1>9, <1>10
-----------------------------------------------------------------------------
(* What comes to a window, one frame after the other.                      *)

LEMMA TakesFirst ==
    ASSUME ConversationInv, Views, calm, NEW p \in Writers, NEW i \in NextPlaces(p),
           Take(p, i)
    PROVE  /\ i = 1 /\ i \in DOMAIN inbox[p] /\ Decrypting(p) = {}
           /\ Coming(p) = inbox[p] /\ inbox[p] # <<>>
           /\ inbox'[p] = Tail(inbox[p]) /\ inbox'[Partner(p)] = inbox[Partner(p)]
           /\ <<inbox[p][1]>> \o Tail(inbox[p]) = inbox[p]
           /\ inbox[p][1] \in SentNotes /\ Tail(inbox[p]) \in Seq(SentNotes)
<1>1. i = 1 /\ i \in DOMAIN inbox[p] /\ \A t \in crypting[p] : t.type \in {"send", "edit"}
  BY DEF NextPlaces
<1>2. Decrypting(p) = {}
  BY <1>1 DEF Decrypting, IsCipher
<1>3. Coming(p) = inbox[p]
  BY <1>2 DEF Coming, Queue
<1> DEFINE S == SentNotes
<1>4. inbox[p] \in Seq(S) /\ Partner(p) # p /\ Partner(p) \in Writers
  BY <1>3, TogetherFacts
<1> HIDE DEF S
<1>5. inbox[p] # <<>>
  BY <1>1
<1>6. /\ RemoveAt(inbox[p], 1) = Tail(inbox[p])
      /\ <<inbox[p][1]>> \o Tail(inbox[p]) = inbox[p]
      /\ Tail(inbox[p]) \in Seq(S) /\ inbox[p][1] \in S
  BY <1>4, <1>5, FirstTaken
<1>7. inbox' = [inbox EXCEPT ![p] = RemoveAt(inbox[p], 1)] /\ DOMAIN inbox = Writers
  BY <1>1 DEF Take, ConversationInv, NotesOK
<1>8. inbox'[p] = Tail(inbox[p]) /\ inbox'[Partner(p)] = inbox[Partner(p)]
  BY <1>4, <1>6, <1>7
<1>9. QED
  BY <1>1, <1>2, <1>3, <1>5, <1>6, <1>8 DEF S

LEMMA ReceiveCiphertextKeepsViews ==
    ASSUME ConversationInv, Views, Together, NEW p \in Writers, ReceiveCiphertext(p)
    PROVE  Views'
<1>1. PICK i \in NextPlaces(p) : ReceiveCiphertext(p)!(i)
  BY DEF ReceiveCiphertext
<1> DEFINE q == Partner(p)
           l == messages[p]
           f == inbox[p][1]
           X == crypting[p] \cup {f}
<1>2. calm /\ joined[p]
  BY DEF Together
<1>3. /\ i = 1 /\ Decrypting(p) = {} /\ Coming(p) = inbox[p]
      /\ inbox'[p] = Tail(inbox[p]) /\ inbox'[q] = inbox[q]
      /\ <<f>> \o Tail(inbox[p]) = inbox[p]
  BY <1>1, <1>2, TakesFirst
<1>4. q \in Writers /\ q # p /\ Partner(q) = p /\ EditsAreOwn(p)
      /\ Coming(p) \in Seq(SentNotes) /\ Coming(q) \in Seq(SentNotes)
      /\ Follows(p, l, messages[q], Coming(q), withdrawn)
      /\ Follows(q, messages[q], l, Coming(p), withdrawn)
  BY TogetherFacts
<1>5. IsCipher(f) /\ messages' = messages /\ withdrawn' = withdrawn
      /\ crypting' = [crypting EXCEPT ![p] = X] /\ DOMAIN crypting = Writers
  BY <1>1, <1>2, <1>3 DEF IsCipher, ConversationInv, NotesOK
<1> HIDE DEF f
<1>6. Steps(p, l, X)
  BY <1>4, <1>5 DEF Steps
<1> HIDE DEF q, l
<1>7. Decrypting(p)' = {f} /\ Decrypting(q)' = Decrypting(q)
  BY <1>3, <1>5, <1>6 DEF Decrypting, Steps, q
<1>8. Coming(p)' = Coming(p)
  <2>1. (CHOOSE t \in {f} : TRUE) = f
    OBVIOUS
  <2>2. QED
    BY <1>3, <1>7, <2>1 DEF Coming, Queue
<1>9. Coming(q)' = Coming(q)
  BY <1>3, <1>7, ComingStays
<1>10. OneDecrypted(p)'
  BY <1>7 DEF OneDecrypted
<1>11. EditsAreOwn(p)'
  BY <1>4, <1>5, <1>6 DEF EditsAreOwn, Steps, IsCipher
<1>12. QED
  BY <1>4, <1>5, <1>6, <1>8, <1>9, <1>10, <1>11, ViewsStep DEF q, l

\* What has been decrypted was the first to come.
LEMMA DecryptedFirst ==
    ASSUME ConversationInv, Views, NEW p \in Writers, NEW f \in Decrypting(p)
    PROVE  /\ Decrypting(p) = {f}
           /\ Coming(p) # <<>> /\ Coming(p)[1] = f /\ Tail(Coming(p)) = inbox[p]
           /\ f \in SentNotes /\ inbox[p] \in Seq(SentNotes)
<1>1. /\ Decrypting(p) = {f} /\ inbox[p] \in Seq(Notes) /\ f \in Notes
      /\ Coming(p) \in Seq(SentNotes)
  BY TogetherFacts DEF OneDecrypted
<1>2. (CHOOSE t \in {f} : TRUE) = f
  OBVIOUS
<1>3. Coming(p) = <<f>> \o inbox[p]
  BY <1>1, <1>2 DEF Coming, Queue
<1>4. Coming(p) # <<>> /\ Coming(p)[1] = f /\ Tail(Coming(p)) = inbox[p]
  BY <1>1, <1>3, FirstInFront
<1> DEFINE S == SentNotes
           C == Coming(p)
<1>5. C \in Seq(S) /\ C # <<>>
  BY <1>1, <1>4
<1> HIDE DEF S, C
<1>6. C[1] \in S /\ Tail(C) \in Seq(S)
  BY <1>5, FirstTaken
<1>7. QED
  BY <1>1, <1>4, <1>6 DEF S, C

LEMMA EditDecryptedKeepsViews ==
    ASSUME ConversationInv, Views, NEW p \in Writers, EditDecrypted(p)
    PROVE  Views'
<1>1. PICK f \in crypting[p] : EditDecrypted(p)!(f)
  BY DEF EditDecrypted
<1> DEFINE q == Partner(p)
           l == messages[p]
           k == messages[q]
           m == WithEdit(l, f.id, f.arg)
           X == crypting[p] \ {f}
           C == Coming(p)
<1>2. f \in Decrypting(p)
  BY <1>1 DEF Decrypting, IsCipher
<1>3. /\ Decrypting(p) = {f} /\ C # <<>> /\ C[1] = f /\ Tail(C) = inbox[p]
      /\ f \in SentNotes /\ inbox[p] \in Seq(SentNotes)
  BY <1>2, DecryptedFirst
<1>4. /\ ListOK(l) /\ Coming(q) \in Seq(Notes) /\ C \in Seq(Notes)
      /\ q \in Writers /\ Partner(q) = p /\ withdrawn' = withdrawn /\ inbox' = inbox
      /\ Coming(q) \in Seq(SentNotes)
      /\ Follows(p, l, k, Coming(q), withdrawn) /\ Follows(q, k, l, C, withdrawn)
  BY <1>1, TogetherFacts
<1>5. f.arg \in Versions /\ f = Note("message_edit", f.id, f.arg)
  BY <1>1, <1>3 DEF SentNotes, Notes, Note
<1>6. Edited(l, m, f.id, f.arg)
  BY <1>4, <1>5, EditIsEdited
<1>7. Steps(p, m, X)
  BY <1>1, ShowSteps
<1> HIDE DEF q, l, k, m, X, C
<1>8. f.id \in DOMAIN l /\ l[f.id].isOwn = FALSE
  <2>1. 1 \in DOMAIN C /\ \A j \in DOMAIN C : ~(j < 1)
    <3> DEFINE N == Notes
    <3>1. C \in Seq(N) /\ C # <<>>
      BY <1>3, <1>4
    <3> HIDE DEF N
    <3>2. QED
      BY <3>1
  <2>2. f.id \in DOMAIN l /\ f.id \in DOMAIN k /\ k[f.id].isOwn
    BY <1>1, <1>3, <1>4, <2>1 DEF Follows, MessagesArrive, Changes
  <2>3. l[f.id].isOwn \in BOOLEAN
    BY <1>4, <2>2 DEF ListOK, Message
  <2>4. k[f.id].isOwn = ~l[f.id].isOwn
    BY <1>4, <2>2 DEF Follows, MessagesArrive
  <2>5. QED
    BY <2>2, <2>3, <2>4
<1>9. Keeps(l, m)
  BY <1>6 DEF Keeps, Edited, SameBesidesTexts
<1>10. /\ OneDecrypted(p)' /\ EditsAreOwn(p)' /\ Decrypting(q)' = Decrypting(q)
       /\ Decrypting(p)' = {t \in X : IsCipher(t)}
  BY <1>7, <1>9, FewerCrypting DEF q, l, X
<1>11. Decrypting(p)' = {}
  BY <1>3, <1>10 DEF X, Decrypting
<1>12. Coming(q)' = Coming(q)
  BY <1>4, <1>10, ComingStays
<1>13. Coming(p)' = Tail(C)
  BY <1>3, <1>4, <1>11 DEF Coming, Queue
<1>14. Follows(q, k, m, Tail(C), withdrawn)
  BY <1>3, <1>4, <1>5, <1>6, <1>8, FollowsTheEdited
<1>15. Follows(p, m, k, Coming(q), withdrawn)
  BY <1>4, <1>6, <1>8, FollowsAnEdited
<1>16. QED
  BY <1>3, <1>4, <1>7, <1>10, <1>12, <1>13, <1>14, <1>15, ViewsStep DEF q, k
LEMMA FirstPlace ==
    ASSUME NEW S, NEW C \in Seq(S), C # <<>>
    PROVE  1 \in DOMAIN C /\ \A j \in DOMAIN C : ~(j < 1)
OBVIOUS

LEMMA MessageDecryptedKeepsViews ==
    ASSUME ConversationInv, Views, NEW p \in Writers, MessageDecrypted(p)
    PROVE  Views'
<1>1. PICK f \in crypting[p] : MessageDecrypted(p)!(f)
  BY DEF MessageDecrypted
<1> DEFINE q == Partner(p)
           l == messages[p]
           k == messages[q]
           n == Note("ack", f.id, NoText)
           m == WithMessage(l, f.id, NewMessage(l, 1, FALSE, f.arg))
           X == crypting[p] \ {f}
           C == Coming(p)
<1>2. f \in Decrypting(p)
  BY <1>1 DEF Decrypting, IsCipher
<1>3. /\ Decrypting(p) = {f} /\ C # <<>> /\ C[1] = f /\ Tail(C) = inbox[p]
      /\ f \in SentNotes /\ inbox[p] \in Seq(SentNotes)
  BY <1>2, DecryptedFirst
<1>4. /\ Coming(q) \in Seq(Notes) /\ C \in Seq(Notes)
      /\ q \in Writers /\ Partner(q) = p /\ withdrawn' = withdrawn
      /\ Follows(p, l, k, Coming(q), withdrawn) /\ Follows(q, k, l, C, withdrawn)
  BY <1>1, TogetherFacts
<1>5. n \in SentNotes /\ n \in Notes /\ n.type \notin Changes \cup {"message"}
  BY <1>3, VersionsAreNumbers DEF Notes, NoteTypes, Note, SentNotes, Changes
<1>6. f.id \notin DOMAIN l
  BY <1>1 DEF ConversationInv, NewComesOnce, NewIds, IsNew
<1>7. Gains(l, m, f.id, FALSE)
  BY <1>6, NewIsGained
<1>8. Steps(p, m, X) /\ SendNotes(p, <<n>>)
  BY <1>1, ShowSteps
<1> HIDE DEF q, l, k, m, n, X, C
<1>9. f.id \in DOMAIN k /\ k[f.id].isOwn = TRUE
  <2>1. 1 \in DOMAIN C
    BY <1>3, <1>4, FirstPlace
  <2>2. f.id \in DOMAIN k /\ k[f.id].isOwn
    BY <1>1, <1>3, <1>4, <2>1 DEF Follows, MessagesArrive
  <2>3. k[f.id].isOwn \in BOOLEAN
    BY <1>4, <2>2, TogetherFacts DEF ListOK, Message, k
  <2>4. QED
    BY <2>2, <2>3
<1>10. Keeps(l, m)
  BY <1>7 DEF Keeps, Gains
<1>11. /\ OneDecrypted(p)' /\ EditsAreOwn(p)' /\ Decrypting(q)' = Decrypting(q)
       /\ Decrypting(p)' = {t \in X : IsCipher(t)}
  BY <1>8, <1>10, FewerCrypting DEF q, l, X
<1>12. Decrypting(p)' = {}
  BY <1>3, <1>11 DEF X, Decrypting
<1>13. /\ Coming(q)' = Append(Coming(q), n) /\ Coming(q)' \in Seq(SentNotes)
       /\ inbox'[p] = inbox[p]
  BY <1>5, <1>8, <1>11, ComingGrows DEF q
<1>14. Coming(p)' = Tail(C)
  BY <1>3, <1>12, <1>13 DEF Coming, Queue
<1>15. Follows(q, k, m, Tail(C), withdrawn)
  <2>1. IsMessage(C[1], f.id)
    BY <1>1, <1>3 DEF IsMessage
  <2>2. QED
    BY <1>3, <1>4, <1>7, <2>1, FollowsByShowing
<1>16. Follows(p, m, k, Coming(q), withdrawn)
  BY <1>4, <1>7, <1>9, FollowsTheShown
<1>17. Follows(p, m, k, Coming(q)', withdrawn)
  <2>1. Passes(Coming(q), Coming(q)', Changes \cup {"message"})
    BY <1>5, <1>13 DEF Passes
  <2>2. QED
    BY <1>4, <1>16, <2>1, SameListStays, FollowsByPassing
<1>18. QED
  BY <1>3, <1>4, <1>8, <1>11, <1>13, <1>14, <1>15, <1>17, ViewsStep DEF q, k

\* What a window shows of a frame f that is not encrypted.
PlainShown(p, l, f) ==
    CASE f.type = "ack" -> WithAck(l, f.id)
      [] f.type = "message_read" -> WithRead(l, f.id)
      [] f.type = "message_delete" -> WithDelete(l, f.id)
      [] OTHER -> WithReaction(l, f.id, f.arg, Partner(p), f.type = "add")

LEMMA PlainFollows ==
    ASSUME NEW p, NEW q, q = Partner(p), p # q, NEW l, ListOK(l), NEW k, NEW gone,
           NEW C \in Seq(Notes), C # <<>>, NEW E \in Seq(Notes),
           C[1] \in SentNotes, ~IsCipher(C[1]),
           Follows(p, l, k, E, gone), Follows(q, k, l, C, gone)
    PROVE  LET m == PlainShown(p, l, C[1]) IN
           Keeps(l, m) /\ Follows(p, m, k, E, gone) /\ Follows(q, k, m, Tail(C), gone)
<1> DEFINE f == C[1]
           m == PlainShown(p, l, f)
<1>1. f \in Notes /\ f \in SentNotes /\ ~IsCipher(f)
  BY DEF SentNotes
<1>2. f.type \in {"ack", "message_read", "message_delete", "add", "remove"}
  BY <1>1 DEF SentNotes, Notes, NoteTypes, IsCipher
<1>3. 1 \in DOMAIN C /\ \A j \in DOMAIN C : ~(j < 1)
  BY FirstPlace
<1>4. Passes(E, E, Changes \cup {"message"})
  BY DEF Passes
<1>5. f.type \in Changes => f.id \in DOMAIN l
  BY <1>3 DEF Follows, MessagesArrive
<1> HIDE DEF f, m
<1>6. ASSUME f.type \in {"ack", "message_read"}
      PROVE  Keeps(l, m) /\ Follows(p, m, k, E, gone) /\ Follows(q, k, m, Tail(C), gone)
  <2>1. Alike(l, m)
    BY <1>6, AckIsAlike, ReadIsAlike DEF PlainShown, m
  <2>2. Passes(C, Tail(C), Changes \cup {"message"})
    BY <1>6 DEF Passes, Changes, f
  <2>3. Keeps(l, m)
    BY <2>1 DEF Keeps, Alike, SameBesidesTexts
  <2>4. /\ SameShape(l, m) /\ \A r : SameReactions(r, l, m)
        /\ TextsStay(l, m) /\ CopiesStay(k, l, m) /\ StayDeleted(l, m)
    BY <2>1, AlikeKeeps
  <2>5. Follows(p, m, k, E, gone)
    BY <1>4, <2>4, FollowsAChangeOfOwn
  <2>6. Follows(q, k, m, Tail(C), gone)
    BY <2>2, <2>4, FollowsAChangeOfPartner
  <2>7. QED
    BY <2>3, <2>5, <2>6
<1>7. ASSUME f.type = "message_delete"
      PROVE  Keeps(l, m) /\ Follows(p, m, k, E, gone) /\ Follows(q, k, m, Tail(C), gone)
  <2>1. Hidden(l, m, f.id)
    BY <1>7, DeleteHides DEF PlainShown, m
  <2>2. Keeps(l, m)
    BY <2>1 DEF Keeps, Hidden, SameBesidesTexts
  <2>3. Follows(p, m, k, E, gone)
    <3>1. SameShape(l, m) /\ SameReactions(p, l, m) /\ TextsStay(l, m)
      BY <2>1, HiddenKeeps
    <3>2. QED
      BY <1>4, <3>1, FollowsAChangeOfOwn
  <2>4. C[1] = Note("message_delete", f.id, NoText) /\ f.id \in DOMAIN l
    BY <1>1, <1>5, <1>7 DEF SentNotes, Notes, Note, Changes, f
  <2>5. Follows(q, k, m, Tail(C), gone)
    BY <2>1, <2>4, FollowsTheDeleted
  <2>6. QED
    BY <2>2, <2>3, <2>5
<1>8. ASSUME NEW adds \in BOOLEAN, f.type = IF adds THEN "add" ELSE "remove"
      PROVE  Keeps(l, m) /\ Follows(p, m, k, E, gone) /\ Follows(q, k, m, Tail(C), gone)
  <2>1. f.arg \in Emojis /\ f.id \in DOMAIN l /\ f.id \in Ids
    BY <1>1, <1>5, <1>8 DEF SentNotes, Changes, Notes
  <2>2. m = WithReaction(l, f.id, f.arg, q, adds)
    <3>1. (f.type = "add") = adds
      BY <1>8
    <3>2. QED
      BY <1>8, <3>1 DEF PlainShown, m
  <2>3. Reacted(l, m, f.id, f.arg, q, adds)
    BY <2>1, <2>2, ReactionIsReacted
  <2>4. Keeps(l, m)
    BY <2>3 DEF Keeps, Reacted
  <2>5. Follows(p, m, k, E, gone)
    <3>1. /\ SameShape(l, m) /\ SameReactions(p, l, m) /\ TextsStay(l, m)
      BY <2>1, <2>3, ReactedReacts
    <3>2. QED
      BY <1>4, <3>1, FollowsAChangeOfOwn
  <2>6. C[1] = Reaction(f.id, f.arg, adds)
    BY <1>1, <1>8 DEF Notes, Note, Reaction, f
  <2>7. Follows(q, k, m, Tail(C), gone)
    BY <2>1, <2>3, <2>6, FollowsTheReaction
  <2>8. QED
    BY <2>4, <2>5, <2>7
<1>9. f.type \in {"add", "remove"} =>
         \E adds \in BOOLEAN : f.type = IF adds THEN "add" ELSE "remove"
  OBVIOUS
<1>10. QED
  BY <1>2, <1>6, <1>7, <1>8, <1>9 DEF f, m

LEMMA ReceivePlainKeepsViews ==
    ASSUME ConversationInv, Views, Together, NEW p \in Writers, ReceivePlain(p)
    PROVE  Views'
<1>1. PICK i \in NextPlaces(p) : ReceivePlain(p)!(i)
  BY DEF ReceivePlain
<1> DEFINE q == Partner(p)
           l == messages[p]
           k == messages[q]
           C == Coming(p)
           f == C[1]
           m == PlainShown(p, l, f)
           X == crypting[p]
<1>2. calm
  BY DEF Together
<1>3. /\ i = 1 /\ Decrypting(p) = {} /\ C = inbox[p] /\ C # <<>>
      /\ inbox'[p] = Tail(C) /\ inbox'[q] = inbox[q]
      /\ f \in SentNotes /\ Tail(C) \in Seq(SentNotes)
  BY <1>1, <1>2, TakesFirst
<1>4. /\ q \in Writers /\ q # p /\ ListOK(l)
      /\ Coming(q) \in Seq(Notes) /\ C \in Seq(Notes) /\ Coming(q) \in Seq(SentNotes)
      /\ Partner(q) = p
      /\ Follows(p, l, k, Coming(q), withdrawn) /\ Follows(q, k, l, C, withdrawn)
  BY TogetherFacts
<1>5. inbox[p][i] = f /\ ~IsCipher(f)
  BY <1>1, <1>3 DEF IsCipher
<1>6. Show(p, m) /\ crypting' = crypting /\ withdrawn' = withdrawn
  BY <1>1, <1>5 DEF PlainShown
<1>7. Steps(p, m, X)
  BY <1>6, ShowSteps
<1> HIDE DEF q, l, k, X, C
<1>8. Keeps(l, m) /\ Follows(p, m, k, Coming(q), withdrawn)
      /\ Follows(q, k, m, Tail(C), withdrawn)
  BY <1>3, <1>4, <1>5, PlainFollows DEF q
<1> HIDE DEF m
<1>9. /\ OneDecrypted(p)' /\ EditsAreOwn(p)' /\ Decrypting(q)' = Decrypting(q)
      /\ Decrypting(p)' = {t \in X : IsCipher(t)}
  BY <1>7, <1>8, FewerCrypting DEF q, l, X
<1>10. Decrypting(p)' = {}
  BY <1>3, <1>9 DEF X, Decrypting
<1>11. Coming(q)' = Coming(q)
  BY <1>3, <1>9, ComingStays
<1>12. Coming(p)' = Tail(C)
  BY <1>3, <1>10 DEF Coming, Queue
<1>13. QED
  BY <1>3, <1>4, <1>6, <1>7, <1>8, <1>9, <1>11, <1>12, ViewsStep DEF q, k
LEMMA PeerGoneParts ==
    ASSUME DOMAIN joined = Writers, NEW p \in Writers, PeerGone(p)
    PROVE  ~Together' /\ DOMAIN joined' = Writers
<1>1. joined' = [joined EXCEPT ![p] = FALSE]
  BY DEF PeerGone
<1>2. joined'[p] = FALSE /\ DOMAIN joined' = Writers
  BY <1>1
<1>3. QED
  BY <1>2 DEF Together

LEMMA StepKeepsViews ==
    ASSUME ConversationInv, ViewsInv, [ConversationNext]_conversationVars
    PROVE  ViewsInv'
<1>1. DOMAIN joined = Writers /\ (Together => Views)
  BY DEF ViewsInv
<1>2. ASSUME calm' = calm, joined' = joined, Together => Views'
      PROVE  ViewsInv'
  BY <1>1, <1>2 DEF ViewsInv, Together
<1>3. CASE UNCHANGED conversationVars
  <2>1. Together => Views'
    BY <1>1, <1>3 DEF conversationVars, Views, Coming, Decrypting, OneDecrypted, EditsAreOwn
  <2>2. QED
    BY <1>2, <1>3, <2>1 DEF conversationVars
<1>4. ASSUME NEW p \in Writers, StartMessage(p) PROVE ViewsInv'
  <2>1. calm' = calm /\ joined' = joined
    BY <1>4 DEF StartMessage
  <2>2. QED
    BY <1>1, <1>2, <1>4, <2>1, StartMessageKeepsViews
<1>5. ASSUME NEW p \in Writers, MessageEncrypted(p) PROVE ViewsInv'
  <2>1. calm' = calm /\ joined' = joined
    BY <1>5 DEF MessageEncrypted, history
  <2>2. QED
    BY <1>1, <1>2, <1>5, <2>1, MessageEncryptedKeepsViews
<1>6. ASSUME NEW p \in Writers, StartEdit(p) PROVE ViewsInv'
  <2>1. calm' = calm /\ joined' = joined
    BY <1>6 DEF StartEdit, history
  <2>2. QED
    BY <1>1, <1>2, <1>6, <2>1, StartEditKeepsViews
<1>7. ASSUME NEW p \in Writers, EditEncrypted(p) PROVE ViewsInv'
  <2>1. calm' = calm /\ joined' = joined
    BY <1>7 DEF EditEncrypted, history
  <2>2. QED
    BY <1>1, <1>2, <1>7, <2>1, EditEncryptedKeepsViews
<1>8. ASSUME NEW p \in Writers, DeleteMessage(p) PROVE ViewsInv'
  <2>1. calm' = calm /\ joined' = joined
    BY <1>8 DEF DeleteMessage, history
  <2>2. QED
    BY <1>1, <1>2, <1>8, <2>1, DeleteMessageKeepsViews
<1>9. ASSUME NEW p \in Writers, AddReaction(p) PROVE ViewsInv'
  <2>1. calm' = calm /\ joined' = joined
    BY <1>9 DEF AddReaction, history
  <2>2. QED
    BY <1>1, <1>2, <1>9, <2>1, AddReactionKeepsViews
<1>10. ASSUME NEW p \in Writers, RemoveReaction(p) PROVE ViewsInv'
  <2>1. calm' = calm /\ joined' = joined
    BY <1>10 DEF RemoveReaction, history
  <2>2. QED
    BY <1>1, <1>2, <1>10, <2>1, RemoveReactionKeepsViews
<1>11. ASSUME NEW p \in Writers, MarkAsRead(p) PROVE ViewsInv'
  <2>1. calm' = calm /\ joined' = joined
    BY <1>11 DEF MarkAsRead, history
  <2>2. QED
    BY <1>1, <1>2, <1>11, <2>1, MarkAsReadKeepsViews
<1>12. ASSUME NEW p \in Writers, ReceiveCiphertext(p) PROVE ViewsInv'
  <2>1. calm' = calm /\ joined' = joined
    BY <1>12 DEF ReceiveCiphertext, history
  <2>2. QED
    BY <1>1, <1>2, <1>12, <2>1, ReceiveCiphertextKeepsViews
<1>13. ASSUME NEW p \in Writers, MessageDecrypted(p) PROVE ViewsInv'
  <2>1. calm' = calm /\ joined' = joined
    BY <1>13 DEF MessageDecrypted, history
  <2>2. QED
    BY <1>1, <1>2, <1>13, <2>1, MessageDecryptedKeepsViews
<1>14. ASSUME NEW p \in Writers, EditDecrypted(p) PROVE ViewsInv'
  <2>1. calm' = calm /\ joined' = joined
    BY <1>14 DEF EditDecrypted, history
  <2>2. QED
    BY <1>1, <1>2, <1>14, <2>1, EditDecryptedKeepsViews
<1>15. ASSUME NEW p \in Writers, ReceivePlain(p) PROVE ViewsInv'
  <2>1. calm' = calm /\ joined' = joined
    BY <1>15 DEF ReceivePlain, history
  <2>2. QED
    BY <1>1, <1>2, <1>15, <2>1, ReceivePlainKeepsViews
<1>16. ASSUME NEW p \in Writers, PeerGone(p) PROVE ViewsInv'
  BY <1>1, <1>16, PeerGoneParts DEF ViewsInv
<1>17. QED
  BY <1>3, <1>4, <1>5, <1>6, <1>7, <1>8, <1>9, <1>10, <1>11, <1>12, <1>13, <1>14,
     <1>15, <1>16 DEF ConversationNext

\* Nothing comes: both windows show the same.
LEMMA EmptyQueue ==
    ASSUME NEW p, NEW l, NEW k, NEW gone,
           DOMAIN l \subseteq DOMAIN k,
           \A id \in DOMAIN l : l[id].isOwn = ~k[id].isOwn,
           \A id \in Ids, e \in Emojis : Reacts(k, id, e, p) = Reacts(l, id, e, p),
           \A id \in DOMAIN l : k[id].text = l[id].text,
           gone = {}
    PROVE  Follows(p, l, k, <<>>, gone)
<1>1. DOMAIN <<>> = {}
  OBVIOUS
<1>2. \A K, x, b : b => Settled(<<>>, K, x, b)
  BY <1>1 DEF Settled
<1>3. MessagesArrive(l, k, <<>>)
  BY <1>1 DEF MessagesArrive
<1>4. ReactionsFollow(p, l, k, <<>>)
  BY <1>2 DEF ReactionsFollow
<1>5. TextsFollow(l, k, <<>>)
  BY <1>2 DEF TextsFollow
<1>6. QED
  BY <1>3, <1>4, <1>5 DEF Follows, DeletionsFollow

LEMMA InitialViews == ConversationInit => ViewsInv
<1> SUFFICES ASSUME ConversationInit PROVE ViewsInv
  OBVIOUS
<1>1. DOMAIN joined = Writers /\ withdrawn = {}
      /\ \A p \in Writers : inbox[p] = <<>> /\ crypting[p] = {}
  BY DEF ConversationInit
<1>2. \A p \in Writers : /\ Decrypting(p) = {} /\ Coming(p) = <<>> /\ OneDecrypted(p)
                         /\ EditsAreOwn(p)
  BY <1>1 DEF Decrypting, Coming, Queue, OneDecrypted, EditsAreOwn
<1>3. <<>> \in Seq(SentNotes)
  OBVIOUS
<1>4. ASSUME NEW p \in Writers
      PROVE  Follows(p, messages[p], messages[Partner(p)], <<>>, withdrawn)
  <2> DEFINE q == Partner(p)
  <2>1. q \in Writers /\ q # p /\ \A r \in Writers : r = p \/ r = q
    BY TwoWriters
  <2> HIDE DEF q
  <2>2. CASE messages = [r \in Writers |-> <<>>]
    <3>1. messages[p] = <<>> /\ messages[q] = <<>> /\ DOMAIN <<>> = {}
      BY <2>1, <2>2
    <3>2. QED
      BY <1>1, <3>1, EmptyQueue DEF Reacts, q
  <2>3. ASSUME NEW author \in Writers, messages = Delivered(author)
        PROVE  Follows(p, messages[p], messages[q], <<>>, withdrawn)
    <3> DEFINE first(r) ==
            [text |-> 1, isOwn |-> r = author, isDeleted |-> FALSE,
             deliveryStatus |-> IF r = author THEN "delivered" ELSE "none",
             replyTo |-> NoPreview, reactions |-> [e \in Emojis |-> {}]]
    <3>1. \A r \in Writers : messages[r] = <<first(r)>>
      BY <2>3 DEF Delivered
    <3>2. \A r \in Writers : /\ first(r).text = 1 /\ first(r).isOwn = (r = author)
                             /\ first(r).reactions = [e \in Emojis |-> {}]
      OBVIOUS
    <3> HIDE DEF first
    <3>3. \A r \in Writers :
             /\ DOMAIN messages[r] = {1} /\ messages[r][1].text = 1
             /\ messages[r][1].isOwn = (r = author)
             /\ messages[r][1].reactions = [e \in Emojis |-> {}]
      <4>1. \A x : DOMAIN <<x>> = {1} /\ <<x>>[1] = x
        OBVIOUS
      <4>2. QED
        BY <3>1, <3>2, <4>1
    <3>4. \A r \in Writers : \A id \in Ids, e \in Emojis : \A w : ~Reacts(messages[r], id, e, w)
      BY <3>3 DEF Reacts
    <3>5. \A id \in DOMAIN messages[p] : messages[p][id].isOwn = ~messages[q][id].isOwn
      <4>1. DOMAIN messages[p] = {1}
        BY <3>3
      <4>2. CASE p = author
        <5>1. messages[p][1].isOwn = TRUE
          BY <3>3, <4>2
        <5>2. messages[q][1].isOwn = FALSE
          BY <2>1, <3>3, <4>2
        <5>3. QED
          BY <4>1, <5>1, <5>2
      <4>3. CASE p # author
        <5>1. messages[p][1].isOwn = FALSE
          BY <3>3, <4>3
        <5>2. messages[q][1].isOwn = TRUE
          BY <2>1, <2>3, <3>3, <4>3
        <5>3. QED
          BY <4>1, <5>1, <5>2
      <4>4. QED
        BY <4>2, <4>3
    <3>6. \A id \in DOMAIN messages[p] : messages[q][id].text = messages[p][id].text
      BY <2>1, <3>3
    <3>7. \A id \in Ids, e \in Emojis :
             Reacts(messages[q], id, e, p) = Reacts(messages[p], id, e, p)
      BY <2>1, <3>4 DEF Reacts
    <3>8. DOMAIN messages[p] \subseteq DOMAIN messages[q]
      BY <2>1, <3>3
    <3>9. QED
      BY <1>1, <3>5, <3>6, <3>7, <3>8, EmptyQueue
  <2>4. QED
    BY <2>2, <2>3 DEF ConversationInit, q
<1>5. Views
  <2>1. \A p \in Writers : Coming(p) \in Seq(SentNotes) /\ Coming(Partner(p)) = <<>>
    BY <1>2, <1>3, TwoWriters
  <2>2. QED
    BY <1>2, <1>4, <2>1 DEF Views
<1>6. QED
  BY <1>1, <1>5 DEF ViewsInv

\* Where nothing comes any more the two windows agree.
LEMMA ViewsInvAgrees ==
    ASSUME ConversationInv, ViewsInv
    PROVE  ViewsAgree
<1> SUFFICES ASSUME calm,
                    \A p \in Writers : joined[p] /\ inbox[p] = <<>> /\ crypting[p] = {},
                    NEW p \in Writers, NEW id \in DOMAIN messages[p]
             PROVE  LET q == Partner(p)
                    IN  /\ id \in DOMAIN messages[q]
                        /\ messages[p][id].reactions = messages[q][id].reactions
                        /\ id \in withdrawn => messages[p][id].isDeleted
                        /\ (~messages[p][id].isDeleted /\ ~messages[q][id].isDeleted)
                              => messages[p][id].text = messages[q][id].text
  BY DEF ViewsAgree
<1> DEFINE q == Partner(p)
           l == messages[p]
           k == messages[q]
<1>1. Views
  BY DEF ViewsInv, Together
<1>2. \A r \in Writers : Coming(r) = <<>>
  BY DEF Coming, Decrypting, Queue
<1>3. /\ q \in Writers /\ q # p /\ Partner(q) = p /\ \A r \in Writers : r = p \/ r = q
      /\ ListOK(l) /\ ListOK(k)
      /\ Follows(p, l, k, <<>>, withdrawn) /\ Follows(q, k, l, <<>>, withdrawn)
  BY <1>1, <1>2, TogetherFacts
<1> HIDE DEF q, l, k
<1>4. DOMAIN <<>> = {}
  OBVIOUS
<1>5. \A K, x, b : Settled(<<>>, K, x, b) => b
  BY <1>4 DEF Settled
<1>6. id \in DOMAIN l /\ id \in DOMAIN k /\ l[id].isOwn = ~k[id].isOwn
  BY <1>3, <1>4 DEF Follows, MessagesArrive, l
<1>7. l[id] \in Message /\ k[id] \in Message /\ id \in Ids
  BY <1>3, <1>6 DEF ListOK
<1>8. l[id].reactions = k[id].reactions
  <2>1. \A e \in Emojis : /\ Reacts(k, id, e, p) = Reacts(l, id, e, p)
                          /\ Reacts(l, id, e, q) = Reacts(k, id, e, q)
    BY <1>3, <1>5, <1>7 DEF Follows, ReactionsFollow
  <2>2. \A e \in Emojis : \A r \in Writers :
           (r \in l[id].reactions[e]) = (r \in k[id].reactions[e])
    BY <1>3, <1>6, <2>1 DEF Reacts
  <2>3. l[id].reactions \in [Emojis -> SUBSET Writers]
        /\ k[id].reactions \in [Emojis -> SUBSET Writers]
    BY <1>7 DEF Message
  <2>4. \A e \in Emojis : l[id].reactions[e] = k[id].reactions[e]
    BY <2>2, <2>3
  <2>5. QED
    BY <2>3, <2>4
<1>9. id \in withdrawn => l[id].isDeleted
  BY <1>3, <1>4 DEF Follows, DeletionsFollow
<1>10. ~l[id].isDeleted /\ ~k[id].isDeleted => l[id].text = k[id].text
  <2>1. CASE l[id].isOwn
    BY <1>3, <1>5, <1>6, <2>1 DEF Follows, TextsFollow
  <2>2. CASE k[id].isOwn
    BY <1>3, <1>5, <1>6, <2>2 DEF Follows, TextsFollow
  <2>3. QED
    BY <1>6, <1>7, <2>1, <2>2 DEF Message
<1>11. QED
  BY <1>6, <1>8, <1>9, <1>10 DEF q, l, k

\* When all that was sent in order has been handled, both windows show the same
\* reactions and texts and nothing that was deleted for both: each change of
\* useChatSession.ts that a window sends says what the handlers of
\* useIncomingMessageHandlers.ts make the other one show.
THEOREM ViewsAgreeHolds == ConversationSpec => []ViewsAgree
<1>1. ConversationInit => ViewsInv
  BY InitialViews
<1>2. ConversationInv /\ ViewsInv /\ [ConversationNext]_conversationVars => ViewsInv'
  BY StepKeepsViews
<1>3. ConversationInv /\ ViewsInv => ViewsAgree
  BY ViewsInvAgrees
<1>4. QED
  BY <1>1, <1>2, <1>3, ConversationInvHolds, PTL DEF ConversationSpec
=============================================================================
