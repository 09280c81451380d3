----------------------------- MODULE Conversation -----------------------------
(***************************************************************************)
(* The message lists of two windows that share a session (useChatSession,   *)
(* useIncomingMessageHandlers, the bubbles of MessageBubble).  Encrypting    *)
(* and decrypting are awaited, so their results are applied later and in     *)
(* any order.  The server delivers in any order as well; `calm' says that in *)
(* this conversation it keeps the order and that a frame is decrypted        *)
(* before the next one is handled.  A text is a version, the number of the   *)
(* edit that wrote it.                                                      *)
(***************************************************************************)
EXTENDS Naturals, Sequences, FiniteSets, SequencesExt

CONSTANTS Writers,        \* the two users
          Emojis,
          MaxMessages,    \* bound: messages of both
          MaxOps          \* bound: what both users do

ASSUME ConversationAssumption ==
    /\ IsFiniteSet(Writers) /\ Cardinality(Writers) = 2 /\ Emojis # {}
    /\ MaxMessages \in Nat \ {0} /\ MaxOps \in Nat

VARIABLES calm,
          messages,       \* of each window: id -> ChatMessage
          inbox,          \* frames on their way to a window
          crypting,       \* encryptions and decryptions under way
          joined,         \* does the window hold the session key
          written,        \* messages so far, which names the next one
          ops,
          shown,          \* messages a window has ever shown
          withdrawn       \* messages their author deleted for both

conversationVars == <<calm, messages, inbox, crypting, joined, written, ops,
                      shown, withdrawn>>
history == <<calm, joined, written>>

Ids == 1 .. MaxMessages
NoText == 0                  \* text: undefined
NoMessage == 0
Versions == 0 .. MaxOps + 1
Statuses == {"none", "sending", "delivered", "read"}
Preview == [id : Ids \cup {NoMessage}, text : Versions, isDeleted : BOOLEAN]
NoPreview == [id |-> NoMessage, text |-> NoText, isDeleted |-> FALSE]
Message == [text : Versions, isOwn : BOOLEAN, isDeleted : BOOLEAN,
            deliveryStatus : Statuses, replyTo : Preview,
            reactions : [Emojis -> SUBSET Writers]]

Partner(p) == CHOOSE q \in Writers : q # p
Note(type, id, arg) == [type |-> type, id |-> id, arg |-> arg]

\* A message that one of them, the author, has sent and the other has got.
Delivered(author) == [p \in Writers |->
    <<[text |-> 1, isOwn |-> p = author, isDeleted |-> FALSE,
       deliveryStatus |-> IF p = author THEN "delivered" ELSE "none",
       replyTo |-> NoPreview, reactions |-> [e \in Emojis |-> {}]]>>]

\* The lists are empty, or the conversation is under way.
ConversationInit ==
    /\ calm \in BOOLEAN
    /\ messages \in {[p \in Writers |-> <<>>]} \cup
                     {Delivered(author) : author \in Writers}
    /\ written = Cardinality(UNION {DOMAIN messages[p] : p \in Writers})
    /\ shown = [p \in Writers |-> DOMAIN messages[p]]
    /\ inbox = [p \in Writers |-> <<>>]
    /\ crypting = [p \in Writers |-> {}]
    /\ joined = [p \in Writers |-> TRUE]
    /\ ops = 0
    /\ withdrawn = {}

-----------------------------------------------------------------------------
(* What the setMessages updaters do to a list l.                           *)

\* The preview of a message that the list does not hold is left out.
PreviewOf(l, id) ==
    IF id \in DOMAIN l
    THEN [id |-> id, text |-> l[id].text, isDeleted |-> l[id].isDeleted]
    ELSE NoPreview

NewMessageDelivered(l, text, own, replyTo) ==
    [text |-> text, isOwn |-> own, isDeleted |-> FALSE,
     deliveryStatus |-> IF own THEN "delivered" ELSE "none",
     replyTo |-> PreviewOf(l, replyTo),
     reactions |-> [e \in Emojis |-> {}]]

NewMessage(l, text, own, replyTo) ==
    [text |-> text, isOwn |-> own, isDeleted |-> FALSE,
     deliveryStatus |-> IF own THEN "sending" ELSE "none",
     replyTo |-> PreviewOf(l, replyTo),
     reactions |-> [e \in Emojis |-> {}]]

WithMessage(l, id, m) == [i \in DOMAIN l \cup {id} |-> IF i = id THEN m ELSE l[i]]

WithEditOfTargetOnly(l, id, text) ==
    [i \in DOMAIN l |-> IF i = id THEN [l[i] EXCEPT !.text = text] ELSE l[i]]

WithEdit(l, id, text) == [i \in DOMAIN l |->
    IF i = id THEN [l[i] EXCEPT !.text = text]
    ELSE IF l[i].replyTo.id = id THEN [l[i] EXCEPT !.replyTo.text = text]
    ELSE l[i]]

WithDelete(l, id) == [i \in DOMAIN l |->
    IF i = id THEN [l[i] EXCEPT !.isDeleted = TRUE, !.text = NoText]
    ELSE IF l[i].replyTo.id = id
    THEN [l[i] EXCEPT !.replyTo.isDeleted = TRUE, !.replyTo.text = NoText]
    ELSE l[i]]

WithReaction(l, id, emoji, who, add) ==
    IF id \notin DOMAIN l THEN l
    ELSE [l EXCEPT ![id].reactions[emoji] =
             IF add THEN @ \cup {who} ELSE @ \ {who}]

WithStatusAlways(l, id) ==
    IF id \in DOMAIN l /\ l[id].isOwn
    THEN [l EXCEPT ![id].deliveryStatus = "delivered"] ELSE l

\* handleMessageAck: only a message that is being sent becomes delivered.
WithAck(l, id) ==
    IF id \in DOMAIN l /\ l[id].isOwn /\ l[id].deliveryStatus = "sending"
    THEN [l EXCEPT ![id].deliveryStatus = "delivered"] ELSE l

WithRead(l, id) ==
    IF id \in DOMAIN l /\ l[id].isOwn
    THEN [l EXCEPT ![id].deliveryStatus = "read"] ELSE l

Show(p, l) ==
    /\ messages' = [messages EXCEPT ![p] = l]
    /\ shown' = [shown EXCEPT ![p] = @ \cup DOMAIN l]

SendNotes(p, notes) == inbox' = [inbox EXCEPT ![Partner(p)] = @ \o notes]

-----------------------------------------------------------------------------
(* What the user of p does, in a session that is active.                   *)

Acts(p) == joined[p] /\ ops < MaxOps /\ ops' = ops + 1

\* sendMessage up to the encryption, with or without a message replied to.
StartMessage(p) == \E replyTo \in DOMAIN messages[p] \cup {NoMessage} :
    /\ Acts(p) /\ written < MaxMessages
    /\ written' = written + 1
    /\ crypting' = [crypting EXCEPT ![p] = @ \cup
          {Note("send", written + 1, replyTo)}]
    /\ UNCHANGED <<calm, joined, messages, inbox, shown, withdrawn>>

MessageEncrypted(p) == \E t \in crypting[p] :
    /\ t.type = "send"
    /\ SendNotes(p, <<Note("message", t.id, t.arg)>>)
    /\ Show(p, WithMessage(messages[p], t.id,
                           NewMessage(messages[p], 1, TRUE, t.arg)))
    /\ crypting' = [crypting EXCEPT ![p] = @ \ {t}]
    /\ UNCHANGED <<history, ops, withdrawn>>

\* What the bubble of a message m offers, by its menu, its picker and by coming
\* into view.
CanEdit(m) == m.isOwn /\ m.text # NoText
CanDelete(m) == m.isOwn /\ ~m.isDeleted
ToggleAdds(m, emoji, who) == ~m.isDeleted /\ who \notin m.reactions[emoji]
ComesIntoView(m) == ~m.isOwn /\ ~m.isDeleted

\* editMessage checks the message, and its age, before the encryption.
StartEdit(p) == \E id \in DOMAIN messages[p] :
    /\ Acts(p)
    /\ CanEdit(messages[p][id])
    /\ crypting' = [crypting EXCEPT ![p] = @ \cup {Note("edit", id, ops + 2)}]
    /\ UNCHANGED <<history, messages, inbox, shown, withdrawn>>

EditEncrypted(p) == \E t \in crypting[p] :
    /\ t.type = "edit"
    /\ SendNotes(p, <<Note("message_edit", t.id, t.arg)>>)
    /\ Show(p, WithEdit(messages[p], t.id, t.arg))
    /\ crypting' = [crypting EXCEPT ![p] = @ \ {t}]
    /\ UNCHANGED <<history, ops, withdrawn>>

\* deleteMessage for both users or for the author alone.
DeleteMessage(p) == \E id \in DOMAIN messages[p], all \in BOOLEAN :
    /\ Acts(p)
    /\ CanDelete(messages[p][id])
    /\ SendNotes(p, IF all THEN <<Note("message_delete", id, NoText)>> ELSE <<>>)
    /\ Show(p, WithDelete(messages[p], id))
    /\ withdrawn' = IF all THEN withdrawn \cup {id} ELSE withdrawn
    /\ UNCHANGED <<history, crypting>>

MyEmojis(p, id) == {e \in Emojis : p \in messages[p][id].reactions[e]}

\* The emoji a third reaction replaces: none while there are less than two.
ReplacedEmojis(p, id) ==
    IF Cardinality(MyEmojis(p, id)) < 2 THEN {{}}
    ELSE {{e} : e \in MyEmojis(p, id)}

\* What tells the other window of a reaction, and of the one it replaces.
ReactionNotesOfAdded(id, emoji, old) == <<Note("add", id, emoji)>>
ReactionNotes(id, emoji, old) ==
    Append(SetToSeq({Note("remove", id, e) : e \in old}), Note("add", id, emoji))

\* The picker toggles: it adds a reaction the user has not given, which takes
\* back an earlier one when there are two, and removes one that is given.
AddReaction(p) == \E id \in DOMAIN messages[p], emoji \in Emojis :
    /\ Acts(p)
    /\ ToggleAdds(messages[p][id], emoji, p)
    /\ \E old \in ReplacedEmojis(p, id) :
          LET rest == [messages[p][id].reactions EXCEPT ![emoji] = @ \cup {p}]
          IN  /\ SendNotes(p, ReactionNotes(id, emoji, old))
              /\ Show(p, [messages[p] EXCEPT ![id].reactions =
                    [e \in Emojis |-> IF e \in old THEN rest[e] \ {p}
                                      ELSE rest[e]]])
    /\ UNCHANGED <<history, crypting, withdrawn>>

RemoveReaction(p) == \E id \in DOMAIN messages[p], emoji \in Emojis :
    /\ Acts(p)
    /\ ~messages[p][id].isDeleted /\ emoji \in MyEmojis(p, id)
    /\ SendNotes(p, <<Note("remove", id, emoji)>>)
    /\ Show(p, WithReaction(messages[p], id, emoji, p, FALSE))
    /\ UNCHANGED <<history, crypting, withdrawn>>

\* markMessageAsRead, when the bubble scrolls into view.
MarkAsRead(p) == \E id \in DOMAIN messages[p] :
    /\ Acts(p)
    /\ ComesIntoView(messages[p][id])
    /\ SendNotes(p, <<Note("message_read", id, NoText)>>)
    /\ UNCHANGED <<history, messages, crypting, shown, withdrawn>>

-----------------------------------------------------------------------------
(* Frames.                                                                 *)

\* The frames that may come next to p, by their place.
NextPlaces(p) ==
    IF calm THEN {i \in DOMAIN inbox[p] : i = 1 /\ \A t \in crypting[p] :
                                             t.type \in {"send", "edit"}}
    ELSE DOMAIN inbox[p]

Take(p, i) == inbox' = [inbox EXCEPT ![p] = RemoveAt(@, i)]

\* A message or an edit is decrypted with the session key, if there is one.
ReceiveCiphertext(p) == \E i \in NextPlaces(p) : LET f == inbox[p][i] IN
    /\ f.type \in {"message", "message_edit"}
    /\ Take(p, i)
    /\ crypting' = IF joined[p] THEN [crypting EXCEPT ![p] = @ \cup {f}]
                   ELSE crypting
    /\ UNCHANGED <<history, ops, messages, shown, withdrawn>>

\* The message is appended and acknowledged.
MessageDecrypted(p) == \E f \in crypting[p] :
    /\ f.type = "message"
    /\ Show(p, WithMessage(messages[p], f.id,
                           NewMessage(messages[p], 1, FALSE, f.arg)))
    /\ SendNotes(p, <<Note("ack", f.id, NoText)>>)
    /\ crypting' = [crypting EXCEPT ![p] = @ \ {f}]
    /\ UNCHANGED <<history, ops, withdrawn>>

EditDecrypted(p) == \E f \in crypting[p] :
    /\ f.type = "message_edit"
    /\ Show(p, WithEdit(messages[p], f.id, f.arg))
    /\ crypting' = [crypting EXCEPT ![p] = @ \ {f}]
    /\ UNCHANGED <<history, ops, inbox, withdrawn>>

\* The frames that are applied as they come.
ReceivePlain(p) == \E i \in NextPlaces(p) : LET f == inbox[p][i] IN
    /\ f.type \notin {"message", "message_edit"}
    /\ Take(p, i)
    /\ Show(p, CASE f.type = "ack" -> WithAck(messages[p], f.id)
                 [] f.type = "message_read" -> WithRead(messages[p], f.id)
                 [] f.type = "message_delete" -> WithDelete(messages[p], f.id)
                 [] OTHER -> WithReaction(messages[p], f.id, f.arg, Partner(p),
                                          f.type = "add"))
    /\ UNCHANGED <<history, ops, crypting, withdrawn>>

\* peer_disconnected: the list and the session key are gone, what is being
\* decrypted goes on.
PeerGone(p) ==
    /\ joined[p]
    /\ joined' = [joined EXCEPT ![p] = FALSE]
    /\ messages' = [messages EXCEPT ![p] = <<>>]
    /\ UNCHANGED <<calm, written, ops, inbox, crypting, shown, withdrawn>>

ConversationNext == \E p \in Writers :
    \/ StartMessage(p) \/ MessageEncrypted(p)
    \/ StartEdit(p) \/ EditEncrypted(p) \/ DeleteMessage(p)
    \/ AddReaction(p) \/ RemoveReaction(p) \/ MarkAsRead(p)
    \/ ReceiveCiphertext(p) \/ MessageDecrypted(p) \/ EditDecrypted(p)
    \/ ReceivePlain(p) \/ PeerGone(p)

ConversationSpec == ConversationInit /\ [][ConversationNext]_conversationVars

-----------------------------------------------------------------------------
\* The type invariant: a list holds messages that were sent and shown (the
\* ChatMessage of useChatSession.ts).
ConversationTypeOK ==
    /\ calm \in BOOLEAN /\ ops \in 0 .. MaxOps /\ written \in 0 .. MaxMessages
    /\ \A p \in Writers :
          /\ DOMAIN messages[p] \subseteq 1 .. written
          /\ \A id \in DOMAIN messages[p] : messages[p][id] \in Message
          /\ DOMAIN messages[p] \subseteq shown[p]
    /\ withdrawn \subseteq 1 .. written

\* A message its author sees as delivered or read has been decrypted and shown
\* by the other window, whatever was lost or reset there since.
DeliveryIsTruthful == \A p \in Writers : \A id \in DOMAIN messages[p] :
    messages[p][id].deliveryStatus \in {"delivered", "read"}
        => id \in shown[Partner(p)]

\* Acks and read receipts come in any order and more than once: what the author
\* has been told of a message is never taken back.
StatusRank(status) == CASE status = "read" -> 2 [] status = "delivered" -> 1
                        [] OTHER -> 0
StatusNeverRegresses == [][\A p \in Writers :
    \A id \in DOMAIN messages[p] \cap DOMAIN messages'[p] :
        StatusRank(messages[p][id].deliveryStatus)
            <= StatusRank(messages'[p][id].deliveryStatus)]_conversationVars

\* The quotation in a reply says what the quoted message of the same list says,
\* through edits and deletions of either side in any order.
PreviewFollowsTarget == \A p \in Writers : \A id \in DOMAIN messages[p] :
    LET quoted == messages[p][id].replyTo
    IN  quoted.id \in DOMAIN messages[p] => quoted = PreviewOf(messages[p], quoted.id)

\* When all that was sent in order has been handled, both windows show the same
\* reactions, the same texts unless the author hid the message for himself,
\* and no message that was deleted for both.
ViewsAgree ==
    (/\ calm
     /\ \A p \in Writers : joined[p] /\ inbox[p] = <<>> /\ crypting[p] = {})
    => \A p \in Writers : \A id \in DOMAIN messages[p] :
          LET q == Partner(p)
          IN  /\ id \in DOMAIN messages[q]
              /\ messages[p][id].reactions = messages[q][id].reactions
              /\ id \in withdrawn => messages[p][id].isDeleted
              /\ (~messages[p][id].isDeleted /\ ~messages[q][id].isDeleted)
                    => messages[p][id].text = messages[q][id].text
=============================================================================
