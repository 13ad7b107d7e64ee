-------------------------------- MODULE Chat --------------------------------
(***************************************************************************)
(* What a user sees of the messages while others write: the rooms of       *)
(* socket.ts, sendMessage and getMessages of messages.service.ts, and on   *)
(* the page MessagingPage.tsx with useMessageSocket.ts and                 *)
(* mergeMessages.ts.  Broadcasts reach only sockets in the room, joining   *)
(* is asynchronous, and the history comes by requests that overtake each   *)
(* other; the page puts the two together.                                  *)
(*                                                                         *)
(* A page of history holds the newest 100 messages: conversations here are *)
(* shorter.  The order on the screen is a sort by date and id, so the set  *)
(* of messages determines it.                                              *)
(***************************************************************************)
EXTENDS Naturals, Sequences

CONSTANTS
    Conversation,
    Message,
    Nowhere,        \* no conversation
    MaxJoins        \* bound: how often the page joins a room

ASSUME NowhereAssumption == Nowhere \notin Conversation
ASSUME JoinsAssumption == MaxJoins \in Nat

VARIABLES
    within,     \* Message.conversationId, Nowhere before it is created
    unsent,     \* messages created but not broadcast yet
    room,       \* rooms the server has this socket in
    entering,   \* joins whose participant check is under way
    upstream,   \* packets from the page, in order
    downstream, \* packets to the page, in order
    online,     \* the socket is connected
    activeId,   \* state activeId: the conversation on the screen
    active,     \* activeIdRef, what the effects have acted upon
    attached,   \* the page has joined the room of active with this connection
    ticket,     \* counts joins; the callback of an older one is cancelled
    shown,      \* state messages
    requests,   \* GET /messages/conversations/:id that have not returned
    lossy       \* history: a join or a request failed since the last start

netVars == << upstream, downstream, online >>
chatVars == << within, unsent, room, entering, netVars, activeId, active,
               attached, ticket, shown, requests, lossy >>

Of(c) == {m \in Message : within[m] = c}

-----------------------------------------------------------------------------
(* The server *)

\* sendMessage, called by the socket handler and by the controller.
CreateMessage(m, c) ==
    /\ within[m] = Nowhere
    /\ within' = [within EXCEPT ![m] = c]
    /\ unsent' = unsent \cup {m}
    /\ UNCHANGED << room, entering, netVars, activeId, active, attached, ticket,
                    shown, requests, lossy >>

\* broadcastNewMessage, after the handler has awaited sendMessage.
Broadcast(m) ==
    /\ m \in unsent
    /\ unsent' = unsent \ {m}
    /\ downstream' = IF within[m] \in room
                       THEN Append(downstream, << "message:new", m >>)
                       ELSE downstream
    /\ UNCHANGED << within, room, entering, upstream, online, activeId, active,
                    attached, ticket, shown, requests, lossy >>

\* conversation:leave acts at once, conversation:join after a query.
ReceivePacket ==
    /\ online /\ upstream # << >>
    /\ upstream' = Tail(upstream)
    /\ LET p == Head(upstream)
       IN  IF p[1] = "join"
             THEN entering' = entering \cup {p} /\ UNCHANGED room
             ELSE room' = room \ {p[2]} /\ UNCHANGED entering
    /\ UNCHANGED << within, unsent, downstream, online, activeId, active,
                    attached, ticket, shown, requests, lossy >>

EnterRoom(p) ==
    /\ p \in entering
    /\ entering' = entering \ {p}
    /\ room' = room \cup {p[2]}
    /\ downstream' = Append(downstream, << "ack", p[3] >>)
    /\ UNCHANGED << within, unsent, upstream, online, activeId, active, attached,
                    ticket, shown, requests, lossy >>

\* Too many joins, or a failed query: the socket stays outside.
RefuseEntry(p) ==
    /\ p \in entering
    /\ entering' = entering \ {p}
    /\ lossy' = TRUE
    /\ UNCHANGED << within, unsent, room, netVars, activeId, active, attached,
                    ticket, shown, requests >>

\* getMessages reads the messages of the conversation.
ReadHistory(r) ==
    /\ r \in requests /\ ~r.read
    /\ requests' = (requests \ {r})
                       \cup {[r EXCEPT !.read = TRUE, !.page = Of(r.conv)]}
    /\ UNCHANGED << within, unsent, room, entering, netVars, activeId, active,
                    attached, ticket, shown, lossy >>

-----------------------------------------------------------------------------
(* The page *)

Asks(c, silent) ==
    requests' = requests \cup {[conv |-> c, silent |-> silent, read |-> FALSE,
                                page |-> {}]}

\* handleSelectGroup, handleSelectProject, the URL or the automatic choice.
Choose(c) ==
    /\ activeId' = c
    /\ UNCHANGED << within, unsent, room, entering, netVars, active, attached,
                    ticket, shown, requests, lossy >>

\* The effects of a changed activeId or connection.  The old room is left, the
\* new one joined; for a new conversation the list is emptied and loaded.
Leaves == IF attached THEN << << "leave", active >> >> ELSE << >>
Effects ==
    /\ activeId # Nowhere
    /\ activeId # active \/ attached # online
    /\ active' = activeId
    /\ attached' = online
    /\ IF online
         THEN /\ ticket < MaxJoins
              /\ ticket' = ticket + 1
              /\ upstream' = upstream \o Leaves
                                 \o << << "join", activeId, ticket' >> >>
         ELSE UNCHANGED << ticket, upstream >>
    /\ IF activeId # active
         THEN shown' = {} /\ Asks(activeId, FALSE)
         ELSE UNCHANGED << shown, requests >>
    /\ lossy' = (lossy /\ ~online)
    /\ UNCHANGED << within, unsent, room, entering, downstream, online, activeId >>

\* What belongs to the open conversation, and a callback of the last join.
Open_M(c) == TRUE
Open(c) == c = active
Rejoined_M(n) == FALSE
Rejoined(n) == n = ticket /\ attached /\ online

\* handleNewSocketMessage, and the callback of the join, which reloads.
HandlePacket ==
    /\ downstream # << >>
    /\ downstream' = Tail(downstream)
    /\ LET p == Head(downstream)
       IN  IF p[1] = "message:new"
             THEN /\ shown' = IF Open(within[p[2]]) THEN shown \cup {p[2]}
                                                    ELSE shown
                  /\ UNCHANGED requests
             ELSE /\ IF Rejoined(p[2]) THEN Asks(active, TRUE)
                                       ELSE UNCHANGED requests
                  /\ UNCHANGED shown
    /\ UNCHANGED << within, unsent, room, entering, upstream, online, activeId,
                    active, attached, ticket, lossy >>

\* loadMessages goes on: the page is merged into what is shown.
Loaded(r) ==
    /\ r \in requests /\ r.read
    /\ requests' = requests \ {r}
    /\ shown' = IF Open(r.conv) THEN shown \cup r.page ELSE shown
    /\ UNCHANGED << within, unsent, room, entering, netVars, activeId, active,
                    attached, ticket, lossy >>

\* A failed request empties the list, unless it was the silent one.
LoadFails(r) ==
    /\ r \in requests
    /\ requests' = requests \ {r}
    /\ shown' = IF Open(r.conv) /\ ~r.silent THEN {} ELSE shown
    /\ lossy' = TRUE
    /\ UNCHANGED << within, unsent, room, entering, netVars, activeId, active,
                    attached, ticket >>

-----------------------------------------------------------------------------
(* The connection breaks, and what is under way on it is lost; if the      *)
(* server has stopped, so are the broadcasts it owes.                      *)

Disconnect(owed) ==
    /\ online
    /\ online' = FALSE
    /\ room' = {} /\ entering' = {}
    /\ upstream' = << >> /\ downstream' = << >>
    /\ unsent' = owed
    /\ UNCHANGED << within, activeId, active, attached, ticket, shown, requests,
                    lossy >>

\* Connecting again takes a second or more: the page has noticed the break.
Connect ==
    /\ ~online /\ ~attached
    /\ online' = TRUE
    /\ UNCHANGED << within, unsent, room, entering, upstream, downstream,
                    activeId, active, attached, ticket, shown, requests, lossy >>

-----------------------------------------------------------------------------

ChatInit ==
    /\ within = [m \in Message |-> Nowhere]
    /\ unsent = {} /\ room = {} /\ entering = {}
    /\ upstream = << >> /\ downstream = << >>
    /\ online = FALSE
    /\ activeId = Nowhere /\ active = Nowhere
    /\ attached = FALSE
    /\ ticket = 0
    /\ shown = {} /\ requests = {}
    /\ lossy = FALSE

ChatNext ==
    \/ \E m \in Message :
          Broadcast(m) \/ \E c \in Conversation : CreateMessage(m, c)
    \/ ReceivePacket \/ HandlePacket \/ Effects \/ Connect
    \/ \E p \in entering : EnterRoom(p) \/ RefuseEntry(p)
    \/ \E r \in requests : ReadHistory(r) \/ Loaded(r) \/ LoadFails(r)
    \/ \E c \in Conversation : Choose(c)
    \/ \E owed \in {unsent, {}} : Disconnect(owed)

ChatSpec == ChatInit /\ [][ChatNext]_chatVars

-----------------------------------------------------------------------------
(* Properties *)

\* When everything under way has arrived, an open page shows every message of
\* its conversation, whatever was sent while it was joining, loading or
\* offline; only a join or a request that failed may leave something out.
ShowsEverySent ==
    /\ online /\ attached /\ activeId = active
    /\ upstream = << >> /\ downstream = << >> /\ entering = {}
    /\ requests = {} /\ unsent = {}
    /\ ~lossy
    => shown = Of(active)

\* Answers and broadcasts for a conversation that was left never show up in
\* the next one.
ShowsOnlyOwn == activeId = active => \A m \in shown : within[m] = active

\* The page shows its conversation: nothing is left out and nothing strays in.
ShowsConversation == ShowsEverySent /\ ShowsOnlyOwn
=============================================================================
