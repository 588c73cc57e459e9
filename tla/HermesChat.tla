----------------------------- MODULE HermesChat -----------------------------
(* One conversation of the chat page with the Hermes gateway: the page in each *)
(* tab, the bridge that serves its socket, the thread's file with its lock and *)
(* its submission receipts, and the connection to the gateway.                 *)
(*                                                                             *)
(* The gateway is external: it takes or refuses a prompt, runs one turn at a   *)
(* time, asks questions and drops connections.  What it says is not modelled,  *)
(* only the frames that move the state of a turn.  The file is written whole,  *)
(* and a write does not fail.                                                  *)
EXTENDS Naturals, Sequences, FiniteSets, Functions

CONSTANTS
    Tabs,           \* connections of the conversation: pages and other clients
    Repeaters,      \* clients that repeat a submission under its identifier
    Ids,            \* submission identifiers, used once by a page
    Questions,      \* approvals and clarifications that the gateway may ask
    MaxReceipts,    \* receipts that a thread may hold
    MaxEvents,      \* capacity of the queue of gateway events
    MaxLosses,      \* bound on the connections that break
    None

ASSUME ChatAssumption ==
    /\ Repeaters \subseteq Tabs
    /\ MaxReceipts \in Nat /\ MaxEvents \in Nat \ {0} /\ MaxLosses \in Nat
    /\ None \notin Tabs \cup Ids \cup Questions /\ IsFiniteSet(Questions)

VARIABLES
    conversation,   \* the file of the conversation: its lock and its receipts
    bridges,    \* the server's end of each tab
    gateway,    \* the session at Hermes, and the prompts on their way to it
    events,     \* from the gateway to each bridge
    commands,   \* from each page to its bridge
    frames,     \* from each bridge to its page
    pages,      \* the state of each page
    losses      \* connections that broke so far

chatVars == <<conversation, bridges, gateway, events, commands, frames, pages, losses>>

Codes == {"gateway_unavailable", "gateway_request_failed", "gateway_disconnected",
          "uncertain_send", "turn_running", "thread_full", "invalid_thread", "request_expired"}
UncertainCodes == {"gateway_request_failed", "gateway_disconnected", "uncertain_send"}

Bridge == [phase : {"none", "opening", "serving", "calling", "closing"},
           running : BOOLEAN, open : SUBSET Questions, call : Ids \cup {None},
           reply : {"none", "taken", "failed", "invalid_thread"}, code : Codes \cup {"none"}]
Page == [socket : BOOLEAN, ready : BOOLEAN, running : BOOLEAN, stopping : BOOLEAN,
         pending : Ids \cup {None}, last : Ids \cup {None}, draft : BOOLEAN,
         uncertain : BOOLEAN, in_use : BOOLEAN,
         cards : [Questions -> {"absent", "stale", "fresh", "sent"}]]

NoBridge == [phase |-> "none", running |-> FALSE, open |-> {}, call |-> None,
             reply |-> "none", code |-> "none"]

Frame(type) == [type |-> type]
FrameOf(type, about) == [type |-> type, about |-> about]
Error(code) == FrameOf("error", code)
Snapshot(running, open) == [type |-> "snapshot", running |-> running, open |-> open]

UsedIds == {pages[t].last : t \in Tabs} \cup DOMAIN conversation.receipts

-----------------------------------------------------------------------------
(* The page.                                                                 *)

\* A frame reaches the page only while its socket is open.
ToPage(t, fs) == frames' = [frames EXCEPT ![t] = IF pages[t].socket THEN @ \o fs ELSE @]

SetPage(t, page) == pages' = [pages EXCEPT ![t] = page]

\* What a closed socket leaves on the page: its questions wait for a new
\* snapshot, and a message that waits for its acceptance may have been sent.
Disconnected(page) ==
    [page EXCEPT !.socket = FALSE, !.ready = FALSE, !.uncertain = @ \/ page.pending # None,
                 !.cards = [q \in Questions |-> IF @[q] = "absent" THEN "absent" ELSE "stale"]]

\* By the timer after a broken connection, by the button after a busy thread.
\* The server refuses a thread that is locked and closes the socket again.
Connect(t) ==
    /\ ~pages[t].socket
    /\ \/ /\ conversation.lock = None
          /\ conversation' = [conversation EXCEPT !.lock = t]
          /\ commands' = [commands EXCEPT ![t] = <<>>]
          /\ bridges' = [bridges EXCEPT ![t] = [NoBridge EXCEPT !.phase = "opening"]]
          /\ SetPage(t, [pages[t] EXCEPT !.socket = TRUE, !.in_use = FALSE])
       \/ /\ conversation.lock # None
          /\ ~pages[t].in_use
          /\ SetPage(t, [Disconnected(pages[t]) EXCEPT !.in_use = TRUE])
          /\ UNCHANGED <<conversation, bridges, commands>>
    /\ UNCHANGED <<gateway, events, frames, losses>>

\* A page never uses an identifier again.
Submit(t, i) ==
    /\ pages[t].ready /\ ~pages[t].running /\ pages[t].pending = None
    /\ i \notin UsedIds
    /\ commands' = [commands EXCEPT ![t] = Append(@, FrameOf("submit", i))]
    /\ SetPage(t, [pages[t] EXCEPT !.pending = i, !.last = i, !.draft = TRUE])
    /\ UNCHANGED <<conversation, bridges, gateway, events, frames, losses>>

Repeat(t) ==
    /\ t \in Repeaters /\ pages[t].ready
    /\ pages[t].pending = None /\ pages[t].last # None
    /\ commands' = [commands EXCEPT ![t] = Append(@, FrameOf("submit", pages[t].last))]
    /\ SetPage(t, [pages[t] EXCEPT !.pending = pages[t].last])
    /\ UNCHANGED <<conversation, bridges, gateway, events, frames, losses>>

AnswerRequest(t, q) ==
    /\ pages[t].ready /\ pages[t].cards[q] = "fresh"
    /\ commands' = [commands EXCEPT ![t] = Append(@, FrameOf("answer", q))]
    /\ SetPage(t, [pages[t] EXCEPT !.cards[q] = "sent"])
    /\ UNCHANGED <<conversation, bridges, gateway, events, frames, losses>>

PressStop(t) ==
    /\ pages[t].ready /\ pages[t].running /\ ~pages[t].stopping
    /\ commands' = [commands EXCEPT ![t] = Append(@, Frame("stop"))]
    /\ SetPage(t, [pages[t] EXCEPT !.stopping = TRUE])
    /\ UNCHANGED <<conversation, bridges, gateway, events, frames, losses>>

\* Defect: a snapshot leaves the questions of the page alone.
CardsKept(page, open) == page.cards

\* A snapshot drops the questions that are closed by now; the open ones follow.
CardsAfter(page, open) ==
    [q \in Questions |-> IF q \in open THEN page.cards[q] ELSE "absent"]

Notice(page, code) == page.uncertain \/ (page.pending # None /\ code \in UncertainCodes)

Received(page, f) ==
    CASE f.type = "snapshot" ->
            [page EXCEPT !.running = f.running, !.stopping = FALSE, !.pending = None,
                         !.ready = TRUE, !.cards = CardsAfter(page, f.open)]
      [] f.type = "accepted" ->
            IF page.pending = f.about
            THEN [page EXCEPT !.pending = None, !.running = TRUE, !.uncertain = FALSE,
                              !.draft = FALSE]
            ELSE page
      [] f.type = "token" -> [page EXCEPT !.running = TRUE]
      [] f.type = "done" -> [page EXCEPT !.running = FALSE, !.stopping = FALSE]
      [] f.type = "request" ->
            IF page.cards[f.about] \in {"absent", "stale"}
            THEN [page EXCEPT !.cards[f.about] = "fresh"] ELSE page
      [] f.type = "request_cancel" -> [page EXCEPT !.cards[f.about] = "absent"]
      [] f.type = "error" ->
            [page EXCEPT !.uncertain = Notice(page, f.about), !.pending = None, !.stopping = FALSE]
      [] f.type = "turn_error" ->
            [page EXCEPT !.uncertain = Notice(page, "gateway_request_failed"),
                         !.pending = None, !.stopping = FALSE, !.running = FALSE]
      [] f.type = "close" -> Disconnected(page)

ReceiveFrame(t) ==
    /\ frames[t] # <<>>
    /\ SetPage(t, Received(pages[t], Head(frames[t])))
    /\ frames' = [frames EXCEPT ![t] = Tail(@)]
    /\ UNCHANGED <<conversation, bridges, gateway, events, commands, losses>>

\* The socket breaks: what was on its way to the page is lost, and the bridge
\* finds the end behind the commands that it has received.
LoseBrowser(t) ==
    /\ pages[t].socket /\ losses < MaxLosses
    /\ SetPage(t, Disconnected(pages[t]))
    /\ frames' = [frames EXCEPT ![t] = <<>>]
    /\ commands' = [commands EXCEPT ![t] = Append(@, Frame("gone"))]
    /\ losses' = losses + 1
    /\ UNCHANGED <<conversation, bridges, gateway, events>>

-----------------------------------------------------------------------------
(* The gateway.                                                              *)

Attached == {t \in Tabs : bridges[t].phase \in {"serving", "calling"}}

Ended(queue) == queue # <<>> /\ queue[Len(queue)].type = "lost"
Lost(t) == Ended(events[t])

\* What finds the queue full ends the reader, which drops the events that wait
\* and leaves the end of the connection in their place.
Queued(queue, e) ==
    CASE Ended(queue) -> queue
      [] ~Ended(queue) /\ Len(queue) = MaxEvents -> <<Frame("lost")>>
      [] OTHER -> Append(queue, e)

Emit(e) == events' = [t \in Tabs |-> IF t \in Attached THEN Queued(events[t], e) ELSE events[t]]

Replied(i, reply) ==
    bridges' = [t \in Tabs |->
        IF bridges[t].phase = "calling" /\ bridges[t].call = i /\ ~Lost(t)
        THEN [bridges[t] EXCEPT !.reply = reply] ELSE bridges[t]]

\* A prompt may arrive when nobody waits for its answer any more.
TakePrompt(i) ==
    /\ i \in gateway.wire /\ gateway.turn = "idle"
    /\ gateway' = [gateway EXCEPT !.wire = @ \ {i}, !.taken[i] = @ + 1, !.turn = "started"]
    /\ Replied(i, "taken")
    /\ Emit(Frame("start"))
    /\ UNCHANGED <<conversation, commands, frames, pages, losses>>

RefusePrompt(i, reply) ==
    /\ i \in gateway.wire
    /\ gateway' = [gateway EXCEPT !.wire = @ \ {i}]
    /\ Replied(i, reply)
    /\ UNCHANGED <<conversation, events, commands, frames, pages, losses>>

Speak ==
    /\ gateway.turn = "started"
    /\ gateway' = [gateway EXCEPT !.turn = "speaking"]
    /\ Emit(Frame("token"))
    /\ UNCHANGED <<conversation, bridges, commands, frames, pages, losses>>

EndTurn(outcome) ==
    /\ gateway.turn # "idle" /\ gateway.open = {}
    /\ gateway' = [gateway EXCEPT !.turn = "idle"]
    /\ Emit(Frame(outcome))
    /\ UNCHANGED <<conversation, bridges, commands, frames, pages, losses>>

Ask(q) ==
    /\ gateway.turn = "speaking" /\ q \notin gateway.asked
    /\ gateway' = [gateway EXCEPT !.open = @ \cup {q}, !.asked = @ \cup {q}]
    /\ Emit(FrameOf("ask", q))
    /\ UNCHANGED <<conversation, bridges, commands, frames, pages, losses>>

CancelRequest(q) ==
    /\ q \in gateway.open
    /\ gateway' = [gateway EXCEPT !.open = @ \ {q}]
    /\ Emit(FrameOf("cancel", q))
    /\ UNCHANGED <<conversation, bridges, commands, frames, pages, losses>>

\* The connection to the gateway breaks: the end is queued behind the events
\* that arrived, and a call that waits fails at once.
LoseGateway(t) ==
    /\ t \in Attached /\ ~Lost(t) /\ losses < MaxLosses
    /\ events' = [events EXCEPT ![t] = Queued(@, Frame("lost"))]
    /\ losses' = losses + 1
    /\ UNCHANGED <<conversation, bridges, gateway, commands, frames, pages>>

-----------------------------------------------------------------------------
(* The bridge.                                                               *)

SetBridge(t, bridge) == bridges' = [bridges EXCEPT ![t] = bridge]

\* The bridge ends: the gateway is closed and the thread unlocked before the
\* page is told why.
Fail(t, code) ==
    SetBridge(t, [NoBridge EXCEPT !.phase = "closing", !.code = code])

\* Create the session, or resume it: the snapshot and the open questions come
\* from one answer, and events that follow it wait in the queue.
Attach(t) ==
    /\ bridges[t].phase = "opening"
    /\ SetBridge(t, [NoBridge EXCEPT !.phase = "serving", !.open = gateway.open,
                                     !.running = gateway.turn # "idle"])
    /\ events' = [events EXCEPT ![t] = <<>>]
    /\ \E asked \in {s \in [1 .. Cardinality(gateway.open) -> gateway.open] : IsInjective(s)} :
          ToPage(t, <<Snapshot(gateway.turn # "idle", gateway.open)>>
                      \o [k \in DOMAIN asked |-> FrameOf("request", asked[k])])
    /\ UNCHANGED <<conversation, gateway, commands, pages, losses>>

CannotAttach(t) ==
    /\ bridges[t].phase = "opening" /\ losses < MaxLosses
    /\ Fail(t, "gateway_unavailable")
    /\ losses' = losses + 1
    /\ UNCHANGED <<conversation, gateway, events, commands, frames, pages>>

NextCommand(t) == Head(commands[t])
Serves(t, type) == bridges[t].phase = "serving" /\ commands[t] # <<>> /\ NextCommand(t).type = type
CommandTaken(t) == commands' = [commands EXCEPT ![t] = Tail(@)]

Receipt(i) == i \in DOMAIN conversation.receipts

\* Defect: the receipt of a prompt on its way says that it was accepted.
OptimisticReceipt(i, status) ==
    [conversation EXCEPT !.receipts = [j \in DOMAIN @ \cup {i} |-> IF j = i THEN "accepted" ELSE @[j]]]

WithReceipt(i, status) ==
    [conversation EXCEPT !.receipts = [j \in DOMAIN @ \cup {i} |-> IF j = i THEN status ELSE @[j]]]

Verdict(t, i) ==
    CASE Receipt(i) /\ conversation.receipts[i] = "accepted" -> FrameOf("accepted", i)
      [] Receipt(i) /\ conversation.receipts[i] = "sending" -> Error("uncertain_send")
      [] ~Receipt(i) /\ bridges[t].running -> Error("turn_running")
      [] OTHER -> Error("thread_full")

\* The receipt is on disk before the prompt is on the wire.  A prompt may still
\* go out when the reader has ended: after an overflow only its answer is lost.
BridgeSubmit(t) ==
    LET i == NextCommand(t).about
        new == ~Receipt(i) /\ ~bridges[t].running
               /\ Cardinality(DOMAIN conversation.receipts) < MaxReceipts
    IN  /\ Serves(t, "submit")
        /\ CommandTaken(t)
        /\ \/ /\ ~new
              /\ ToPage(t, <<Verdict(t, i)>>)
              /\ UNCHANGED <<conversation, bridges, gateway>>
           \/ /\ new
              /\ conversation' = WithReceipt(i, "sending")
              /\ SetBridge(t, [bridges[t] EXCEPT !.phase = "calling", !.running = TRUE, !.call = i,
                                                 !.reply = IF Lost(t) THEN "failed" ELSE "none"])
              /\ \/ gateway' = [gateway EXCEPT !.wire = @ \cup {i}]
                 \/ Lost(t) /\ UNCHANGED gateway
              /\ UNCHANGED frames
        /\ UNCHANGED <<events, pages, losses>>

Released(t) == [bridges[t] EXCEPT !.phase = "serving", !.call = None, !.reply = "none"]

CallAccepted(t) ==
    LET i == bridges[t].call
    IN  /\ bridges[t].phase = "calling" /\ bridges[t].reply = "taken"
        /\ conversation' = WithReceipt(i, "accepted")
        /\ SetBridge(t, Released(t))
        /\ ToPage(t, <<FrameOf("accepted", i)>>)
        /\ UNCHANGED <<gateway, events, commands, pages, losses>>

\* A refusal, or no answer in time, ends the bridge; a session that Hermes does
\* not know and a connection that breaks meanwhile are only reported.
CallFailed(t) ==
    LET reply == bridges[t].reply
    IN  /\ bridges[t].phase = "calling"
        /\ \/ /\ reply = "failed" \/ (reply = "none" /\ ~Lost(t))
              /\ Fail(t, "gateway_request_failed")
              /\ ToPage(t, <<Error("gateway_request_failed")>>)
           \/ /\ reply = "none" /\ Lost(t)
              /\ SetBridge(t, Released(t))
              /\ ToPage(t, <<Error("gateway_disconnected")>>)
           \/ /\ reply = "invalid_thread"
              /\ SetBridge(t, Released(t))
              /\ ToPage(t, <<Error("invalid_thread")>>)
        /\ UNCHANGED <<conversation, gateway, events, commands, pages, losses>>

\* The answer crosses the wire without a confirmation: the bridge forgets the
\* question even when the connection breaks under it.
Answer(t) ==
    LET q == NextCommand(t).about
        forgotten == /\ SetBridge(t, [bridges[t] EXCEPT !.open = @ \ {q}])
                     /\ ToPage(t, <<FrameOf("request_cancel", q)>>)
    IN  /\ Serves(t, "answer")
        /\ CommandTaken(t)
        /\ \/ /\ q \notin bridges[t].open
              /\ ToPage(t, <<Error("request_expired")>>)
              /\ UNCHANGED <<bridges, gateway, events, losses>>
           \/ /\ q \in bridges[t].open
              /\ gateway' = [gateway EXCEPT !.open = @ \ {q}]
              /\ forgotten
              /\ UNCHANGED <<events, losses>>
           \/ /\ q \in bridges[t].open /\ ~Lost(t) /\ losses < MaxLosses
              /\ events' = [events EXCEPT ![t] = Queued(@, Frame("lost"))]
              /\ forgotten
              /\ losses' = losses + 1
              /\ UNCHANGED gateway
           \/ /\ q \in bridges[t].open /\ Lost(t)
              /\ Fail(t, "gateway_unavailable")
              /\ UNCHANGED <<gateway, events, frames, losses>>
        /\ UNCHANGED <<conversation, pages>>

\* An interrupt is acknowledged at once, and the turn ends with an event; it
\* may be refused, or not be answered.
Interrupt(t) ==
    /\ Serves(t, "stop")
    /\ CommandTaken(t)
    /\ \/ /\ ~Lost(t)
          /\ UNCHANGED <<bridges, events, frames, losses>>
       \/ /\ ~Lost(t)
          /\ ToPage(t, <<Error("invalid_thread")>>)
          /\ UNCHANGED <<bridges, events, losses>>
       \/ /\ ~Lost(t) /\ losses < MaxLosses
          /\ events' = [events EXCEPT ![t] = Queued(@, Frame("lost"))]
          /\ ToPage(t, <<Error("gateway_disconnected")>>)
          /\ losses' = losses + 1
          /\ UNCHANGED bridges
       \/ /\ Fail(t, "gateway_request_failed")
          /\ ToPage(t, <<Error("gateway_request_failed")>>)
          /\ UNCHANGED <<events, losses>>
    /\ UNCHANGED <<conversation, gateway, pages>>

\* The bridge finds the end when it reads it behind the commands, or when it
\* writes to the page before.
Detach(t) ==
    /\ bridges[t].phase = "serving" /\ Frame("gone") \in Range(commands[t])
    /\ Fail(t, "none")
    /\ UNCHANGED <<conversation, gateway, events, commands, frames, pages, losses>>

\* One event of the gateway, between two commands of the page; the end of the
\* connection does not wait for a command that is being served.
Upstream(t) ==
    LET e == Head(events[t])
        bridge == bridges[t]
    IN  /\ events[t] # <<>>
        /\ bridge.phase = "serving" \/ (bridge.phase = "calling" /\ e.type = "lost")
        /\ events' = [events EXCEPT ![t] = Tail(@)]
        /\ \/ /\ e.type = "start"
              /\ SetBridge(t, [bridge EXCEPT !.running = TRUE]) /\ UNCHANGED frames
           \/ /\ e.type = "token"
              /\ ToPage(t, <<e>>) /\ UNCHANGED bridges
           \/ /\ e.type \in {"done", "turn_error"}
              /\ SetBridge(t, [bridge EXCEPT !.running = FALSE]) /\ ToPage(t, <<e>>)
           \/ /\ e.type = "ask"
              /\ SetBridge(t, [bridge EXCEPT !.open = @ \cup {e.about}])
              /\ ToPage(t, <<FrameOf("request", e.about)>>)
           \/ /\ e.type = "cancel"
              /\ SetBridge(t, [bridge EXCEPT !.open = @ \ {e.about}])
              /\ ToPage(t, IF e.about \in bridge.open THEN <<FrameOf("request_cancel", e.about)>> ELSE <<>>)
           \/ /\ e.type = "lost"
              /\ Fail(t, "gateway_disconnected") /\ UNCHANGED frames
        /\ UNCHANGED <<conversation, gateway, commands, pages, losses>>

TearDown(t) ==
    /\ bridges[t].phase = "closing"
    /\ SetBridge(t, NoBridge)
    /\ conversation' = [conversation EXCEPT !.lock = None]
    /\ events' = [events EXCEPT ![t] = <<>>]
    /\ commands' = [commands EXCEPT ![t] = <<>>]
    /\ ToPage(t, (IF bridges[t].code = "none" THEN <<>> ELSE <<Error(bridges[t].code)>>)
                  \o <<Frame("close")>>)
    /\ UNCHANGED <<gateway, pages, losses>>

\* The server dies at any point of a bridge's work.
ServerDies(t) ==
    /\ bridges[t].phase # "none" /\ losses < MaxLosses
    /\ SetBridge(t, NoBridge)
    /\ conversation' = [conversation EXCEPT !.lock = None]
    /\ events' = [events EXCEPT ![t] = <<>>]
    /\ commands' = [commands EXCEPT ![t] = <<>>]
    /\ frames' = [frames EXCEPT ![t] = <<>>]
    /\ SetPage(t, Disconnected(pages[t]))
    /\ losses' = losses + 1
    /\ UNCHANGED gateway

-----------------------------------------------------------------------------
ChatInit ==
    /\ conversation = [lock |-> None, receipts |-> <<>>]
    /\ bridges = [t \in Tabs |-> NoBridge]
    /\ gateway = [turn |-> "idle", open |-> {}, asked |-> {}, wire |-> {},
                  taken |-> [i \in Ids |-> 0]]
    /\ events = [t \in Tabs |-> <<>>]
    /\ commands = [t \in Tabs |-> <<>>]
    /\ frames = [t \in Tabs |-> <<>>]
    /\ pages = [t \in Tabs |->
                   [socket |-> FALSE, ready |-> FALSE, running |-> FALSE, stopping |-> FALSE,
                    pending |-> None, last |-> None, draft |-> FALSE, uncertain |-> FALSE,
                    in_use |-> FALSE,
                    cards |-> [q \in Questions |-> "absent"]]]
    /\ losses = 0

PageNext(t) ==
    \/ Connect(t) \/ Repeat(t) \/ PressStop(t) \/ ReceiveFrame(t) \/ LoseBrowser(t)
    \/ \E i \in Ids : Submit(t, i)
    \/ \E q \in Questions : AnswerRequest(t, q)

GatewayNext ==
    \/ \E i \in Ids : \/ TakePrompt(i)
                      \/ \E reply \in {"failed", "invalid_thread"} : RefusePrompt(i, reply)
    \/ Speak \/ \E outcome \in {"done", "turn_error"} : EndTurn(outcome)
    \/ \E q \in Questions : Ask(q) \/ CancelRequest(q)
    \/ \E t \in Tabs : LoseGateway(t)

BridgeStep(t) ==
    \/ Attach(t) \/ BridgeSubmit(t) \/ CallAccepted(t) \/ CallFailed(t) \/ Answer(t)
    \/ Interrupt(t) \/ Detach(t) \/ Upstream(t) \/ TearDown(t)

BridgeNext(t) == BridgeStep(t) \/ CannotAttach(t) \/ ServerDies(t)

ChatNext == GatewayNext \/ \E t \in Tabs : PageNext(t) \/ BridgeNext(t)

ChatSpec == ChatInit /\ [][ChatNext]_chatVars
-----------------------------------------------------------------------------
(* Properties.                                                               *)

\* The type invariant.
ChatTypeOK ==
    /\ conversation.lock \in Tabs \cup {None}
    /\ DOMAIN conversation.receipts \subseteq Ids
    /\ Range(conversation.receipts) \subseteq {"sending", "accepted"}
    /\ bridges \in [Tabs -> Bridge]
    /\ gateway.turn \in {"idle", "started", "speaking"}
    /\ gateway.open \subseteq gateway.asked /\ gateway.asked \subseteq Questions
    /\ gateway.wire \subseteq Ids
    /\ pages \in [Tabs -> Page]
    /\ \A t \in Tabs : Len(events[t]) <= MaxEvents

\* A submission runs at most one turn, whatever is repeated, lost or taken
\* after everybody has given up on it (docs/HERMES_CHAT.md).
OneTurnEach == \A i \in Ids : gateway.taken[i] <= 1

\* A receipt that says accepted, and so a draft that the page clears, stands
\* for a turn that Hermes has taken.
AcceptedIsTaken ==
    \A i \in DOMAIN conversation.receipts : conversation.receipts[i] = "accepted" => gateway.taken[i] = 1

\* While the draft of a message that Hermes has taken is still in the page, the
\* page waits for its acceptance or warns that the delivery is uncertain: it
\* never shows the draft as plainly unsent.
UncertaintyShown ==
    \A t \in Tabs :
        LET shown == pages[t]
        IN  shown.draft /\ shown.last # None /\ gateway.taken[shown.last] > 0 =>
                shown.pending # None \/ shown.uncertain

\* A message is taken once, and the page never tells the user less than what
\* became of it, whatever is repeated, refused or lost.
TurnsHold == ChatTypeOK /\ OneTurnEach /\ AcceptedIsTaken /\ UncertaintyShown

\* A message starts only when no earlier command of its page can still be
\* answered with an error: an error frame names no command, and the page takes
\* it for the answer to the message.
Unhurried ==
    \A t \in Tabs : pages[t].pending = None /\ pages'[t].pending # None =>
        /\ commands[t] = <<>>
        /\ \A k \in DOMAIN frames[t] : frames[t][k].type # "error"

Settled(t) ==
    /\ bridges[t].phase = "serving" /\ pages[t].ready /\ pages[t].socket
    /\ events[t] = <<>> /\ commands[t] = <<>> /\ frames[t] = <<>>

\* Once everything on its way has arrived, the page knows whether a turn runs
\* and which questions are open: Stop is there for a turn that speaks, the next
\* message is not held up by a turn that ended, and no question is left behind.
PageFollowsTurn ==
    \A t \in Tabs \ Repeaters : Settled(t) =>
        /\ gateway.turn = "speaking" => pages[t].running
        /\ pages[t].running => gateway.turn # "idle"
        /\ pages[t].stopping => gateway.turn # "idle"
        /\ \A q \in Questions : pages[t].cards[q] # "absent" <=> q \in gateway.open
=============================================================================
