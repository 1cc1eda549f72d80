------------------------------ MODULE ChatView ------------------------------
(***************************************************************************)
(* The controller of a conversation and the view that shows it             *)
(* (renderer/hooks/useChat.ts), joined by the two ordered channels of      *)
(* Electron's IPC: requests of the view one way, replies and chat:done     *)
(* events the other.                                                       *)
(*                                                                         *)
(* chat:chunk events are left out: they change what is shown of a turn     *)
(* while the view streams, and nothing when it does not.                   *)
(***************************************************************************)
EXTENDS ChatController

CONSTANT MaxPresses   \* bound: presses of the buttons that stop and clear

VARIABLES
    busy,     \* the view streams: isStreaming, awaitingResponse or a phase
    shown,    \* the turns whose answers the view shows
    asked,    \* requests on their way to the main process
    mail,     \* replies and events on their way to the view
    typed, presses

view  == << busy, shown, asked, mail, typed, presses >>
world == << vars, view >>

Answers == { answers[k].of : k \in DOMAIN answers }

ViewInit == Init /\ busy = FALSE /\ shown = {} /\ asked = << >> /\ mail = << >> /\ typed = 0 /\ presses = 0

-----------------------------------------------------------------------------
(* The view *)

\* sendMessage shows the message and streams before the request is on its way.
Type ==
    /\ typed < MaxMessages /\ typed' = typed + 1
    /\ busy' = TRUE /\ asked' = Append(asked, "send")
    /\ UNCHANGED << vars, shown, mail, presses >>

\* stopGeneration; the button is there while the view streams.
PressStop ==
    /\ busy /\ presses < MaxPresses /\ presses' = presses + 1
    /\ asked' = Append(asked, "stop")
    /\ UNCHANGED << vars, busy, shown, mail, typed >>

\* clearSession asks first and empties the view with the reply.
PressClear ==
    /\ presses < MaxPresses /\ presses' = presses + 1
    /\ asked' = Append(asked, "clear")
    /\ UNCHANGED << vars, busy, shown, mail, typed >>

\* onDone: the end of a turn reloads the history of a view that streams.
SeeDone ==
    /\ busy' = FALSE
    /\ asked' = IF busy THEN Append(asked, "history") ELSE asked
    /\ UNCHANGED shown

\* The next message of the channel.
Read ==
    /\ mail # << >> /\ mail' = Tail(mail)
    /\ \/ Head(mail).kind = "done" /\ SeeDone
       \/ /\ Head(mail).kind = "history" /\ shown' = Head(mail).of
          /\ UNCHANGED << busy, asked >>
       \/ /\ Head(mail).kind = "cleared" /\ shown' = {} /\ busy' = FALSE
          /\ UNCHANGED asked
    /\ UNCHANGED << vars, typed, presses >>

-----------------------------------------------------------------------------
(* The main process *)

\* The turns that end in a step: the running one, and those that fail as they start.
Ended ==
    { m \in Message : m = current /\ current' # m }
    \cup { m \in last + 1 .. last' : m # current' }

\* onDone is sent for each, once the turn after it has started.
Tells == mail' = mail \o [k \in 1 .. Cardinality(Ended) |-> [kind |-> "done", of |-> {}]]

\* The handler of the oldest request.
Answer ==
    /\ asked # << >> /\ asked' = Tail(asked)
    /\ \/ Head(asked) = "send" /\ Send /\ Tells
       \/ Head(asked) = "stop" /\ Stop /\ UNCHANGED mail
       \/ Head(asked) = "stop" /\ current = None /\ UNCHANGED << vars, mail >>
       \/ /\ Head(asked) = "clear" /\ ClearHistory
          /\ mail' = Append(mail, [kind |-> "cleared", of |-> {}])
       \/ /\ Head(asked) = "history" /\ UNCHANGED vars
          /\ mail' = Append(mail, [kind |-> "history", of |-> Answers])
    /\ UNCHANGED << busy, shown, typed, presses >>

Works == (\E m \in Message : Loop(m)) /\ Tells /\ UNCHANGED << busy, shown, asked, typed, presses >>

ViewNext == Type \/ PressStop \/ PressClear \/ Read \/ Answer \/ Works

\* Turns end, requests are answered, messages arrive.
ViewSpec == ViewInit /\ [][ViewNext]_world /\ WF_world(Works) /\ WF_world(Answer) /\ WF_world(Read)

-----------------------------------------------------------------------------
(* Properties *)

\* The end of a turn brings its answer into the view: once every turn has ended and
\* nothing is on its way, the view shows the answers that are stored.
AnswersShown == <>[](current = None => shown = Answers)
=============================================================================
