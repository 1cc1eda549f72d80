--------------------------- MODULE ChatController ---------------------------
(***************************************************************************)
(* One conversation of the desktop chat: its message queue                 *)
(* (chat/chatQueue.js), its controller and agent loop                      *)
(* (chat/chatController.js) and the requests of the renderer that create,  *)
(* use and drop the controller (main.js, chat:* and conversation:delete).  *)
(*                                                                         *)
(* A message is the id of its row in chat_messages.  An action is what     *)
(* runs between two awaits: a request, or the end of the model's stream,   *)
(* of a tool handler, of the title request or of the Codex process.        *)
(***************************************************************************)
EXTENDS Integers, Sequences, FiniteSets, SequencesExt

CONSTANTS
    None,          \* no abortController
    MaxMessages,   \* bound: messages the user sends
    MaxRounds,     \* MAX_ROUNDS: answers with tool calls in one turn
    MaxFaults      \* bound: crashes of the main process

ASSUME ChatAssumption ==
    /\ {MaxMessages, MaxRounds} \subseteq Nat \ {0}
    /\ MaxFaults \in Nat
    /\ None \notin 1 .. MaxMessages

Message == 1 .. MaxMessages

VARIABLES
    \* chat_messages and conversations
    exists,   \* the conversation has its row
    row,      \* the row of each message
    text,     \* its content: 0 as sent, 1 as edited
    answers,  \* the assistant rows: the turn each belongs to and its status
    extra,    \* the turns with tool or system rows
    \* the main process
    held,     \* chatControllers has a controller for the conversation
    items,    \* the queue of the controller
    current,  \* whose turn set active and abortController
    turn,     \* what the agent loop of each message awaits
    round,    \* its round
    cut,      \* the turns whose signal is aborted
    \* bound and history
    faults,
    last      \* the newest message a turn was started for

stored == << exists, row, text, answers, extra >>
memory == << held, items, current, turn, round, cut >>
vars   == << stored, memory, faults, last >>

\* Numbers in their order, and the items of a queue at some of its positions.
Ascending(S) == [n \in 1 .. Cardinality(S) |-> CHOOSE k \in S : Cardinality({ j \in S : j <= k }) = n]
Kept(q, ks)  == [n \in 1 .. Cardinality(ks) |-> q[Ascending(ks)[n]]]

Item(m, state) == [id |-> m, state |-> state, text |-> text[m]]

\* The positions of the waiting items of a queue, their messages, and where the next is.
Queued(q)  == { k \in DOMAIN q : q[k].state = "queued" }
Waiting(q) == { q[k].id : k \in Queued(q) }
FirstOf(q) == CHOOSE k \in Queued(q) : \A j \in Queued(q) : k <= j

Init ==
    /\ exists = TRUE
    /\ row = [m \in Message |-> "unsent"] /\ text = [m \in Message |-> 0]
    /\ answers = << >> /\ extra = {}
    /\ held = FALSE /\ items = << >> /\ current = None
    /\ turn = [m \in Message |-> "idle"] /\ round = [m \in Message |-> 0]
    /\ cut = {} /\ faults = 0 /\ last = 0

-----------------------------------------------------------------------------
(* The dispatch of the queue *)

\* The statement that takes the rows of ms out of the queue finds no deleted row.
\* Fault: the row of a message that gets its turn stays queued.
DoneLater(r, ms) == r
Done(r, ms) == [m \in Message |-> IF m \in ms /\ r[m] = "queued" THEN "done" ELSE r[m]]

\* The queue q with its first waiting item marked as processing.
Marked(q) == [q EXCEPT ![FirstOf(q)].state = "processing"]

\* Nothing to dispatch.  Fault: nobody asks whether a turn is running.
IdleQueue(q, busy) == Queued(q) = {}
Idle(q, busy) == busy # None \/ Queued(q) = {}

\* No turn starts: one is running, or nothing waits.
Rest(q, r, busy, ex) ==
    /\ items' = q /\ row' = r /\ current' = busy /\ extra' = ex
    /\ UNCHANGED last

\* The first waiting message gets its turn, which runs to its first await.
Begin(q, r, ex, t, n) ==
    LET m == q[FirstOf(q)].id
    IN /\ items' = Marked(q) /\ row' = Done(r, {m})
       /\ current' = m /\ last' = m /\ extra' = ex
       /\ \E backend \in {"llm", "codex"} : turn' = [t EXCEPT ![m] = backend]
       /\ round' = [n EXCEPT ![m] = 1]

\* Without an API key each turn fails at once and starts the next one.
FailAll(q, r, ex) ==
    /\ items' = << >> /\ row' = Done(r, Waiting(q)) /\ current' = None
    /\ last' = Last(q).id /\ extra' = ex \cup Waiting(q)

\* pump() over the queue q and the rows r, where busy is the running turn, t and n
\* what the loops await and their rounds, and ex the rows stored by then.
Pump(q, r, busy, t, n, ex) ==
    \/ Idle(q, busy) /\ Rest(q, r, busy, ex) /\ turn' = t /\ round' = n
    \/ ~Idle(q, busy) /\ Begin(q, r, ex, t, n)
    \/ ~Idle(q, busy) /\ FailAll(q, r, ex) /\ turn' = t /\ round' = n

Released == Kept(items, Queued(items))

\* finishGeneration: the item leaves the queue, the next turn starts, and onDone
\* drops a controller that has nothing left to do.  Fault: the end of a turn does not pump.
FinishAlone(m, ex) ==
    /\ Rest(Released, row, None, ex)
    /\ turn' = [turn EXCEPT ![m] = "idle"] /\ round' = [round EXCEPT ![m] = 0]
    /\ held' = FALSE
    /\ cut' = cut \ {m}
    /\ UNCHANGED << exists, text, faults >>

Finish(m, ex) ==
    /\ \E q \in {Released} : Pump(q, row, None, [turn EXCEPT ![m] = "idle"], [round EXCEPT ![m] = 0], ex)
    /\ held' = (held /\ current' # None)
    /\ cut' = cut \ {m}
    /\ UNCHANGED << exists, text, faults >>

-----------------------------------------------------------------------------
(* Requests *)

\* The controller's queue, or that of a new one, rebuilt from the queued rows.
Queue ==
    IF held THEN items
    ELSE LET ms == Ascending({ m \in Message : row[m] = "queued" })
         IN  [k \in DOMAIN ms |-> Item(ms[k], "queued")]

Send ==
    LET m == Cardinality({ n \in Message : row[n] # "unsent" }) + 1
    IN /\ exists /\ m \in Message
       /\ Pump(Append(Queue, Item(m, "queued")), [row EXCEPT ![m] = "queued"], current, turn, round, extra)
       /\ held' = (current' # None)
       /\ UNCHANGED << exists, text, answers, cut, faults >>

\* markLastAssistantAborted: the last finished answer of the conversation.
Aborted ==
    LET done == { k \in DOMAIN answers : answers[k].status = "done" }
    IN [k \in DOMAIN answers |->
          IF k \in done /\ \A j \in done : j <= k THEN [answers[k] EXCEPT !.status = "aborted"] ELSE answers[k]]

Stop ==
    /\ exists /\ held /\ current # None
    /\ cut' = cut \cup {current}
    /\ answers' = Aborted
    /\ UNCHANGED << exists, row, text, extra, held, items, current, turn, round, faults, last >>

\* chat:queueCancel of a waiting message.
CancelItem(m) ==
    /\ held /\ m \in Waiting(items)
    /\ items' = Kept(items, { k \in DOMAIN items : items[k].id # m })
    /\ row' = [row EXCEPT ![m] = "deleted"]
    /\ UNCHANGED << exists, text, answers, extra, held, current, turn, round, cut, faults, last >>

\* chat:queueEdit of a waiting message.
EditItem(m) ==
    /\ held /\ m \in Waiting(items)
    /\ items' = [k \in DOMAIN items |-> IF items[k].id = m THEN [items[k] EXCEPT !.text = 1] ELSE items[k]]
    /\ text' = [text EXCEPT ![m] = 1]
    /\ UNCHANGED << exists, row, answers, extra, held, current, turn, round, cut, faults, last >>

\* chat:queueClear: the waiting items and every queued row of the conversation.
ClearQueue ==
    /\ held /\ Queued(items) # {}
    /\ items' = Kept(items, DOMAIN items \ Queued(items))
    /\ row' = [m \in Message |-> IF row[m] = "queued" THEN "deleted" ELSE row[m]]
    /\ UNCHANGED << exists, text, answers, extra, held, current, turn, round, cut, faults, last >>

Erased == [m \in Message |-> IF row[m] = "unsent" THEN "unsent" ELSE "deleted"]

\* chat:clear deletes every row and leaves the queue of the controller alone.
ClearHistory ==
    /\ exists
    /\ row' = Erased /\ answers' = << >> /\ extra' = {}
    /\ UNCHANGED << exists, text, held, items, current, turn, round, cut, faults, last >>

\* conversation:delete: clearQueue and stop, then the rows; a running turn goes on.
DeleteConversation ==
    /\ exists
    /\ exists' = FALSE /\ held' = FALSE
    /\ items' = Kept(items, DOMAIN items \ Queued(items))
    /\ cut' = IF held /\ current # None THEN cut \cup {current} ELSE cut
    /\ row' = Erased /\ answers' = << >> /\ extra' = {}
    /\ UNCHANGED << text, current, turn, round, faults, last >>

\* The main process ends and starts again: every statement was persisted.
Crash ==
    /\ faults < MaxFaults /\ faults' = faults + 1
    /\ held' = FALSE /\ items' = << >> /\ current' = None
    /\ turn' = [m \in Message |-> "idle"] /\ round' = [m \in Message |-> 0] /\ cut' = {}
    /\ UNCHANGED << stored, last >>

-----------------------------------------------------------------------------
(* The agent loop of a message *)

Answered(m) == answers' = Append(answers, [of |-> m, status |-> "done"])

\* The stream ends with an error, or with the abort that stop asked for, which
\* leaves no row.
Fails(m, backend) ==
    /\ turn[m] = backend
    /\ \/ m \in cut /\ Finish(m, extra)
       \/ Finish(m, extra \cup {m})
    /\ UNCHANGED answers

\* A text ends the turn; a conversation without a title asks for one first.  So
\* does the stream of a stopped turn that was complete, or that ends without an error.
AnswerText(m) ==
    /\ turn[m] = "llm" /\ Answered(m)
    /\ \/ Finish(m, extra)
       \/ /\ exists /\ turn' = [turn EXCEPT ![m] = "title"]
          /\ UNCHANGED << exists, row, text, extra, held, items, current, round, cut, faults, last >>

TitleEnds(m) == turn[m] = "title" /\ Finish(m, extra) /\ UNCHANGED answers

\* An answer with tool calls; they run as one.
CallTools(m) ==
    /\ turn[m] = "llm" /\ Answered(m)
    /\ turn' = [turn EXCEPT ![m] = "tool"]
    /\ UNCHANGED << exists, row, text, extra, held, items, current, round, cut, faults, last >>

\* The results are stored; another round starts unless it was the last one.  Fault: the
\* limit is noticed a round too late.
ToolsEndLate(m) ==
    /\ turn[m] = "tool" /\ UNCHANGED answers
    /\ \/ /\ round[m] <= MaxRounds
          /\ turn' = [turn EXCEPT ![m] = "llm"] /\ round' = [round EXCEPT ![m] = @ + 1]
          /\ extra' = extra \cup {m}
          /\ UNCHANGED << exists, row, text, held, items, current, cut, faults, last >>
       \/ round[m] > MaxRounds /\ Finish(m, extra \cup {m})

ToolsEnd(m) ==
    /\ turn[m] = "tool" /\ UNCHANGED answers
    /\ \/ /\ round[m] < MaxRounds
          /\ turn' = [turn EXCEPT ![m] = "llm"] /\ round' = [round EXCEPT ![m] = @ + 1]
          /\ extra' = extra \cup {m}
          /\ UNCHANGED << exists, row, text, held, items, current, cut, faults, last >>
       \/ round[m] = MaxRounds /\ Finish(m, extra \cup {m})

\* The Codex process answers.  So may one that was aborted: if it resumed a
\* session in vain, what the new session says is taken for the answer.
CodexAnswers(m) ==
    /\ turn[m] = "codex"
    /\ Answered(m) /\ Finish(m, extra)

Loop(m) ==
    \/ Fails(m, "llm") \/ Fails(m, "codex")
    \/ AnswerText(m) \/ TitleEnds(m) \/ CallTools(m) \/ ToolsEnd(m) \/ CodexAnswers(m)

Request ==
    \/ Send \/ Stop \/ ClearQueue \/ ClearHistory \/ DeleteConversation
    \/ \E m \in Message : CancelItem(m) \/ EditItem(m)

Next == Request \/ Crash \/ \E m \in Message : Loop(m)

\* Streams, tools and processes end.
Fairness == \A m \in Message : WF_vars(Loop(m))
Spec == Init /\ [][Next]_vars /\ Fairness

-----------------------------------------------------------------------------
(* Properties *)

\* Types.
ChatTypeOK ==
    /\ exists \in BOOLEAN /\ held \in BOOLEAN
    /\ row \in [Message -> {"unsent", "queued", "done", "deleted"}] /\ text \in [Message -> {0, 1}]
    /\ answers \in Seq([of : Message, status : {"done", "aborted"}])
    /\ items \in Seq([id : Message, state : {"queued", "processing"}, text : {0, 1}])
    /\ current \in Message \cup {None}
    /\ turn \in [Message -> {"idle", "llm", "codex", "title", "tool"}]
    /\ round \in [Message -> 0 .. MaxRounds]
    /\ extra \cup cut \subseteq Message
    /\ faults \in 0 .. MaxFaults /\ last \in Message \cup {0}

\* One agent loop at a time, whatever is sent, stopped, cleared or deleted while it
\* awaits: it is the one active and stop stand for, it owns the processing item, and
\* while none runs nothing waits.  The rows left queued are, with their content, items
\* of the live controller, which so has every message a restart would restore.
QueueServed ==
    LET waiting == { i \in ToSet(items) : i.state = "queued" }
        busy == { m \in Message : turn[m] # "idle" }
    IN /\ busy = { m \in Message : m = current }
       /\ busy = { i.id : i \in ToSet(items) \ waiting }
       /\ busy = {} => waiting = {}
       /\ held => \A m \in Message : row[m] = "queued" =>
             [id |-> m, state |-> "queued", text |-> text[m]] \in waiting

\* Messages get their turns in the order they were sent and at most once, over
\* stops, cancelled items, a cleared history and a restart that restores the queue.
TurnsInOrder ==
    [][\A m \in Message : turn[m] = "idle" /\ turn'[m] # "idle" =>
         m > last /\ \A n \in 1 .. m : row'[n] # "queued"]_vars

\* A message that waits in a controller gets its turn, or is cancelled or cleared,
\* unless the process crashes: however the turns before it end.
EveryMessageTurns ==
    \A m \in Message : \A f \in 0 .. MaxFaults :
        row[m] = "queued" /\ held /\ faults = f ~> row[m] # "queued" \/ faults # f
=============================================================================
