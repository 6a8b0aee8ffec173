------------------------------- MODULE Prompt -------------------------------
(***************************************************************************)
(* The interactive prompt: the session's thread, which alone can answer   *)
(* commands; the editor's thread, which reads the terminal; the two       *)
(* channels between them; and the pager a prompt's answer goes through.   *)
(*                                                                        *)
(* The editor reads one line per prompt it is sent.  While it reads, its  *)
(* completer may ask the session a question and wait for the reply.  A    *)
(* line's answers are written to a pager started on the first byte and    *)
(* waited for, with SIGINT parked while it runs, or to standard output.   *)
(*                                                                        *)
(* External: reedline (the editor), the pager's process, the terminal's   *)
(* user and the kernel's delivery of SIGINT.                              *)
(***************************************************************************)
EXTENDS Naturals, Sequences, FiniteSets

CONSTANTS
    Cursors,       \* where the session's cursor can stand
    Home,          \* the cursor a session starts with
    MaxLines       \* bound: lines the user types

ASSUME PromptAssumption == Home \in Cursors /\ MaxLines \in Nat

VARIABLES
    session,     \* where the session's thread is
    editor,      \* where the editor's thread is
    events,      \* the editor's channel to the session
    prompts,     \* the session's channel of labels to the editor
    open,        \* whether prompts_tx is held
    reply,       \* the reply channel of the question asked, if any
    cursor,      \* the session's cursor
    label,       \* the prompt on the terminal
    cache,       \* LineCompleter::cache
    offered,     \* the last question completed, and the values offered
    sink,        \* PagerSink::state, or "stdout"
    pager,       \* the pager's process
    parked,      \* whether SIGINT is parked (Interrupts)
    lost,        \* whether an answer went nowhere with no reader to leave it
    typed, ran   \* the lines entered, and the lines executed

terminal == <<sink, pager, parked, lost>>
channels == <<events, prompts, open, reply>>
completer == <<cache, offered>>
vars == <<session, editor, channels, cursor, label, completer, terminal, typed, ran>>

None == "none"
Asks == {"values", "members", "types"}

(* What the session answers: a field's values and the type names are the  *)
(* target's, member names depend on where the cursor stands.              *)
Answer(ask, c) == IF ask = "members" THEN <<ask, c>> ELSE <<ask>>

Event(kind, what) == [kind |-> kind, what |-> what]
Executing == {"line", "answering", "spawning", "leaving", "finishing"}
Reading == {"reading", "asking"}

----------------------------------------------------------------------------
(* The session's thread: interactive. *)

(* A slip: the label built once, before the first line. *)
MutSendPrompt ==
    /\ session = "prompting"
    /\ \/ editor = "dead" /\ session' = "closing" /\ UNCHANGED prompts
       \/ editor # "dead" /\ session' = "waiting" /\ prompts' = Append(prompts, Home)
    /\ UNCHANGED <<editor, events, open, reply, cursor, label, completer, terminal, typed, ran>>

(* The label, built from the cursor; an editor that has stopped ends it. *)
SendPrompt ==
    /\ session = "prompting"
    /\ \/ editor = "dead" /\ session' = "closing" /\ UNCHANGED prompts
       \/ editor # "dead" /\ session' = "waiting" /\ prompts' = Append(prompts, cursor)
    /\ UNCHANGED <<editor, events, open, reply, cursor, label, completer, terminal, typed, ran>>

Takes(kind) ==
    /\ session = "waiting" /\ events # <<>> /\ Head(events).kind = kind
    /\ events' = Tail(events)

(* A slip: no "continue" after the reply, so another prompt goes out. *)
MutAnswerAsk ==
    /\ Takes("ask")
    /\ reply' = <<Answer(Head(events).what, cursor)>>
    /\ session' = "prompting"
    /\ UNCHANGED <<editor, prompts, open, cursor, label, completer, terminal, typed, ran>>

(* The completer's question: replied to, and the editor left on its line. *)
AnswerAsk ==
    /\ Takes("ask")
    /\ reply' = <<Answer(Head(events).what, cursor)>>
    /\ UNCHANGED <<session, editor, prompts, open, cursor, label, completer, terminal, typed, ran>>

TakeLine ==
    /\ Takes("line")
    /\ session' = "line"
    /\ ran' = Append(ran, Head(events).what)
    /\ UNCHANGED <<editor, prompts, open, reply, cursor, label, completer, terminal, typed>>

(* A slip: an interrupt taken as a question is, with no prompt after it. *)
MutTakeInterrupt ==
    /\ Takes("interrupt")
    /\ UNCHANGED <<session, editor, prompts, open, reply, cursor, label, completer, terminal, typed, ran>>

TakeInterrupt ==
    /\ Takes("interrupt")
    /\ session' = "prompting"
    /\ UNCHANGED <<editor, prompts, open, reply, cursor, label, completer, terminal, typed, ran>>

(* End of input, or a terminal that failed. *)
TakeEnd ==
    /\ Takes("eof") \/ Takes("failed")
    /\ session' = "closing"
    /\ UNCHANGED <<editor, prompts, open, reply, cursor, label, completer, terminal, typed, ran>>

(* Every sender is gone: the editor's thread panicked. *)
Disconnected ==
    /\ session = "waiting" /\ events = <<>> /\ editor = "dead"
    /\ session' = "closing"
    /\ UNCHANGED <<editor, channels, cursor, label, completer, terminal, typed, ran>>

(* A slip: the editor joined while prompts_tx is still held. *)
MutDropPrompts ==
    /\ session = "closing" /\ open /\ editor \in {"ended", "dead"}
    /\ open' = FALSE
    /\ UNCHANGED <<session, editor, events, prompts, reply, cursor, label, completer, terminal, typed, ran>>

(* drop(prompts_tx), then join. *)
DropPrompts ==
    /\ session = "closing" /\ open
    /\ open' = FALSE
    /\ UNCHANGED <<session, editor, events, prompts, reply, cursor, label, completer, terminal, typed, ran>>

JoinEditor ==
    /\ session = "closing" /\ ~ open /\ editor \in {"ended", "dead"}
    /\ session' = "ended"
    /\ UNCHANGED <<editor, channels, cursor, label, completer, terminal, typed, ran>>

----------------------------------------------------------------------------
(* A line's commands, and the pager each answer goes through. *)

ExecuteOnly == UNCHANGED <<editor, channels, label, completer, typed, ran>>

(* A command's answer begins: paged, or to standard output or a pipeline. *)
BeginAnswer ==
    /\ session = "line"
    /\ session' = "answering"
    /\ sink' \in {"unstarted", "stdout"}
    /\ pager' = None
    /\ UNCHANGED <<cursor, parked, lost>> /\ ExecuteOnly

MoveCursor ==
    /\ session = "answering"
    /\ cursor' \in Cursors
    /\ UNCHANGED <<session, terminal>> /\ ExecuteOnly

(* A slip: the pager started before the interrupts are parked. *)
MutStart ==
    /\ session = "answering" /\ sink = "unstarted"
    /\ session' = "spawning"
    /\ UNCHANGED <<cursor, terminal>> /\ ExecuteOnly

(* The first byte: SIGINT is parked, then the pager started. *)
Start ==
    /\ session = "answering" /\ sink = "unstarted"
    /\ session' = "spawning"
    /\ parked' = TRUE
    /\ UNCHANGED <<cursor, sink, pager, lost>> /\ ExecuteOnly

Spawned ==
    /\ session = "spawning"
    /\ session' = "answering"
    /\ \/ /\ sink' = "running" /\ pager' = "running"
          /\ UNCHANGED <<parked, lost>>
       \/ /\ sink' = "gone" /\ parked' = FALSE
          /\ lost' = TRUE
          /\ UNCHANGED pager
    /\ UNCHANGED cursor /\ ExecuteOnly

(* A write the pager does not take: it is waited for, then gone. *)
WriteRefused ==
    /\ session = "answering" /\ sink = "running" /\ pager # "running"
    /\ session' = "leaving"
    /\ sink' = "gone"
    /\ UNCHANGED <<cursor, pager, parked, lost>> /\ ExecuteOnly

PagerGone ==
    /\ session = "leaving" /\ pager = "exited"
    /\ session' = "answering"
    /\ parked' = FALSE
    /\ UNCHANGED <<cursor, sink, pager, lost>> /\ ExecuteOnly

(* A slip: an answer that failed returns without waiting for the pager. *)
MutFinishAnswer ==
    /\ session = "answering"
    /\ session' \in IF sink = "running" THEN {"finishing", "line"} ELSE {"line"}
    /\ UNCHANGED <<cursor, terminal>> /\ ExecuteOnly

(* The answer ended, or failed: finish closes the pager's input. *)
FinishAnswer ==
    /\ session = "answering"
    /\ session' = IF sink = "running" THEN "finishing" ELSE "line"
    /\ UNCHANGED <<cursor, terminal>> /\ ExecuteOnly

PagerFinished ==
    /\ session = "finishing" /\ pager = "exited"
    /\ session' = "line"
    /\ parked' = FALSE
    /\ UNCHANGED <<cursor, sink, pager, lost>> /\ ExecuteOnly

(* The line is answered, failed, or quit. *)
EndLine ==
    /\ session = "line"
    /\ session' \in {"prompting", "closing"}
    /\ UNCHANGED <<cursor, terminal>> /\ ExecuteOnly

SessionStep ==
    \/ SendPrompt \/ AnswerAsk \/ TakeLine \/ TakeInterrupt \/ TakeEnd
    \/ Disconnected \/ DropPrompts \/ JoinEditor
    \/ BeginAnswer \/ MoveCursor \/ Start \/ Spawned \/ WriteRefused
    \/ PagerGone \/ FinishAnswer \/ PagerFinished \/ EndLine

----------------------------------------------------------------------------
(* The editor's thread: edit_loop. *)

EditorOnly == UNCHANGED <<session, open, cursor, terminal, ran>>

TakePrompt ==
    /\ editor = "waiting" /\ prompts # <<>>
    /\ editor' = "reading"
    /\ label' = Head(prompts)
    /\ prompts' = Tail(prompts)
    /\ UNCHANGED <<events, reply, completer, typed>> /\ EditorOnly

NoMorePrompts ==
    /\ editor = "waiting" /\ prompts = <<>> /\ ~ open
    /\ editor' = "ended"
    /\ UNCHANGED <<events, prompts, reply, label, completer, typed>> /\ EditorOnly

(* read_line returned: a line, ^C, ^D, or an error. *)
Sends(kind, what) ==
    /\ editor = "reading"
    /\ editor' = "waiting"
    /\ events' = Append(events, Event(kind, what))
    /\ UNCHANGED <<prompts, reply, label, completer>> /\ EditorOnly

TypeLine ==
    /\ Len(typed) < MaxLines
    /\ typed' = Append(typed, Len(typed) + 1)
    /\ Sends("line", Len(typed) + 1)

Signal ==
    /\ \/ Sends("interrupt", None) \/ Sends("eof", None) \/ Sends("failed", None)
    /\ UNCHANGED typed

(* LineCompleter::answer: from the cache, or asked of the session. *)
CompleteCached(ask) ==
    /\ editor = "reading" /\ ask \in DOMAIN cache
    /\ offered' = <<ask, cache[ask]>>
    /\ UNCHANGED <<editor, events, prompts, reply, label, cache, typed>> /\ EditorOnly

CompleteAsk(ask) ==
    /\ editor = "reading" /\ ask \notin DOMAIN cache
    /\ editor' = "asking"
    /\ events' = Append(events, Event("ask", ask))
    /\ offered' = <<ask>>
    /\ UNCHANGED <<prompts, reply, label, cache, typed>> /\ EditorOnly

(* A slip: member names kept as the target's values are. *)
MutKept(ask) == TRUE

Kept(ask) == ask # "members"

CompleteReply ==
    /\ editor = "asking" /\ reply # <<>>
    /\ editor' = "reading"
    /\ reply' = <<>>
    /\ LET ask == offered[1]
       IN /\ offered' = <<ask, Head(reply)>>
          /\ cache' = IF Kept(ask)
                      THEN [a \in DOMAIN cache \cup {ask} |->
                              IF a = ask THEN Head(reply) ELSE cache[a]]
                      ELSE cache
    /\ UNCHANGED <<events, prompts, label, typed>> /\ EditorOnly

(* The editor panics, building itself or reading: its channels close. *)
EditorPanics ==
    /\ editor \in {"starting", "reading"}
    /\ editor' = "dead"
    /\ UNCHANGED <<events, prompts, reply, label, completer, typed>> /\ EditorOnly

EditorStarts ==
    /\ editor = "starting"
    /\ editor' = "waiting"
    /\ UNCHANGED <<events, prompts, reply, label, completer, typed>> /\ EditorOnly

EditorStep ==
    \/ EditorStarts \/ TakePrompt \/ NoMorePrompts \/ CompleteReply

UserStep ==
    \/ TypeLine \/ Signal \/ EditorPanics
    \/ \E ask \in Asks : CompleteCached(ask) \/ CompleteAsk(ask)

----------------------------------------------------------------------------
(* The pager's process and the terminal's user. *)

PagerOnly ==
    UNCHANGED <<editor, channels, cursor, label, completer, sink, parked, lost, typed, ran>>

(* The pager stops reading, and exits when it is quit. *)
PagerStops ==
    /\ pager = "running"
    /\ pager' = "deaf"
    /\ UNCHANGED session /\ PagerOnly

PagerExits ==
    /\ pager \in {"running", "deaf"}
    /\ pager' = "exited"
    /\ UNCHANGED session /\ PagerOnly

(* ^C reaches the whole foreground group: where SIGINT is not parked and  *)
(* the editor does not hold the terminal, it ends the session.            *)
InterruptKills ==
    /\ editor \notin Reading /\ ~ parked
    /\ session' = "killed"
    /\ UNCHANGED pager /\ PagerOnly

Init ==
    /\ session = "prompting" /\ editor = "starting"
    /\ events = <<>> /\ prompts = <<>> /\ open = TRUE /\ reply = <<>>
    /\ cursor = Home /\ label = Home
    /\ cache = <<>> /\ offered = <<>>
    /\ sink = "stdout" /\ pager = None /\ parked = FALSE /\ lost = FALSE
    /\ typed = <<>> /\ ran = <<>>

(* A killed session takes its editor's thread with it. *)
Alive == session \notin {"killed", "ended"}

Next ==
    \/ Alive /\ (SessionStep \/ EditorStep \/ UserStep \/ InterruptKills)
    \/ PagerStops \/ PagerExits

(* Both threads run when they can; the user need not type, and a pager    *)
(* need not be quit.                                                      *)
Spec ==
    /\ Init /\ [][Next]_vars
    /\ WF_vars(Alive /\ SessionStep) /\ WF_vars(Alive /\ EditorStep)

----------------------------------------------------------------------------
(* Properties. *)

(* Types. *)
TypeOK ==
    /\ session \in Executing \cup {"prompting", "waiting", "closing", "ended", "killed"}
    /\ editor \in Reading \cup {"starting", "waiting", "ended", "dead"}
    /\ Len(events) <= 1 /\ Len(prompts) <= 1 /\ Len(reply) <= 1
    /\ cursor \in Cursors /\ label \in Cursors
    /\ DOMAIN cache \subseteq Asks
    /\ sink \in {"stdout", "unstarted", "running", "gone"}
    /\ pager \in {None, "running", "deaf", "exited"}
    /\ parked \in BOOLEAN /\ lost \in BOOLEAN

(* The terminal has one reader: while the editor reads a line the session *)
(* runs no command, and no pager it started is still there.               *)
OneReader ==
    editor \in Reading /\ Alive =>
        session = "waiting" /\ pager \in {None, "exited"}

(* The prompt on the terminal is the cursor's account of where the        *)
(* session stands, although a label was sent before the line was read and *)
(* questions were answered since.                                         *)
LabelIsCurrent == editor \in Reading /\ Alive => label = cursor

(* The two threads never wait for each other: with the session waiting    *)
(* for an event and the editor for a prompt or a reply, something is on   *)
(* its way.                                                               *)
SomethingIsOnItsWay ==
    session = "waiting" /\ editor \in {"waiting", "asking"} =>
        events # <<>> \/ prompts # <<>> \/ reply # <<>>

(* Lines run once each, in the order they were typed; at most the last is *)
(* still on its way.                                                      *)
LinesRunInOrder ==
    /\ Len(ran) <= Len(typed) /\ Len(typed) <= Len(ran) + 1
    /\ \A i \in DOMAIN ran : ran[i] = typed[i]

(* What the completer offers, from its cache or from the session, is what *)
(* the session would answer under the cursor the line is typed at.        *)
OffersAreFresh ==
    [][offered' # offered /\ Len(offered') = 2 =>
         offered'[2] = Answer(offered'[1], cursor)]_vars

(* An interrupt never ends the session under a pager that still holds the *)
(* terminal (pager.rs, Interrupts).                                       *)
NotKilledUnderThePager ==
    [][session' = "killed" /\ session # "killed" => pager \in {None, "exited"}]_vars

(* A session asked to end ends, whatever the user does: the editor's      *)
(* thread is not left waiting for a prompt that the session still holds   *)
(* the channel of.                                                        *)
Ends == (session = "closing") ~> ~ Alive

(* A completer that asked is answered, or its session is gone: a Tab      *)
(* never hangs behind a command or a pager.                               *)
QuestionsAreAnswered == (editor = "asking") ~> (editor = "reading" \/ ~ Alive)

(* Neither thread hangs on the other, at the end or under a Tab. *)
NobodyHangs == Ends /\ QuestionsAreAnswered

(* "The answer still prints" where the pager cannot be started. *)
AnswerStillPrints == ~ lost

=============================================================================
