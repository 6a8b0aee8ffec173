---------------------------- MODULE PromptProofs ----------------------------
(***************************************************************************)
(* Why the prompt's two threads share one terminal safely: proofs, for    *)
(* any cursors and any number of lines, that the turn passes between them *)
(* and is never held twice or dropped, and that SIGINT is parked for as   *)
(* long as a pager runs.                                                  *)
(***************************************************************************)
EXTENDS Prompt, TLAPS

----------------------------------------------------------------------------
(* Whose turn it is, and what is in the channels then. *)

Quiet == events = <<>> /\ reply = <<>>
NotReading == editor \in {"starting", "waiting", "dead"}

Prompted == session = "waiting" /\ NotReading /\ prompts = <<cursor>> /\ Quiet

AtTheLine ==
    /\ session = "waiting" /\ editor = "reading" /\ prompts = <<>> /\ Quiet
    /\ label = cursor

(* A question on its way to the session, and the session's reply. *)
Asking(ask) ==
    /\ session = "waiting" /\ editor = "asking" /\ prompts = <<>>
    /\ label = cursor
    /\ offered = <<ask>>
    /\ \/ events = <<Event("ask", ask)>> /\ reply = <<>>
       \/ events = <<>> /\ reply = <<Answer(ask, cursor)>>

(* What read_line returned, on its way to the session. *)
Entered(kind, what) ==
    /\ session = "waiting" /\ editor = "waiting" /\ prompts = <<>>
    /\ reply = <<>>
    /\ events = <<Event(kind, what)>>

EditorLost == session = "waiting" /\ editor = "dead" /\ Quiet

Busy == session \in Executing \cup {"prompting"} /\ NotReading /\ prompts = <<>> /\ Quiet

Closing ==
    /\ session = "closing" /\ editor \in {"starting", "waiting", "dead", "ended"}
    /\ prompts = <<>> \/ editor = "dead"
    /\ Quiet

EntryKinds == {"line", "interrupt", "eof", "failed"}

Somewhere ==
    \/ Prompted \/ AtTheLine \/ EditorLost \/ Busy \/ Closing \/ ~ Alive
    \/ \E ask \in Asks : Asking(ask)
    \/ \E kind \in EntryKinds : \E what : Entered(kind, what)

(* The turn is in one place; the prompt channel is held until the end. *)
Turn ==
    /\ session # "closing" /\ Alive => open
    /\ Somewhere

----------------------------------------------------------------------------
(* The pager's process, against the state of the sink that started it. *)

Live == pager \in {"running", "deaf"}

PagerInv ==
    /\ pager \in {None, "running", "deaf", "exited"}
    /\ Live => parked
    /\ Alive /\ Live => session \in {"answering", "leaving", "finishing"}
    /\ session = "answering" /\ sink # "running" => ~ Live
    /\ session = "spawning" => parked

(* What the completer keeps is no cursor's. *)
CacheInv ==
    /\ DOMAIN cache \subseteq {"values", "types"}
    /\ \A a \in DOMAIN cache : cache[a] = <<a>>

(* Lines are numbered as they are typed; the one on its way is the last    *)
(* typed and the next to run, and with none on its way all have run.       *)
OnItsWay == events # <<>> /\ Head(events).kind = "line"

Numbered ==
    /\ typed \in Seq(Nat) /\ \A i \in 1..Len(typed) : typed[i] = i
    /\ ran \in Seq(Nat) /\ \A i \in 1..Len(ran) : ran[i] = i

LinesInv ==
    /\ Numbered
    /\ Len(ran) <= Len(typed) /\ Len(typed) <= Len(ran) + 1
    /\ (Alive /\ OnItsWay) => Head(events).what = Len(ran) + 1 /\ Len(typed) = Len(ran) + 1
    /\ (Alive /\ ~OnItsWay) => Len(typed) = Len(ran)

PromptInv == Turn /\ PagerInv /\ CacheInv /\ LinesInv

----------------------------------------------------------------------------
(* Sequences of one element, which is all a channel ever holds. *)
LEMMA OneElement ==
    \A x : /\ Head(<<x>>) = x
          /\ Tail(<<x>>) = <<>>
          /\ Append(<<>>, x) = <<x>>
          /\ <<x>> # <<>>
  OBVIOUS

(* Every step of either thread, the user or the pager passes the turn on  *)
(* or keeps it.                                                           *)
LEMMA TurnStep == Turn /\ [Next]_vars => Turn'
<1> SUFFICES ASSUME Turn, [Next]_vars PROVE Turn'
  OBVIOUS
<1> USE DEF Turn, Somewhere, Prompted, AtTheLine, Asking, Entered, EditorLost, Busy, Closing,
            EntryKinds, Quiet, NotReading, Alive, Executing, Event, Asks, channels
<1>1. CASE SendPrompt
  BY <1>1 DEF SendPrompt
<1>2. CASE AnswerAsk
  <2>1. PICK ask \in Asks : Asking(ask) /\ events = <<Event("ask", ask)>>
    BY <1>2 DEF AnswerAsk, Takes
  <2>2. Asking(ask)'
    BY <1>2, <2>1 DEF AnswerAsk, Takes, Answer, completer
  <2> QED
    BY <1>2, <2>2 DEF AnswerAsk
<1>3. CASE TakeLine
  <2>1. PICK kind \in EntryKinds : \E what : Entered(kind, what)
    BY <1>3 DEF TakeLine, Takes
  <2>2. Busy'
    BY <1>3, <2>1 DEF TakeLine, Takes
  <2> QED
    BY <1>3, <2>2 DEF TakeLine, Takes
<1>4. CASE TakeInterrupt
  <2>1. PICK kind \in EntryKinds : \E what : Entered(kind, what)
    BY <1>4 DEF TakeInterrupt, Takes
  <2>2. Busy'
    BY <1>4, <2>1 DEF TakeInterrupt, Takes
  <2> QED
    BY <1>4, <2>2 DEF TakeInterrupt, Takes
<1>5. CASE TakeEnd
  BY <1>5 DEF TakeEnd, Takes
<1>6. CASE Disconnected
  BY <1>6 DEF Disconnected
<1>7. CASE DropPrompts \/ JoinEditor
  BY <1>7 DEF DropPrompts, JoinEditor
<1>8. CASE BeginAnswer \/ MoveCursor \/ Start \/ Spawned
  BY <1>8 DEF BeginAnswer, MoveCursor, Start, Spawned, ExecuteOnly
<1>9. CASE WriteRefused \/ PagerGone \/ FinishAnswer \/ PagerFinished \/ EndLine
  BY <1>9 DEF WriteRefused, PagerGone, FinishAnswer, PagerFinished, EndLine, ExecuteOnly
<1>10. CASE EditorStarts
  <2>1. Prompted' \/ Busy' \/ Closing' \/ ~ Alive'
    BY <1>10 DEF EditorStarts, EditorOnly
  <2> QED
    BY <1>10, <2>1 DEF EditorStarts, EditorOnly
<1>11. CASE NoMorePrompts
  BY <1>11 DEF NoMorePrompts, EditorOnly
<1>12. CASE EditorPanics
  <2>1. Prompted' \/ EditorLost' \/ Busy' \/ Closing' \/ ~ Alive'
    BY <1>12 DEF EditorPanics, EditorOnly
  <2> QED
    BY <1>12, <2>1 DEF EditorPanics, EditorOnly
<1>13. CASE TakePrompt
  <2>1. Prompted \/ ~ Alive
    BY <1>13 DEF TakePrompt
  <2>2. CASE Prompted
    <3>1. label' = cursor /\ prompts' = <<>> /\ cursor' = cursor
      BY <1>13, <2>2, OneElement DEF TakePrompt, EditorOnly
    <3>2. AtTheLine'
      BY <1>13, <2>2, <3>1 DEF TakePrompt, EditorOnly
    <3> QED
      BY <1>13, <3>2 DEF TakePrompt, EditorOnly
  <2>3. CASE ~ Alive
    BY <1>13, <2>3 DEF TakePrompt, EditorOnly
  <2> QED
    BY <2>1, <2>2, <2>3
<1>14. CASE CompleteReply
  BY <1>14 DEF CompleteReply, EditorOnly
<1>15. ASSUME NEW kind \in EntryKinds, NEW what, Sends(kind, what)
       PROVE  Turn'
  <2>1. AtTheLine \/ ~ Alive
    BY <1>15 DEF Sends
  <2>2. CASE AtTheLine
    <3>1. events' = <<Event(kind, what)>>
      BY <1>15, <2>2, OneElement DEF Sends
    <3>2. Entered(kind, what)'
      BY <1>15, <2>2, <3>1 DEF Sends, EditorOnly
    <3> QED
      BY <1>15, <3>2 DEF Sends, EditorOnly
  <2>3. CASE ~ Alive
    BY <1>15, <2>3 DEF Sends, EditorOnly
  <2> QED
    BY <2>1, <2>2, <2>3
<1>16. CASE TypeLine \/ Signal
  <2>1. \E kind \in EntryKinds : \E what : Sends(kind, what)
    BY <1>16 DEF TypeLine, Signal
  <2> QED
    BY <1>15, <2>1
<1>17. CASE \E ask \in Asks : CompleteCached(ask)
  BY <1>17 DEF CompleteCached, EditorOnly
<1>18. CASE \E ask \in Asks : CompleteAsk(ask)
  <2>1. PICK ask \in Asks : CompleteAsk(ask)
    BY <1>18
  <2>2. AtTheLine \/ ~ Alive
    BY <2>1 DEF CompleteAsk
  <2>3. CASE AtTheLine
    <3>1. events' = <<Event("ask", ask)>> /\ offered' = <<ask>>
      BY <2>1, <2>3, OneElement DEF CompleteAsk
    <3>2. Asking(ask)'
      BY <2>1, <2>3, <3>1 DEF CompleteAsk, EditorOnly
    <3> QED
      BY <2>1, <3>2 DEF CompleteAsk, EditorOnly
  <2>4. CASE ~ Alive
    BY <2>1, <2>4 DEF CompleteAsk, EditorOnly
  <2> QED
    BY <2>2, <2>3, <2>4
<1>19. CASE InterruptKills \/ PagerStops \/ PagerExits
  BY <1>19 DEF InterruptKills, PagerStops, PagerExits, PagerOnly, completer
<1>20. CASE UNCHANGED vars
  BY <1>20 DEF vars, completer
<1> QED
  BY <1>1, <1>2, <1>3, <1>4, <1>5, <1>6, <1>7, <1>8, <1>9, <1>10, <1>11, <1>12,
     <1>13, <1>14, <1>16, <1>17, <1>18, <1>19, <1>20
     DEF Next, SessionStep, EditorStep, UserStep

(* The first prompt is the session's to send. *)
LEMMA TurnInit == Init => Turn
  BY DEF Init, Turn, Somewhere, Busy, Quiet, NotReading, Executing, Alive

(* A pager runs only while the session waits to be done with it, and with *)
(* SIGINT parked.                                                         *)
LEMMA PagerStep == PagerInv /\ [Next]_vars => PagerInv'
<1> SUFFICES ASSUME PagerInv, [Next]_vars PROVE PagerInv'
  OBVIOUS
<1> USE DEF PagerInv, Live, Alive, terminal, None
<1>1. CASE SendPrompt \/ AnswerAsk \/ TakeLine \/ TakeInterrupt \/ TakeEnd
  BY <1>1 DEF SendPrompt, AnswerAsk, TakeLine, TakeInterrupt, TakeEnd, Takes
<1>2. CASE Disconnected \/ DropPrompts \/ JoinEditor
  BY <1>2 DEF Disconnected, DropPrompts, JoinEditor
<1>3. CASE BeginAnswer \/ MoveCursor \/ Start \/ Spawned
  BY <1>3 DEF BeginAnswer, MoveCursor, Start, Spawned
<1>4. CASE WriteRefused \/ PagerGone \/ FinishAnswer \/ PagerFinished \/ EndLine
  BY <1>4 DEF WriteRefused, PagerGone, FinishAnswer, PagerFinished, EndLine
<1>5. CASE EditorStep \/ UserStep
  BY <1>5 DEF EditorStep, UserStep, EditorStarts, TakePrompt, NoMorePrompts, CompleteReply,
              TypeLine, Signal, Sends, EditorPanics, CompleteCached, CompleteAsk, EditorOnly
<1>6. CASE InterruptKills \/ PagerStops \/ PagerExits
  BY <1>6 DEF InterruptKills, PagerStops, PagerExits, PagerOnly
<1>7. CASE UNCHANGED vars
  BY <1>7 DEF vars
<1> QED
  BY <1>1, <1>2, <1>3, <1>4, <1>5, <1>6, <1>7 DEF Next, SessionStep

(* What the completer keeps never depends on the cursor. *)
LEMMA CacheStep == Turn /\ CacheInv /\ [Next]_vars => CacheInv'
<1> SUFFICES ASSUME Turn, CacheInv, [Next]_vars PROVE CacheInv'
  OBVIOUS
<1>1. CASE Alive /\ CompleteReply
  <2>1. PICK ask \in Asks : offered = <<ask>> /\ reply = <<Answer(ask, cursor)>>
    BY <1>1 DEF CompleteReply, Turn, Somewhere, Prompted, AtTheLine, Asking, Entered, EditorLost,
                Busy, Closing, Quiet, NotReading, Alive, Event
  <2>2. offered[1] = ask /\ Head(reply) = Answer(ask, cursor)
    BY <2>1, OneElement
  <2>3. CASE ask = "members"
    BY <1>1, <2>2, <2>3 DEF CompleteReply, Kept, CacheInv
  <2>4. CASE ask # "members"
    BY <1>1, <2>1, <2>2, <2>4 DEF CompleteReply, Kept, CacheInv, Asks, Answer
  <2> QED
    BY <2>3, <2>4
<1>2. CASE UNCHANGED cache
  BY <1>2 DEF CacheInv
<1>3. (Alive /\ CompleteReply) \/ UNCHANGED cache
  BY DEF Next, SessionStep, EditorStep, UserStep, SendPrompt, AnswerAsk, TakeLine, TakeInterrupt,
         TakeEnd, Takes, Disconnected, DropPrompts, JoinEditor, BeginAnswer, MoveCursor, Start,
         Spawned, WriteRefused, PagerGone, FinishAnswer, PagerFinished, EndLine, ExecuteOnly,
         EditorStarts, TakePrompt, NoMorePrompts, TypeLine, Signal, Sends, EditorPanics,
         CompleteCached, CompleteAsk, EditorOnly, InterruptKills, PagerStops, PagerExits,
         PagerOnly, completer, vars
<1> QED
  BY <1>1, <1>2, <1>3

(* One more line, at the end of those numbered so far. *)
LEMMA OneMore ==
    ASSUME NEW s \in Seq(Nat), \A i \in 1..Len(s) : s[i] = i
    PROVE  /\ Append(s, Len(s) + 1) \in Seq(Nat) /\ Len(Append(s, Len(s) + 1)) = Len(s) + 1
           /\ \A i \in 1..(Len(s) + 1) : Append(s, Len(s) + 1)[i] = i
<1>1. Len(s) \in Nat /\ Len(s) + 1 \in Nat
  OBVIOUS
<1>2. \A i \in 1..(Len(s) + 1) : Append(s, Len(s) + 1)[i] = IF i <= Len(s) THEN s[i] ELSE Len(s) + 1
  BY <1>1
<1> QED BY <1>1, <1>2

(* A channel the session reads holds one event at most. *)
LEMMA OneEvent ==
    ASSUME Turn, Alive
    PROVE  /\ editor = "reading" => events = <<>>
           /\ events = <<>> \/ \E e : events = <<e>>
BY DEF Turn, Somewhere, Prompted, AtTheLine, Asking, Entered, EditorLost, Busy, Closing, Quiet,
       NotReading

(* A line is typed, a line is taken, or none is touched. *)
LEMMA LinesStep == Turn /\ LinesInv /\ [Next]_vars => LinesInv'
<1> SUFFICES ASSUME Turn, LinesInv, [Next]_vars PROVE LinesInv'
  OBVIOUS
<1>0. /\ typed \in Seq(Nat) /\ ran \in Seq(Nat) /\ Len(typed) \in Nat /\ Len(ran) \in Nat
      /\ Numbered
  BY DEF LinesInv, Numbered
<1>1. CASE Alive /\ TypeLine
  <2>1. events = <<>>
    BY <1>1, OneEvent DEF TypeLine, Sends
  <2>2. events' = <<Event("line", Len(typed) + 1)>> /\ typed' = Append(typed, Len(typed) + 1)
    BY <1>1, <2>1, OneElement DEF TypeLine, Sends
  <2>3. ran' = ran /\ session' = session
    BY <1>1 DEF TypeLine, Sends, EditorOnly
  <2>4. Len(typed) = Len(ran)
    BY <1>1, <2>1 DEF LinesInv, OnItsWay
  <2>5. Len(typed') = Len(typed) + 1 /\ Numbered'
    BY <1>0, <2>2, <2>3, OneMore DEF Numbered
  <2>6. OnItsWay' /\ Head(events').what = Len(typed) + 1
    BY <2>2, OneElement DEF OnItsWay, Event
  <2> QED BY <1>0, <2>3, <2>4, <2>5, <2>6 DEF LinesInv
<1>2. CASE Alive /\ TakeLine
  <2>1. OnItsWay /\ ran' = Append(ran, Head(events).what) /\ events' = Tail(events)
    BY <1>2 DEF TakeLine, Takes, OnItsWay
  <2>2. typed' = typed /\ Head(events).what = Len(ran) + 1 /\ Len(typed) = Len(ran) + 1
    BY <1>2, <2>1 DEF TakeLine, LinesInv
  <2>3. events' = <<>>
    BY <1>2, <2>1, OneEvent, OneElement DEF OnItsWay
  <2>4. Len(ran') = Len(ran) + 1 /\ Numbered'
    BY <1>0, <2>1, <2>2, OneMore DEF Numbered
  <2>5. ~OnItsWay'
    BY <2>3 DEF OnItsWay
  <2> QED BY <1>0, <2>2, <2>4, <2>5 DEF LinesInv
<1>3. CASE Alive /\ (AnswerAsk \/ TakeInterrupt \/ TakeEnd)
  <2>1. ~OnItsWay /\ events # <<>> /\ events' = Tail(events) /\ typed' = typed /\ ran' = ran
    BY <1>3 DEF AnswerAsk, TakeInterrupt, TakeEnd, Takes, OnItsWay
  <2>2. ~OnItsWay'
    BY <1>3, <2>1, OneEvent, OneElement DEF OnItsWay
  <2> QED BY <1>3, <2>1, <2>2 DEF LinesInv, Numbered
<1>4. CASE Alive /\ (Signal \/ \E ask \in Asks : CompleteAsk(ask))
  <2>1. PICK kind, what : kind # "line" /\ events' = Append(events, Event(kind, what))
    BY <1>4 DEF Signal, Sends, CompleteAsk
  <2>2. events = <<>>
    BY <1>4, OneEvent DEF Signal, Sends, CompleteAsk
  <2>3. ~OnItsWay /\ ~OnItsWay'
    BY <2>1, <2>2, OneElement DEF OnItsWay, Event
  <2>4. typed' = typed /\ ran' = ran
    BY <1>4 DEF Signal, Sends, CompleteAsk, EditorOnly
  <2> QED BY <1>4, <2>3, <2>4 DEF LinesInv, Numbered
<1>5. CASE typed' = typed /\ ran' = ran /\ events' = events /\ (Alive' => Alive)
  BY <1>5 DEF LinesInv, Numbered, OnItsWay
<1>6. ASSUME ~(Alive /\ (TypeLine \/ TakeLine \/ AnswerAsk \/ TakeInterrupt \/ TakeEnd \/ Signal)),
             ~(Alive /\ \E ask \in Asks : CompleteAsk(ask))
      PROVE  typed' = typed /\ ran' = ran /\ events' = events /\ (Alive' => Alive)
  BY <1>6 DEF Next, SessionStep, EditorStep, UserStep, SendPrompt, Disconnected, DropPrompts,
         JoinEditor, BeginAnswer, MoveCursor, Start, Spawned, WriteRefused, PagerGone,
         FinishAnswer, PagerFinished, EndLine, ExecuteOnly, EditorStarts, TakePrompt,
         NoMorePrompts, CompleteReply, EditorPanics, CompleteCached, EditorOnly, InterruptKills,
         PagerStops, PagerExits, PagerOnly, channels, vars, Alive
<1> QED
  BY <1>1, <1>2, <1>3, <1>4, <1>5, <1>6

(* The inductive invariant: whose turn it is, the pager, the cache and the *)
(* lines.                                                                  *)
THEOREM PromptHolds == Spec => []PromptInv
<1>1. Init => PromptInv
  <2>1. Init => PagerInv /\ CacheInv
    BY DEF Init, PagerInv, CacheInv, Live, None
  <2>2. Init => LinesInv
    BY DEF Init, LinesInv, Numbered, OnItsWay
  <2> QED BY <2>1, <2>2, TurnInit DEF PromptInv
<1>2. PromptInv /\ [Next]_vars => PromptInv'
  BY TurnStep, PagerStep, CacheStep, LinesStep DEF PromptInv
<1> QED
  BY <1>1, <1>2, PTL DEF Spec

(* The terminal has one reader, however questions, interrupts, failures   *)
(* and pagers interleave (interactive, edit_loop, PagerSink::finish).     *)
THEOREM TerminalHasOneReader == Spec => []OneReader
<1>1. PromptInv => OneReader
  <2> SUFFICES ASSUME PromptInv, editor \in Reading, Alive
               PROVE  session = "waiting" /\ pager \in {None, "exited"}
    BY DEF OneReader
  <2> QED
    BY DEF PromptInv, Turn, Somewhere, Prompted, AtTheLine, Asking, Entered, EditorLost, Busy,
           Closing, NotReading, Reading, PagerInv, Live
<1> QED
  BY <1>1, PromptHolds, PTL

(* The prompt on the terminal is the cursor's, for as long as the line is *)
(* being typed (interactive rebuilds it per line and not per question).   *)
THEOREM PromptIsCurrent == Spec => []LabelIsCurrent
<1>1. PromptInv => LabelIsCurrent
  BY DEF PromptInv, Turn, Somewhere, Prompted, AtTheLine, Asking, Entered, EditorLost, Busy,
         Closing, NotReading, Reading, LabelIsCurrent
<1> QED
  BY <1>1, PromptHolds, PTL

(* The two threads never wait for each other with nothing on its way. *)
THEOREM NoMutualWait == Spec => []SomethingIsOnItsWay
<1>1. PromptInv => SomethingIsOnItsWay
  BY OneElement DEF PromptInv, Turn, Somewhere, Prompted, AtTheLine, Asking, Entered, EditorLost,
         Busy, Closing, NotReading, Alive, Executing, SomethingIsOnItsWay
<1> QED
  BY <1>1, PromptHolds, PTL

(* A line typed is run once, and before the next, whatever questions,      *)
(* interrupts and failures come between (edit_loop, interactive).          *)
THEOREM LinesRunOnce == Spec => []LinesRunInOrder
<1>1. PromptInv => LinesRunInOrder
  <2> SUFFICES ASSUME PromptInv PROVE LinesRunInOrder
    OBVIOUS
  <2>1. /\ Numbered /\ Len(ran) <= Len(typed) /\ Len(typed) <= Len(ran) + 1
    BY DEF PromptInv, LinesInv
  <2>2. \A i \in DOMAIN ran : i \in 1..Len(ran) /\ i \in 1..Len(typed)
    BY <2>1 DEF Numbered
  <2> QED BY <2>1, <2>2 DEF Numbered, LinesRunInOrder
<1> QED
  BY <1>1, PromptHolds, PTL

(* An interrupt never ends the session under a live pager: SIGINT is      *)
(* parked before the pager starts and until it has been waited for.       *)
THEOREM InterruptsSpareThePager == Spec => NotKilledUnderThePager
<1>1. PromptInv /\ [Next]_vars =>
        (session' = "killed" /\ session # "killed" => pager \in {None, "exited"})
  <2> SUFFICES ASSUME PromptInv, [Next]_vars, session' = "killed", session # "killed"
               PROVE  pager \in {None, "exited"}
    OBVIOUS
  <2>1. InterruptKills
    BY DEF Next, SessionStep, EditorStep, UserStep, SendPrompt, AnswerAsk, TakeLine,
           TakeInterrupt, TakeEnd, Takes, Disconnected, DropPrompts, JoinEditor, BeginAnswer,
           MoveCursor, Start, Spawned, WriteRefused, PagerGone, FinishAnswer, PagerFinished,
           EndLine, ExecuteOnly, EditorStarts, TakePrompt, NoMorePrompts, CompleteReply,
           TypeLine, Signal, Sends, EditorPanics, CompleteCached, CompleteAsk, EditorOnly,
           PagerStops, PagerExits, vars
  <2> QED
    BY <2>1 DEF InterruptKills, PromptInv, PagerInv, Live
<1> QED
  BY <1>1, PromptHolds, PTL DEF Spec, NotKilledUnderThePager

(* A completion offered is what the session would answer at this cursor,  *)
(* from the cache or not (LineCompleter::answer).                         *)
THEOREM CompletionsAreFresh == Spec => OffersAreFresh
<1>1. PromptInv /\ [Next]_vars =>
        (offered' # offered /\ Len(offered') = 2 =>
           offered'[2] = Answer(offered'[1], cursor))
  <2> SUFFICES ASSUME PromptInv, [Next]_vars, offered' # offered, Len(offered') = 2
               PROVE  offered'[2] = Answer(offered'[1], cursor)
    OBVIOUS
  <2>1. \/ Alive /\ CompleteReply
        \/ \E ask \in Asks : CompleteCached(ask) \/ CompleteAsk(ask)
    BY DEF Next, SessionStep, EditorStep, UserStep, SendPrompt, AnswerAsk, TakeLine,
           TakeInterrupt, TakeEnd, Takes, Disconnected, DropPrompts, JoinEditor, BeginAnswer,
           MoveCursor, Start, Spawned, WriteRefused, PagerGone, FinishAnswer, PagerFinished,
           EndLine, ExecuteOnly, EditorStarts, TakePrompt, NoMorePrompts, TypeLine, Signal,
           Sends, EditorPanics, EditorOnly, InterruptKills, PagerStops, PagerExits, PagerOnly,
           completer, vars
  <2>2. CASE Alive /\ CompleteReply
    <3>1. PICK ask \in Asks : offered = <<ask>> /\ reply = <<Answer(ask, cursor)>>
      BY <2>2 DEF CompleteReply, PromptInv, Turn, Somewhere, Prompted, AtTheLine, Asking,
                  Entered, EditorLost, Busy, Closing, Quiet, NotReading, Alive, Event
    <3>2. offered' = <<ask, Answer(ask, cursor)>>
      BY <2>2, <3>1, OneElement DEF CompleteReply
    <3> QED
      BY <3>2
  <2>3. ASSUME NEW ask \in Asks, CompleteCached(ask)
        PROVE  offered'[2] = Answer(offered'[1], cursor)
    BY <2>3 DEF CompleteCached, PromptInv, CacheInv, Answer
  <2>4. ASSUME NEW ask \in Asks, CompleteAsk(ask)
        PROVE  FALSE
    BY <2>4 DEF CompleteAsk
  <2> QED
    BY <2>1, <2>2, <2>3, <2>4
<1> QED
  BY <1>1, PromptHolds, PTL DEF Spec, OffersAreFresh

=============================================================================
