--------------------------- MODULE SessionCursor ---------------------------
(***************************************************************************)
(* The session's cursor, and how a line of commands moves it: selectors   *)
(* (task, future, thread) and frame moves (frame, up, down) move it for   *)
(* good; a scoped prefix ("task 129 trace") and the listings' "--exec"    *)
(* loops move it for the commands they run and put it back.  "$_" is the  *)
(* current frame's address, read into a command when the command runs.    *)
(*                                                                        *)
(* The target is constant: its tasks, the futures the census found, its   *)
(* threads, and the await chain of each.  Commands nest (a frame move     *)
(* carries a command, a loop runs one per row), so what the session is in *)
(* the middle of is a stack, and each action is one call's work or one    *)
(* return through the stack.                                              *)
(***************************************************************************)
EXTENDS Naturals, Sequences, FiniteSets

CONSTANTS
    Addrs,         \* addresses of the target
    Tasks,         \* the tasks listed
    IdLess,        \* the tasks the target records no id for
    Header,        \* a task's header address
    TaskAt,        \* the task whose allocation holds an address
    TaskChain,     \* a task's await chain, root first; empty: no stage
    Claims,        \* the chain frame of a task that claims an address
    Finds,         \* the census's futures: held ones and set children
    Children,      \* the finds that are children of a set
    FindAddr,      \* the address a find is listed under
    FindOwner,     \* the task that holds or drives a find
    FindChain,     \* a find's await chain, root first; empty: unreadable
    FutureAt,      \* the find an address resolves to
    Lwps,          \* the target's threads
    StackPointer,  \* a thread's stack pointer
    Polling,       \* the thread mid-poll on a task
    OutputMayFail, \* whether writes of an answer can fail
    Lines          \* the lines of commands considered

CONSTANTS
    None,          \* nothing
    Last           \* the word "$_"

(* A command: the operation, its argument, and the command it carries.    *)
(* "scoped" is a prefix: the selector "by" with its argument.             *)
Selectors == {"task", "future", "thread"}
Moves == {"frame", "up", "down"}
Loops == {"tasks", "futures", "threads"}
Ops == Selectors \cup Moves \cup Loops \cup {"whatis", "history", "quit", "scoped"}

Roots == ({"task"} \X Tasks) \cup ({"future"} \X Addrs) \cup {None}
Cursor == [lwp : Lwps \cup {None}, root : Roots, future : Finds \cup {None},
           frame : Nat, last : Addrs \cup {None}]

(* The commands the lines are made of. *)
Commands == UNION {{l[i] : i \in DOMAIN l} : l \in Lines}

ASSUME SessionAssumption ==
    /\ IsFiniteSet(Tasks) /\ IsFiniteSet(Finds) /\ IsFiniteSet(Lwps)
    /\ IdLess \subseteq Tasks
    /\ Header \in [Tasks -> Addrs]
    /\ TaskAt \in [Addrs -> Tasks \cup {None}]
    /\ \A t \in Tasks : TaskAt[Header[t]] = t
    /\ TaskChain \in [Tasks -> Seq(Addrs)]
    /\ \A t \in Tasks, a \in Addrs : Claims[t][a] \in 0 .. Len(TaskChain[t])
    /\ Children \subseteq Finds
    /\ FindAddr \in [Finds -> Addrs]
    /\ FindOwner \in [Finds -> Tasks]
    /\ FindChain \in [Finds -> Seq(Addrs)]
    /\ FutureAt \in [Addrs -> Finds \cup {None}]
    /\ \A f \in Finds, t \in Tasks : FindAddr[f] # Header[t]
    /\ \A f \in Finds : TaskAt[FindAddr[f]] \in {FindOwner[f], None}
    /\ StackPointer \in [Lwps -> Addrs]
    /\ Polling \in [Tasks -> Lwps \cup {None}]
    /\ OutputMayFail \in BOOLEAN
    /\ None \notin (Addrs \cup Tasks \cup Finds \cup Lwps)
    /\ \A t \in Tasks : None # <<"task", t>>
    /\ \A a \in Addrs : None # <<"future", a>>
    /\ Last \notin Addrs
    /\ Lines \subseteq Seq(Commands)
    /\ \A cmd \in Commands : /\ cmd.op \in Ops
                             /\ cmd.op = "scoped" => cmd.by \in Selectors

VARIABLES
    cursor,    \* Session::cursor
    rest,      \* the line's commands still to run
    stack,     \* what the session is in the middle of, innermost first
    result,    \* what the call that just returned answered, or "running"
    home,      \* the cursor as commands outside every scope and loop left it
    asked,     \* the last question answered, and what it was about
    output,    \* whether the answer's reader has left
    phase      \* "prompt", "line", "ended", "panicked"

(* home and asked are history: nothing in the code reads them.*)
history == <<home, asked>>
vars == <<cursor, rest, stack, result, history, output, phase>>

----------------------------------------------------------------------------
(* The target as the cursor's commands read it. *)

TaskRooted(a) == TaskAt[a] # None /\ Header[TaskAt[a]] = a

(* A plausible slip: the root's address resolved again. *)
MutRootFuture(c) == FutureAt[c.root[2]]

(* The census future a Future root stands for: the pinned one, where it   *)
(* was selected at that address, else what the address resolves to.       *)
RootFuture(c) ==
    IF c.future # None /\ FindAddr[c.future] = c.root[2] THEN c.future
    ELSE FutureAt[c.root[2]]

(* The chain a cursor's root resolves to; empty where there is none. *)
ChainOf(c) ==
    IF c.root[1] = "task" THEN TaskChain[c.root[2]]
    ELSE IF TaskRooted(c.root[2]) THEN TaskChain[TaskAt[c.root[2]]]
    ELSE IF RootFuture(c) = None THEN <<>> ELSE FindChain[RootFuture(c)]

(* The task the root belongs to, and the future it is, for the commands   *)
(* given no target.                                                       *)
CursorTask(c) ==
    IF c.root = None THEN None
    ELSE IF c.root[1] = "task" THEN c.root[2]
    ELSE IF TaskAt[c.root[2]] # None THEN TaskAt[c.root[2]]
    ELSE IF RootFuture(c) = None THEN None ELSE FindOwner[RootFuture(c)]

CursorFuture(c) ==
    IF c.root = None THEN None
    ELSE IF c.root[1] = "task" \/ TaskRooted(c.root[2]) THEN None
    ELSE RootFuture(c)

(* The base address of frame #n: #0 is the leaf, the chain's last. *)
FrameBase(chain, n) == chain[Len(chain) - n]

NoCursor == [lwp |-> None, root |-> None, future |-> None, frame |-> 0,
             last |-> None]

TaskRoot(t) == IF t \in IdLess THEN <<"future", Header[t]>> ELSE <<"task", t>>

(* scope_to, and what select_task sets. *)
OnTask(t, frame) ==
    [lwp |-> Polling[t], root |-> TaskRoot(t), future |-> None,
     frame |-> frame,
     last |-> IF TaskChain[t] = <<>> THEN Header[t]
              ELSE FrameBase(TaskChain[t], frame)]

(* The frame an address inside a task's allocation selects: the one that  *)
(* claims it, else #0.                                                    *)
ClaimingFrame(t, a) ==
    IF a = Header[t] \/ Claims[t][a] = 0 THEN 0
    ELSE Len(TaskChain[t]) - Claims[t][a]

(* select_task, by id or by address; no cursor where it refuses. *)
SelectTask(target) ==
    CASE target \in Tasks \ IdLess -> {OnTask(target, 0)}
      [] target \in Addrs /\ TaskAt[target] # None ->
           {OnTask(TaskAt[target], ClaimingFrame(TaskAt[target], target))}
      [] OTHER -> {}

(* scope_to_future. *)
OnFuture(f) ==
    LET at == [lwp |-> IF f \in Children THEN None ELSE Polling[FindOwner[f]],
               root |-> <<"future", FindAddr[f]>>, future |-> f, frame |-> 0,
               last |-> FindAddr[f]]
    IN IF ChainOf(at) = <<>> THEN at
       ELSE [at EXCEPT !.last = FrameBase(ChainOf(at), 0)]

SelectFuture(a) ==
    IF a \in Addrs /\ FutureAt[a] # None THEN {OnFuture(FutureAt[a])} ELSE {}

SelectThread(l) ==
    IF l \in Lwps THEN {[NoCursor EXCEPT !.lwp = l, !.last = StackPointer[l]]}
    ELSE {}

Select(op, arg) ==
    CASE op = "task"   -> SelectTask(arg)
      [] op = "future" -> SelectFuture(arg)
      [] op = "thread" -> SelectThread(arg)

(* exec_frame; no cursor where it refuses. A word that is no number is    *)
(* refused too.                                                           *)
ToFrame(c, n) ==
    IF c.root = None \/ n + 1 > Len(ChainOf(c)) THEN {}
    ELSE {[c EXCEPT !.frame = n, !.last = FrameBase(ChainOf(c), n)]}

Move(op, arg, c) ==
    CASE op = "frame" /\ arg = None -> {d \in {c} : ToFrame(c, c.frame) # {}}
      [] op = "frame" /\ arg # None -> IF arg \in Nat THEN ToFrame(c, arg) ELSE {}
      [] op = "up"    -> ToFrame(c, c.frame + 1)
      [] op = "down"  -> IF c.frame = 0 THEN {} ELSE ToFrame(c, c.frame - 1)

----------------------------------------------------------------------------
(* What the session is in the middle of. *)

(* "words": a command's words, before answer_words; "dispatch": a parsed  *)
(* command; "answer": the rest of answer_words; "restore": the cursor a   *)
(* scope puts back; "loop": an "--exec" loop, with its rows, its command  *)
(* and its failures.                                                      *)
Item(kind, cmd, rows, saved, failed) ==
    [kind |-> kind, cmd |-> cmd, rows |-> rows, saved |-> saved,
     failed |-> failed]

Words(cmd) == Item("words", cmd, <<>>, NoCursor, 0)
Parsed(cmd) == Item("dispatch", cmd, <<>>, NoCursor, 0)
Answer == Item("answer", None, <<>>, NoCursor, 0)
Restore(c) == Item("restore", None, <<>>, c, 0)

Top == Head(stack)
Below == Tail(stack)
At(kind) == phase = "line" /\ stack # <<>> /\ Top.kind = kind
Running(kind) == At(kind) /\ result = "running"
Dispatching(ops) == Running("dispatch") /\ Top.cmd.op \in ops

(* No scope, and no loop, is open below the call under way. *)
Outside == \A i \in DOMAIN Below : Below[i].kind \notin {"restore", "loop"}

(* A plausible slip: "$_" read from where the session stood when the line *)
(* began.                                                                 *)
MutSubstituted(cmd, c) ==
    IF cmd.arg = Last THEN [cmd EXCEPT !.arg = home.last] ELSE cmd

(* substitute_head: "$_" in a command's own words, never in the command   *)
(* it carries.                                                            *)
Substituted(cmd, c) == IF cmd.arg = Last THEN [cmd EXCEPT !.arg = c.last] ELSE cmd
Substitutes(cmd, c) == cmd.arg = Last => c.last # None

(* A write of the answer: the reader may have left. *)
Writes == IF output = "open" THEN {"ok"} ELSE {"ok", "error"}

Return(answer) == stack' = Below /\ result' = answer

Moved(c) == cursor' = c /\ home' = IF Outside THEN c ELSE home

(* A question answered: its printing may fail all the same. *)
Asked(op, what) ==
    /\ asked' = <<op, what>>
    /\ \E w \in Writes : Return(w)

----------------------------------------------------------------------------
(* A line, and the commands on it. *)

ReadLine(l) ==
    /\ phase = "prompt"
    /\ phase' = "line"
    /\ rest' = l
    /\ result' = "ok"
    /\ UNCHANGED <<cursor, stack, history, output>>

ReaderLeaves ==
    /\ OutputMayFail
    /\ phase = "line"
    /\ output = "open"
    /\ output' = "closed"
    /\ UNCHANGED <<cursor, rest, stack, result, history, phase>>

(* execute_one: peel a scope and apply it, or take the words as they are. *)
StartCommand ==
    /\ phase = "line" /\ stack = <<>> /\ result = "ok" /\ rest # <<>>
    /\ rest' = Tail(rest)
    /\ LET cmd == Head(rest)
           scopes == Select(cmd.by, cmd.arg)
       IN \/ /\ cmd.op # "scoped"
             /\ stack' = <<Words(cmd)>>
             /\ result' = "running"
             /\ UNCHANGED cursor
          \/ /\ cmd.op = "scoped" /\ scopes # {}
             /\ cursor' \in scopes
             /\ stack' = <<Words(cmd.then), Restore(cursor)>>
             /\ result' = "running"
          \/ /\ cmd.op = "scoped" /\ scopes = {}
             /\ result' = "error"
             /\ UNCHANGED <<cursor, stack>>
    /\ UNCHANGED <<history, output, phase>>

(* answer_words: substitute, open the sink (a shell may not start), then  *)
(* answer "history" here or dispatch; last, flush what was answered.      *)
AnswerWords ==
    /\ Running("words")
    /\ LET ready == Substitutes(Top.cmd, cursor)
       IN \/ /\ ~ ready \/ OutputMayFail
             /\ Return("error")
          \/ /\ ready /\ Top.cmd.op = "history"
             /\ \E w \in Writes : Return(w)
          \/ /\ ready /\ Top.cmd.op # "history"
             /\ stack' = <<Parsed(Substituted(Top.cmd, cursor)), Answer>> \o Below
             /\ UNCHANGED result
    /\ UNCHANGED <<cursor, rest, history, output, phase>>

FlushAnswer ==
    /\ At("answer") /\ result # "running"
    /\ \E w \in Writes : Return(IF w = "error" THEN "error" ELSE result)
    /\ UNCHANGED <<cursor, rest, history, output, phase>>

(* exec_task, exec_future, exec_thread with a target: select, then print. *)
DispatchSelector ==
    /\ Dispatching(Selectors) /\ Top.cmd.arg # None
    /\ LET found == Select(Top.cmd.op, Top.cmd.arg)
       IN \/ /\ found = {}
             /\ Return("error")
             /\ UNCHANGED <<cursor, home>>
          \/ /\ \E c \in found : Moved(c)
             /\ \E w \in Writes : Return(w)
    /\ UNCHANGED <<rest, asked, output, phase>>

(* after_move: the carried command, "$_" now the frame landed on. *)
AfterMove(then, c) ==
    \/ /\ then = None
       /\ Return("ok")
    \/ /\ then # None
       /\ then.op = "history" \/ ~ Substitutes(then, c)
       /\ Return("error")
    \/ /\ then # None
       /\ then.op # "history" /\ Substitutes(then, c)
       /\ stack' = <<Parsed(Substituted(then, c))>> \o Below
       /\ UNCHANGED result

(* exec_frame, exec_up, exec_down, and the command they carry. *)
DispatchMove ==
    /\ Dispatching(Moves)
    /\ LET found == Move(Top.cmd.op, Top.cmd.arg, cursor)
       IN \/ /\ found = {}
             /\ Return("error")
             /\ UNCHANGED <<cursor, home>>
          \/ \E c \in found, w \in Writes :
               /\ Moved(c)
               /\ IF w = "ok" THEN AfterMove(Top.cmd.then, c) ELSE Return(w)
    /\ UNCHANGED <<rest, asked, output, phase>>

(* A question about the address given, or about what the cursor is on:    *)
(* whatis, and the selectors with no target.                              *)
Question(cmd, c) ==
    IF cmd.arg # None THEN cmd.arg
    ELSE CASE cmd.op = "whatis"  -> c.last
           [] cmd.op = "task"    -> CursorTask(c)
           [] cmd.op = "future"  -> CursorFuture(c)
           [] cmd.op = "thread"  -> c.lwp

DispatchQuestion ==
    /\ \/ Dispatching({"whatis"})
       \/ Dispatching(Selectors) /\ Top.cmd.arg = None
    /\ LET what == Question(Top.cmd, cursor)
       IN \/ what # None /\ Asked(Top.cmd.op, what)
          \/ what = None /\ Return("error") /\ UNCHANGED asked
    /\ UNCHANGED <<cursor, rest, home, output, phase>>

DispatchQuit ==
    /\ Dispatching({"quit"})
    /\ Return("quit")
    /\ UNCHANGED <<cursor, rest, history, output, phase>>

(* dispatch's unreachable arm. *)
DispatchHistory ==
    /\ Dispatching({"history"})
    /\ phase' = "panicked"
    /\ UNCHANGED <<cursor, rest, stack, result, history, output>>

----------------------------------------------------------------------------
(* The "--exec" loops. *)

(* Some listing of a set, as a sequence. *)
Listing(S) == CHOOSE s \in [1 .. Cardinality(S) -> S] :
                \A i, j \in DOMAIN s : s[i] = s[j] => i = j

Rows(op) == CASE op = "tasks"   -> Listing(Tasks)
              [] op = "futures" -> Listing(Finds)
              [] op = "threads" -> Listing(Lwps)

(* The cursor a row's run goes under. *)
ScopeTo(op, row) == CASE op = "tasks"   -> OnTask(row, 0)
                      [] op = "futures" -> OnFuture(row)
                      [] op = "threads" -> CHOOSE c \in SelectThread(row) : TRUE

StartLoop ==
    /\ Dispatching(Loops)
    /\ stack' = <<Item("loop", Top.cmd, Rows(Top.cmd.op), cursor, 0)>> \o Below
    /\ result' = "ok"
    /\ UNCHANGED <<cursor, rest, history, output, phase>>

(* A plausible slip: a failed run's row taken again. *)
MutLoopFailure ==
    /\ At("loop") /\ result = "error"
    /\ \E w \in Writes :
         IF w = "error" THEN Return("error")
         ELSE /\ stack' = <<[Top EXCEPT !.rows = Rows(Top.cmd.op)]>> \o Below
              /\ result' = "ok"
    /\ UNCHANGED <<cursor, rest, history, output, phase>>

(* The next row: its heading, its scope, its command. *)
LoopRow ==
    /\ At("loop") /\ result \in {"ok", "quit"} /\ Top.rows # <<>>
    /\ LET c == ScopeTo(Top.cmd.op, Head(Top.rows))
           then == Top.cmd.then
       IN \E w \in Writes :
            IF w = "error" THEN Return("error") /\ UNCHANGED cursor
            ELSE /\ cursor' = c
                 /\ stack' = <<Parsed(Substituted(then, c)),
                               [Top EXCEPT !.rows = Tail(@)]>> \o Below
                 /\ result' = "running"
    /\ UNCHANGED <<rest, history, output, phase>>

(* A row's run failed: its error is printed in place and counted. *)
LoopFailure ==
    /\ At("loop") /\ result = "error"
    /\ \E w \in Writes :
         IF w = "error" THEN Return("error")
         ELSE /\ stack' = <<[Top EXCEPT !.failed = @ + 1]>> \o Below
              /\ result' = "ok"
    /\ UNCHANGED <<cursor, rest, history, output, phase>>

LoopEnd ==
    /\ At("loop") /\ result \in {"ok", "quit"} /\ Top.rows = <<>>
    /\ cursor' = Top.saved
    /\ \E w \in Writes : Return(IF Top.failed > 0 THEN "error" ELSE w)
    /\ UNCHANGED <<rest, history, output, phase>>

----------------------------------------------------------------------------
(* Returning from a scope, and from the line. *)

(* A plausible slip: a scope put back only when its command succeeded. *)
MutEndScope ==
    /\ At("restore") /\ result # "running"
    /\ cursor' = IF result = "error" THEN cursor ELSE Top.saved
    /\ Return(result)
    /\ UNCHANGED <<rest, history, output, phase>>

EndScope ==
    /\ At("restore") /\ result # "running"
    /\ cursor' = Top.saved
    /\ Return(result)
    /\ UNCHANGED <<rest, history, output, phase>>

(* execute: the line is done, or its first failure or quit ended it. *)
EndLine ==
    /\ phase = "line" /\ stack = <<>> /\ result # "running"
    /\ result = "ok" => rest = <<>>
    /\ rest' = <<>>
    /\ phase' = IF result = "quit" THEN "ended" ELSE "prompt"
    /\ UNCHANGED <<cursor, stack, result, history, output>>

Init ==
    /\ cursor = NoCursor
    /\ rest = <<>>
    /\ stack = <<>>
    /\ result = "ok"
    /\ home = NoCursor
    /\ asked = <<>>
    /\ output = "open"
    /\ phase = "prompt"

Execute ==
    \/ StartCommand \/ AnswerWords \/ FlushAnswer
    \/ DispatchSelector \/ DispatchMove \/ DispatchQuestion
    \/ DispatchQuit \/ DispatchHistory
    \/ StartLoop \/ LoopRow \/ LoopFailure \/ LoopEnd
    \/ EndScope \/ EndLine

Next == Execute \/ ReaderLeaves \/ \E l \in Lines : ReadLine(l)

(* The session's thread runs the line it was given; nothing it calls      *)
(* waits for another thread.                                              *)
Spec == Init /\ [][Next]_vars /\ WF_vars(Execute)

----------------------------------------------------------------------------
(* Properties. *)

(* "$_" is the current frame's base address and moves with the frame and  *)
(* with nothing else: wherever a chain stands the frame is one of its own *)
(* and "$_" is that frame's address, however scopes, loops, frame moves   *)
(* and failures followed one another (cursor.rs, last_addr).              *)
LastAddrIsFrame ==
    cursor.root # None =>
        LET chain == ChainOf(cursor)
        IN IF chain = <<>> THEN cursor.frame = 0 /\ cursor.last # None
           ELSE /\ cursor.frame < Len(chain)
                /\ cursor.last = FrameBase(chain, cursor.frame)

(* A cursor scoped to a future stays on that future although its address  *)
(* alone resolves to one inside it: the pin is kept only under the root   *)
(* it was made for, and every command that falls back to the root follows *)
(* the pinned future's own chain (cursor.rs, root_future).                *)
PinHolds ==
    cursor.future # None =>
        /\ cursor.root = <<"future", FindAddr[cursor.future]>>
        /\ CursorFuture(cursor) = cursor.future
        /\ ChainOf(cursor) = FindChain[cursor.future]

(* The coordinates nest: where a root and an lwp are both selected, the   *)
(* lwp is the one mid-poll on the root's task (cursor.rs, polling_worker).*)
CoordinatesNest ==
    cursor.root # None /\ cursor.lwp # None =>
        cursor.lwp = Polling[CursorTask(cursor)]

(* The cursor's coordinates agree with one another and with the target.   *)
CursorHolds == cursor \in Cursor /\ LastAddrIsFrame /\ PinHolds /\ CoordinatesNest

(* Only the selectors and frame, up and down move the cursor: at the      *)
(* prompt it is where the last of them outside every scope and loop left  *)
(* it, whatever ran in between and whichever way it returned, as long as  *)
(* the answer's reader stays.                                             *)
CursorComesBack == phase = "prompt" /\ output = "open" => cursor = home

(* "The session's own cursor comes back once the loop is done", also when *)
(* the loop ends because nobody reads its answer.                         *)
LoopsGiveTheCursorBack == phase = "prompt" => cursor = home

(* A question given "$_" or no target is about the cursor's own frame and *)
(* future at the moment it is answered, not about where the cursor stood  *)
(* when the line was typed.                                               *)
QuestionsAreTheCursors ==
    [][asked' # asked =>
         asked'[2] = CASE asked'[1] = "whatis" -> cursor.last
                       [] asked'[1] = "future" -> cursor.future
                       [] asked'[1] = "task"   -> CursorTask(cursor)
                       [] asked'[1] = "thread" -> cursor.lwp]_vars

(* Every line is answered: nested scopes, moves and loops all return. *)
EveryLineEnds == (phase = "line") ~> (phase # "line")

=============================================================================
