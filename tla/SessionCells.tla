---------------------------- MODULE SessionCells ----------------------------
(***************************************************************************)
(* What a session computes once and keeps: the extents, the census, the   *)
(* waker sweep, the analysis and its attribution, the rows.  Each is a    *)
(* cell an accessor fills on first use (OnceCell::get_or_init).  At       *)
(* launch a worker builds the first three on a thread of its own while    *)
(* the session's thread builds the analysis; the session joins the        *)
(* worker, adopts what it built, and folds the two together.  A worker    *)
(* that stood down or panicked leaves the accessors to build in place.    *)
(*                                                                        *)
(* A cell's value is modelled by its lineage: which cells went into it,   *)
(* and which thread built each.  The session's thread is the list of      *)
(* calls it has still to make; an accessor with an empty cell puts its    *)
(* own calls in front.                                                    *)
(***************************************************************************)
EXTENDS Naturals, Sequences, FiniteSets

CONSTANTS
    Audit,           \* whether "--audit" was given
    BlockingRuns,    \* whether a blocking task is running
    MayBeUnwarmed,   \* whether sessions nothing warmed are considered
    MaxCommands      \* bound: commands a session answers

ASSUME CellsAssumption ==
    /\ Audit \in BOOLEAN /\ BlockingRuns \in BOOLEAN /\ MayBeUnwarmed \in BOOLEAN
    /\ MaxCommands \in Nat

WorkerCells == {"extents", "census", "wakers"}
ListingCells == {"task_rows", "thread_rows", "future_rows"}
Cells == WorkerCells \cup ListingCells \cup
         {"analysis", "attribution", "stacks", "blocking_lwps", "census_tree",
          "relations", "conn_rows"}
Audits == {"census", "wakers", "attribution"}

VARIABLES
    cells,     \* each cell's lineage; empty: not filled
    code,      \* the calls the session's thread has still to make
    worker,    \* what the launch worker has built, or how it ended
    built,     \* the lineages the worker holds
    audits,    \* how often each self-check ran
    dropped,   \* the cells a set found full
    commands,  \* the commands answered
    phase      \* "launch", "prompt", "command"

vars == <<cells, code, worker, built, audits, dropped, commands, phase>>

----------------------------------------------------------------------------
(* Calls: ask an accessor; fill a cell at the end of its initialisation;  *)
(* set a cell, whatever it holds; run a self-check the first time; expect *)
(* the attribution; join the worker.                                      *)

Ask(c) == <<"ask", c>>
Fill(c) == <<"fill", c>>
Put(c) == <<"put", c>>
Check(x) == <<"check", x>>
Expect(c) == <<"expect", c>>
Join == <<"join", "wakers">>

(* A slip: the sweep classified against the analysis. *)
MutFold == <<Ask("analysis"), Ask("wakers"), Ask("extents"), Ask("census"),
             Put("attribution")>>

(* fold: attribute the sweep's slots and keep the attribution. *)
Fold == <<Ask("wakers"), Ask("extents"), Ask("census"), Put("attribution")>>

(* A slip: the base rows count what the census found. *)
MutBaseRows == <<Ask("blocking_lwps"), Ask("census")>>

(* base_rows and with_slots of the task rows. *)
BaseRows == <<Ask("blocking_lwps")>>
WithSlots == <<Ask("census"), Ask("analysis"), Ask("attribution")>>

(* The initialisation each accessor runs for an empty cell. *)
Body(c) ==
    CASE c \in {"extents", "census", "stacks"} -> <<>>
      [] c = "wakers"        -> <<Ask("extents"), Ask("census")>>
      [] c = "analysis"      -> Fold
      [] c = "blocking_lwps" -> IF BlockingRuns THEN <<Ask("stacks")>> ELSE <<>>
      [] c = "census_tree"   -> <<Ask("census")>>
      [] c = "relations"     -> <<Ask("census"), Ask("analysis")>>
      [] c = "task_rows"     -> <<Ask("analysis")>> \o BaseRows \o WithSlots
      [] c = "thread_rows"   -> <<Ask("stacks")>>
      [] c = "future_rows"   -> <<Ask("census"), Ask("census"), Ask("attribution")>>
      [] c = "conn_rows"     -> <<Ask("census"), Ask("analysis"), Ask("attribution")>>

(* What an accessor does once its cell is full. *)
After(c) == IF c = "census" THEN <<Check("census")>> ELSE <<>>

(* attribution: read beside the analysis, then cross-checked. *)
Attribution ==
    <<Ask("analysis"), Expect("attribution"), Check("wakers"), Check("attribution")>>

(* The cells a cell was built from. *)
Inputs(c) ==
    CASE c = "analysis" -> {"wakers", "extents", "census"}
      [] c = "attribution" -> {"wakers", "extents", "census"}
      [] c \notin {"analysis", "attribution"} ->
           {Body(c)[i][2] : i \in {j \in DOMAIN Body(c) : Body(c)[j][1] = "ask"}}

Lineage(c, who) == {<<c, who>>} \cup UNION {cells[d] : d \in Inputs(c)}

(* warm_listings; the analysis the fold takes is built on this thread     *)
(* before the join and reads no cell.                                     *)
WarmListings ==
    BaseRows \o <<Ask("thread_rows"), Join>> \o Fold
    \o <<Put("analysis")>> \o WithSlots \o <<Put("task_rows"), Ask("future_rows")>>
    \o (IF Audit THEN <<Ask("attribution")>> ELSE <<>>)

(* What the commands ask. *)
Commands == { <<Ask("task_rows"), Ask("census"), Ask("analysis")>>,      \* tasks
              <<Ask("census"), Ask("future_rows"), Ask("census_tree")>>, \* futures
              <<Ask("thread_rows")>>,                                    \* threads
              <<Ask("conn_rows")>>,                                      \* connections
              <<Ask("analysis"), Ask("relations")>>,                     \* graph
              <<Ask("analysis"), Ask("relations"), Ask("census"),
                Ask("attribution"), Ask("extents")>>,                    \* sync
              <<Ask("extents"), Ask("census"), Ask("attribution")>>,     \* whatis
              <<Ask("wakers"), Ask("attribution")>> }                    \* info

----------------------------------------------------------------------------
(* The launch worker. *)

WorkerBuilds(c, inputs) ==
    built' = [built EXCEPT ![c] = {<<c, "worker">>} \cup UNION {built[d] : d \in inputs}]

WorkerExtents ==
    /\ worker = "started"
    /\ worker' = "extents"
    /\ WorkerBuilds("extents", {})

WorkerCensus ==
    /\ worker = "extents"
    /\ worker' = "census"
    /\ WorkerBuilds("census", {})

WorkerSweep ==
    /\ worker = "census"
    /\ worker' = "done"
    /\ WorkerBuilds("wakers", {"extents", "census"})

(* Its context does not open, or a walk panics. *)
WorkerDies ==
    /\ worker \in {"started", "extents", "census"}
    /\ worker' = "dead"
    /\ UNCHANGED built

WorkerStep ==
    /\ WorkerExtents \/ WorkerCensus \/ WorkerSweep \/ WorkerDies
    /\ UNCHANGED <<cells, code, audits, dropped, commands, phase>>

----------------------------------------------------------------------------
(* The session's thread. *)

At(op) == phase \in {"launch", "command"} /\ code # <<>> /\ Head(code)[1] = op
Here == Head(code)[2]
Rest == Tail(code)

UnderWay(c) == \E i \in DOMAIN code : code[i] = Fill(c)

(* A cell asked for by its own initialisation, and an attribution that is *)
(* not there: either panics, and goes no further.                         *)
Reentrant == At("ask") /\ Here # "attribution" /\ cells[Here] = {} /\ UnderWay(Here)
Missing == At("expect") /\ cells[Here] = {}

(* An accessor: the cell's value, or its initialisation first. *)
AskFull ==
    /\ At("ask") /\ Here # "attribution" /\ cells[Here] # {}
    /\ code' = After(Here) \o Rest
    /\ UNCHANGED <<cells, audits, dropped, phase>>

AskEmpty ==
    /\ At("ask") /\ Here # "attribution" /\ cells[Here] = {} /\ ~ Reentrant
    /\ code' = Body(Here) \o <<Fill(Here)>> \o After(Here) \o Rest
    /\ UNCHANGED <<cells, audits, dropped, phase>>

AskAttribution ==
    /\ At("ask") /\ Here = "attribution"
    /\ code' = Attribution \o Rest
    /\ UNCHANGED <<cells, audits, dropped, phase>>

(* The end of an initialisation; a set that finds the cell full is let    *)
(* go.                                                                    *)
FillCell ==
    /\ At("fill") \/ At("put")
    /\ cells' = IF cells[Here] = {}
                THEN [cells EXCEPT ![Here] = Lineage(Here, "session")] ELSE cells
    /\ dropped' = IF cells[Here] = {} THEN dropped ELSE dropped \cup {Here}
    /\ code' = Rest
    /\ UNCHANGED <<audits, phase>>

(* first_audit: the first ask, where the flag was given. *)
FirstAudit(x) == Audit /\ audits[x] = 0

(* The waker check reads the sweep and the analysis. *)
RunCheck ==
    /\ At("check")
    /\ audits' = IF FirstAudit(Here) THEN [audits EXCEPT ![Here] = @ + 1] ELSE audits
    /\ code' = (IF FirstAudit(Here) /\ Here = "wakers"
                THEN <<Ask("wakers"), Ask("analysis")>> ELSE <<>>) \o Rest
    /\ UNCHANGED <<cells, dropped, phase>>

ExpectCell ==
    /\ At("expect") /\ ~ Missing
    /\ code' = Rest
    /\ UNCHANGED <<cells, audits, dropped, phase>>

(* adopt: each cell set, unless something has asked for it already. *)
Adopt == [c \in Cells |-> IF c \in WorkerCells /\ cells[c] = {} /\ worker = "done"
                          THEN built[c] ELSE cells[c]]

(* A slip: a worker that died waited for. *)
MutJoinWorker ==
    /\ At("join") /\ worker = "done"
    /\ cells' = Adopt
    /\ dropped' = dropped \cup {c \in WorkerCells : cells[c] # {}}
    /\ code' = Rest
    /\ UNCHANGED <<audits, phase>>

JoinWorker ==
    /\ At("join") /\ worker \in {"done", "dead"}
    /\ cells' = Adopt
    /\ dropped' = dropped \cup {c \in WorkerCells : worker = "done" /\ cells[c] # {}}
    /\ code' = Rest
    /\ UNCHANGED <<audits, phase>>

Return ==
    /\ phase \in {"launch", "command"} /\ code = <<>>
    /\ phase' = "prompt"
    /\ UNCHANGED <<cells, code, audits, dropped>>

SessionStep ==
    /\ \/ AskFull \/ AskEmpty \/ AskAttribution
       \/ FillCell \/ RunCheck \/ ExpectCell \/ JoinWorker \/ Return
    /\ UNCHANGED <<worker, built, commands>>

Command ==
    /\ phase = "prompt" /\ commands < MaxCommands
    /\ \E asks \in Commands : code' = asks
    /\ phase' = "command"
    /\ commands' = commands + 1
    /\ UNCHANGED <<cells, worker, built, audits, dropped>>

Init ==
    /\ cells = [c \in Cells |-> {}]
    /\ \/ code = WarmListings /\ worker = "started"
       \/ MayBeUnwarmed /\ code = <<>> /\ worker = "none"
    /\ built = [c \in WorkerCells |-> {}]
    /\ audits = [x \in Audits |-> 0]
    /\ dropped = {}
    /\ commands = 0
    /\ phase = "launch"

Next == WorkerStep \/ SessionStep \/ Command

(* Both threads run; neither waits for anything but the join. *)
Spec == Init /\ [][Next]_vars /\ WF_vars(WorkerStep) /\ WF_vars(SessionStep)

----------------------------------------------------------------------------
(* Properties. *)

Warmed == worker # "none" /\ phase \in {"prompt", "command"}

(* Everything the session answers from agrees on what it was built from:  *)
(* whatever went into a cell is what that cell holds now, so no row or    *)
(* attribution reads one thread's census and another's sweep, and no set  *)
(* of a cell is lost to one that came first (main.rs, adopt and fold:     *)
(* "the cells are empty and the sets land").                              *)
OneLineage ==
    /\ \A c \in Cells : \A origin \in cells[c] : origin \in cells[origin[1]]
    /\ dropped = {}

(* No accessor is asked for by its own initialisation, and the            *)
(* attribution is there wherever the analysis is (attribution's expect).  *)
NeverPanics == ~ Reentrant /\ ~ Missing

(* After the launch the listings' cells and everything under them are     *)
(* full, whichever way the worker ended, and every self-check "--audit"   *)
(* asks for has run once and runs at no later command (warm_listings,     *)
(* first_audit).                                                          *)
WarmIsComplete ==
    Warmed => /\ \A c \in ListingCells \cup WorkerCells \cup {"analysis", "attribution"} :
                    cells[c] # {}
              /\ \A x \in Audits : audits[x] = IF Audit THEN 1 ELSE 0

(* The accessors hold together: none of them panics, and none that the    *)
(* launch was to fill is left empty by a worker that stood down or died.  *)
AccessorsHold == NeverPanics /\ WarmIsComplete

(* The launch ends, and so does every command. *)
Answers == []<>(phase = "prompt")

=============================================================================
