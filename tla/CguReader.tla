----------------------------- MODULE CguReader -----------------------------
(***************************************************************************)
(* How the extractor reads a program's DWARF in parallel                  *)
(* (DwReader::read_jobs): pool workers parse the units and intern their   *)
(* strings and namespaces into two tables shared by all of them, a        *)
(* bounded channel hands each finished unit to one collector thread in    *)
(* whatever order they finish, and once the pool is done the tables are   *)
(* frozen and the types grouped by what the ids say.                      *)
(*                                                                        *)
(* A step is one critical section of a shard's lock, one channel          *)
(* operation, or a worker's local work up to its next one.  A unit's      *)
(* types, statics and functions all carry a name and a namespace through  *)
(* the same code and are modelled alike, as its types.                    *)
(***************************************************************************)
EXTENDS Integers, Sequences, FiniteSets

CONSTANTS
    Workers,             \* the pool's threads
    Strings,             \* the names in the debug information
    Rustc,               \* the producer strings that name rustc
    Shards,              \* the number of shards of either table
    ShardOf,             \* the shard a string's hash selects
    NsShardOf(_, _),     \* the shard a namespace's parent and name select
    IdSpace,             \* ids are held in this many values: 2^32 for a
                         \* StrId, 2^64 for an NsId; the smaller stands for both
    InFlight,            \* the channel's bound, ReadArgs::cgus_in_flight
    Programs             \* the debug informations considered

NoId == 0                \* ids are non-zero
NoProducer == "no producer"

(* One unit of debug information, at its section offset in a program:     *)
(* whether it parses, its namespaces (a parent is an earlier entry, or 0),*)
(* its types with their kind, a struct's or a pointer's, and the entry     *)
(* each lives in (or 0), and its producer.                                *)
Unit == [parses   : BOOLEAN,
         spaces   : Seq([parent : Nat, name : Strings]),
         types    : Seq([kind : Nat, space : Nat, name : Strings]),
         producer : Strings \cup {NoProducer}]

UnitOK(u) ==
    /\ u \in Unit
    /\ \A i \in DOMAIN u.spaces : u.spaces[i].parent < i
    /\ \A i \in DOMAIN u.types : u.types[i].space \in 0 .. Len(u.spaces)

ShardSet == 0 .. Shards - 1

ASSUME ReaderAssumption ==
    /\ Shards \in Nat \ {0}
    /\ ShardOf \in [Strings -> ShardSet]
    /\ \A p, n \in 0 .. IdSpace : NsShardOf(p, n) \in ShardSet
    /\ IdSpace \in Nat \ {0}
    /\ InFlight \in Nat \ {0}
    /\ Rustc \subseteq Strings
    /\ NoProducer \notin Strings
    /\ \A p \in Programs : /\ DOMAIN p \subseteq Nat
                           /\ IsFiniteSet(DOMAIN p)
                           /\ \A u \in DOMAIN p : UnitOK(p[u])

VARIABLES
    program,     \* the debug information: its units by offset
    jobs,        \* units no worker has taken
    worker,      \* what each pool thread is doing
    cache,       \* CguInterner: the ids a worker's unit has met
    strings,     \* ShardedInterner: each shard's entries
    strIndex,    \* ShardedInterner: the id the shards' indexes hold
    spaces,      \* ShardedNamespaces: each shard's entries
    nsIndex,     \* ShardedNamespaces: the id of each parent and name
    channel,     \* finished units the collector has not received
    origins,     \* the collector: units by offset
    types,       \* the collector: types by DIE
    failed,      \* some unit did not parse
    producer,    \* the producer that names the compiler
    outcome      \* "reading", then "read" or "failed"

interner == <<cache, strings, strIndex>>
namespaces == <<spaces, nsIndex>>
collector == <<origins, types>>
vars == <<program, jobs, worker, cache, strings, strIndex, spaces,
          nsIndex, channel, origins, types, failed, producer, outcome>>

----------------------------------------------------------------------------
(* The sharded tables. *)

Ids == 1 .. IdSpace

(* Striped ids: the shard below, the place in its entries above, and one  *)
(* added to keep the id from zero.                                        *)
Encode(k, local) == ((local * Shards + k) % IdSpace) + 1

DecodeShard(id) == (id - 1) % Shards
DecodeLocal(id) == (id - 1) \div Shards

StringOf(id) == strings[DecodeShard(id)][DecodeLocal(id) + 1]
SpaceOf(id) == spaces[DecodeShard(id)][DecodeLocal(id) + 1]

NoIds == [s \in Strings |-> NoId]

Idle == [at |-> "idle", unit |-> 0, remap |-> <<>>, done |-> <<>>,
         depth |-> 0]

Unfinished(w) == program[worker[w].unit]

(* CguInterner::intern: the unit's own cache answers, or the string's     *)
(* shard does under its lock and the cache keeps the answer.              *)
Intern(w, s) ==
    LET k == ShardOf[s]
        id == Encode(k, Len(strings[k]))
    IN \/ /\ cache[w][s] # NoId
          /\ UNCHANGED interner
       \/ /\ cache[w][s] = NoId
          /\ strIndex[s] # NoId
          /\ cache' = [cache EXCEPT ![w][s] = strIndex[s]]
          /\ UNCHANGED <<strings, strIndex>>
       \/ /\ cache[w][s] = NoId
          /\ strIndex[s] = NoId
          /\ strIndex' = [strIndex EXCEPT ![s] = id]
          /\ strings' = [strings EXCEPT ![k] = Append(@, s)]
          /\ cache' = [cache EXCEPT ![w][s] = id]

----------------------------------------------------------------------------
(* A worker's unit, from the job list to the channel. *)

(* rayon hands out one unit per job; a worker that has not yet seen the   *)
(* error flag still starts one.                                           *)
TakeJob(w, u) ==
    /\ outcome = "reading"
    /\ worker[w].at = "idle"
    /\ u \in jobs
    /\ jobs' = jobs \ {u}
    /\ worker' = [worker EXCEPT ![w] = [Idle EXCEPT !.at = "parse", !.unit = u]]
    /\ cache' = [cache EXCEPT ![w] = NoIds]
    /\ UNCHANGED <<program, strings, strIndex, namespaces, channel, collector, failed,
                   producer, outcome>>

(* A job dropped because the error flag is up. *)
DropJob(u) ==
    /\ failed
    /\ u \in jobs
    /\ jobs' = jobs \ {u}
    /\ UNCHANGED <<program, worker, interner, namespaces, channel, collector,
                   failed, producer, outcome>>

(* A plausible slip: a unit that does not parse skipped with no error. *)
MutParseJob(w) ==
    /\ worker[w].at = "parse"
    /\ worker' = [worker EXCEPT ![w] =
         IF Unfinished(w).parses THEN [@ EXCEPT !.at = "intern"] ELSE Idle]
    /\ UNCHANGED <<program, jobs, interner, namespaces, channel, collector,
                   failed, producer, outcome>>

(* parse_job: a unit that parses goes on to be interned; an error raises  *)
(* the flag the other workers' jobs look at.                              *)
ParseJob(w) ==
    /\ worker[w].at = "parse"
    /\ \/ /\ Unfinished(w).parses
          /\ worker' = [worker EXCEPT ![w].at = "intern"]
          /\ UNCHANGED failed
       \/ /\ ~ Unfinished(w).parses
          /\ worker' = [worker EXCEPT ![w] = Idle]
          /\ failed' = TRUE
    /\ UNCHANGED <<program, jobs, interner, namespaces, channel, collector,
                   producer, outcome>>

(* The namespace a worker is at, its parent's global id and its name's. *)
Here(w) == Len(worker[w].remap) + 1
SpaceHere(w) == Unfinished(w).spaces[Here(w)]
ParentHere(w) == IF SpaceHere(w).parent = 0 THEN NoId
                 ELSE worker[w].remap[SpaceHere(w).parent]
NameHere(w) == cache[w][SpaceHere(w).name]
PairHere(w) == <<ParentHere(w), NameHere(w)>>

Named(w, id) == [worker[w] EXCEPT !.remap = Append(@, id), !.at = "intern"]

(* intern_cgu: the next namespace's name. *)
InternSpaceName(w) ==
    /\ worker[w].at = "intern"
    /\ Here(w) <= Len(Unfinished(w).spaces)
    /\ Intern(w, SpaceHere(w).name)
    /\ worker' = [worker EXCEPT ![w].at = "find"]
    /\ UNCHANGED <<program, jobs, namespaces, channel, collector, failed,
                   producer, outcome>>

(* ShardedNamespaces::intern, its first look under the shard's lock. *)
FindSpace(w) ==
    /\ worker[w].at = "find"
    /\ worker' = [worker EXCEPT ![w] =
         IF PairHere(w) \in DOMAIN nsIndex THEN Named(w, nsIndex[PairHere(w)])
         ELSE [@ EXCEPT !.at = "depth"]]
    /\ UNCHANGED <<program, jobs, interner, namespaces, channel, collector,
                   failed, producer, outcome>>

(* The parent's depth, read from the parent's shard with no lock held. *)
ReadDepth(w) ==
    /\ worker[w].at = "depth"
    /\ worker' = [worker EXCEPT
         ![w].at = "insert",
         ![w].depth = IF ParentHere(w) = NoId THEN 1
                      ELSE SpaceOf(ParentHere(w)).depth + 1]
    /\ UNCHANGED <<program, jobs, interner, namespaces, channel, collector,
                   failed, producer, outcome>>

(* A plausible slip: the entry inserted on the strength of the first look *)
(* alone.                                                                 *)
MutInsertSpace(w) ==
    LET k == NsShardOf(ParentHere(w), NameHere(w))
        id == Encode(k, Len(spaces[k]))
    IN /\ worker[w].at = "insert"
       /\ spaces' = [spaces EXCEPT ![k] =
                       Append(@, [name |-> NameHere(w), parent |-> ParentHere(w),
                                  depth |-> worker[w].depth])]
       /\ nsIndex' = [p \in DOMAIN nsIndex \cup {PairHere(w)} |->
                        IF p = PairHere(w) THEN id ELSE nsIndex[p]]
       /\ worker' = [worker EXCEPT ![w] = Named(w, id)]
       /\ UNCHANGED <<program, jobs, interner, channel, collector, failed,
                      producer, outcome>>

(* NsShard::intern, under the shard's lock again: the entry another       *)
(* worker made meanwhile, or a new one.                                   *)
InsertSpace(w) ==
    LET k == NsShardOf(ParentHere(w), NameHere(w))
        id == Encode(k, Len(spaces[k]))
    IN /\ worker[w].at = "insert"
       /\ \/ /\ PairHere(w) \in DOMAIN nsIndex
             /\ worker' = [worker EXCEPT ![w] = Named(w, nsIndex[PairHere(w)])]
             /\ UNCHANGED namespaces
          \/ /\ PairHere(w) \notin DOMAIN nsIndex
             /\ spaces' = [spaces EXCEPT ![k] =
                  Append(@, [name |-> NameHere(w), parent |-> ParentHere(w),
                             depth |-> worker[w].depth])]
             /\ nsIndex' = [p \in DOMAIN nsIndex \cup {PairHere(w)} |->
                              IF p = PairHere(w) THEN id ELSE nsIndex[p]]
             /\ worker' = [worker EXCEPT ![w] = Named(w, id)]
       /\ UNCHANGED <<program, jobs, interner, channel, collector, failed,
                      producer, outcome>>

TypeHere(w) == Unfinished(w).types[Len(worker[w].done) + 1]

GlobalSpace(w, local) == IF local = 0 THEN NoId ELSE worker[w].remap[local]

(* intern_cgu: the next type's name, and its namespace's global id. *)
InternType(w) ==
    /\ worker[w].at = "intern"
    /\ Here(w) > Len(Unfinished(w).spaces)
    /\ Len(worker[w].done) < Len(Unfinished(w).types)
    /\ Intern(w, TypeHere(w).name)
    /\ worker' = [worker EXCEPT ![w].done =
         Append(@, [kind  |-> TypeHere(w).kind,
                    space |-> GlobalSpace(w, TypeHere(w).space),
                    name  |-> cache'[w][TypeHere(w).name]])]
    /\ UNCHANGED <<program, jobs, namespaces, channel, collector, failed,
                   producer, outcome>>

(* intern_cgu: what the unit itself carries, its producer. *)
InternOrigin(w) ==
    /\ worker[w].at = "intern"
    /\ Here(w) > Len(Unfinished(w).spaces)
    /\ Len(worker[w].done) = Len(Unfinished(w).types)
    /\ IF Unfinished(w).producer = NoProducer THEN UNCHANGED interner
       ELSE Intern(w, Unfinished(w).producer)
    /\ worker' = [worker EXCEPT ![w].at = "send"]
    /\ UNCHANGED <<program, jobs, namespaces, channel, collector, failed,
                   producer, outcome>>

InternedCgu(w) ==
    [unit     |-> worker[w].unit,
     producer |-> IF Unfinished(w).producer = NoProducer THEN NoId
                  ELSE cache[w][Unfinished(w).producer],
     types    |-> worker[w].done]

(* tx.send: a worker with a finished unit waits for a free slot. *)
Send(w) ==
    /\ worker[w].at = "send"
    /\ Len(channel) < InFlight
    /\ channel' = Append(channel, InternedCgu(w))
    /\ worker' = [worker EXCEPT ![w] = Idle]
    /\ UNCHANGED <<program, jobs, interner, namespaces, collector, failed,
                   producer, outcome>>

----------------------------------------------------------------------------
(* The collector, and the end of the read. *)

(* A plausible slip: a collector that starts once the pool has returned. *)
MutIngest ==
    /\ channel # <<>>
    /\ jobs = {}
    /\ \A w \in Workers : worker[w].at = "idle"
    /\ LET cgu == Head(channel)
           dies == {cgu.unit} \X DOMAIN cgu.types
       IN /\ origins' = [u \in DOMAIN origins \cup {cgu.unit} |->
                           IF u = cgu.unit THEN cgu.producer ELSE origins[u]]
          /\ types' = [d \in DOMAIN types \cup dies |->
                         IF d \in dies THEN cgu.types[d[2]] ELSE types[d]]
    /\ channel' = Tail(channel)
    /\ UNCHANGED <<program, jobs, worker, interner, namespaces, failed,
                   producer, outcome>>

(* DwReader::ingest. *)
Ingest ==
    /\ channel # <<>>
    /\ LET cgu == Head(channel)
           dies == {cgu.unit} \X DOMAIN cgu.types
       IN /\ origins' = [u \in DOMAIN origins \cup {cgu.unit} |->
                           IF u = cgu.unit THEN cgu.producer ELSE origins[u]]
          /\ types' = [d \in DOMAIN types \cup dies |->
                         IF d \in dies THEN cgu.types[d[2]] ELSE types[d]]
    /\ channel' = Tail(channel)
    /\ UNCHANGED <<program, jobs, worker, interner, namespaces, failed,
                   producer, outcome>>

(* install returned and so dropped the last sender, and the channel is    *)
(* drained: the collector's loop is over.                                 *)
HungUp == /\ jobs = {}
          /\ \A w \in Workers : worker[w].at = "idle"
          /\ channel = <<>>

Least(S) == CHOOSE u \in S : \A v \in S : u <= v

(* The first unit's producer, by offset, that is rustc's, or the first. *)
CompilerProducer ==
    LET known == {u \in DOMAIN origins : origins[u] # NoId}
        rustc == {u \in known : StringOf(origins[u]) \in Rustc}
    IN CASE rustc # {} -> origins[Least(rustc)]
         [] rustc = {} /\ known # {} -> origins[Least(known)]
         [] OTHER -> NoId

Finish ==
    /\ outcome = "reading"
    /\ HungUp
    /\ outcome' = IF failed THEN "failed" ELSE "read"
    /\ producer' = IF failed THEN NoId ELSE CompilerProducer
    /\ UNCHANGED <<program, jobs, worker, interner, namespaces, channel,
                   collector, failed>>

(* The key alias_substitutions groups a type under, and index_type_names  *)
(* with its name alone.                                                   *)
GroupKey(d) == <<types[d].kind, types[d].space, types[d].name>>

----------------------------------------------------------------------------

Init ==
    /\ program \in Programs
    /\ jobs = DOMAIN program
    /\ worker = [w \in Workers |-> Idle]
    /\ cache = [w \in Workers |-> NoIds]
    /\ strings = [k \in ShardSet |-> <<>>]
    /\ strIndex = NoIds
    /\ spaces = [k \in ShardSet |-> <<>>]
    /\ nsIndex = <<>>
    /\ channel = <<>>
    /\ origins = <<>>
    /\ types = <<>>
    /\ failed = FALSE
    /\ producer = NoId
    /\ outcome = "reading"

WorkerStep(w) ==
    \/ \E u \in jobs : TakeJob(w, u)
    \/ ParseJob(w)
    \/ InternSpaceName(w)
    \/ FindSpace(w)
    \/ ReadDepth(w)
    \/ InsertSpace(w)
    \/ InternType(w)
    \/ InternOrigin(w)
    \/ Send(w)

Next ==
    \/ \E w \in Workers : WorkerStep(w)
    \/ \E u \in jobs : DropJob(u)
    \/ Ingest
    \/ Finish

(* The pool's threads and the collector run until they block, and block   *)
(* only on a lock, a full channel or an empty one.  Every step brings the *)
(* read closer to its end, so that some step is taken while one can be is *)
(* all that is asked.                                                     *)
Spec == Init /\ [][Next]_vars /\ WF_vars(Next)

----------------------------------------------------------------------------
(* Properties. *)

MaybeId == Ids \cup {NoId}

(* The path of a unit's namespace, as the debug information spells it. *)
SourcePath(u, i) ==
    LET listed == program[u].spaces
        path[j \in 0 .. Len(listed)] ==
            IF j = 0 THEN <<>> ELSE Append(path[listed[j].parent], listed[j].name)
    IN path[i]

(* The ids given out, and the path an interned namespace's entries spell, *)
(* from the root down.                                                    *)
SpaceIds == UNION {{Encode(k, i - 1) : i \in DOMAIN spaces[k]} : k \in ShardSet}

InternedPath(id) ==
    LET path[j \in SpaceIds \cup {NoId}] ==
            IF j = NoId THEN <<>>
            ELSE Append(path[SpaceOf(j).parent], StringOf(SpaceOf(j).name))
    IN path[id]

Dies == UNION {{u} \X DOMAIN program[u].types : u \in DOMAIN program}

SourceName(d) ==
    LET t == program[d[1]].types[d[2]]
    IN <<t.kind, SourcePath(d[1], t.space), t.name>>

(* The collector of a finished read holds every unit and every type, and  *)
(* each type's interned ids spell the path and the name the debug         *)
(* information gave it, with its namespace's depth the length of that     *)
(* path.                                                                  *)
ReadIsFaithful ==
    outcome = "read" =>
      /\ DOMAIN origins = DOMAIN program
      /\ DOMAIN types = Dies
      /\ \A d \in Dies :
           LET t == types[d]
           IN /\ <<t.kind, InternedPath(t.space), StringOf(t.name)>> = SourceName(d)
              /\ t.space # NoId =>
                   SpaceOf(t.space).depth = Len(InternedPath(t.space))

(* Two types fall in one group, the first step of deduplication, exactly  *)
(* when they have one kind, path and name: no race between two workers    *)
(* naming one namespace or one string gives it two ids                    *)
(* (ShardedNamespaces::intern, ShardedInterner::intern).                  *)
GroupsArePaths ==
    outcome = "read" =>
      \A d, e \in Dies : GroupKey(d) = GroupKey(e) <=> SourceName(d) = SourceName(e)

(* The producer a finished read reports is that of the first unit by      *)
(* offset that rustc compiled, or with none the first that names any,     *)
(* whichever unit reached the collector first (compiler_producer).        *)
ProducerIsArrivalFree ==
    LET known == {u \in DOMAIN program : program[u].producer # NoProducer}
        rustc == {u \in known : program[u].producer \in Rustc}
        from == IF rustc # {} THEN rustc ELSE known
    IN outcome = "read" =>
         IF from = {} THEN producer = NoId
         ELSE producer # NoId /\ StringOf(producer) = program[Least(from)].producer

(* A read that meets a unit that does not parse never passes for a        *)
(* success, and a failed read met one, whatever the other workers were    *)
(* doing when the flag went up (`parsed?` after the join).                *)
FailureIsReported ==
    LET malformed == \E u \in DOMAIN program : ~ program[u].parses
    IN outcome # "reading" => (outcome = "failed" <=> malformed)

(* A finished read is what a serial read of the same units would be, by   *)
(* whatever race the workers interned and sent: its types, the groups its *)
(* ids put them in, the compiler it names, and whether it failed at all   *)
(* (read_jobs: "arrival order cannot affect the result").                 *)
ReadIsSerial == ReadIsFaithful /\ GroupsArePaths /\ ProducerIsArrivalFree /\ FailureIsReported

(* The read ends: no worker waits on a full channel for a collector that  *)
(* waits on the workers, and an error does not strand the units left      *)
(* (try_for_each_with, the collector's receive loop, the join).           *)
Settles == <>(outcome # "reading")

=============================================================================
