-------------------------- MODULE CguReaderProofs --------------------------
(***************************************************************************)
(* A parallel read is a serial one, for any number of workers, units,     *)
(* strings and namespaces, any spread over the shards, and any order in   *)
(* which the workers intern and send.                                     *)
(*                                                                        *)
(* Paths are not part of the argument until a read has ended.  Until then *)
(* a unit's ids are only said to be linked as its own entries are         *)
(* (Spelt): the id of an entry is the one the index has for the id of its *)
(* parent and the id of its name.  That is kept by tables that only grow. *)
(***************************************************************************)
EXTENDS CguReader, SequenceTheorems, WellFoundedInduction, TLAPS

(* No id has run out: a shard's entries all have ids of their own.  The   *)
(* code does not look; a shard of strings has room for 2^24 - 1.          *)
Fits(n) == n * Shards < IdSpace

Room == \A k \in ShardSet : Fits(Len(strings[k])) /\ Fits(Len(spaces[k]))

----------------------------------------------------------------------------
(* The invariant. *)

Places == {"idle", "parse", "intern", "find", "depth", "insert", "send"}
InternedType == [kind : Nat, space : MaybeId, name : Ids]
WorkerType == [at : Places, unit : Nat, remap : Seq(Ids), done : Seq(InternedType),
               depth : Nat]
SpaceType == [name : Ids, parent : MaybeId, depth : Nat]
CguType == [unit : Nat, producer : MaybeId, types : Seq(InternedType)]

Typed ==
    /\ program \in Programs
    /\ jobs \subseteq DOMAIN program
    /\ worker \in [Workers -> WorkerType]
    /\ cache \in [Workers -> [Strings -> MaybeId]]
    /\ strings \in [ShardSet -> Seq(Strings)]
    /\ strIndex \in [Strings -> MaybeId]
    /\ spaces \in [ShardSet -> Seq(SpaceType)]
    /\ DOMAIN nsIndex \subseteq MaybeId \X Ids
    /\ \A p \in DOMAIN nsIndex : nsIndex[p] \in Ids
    /\ channel \in Seq(CguType)
    /\ failed \in BOOLEAN
    /\ outcome \in {"reading", "read", "failed"}

(* A string's id is where its shard keeps it. *)
StringsKept ==
    \A s \in Strings : strIndex[s] # NoId =>
        \E i \in DOMAIN strings[ShardOf[s]] :
            /\ strings[ShardOf[s]][i] = s
            /\ strIndex[s] = Encode(ShardOf[s], i - 1)

PairOf(entry) == <<entry.parent, entry.name>>

(* A namespace has one entry, and its id is where its shard keeps it. *)
SpacesKept ==
    /\ \A p \in DOMAIN nsIndex :
         \E k \in ShardSet : \E i \in DOMAIN spaces[k] :
            PairOf(spaces[k][i]) = p /\ nsIndex[p] = Encode(k, i - 1)
    /\ \A k \in ShardSet : \A i \in DOMAIN spaces[k] :
         /\ PairOf(spaces[k][i]) \in DOMAIN nsIndex
         /\ nsIndex[PairOf(spaces[k][i])] = Encode(k, i - 1)

(* id is the root's, with nothing above it, or that of an entry this deep. *)
DepthIs(table, id, depth) ==
    \/ id = NoId /\ depth = 0
    \/ \E k \in ShardSet : \E i \in DOMAIN table[k] :
          id = Encode(k, i - 1) /\ table[k][i].depth = depth

(* An entry's name is a string's id, and it is one deeper than its parent. *)
SpacesNest ==
    \A k \in ShardSet : \A i \in DOMAIN spaces[k] :
        /\ \E s \in Strings : strIndex[s] = spaces[k][i].name
        /\ spaces[k][i].depth # 0
        /\ DepthIs(spaces, spaces[k][i].parent, spaces[k][i].depth - 1)

TablesInv == StringsKept /\ SpacesKept /\ SpacesNest

(* What a unit has been given: m holds the ids of the first of the        *)
(* namespaces it lists, t is one of its types, id its producer.           *)
Over(m, space) == IF space = 0 THEN NoId ELSE m[space]

Spelt(listed, names, index, m) ==
    \A i \in DOMAIN m :
        LET pair == <<Over(m, listed[i].parent), names[listed[i].name]>>
        IN pair \in DOMAIN index /\ m[i] = index[pair]

TypeSpelt(source, names, m, t) ==
    /\ source.space \in 0 .. Len(m)
    /\ names[source.name] # NoId
    /\ t = [kind |-> source.kind, space |-> Over(m, source.space), name |-> names[source.name]]

ProducerSpelt(source, names, id) ==
    IF source = NoProducer THEN id = NoId ELSE id # NoId /\ id = names[source]

(* A unit done with: all its namespaces and all its types. *)
Whole(unit, names, index, ts) ==
    \E m \in Seq(Ids) :
        /\ Len(m) = Len(unit.spaces)
        /\ Spelt(unit.spaces, names, index, m)
        /\ \A i \in DOMAIN unit.types : TypeSpelt(unit.types[i], names, m, ts[i])

CacheKept ==
    \A w \in Workers, s \in Strings : cache[w][s] # NoId => cache[w][s] = strIndex[s]

(* A worker past the parse has spelt what it has reached of its unit. *)
Spelling(unit, names, index, m, ts) ==
    /\ Len(m) <= Len(unit.spaces)
    /\ Spelt(unit.spaces, names, index, m)
    /\ Len(ts) <= Len(unit.types)
    /\ \A i \in DOMAIN ts : TypeSpelt(unit.types[i], names, m, ts[i])

(* What is known at each of a worker's places between two locks. *)
AtASpace(w) ==
    worker[w].at \in {"find", "depth", "insert"} =>
        /\ Here(w) <= Len(Unfinished(w).spaces)
        /\ cache[w][SpaceHere(w).name] # NoId
        /\ worker[w].at = "insert" =>
             worker[w].depth # 0 /\ DepthIs(spaces, ParentHere(w), worker[w].depth - 1)

AtTheEnd(w) ==
    worker[w].at = "send" =>
        /\ Len(worker[w].remap) = Len(Unfinished(w).spaces)
        /\ Len(worker[w].done) = Len(Unfinished(w).types)
        /\ Unfinished(w).producer # NoProducer => cache[w][Unfinished(w).producer] # NoId

WorkerOK(w) ==
    worker[w].at # "idle" =>
        /\ worker[w].unit \in DOMAIN program
        /\ worker[w].at # "parse" => Unfinished(w).parses
        /\ Spelling(Unfinished(w), strIndex, nsIndex, worker[w].remap, worker[w].done)
        /\ AtASpace(w) /\ AtTheEnd(w)

WorkerInv == \A w \in Workers : WorkerOK(w)

(* A unit read: it parsed, and its producer and all of it are spelt. *)
UnitRead(p, names, index, u, id, ts) ==
    /\ u \in DOMAIN p /\ p[u].parses
    /\ ProducerSpelt(p[u].producer, names, id)
    /\ DOMAIN ts = DOMAIN p[u].types
    /\ Whole(p[u], names, index, ts)

ChannelInv ==
    \A c \in DOMAIN channel :
        UnitRead(program, strIndex, nsIndex, channel[c].unit, channel[c].producer,
                 channel[c].types)

TypesOf(u) == [i \in DOMAIN program[u].types |-> types[<<u, i>>]]

CollectorInv ==
    /\ DOMAIN origins \subseteq DOMAIN program
    /\ DOMAIN types = UNION {{u} \X DOMAIN program[u].types : u \in DOMAIN origins}
    /\ \A u \in DOMAIN origins :
         UnitRead(program, strIndex, nsIndex, u, origins[u], TypesOf(u))

(* No unit is lost but to an error, and an error is a unit's. *)
Somewhere(u) ==
    \/ u \in jobs
    \/ \E w \in Workers : worker[w].at # "idle" /\ worker[w].unit = u
    \/ \E c \in DOMAIN channel : channel[c].unit = u
    \/ u \in DOMAIN origins

UnitsAccounted ==
    /\ failed \/ \A u \in DOMAIN program : Somewhere(u)
    /\ failed => \E u \in DOMAIN program : ~ program[u].parses
    /\ outcome # "reading" =>
         /\ HungUp
         /\ outcome = IF failed THEN "failed" ELSE "read"
         /\ ~ failed => producer = CompilerProducer

ReaderInv ==
    /\ Typed /\ TablesInv /\ CacheKept
    /\ WorkerInv /\ ChannelInv /\ CollectorInv /\ UnitsAccounted

----------------------------------------------------------------------------
(* Numbers and ids. *)

(* A set of numbers that is not empty has a least one. *)
LEMMA SomeLeast ==
    ASSUME NEW S, S \subseteq Nat, S # {}
    PROVE  \E i \in S : \A j \in S : i <= j
<1>1. PICK i \in S : \A j \in S : <<j, i>> \notin OpToRel(<, Nat)
  BY NatLessThanWellFounded, WFMin
<1>2. \A j \in S : ~ (j < i)
  BY <1>1 DEF OpToRel
<1> QED BY <1>2

(* Least is in the set it is the least of. *)
LEMMA LeastIsLeast ==
    ASSUME NEW S, S \subseteq Nat, S # {}
    PROVE  Least(S) \in S
BY SomeLeast DEF Least

(* A product grows with its factor. *)
LEMMA Times ==
    ASSUME NEW x \in Nat, NEW y \in Nat, NEW n \in Nat, x <= y
    PROVE  x * n <= y * n /\ x * n \in Nat
OBVIOUS

(* Quotient and remainder of a number written with them. *)
LEMMA Division ==
    ASSUME NEW n \in Nat \ {0}, NEW l \in Nat, NEW k \in 0 .. n - 1
    PROVE  (l * n + k) \div n = l /\ (l * n + k) % n = k
<1> DEFINE x == l * n + k
           q == x \div n
           r == x % n
<1>1. x \in Nat /\ q \in Int /\ r \in 0 .. n - 1 /\ x = n * q + r
  OBVIOUS
<1>2. n * (q - l) = k - r
  BY <1>1
<1>3. q - l = 0
  <2>1. CASE q - l >= 1
    <3>1. n * (q - l) >= n
      BY <2>1, <1>1
    <3> QED BY <3>1, <1>1, <1>2
  <2>2. CASE q - l <= -1
    <3>1. n * (q - l) <= -n
      BY <2>2, <1>1
    <3> QED BY <3>1, <1>1, <1>2
  <2> QED BY <2>1, <2>2, <1>1
<1> QED BY <1>1, <1>3

(* An id is never zero, even when the table overflows. *)
LEMMA EncodeType ==
    ASSUME NEW k \in ShardSet, NEW l \in Nat
    PROVE  Encode(k, l) \in Ids /\ Encode(k, l) # NoId
<1>1. l * Shards + k \in Nat /\ IdSpace \in Nat \ {0}
  BY ReaderAssumption DEF ShardSet
<1>2. (l * Shards + k) % IdSpace \in 0 .. IdSpace - 1
  BY <1>1
<1> QED BY <1>1, <1>2 DEF Encode, Ids, NoId

(* Encode of a place that fits is undone by the two decoders (encode,      *)
(* decode of string_table.rs).                                             *)
LEMMA Decodes ==
    ASSUME NEW k \in ShardSet, NEW i \in Nat \ {0}, Fits(i)
    PROVE  /\ DecodeShard(Encode(k, i - 1)) = k
           /\ DecodeLocal(Encode(k, i - 1)) + 1 = i
<1> DEFINE x == (i - 1) * Shards + k
<1>1. /\ Shards \in Nat \ {0} /\ IdSpace \in Nat \ {0} /\ k \in 0 .. Shards - 1
      /\ i - 1 \in Nat
  BY ReaderAssumption DEF ShardSet
<1>2. x \in Nat /\ x < IdSpace
  <2>1. i * Shards = (i - 1) * Shards + Shards /\ (i - 1) * Shards \in Nat
    BY <1>1
  <2> QED BY <2>1, <1>1 DEF Fits
<1>3. Encode(k, i - 1) = x + 1
  BY <1>1, <1>2 DEF Encode
<1>4. (x + 1) - 1 = x
  BY <1>2
<1>5. x % Shards = k /\ x \div Shards = i - 1
  BY <1>1, Division
<1> QED BY <1>1, <1>3, <1>4, <1>5 DEF DecodeShard, DecodeLocal

(* What is below a place that fits does. *)
LEMMA FitsBelow ==
    ASSUME NEW n \in Nat, Fits(n), NEW i \in 1 .. n
    PROVE  Fits(i)
<1>1. i * Shards <= n * Shards /\ i * Shards \in Nat /\ n * Shards \in Nat
  BY Times, ReaderAssumption
<1> QED BY <1>1, ReaderAssumption DEF Fits

(* Where the entries of the tables are found by their ids. *)
LEMMA FoundString ==
    ASSUME Typed, Room, NEW k \in ShardSet, NEW i \in DOMAIN strings[k]
    PROVE  StringOf(Encode(k, i - 1)) = strings[k][i]
<1>1. i \in 1 .. Len(strings[k]) /\ Len(strings[k]) \in Nat
  BY DEF Typed
<1>2. Fits(i)
  BY <1>1, FitsBelow DEF Room
<1> QED BY <1>1, <1>2, Decodes DEF StringOf

(* The same for a namespace. *)
LEMMA FoundSpace ==
    ASSUME Typed, Room, NEW k \in ShardSet, NEW i \in DOMAIN spaces[k]
    PROVE  SpaceOf(Encode(k, i - 1)) = spaces[k][i]
<1>1. i \in 1 .. Len(spaces[k]) /\ Len(spaces[k]) \in Nat
  BY DEF Typed
<1>2. Fits(i)
  BY <1>1, FitsBelow DEF Room
<1> QED BY <1>1, <1>2, Decodes DEF SpaceOf

----------------------------------------------------------------------------
(* The tables only grow, and what was spelt with them stays so. *)

MoreNames(old, new) == \A s \in Strings : old[s] # NoId => new[s] = old[s]
MoreIndex(old, new) == \A p \in DOMAIN old : p \in DOMAIN new /\ new[p] = old[p]
MoreEntries(old, new) ==
    \A k \in ShardSet : \A i \in DOMAIN old[k] : i \in DOMAIN new[k] /\ new[k][i] = old[k][i]

Grows ==
    /\ program' = program
    /\ MoreNames(strIndex, strIndex')
    /\ MoreIndex(nsIndex, nsIndex')
    /\ MoreEntries(spaces, spaces')

(* What a sequence is made of. *)
LEMMA Elements ==
    ASSUME NEW S, NEW q \in Seq(S)
    PROVE  \A i \in DOMAIN q : q[i] \in S
OBVIOUS

(* What is known of a unit of a program. *)
LEMMA UnitFacts ==
    ASSUME NEW p \in Programs, NEW u \in DOMAIN p
    PROVE  /\ u \in Nat
           /\ p[u].parses \in BOOLEAN
           /\ p[u].spaces \in Seq([parent : Nat, name : Strings])
           /\ p[u].types \in Seq([kind : Nat, space : Nat, name : Strings])
           /\ p[u].producer \in Strings \cup {NoProducer}
           /\ \A i \in DOMAIN p[u].spaces : p[u].spaces[i].parent < i
           /\ \A i \in DOMAIN p[u].types : p[u].types[i].space \in 0 .. Len(p[u].spaces)
           /\ \A i \in DOMAIN p[u].spaces : /\ p[u].spaces[i].name \in Strings
                                            /\ p[u].spaces[i].parent \in Nat
           /\ \A i \in DOMAIN p[u].types : /\ p[u].types[i].name \in Strings
                                           /\ p[u].types[i].kind \in Nat
<1>1. UnitOK(p[u]) /\ u \in Nat
  BY ReaderAssumption
<1>2. p[u] \in Unit
  BY <1>1 DEF UnitOK
<1>3. /\ p[u].parses \in BOOLEAN
      /\ p[u].spaces \in Seq([parent : Nat, name : Strings])
      /\ p[u].types \in Seq([kind : Nat, space : Nat, name : Strings])
      /\ p[u].producer \in Strings \cup {NoProducer}
  BY <1>2 DEF Unit
<1>4. \A i \in DOMAIN p[u].spaces : p[u].spaces[i] \in [parent : Nat, name : Strings]
  BY <1>3, Elements
<1>5. \A i \in DOMAIN p[u].types : p[u].types[i] \in [kind : Nat, space : Nat, name : Strings]
  BY <1>3, Elements
<1> QED BY <1>1, <1>3, <1>4, <1>5 DEF UnitOK

(* Namespaces spelt stay so. *)
LEMMA SpeltKept ==
    ASSUME NEW listed, NEW m, NEW names, NEW index, NEW names2, NEW index2,
           \A i \in DOMAIN m : listed[i].name \in Strings,
           DOMAIN index \subseteq MaybeId \X Ids,
           MoreNames(names, names2), MoreIndex(index, index2),
           Spelt(listed, names, index, m)
    PROVE  Spelt(listed, names2, index2, m)
<1> SUFFICES ASSUME NEW i \in DOMAIN m
             PROVE  LET pair == <<Over(m, listed[i].parent), names2[listed[i].name]>>
                    IN pair \in DOMAIN index2 /\ m[i] = index2[pair]
  BY DEF Spelt
<1> DEFINE pair == <<Over(m, listed[i].parent), names[listed[i].name]>>
<1>1. pair \in DOMAIN index /\ m[i] = index[pair]
  BY DEF Spelt
<1>2. names[listed[i].name] \in Ids
  BY <1>1
<1>3. names[listed[i].name] # NoId
  BY <1>2 DEF Ids, NoId
<1>4. names2[listed[i].name] = names[listed[i].name]
  BY <1>3 DEF MoreNames
<1> QED BY <1>1, <1>4 DEF MoreIndex

(* Types do. *)
LEMMA TypeKept ==
    ASSUME NEW source, NEW m, NEW t, NEW names, NEW names2, source.name \in Strings,
           MoreNames(names, names2), TypeSpelt(source, names, m, t)
    PROVE  TypeSpelt(source, names2, m, t)
BY DEF TypeSpelt, MoreNames

(* And producers. *)
LEMMA ProducerKept ==
    ASSUME NEW source \in Strings \cup {NoProducer}, NEW id, NEW names, NEW names2,
           MoreNames(names, names2), ProducerSpelt(source, names, id)
    PROVE  ProducerSpelt(source, names2, id)
BY DEF ProducerSpelt, MoreNames

(* An entry keeps its depth. *)
LEMMA DepthKept ==
    ASSUME NEW old, NEW new, NEW id, NEW depth, MoreEntries(old, new), DepthIs(old, id, depth)
    PROVE  DepthIs(new, id, depth)
BY DEF MoreEntries, DepthIs

(* A unit all spelt stays so. *)
LEMMA WholeKept ==
    ASSUME NEW p \in Programs, NEW u \in DOMAIN p, NEW ts,
           NEW names, NEW index, NEW names2, NEW index2,
           DOMAIN index \subseteq MaybeId \X Ids,
           MoreNames(names, names2), MoreIndex(index, index2),
           Whole(p[u], names, index, ts)
    PROVE  Whole(p[u], names2, index2, ts)
<1>1. PICK m \in Seq(Ids) :
        /\ Len(m) = Len(p[u].spaces)
        /\ Spelt(p[u].spaces, names, index, m)
        /\ \A i \in DOMAIN p[u].types : TypeSpelt(p[u].types[i], names, m, ts[i])
  BY DEF Whole
<1>2. \A i \in DOMAIN m : p[u].spaces[i].name \in Strings
  BY <1>1, UnitFacts
<1>3. Spelt(p[u].spaces, names2, index2, m)
  BY <1>1, <1>2, SpeltKept
<1>4. \A i \in DOMAIN p[u].types : TypeSpelt(p[u].types[i], names2, m, ts[i])
  BY <1>1, UnitFacts, TypeKept
<1> QED BY <1>1, <1>3, <1>4 DEF Whole

(* And one spelt in part. *)
LEMMA SpellingKept ==
    ASSUME NEW p \in Programs, NEW u \in DOMAIN p,
           NEW m \in Seq(Ids), NEW ts \in Seq(InternedType),
           NEW names, NEW index, NEW names2, NEW index2,
           DOMAIN index \subseteq MaybeId \X Ids,
           MoreNames(names, names2), MoreIndex(index, index2),
           Spelling(p[u], names, index, m, ts)
    PROVE  Spelling(p[u], names2, index2, m, ts)
<1>1. \A i \in DOMAIN m : p[u].spaces[i].name \in Strings
  BY UnitFacts DEF Spelling
<1>2. Spelt(p[u].spaces, names2, index2, m)
  BY <1>1, SpeltKept DEF Spelling
<1>3. ASSUME NEW i \in DOMAIN ts
      PROVE  TypeSpelt(p[u].types[i], names2, m, ts[i])
  <2>1. p[u].types[i].name \in Strings
    BY UnitFacts DEF Spelling
  <2> QED BY <2>1, TypeKept DEF Spelling
<1> QED BY <1>2, <1>3 DEF Spelling

(* One more namespace, and one more type. *)
LEMMA SpellingSpace ==
    ASSUME NEW p \in Programs, NEW u \in DOMAIN p,
           NEW m \in Seq(Ids), NEW ts \in Seq(InternedType), NEW names, NEW index,
           NEW pair \in DOMAIN index, index[pair] \in Ids,
           Spelling(p[u], names, index, m, ts),
           Len(m) < Len(p[u].spaces),
           pair = <<Over(m, p[u].spaces[Len(m) + 1].parent), names[p[u].spaces[Len(m) + 1].name]>>
    PROVE  Spelling(p[u], names, index, Append(m, index[pair]), ts)
<1> DEFINE n == Append(m, index[pair])
<1>1. /\ n \in Seq(Ids) /\ Len(n) = Len(m) + 1 /\ n[Len(m) + 1] = index[pair]
      /\ \A i \in DOMAIN m : n[i] = m[i]
      /\ \A i \in DOMAIN n : i \in DOMAIN m \/ i = Len(m) + 1
      /\ Len(m) \in Nat /\ DOMAIN m = 1 .. Len(m)
  OBVIOUS
<1> HIDE DEF n
<1>2. ASSUME NEW j \in 0 .. Len(m)
      PROVE  Over(n, j) = Over(m, j)
  <2>1. j = 0 \/ j \in DOMAIN m
    BY <1>1
  <2> QED BY <2>1, <1>1 DEF Over
<1>3. \A i \in DOMAIN n : p[u].spaces[i].parent \in 0 .. Len(m)
  <2>1. /\ p[u].spaces \in Seq([parent : Nat, name : Strings])
        /\ \A i \in DOMAIN p[u].spaces : p[u].spaces[i].parent \in Nat /\ p[u].spaces[i].parent < i
    BY UnitFacts
  <2>2. \A i \in DOMAIN n : i \in DOMAIN p[u].spaces /\ i \in 1 .. Len(m) + 1
    BY <1>1, <2>1
  <2> QED BY <1>1, <2>1, <2>2
<1>4. Spelt(p[u].spaces, names, index, n)
  <2> SUFFICES ASSUME NEW i \in DOMAIN n
               PROVE  LET q == <<Over(n, p[u].spaces[i].parent), names[p[u].spaces[i].name]>>
                      IN q \in DOMAIN index /\ n[i] = index[q]
    BY DEF Spelt
  <2>1. Over(n, p[u].spaces[i].parent) = Over(m, p[u].spaces[i].parent)
    BY <1>2, <1>3
  <2>2. CASE i \in DOMAIN m
    BY <2>1, <2>2, <1>1 DEF Spelling, Spelt
  <2>3. CASE i = Len(m) + 1
    BY <2>1, <2>3, <1>1
  <2> QED BY <2>2, <2>3, <1>1
<1>5. \A i \in DOMAIN ts : TypeSpelt(p[u].types[i], names, n, ts[i])
  BY <1>1, <1>2 DEF Spelling, TypeSpelt
<1>6. Len(n) <= Len(p[u].spaces) /\ Len(ts) <= Len(p[u].types)
  BY <1>1, UnitFacts DEF Spelling
<1> QED BY <1>4, <1>5, <1>6 DEF Spelling, n

(* The next type. *)
LEMMA SpellingType ==
    ASSUME NEW p \in Programs, NEW u \in DOMAIN p,
           NEW m \in Seq(Ids), NEW ts \in Seq(InternedType), NEW names, NEW index,
           NEW t \in InternedType,
           Spelling(p[u], names, index, m, ts), Len(ts) < Len(p[u].types),
           TypeSpelt(p[u].types[Len(ts) + 1], names, m, t)
    PROVE  Spelling(p[u], names, index, m, Append(ts, t))
<1> DEFINE n == Append(ts, t)
<1>1. /\ Len(n) = Len(ts) + 1 /\ n[Len(ts) + 1] = t
      /\ \A i \in DOMAIN ts : n[i] = ts[i]
      /\ \A i \in DOMAIN n : i \in DOMAIN ts \/ i = Len(ts) + 1
      /\ Len(ts) \in Nat
  OBVIOUS
<1> HIDE DEF n
<1>2. \A i \in DOMAIN n : TypeSpelt(p[u].types[i], names, m, n[i])
  BY <1>1 DEF Spelling
<1>3. Len(n) <= Len(p[u].types)
  BY <1>1, UnitFacts
<1> QED BY <1>2, <1>3 DEF Spelling, n

(* A worker that another one's step leaves alone is as it was. *)
LEMMA WorkerKept ==
    ASSUME Typed, Grows, NEW w \in Workers, WorkerOK(w), worker'[w] = worker[w],
           \A s \in Strings : cache[w][s] # NoId => cache'[w][s] = cache[w][s]
    PROVE  WorkerOK(w)'
<1> SUFFICES ASSUME worker[w].at # "idle"
             PROVE  WorkerOK(w)'
  BY DEF WorkerOK
<1> DEFINE me == worker[w]
           unit == program[me.unit]
<1>1. /\ me.unit \in DOMAIN program /\ Unfinished(w) = unit /\ Unfinished(w)' = unit
      /\ worker'[w] = me /\ program' = program /\ program \in Programs /\ me \in WorkerType
  BY DEF WorkerOK, Unfinished, Grows, Typed
<1>2. /\ unit.spaces \in Seq([parent : Nat, name : Strings])
      /\ unit.types \in Seq([kind : Nat, space : Nat, name : Strings])
      /\ unit.producer \in Strings \cup {NoProducer}
      /\ \A i \in DOMAIN unit.spaces : unit.spaces[i].name \in Strings
      /\ \A i \in DOMAIN unit.types : unit.types[i].name \in Strings
  BY <1>1, UnitFacts
<1>3. /\ Spelling(unit, strIndex, nsIndex, me.remap, me.done)
      /\ AtASpace(w) /\ AtTheEnd(w) /\ (me.at # "parse" => unit.parses)
  BY <1>1 DEF WorkerOK
<1>4. me.remap \in Seq(Ids) /\ me.done \in Seq(InternedType)
  BY <1>1 DEF WorkerType
<1> HIDE DEF me, unit
<1>5. Spelling(unit, strIndex', nsIndex', me.remap, me.done)
  BY <1>1, <1>3, <1>4, SpellingKept DEF Grows, Typed, unit
<1>6. AtASpace(w)'
  <2> SUFFICES ASSUME me.at \in {"find", "depth", "insert"}
               PROVE  AtASpace(w)'
    BY <1>1 DEF AtASpace, me
  <2>1. Here(w)' = Here(w) /\ SpaceHere(w)' = SpaceHere(w) /\ ParentHere(w)' = ParentHere(w)
    BY <1>1 DEF Here, SpaceHere, ParentHere, Unfinished, me, unit
  <2>2. Here(w) <= Len(unit.spaces) /\ cache[w][SpaceHere(w).name] # NoId
    BY <1>1, <1>3 DEF AtASpace, me
  <2>3. SpaceHere(w).name \in Strings
    BY <1>1, <1>2, <1>4, <2>2 DEF SpaceHere, Here, me
  <2>4. cache'[w][SpaceHere(w).name] # NoId
    BY <2>2, <2>3
  <2>5. me.at = "insert" => me.depth # 0 /\ DepthIs(spaces', ParentHere(w), me.depth - 1)
    BY <1>1, <1>3, DepthKept DEF AtASpace, Grows, me
  <2> QED BY <1>1, <2>1, <2>2, <2>4, <2>5 DEF AtASpace, me
<1>7. AtTheEnd(w)'
  BY <1>1, <1>2, <1>3 DEF AtTheEnd, me
<1> QED BY <1>1, <1>3, <1>5, <1>6, <1>7 DEF WorkerOK, me, unit

----------------------------------------------------------------------------
(* The two tables, under their shards' locks. *)

(* ShardedInterner: a string keeps the id it was first given. *)
LEMMA InternIs ==
    ASSUME Typed, StringsKept, CacheKept, NEW w \in Workers, NEW s \in Strings, Intern(w, s)
    PROVE  /\ cache' \in [Workers -> [Strings -> MaybeId]]
           /\ strings' \in [ShardSet -> Seq(Strings)]
           /\ strIndex' \in [Strings -> MaybeId]
           /\ MoreNames(strIndex, strIndex')
           /\ StringsKept' /\ CacheKept'
           /\ \A v \in Workers \ {w} : cache'[v] = cache[v]
           /\ \A r \in Strings : cache[w][r] # NoId => cache'[w][r] = cache[w][r]
           /\ cache'[w][s] # NoId
<1> DEFINE k == ShardOf[s]
           id == Encode(k, Len(strings[k]))
<1>0. /\ k \in ShardSet /\ strings[k] \in Seq(Strings) /\ Len(strings[k]) \in Nat
      /\ cache \in [Workers -> [Strings -> MaybeId]]
      /\ strIndex \in [Strings -> MaybeId] /\ strings \in [ShardSet -> Seq(Strings)]
  BY ReaderAssumption DEF Typed
<1>00. id \in MaybeId /\ id # NoId
  BY <1>0, EncodeType DEF MaybeId
<1>1. CASE cache[w][s] # NoId /\ UNCHANGED interner
  BY <1>0, <1>1 DEF interner, MoreNames, StringsKept, CacheKept
<1>2. CASE /\ cache[w][s] = NoId /\ strIndex[s] # NoId
           /\ cache' = [cache EXCEPT ![w][s] = strIndex[s]]
           /\ UNCHANGED <<strings, strIndex>>
  <2>1. /\ cache' \in [Workers -> [Strings -> MaybeId]] /\ cache'[w][s] = strIndex[s]
        /\ \A r \in Strings : r # s => cache'[w][r] = cache[w][r]
        /\ \A v \in Workers \ {w} : cache'[v] = cache[v]
    BY <1>0, <1>2
  <2> QED BY <1>0, <1>2, <2>1 DEF MoreNames, StringsKept, CacheKept
<1>3. CASE /\ cache[w][s] = NoId /\ strIndex[s] = NoId
           /\ strIndex' = [strIndex EXCEPT ![s] = id]
           /\ strings' = [strings EXCEPT ![k] = Append(@, s)]
           /\ cache' = [cache EXCEPT ![w][s] = id]
  <2> HIDE DEF id
  <2>1. /\ cache' \in [Workers -> [Strings -> MaybeId]] /\ cache'[w][s] = id
        /\ \A r \in Strings : r # s => cache'[w][r] = cache[w][r]
        /\ \A v \in Workers \ {w} : cache'[v] = cache[v]
    BY <1>0, <1>00, <1>3
  <2>2. /\ strIndex' \in [Strings -> MaybeId] /\ strIndex'[s] = id
        /\ \A r \in Strings : r # s => strIndex'[r] = strIndex[r]
    BY <1>0, <1>00, <1>3
  <2>3. /\ strings' \in [ShardSet -> Seq(Strings)]
        /\ Len(strings'[k]) = Len(strings[k]) + 1
        /\ strings'[k][Len(strings[k]) + 1] = s
        /\ \A j \in ShardSet : \A i \in DOMAIN strings[j] :
              i \in DOMAIN strings'[j] /\ strings'[j][i] = strings[j][i]
    BY <1>0, <1>3
  <2>4. MoreNames(strIndex, strIndex')
    BY <1>3, <2>2 DEF MoreNames
  <2>5. CacheKept'
    BY <1>3, <2>1, <2>2 DEF CacheKept
  <2>6. StringsKept'
    <3> SUFFICES ASSUME NEW r \in Strings, strIndex'[r] # NoId
                 PROVE  \E i \in DOMAIN strings'[ShardOf[r]] :
                            /\ strings'[ShardOf[r]][i] = r
                            /\ strIndex'[r] = Encode(ShardOf[r], i - 1)
      BY DEF StringsKept
    <3>1. CASE r = s
      <4>1. Len(strings[k]) + 1 \in DOMAIN strings'[k] /\ (Len(strings[k]) + 1) - 1 = Len(strings[k])
        BY <1>0, <2>3
      <4> QED BY <3>1, <4>1, <2>2, <2>3 DEF id
    <3>2. CASE r # s
      <4>1. PICK i \in DOMAIN strings[ShardOf[r]] :
              /\ strings[ShardOf[r]][i] = r
              /\ strIndex[r] = Encode(ShardOf[r], i - 1)
        BY <3>2, <2>2 DEF StringsKept
      <4>2. ShardOf[r] \in ShardSet
        BY ReaderAssumption
      <4> QED BY <3>2, <4>1, <4>2, <2>2, <2>3
    <3> QED BY <3>1, <3>2
  <2> QED BY <1>3, <1>00, <2>1, <2>2, <2>3, <2>4, <2>5, <2>6
<1> QED BY <1>1, <1>2, <1>3 DEF Intern

(* The namespace a worker is at has a parent and a name with ids. *)
LEMMA HereFacts ==
    ASSUME Typed, CacheKept, NEW w \in Workers, WorkerOK(w),
           worker[w].at \in {"find", "depth", "insert"}
    PROVE  /\ Here(w) \in DOMAIN Unfinished(w).spaces
           /\ SpaceHere(w).name \in Strings
           /\ NameHere(w) = strIndex[SpaceHere(w).name] /\ NameHere(w) \in Ids
           /\ SpaceHere(w).parent \in 0 .. Len(worker[w].remap)
           /\ ParentHere(w) = Over(worker[w].remap, SpaceHere(w).parent)
           /\ ParentHere(w) \in MaybeId
           /\ PairHere(w) \in MaybeId \X Ids
           /\ NsShardOf(ParentHere(w), NameHere(w)) \in ShardSet
<1>1. /\ worker[w].unit \in DOMAIN program /\ program \in Programs
      /\ worker[w].remap \in Seq(Ids) /\ Len(worker[w].remap) \in Nat
  BY DEF WorkerOK, Typed, WorkerType
<1>2. /\ Here(w) \in DOMAIN Unfinished(w).spaces /\ cache[w][SpaceHere(w).name] # NoId
      /\ Here(w) = Len(worker[w].remap) + 1
  BY <1>1, UnitFacts DEF WorkerOK, AtASpace, Here, Unfinished
<1>3. /\ SpaceHere(w).name \in Strings
      /\ SpaceHere(w).parent \in Nat /\ SpaceHere(w).parent < Here(w)
  BY <1>1, <1>2, UnitFacts DEF SpaceHere, Unfinished
<1>4. NameHere(w) = strIndex[SpaceHere(w).name] /\ NameHere(w) # NoId
  BY <1>2, <1>3 DEF CacheKept, NameHere
<1>5. NameHere(w) \in Ids
  BY <1>3, <1>4 DEF Typed, MaybeId
<1>6. SpaceHere(w).parent \in 0 .. Len(worker[w].remap)
  BY <1>1, <1>2, <1>3
<1>7. ParentHere(w) \in MaybeId /\ ParentHere(w) = Over(worker[w].remap, SpaceHere(w).parent)
  BY <1>1, <1>6 DEF ParentHere, Over, MaybeId
<1>8. ParentHere(w) \in 0 .. IdSpace /\ NameHere(w) \in 0 .. IdSpace
  BY <1>5, <1>7, ReaderAssumption DEF MaybeId, Ids, NoId
<1>9. NsShardOf(ParentHere(w), NameHere(w)) \in ShardSet
  BY <1>8, ReaderAssumption
<1> QED BY <1>2, <1>3, <1>4, <1>5, <1>6, <1>7, <1>9 DEF PairHere

(* ShardedNamespaces: whichever worker comes first makes the entry, and    *)
(* the others find it.                                                    *)
LEMMA InsertIs ==
    ASSUME Typed, TablesInv, CacheKept, NEW w \in Workers, WorkerOK(w), InsertSpace(w)
    PROVE  /\ spaces' \in [ShardSet -> Seq(SpaceType)]
           /\ DOMAIN nsIndex' \subseteq MaybeId \X Ids
           /\ \A p \in DOMAIN nsIndex' : nsIndex'[p] \in Ids
           /\ MoreIndex(nsIndex, nsIndex') /\ MoreEntries(spaces, spaces')
           /\ SpacesKept' /\ SpacesNest'
           /\ PairHere(w) \in DOMAIN nsIndex'
           /\ worker' = [worker EXCEPT ![w] = Named(w, nsIndex'[PairHere(w)])]
<1> DEFINE k == NsShardOf(ParentHere(w), NameHere(w))
           id == Encode(k, Len(spaces[k]))
           new == [name |-> NameHere(w), parent |-> ParentHere(w), depth |-> worker[w].depth]
<1>0. /\ k \in ShardSet /\ spaces \in [ShardSet -> Seq(SpaceType)]
      /\ Len(spaces[k]) \in Nat /\ worker[w].at = "insert" /\ strIndex' = strIndex
      /\ PairHere(w) \in MaybeId \X Ids /\ new \in SpaceType /\ PairOf(new) = PairHere(w)
      /\ \E s \in Strings : strIndex[s] = new.name
      /\ new.depth # 0 /\ DepthIs(spaces, new.parent, new.depth - 1)
  <2>1. worker[w].at = "insert" /\ strIndex' = strIndex
    BY DEF InsertSpace, interner
  <2>2. worker[w].depth \in Nat
    BY DEF Typed, WorkerType
  <2>3. worker[w].depth # 0 /\ DepthIs(spaces, ParentHere(w), worker[w].depth - 1)
    BY <2>1 DEF WorkerOK, AtASpace
  <2>4. /\ SpaceHere(w).name \in Strings
        /\ NameHere(w) = strIndex[SpaceHere(w).name] /\ NameHere(w) \in Ids
        /\ ParentHere(w) \in MaybeId /\ PairHere(w) \in MaybeId \X Ids
        /\ NsShardOf(ParentHere(w), NameHere(w)) \in ShardSet
    BY <2>1, HereFacts
  <2>5. spaces \in [ShardSet -> Seq(SpaceType)] /\ Len(spaces[k]) \in Nat
    BY <2>4 DEF Typed
  <2>6. new \in SpaceType /\ PairOf(new) = PairHere(w)
    BY <2>2, <2>4 DEF SpaceType, PairOf, PairHere
  <2> QED BY <2>1, <2>3, <2>4, <2>5, <2>6
<1>00. id \in Ids
  BY <1>0, EncodeType
<1>1. CASE /\ PairHere(w) \in DOMAIN nsIndex
           /\ worker' = [worker EXCEPT ![w] = Named(w, nsIndex[PairHere(w)])]
           /\ UNCHANGED namespaces
  BY <1>0, <1>1 DEF Typed, TablesInv, SpacesKept, SpacesNest, MoreIndex, MoreEntries, namespaces
<1>2. CASE /\ PairHere(w) \notin DOMAIN nsIndex
           /\ spaces' = [spaces EXCEPT ![k] = Append(@, new)]
           /\ nsIndex' = [p \in DOMAIN nsIndex \cup {PairHere(w)} |->
                            IF p = PairHere(w) THEN id ELSE nsIndex[p]]
           /\ worker' = [worker EXCEPT ![w] = Named(w, id)]
  <2> HIDE DEF id, new, k
  <2>1. /\ DOMAIN nsIndex' = DOMAIN nsIndex \cup {PairHere(w)} /\ nsIndex'[PairHere(w)] = id
        /\ \A p \in DOMAIN nsIndex : nsIndex'[p] = nsIndex[p]
    BY <1>2
  <2>2. /\ spaces' \in [ShardSet -> Seq(SpaceType)]
        /\ Len(spaces'[k]) = Len(spaces[k]) + 1
        /\ spaces'[k][Len(spaces[k]) + 1] = new
        /\ \A j \in ShardSet : \A i \in DOMAIN spaces[j] :
              i \in DOMAIN spaces'[j] /\ spaces'[j][i] = spaces[j][i]
        /\ \A j \in ShardSet : \A i \in DOMAIN spaces'[j] :
              i \in DOMAIN spaces[j] \/ (j = k /\ i = Len(spaces[k]) + 1)
    BY <1>0, <1>2
  <2>3. /\ Len(spaces[k]) + 1 \in DOMAIN spaces'[k]
        /\ (Len(spaces[k]) + 1) - 1 = Len(spaces[k])
    BY <1>0, <2>2
  <2>4. MoreIndex(nsIndex, nsIndex') /\ MoreEntries(spaces, spaces')
    BY <2>1, <2>2 DEF MoreIndex, MoreEntries
  <2>5. /\ DOMAIN nsIndex' \subseteq MaybeId \X Ids
        /\ \A p \in DOMAIN nsIndex' : nsIndex'[p] \in Ids
    BY <1>0, <1>00, <2>1 DEF Typed
  <2>6. SpacesKept'
    <3>1. ASSUME NEW p \in DOMAIN nsIndex'
          PROVE  \E j \in ShardSet : \E i \in DOMAIN spaces'[j] :
                    PairOf(spaces'[j][i]) = p /\ nsIndex'[p] = Encode(j, i - 1)
      <4>1. CASE p = PairHere(w)
        BY <4>1, <1>0, <2>1, <2>2, <2>3 DEF id
      <4>2. CASE p \in DOMAIN nsIndex
        <5>1. PICK j \in ShardSet : \E i \in DOMAIN spaces[j] :
                PairOf(spaces[j][i]) = p /\ nsIndex[p] = Encode(j, i - 1)
          BY <4>2 DEF TablesInv, SpacesKept
        <5>2. PICK i \in DOMAIN spaces[j] :
                PairOf(spaces[j][i]) = p /\ nsIndex[p] = Encode(j, i - 1)
          BY <5>1
        <5>3. i \in DOMAIN spaces'[j] /\ spaces'[j][i] = spaces[j][i] /\ nsIndex'[p] = nsIndex[p]
          BY <2>1, <2>2, <4>2
        <5> QED BY <5>2, <5>3
      <4> QED BY <4>1, <4>2, <2>1
    <3>2. ASSUME NEW j \in ShardSet, NEW i \in DOMAIN spaces'[j]
          PROVE  /\ PairOf(spaces'[j][i]) \in DOMAIN nsIndex'
                 /\ nsIndex'[PairOf(spaces'[j][i])] = Encode(j, i - 1)
      <4>1. CASE j = k /\ i = Len(spaces[k]) + 1
        BY <4>1, <1>0, <2>1, <2>2, <2>3 DEF id
      <4>2. CASE i \in DOMAIN spaces[j]
        BY <4>2, <2>1, <2>2 DEF TablesInv, SpacesKept
      <4> QED BY <4>1, <4>2, <2>2
    <3> QED BY <3>1, <3>2 DEF SpacesKept
  <2>7. SpacesNest'
    <3> SUFFICES ASSUME NEW j \in ShardSet, NEW i \in DOMAIN spaces'[j]
                 PROVE  /\ \E s \in Strings : strIndex[s] = spaces'[j][i].name
                        /\ spaces'[j][i].depth # 0
                        /\ DepthIs(spaces', spaces'[j][i].parent, spaces'[j][i].depth - 1)
      BY <1>0 DEF SpacesNest
    <3>1. CASE j = k /\ i = Len(spaces[k]) + 1
      BY <3>1, <1>0, <2>2, <2>4, DepthKept
    <3>2. CASE i \in DOMAIN spaces[j]
      <4>1. /\ \E s \in Strings : strIndex[s] = spaces[j][i].name
            /\ spaces[j][i].depth # 0
            /\ DepthIs(spaces, spaces[j][i].parent, spaces[j][i].depth - 1)
        BY <3>2 DEF TablesInv, SpacesNest
      <4>2. DepthIs(spaces', spaces[j][i].parent, spaces[j][i].depth - 1)
        BY <4>1, <2>4, DepthKept
      <4> QED BY <4>1, <4>2, <3>2, <2>2
    <3> QED BY <3>1, <3>2, <2>2
  <2> QED BY <1>2, <2>1, <2>2, <2>4, <2>5, <2>6, <2>7
<1> QED BY <1>1, <1>2 DEF InsertSpace

----------------------------------------------------------------------------
(* What a worker's step keeps: the tables, the caches, the other workers.  *)

Mine(w) == \A v \in Workers \ {w} : worker'[v] = worker[v] /\ cache'[v] = cache[v]

Works(w) == Typed' /\ TablesInv' /\ CacheKept' /\ Grows /\ Mine(w) /\ WorkerOK(w)'

(* Workers are kept by one worker's step. *)
LEMMA OthersKept ==
    ASSUME Typed, WorkerInv, NEW w \in Workers, Works(w)
    PROVE  WorkerInv'
<1> SUFFICES ASSUME NEW v \in Workers, v # w
             PROVE  WorkerOK(v)'
  BY DEF WorkerInv, Works
<1>1. worker'[v] = worker[v] /\ cache'[v] = cache[v] /\ Grows
  BY DEF Works, Mine
<1>2. WorkerOK(v)
  BY DEF WorkerInv
<1> QED BY <1>1, <1>2, WorkerKept

(* A step that takes no lock to write. *)
LEMMA QuietTables ==
    ASSUME TablesInv, UNCHANGED <<program, strings, strIndex, spaces, nsIndex>>
    PROVE  TablesInv' /\ Grows
BY DEF TablesInv, StringsKept, SpacesKept, SpacesNest, Grows, MoreNames, MoreIndex, MoreEntries

(* A step that may add a string keeps the namespaces. *)
LEMMA NamedTables ==
    ASSUME Typed, TablesInv, StringsKept', MoreNames(strIndex, strIndex'),
           UNCHANGED <<program, spaces, nsIndex>>
    PROVE  TablesInv' /\ Grows
<1>1. Grows
  BY DEF Grows, MoreIndex, MoreEntries
<1>2. SpacesKept'
  BY DEF TablesInv, SpacesKept
<1>3. SpacesNest'
  <2> SUFFICES ASSUME NEW k \in ShardSet, NEW i \in DOMAIN spaces[k]
               PROVE  \E s \in Strings : strIndex'[s] = spaces[k][i].name
    BY DEF TablesInv, SpacesNest
  <2>1. PICK s \in Strings : strIndex[s] = spaces[k][i].name
    BY DEF TablesInv, SpacesNest
  <2>2. spaces[k][i] \in SpaceType
    BY Elements DEF Typed
  <2>3. strIndex[s] # NoId
    BY <2>1, <2>2 DEF SpaceType, Ids, NoId
  <2> QED BY <2>1, <2>3 DEF MoreNames
<1> QED BY <1>1, <1>2, <1>3 DEF TablesInv

(* A worker with a unit just taken. *)
LEMMA TakenIs ==
    ASSUME NEW me \in WorkerType, NEW u \in Nat
    PROVE  LET new == [me EXCEPT !.at = "parse", !.unit = u]
           IN /\ new \in WorkerType /\ new.at = "parse" /\ new.unit = u
              /\ new.remap = me.remap /\ new.done = me.done
BY DEF WorkerType, Places

(* A worker with one more namespace. *)
LEMMA NamedIs ==
    ASSUME NEW me \in WorkerType, NEW id \in Ids
    PROVE  LET new == [me EXCEPT !.remap = Append(@, id), !.at = "intern"]
           IN /\ new \in WorkerType /\ new.at = "intern" /\ new.unit = me.unit
              /\ new.remap = Append(me.remap, id) /\ new.done = me.done
<1>1. me.remap \in Seq(Ids)
  BY DEF WorkerType
<1>2. PICK r \in Seq(Ids) : r = Append(me.remap, id)
  BY <1>1, AppendProperties
<1>3. LET new == [me EXCEPT !.remap = r, !.at = "intern"]
      IN /\ new \in WorkerType /\ new.at = "intern" /\ new.unit = me.unit
         /\ new.remap = r /\ new.done = me.done
  BY DEF WorkerType, Places
<1> QED BY <1>2, <1>3

(* A worker with other types done. *)
LEMMA DoneIs ==
    ASSUME NEW me \in WorkerType, NEW ts \in Seq(InternedType)
    PROVE  LET new == [me EXCEPT !.done = ts]
           IN /\ new \in WorkerType /\ new.at = me.at /\ new.unit = me.unit
              /\ new.remap = me.remap /\ new.done = ts
BY DEF WorkerType

(* A unit just taken has nothing spelt. *)
LEMMA TakeJobStep ==
    ASSUME Typed, TablesInv, CacheKept, WorkerInv,
           NEW w \in Workers, NEW u \in jobs, TakeJob(w, u)
    PROVE  Works(w)
<1> DEFINE me == [Idle EXCEPT !.at = "parse", !.unit = u]
<1>1. /\ UNCHANGED <<program, strings, strIndex, spaces, nsIndex, channel, failed, outcome>>
      /\ jobs' = jobs \ {u} /\ worker' = [worker EXCEPT ![w] = me]
      /\ cache' = [cache EXCEPT ![w] = NoIds]
  BY DEF TakeJob, namespaces
<1>2. u \in DOMAIN program /\ u \in Nat /\ program \in Programs
  BY UnitFacts DEF Typed
<1>3. me \in WorkerType /\ me.at = "parse" /\ me.unit = u /\ me.remap = <<>> /\ me.done = <<>>
  <2>1. Idle \in WorkerType /\ Idle.remap = <<>> /\ Idle.done = <<>>
    BY DEF Idle, WorkerType, Places
  <2> QED BY <2>1, <1>2, TakenIs
<1>4. NoIds \in [Strings -> MaybeId] /\ \A s \in Strings : NoIds[s] = NoId
  BY DEF NoIds, MaybeId
<1> HIDE DEF me
<1>5. /\ worker' \in [Workers -> WorkerType] /\ worker'[w] = me
      /\ cache' \in [Workers -> [Strings -> MaybeId]] /\ cache'[w] = NoIds
      /\ Mine(w)
  BY <1>1, <1>3, <1>4 DEF Typed, Mine
<1>6. Typed'
  BY <1>1, <1>5 DEF Typed
<1>7. CacheKept'
  BY <1>1, <1>4, <1>5 DEF CacheKept, Mine
<1>8. Spelling(program[u], strIndex, nsIndex, <<>>, <<>>)
  <2>1. Len(program[u].spaces) \in Nat /\ Len(program[u].types) \in Nat
    BY <1>2, UnitFacts
  <2>2. DOMAIN <<>> = {} /\ Len(<<>>) = 0
    OBVIOUS
  <2> QED BY <2>1, <2>2 DEF Spelling, Spelt
<1>9. WorkerOK(w)'
  BY <1>1, <1>2, <1>3, <1>5, <1>8 DEF WorkerOK, Unfinished, AtASpace, AtTheEnd
<1> QED BY <1>1, <1>5, <1>6, <1>7, <1>9, QuietTables DEF Works

(* A unit parsed goes on, one that does not parse is let go. *)
LEMMA ParseJobStep ==
    ASSUME Typed, TablesInv, CacheKept, WorkerInv, NEW w \in Workers, ParseJob(w)
    PROVE  Works(w)
<1>1. /\ UNCHANGED <<program, jobs, cache, strings, strIndex, spaces, nsIndex, channel, outcome>>
      /\ failed' \in BOOLEAN /\ worker[w].at = "parse"
  BY DEF ParseJob, namespaces, interner, Typed
<1>2. \/ Unfinished(w).parses /\ worker' = [worker EXCEPT ![w].at = "intern"]
      \/ worker' = [worker EXCEPT ![w] = Idle]
  BY DEF ParseJob
<1>3. WorkerOK(w) /\ worker[w] \in WorkerType
  BY DEF WorkerInv, Typed
<1>4. CASE worker' = [worker EXCEPT ![w] = Idle]
  <2>1. /\ worker' \in [Workers -> WorkerType] /\ worker'[w].at = "idle" /\ Mine(w)
    BY <1>1, <1>4 DEF Typed, Mine, Idle, WorkerType, Places
  <2>2. Typed' /\ CacheKept' /\ WorkerOK(w)'
    BY <1>1, <2>1 DEF Typed, CacheKept, WorkerOK
  <2> QED BY <1>1, <2>1, <2>2, QuietTables DEF Works
<1>5. CASE Unfinished(w).parses /\ worker' = [worker EXCEPT ![w].at = "intern"]
  <2>1. /\ worker' \in [Workers -> WorkerType] /\ Mine(w)
        /\ worker'[w].at = "intern" /\ worker'[w].unit = worker[w].unit
        /\ worker'[w].remap = worker[w].remap /\ worker'[w].done = worker[w].done
    BY <1>1, <1>3, <1>5 DEF Typed, Mine, WorkerType, Places
  <2>2. Typed' /\ CacheKept'
    BY <1>1, <2>1 DEF Typed, CacheKept
  <2>3. WorkerOK(w)'
    BY <1>1, <1>3, <1>5, <2>1 DEF WorkerOK, Unfinished, AtASpace, AtTheEnd
  <2> QED BY <1>1, <2>1, <2>2, <2>3, QuietTables DEF Works
<1> QED BY <1>2, <1>4, <1>5

(* A namespace's name is in the cache once interned. *)
LEMMA InternSpaceNameStep ==
    ASSUME Typed, TablesInv, CacheKept, WorkerInv, NEW w \in Workers, InternSpaceName(w)
    PROVE  Works(w)
<1>1. /\ UNCHANGED <<program, jobs, spaces, nsIndex, channel, failed, outcome>>
      /\ worker[w].at = "intern" /\ Here(w) <= Len(Unfinished(w).spaces)
      /\ Intern(w, SpaceHere(w).name) /\ worker' = [worker EXCEPT ![w].at = "find"]
  BY DEF InternSpaceName, namespaces
<1>2. /\ WorkerOK(w) /\ worker[w] \in WorkerType /\ program \in Programs
      /\ worker[w].remap \in Seq(Ids) /\ worker[w].done \in Seq(InternedType)
  BY DEF WorkerInv, Typed, WorkerType
<1>3. worker[w].unit \in DOMAIN program /\ Unfinished(w) = program[worker[w].unit]
  BY <1>1, <1>2 DEF WorkerOK, Unfinished
<1>4. SpaceHere(w).name \in Strings
  <2>1. /\ Unfinished(w).spaces \in Seq([parent : Nat, name : Strings])
        /\ \A i \in DOMAIN Unfinished(w).spaces : Unfinished(w).spaces[i].name \in Strings
    BY <1>2, <1>3, UnitFacts
  <2>2. Here(w) \in DOMAIN Unfinished(w).spaces
    BY <1>1, <1>2, <2>1 DEF Here
  <2> QED BY <2>1, <2>2 DEF SpaceHere
<1>5. /\ worker' \in [Workers -> WorkerType] /\ worker'[w].at = "find"
      /\ worker'[w].unit = worker[w].unit /\ worker'[w].depth = worker[w].depth
      /\ worker'[w].remap = worker[w].remap /\ worker'[w].done = worker[w].done
      /\ \A v \in Workers \ {w} : worker'[v] = worker[v]
  BY <1>1, <1>2 DEF Typed, WorkerType, Places
<1>6. /\ cache' \in [Workers -> [Strings -> MaybeId]]
      /\ strings' \in [ShardSet -> Seq(Strings)]
      /\ strIndex' \in [Strings -> MaybeId]
      /\ MoreNames(strIndex, strIndex')
      /\ StringsKept' /\ CacheKept'
      /\ \A v \in Workers \ {w} : cache'[v] = cache[v]
      /\ cache'[w][SpaceHere(w).name] # NoId
  BY <1>1, <1>4, InternIs DEF TablesInv
<1>7. TablesInv' /\ Grows
  BY <1>1, <1>6, NamedTables
<1>8. Typed' /\ Mine(w)
  BY <1>1, <1>5, <1>6 DEF Typed, Mine
<1>9. WorkerOK(w)'
  <2>1. Spelling(Unfinished(w), strIndex, nsIndex, worker[w].remap, worker[w].done)
    BY <1>1, <1>2 DEF WorkerOK
  <2>2. Spelling(Unfinished(w), strIndex', nsIndex', worker[w].remap, worker[w].done)
    BY <2>1, <1>2, <1>3, <1>7, SpellingKept DEF Grows, Typed
  <2>3. Unfinished(w)' = Unfinished(w) /\ Here(w)' = Here(w) /\ SpaceHere(w)' = SpaceHere(w)
    BY <1>1, <1>5 DEF Unfinished, Here, SpaceHere
  <2>4. Unfinished(w).parses
    BY <1>1, <1>2 DEF WorkerOK
  <2>5. AtASpace(w)'
    BY <1>1, <1>5, <1>6, <2>3 DEF AtASpace
  <2> QED BY <1>1, <1>3, <1>5, <2>2, <2>3, <2>4, <2>5 DEF WorkerOK, AtTheEnd
<1> QED BY <1>6, <1>7, <1>8, <1>9 DEF Works

(* The namespace a worker was at, found or made. *)
LEMMA NamedStep ==
    ASSUME Typed, CacheKept, NEW w \in Workers, WorkerOK(w),
           worker[w].at \in {"find", "insert"}, Grows,
           strIndex' = strIndex, cache' = cache,
           \A p \in DOMAIN nsIndex' : nsIndex'[p] \in Ids,
           PairHere(w) \in DOMAIN nsIndex',
           worker' = [worker EXCEPT ![w] = Named(w, nsIndex'[PairHere(w)])]
    PROVE  worker' \in [Workers -> WorkerType] /\ Mine(w) /\ WorkerOK(w)'
<1> DEFINE id == nsIndex'[PairHere(w)]
<1>1. /\ id \in Ids /\ worker[w] \in WorkerType /\ program \in Programs
      /\ worker[w].remap \in Seq(Ids) /\ worker[w].done \in Seq(InternedType)
      /\ worker[w].unit \in DOMAIN program /\ Unfinished(w) = program[worker[w].unit]
  BY DEF Typed, WorkerType, WorkerOK, Unfinished
<1>2. /\ Named(w, id) \in WorkerType /\ Named(w, id).at = "intern"
      /\ Named(w, id).unit = worker[w].unit
      /\ Named(w, id).remap = Append(worker[w].remap, id) /\ Named(w, id).done = worker[w].done
  BY <1>1, NamedIs DEF Named
<1> HIDE DEF id
<1>3. worker' \in [Workers -> WorkerType] /\ worker'[w] = Named(w, id) /\ Mine(w)
  BY <1>1, <1>2 DEF Typed, Mine, id
<1>4. PairHere(w) = <<Over(worker[w].remap, SpaceHere(w).parent), strIndex[SpaceHere(w).name]>>
  BY HereFacts DEF PairHere
<1>5. SpaceHere(w) = Unfinished(w).spaces[Len(worker[w].remap) + 1]
  BY DEF SpaceHere, Here
<1>6. Spelling(Unfinished(w), strIndex, nsIndex', worker[w].remap, worker[w].done)
  BY <1>1, SpellingKept DEF WorkerOK, Grows, Typed
<1>7. Len(worker[w].remap) < Len(Unfinished(w).spaces)
  <2>1. Here(w) \in DOMAIN Unfinished(w).spaces /\ Here(w) = Len(worker[w].remap) + 1
    BY HereFacts DEF Here
  <2>2. Unfinished(w).spaces \in Seq([parent : Nat, name : Strings])
    BY <1>1, UnitFacts
  <2> QED BY <1>1, <2>1, <2>2
<1>8. Spelling(Unfinished(w), strIndex, nsIndex', Append(worker[w].remap, id), worker[w].done)
  BY <1>1, <1>4, <1>5, <1>6, <1>7, SpellingSpace DEF id
<1>9. Unfinished(w)' = Unfinished(w)
  BY <1>1, <1>2, <1>3 DEF Unfinished, Grows
<1>10. WorkerOK(w)'
  BY <1>1, <1>2, <1>3, <1>8, <1>9 DEF WorkerOK, AtASpace, AtTheEnd, Grows
<1> QED BY <1>3, <1>10

(* A namespace the index has is taken from it. *)
LEMMA FindSpaceStep ==
    ASSUME Typed, TablesInv, CacheKept, WorkerInv, NEW w \in Workers, FindSpace(w)
    PROVE  Works(w)
<1>1. /\ UNCHANGED <<program, jobs, cache, strings, strIndex, spaces, nsIndex, channel,
                     failed, outcome>>
      /\ worker[w].at = "find"
  BY DEF FindSpace, namespaces, interner
<1>2. TablesInv' /\ Grows /\ CacheKept'
  BY <1>1, QuietTables DEF CacheKept
<1>3. WorkerOK(w) /\ worker[w] \in WorkerType
  BY DEF WorkerInv, Typed
<1>4. CASE PairHere(w) \in DOMAIN nsIndex
  <2>1. worker' = [worker EXCEPT ![w] = Named(w, nsIndex'[PairHere(w)])]
    BY <1>1, <1>4 DEF FindSpace
  <2>2. \A p \in DOMAIN nsIndex' : nsIndex'[p] \in Ids
    BY <1>1 DEF Typed
  <2>3. worker' \in [Workers -> WorkerType] /\ Mine(w) /\ WorkerOK(w)'
    BY <1>1, <1>2, <1>3, <1>4, <2>1, <2>2, NamedStep
  <2>4. Typed'
    BY <1>1, <2>3 DEF Typed
  <2> QED BY <1>2, <2>3, <2>4 DEF Works
<1>5. CASE PairHere(w) \notin DOMAIN nsIndex
  <2>1. worker' = [worker EXCEPT ![w].at = "depth"]
    BY <1>5 DEF FindSpace
  <2>2. /\ worker' \in [Workers -> WorkerType] /\ Mine(w)
        /\ worker'[w].at = "depth" /\ worker'[w].unit = worker[w].unit
        /\ worker'[w].remap = worker[w].remap /\ worker'[w].done = worker[w].done
    BY <1>1, <1>3, <2>1 DEF Typed, Mine, WorkerType, Places
  <2>3. Typed'
    BY <1>1, <2>2 DEF Typed
  <2>4. Unfinished(w)' = Unfinished(w) /\ Here(w)' = Here(w) /\ SpaceHere(w)' = SpaceHere(w)
    BY <1>1, <2>2 DEF Unfinished, Here, SpaceHere
  <2>5. AtASpace(w)'
    BY <1>1, <1>3, <2>2, <2>4 DEF WorkerOK, AtASpace
  <2>6. WorkerOK(w)'
    BY <1>1, <1>3, <2>2, <2>4, <2>5 DEF WorkerOK, AtTheEnd
  <2> QED BY <1>2, <2>2, <2>3, <2>6 DEF Works
<1> QED BY <1>4, <1>5

(* The ids a unit has been given are those of entries. *)
LEMMA RemapIsKnown ==
    ASSUME Typed, TablesInv, NEW listed, NEW m, Spelt(listed, strIndex, nsIndex, m),
           NEW i \in DOMAIN m
    PROVE  \E k \in ShardSet : \E j \in DOMAIN spaces[k] : m[i] = Encode(k, j - 1)
<1>1. PICK p \in DOMAIN nsIndex : m[i] = nsIndex[p]
  BY DEF Spelt
<1> QED BY <1>1 DEF TablesInv, SpacesKept

(* The depth read is the parent's, which never changes. *)
LEMMA ReadDepthStep ==
    ASSUME Typed, TablesInv, CacheKept, WorkerInv, Room, NEW w \in Workers, ReadDepth(w)
    PROVE  Works(w)
<1> DEFINE depth == IF ParentHere(w) = NoId THEN 1 ELSE SpaceOf(ParentHere(w)).depth + 1
<1>1. /\ UNCHANGED <<program, jobs, cache, strings, strIndex, spaces, nsIndex, channel,
                     failed, outcome>>
      /\ worker[w].at = "depth"
      /\ worker' = [worker EXCEPT ![w].at = "insert", ![w].depth = depth]
  BY DEF ReadDepth, namespaces, interner
<1>2. TablesInv' /\ Grows /\ CacheKept'
  BY <1>1, QuietTables DEF CacheKept
<1>3. WorkerOK(w) /\ worker[w] \in WorkerType
  BY DEF WorkerInv, Typed
<1>4. depth \in Nat \ {0} /\ DepthIs(spaces, ParentHere(w), depth - 1)
  <2>1. CASE ParentHere(w) = NoId
    BY <2>1 DEF DepthIs
  <2>2. CASE ParentHere(w) # NoId
    <3>1. /\ SpaceHere(w).parent \in 0 .. Len(worker[w].remap)
          /\ ParentHere(w) = Over(worker[w].remap, SpaceHere(w).parent)
      BY <1>1, <1>3, HereFacts
    <3>2. worker[w].remap \in Seq(Ids)
      BY <1>3 DEF WorkerType
    <3>3. /\ SpaceHere(w).parent \in DOMAIN worker[w].remap
          /\ ParentHere(w) = worker[w].remap[SpaceHere(w).parent]
      BY <2>2, <3>1, <3>2 DEF Over
    <3>4. Spelt(Unfinished(w).spaces, strIndex, nsIndex, worker[w].remap)
      BY <1>1, <1>3 DEF WorkerOK, Spelling
    <3>5. PICK k \in ShardSet : \E j \in DOMAIN spaces[k] : ParentHere(w) = Encode(k, j - 1)
      BY <3>3, <3>4, RemapIsKnown
    <3>6. PICK j \in DOMAIN spaces[k] : ParentHere(w) = Encode(k, j - 1)
      BY <3>5
    <3>7. SpaceOf(ParentHere(w)) = spaces[k][j]
      BY <3>6, FoundSpace
    <3>8. spaces[k][j].depth \in Nat
      <4>1. spaces[k] \in Seq(SpaceType)
        BY DEF Typed
      <4>2. spaces[k][j] \in SpaceType
        BY <4>1, Elements
      <4> QED BY <4>2 DEF SpaceType
    <3>9. depth = spaces[k][j].depth + 1 /\ depth - 1 = spaces[k][j].depth
      BY <2>2, <3>7, <3>8
    <3> QED BY <3>6, <3>8, <3>9 DEF DepthIs
  <2> QED BY <2>1, <2>2
<1> HIDE DEF depth
<1>5. /\ worker' \in [Workers -> WorkerType] /\ Mine(w)
      /\ worker'[w].at = "insert" /\ worker'[w].depth = depth
      /\ worker'[w].unit = worker[w].unit
      /\ worker'[w].remap = worker[w].remap /\ worker'[w].done = worker[w].done
  BY <1>1, <1>3, <1>4 DEF Typed, Mine, WorkerType, Places
<1>6. Typed'
  BY <1>1, <1>5 DEF Typed
<1>7. /\ Unfinished(w)' = Unfinished(w) /\ Here(w)' = Here(w)
      /\ SpaceHere(w)' = SpaceHere(w) /\ ParentHere(w)' = ParentHere(w)
  <2>1. Unfinished(w)' = Unfinished(w) /\ Here(w)' = Here(w)
    BY <1>1, <1>5 DEF Unfinished, Here
  <2>2. SpaceHere(w)' = SpaceHere(w)
    BY <2>1 DEF SpaceHere
  <2>3. ParentHere(w)' = ParentHere(w)
    BY <1>5, <2>2 DEF ParentHere
  <2> QED BY <2>1, <2>2, <2>3
<1>8. AtASpace(w)'
  BY <1>1, <1>3, <1>4, <1>5, <1>7 DEF WorkerOK, AtASpace
<1>9. WorkerOK(w)'
  BY <1>1, <1>3, <1>5, <1>7, <1>8 DEF WorkerOK, AtTheEnd
<1> QED BY <1>2, <1>5, <1>6, <1>9 DEF Works

(* A namespace is entered once, whoever enters it. *)
LEMMA InsertSpaceStep ==
    ASSUME Typed, TablesInv, CacheKept, WorkerInv, NEW w \in Workers, InsertSpace(w)
    PROVE  Works(w)
<1>1. /\ UNCHANGED <<program, jobs, cache, strings, strIndex, channel, failed, outcome>>
      /\ worker[w].at = "insert"
  BY DEF InsertSpace, interner
<1>2. WorkerOK(w)
  BY DEF WorkerInv
<1>3. /\ spaces' \in [ShardSet -> Seq(SpaceType)]
      /\ DOMAIN nsIndex' \subseteq MaybeId \X Ids
      /\ \A p \in DOMAIN nsIndex' : nsIndex'[p] \in Ids
      /\ MoreIndex(nsIndex, nsIndex') /\ MoreEntries(spaces, spaces')
      /\ SpacesKept' /\ SpacesNest'
      /\ PairHere(w) \in DOMAIN nsIndex'
      /\ worker' = [worker EXCEPT ![w] = Named(w, nsIndex'[PairHere(w)])]
  BY <1>2, InsertIs
<1>4. TablesInv' /\ Grows /\ CacheKept'
  BY <1>1, <1>3 DEF TablesInv, StringsKept, Grows, MoreNames, CacheKept
<1>5. worker' \in [Workers -> WorkerType] /\ Mine(w) /\ WorkerOK(w)'
  BY <1>1, <1>2, <1>3, <1>4, NamedStep
<1>6. Typed'
  BY <1>1, <1>3, <1>5 DEF Typed
<1> QED BY <1>4, <1>5, <1>6 DEF Works

(* A type is given the ids of its namespace and its name. *)
LEMMA InternTypeStep ==
    ASSUME Typed, TablesInv, CacheKept, WorkerInv, NEW w \in Workers, InternType(w)
    PROVE  Works(w)
<1> DEFINE t == [kind |-> TypeHere(w).kind, space |-> GlobalSpace(w, TypeHere(w).space),
                 name  |-> cache'[w][TypeHere(w).name]]
           source == TypeHere(w)
<1>1. /\ UNCHANGED <<program, jobs, spaces, nsIndex, channel, failed, outcome>>
      /\ worker[w].at = "intern" /\ Here(w) > Len(Unfinished(w).spaces)
      /\ Len(worker[w].done) < Len(Unfinished(w).types)
      /\ Intern(w, source.name)
      /\ worker' = [worker EXCEPT ![w].done = Append(@, t)]
  BY DEF InternType, namespaces
<1>2. /\ WorkerOK(w) /\ worker[w] \in WorkerType /\ program \in Programs
      /\ worker[w].remap \in Seq(Ids) /\ worker[w].done \in Seq(InternedType)
  BY DEF WorkerInv, Typed, WorkerType
<1>3. /\ worker[w].unit \in DOMAIN program /\ Unfinished(w) = program[worker[w].unit]
      /\ Spelling(Unfinished(w), strIndex, nsIndex, worker[w].remap, worker[w].done)
      /\ Unfinished(w).parses
  BY <1>1, <1>2 DEF WorkerOK, Unfinished
<1>4. /\ source = Unfinished(w).types[Len(worker[w].done) + 1] /\ source.name \in Strings
      /\ source.space \in 0 .. Len(worker[w].remap) /\ source.kind \in Nat
  <2>1. Len(worker[w].done) + 1 \in DOMAIN Unfinished(w).types
    BY <1>1, <1>2, <1>3, UnitFacts
  <2>2. Len(Unfinished(w).spaces) \in Nat /\ Len(worker[w].remap) \in Nat
    BY <1>2, <1>3, UnitFacts
  <2>3. Len(worker[w].remap) = Len(Unfinished(w).spaces)
    BY <1>1, <1>3, <2>2 DEF Here, Spelling
  <2>4. \A i \in DOMAIN Unfinished(w).types :
           /\ Unfinished(w).types[i].name \in Strings /\ Unfinished(w).types[i].kind \in Nat
           /\ Unfinished(w).types[i].space \in 0 .. Len(Unfinished(w).spaces)
    BY <1>2, <1>3, UnitFacts
  <2>5. source = Unfinished(w).types[Len(worker[w].done) + 1]
    BY DEF TypeHere
  <2> QED BY <2>1, <2>3, <2>4, <2>5
<1>5. /\ cache' \in [Workers -> [Strings -> MaybeId]]
      /\ strings' \in [ShardSet -> Seq(Strings)]
      /\ strIndex' \in [Strings -> MaybeId]
      /\ MoreNames(strIndex, strIndex')
      /\ StringsKept' /\ CacheKept'
      /\ \A v \in Workers \ {w} : cache'[v] = cache[v]
      /\ cache'[w][source.name] # NoId
  BY <1>1, <1>4, InternIs DEF TablesInv
<1>6. TablesInv' /\ Grows
  BY <1>1, <1>5, NamedTables
<1>7. /\ cache'[w][source.name] = strIndex'[source.name] /\ cache'[w][source.name] \in Ids
  BY <1>4, <1>5 DEF CacheKept, MaybeId
<1>8. GlobalSpace(w, source.space) = Over(worker[w].remap, source.space)
  BY DEF GlobalSpace, Over
<1>9. Over(worker[w].remap, source.space) \in MaybeId
  <2> HIDE DEF source
  <2>1. source.space = 0 \/ source.space \in DOMAIN worker[w].remap
    BY <1>2, <1>4
  <2> QED BY <1>2, <2>1 DEF Over, MaybeId
<1>10. t \in InternedType /\ TypeSpelt(source, strIndex', worker[w].remap, t)
  BY <1>4, <1>5, <1>7, <1>8, <1>9 DEF InternedType, TypeSpelt
<1> HIDE DEF t, source
<1>11. PICK ts \in Seq(InternedType) : ts = Append(worker[w].done, t)
  BY <1>2, <1>10, AppendProperties
<1>12. /\ worker' = [worker EXCEPT ![w] = [worker[w] EXCEPT !.done = ts]]
       /\ worker \in [Workers -> WorkerType]
  BY <1>1, <1>11 DEF Typed
<1>13. /\ worker' \in [Workers -> WorkerType] /\ worker'[w].at = "intern"
       /\ worker'[w].unit = worker[w].unit
       /\ worker'[w].remap = worker[w].remap /\ worker'[w].done = ts
       /\ \A v \in Workers \ {w} : worker'[v] = worker[v]
  <2> DEFINE new == [worker[w] EXCEPT !.done = ts]
  <2>1. /\ new \in WorkerType /\ new.at = worker[w].at /\ new.unit = worker[w].unit
        /\ new.remap = worker[w].remap /\ new.done = ts
    BY <1>2, DoneIs
  <2> HIDE DEF new
  <2>2. worker' = [worker EXCEPT ![w] = new]
    BY <1>12 DEF new
  <2> QED BY <1>1, <1>12, <2>1, <2>2
<1>14. Typed' /\ Mine(w)
  BY <1>1, <1>5, <1>13 DEF Typed, Mine
<1>15. Spelling(Unfinished(w), strIndex', nsIndex', worker[w].remap, worker[w].done)
  BY <1>2, <1>3, <1>6, SpellingKept DEF Grows, Typed
<1>16. Spelling(Unfinished(w), strIndex', nsIndex', worker[w].remap, ts)
  BY <1>1, <1>2, <1>3, <1>4, <1>10, <1>11, <1>15, SpellingType
<1>17. WorkerOK(w)'
  BY <1>1, <1>3, <1>13, <1>16 DEF WorkerOK, Unfinished, AtASpace, AtTheEnd
<1> QED BY <1>5, <1>6, <1>14, <1>17 DEF Works

(* A unit that reaches its producer is whole. *)
LEMMA InternOriginStep ==
    ASSUME Typed, TablesInv, CacheKept, WorkerInv, NEW w \in Workers, InternOrigin(w)
    PROVE  Works(w)
<1> DEFINE source == Unfinished(w).producer
<1>1. /\ UNCHANGED <<program, jobs, spaces, nsIndex, channel, failed, outcome>>
      /\ worker[w].at = "intern" /\ Here(w) > Len(Unfinished(w).spaces)
      /\ Len(worker[w].done) = Len(Unfinished(w).types)
      /\ source = NoProducer => UNCHANGED interner
      /\ source # NoProducer => Intern(w, source)
      /\ worker' = [worker EXCEPT ![w].at = "send"]
  BY DEF InternOrigin, namespaces
<1>2. /\ WorkerOK(w) /\ worker[w] \in WorkerType /\ program \in Programs
      /\ worker[w].remap \in Seq(Ids) /\ worker[w].done \in Seq(InternedType)
  BY DEF WorkerInv, Typed, WorkerType
<1>3. /\ worker[w].unit \in DOMAIN program /\ Unfinished(w) = program[worker[w].unit]
      /\ Spelling(Unfinished(w), strIndex, nsIndex, worker[w].remap, worker[w].done)
      /\ Unfinished(w).parses
  BY <1>1, <1>2 DEF WorkerOK, Unfinished
<1>4. source \in Strings \cup {NoProducer} /\ Len(worker[w].remap) = Len(Unfinished(w).spaces)
  BY <1>1, <1>2, <1>3, UnitFacts DEF Here, Spelling
<1>5. /\ cache' \in [Workers -> [Strings -> MaybeId]]
      /\ strings' \in [ShardSet -> Seq(Strings)]
      /\ strIndex' \in [Strings -> MaybeId]
      /\ MoreNames(strIndex, strIndex')
      /\ StringsKept' /\ CacheKept'
      /\ \A v \in Workers \ {w} : cache'[v] = cache[v]
      /\ source # NoProducer => cache'[w][source] # NoId
  <2> HIDE DEF source
  <2>1. CASE source = NoProducer
    BY <1>1, <2>1 DEF interner, Typed, MoreNames, TablesInv, StringsKept, CacheKept
  <2>2. CASE source # NoProducer
    BY <1>1, <1>4, <2>2, InternIs DEF TablesInv
  <2> QED BY <2>1, <2>2
<1> HIDE DEF source
<1>6. TablesInv' /\ Grows
  BY <1>1, <1>5, NamedTables
<1>7. /\ worker' \in [Workers -> WorkerType] /\ worker'[w].at = "send"
      /\ worker'[w].unit = worker[w].unit
      /\ worker'[w].remap = worker[w].remap /\ worker'[w].done = worker[w].done
      /\ \A v \in Workers \ {w} : worker'[v] = worker[v]
  BY <1>1, <1>2 DEF Typed, WorkerType, Places
<1>8. Typed' /\ Mine(w)
  BY <1>1, <1>5, <1>7 DEF Typed, Mine
<1>9. Spelling(Unfinished(w), strIndex', nsIndex', worker[w].remap, worker[w].done)
  BY <1>2, <1>3, <1>6, SpellingKept DEF Grows, Typed
<1>10. Unfinished(w)' = Unfinished(w)
  BY <1>1, <1>7 DEF Unfinished
<1>11. AtTheEnd(w)'
  BY <1>1, <1>4, <1>5, <1>7, <1>10 DEF AtTheEnd, source
<1>12. WorkerOK(w)'
  BY <1>1, <1>3, <1>7, <1>9, <1>10, <1>11 DEF WorkerOK, AtASpace
<1> QED BY <1>5, <1>6, <1>8, <1>12 DEF Works

(* What a worker sends is its whole unit. *)
LEMMA SendStep ==
    ASSUME Typed, TablesInv, CacheKept, WorkerInv, NEW w \in Workers, Send(w)
    PROVE  /\ Works(w)
           /\ LET cgu == InternedCgu(w)
              IN /\ cgu \in CguType /\ channel' = Append(channel, cgu)
                 /\ cgu.unit = worker[w].unit
                 /\ UnitRead(program, strIndex, nsIndex, cgu.unit, cgu.producer, cgu.types)
<1> DEFINE cgu == InternedCgu(w)
           unit == program[worker[w].unit]
<1>1. /\ UNCHANGED <<program, jobs, cache, strings, strIndex, spaces, nsIndex, failed, outcome>>
      /\ worker[w].at = "send" /\ channel' = Append(channel, cgu)
      /\ worker' = [worker EXCEPT ![w] = Idle]
  BY DEF Send, namespaces, interner
<1>2. /\ WorkerOK(w) /\ worker[w] \in WorkerType /\ program \in Programs
      /\ worker[w].remap \in Seq(Ids) /\ worker[w].done \in Seq(InternedType)
  BY DEF WorkerInv, Typed, WorkerType
<1>3. /\ worker[w].unit \in DOMAIN program /\ Unfinished(w) = unit
      /\ Spelling(unit, strIndex, nsIndex, worker[w].remap, worker[w].done)
      /\ unit.parses /\ worker[w].unit \in Nat
  BY <1>1, <1>2, UnitFacts DEF WorkerOK, Unfinished
<1>4. /\ Len(worker[w].remap) = Len(unit.spaces) /\ Len(worker[w].done) = Len(unit.types)
      /\ unit.producer # NoProducer => cache[w][unit.producer] # NoId
  BY <1>1, <1>2, <1>3 DEF WorkerOK, AtTheEnd
<1>5. /\ cgu.unit = worker[w].unit /\ cgu.types = worker[w].done
      /\ cgu.producer = IF unit.producer = NoProducer THEN NoId ELSE cache[w][unit.producer]
      /\ cgu = [unit |-> cgu.unit, producer |-> cgu.producer, types |-> cgu.types]
  BY <1>3 DEF InternedCgu
<1>6. unit.producer \in Strings \cup {NoProducer} /\ unit.types \in Seq([kind : Nat, space : Nat, name : Strings])
  BY <1>2, <1>3, UnitFacts
<1> HIDE DEF cgu, unit
<1>7. ProducerSpelt(unit.producer, strIndex, cgu.producer) /\ cgu.producer \in MaybeId
  BY <1>4, <1>5, <1>6 DEF ProducerSpelt, CacheKept, Typed, MaybeId
<1>8. cgu \in CguType
  BY <1>2, <1>3, <1>5, <1>7 DEF CguType
<1>9. DOMAIN cgu.types = DOMAIN unit.types /\ Whole(unit, strIndex, nsIndex, cgu.types)
  <2>1. DOMAIN unit.types = DOMAIN worker[w].done
    BY <1>2, <1>4, <1>6
  <2> QED BY <1>2, <1>3, <1>4, <1>5, <2>1 DEF Whole, Spelling
<1>10. /\ worker' \in [Workers -> WorkerType] /\ worker'[w].at = "idle" /\ Mine(w)
  BY <1>1 DEF Typed, Mine, Idle, WorkerType, Places
<1>11. channel' \in Seq(CguType)
  BY <1>1, <1>8, AppendProperties DEF Typed
<1>12. Typed' /\ CacheKept' /\ WorkerOK(w)'
  BY <1>1, <1>10, <1>11 DEF Typed, CacheKept, WorkerOK
<1>13. Works(w)
  BY <1>1, <1>10, <1>12, QuietTables DEF Works
<1>14. UnitRead(program, strIndex, nsIndex, cgu.unit, cgu.producer, cgu.types)
  BY <1>3, <1>5, <1>7, <1>9 DEF UnitRead, unit
<1> QED BY <1>1, <1>5, <1>8, <1>13, <1>14 DEF cgu

----------------------------------------------------------------------------
(* The channel, the collector and the units in between. *)

(* What was read of a unit stays so as the tables grow. *)
LEMMA UnitReadKept ==
    ASSUME NEW p \in Programs, NEW u, NEW id, NEW ts,
           NEW names, NEW index, NEW names2, NEW index2,
           DOMAIN index \subseteq MaybeId \X Ids,
           MoreNames(names, names2), MoreIndex(index, index2),
           UnitRead(p, names, index, u, id, ts)
    PROVE  UnitRead(p, names2, index2, u, id, ts)
<1>1. /\ u \in DOMAIN p /\ p[u].parses /\ ProducerSpelt(p[u].producer, names, id)
      /\ DOMAIN ts = DOMAIN p[u].types /\ Whole(p[u], names, index, ts)
  BY DEF UnitRead
<1>2. p[u].producer \in Strings \cup {NoProducer}
  BY <1>1, UnitFacts
<1>3. ProducerSpelt(p[u].producer, names2, id)
  BY <1>1, <1>2, ProducerKept
<1>4. Whole(p[u], names2, index2, ts)
  BY <1>1, WholeKept
<1> QED BY <1>1, <1>3, <1>4 DEF UnitRead

(* The units of the channel stay read ones, those it keeps and those that *)
(* are already of the new tables.                                         *)
LEMMA ChannelKept ==
    ASSUME Typed, ChannelInv, Grows,
           \A c \in DOMAIN channel' :
              \/ \E b \in DOMAIN channel : channel'[c] = channel[b]
              \/ UnitRead(program, strIndex, nsIndex, channel'[c].unit, channel'[c].producer,
                          channel'[c].types)
    PROVE  ChannelInv'
<1> SUFFICES ASSUME NEW c \in DOMAIN channel'
             PROVE  UnitRead(program', strIndex', nsIndex', channel'[c].unit,
                             channel'[c].producer, channel'[c].types)
  BY DEF ChannelInv
<1>1. UnitRead(program, strIndex, nsIndex, channel'[c].unit, channel'[c].producer,
               channel'[c].types)
  BY DEF ChannelInv
<1>2. /\ program \in Programs /\ DOMAIN nsIndex \subseteq MaybeId \X Ids
      /\ MoreNames(strIndex, strIndex') /\ MoreIndex(nsIndex, nsIndex') /\ program' = program
  BY DEF Typed, Grows
<1>3. UnitRead(program, strIndex', nsIndex', channel'[c].unit, channel'[c].producer,
               channel'[c].types)
  BY <1>1, <1>2, UnitReadKept
<1> QED BY <1>2, <1>3

(* What the collector holds stays read as the tables grow. *)
LEMMA CollectorKept ==
    ASSUME Typed, CollectorInv, Grows, UNCHANGED <<origins, types>>
    PROVE  CollectorInv'
<1>1. /\ program \in Programs /\ DOMAIN nsIndex \subseteq MaybeId \X Ids
      /\ MoreNames(strIndex, strIndex') /\ MoreIndex(nsIndex, nsIndex') /\ program' = program
  BY DEF Typed, Grows
<1>2. ASSUME NEW u \in DOMAIN origins
      PROVE  UnitRead(program, strIndex', nsIndex', u, origins[u], TypesOf(u))
  <2>1. UnitRead(program, strIndex, nsIndex, u, origins[u], TypesOf(u))
    BY DEF CollectorInv
  <2> QED BY <1>1, <2>1, UnitReadKept
<1>3. \A u \in DOMAIN origins : TypesOf(u)' = TypesOf(u)
  BY <1>1 DEF TypesOf
<1> QED BY <1>1, <1>2, <1>3 DEF CollectorInv

(* A finished read takes no step. *)
LEMMA StillReading ==
    ASSUME UnitsAccounted, Next
    PROVE  outcome = "reading"
<1> SUFFICES ASSUME HungUp
             PROVE  outcome = "reading"
  BY DEF UnitsAccounted
<1>1. jobs = {} /\ channel = <<>> /\ \A w \in Workers : worker[w].at = "idle"
  BY DEF HungUp
<1>2. ASSUME NEW w \in Workers, WorkerStep(w)
      PROVE  FALSE
  BY <1>1, <1>2 DEF WorkerStep, ParseJob, InternSpaceName, FindSpace, ReadDepth, InsertSpace,
       InternType, InternOrigin, Send
<1>3. ~ Ingest
  BY <1>1 DEF Ingest
<1> QED BY <1>1, <1>2, <1>3 DEF Next, Finish

(* A worker's step within its unit leaves the units where they are. *)
Within(w) ==
    \/ InternSpaceName(w) \/ FindSpace(w) \/ ReadDepth(w) \/ InsertSpace(w)
    \/ InternType(w) \/ InternOrigin(w)

(* A worker with one more namespace is at the same unit. *)
LEMMA NamedUnit ==
    ASSUME NEW me \in WorkerType, NEW id
    PROVE  LET new == [me EXCEPT !.remap = Append(@, id), !.at = "intern"]
           IN new.at = "intern" /\ new.unit = me.unit
BY DEF WorkerType

(* A step within a unit leaves the units where they are. *)
LEMMA WithinIs ==
    ASSUME Typed, NEW w \in Workers, Within(w)
    PROVE  /\ UNCHANGED <<program, jobs, channel, origins, types, failed, producer, outcome>>
           /\ worker'[w].at # "idle" /\ worker'[w].unit = worker[w].unit
           /\ \A v \in Workers \ {w} : worker'[v] = worker[v]
<1>1. worker \in [Workers -> WorkerType] /\ worker[w] \in WorkerType
  BY DEF Typed
<1>2. UNCHANGED <<program, jobs, channel, origins, types, failed, producer, outcome>>
  BY DEF Within, InternSpaceName, FindSpace, ReadDepth, InsertSpace, InternType,
       InternOrigin, collector
<1>3. CASE InternSpaceName(w)
  BY <1>1, <1>2, <1>3 DEF InternSpaceName, WorkerType
<1>4. CASE InternOrigin(w)
  BY <1>1, <1>2, <1>4 DEF InternOrigin, WorkerType
<1>5. CASE ReadDepth(w)
  BY <1>1, <1>2, <1>5 DEF ReadDepth, WorkerType
<1>6. CASE InternType(w)
  <2>1. worker[w].at = "intern"
    BY <1>6 DEF InternType
  <2>2. PICK ts : worker' = [worker EXCEPT ![w].done = ts]
    BY <1>6 DEF InternType
  <2> QED BY <1>1, <1>2, <2>1, <2>2 DEF WorkerType
<1>7. ASSUME NEW id, worker' = [worker EXCEPT ![w] = Named(w, id)]
      PROVE  /\ worker'[w].at # "idle" /\ worker'[w].unit = worker[w].unit
             /\ \A v \in Workers \ {w} : worker'[v] = worker[v]
  <2>1. Named(w, id).at = "intern" /\ Named(w, id).unit = worker[w].unit
    BY <1>1, NamedUnit DEF Named
  <2> QED BY <1>1, <1>7, <2>1
<1>8. CASE FindSpace(w)
  <2>1. CASE PairHere(w) \in DOMAIN nsIndex
    BY <1>2, <1>7, <1>8, <2>1 DEF FindSpace
  <2>2. CASE PairHere(w) \notin DOMAIN nsIndex
    <3>1. worker' = [worker EXCEPT ![w].at = "depth"]
      BY <1>8, <2>2 DEF FindSpace
    <3> QED BY <1>1, <1>2, <3>1 DEF WorkerType
  <2> QED BY <2>1, <2>2
<1>9. CASE InsertSpace(w)
  <2>1. PICK id : worker' = [worker EXCEPT ![w] = Named(w, id)]
    BY <1>9 DEF InsertSpace
  <2> QED BY <1>2, <1>7, <2>1
<1> QED BY <1>3, <1>4, <1>5, <1>6, <1>8, <1>9 DEF Within

(* What a worker's step does to the units. *)
LEMMA UnitsOfStep ==
    ASSUME Typed, WorkerInv, UnitsAccounted, outcome = "reading",
           NEW w \in Workers, WorkerStep(w), program' = program
    PROVE  UnitsAccounted'
<1> DEFINE unit == worker[w].unit
<1>0. worker \in [Workers -> WorkerType] /\ worker[w] \in WorkerType /\ channel \in Seq(CguType)
  BY DEF Typed
<1>1. CASE Within(w)
  <2>1. /\ UNCHANGED <<program, jobs, channel, origins, types, failed, producer, outcome>>
        /\ worker'[w].at # "idle" /\ worker'[w].unit = worker[w].unit
        /\ \A v \in Workers \ {w} : worker'[v] = worker[v]
    BY <1>1, WithinIs
  <2>2. ASSUME NEW u \in DOMAIN program, Somewhere(u)
        PROVE  Somewhere(u)'
    BY <2>1, <2>2 DEF Somewhere
  <2> QED BY <2>1, <2>2 DEF UnitsAccounted
<1>2. ASSUME NEW n \in jobs, TakeJob(w, n)
      PROVE  UnitsAccounted'
  <2>1. /\ UNCHANGED <<channel, origins, types, failed, producer, outcome>>
        /\ jobs' = jobs \ {n} /\ worker[w].at = "idle"
        /\ worker' = [worker EXCEPT ![w] = [Idle EXCEPT !.at = "parse", !.unit = n]]
    BY <1>2 DEF TakeJob, collector
  <2>2. [Idle EXCEPT !.at = "parse", !.unit = n].at = "parse"
    BY DEF Idle
  <2>3. [Idle EXCEPT !.at = "parse", !.unit = n].unit = n
    BY DEF Idle
  <2>4. /\ worker'[w].at # "idle" /\ worker'[w].unit = n
        /\ \A v \in Workers \ {w} : worker'[v] = worker[v]
    BY <1>0, <2>1, <2>2, <2>3
  <2>5. ASSUME NEW u \in DOMAIN program, Somewhere(u)
        PROVE  Somewhere(u)'
    BY <2>1, <2>4, <2>5 DEF Somewhere
  <2> QED BY <2>1, <2>5 DEF UnitsAccounted
<1>3. CASE ParseJob(w)
  <2>1. /\ UNCHANGED <<jobs, channel, origins, types, producer, outcome>> /\ worker[w].at = "parse"
    BY <1>3 DEF ParseJob, collector
  <2>2. CASE worker' = [worker EXCEPT ![w].at = "intern"] /\ failed' = failed
    <3>1. /\ worker'[w].at # "idle" /\ worker'[w].unit = worker[w].unit
          /\ \A v \in Workers \ {w} : worker'[v] = worker[v]
      BY <1>0, <2>2 DEF WorkerType
    <3>2. ASSUME NEW u \in DOMAIN program, Somewhere(u)
          PROVE  Somewhere(u)'
      BY <2>1, <3>1, <3>2 DEF Somewhere
    <3> QED BY <2>1, <2>2, <3>2 DEF UnitsAccounted
  <2>3. CASE ~ Unfinished(w).parses /\ failed' = TRUE
    <3>1. unit \in DOMAIN program /\ ~ program[unit].parses
      BY <2>1, <2>3 DEF WorkerInv, WorkerOK, Unfinished
    <3> QED BY <2>1, <2>3, <3>1 DEF UnitsAccounted
  <2> QED BY <1>3, <2>2, <2>3 DEF ParseJob
<1>4. CASE Send(w)
  <2>1. /\ UNCHANGED <<jobs, origins, types, failed, producer, outcome>>
        /\ channel' = Append(channel, InternedCgu(w))
        /\ worker' = [worker EXCEPT ![w] = Idle]
    BY <1>4 DEF Send, collector
  <2>2. InternedCgu(w).unit = worker[w].unit
    BY DEF InternedCgu
  <2>3. \A v \in Workers \ {w} : worker'[v] = worker[v]
    BY <1>0, <2>1
  <2>4. /\ \A c \in DOMAIN channel : c \in DOMAIN channel' /\ channel'[c] = channel[c]
        /\ \E c \in DOMAIN channel' : channel'[c] = InternedCgu(w)
    <3> DEFINE cgu == InternedCgu(w)
    <3> HIDE DEF cgu
    <3>1. channel' = Append(channel, cgu)
      BY <2>1 DEF cgu
    <3>2. /\ Len(channel) \in Nat /\ DOMAIN channel = 1 .. Len(channel)
          /\ DOMAIN channel' = 1 .. Len(channel) + 1 /\ channel'[Len(channel) + 1] = cgu
          /\ \A c \in 1 .. Len(channel) : channel'[c] = channel[c]
      BY <1>0, <3>1
    <3>3. Len(channel) + 1 \in DOMAIN channel'
      BY <3>2
    <3> QED BY <3>2, <3>3 DEF cgu
  <2>5. ASSUME NEW u \in DOMAIN program, Somewhere(u)
        PROVE  Somewhere(u)'
    BY <2>1, <2>2, <2>3, <2>4, <2>5 DEF Somewhere
  <2> QED BY <2>1, <2>5 DEF UnitsAccounted
<1> QED BY <1>1, <1>2, <1>3, <1>4 DEF WorkerStep, Within

(* A worker's step keeps the whole of the invariant. *)
LEMMA WorkerStepKeeps ==
    ASSUME ReaderInv, Room, NEW w \in Workers, WorkerStep(w), outcome = "reading"
    PROVE  ReaderInv'
<1>1. /\ Typed /\ TablesInv /\ CacheKept /\ WorkerInv /\ ChannelInv /\ CollectorInv
      /\ UnitsAccounted
  BY DEF ReaderInv
<1>2. Works(w)
  <2>1. ASSUME NEW u \in jobs, TakeJob(w, u)
        PROVE  Works(w)
    BY <1>1, <2>1, TakeJobStep
  <2>2. CASE ParseJob(w)
    BY <1>1, <2>2, ParseJobStep
  <2>3. CASE InternSpaceName(w)
    BY <1>1, <2>3, InternSpaceNameStep
  <2>4. CASE FindSpace(w)
    BY <1>1, <2>4, FindSpaceStep
  <2>5. CASE ReadDepth(w)
    BY <1>1, <2>5, ReadDepthStep
  <2>6. CASE InsertSpace(w)
    BY <1>1, <2>6, InsertSpaceStep
  <2>7. CASE InternType(w)
    BY <1>1, <2>7, InternTypeStep
  <2>8. CASE InternOrigin(w)
    BY <1>1, <2>8, InternOriginStep
  <2>9. CASE Send(w)
    BY <1>1, <2>9, SendStep
  <2> QED BY <2>1, <2>2, <2>3, <2>4, <2>5, <2>6, <2>7, <2>8, <2>9 DEF WorkerStep
<1>3. Typed' /\ TablesInv' /\ CacheKept' /\ Grows /\ program' = program
  BY <1>2 DEF Works, Grows
<1>4. WorkerInv'
  BY <1>1, <1>2, OthersKept
<1>5. UNCHANGED <<origins, types>>
  BY DEF WorkerStep, TakeJob, ParseJob, InternSpaceName, FindSpace, ReadDepth, InsertSpace,
       InternType, InternOrigin, Send, collector
<1>6. CollectorInv'
  BY <1>1, <1>3, <1>5, CollectorKept
<1>7. UnitsAccounted'
  BY <1>1, <1>3, UnitsOfStep
<1>8. ChannelInv'
  <2>1. CASE Send(w)
    <3> DEFINE cgu == InternedCgu(w)
    <3>1. /\ channel' = Append(channel, cgu)
          /\ UnitRead(program, strIndex, nsIndex, cgu.unit, cgu.producer, cgu.types)
      BY <1>1, <2>1, SendStep
    <3> HIDE DEF cgu
    <3>2. \A c \in DOMAIN channel' :
             (\E b \in DOMAIN channel : channel'[c] = channel[b]) \/ channel'[c] = cgu
      <4>1. channel \in Seq(CguType)
        BY <1>1 DEF Typed
      <4>2. /\ Len(channel) \in Nat /\ DOMAIN channel = 1 .. Len(channel)
            /\ DOMAIN channel' = 1 .. Len(channel) + 1 /\ channel'[Len(channel) + 1] = cgu
            /\ \A c \in 1 .. Len(channel) : channel'[c] = channel[c]
        BY <3>1, <4>1
      <4>3. \A c \in DOMAIN channel' : c \in DOMAIN channel \/ c = Len(channel) + 1
        BY <4>2
      <4> QED BY <4>2, <4>3
    <3>3. \A c \in DOMAIN channel' :
             \/ \E b \in DOMAIN channel : channel'[c] = channel[b]
             \/ UnitRead(program, strIndex, nsIndex, channel'[c].unit, channel'[c].producer,
                         channel'[c].types)
      BY <3>1, <3>2
    <3> QED BY <1>1, <1>3, <3>3, ChannelKept
  <2>2. CASE channel' = channel
    <3>1. \A c \in DOMAIN channel' : \E b \in DOMAIN channel : channel'[c] = channel[b]
      BY <2>2
    <3> QED BY <1>1, <1>3, <3>1, ChannelKept
  <2>3. Send(w) \/ channel' = channel
    BY DEF WorkerStep, TakeJob, ParseJob, InternSpaceName, FindSpace, ReadDepth, InsertSpace,
         InternType, InternOrigin
  <2> QED BY <2>1, <2>2, <2>3
<1> QED BY <1>3, <1>4, <1>6, <1>7, <1>8 DEF ReaderInv

(* The steps that touch no table and no worker. *)
LEMMA QuietStep ==
    ASSUME ReaderInv, UNCHANGED <<program, worker, cache, strings, strIndex, spaces, nsIndex>>
    PROVE  TablesInv' /\ CacheKept' /\ Grows /\ WorkerInv'
<1>1. Typed /\ TablesInv /\ CacheKept /\ WorkerInv
  BY DEF ReaderInv
<1>2. TablesInv' /\ Grows
  BY <1>1, QuietTables
<1>3. CacheKept'
  BY <1>1 DEF CacheKept
<1>4. ASSUME NEW w \in Workers
      PROVE  WorkerOK(w)'
  <2>1. WorkerOK(w)
    BY <1>1 DEF WorkerInv
  <2> QED BY <1>1, <1>2, <2>1, WorkerKept
<1> QED BY <1>2, <1>3, <1>4 DEF WorkerInv

(* A job dropped is one of a read that fails. *)
LEMMA DropJobKeeps ==
    ASSUME ReaderInv, NEW n \in jobs, DropJob(n), outcome = "reading"
    PROVE  ReaderInv'
<1>1. /\ UNCHANGED <<program, worker, cache, strings, strIndex, spaces, nsIndex, channel,
                     origins, types, failed, producer, outcome>>
      /\ jobs' = jobs \ {n} /\ failed
  BY DEF DropJob, interner, namespaces, collector
<1>2. Typed /\ ChannelInv /\ CollectorInv /\ UnitsAccounted
  BY DEF ReaderInv
<1>3. TablesInv' /\ CacheKept' /\ Grows /\ WorkerInv'
  BY <1>1, QuietStep
<1>4. Typed'
  BY <1>1, <1>2 DEF Typed
<1>5. ChannelInv'
  <2>1. \A c \in DOMAIN channel' : \E b \in DOMAIN channel : channel'[c] = channel[b]
    BY <1>1
  <2> QED BY <1>2, <1>3, <2>1, ChannelKept
<1>6. CollectorInv'
  BY <1>1, <1>2, <1>3, CollectorKept
<1>7. UnitsAccounted'
  BY <1>1, <1>2 DEF UnitsAccounted
<1> QED BY <1>3, <1>4, <1>5, <1>6, <1>7 DEF ReaderInv

(* The end of a read. *)
LEMMA FinishKeeps ==
    ASSUME ReaderInv, Finish
    PROVE  ReaderInv'
<1>1. /\ UNCHANGED <<program, jobs, worker, cache, strings, strIndex, spaces, nsIndex, channel,
                     origins, types, failed>>
      /\ HungUp /\ outcome' = IF failed THEN "failed" ELSE "read"
      /\ producer' = IF failed THEN NoId ELSE CompilerProducer
  BY DEF Finish, interner, namespaces, collector
<1>2. Typed /\ ChannelInv /\ CollectorInv /\ UnitsAccounted
  BY DEF ReaderInv
<1>3. TablesInv' /\ CacheKept' /\ Grows /\ WorkerInv'
  BY <1>1, QuietStep
<1>4. Typed'
  BY <1>1, <1>2 DEF Typed
<1>5. ChannelInv'
  <2>1. \A c \in DOMAIN channel' : \E b \in DOMAIN channel : channel'[c] = channel[b]
    BY <1>1
  <2> QED BY <1>2, <1>3, <2>1, ChannelKept
<1>6. CollectorInv'
  BY <1>1, <1>2, <1>3, CollectorKept
<1>7. UnitsAccounted'
  <2>1. HungUp' /\ CompilerProducer' = CompilerProducer
    BY <1>1 DEF HungUp, CompilerProducer, StringOf
  <2>2. \A u \in DOMAIN program : Somewhere(u)' <=> Somewhere(u)
    BY <1>1 DEF Somewhere
  <2> QED BY <1>1, <1>2, <2>1, <2>2 DEF UnitsAccounted
<1> QED BY <1>3, <1>4, <1>5, <1>6, <1>7 DEF ReaderInv

(* The collector takes a whole unit, which no other unit's entries meet. *)
LEMMA IngestKeeps ==
    ASSUME ReaderInv, Ingest, outcome = "reading"
    PROVE  ReaderInv'
<1> DEFINE cgu == Head(channel)
           dies == {cgu.unit} \X DOMAIN cgu.types
<1>1. /\ UNCHANGED <<program, jobs, worker, cache, strings, strIndex, spaces, nsIndex,
                     failed, producer, outcome>>
      /\ channel # <<>> /\ channel' = Tail(channel)
      /\ origins' = [u \in DOMAIN origins \cup {cgu.unit} |->
                       IF u = cgu.unit THEN cgu.producer ELSE origins[u]]
      /\ types' = [d \in DOMAIN types \cup dies |->
                     IF d \in dies THEN cgu.types[d[2]] ELSE types[d]]
  BY DEF Ingest, interner, namespaces
<1>2. Typed /\ ChannelInv /\ CollectorInv /\ UnitsAccounted
  BY DEF ReaderInv
<1>3. TablesInv' /\ CacheKept' /\ Grows /\ WorkerInv'
  BY <1>1, QuietStep
<1>4. /\ channel \in Seq(CguType) /\ channel' \in Seq(CguType)
      /\ 1 \in DOMAIN channel /\ cgu = channel[1]
      /\ \A c \in DOMAIN channel' : c + 1 \in DOMAIN channel /\ channel'[c] = channel[c + 1]
      /\ \A c \in DOMAIN channel : c = 1 \/ (c - 1 \in DOMAIN channel' /\ channel'[c - 1] = channel[c])
  <2>1. channel \in Seq(CguType)
    BY <1>2 DEF Typed
  <2> QED BY <1>1, <2>1
<1> HIDE DEF cgu
<1>5. Typed'
  BY <1>1, <1>2, <1>4 DEF Typed
<1>6. ChannelInv'
  <2>1. \A c \in DOMAIN channel' : \E b \in DOMAIN channel : channel'[c] = channel[b]
    BY <1>4
  <2> QED BY <1>2, <1>3, <2>1, ChannelKept
<1>7. UnitRead(program, strIndex, nsIndex, cgu.unit, cgu.producer, cgu.types)
  BY <1>2, <1>4 DEF ChannelInv
<1>8. /\ cgu.unit \in DOMAIN program /\ DOMAIN cgu.types = DOMAIN program[cgu.unit].types
  BY <1>7 DEF UnitRead
<1>9. CollectorInv'
  <2>1. DOMAIN origins' = DOMAIN origins \cup {cgu.unit} /\ DOMAIN origins \subseteq DOMAIN program
    BY <1>1, <1>2 DEF CollectorInv
  <2>2. DOMAIN types = UNION {{u} \X DOMAIN program[u].types : u \in DOMAIN origins}
    BY <1>2 DEF CollectorInv
  <2>3. DOMAIN types' = DOMAIN types \cup dies
    BY <1>1
  <2>4. DOMAIN types' = UNION {{u} \X DOMAIN program[u].types : u \in DOMAIN origins'}
    BY <1>8, <2>1, <2>2, <2>3
  <2>5. ASSUME NEW u \in DOMAIN origins'
        PROVE  UnitRead(program, strIndex, nsIndex, u, origins'[u], TypesOf(u)')
    <3>1. CASE u = cgu.unit
      <4>1. \A i \in DOMAIN program[u].types : <<u, i>> \in dies
        BY <1>8, <3>1
      <4>2. \A i \in DOMAIN program[u].types : types'[<<u, i>>] = cgu.types[i]
        BY <1>1, <4>1
      <4>3. /\ DOMAIN TypesOf(u)' = DOMAIN program[u].types
            /\ \A i \in DOMAIN program[u].types : TypesOf(u)'[i] = cgu.types[i]
        BY <1>1, <4>2 DEF TypesOf
      <4>4. origins'[u] = cgu.producer
        BY <1>1, <3>1, <2>1
      <4> QED BY <1>7, <1>8, <3>1, <4>3, <4>4 DEF UnitRead, Whole
    <3>2. CASE u # cgu.unit
      <4>1. u \in DOMAIN origins /\ origins'[u] = origins[u]
        BY <1>1, <2>1, <3>2
      <4>2. \A i \in DOMAIN program[u].types : <<u, i>> \notin dies /\ <<u, i>> \in DOMAIN types
        BY <2>2, <3>2, <4>1
      <4>3. \A i \in DOMAIN program[u].types : types'[<<u, i>>] = types[<<u, i>>]
        BY <1>1, <4>2
      <4>4. TypesOf(u)' = TypesOf(u)
        BY <1>1, <4>3 DEF TypesOf
      <4> QED BY <1>2, <4>1, <4>4 DEF CollectorInv
    <3> QED BY <3>1, <3>2
  <2>6. program' = program /\ strIndex' = strIndex /\ nsIndex' = nsIndex
    BY <1>1
  <2>7. DOMAIN origins' \subseteq DOMAIN program'
    BY <1>8, <2>1, <2>6
  <2>8. DOMAIN types' = UNION {{u} \X DOMAIN program'[u].types : u \in DOMAIN origins'}
    BY <2>4, <2>6
  <2>9. \A u \in DOMAIN origins' :
          UnitRead(program', strIndex', nsIndex', u, origins'[u], TypesOf(u)')
    BY <2>5, <2>6
  <2> QED BY <2>7, <2>8, <2>9 DEF CollectorInv
<1>10. UnitsAccounted'
  <2>1. ASSUME NEW u \in DOMAIN program, Somewhere(u)
        PROVE  Somewhere(u)'
    <3>1. CASE u \in DOMAIN origins \/ u = cgu.unit
      BY <1>1, <3>1 DEF Somewhere
    <3>2. ASSUME NEW c \in DOMAIN channel, channel[c].unit = u, c # 1
          PROVE  Somewhere(u)'
      BY <1>4, <3>2 DEF Somewhere
    <3> QED BY <1>1, <1>4, <2>1, <3>1, <3>2 DEF Somewhere
  <2> QED BY <1>1, <1>2, <2>1 DEF UnitsAccounted
<1> QED BY <1>3, <1>5, <1>6, <1>9, <1>10 DEF ReaderInv

(* A step that changes nothing. *)
LEMMA ReaderStutters ==
    ASSUME ReaderInv, UNCHANGED vars
    PROVE  ReaderInv'
<1>1. UNCHANGED <<program, jobs, worker, cache, strings, strIndex, spaces, nsIndex, channel,
                  origins, types, failed, producer, outcome>>
  BY DEF vars
<1>2. Typed /\ ChannelInv /\ CollectorInv /\ UnitsAccounted
  BY DEF ReaderInv
<1>3. TablesInv' /\ CacheKept' /\ Grows /\ WorkerInv'
  BY <1>1, QuietStep
<1>4. Typed'
  BY <1>1, <1>2 DEF Typed
<1>5. ChannelInv'
  BY <1>1, <1>2 DEF ChannelInv
<1>6. CollectorInv'
  BY <1>1, <1>2, <1>3, CollectorKept
<1>7. UnitsAccounted'
  <2>1. HungUp' = HungUp /\ CompilerProducer' = CompilerProducer
    BY <1>1 DEF HungUp, CompilerProducer, StringOf
  <2>2. \A u \in DOMAIN program : Somewhere(u)' <=> Somewhere(u)
    BY <1>1 DEF Somewhere
  <2> QED BY <1>1, <1>2, <2>1, <2>2 DEF UnitsAccounted
<1> QED BY <1>3, <1>4, <1>5, <1>6, <1>7 DEF ReaderInv

(* The invariant holds at first. *)
LEMMA ReaderStarts ==
    ASSUME Init
    PROVE  ReaderInv
<1>1. program \in Programs /\ jobs = DOMAIN program /\ channel = <<>> /\ nsIndex = <<>>
  BY DEF Init
<1>2. /\ worker = [w \in Workers |-> Idle] /\ cache = [w \in Workers |-> NoIds]
      /\ strings = [k \in ShardSet |-> <<>>] /\ strIndex = NoIds
      /\ spaces = [k \in ShardSet |-> <<>>]
      /\ origins = <<>> /\ types = <<>> /\ failed = FALSE /\ outcome = "reading"
  BY DEF Init
<1>3. Idle \in WorkerType /\ Idle.at = "idle"
  BY DEF Idle, WorkerType, Places
<1>4. NoIds \in [Strings -> MaybeId] /\ \A s \in Strings : NoIds[s] = NoId
  BY DEF NoIds, MaybeId
<1>5. DOMAIN <<>> = {}
  OBVIOUS
<1>6. Typed
  <2>1. /\ strings \in [ShardSet -> Seq(Strings)] /\ spaces \in [ShardSet -> Seq(SpaceType)]
        /\ channel \in Seq(CguType)
    BY <1>1, <1>2
  <2>2. /\ worker \in [Workers -> WorkerType] /\ cache \in [Workers -> [Strings -> MaybeId]]
        /\ strIndex \in [Strings -> MaybeId]
    BY <1>2, <1>3, <1>4
  <2>3. /\ DOMAIN nsIndex \subseteq MaybeId \X Ids
        /\ \A p \in DOMAIN nsIndex : nsIndex[p] \in Ids
    BY <1>1, <1>5
  <2> QED BY <1>1, <1>2, <2>1, <2>2, <2>3 DEF Typed
<1>7. TablesInv
  BY <1>1, <1>2, <1>4, <1>5 DEF TablesInv, StringsKept, SpacesKept, SpacesNest
<1>8. CacheKept /\ WorkerInv /\ ChannelInv
  BY <1>1, <1>2, <1>3, <1>4, <1>5 DEF CacheKept, WorkerInv, WorkerOK, ChannelInv
<1>9. CollectorInv
  BY <1>2, <1>5 DEF CollectorInv
<1>10. UnitsAccounted
  BY <1>1, <1>2 DEF UnitsAccounted, Somewhere
<1> QED BY <1>6, <1>7, <1>8, <1>9, <1>10 DEF ReaderInv

(* And every step keeps it. *)
LEMMA ReaderKeeps ==
    ASSUME ReaderInv, Room, [Next]_vars
    PROVE  ReaderInv'
<1>1. CASE UNCHANGED vars
  BY <1>1, ReaderStutters
<1>2. CASE Next
  <2>1. outcome = "reading"
    BY <1>2, StillReading DEF ReaderInv
  <2>2. ASSUME NEW w \in Workers, WorkerStep(w)
        PROVE  ReaderInv'
    BY <2>1, <2>2, WorkerStepKeeps
  <2>3. ASSUME NEW n \in jobs, DropJob(n)
        PROVE  ReaderInv'
    BY <2>1, <2>3, DropJobKeeps
  <2>4. CASE Ingest
    BY <2>1, <2>4, IngestKeeps
  <2>5. CASE Finish
    BY <2>5, FinishKeeps
  <2> QED BY <1>2, <2>2, <2>3, <2>4, <2>5 DEF Next
<1> QED BY <1>1, <1>2

(* While no id has run out, the tables stay in step with their indexes,   *)
(* every id a worker, the channel or the collector holds is the index's   *)
(* own for what the unit spelt, and no unit is lost but to an error       *)
(* (ShardedInterner, ShardedNamespaces, intern_cgu, read_jobs).           *)
THEOREM ReaderHolds == Spec /\ []Room => []ReaderInv
<1>1. Init => ReaderInv
  BY ReaderStarts
<1>2. ReaderInv /\ Room /\ [Next]_vars => ReaderInv'
  BY ReaderKeeps
<1> QED BY <1>1, <1>2, PTL DEF Spec

----------------------------------------------------------------------------
(* Paths.  A path is defined by recursion on what is above; it exists     *)
(* because a rank falls on the way up.                                    *)

Ranked(S, base, up, rank) ==
    /\ \A j \in S : rank[j] \in Nat
    /\ \A j \in S : j # base => up[j] \in S /\ rank[up[j]] < rank[j]

IsPaths(S, base, up, name, f) ==
    f = [j \in S |-> IF j = base THEN <<>> ELSE Append(f[up[j]], name[j])]

Below(S, rank, k) == {j \in S : rank[j] <= k}

(* There are paths for what is of any rank or less. *)
LEMMA PathsBelow ==
    ASSUME NEW S, NEW base, NEW up, NEW rank, NEW name, Ranked(S, base, up, rank),
           NEW n \in Nat
    PROVE  \E f : IsPaths(Below(S, rank, n), base, up, name, f)
<1> DEFINE Has(k) == \E f : IsPaths(Below(S, rank, k), base, up, name, f)
           C == {k \in Nat : ~ Has(k)}
<1> SUFFICES ASSUME C # {}
             PROVE  FALSE
  OBVIOUS
<1>1. PICK k \in C : \A j \in C : k <= j
  BY SomeLeast
<1>2. k \in Nat /\ ~ Has(k)
  BY <1>1
<1>3. \E f : \A j \in Below(S, rank, k) : j # base =>
               (up[j] = base => f[up[j]] = <<>>)
               /\ (up[j] # base => f[up[j]] = Append(f[up[up[j]]], name[up[j]]))
  <2>1. CASE k = 0
    BY <1>2, <2>1 DEF Below, Ranked
  <2>2. CASE k # 0
    <3>1. k - 1 \in Nat /\ k - 1 \notin C
      BY <1>1, <1>2, <2>2
    <3>2. PICK f : IsPaths(Below(S, rank, k - 1), base, up, name, f)
      BY <3>1
    <3>3. ASSUME NEW j \in Below(S, rank, k), j # base
          PROVE  up[j] \in Below(S, rank, k - 1)
      BY <1>2, <3>3 DEF Below, Ranked
    <3>4. \A i \in Below(S, rank, k - 1) :
             f[i] = IF i = base THEN <<>> ELSE Append(f[up[i]], name[i])
      BY <3>2 DEF IsPaths
    <3> QED BY <3>3, <3>4
  <2> QED BY <2>1, <2>2
<1>4. PICK f : \A j \in Below(S, rank, k) : j # base =>
               (up[j] = base => f[up[j]] = <<>>)
               /\ (up[j] # base => f[up[j]] = Append(f[up[up[j]]], name[up[j]]))
  BY <1>3
<1> DEFINE g == [j \in Below(S, rank, k) |-> IF j = base THEN <<>> ELSE Append(f[up[j]], name[j])]
<1>5. ASSUME NEW j \in Below(S, rank, k), j # base
      PROVE  g[up[j]] = f[up[j]]
  <2>1. up[j] \in Below(S, rank, k)
    BY <1>2, <1>5 DEF Below, Ranked
  <2> QED BY <1>4, <1>5, <2>1
<1>6. g = [j \in Below(S, rank, k) |-> IF j = base THEN <<>> ELSE Append(g[up[j]], name[j])]
  BY <1>5
<1>7. IsPaths(Below(S, rank, k), base, up, name, g)
  BY <1>6 DEF IsPaths
<1> QED BY <1>2, <1>7

(* And no two of them differ. *)
LEMMA PathsAreOne ==
    ASSUME NEW S, NEW base, NEW up, NEW rank, NEW name, Ranked(S, base, up, rank),
           NEW m \in Nat, NEW n \in Nat, NEW f, NEW g,
           IsPaths(Below(S, rank, m), base, up, name, f),
           IsPaths(Below(S, rank, n), base, up, name, g),
           NEW j \in Below(S, rank, m), j \in Below(S, rank, n)
    PROVE  f[j] = g[j]
<1> DEFINE Both == Below(S, rank, m) \cap Below(S, rank, n)
           C == {rank[i] : i \in {h \in Both : f[h] # g[h]}}
<1> SUFFICES ASSUME C # {}
             PROVE  FALSE
  OBVIOUS
<1>1. C \subseteq Nat
  BY DEF Below, Ranked
<1>2. PICK r \in C : \A q \in C : r <= q
  BY <1>1, SomeLeast
<1>3. PICK i \in Both : f[i] # g[i] /\ r = rank[i]
  BY <1>2
<1>4. /\ f[i] = IF i = base THEN <<>> ELSE Append(f[up[i]], name[i])
      /\ g[i] = IF i = base THEN <<>> ELSE Append(g[up[i]], name[i])
  BY DEF IsPaths
<1>5. i # base
  BY <1>3, <1>4
<1>6. up[i] \in Both /\ rank[up[i]] \in Nat /\ rank[up[i]] < rank[i] /\ rank[i] \in Nat
  BY <1>5 DEF Below, Ranked
<1>7. f[up[i]] = g[up[i]]
  BY <1>2, <1>3, <1>6
<1> QED BY <1>3, <1>4, <1>7

(* There are paths for all there is. *)
LEMMA PathsExist ==
    ASSUME NEW S, NEW base, NEW up, NEW rank, NEW name, Ranked(S, base, up, rank)
    PROVE  \E f : IsPaths(S, base, up, name, f)
<1> DEFINE F(n) == CHOOSE f : IsPaths(Below(S, rank, n), base, up, name, f)
           g == [j \in S |-> F(rank[j])[j]]
<1>1. \A n \in Nat : IsPaths(Below(S, rank, n), base, up, name, F(n))
  BY PathsBelow
<1> HIDE DEF F
<1>2. ASSUME NEW j \in S
      PROVE  g[j] = IF j = base THEN <<>> ELSE Append(g[up[j]], name[j])
  <2>1. rank[j] \in Nat /\ j \in Below(S, rank, rank[j])
    BY DEF Below, Ranked
  <2>2. F(rank[j])[j] = IF j = base THEN <<>> ELSE Append(F(rank[j])[up[j]], name[j])
    BY <1>1, <2>1 DEF IsPaths
  <2>3. CASE j # base
    <3>1. up[j] \in S /\ rank[up[j]] \in Nat /\ rank[up[j]] < rank[j]
      BY <2>3 DEF Ranked
    <3>2. up[j] \in Below(S, rank, rank[j]) /\ up[j] \in Below(S, rank, rank[up[j]])
      BY <2>1, <3>1 DEF Below
    <3>3. F(rank[j])[up[j]] = F(rank[up[j]])[up[j]]
      BY <1>1, <2>1, <3>1, <3>2, PathsAreOne
    <3> QED BY <2>2, <2>3, <3>1, <3>3
  <2> QED BY <2>2, <2>3
<1>3. g = [j \in S |-> IF j = base THEN <<>> ELSE Append(g[up[j]], name[j])]
  BY <1>2
<1> QED BY <1>3 DEF IsPaths

(* What the debug information spells. *)
LEMMA SourcePathIs ==
    ASSUME Typed, NEW u \in DOMAIN program
    PROVE  /\ SourcePath(u, 0) = <<>>
           /\ \A i \in DOMAIN program[u].spaces :
                SourcePath(u, i) = Append(SourcePath(u, program[u].spaces[i].parent),
                                          program[u].spaces[i].name)
<1> DEFINE listed == program[u].spaces
           S == 0 .. Len(listed)
           up == [j \in S |-> listed[j].parent]
           name == [j \in S |-> listed[j].name]
           rank == [j \in S |-> j]
           path == CHOOSE f : f = [j \in S |-> IF j = 0 THEN <<>>
                                     ELSE Append(f[listed[j].parent], listed[j].name)]
<1>1. /\ Len(listed) \in Nat /\ DOMAIN listed = 1 .. Len(listed)
      /\ \A i \in DOMAIN listed : listed[i].parent \in Nat /\ listed[i].parent < i
  BY UnitFacts DEF Typed
<1>2. Ranked(S, 0, up, rank)
  BY <1>1 DEF Ranked
<1>3. PICK f : IsPaths(S, 0, up, name, f)
  BY <1>2, PathsExist
<1>4. f = [j \in S |-> IF j = 0 THEN <<>> ELSE Append(f[listed[j].parent], listed[j].name)]
  BY <1>3 DEF IsPaths
<1>5. path = [j \in S |-> IF j = 0 THEN <<>>
                 ELSE Append(path[listed[j].parent], listed[j].name)]
  BY <1>4
<1>6. \A i \in S : SourcePath(u, i) = path[i]
  BY DEF SourcePath
<1> HIDE DEF path
<1>7. SourcePath(u, 0) = <<>>
  BY <1>1, <1>5, <1>6
<1>8. ASSUME NEW i \in DOMAIN listed
      PROVE  SourcePath(u, i) = Append(SourcePath(u, listed[i].parent), listed[i].name)
  <2>1. i \in S /\ i # 0 /\ listed[i].parent \in S
    BY <1>1
  <2>2. path[i] = Append(path[listed[i].parent], listed[i].name)
    BY <1>5, <2>1
  <2> QED BY <1>6, <2>1, <2>2
<1> QED BY <1>7, <1>8

(* What the tables spell: an id is the root's or an entry's, and its path *)
(* is its parent's and its name.                                          *)
Known == SpaceIds \cup {NoId}
DepthOf(id) == IF id = NoId THEN 0 ELSE SpaceOf(id).depth

(* An id given out is that of its entry, one deeper than the entry above. *)
LEMMA KnownEntry ==
    ASSUME Typed, TablesInv, Room, NEW id \in Known, id # NoId
    PROVE  /\ SpaceOf(id) \in SpaceType
           /\ PairOf(SpaceOf(id)) \in DOMAIN nsIndex /\ nsIndex[PairOf(SpaceOf(id))] = id
           /\ SpaceOf(id).parent \in Known
           /\ SpaceOf(id).depth # 0
           /\ DepthOf(SpaceOf(id).parent) = SpaceOf(id).depth - 1
           /\ \E s \in Strings : strIndex[s] = SpaceOf(id).name
<1>1. PICK k \in ShardSet : \E i \in DOMAIN spaces[k] : id = Encode(k, i - 1)
  BY DEF Known, SpaceIds
<1>2. PICK i \in DOMAIN spaces[k] : id = Encode(k, i - 1)
  BY <1>1
<1>3. SpaceOf(id) = spaces[k][i]
  BY <1>2, FoundSpace
<1>4. spaces[k][i] \in SpaceType
  BY Elements DEF Typed
<1>5. /\ PairOf(spaces[k][i]) \in DOMAIN nsIndex /\ nsIndex[PairOf(spaces[k][i])] = id
  BY <1>2 DEF TablesInv, SpacesKept
<1>6. /\ \E s \in Strings : strIndex[s] = spaces[k][i].name
      /\ spaces[k][i].depth # 0
      /\ DepthIs(spaces, spaces[k][i].parent, spaces[k][i].depth - 1)
  BY DEF TablesInv, SpacesNest
<1> DEFINE above == spaces[k][i].parent
           depth == spaces[k][i].depth - 1
<1>7. above \in Known /\ DepthOf(above) = depth
  <2> HIDE DEF above, depth
  <2>1. CASE above = NoId /\ depth = 0
    BY <2>1 DEF Known, DepthOf
  <2>2. ASSUME NEW h \in ShardSet, NEW j \in DOMAIN spaces[h], above = Encode(h, j - 1),
               spaces[h][j].depth = depth
        PROVE  above \in Known /\ DepthOf(above) = depth
    <3>1. above \in SpaceIds
      BY <2>2 DEF SpaceIds
    <3>2. SpaceOf(above) = spaces[h][j]
      BY <2>2, FoundSpace
    <3>3. j \in Nat \ {0} /\ j - 1 \in Nat
      BY DEF Typed
    <3>4. above # NoId
      BY <2>2, <3>3, EncodeType
    <3> QED BY <2>2, <3>1, <3>2, <3>4 DEF Known, DepthOf
  <2> QED BY <1>6, <2>1, <2>2 DEF DepthIs, above, depth
<1> QED BY <1>3, <1>4, <1>5, <1>6, <1>7

(* A depth is a number. *)
LEMMA DepthIsNat ==
    ASSUME Typed, TablesInv, Room, NEW id \in Known
    PROVE  DepthOf(id) \in Nat
<1>1. CASE id = NoId
  BY <1>1 DEF DepthOf
<1>2. CASE id # NoId
  BY <1>2, KnownEntry DEF DepthOf, SpaceType
<1> QED BY <1>1, <1>2

(* The path of an id is its parent's and its name. *)
LEMMA InternedPathIs ==
    ASSUME Typed, TablesInv, Room
    PROVE  /\ InternedPath(NoId) = <<>>
           /\ \A id \in Known : id # NoId =>
                InternedPath(id) = Append(InternedPath(SpaceOf(id).parent),
                                          StringOf(SpaceOf(id).name))
<1> DEFINE S == Known
           up == [j \in S |-> SpaceOf(j).parent]
           name == [j \in S |-> StringOf(SpaceOf(j).name)]
           rank == [j \in S |-> DepthOf(j)]
           path == CHOOSE f : f = [j \in S |-> IF j = NoId THEN <<>>
                       ELSE Append(f[SpaceOf(j).parent], StringOf(SpaceOf(j).name))]
<1>0. NoId \in S
  BY DEF Known
<1>1. Ranked(S, NoId, up, rank)
  <2>1. \A j \in S : rank[j] \in Nat
    BY DepthIsNat
  <2>2. ASSUME NEW j \in S, j # NoId
        PROVE  up[j] \in S /\ rank[up[j]] < rank[j]
    <3>1. /\ SpaceOf(j).parent \in S /\ SpaceOf(j).depth # 0
          /\ DepthOf(SpaceOf(j).parent) = SpaceOf(j).depth - 1
      BY <2>2, KnownEntry
    <3>2. DepthOf(j) = SpaceOf(j).depth /\ DepthOf(j) \in Nat
      BY <2>2, DepthIsNat DEF DepthOf
    <3> QED BY <3>1, <3>2
  <2> QED BY <2>1, <2>2 DEF Ranked
<1>2. PICK f : IsPaths(S, NoId, up, name, f)
  BY <1>1, PathsExist
<1>3. f = [j \in S |-> IF j = NoId THEN <<>>
                       ELSE Append(f[SpaceOf(j).parent], StringOf(SpaceOf(j).name))]
  BY <1>2 DEF IsPaths
<1>4. path = [j \in S |-> IF j = NoId THEN <<>>
                       ELSE Append(path[SpaceOf(j).parent], StringOf(SpaceOf(j).name))]
  BY <1>3
<1>5. \A i \in S : InternedPath(i) = path[i]
  BY DEF InternedPath, Known
<1> HIDE DEF path
<1>6. InternedPath(NoId) = <<>>
  BY <1>0, <1>4, <1>5
<1>7. ASSUME NEW i \in S, i # NoId
      PROVE  InternedPath(i) = Append(InternedPath(SpaceOf(i).parent), StringOf(SpaceOf(i).name))
  <2>1. SpaceOf(i).parent \in S
    BY <1>7, KnownEntry
  <2>2. path[i] = Append(path[SpaceOf(i).parent], StringOf(SpaceOf(i).name))
    BY <1>4, <1>7
  <2> QED BY <1>5, <2>1, <2>2
<1> QED BY <1>6, <1>7

(* A string's id gives the string back, and so is no other string's. *)
LEMMA StringBack ==
    ASSUME Typed, TablesInv, Room, NEW s \in Strings, strIndex[s] # NoId
    PROVE  StringOf(strIndex[s]) = s
<1>1. ShardOf[s] \in ShardSet
  BY ReaderAssumption
<1>2. PICK i \in DOMAIN strings[ShardOf[s]] :
         strings[ShardOf[s]][i] = s /\ strIndex[s] = Encode(ShardOf[s], i - 1)
  BY DEF TablesInv, StringsKept
<1> QED BY <1>1, <1>2, FoundString

(* The depth of an entry is the length of its path. *)
LEMMA PathLength ==
    ASSUME Typed, TablesInv, Room, NEW id \in Known
    PROVE  InternedPath(id) \in Seq(Strings) /\ Len(InternedPath(id)) = DepthOf(id)
<1> DEFINE OK(i) == InternedPath(i) \in Seq(Strings) /\ Len(InternedPath(i)) = DepthOf(i)
           C == {DepthOf(i) : i \in {h \in Known : ~ OK(h)}}
<1> SUFFICES ASSUME C # {}
             PROVE  FALSE
  OBVIOUS
<1>1. C \subseteq Nat
  BY DepthIsNat
<1>2. PICK r \in C : \A q \in C : r <= q
  BY <1>1, SomeLeast
<1>3. PICK i \in Known : ~ OK(i) /\ r = DepthOf(i)
  BY <1>2
<1>4. i # NoId
  <2>1. InternedPath(NoId) = <<>> /\ DepthOf(NoId) = 0
    BY InternedPathIs DEF DepthOf
  <2>2. <<>> \in Seq(Strings) /\ Len(<<>>) = 0
    OBVIOUS
  <2>3. OK(NoId)
    BY <2>1, <2>2
  <2> QED BY <1>3, <2>3
<1> DEFINE above == SpaceOf(i).parent
           name == StringOf(SpaceOf(i).name)
<1>5. /\ above \in Known /\ SpaceOf(i).depth # 0 /\ SpaceOf(i) \in SpaceType
      /\ DepthOf(above) = SpaceOf(i).depth - 1
      /\ \E s \in Strings : strIndex[s] = SpaceOf(i).name
  BY <1>4, KnownEntry
<1>6. DepthOf(i) = SpaceOf(i).depth /\ DepthOf(i) \in Nat /\ DepthOf(above) \in Nat
  BY <1>4, <1>5, DepthIsNat DEF DepthOf
<1>7. name \in Strings
  <2>1. PICK s \in Strings : strIndex[s] = SpaceOf(i).name
    BY <1>5
  <2>2. strIndex[s] # NoId
    BY <1>5, <2>1 DEF SpaceType, Ids, NoId
  <2> QED BY <2>1, <2>2, StringBack
<1>8. InternedPath(i) = Append(InternedPath(above), name)
  BY <1>4, InternedPathIs
<1> HIDE DEF above, name
<1>9. OK(above)
  <2>1. DepthOf(above) < r
    BY <1>3, <1>5, <1>6
  <2>2. DepthOf(above) \notin C
    <3> HIDE DEF C
    <3> QED BY <1>1, <1>2, <1>6, <2>1
  <2> QED BY <1>5, <2>2
<1> DEFINE pa == InternedPath(above)
           pi == InternedPath(i)
<1>10. pa \in Seq(Strings) /\ Len(pa) = DepthOf(above) /\ pi = Append(pa, name)
  BY <1>8, <1>9
<1> HIDE DEF pa, pi
<1>11. pi \in Seq(Strings) /\ Len(pi) = Len(pa) + 1
  BY <1>7, <1>10, AppendProperties
<1>12. OK(i)
  BY <1>5, <1>6, <1>10, <1>11 DEF pi
<1> QED BY <1>3, <1>12

(* A sequence has one last element and one rest. *)
LEMMA AppendIsOne ==
    ASSUME NEW T, NEW p \in Seq(T), NEW q \in Seq(T), NEW x \in T, NEW y \in T,
           Append(p, x) = Append(q, y)
    PROVE  p = q /\ x = y
<1> DEFINE r == Append(p, x)
<1>1. Len(r) = Len(p) + 1 /\ Len(r) = Len(q) + 1 /\ Len(p) \in Nat /\ Len(q) \in Nat
  OBVIOUS
<1>2. Len(p) = Len(q)
  BY <1>1
<1>3. r[Len(p) + 1] = x /\ r[Len(q) + 1] = y
  OBVIOUS
<1>4. \A i \in 1 .. Len(p) : r[i] = p[i]
  OBVIOUS
<1>5. \A i \in 1 .. Len(q) : r[i] = q[i]
  OBVIOUS
<1>6. \A i \in 1 .. Len(p) : p[i] = q[i]
  BY <1>2, <1>4, <1>5
<1> QED BY <1>2, <1>3, <1>6, SeqEqual

(* No two ids spell one path. *)
LEMMA PathsDiffer ==
    ASSUME Typed, TablesInv, Room, NEW a \in Known, NEW b \in Known,
           InternedPath(a) = InternedPath(b)
    PROVE  a = b
<1> DEFINE Twins == {p \in Known \X Known :
                       InternedPath(p[1]) = InternedPath(p[2]) /\ p[1] # p[2]}
           C == {DepthOf(p[1]) : p \in Twins}
<1> SUFFICES ASSUME a # b
             PROVE  FALSE
  OBVIOUS
<1>0. <<a, b>> \in Twins
  OBVIOUS
<1>1. C # {} /\ C \subseteq Nat
  BY <1>0, DepthIsNat
<1>2. PICK r \in C : \A q \in C : r <= q
  BY <1>1, SomeLeast
<1>3. PICK c \in Known, d \in Known :
        InternedPath(c) = InternedPath(d) /\ c # d /\ r = DepthOf(c)
  BY <1>2
<1>4. DepthOf(c) = DepthOf(d) /\ DepthOf(c) \in Nat
  BY <1>3, PathLength, DepthIsNat
<1>5. c # NoId /\ d # NoId
  <2>1. \A e \in Known : e # NoId => DepthOf(e) # 0
    BY KnownEntry DEF DepthOf
  <2>2. DepthOf(NoId) = 0
    BY DEF DepthOf
  <2> QED BY <1>3, <1>4, <2>1, <2>2
<1> DEFINE pc == SpaceOf(c).parent
           pd == SpaceOf(d).parent
           nc == SpaceOf(c).name
           nd == SpaceOf(d).name
<1>6. /\ pc \in Known /\ SpaceOf(c).depth # 0 /\ DepthOf(pc) = SpaceOf(c).depth - 1
      /\ PairOf(SpaceOf(c)) \in DOMAIN nsIndex /\ nsIndex[PairOf(SpaceOf(c))] = c
      /\ SpaceOf(c) \in SpaceType /\ \E s \in Strings : strIndex[s] = nc
  BY <1>5, KnownEntry
<1>7. /\ pd \in Known
      /\ PairOf(SpaceOf(d)) \in DOMAIN nsIndex /\ nsIndex[PairOf(SpaceOf(d))] = d
      /\ SpaceOf(d) \in SpaceType /\ \E s \in Strings : strIndex[s] = nd
  BY <1>5, KnownEntry
<1>8. /\ InternedPath(c) = Append(InternedPath(pc), StringOf(nc))
      /\ InternedPath(d) = Append(InternedPath(pd), StringOf(nd))
  BY <1>5, InternedPathIs
<1>9. InternedPath(pc) \in Seq(Strings) /\ InternedPath(pd) \in Seq(Strings)
  BY <1>6, <1>7, PathLength
<1>10. StringOf(nc) \in Strings /\ StringOf(nd) \in Strings /\ (StringOf(nc) = StringOf(nd) => nc = nd)
  <2>1. PICK s \in Strings : strIndex[s] = nc
    BY <1>6
  <2>2. PICK t \in Strings : strIndex[t] = nd
    BY <1>7
  <2>3. nc # NoId /\ nd # NoId
    BY <1>6, <1>7 DEF SpaceType, Ids, NoId
  <2>4. StringOf(nc) = s /\ StringOf(nd) = t
    BY <2>1, <2>2, <2>3, StringBack
  <2> QED BY <2>1, <2>2, <2>4
<1>11. DepthOf(pc) \in Nat /\ DepthOf(pc) < DepthOf(c)
  BY <1>4, <1>5, <1>6, DepthIsNat DEF DepthOf
<1>12. PairOf(SpaceOf(c)) = <<pc, nc>> /\ PairOf(SpaceOf(d)) = <<pd, nd>>
  BY DEF PairOf
<1> HIDE DEF pc, pd, nc, nd
<1>13. InternedPath(pc) = InternedPath(pd) /\ StringOf(nc) = StringOf(nd)
  <2>1. Append(InternedPath(pc), StringOf(nc)) = Append(InternedPath(pd), StringOf(nd))
    BY <1>3, <1>8
  <2>2. StringOf(nc) \in Strings /\ StringOf(nd) \in Strings
    BY <1>10
  <2> HIDE DEF Twins, C
  <2> QED BY <1>9, <2>1, <2>2, AppendIsOne
<1>14. pc = pd
  <2> SUFFICES ASSUME pc # pd
               PROVE  FALSE
    OBVIOUS
  <2>1. <<pc, pd>> \in Twins
    BY <1>6, <1>7, <1>13
  <2>2. DepthOf(pc) \in C
    BY <2>1
  <2> QED BY <1>1, <1>2, <1>3, <1>4, <1>11, <2>2
<1> QED BY <1>3, <1>6, <1>7, <1>10, <1>12, <1>13, <1>14

(* The ids of a unit spell what the unit does. *)
LEMMA PathsAgree ==
    ASSUME Typed, TablesInv, Room, NEW u \in DOMAIN program, NEW m \in Seq(Ids),
           Len(m) = Len(program[u].spaces),
           Spelt(program[u].spaces, strIndex, nsIndex, m),
           NEW n \in 0 .. Len(m)
    PROVE  Over(m, n) \in Known /\ InternedPath(Over(m, n)) = SourcePath(u, n)
<1> DEFINE listed == program[u].spaces
           OK(i) == Over(m, i) \in Known /\ InternedPath(Over(m, i)) = SourcePath(u, i)
           C == {i \in 0 .. Len(m) : ~ OK(i)}
<1> SUFFICES ASSUME C # {}
             PROVE  FALSE
  OBVIOUS
<1>0. /\ Len(m) \in Nat /\ DOMAIN m = 1 .. Len(m) /\ DOMAIN listed = DOMAIN m
      /\ \A i \in DOMAIN listed : /\ listed[i].parent \in Nat /\ listed[i].parent < i
                                  /\ listed[i].name \in Strings
  BY UnitFacts DEF Typed
<1>1. C \subseteq Nat
  BY <1>0
<1>2. PICK i \in C : \A j \in C : i <= j
  BY <1>1, SomeLeast
<1>3. i # 0
  <2>1. Over(m, 0) = NoId
    BY DEF Over
  <2>2. OK(0)
    BY <2>1, InternedPathIs, SourcePathIs DEF Known
  <2> QED BY <1>2, <2>2
<1>4. i \in DOMAIN m /\ Over(m, i) = m[i]
  BY <1>0, <1>2, <1>3 DEF Over
<1> DEFINE up == listed[i].parent
           id == strIndex[listed[i].name]
           pair == <<Over(m, up), id>>
<1>5. up \in 0 .. Len(m) /\ OK(up)
  <2>1. up \in 0 .. Len(m) /\ up < i
    BY <1>0, <1>4
  <2> QED BY <1>0, <1>2, <2>1
<1>6. pair \in DOMAIN nsIndex /\ m[i] = nsIndex[pair]
  BY <1>4 DEF Spelt
<1>7. PICK k \in ShardSet : \E j \in DOMAIN spaces[k] :
        PairOf(spaces[k][j]) = pair /\ nsIndex[pair] = Encode(k, j - 1)
  BY <1>6 DEF TablesInv, SpacesKept
<1>8. PICK j \in DOMAIN spaces[k] :
        PairOf(spaces[k][j]) = pair /\ nsIndex[pair] = Encode(k, j - 1)
  BY <1>7
<1>9. m[i] \in Known /\ m[i] # NoId
  <2>1. m[i] \in SpaceIds
    BY <1>6, <1>8 DEF SpaceIds
  <2>2. m[i] \in Ids
    BY <1>4
  <2> QED BY <2>1, <2>2 DEF Known, Ids, NoId
<1>10. SpaceOf(m[i]) = spaces[k][j]
  BY <1>6, <1>8, FoundSpace
<1>11. SpaceOf(m[i]).parent = Over(m, up) /\ SpaceOf(m[i]).name = id
  BY <1>8, <1>10 DEF PairOf
<1>12. StringOf(id) = listed[i].name
  <2>1. listed[i].name \in Strings
    BY <1>0, <1>4
  <2>2. id \in Ids
    BY <1>6 DEF Typed
  <2>3. id # NoId
    BY <2>2 DEF Ids, NoId
  <2> QED BY <2>1, <2>3, StringBack
<1>13. InternedPath(m[i]) = Append(InternedPath(Over(m, up)), listed[i].name)
  BY <1>9, <1>11, <1>12, InternedPathIs
<1>14. SourcePath(u, i) = Append(SourcePath(u, up), listed[i].name)
  BY <1>0, <1>4, SourcePathIs
<1>15. OK(i)
  BY <1>4, <1>5, <1>9, <1>13, <1>14
<1> QED BY <1>2, <1>15

----------------------------------------------------------------------------
(* A finished read. *)

(* A read that did not fail has all its units and types. *)
LEMMA AllRead ==
    ASSUME ReaderInv, outcome # "reading", ~ failed
    PROVE  DOMAIN origins = DOMAIN program /\ DOMAIN types = Dies
<1>1. HungUp /\ \A u \in DOMAIN program : Somewhere(u)
  BY DEF ReaderInv, UnitsAccounted
<1>2. DOMAIN <<>> = {}
  OBVIOUS
<1>3. \A u \in DOMAIN program : u \in DOMAIN origins
  BY <1>1, <1>2 DEF HungUp, Somewhere
<1>4. DOMAIN origins = DOMAIN program
  BY <1>3 DEF ReaderInv, CollectorInv
<1> QED BY <1>4 DEF ReaderInv, CollectorInv, Dies

(* What a type read holds. *)
LEMMA TypeRead ==
    ASSUME ReaderInv, Room, outcome = "read", NEW d \in Dies
    PROVE  /\ types[d].space \in Known /\ types[d].name # NoId
           /\ InternedPath(types[d].space) = SourcePath(d[1], program[d[1]].types[d[2]].space)
           /\ program[d[1]].types[d[2]].name \in Strings
           /\ types[d].name = strIndex[program[d[1]].types[d[2]].name]
           /\ types[d].kind = program[d[1]].types[d[2]].kind
           /\ StringOf(types[d].name) = program[d[1]].types[d[2]].name
<1>1. PICK u \in DOMAIN program : d \in {u} \X DOMAIN program[u].types
  BY DEF Dies
<1>2. PICK i \in DOMAIN program[u].types : d = <<u, i>> /\ d[1] = u /\ d[2] = i
  BY <1>1
<1>3. Typed /\ TablesInv /\ ~ failed
  BY DEF ReaderInv, UnitsAccounted
<1>4. u \in DOMAIN origins
  BY <1>3, AllRead
<1>5. Whole(program[u], strIndex, nsIndex, TypesOf(u))
  BY <1>4 DEF ReaderInv, CollectorInv, UnitRead
<1>6. PICK m \in Seq(Ids) :
        /\ Len(m) = Len(program[u].spaces)
        /\ Spelt(program[u].spaces, strIndex, nsIndex, m)
        /\ \A j \in DOMAIN program[u].types :
              TypeSpelt(program[u].types[j], strIndex, m, TypesOf(u)[j])
  BY <1>5 DEF Whole
<1> DEFINE source == program[u].types[i]
<1>7. TypesOf(u)[i] = types[d]
  BY <1>2 DEF TypesOf
<1>8. /\ source.space \in 0 .. Len(m) /\ strIndex[source.name] # NoId
      /\ types[d] = [kind |-> source.kind, space |-> Over(m, source.space), name |-> strIndex[source.name]]
  BY <1>6, <1>7 DEF TypeSpelt
<1>9. /\ types[d].space = Over(m, source.space) /\ types[d].name = strIndex[source.name]
      /\ types[d].kind = source.kind
  BY <1>8
<1>10. Over(m, source.space) \in Known /\ InternedPath(Over(m, source.space)) = SourcePath(u, source.space)
  BY <1>3, <1>6, <1>8, PathsAgree
<1>11. source.name \in Strings
  BY <1>3, UnitFacts DEF Typed
<1>12. StringOf(strIndex[source.name]) = source.name
  BY <1>3, <1>8, <1>11, StringBack
<1> QED BY <1>2, <1>8, <1>9, <1>10, <1>11, <1>12

(* A finished read is faithful. *)
LEMMA FaithfulHolds ==
    ASSUME ReaderInv, Room
    PROVE  ReadIsFaithful
<1> SUFFICES ASSUME outcome = "read"
             PROVE  ReadIsFaithful
  BY DEF ReadIsFaithful
<1>1. Typed /\ TablesInv /\ ~ failed
  BY DEF ReaderInv, UnitsAccounted
<1>2. DOMAIN origins = DOMAIN program /\ DOMAIN types = Dies
  BY <1>1, AllRead
<1>3. ASSUME NEW d \in Dies
      PROVE  /\ <<types[d].kind, InternedPath(types[d].space), StringOf(types[d].name)>> = SourceName(d)
             /\ types[d].space # NoId =>
                  SpaceOf(types[d].space).depth = Len(InternedPath(types[d].space))
  <2>1. <<types[d].kind, InternedPath(types[d].space), StringOf(types[d].name)>> = SourceName(d)
    BY TypeRead DEF SourceName
  <2>2. types[d].space \in Known
    BY TypeRead
  <2>3. types[d].space # NoId =>
          SpaceOf(types[d].space).depth = Len(InternedPath(types[d].space))
    BY <1>1, <2>2, PathLength DEF DepthOf
  <2> QED BY <2>1, <2>3
<1> QED BY <1>2, <1>3 DEF ReadIsFaithful

(* Its groups are those of the paths. *)
LEMMA GroupsHold ==
    ASSUME ReaderInv, Room
    PROVE  GroupsArePaths
<1> SUFFICES ASSUME outcome = "read", NEW d \in Dies, NEW e \in Dies
             PROVE  GroupKey(d) = GroupKey(e) <=> SourceName(d) = SourceName(e)
  BY DEF GroupsArePaths
<1>1. Typed /\ TablesInv
  BY DEF ReaderInv
<1>2. /\ SourceName(d) = <<types[d].kind, InternedPath(types[d].space), StringOf(types[d].name)>>
      /\ types[d].space \in Known
      /\ types[d].name = strIndex[StringOf(types[d].name)]
  BY TypeRead DEF SourceName
<1>3. /\ SourceName(e) = <<types[e].kind, InternedPath(types[e].space), StringOf(types[e].name)>>
      /\ types[e].space \in Known
      /\ types[e].name = strIndex[StringOf(types[e].name)]
  BY TypeRead DEF SourceName
<1>4. /\ GroupKey(d) = <<types[d].kind, types[d].space, types[d].name>>
      /\ GroupKey(e) = <<types[e].kind, types[e].space, types[e].name>>
  BY DEF GroupKey
<1>5. InternedPath(types[d].space) = InternedPath(types[e].space) => types[d].space = types[e].space
  BY <1>1, <1>2, <1>3, PathsDiffer
<1>6. ASSUME SourceName(d) = SourceName(e)
      PROVE  GroupKey(d) = GroupKey(e)
  <2>1. /\ InternedPath(types[d].space) = InternedPath(types[e].space)
        /\ StringOf(types[d].name) = StringOf(types[e].name) /\ types[d].kind = types[e].kind
    BY <1>2, <1>3, <1>6
  <2> QED BY <1>2, <1>3, <1>4, <1>5, <2>1
<1>7. ASSUME GroupKey(d) = GroupKey(e)
      PROVE  SourceName(d) = SourceName(e)
  BY <1>2, <1>3, <1>4, <1>7
<1> QED BY <1>6, <1>7

(* The compiler it names is the first by offset. *)
LEMMA ProducerHolds ==
    ASSUME ReaderInv, Room
    PROVE  ProducerIsArrivalFree
<1> DEFINE known == {u \in DOMAIN program : program[u].producer # NoProducer}
           rustc == {u \in known : program[u].producer \in Rustc}
           from == IF rustc # {} THEN rustc ELSE known
<1> SUFFICES ASSUME outcome = "read"
             PROVE  IF from = {} THEN producer = NoId
                    ELSE producer # NoId /\ StringOf(producer) = program[Least(from)].producer
  BY DEF ProducerIsArrivalFree
<1>1. Typed /\ TablesInv /\ ~ failed /\ producer = CompilerProducer
  BY DEF ReaderInv, UnitsAccounted
<1>2. DOMAIN origins = DOMAIN program
  BY <1>1, AllRead
<1>3. ASSUME NEW u \in DOMAIN program
      PROVE  /\ u \in Nat
             /\ origins[u] # NoId <=> program[u].producer # NoProducer
             /\ origins[u] # NoId => StringOf(origins[u]) = program[u].producer
  <2>1. ProducerSpelt(program[u].producer, strIndex, origins[u])
    BY <1>2 DEF ReaderInv, CollectorInv, UnitRead
  <2>2. program[u].producer \in Strings \cup {NoProducer} /\ u \in Nat
    BY <1>1, UnitFacts DEF Typed
  <2> QED BY <1>1, <2>1, <2>2, StringBack DEF ProducerSpelt
<1>4. {u \in DOMAIN origins : origins[u] # NoId} = known
  BY <1>2, <1>3
<1>5. {u \in known : StringOf(origins[u]) \in Rustc} = rustc
  BY <1>3
<1>6. CompilerProducer = IF rustc # {} THEN origins[Least(rustc)]
                         ELSE IF known # {} THEN origins[Least(known)] ELSE NoId
  BY <1>4, <1>5 DEF CompilerProducer
<1>7. rustc \subseteq Nat /\ known \subseteq Nat /\ from \subseteq known
  BY <1>3
<1>8. CASE from = {}
  BY <1>1, <1>6, <1>8
<1>9. CASE from # {}
  <2>1. Least(from) \in from
    BY <1>7, <1>9, LeastIsLeast
  <2>2. producer = origins[Least(from)]
    BY <1>1, <1>6, <1>9
  <2> QED BY <1>3, <1>7, <1>9, <2>1, <2>2
<1> QED BY <1>8, <1>9

(* It failed exactly when a unit does not parse. *)
LEMMA FailureHolds ==
    ASSUME ReaderInv
    PROVE  FailureIsReported
<1> SUFFICES ASSUME outcome # "reading"
             PROVE  outcome = "failed" <=> \E u \in DOMAIN program : ~ program[u].parses
  BY DEF FailureIsReported
<1>1. /\ outcome = IF failed THEN "failed" ELSE "read"
      /\ failed => \E u \in DOMAIN program : ~ program[u].parses
  BY DEF ReaderInv, UnitsAccounted
<1>2. ASSUME ~ failed, NEW u \in DOMAIN program
      PROVE  program[u].parses
  <2>1. u \in DOMAIN origins
    BY <1>2, AllRead
  <2> QED BY <2>1 DEF ReaderInv, CollectorInv, UnitRead
<1> QED BY <1>1, <1>2

(* A parallel read is a serial one: while no id has run out, a finished   *)
(* read holds every unit and every type of the program, its ids spell the *)
(* paths and the names the debug information gives, two types share a     *)
(* group exactly when they share path and name, the compiler it names     *)
(* does not depend on which unit arrived first, and it failed exactly     *)
(* when a unit does not parse (read_jobs, intern_cgu, compiler_producer). *)
THEOREM ReadsAreSerial == Spec /\ []Room => []ReadIsSerial
<1>1. ReaderInv /\ Room => ReadIsSerial
  BY FaithfulHolds, GroupsHold, ProducerHolds, FailureHolds DEF ReadIsSerial
<1> QED BY <1>1, ReaderHolds, PTL

=============================================================================
