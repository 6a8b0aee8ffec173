---------------------------- MODULE TypeIdentity ----------------------------
(***************************************************************************)
(* Which of the type DIEs a program's units carry are one type            *)
(* (DwReader::finalize_types).  Every unit repeats the types it uses, as  *)
(* definitions of more or less detail or as bare declarations, and two    *)
(* releases of a crate may define different types under one path.  The    *)
(* definitions of a name are partitioned by layout, a reference counting  *)
(* as equal by name at first and by class after that, until nothing       *)
(* changes; only the groups that refer to a changed one are looked at     *)
(* again.  Declarations left between classes are placed by what their     *)
(* unit defines, and the whole starts over; pointers and arrays without a *)
(* name are merged by their targets last.                                 *)
(*                                                                        *)
(* A struct stands for the unions too.  Besides the references an         *)
(* aggregate's layout is a size and, of an enum, an optional alignment;   *)
(* its members or variants are one list, either list empty where a unit   *)
(* left it out.  One pass is one step: its groups are partitioned in parallel     *)
(* from the same map and independently of one another.                    *)
(***************************************************************************)
EXTENDS Integers, FiniteSets, SequencesExt

CONSTANTS
    Ids,           \* the DIEs, in section order
    Names,         \* kind, namespace and name, the key of a group
    Units,         \* the units the DIEs sit in
    MaxPasses,     \* MAX_IDENTITY_PASSES
    Programs       \* the debug informations considered

None == "none"
Nowhere == 0     \* no DIE, no unit

(* What one DIE says.  A name may come from the declaration that a        *)
(* definition's DW_AT_specification, spec, points at.                     *)
Die == [kind    : {"base", "struct", "enum", "pointer", "array", "subroutine"},
        name    : Names \cup {None},
        size    : Nat,
        align   : Nat,             \* 0: not given
        members : Seq(Ids),        \* of a pointer or array, its target
        params  : Seq(Ids),
        decl    : BOOLEAN,
        spec    : Ids \cup {Nowhere},
        unit    : Units \cup {Nowhere}]

ASSUME IdentityAssumption ==
    /\ Ids \subseteq Nat \ {Nowhere} /\ IsFiniteSet(Ids)
    /\ None \notin Names /\ Nowhere \notin Units
    /\ MaxPasses \in Nat \ {0}
    /\ \A p \in Programs :
          /\ p.dies \in [Ids -> Die]
          /\ DOMAIN p.crates = Names
          /\ DOMAIN p.meant = {d \in Ids : p.dies[d].decl}

VARIABLES
    program,     \* the DIEs; the crates each name's path mentions; and for
                 \* each declaration the definition its compiler had, or Nowhere
    phase,       \* "link", "seed", "cascade", "place", "structure", "done"
    base,        \* specification links and placed declarations
    subs,        \* the map so far: base and every group's aliases
    first,       \* each group's result by name
    current,     \* the results by class, of the groups they moved
    worklist,    \* the groups to partition again
    passes,      \* partition passes run
    unresolved   \* the declarations no evidence placed

vars == <<program, phase, base, subs, first, current, worklist, passes, unresolved>>

dies == program.dies

(* Following the substitutions from a DIE.  A map without a cycle is      *)
(* followed to its end in as many steps as it has entries.                *)
Canonical(map, id) ==
    LET follow[n \in Nat, at \in Ids] ==
          IF n = 0 \/ at \notin DOMAIN map THEN at ELSE follow[n - 1, map[at]]
    IN  follow[Cardinality(DOMAIN map), id]

----------------------------------------------------------------------------
(* Specification links. *)

(* A definition without a name takes its declaration's. *)
NameOf(id) ==
    IF dies[id].name = None /\ dies[id].spec # Nowhere /\ dies[dies[id].spec].kind = dies[id].kind
    THEN dies[dies[id].spec].name ELSE dies[id].name

Linked == {d \in Ids : dies[d].spec # Nowhere}

LinkCanonical(d) ==
    LET s == dies[d].spec
    IN  CASE ~ dies[d].decl /\ dies[s].decl -> d
          [] dies[d].decl /\ ~ dies[s].decl -> s
          [] OTHER -> Min({d, s})

LinkDuplicate(d) == IF LinkCanonical(d) = d THEN dies[d].spec ELSE d

(* In id order, so that the last of several definitions wins. *)
Links ==
    [x \in {LinkDuplicate(d) : d \in Linked} |->
        LinkCanonical(Max({d \in Linked : LinkDuplicate(d) = x}))]

Group(n) == {id \in Ids : NameOf(id) = n}
Groups == {n \in Names : Group(n) # {}}

----------------------------------------------------------------------------
(* One group's partition. *)

Anonymous(id) == dies[id].kind \in {"pointer", "array"} /\ NameOf(id) = None

(* Named references are one by name on the first pass, which has no map   *)
(* before it, and by class under the map so far, prev, on the others.     *)
ByName == {}
ByClass(map) == {map}
MutSameNamed(prev, x, y) == NameOf(x) = NameOf(y)

SameNamed(prev, x, y) ==
    /\ prev = ByName => NameOf(x) = NameOf(y)
    /\ \A map \in prev : Canonical(map, x) = Canonical(map, y)

(* Where one of two references has no name, they are compared by what     *)
(* they point at or hold; function signatures are all one.  A pair met    *)
(* again on the way down decides nothing, and there are no more pairs     *)
(* than n at the start.                                                   *)
SameIdentity(map, prev, x, y) ==
    LET same[n \in Nat, l \in Ids, r \in Ids] ==
          \/ n = 0 \/ l = r
          \/ NameOf(l) # None /\ NameOf(r) # None /\ SameNamed(prev, l, r)
          \/ /\ NameOf(l) = None \/ NameOf(r) = None
             /\ dies[l].kind = dies[r].kind
             /\ \/ dies[l].kind = "subroutine"
                \/ /\ dies[l].kind \in {"pointer", "array"}
                   /\ dies[l].kind = "array" => dies[l].size = dies[r].size
                   /\ same[n - 1, Canonical(map, dies[l].members[1]),
                                  Canonical(map, dies[r].members[1])]
    IN  same[Cardinality(Ids) * Cardinality(Ids), Canonical(map, x), Canonical(map, y)]

(* A list a unit left out agrees with any. *)
ListsAgree(map, prev, s, t) ==
    \/ s = <<>> \/ t = <<>>
    \/ Len(s) = Len(t) /\ \A i \in DOMAIN s : SameIdentity(map, prev, s[i], t[i])

AlignmentsAgree(x, y) == dies[x].align = 0 \/ dies[y].align = 0 \/ dies[x].align = dies[y].align

Compatible(map, prev, x, y) ==
    /\ dies[x].kind = dies[y].kind
    /\ dies[x].size = dies[y].size
    /\ dies[x].kind \in {"base", "enum"} => AlignmentsAgree(x, y)
    /\ ListsAgree(map, prev, dies[x].members, dies[y].members)
    /\ ListsAgree(map, prev, dies[x].params, dies[y].params)

Detail(id) ==
    CASE dies[id].kind = "base" -> 1
      [] dies[id].kind \in {"pointer", "array"} -> 2
      [] dies[id].kind \in {"struct", "enum"} -> 2 * Len(dies[id].members) + Len(dies[id].params) + 1
      [] OTHER -> 0

Resolved(map, n) == {Canonical(map, id) : id \in Group(n)}
Definitions(map, n) == {id \in Resolved(map, n) : ~ dies[id].decl}
Declarations(map, n) == {id \in Resolved(map, n) : dies[id].decl}

MostDetailedFirst(x, y) == Detail(x) > Detail(y) \/ (Detail(x) = Detail(y) /\ x < y)

(* The definitions that open a class: no class before agrees with them. *)
Heads(map, prev, n) ==
    LET open(hs, id) == IF \E i \in DOMAIN hs : Compatible(map, prev, hs[i], id)
                        THEN hs ELSE Append(hs, id)
    IN  FoldLeft(open, <<>>, SetToSortSeq(Definitions(map, n), MostDetailedFirst))

HeadOf(map, prev, hs, id) ==
    hs[Min({i \in DOMAIN hs : Compatible(map, prev, hs[i], id)})]

(* A group's aliases and how many types it comes to.  With one class the  *)
(* declarations join it, with none the lowest; between several each stays *)
(* a type of its own.                                                     *)
Partition(map, prev, n) ==
    LET hs    == Heads(map, prev, n)
        decls == Declarations(map, n)
        joins == IF Len(hs) > 1 THEN {} ELSE decls
        to    == IF hs = <<>> THEN Min(decls) ELSE hs[1]
    IN  IF Cardinality(Group(n)) = 1 THEN [aliases |-> <<>>, canonicals |-> 1]
        ELSE [aliases |-> [x \in (Definitions(map, n) \ Range(hs)) \cup (joins \ {to}) |->
                              IF dies[x].decl THEN to ELSE HeadOf(map, prev, hs, x)],
              canonicals |-> Max({Len(hs), 1}) + IF Len(hs) > 1 THEN Cardinality(decls) ELSE 0]

(* The group a reference lands in, through pointers and arrays without a  *)
(* name.                                                                  *)
GroupReached(map, id) ==
    LET down[n \in Nat, at \in Ids] ==
          IF n = 0 \/ ~ Anonymous(at) THEN at
          ELSE down[n - 1, Canonical(map, dies[at].members[1])]
    IN  NameOf(down[Cardinality(Ids), Canonical(map, id)])

(* The groups a group's definitions refer to: one definition of each      *)
(* class by name is walked.                                               *)
MutDependencies(map, n, byName) ==
    LET walked == Definitions(map, n) \ DOMAIN byName.aliases
        refs   == UNION {Range(dies[d].members) : d \in walked}
    IN  {GroupReached(map, r) : r \in refs} \ {None}

Dependencies(map, n, byName) ==
    LET walked == Definitions(map, n) \ DOMAIN byName.aliases
        refs   == UNION {Range(dies[d].members) \cup Range(dies[d].params) : d \in walked}
    IN  {GroupReached(map, r) : r \in refs} \ {None}

Referrers(m) == {n \in Groups : m \in Dependencies(Links, n, first[n])}

----------------------------------------------------------------------------
(* The passes. *)

Over(m, n) == [x \in DOMAIN m \cup DOMAIN n |-> IF x \in DOMAIN n THEN n[x] ELSE m[x]]

AllAliases(results) ==
    [x \in UNION {DOMAIN results[n].aliases : n \in DOMAIN results} |->
        results[CHOOSE n \in DOMAIN results : x \in DOMAIN results[n].aliases].aliases[x]]

Result(n) == IF n \in DOMAIN current THEN current[n] ELSE first[n]

(* Where class can differ from name: the referrers of split groups. *)
Seed(results) == UNION {Referrers(n) : n \in {m \in Groups : results[m].canonicals > 1}}

(* Taking some groups' aliases out of the map and putting others in.      *)
(* What the base maps stays the base's.                                   *)
Swap(map, under, old, new) ==
    LET out  == DOMAIN old \ DOMAIN under
        in   == DOMAIN new \ DOMAIN under
        back == DOMAIN old \cap DOMAIN under
    IN  [x \in (DOMAIN map \ out) \cup in \cup back |->
            IF x \in in THEN new[x] ELSE IF x \in back THEN under[x] ELSE map[x]]

Link ==
    /\ phase = "link"
    /\ base' = Links
    /\ first' = [n \in Groups |-> Partition(Links, ByName, n)]
    /\ subs' = Over(Links, AllAliases(first'))
    /\ passes' = 1
    /\ phase' = "seed"
    /\ UNCHANGED <<program, current, worklist, unresolved>>

StartCascade ==
    /\ phase = "seed"
    /\ worklist' = Seed([n \in Groups |-> Result(n)])
    /\ phase' = "cascade"
    /\ UNCHANGED <<program, base, subs, first, current, passes, unresolved>>

Changed(results) == {n \in worklist : results[n] # Result(n)}

MutPass ==
    /\ phase = "cascade" /\ worklist # {} /\ passes < MaxPasses
    /\ LET results == [n \in worklist |-> Partition(base, ByClass(subs), n)]
       IN  worklist' = UNION {Referrers(n) : n \in Changed(results)}
    /\ passes' = passes + 1
    /\ UNCHANGED <<program, phase, base, subs, first, current, unresolved>>

Pass ==
    /\ phase = "cascade" /\ worklist # {} /\ passes < MaxPasses
    /\ LET results == [n \in worklist |-> Partition(base, ByClass(subs), n)]
           moved   == [n \in Changed(results) |-> results[n]]
           left    == [n \in DOMAIN moved |-> Result(n)]
       IN  /\ subs' = Swap(subs, base, AllAliases(left), AllAliases(moved))
           /\ current' = Over(current, moved)
           /\ worklist' = UNION {Referrers(n) : n \in DOMAIN moved}
    /\ passes' = passes + 1
    /\ UNCHANGED <<program, phase, base, first, unresolved>>

(* Settled, or given up on with a warning. *)
EndCascade ==
    /\ phase = "cascade" /\ (worklist = {} \/ passes >= MaxPasses)
    /\ phase' = "place"
    /\ UNCHANGED <<program, base, subs, first, current, worklist, passes, unresolved>>

----------------------------------------------------------------------------
(* The unit rule. *)

Classes(n) == {Canonical(subs, id) : id \in Definitions(base, n)}
Split == {n \in Groups : Result(n).canonicals > 1 /\ Cardinality(Classes(n)) > 1}
Loose(n) == {d \in Declarations(base, n) : Canonical(subs, d) = d}

DefinedIn(n, u) == {Canonical(subs, id) : id \in {i \in Definitions(base, n) : dies[i].unit = u}}
UnitsOf(n, class) == {u \in Units : class \in DefinedIn(n, u)}
SoleUnits(n, class) == {u \in Units : DefinedIn(n, u) = {class}}

MutSiblings(n) == Split

Siblings(n) == {m \in Split : m = n \/ program.crates[m] \cap program.crates[n] # {}}

(* The classes of a name defined where a sibling's class alone is. *)
Supporters(n, m, class) == {c \in Classes(n) : UnitsOf(n, c) \cap SoleUnits(m, class) # {}}

Votes(d, n) ==
    {c \in Classes(n) :
        \E m \in Siblings(n) : \E class \in Classes(m) :
            /\ DefinedIn(m, dies[d].unit) = {class}
            /\ Supporters(n, m, class) = {c}}

LooseIn(ns) == UNION {Loose(n) : n \in ns}

(* Every declaration its unit's evidence places, with its one class. *)
Placeable == {d \in LooseIn(Split) : /\ dies[d].unit # Nowhere
                                     /\ Cardinality(Votes(d, NameOf(d))) = 1}

Placed == [d \in Placeable |-> CHOOSE c \in Votes(d, NameOf(d)) : TRUE]

(* Placements go into the base, and everything a class moved goes back to *)
(* its result by name.                                                    *)
Place ==
    /\ phase = "place" /\ Placeable # {}
    /\ base' = Over(base, Placed)
    /\ subs' = Swap(Over(subs, Placed), base', AllAliases(current),
                    AllAliases([n \in DOMAIN current |-> first[n]]))
    /\ current' = <<>>
    /\ phase' = "seed"
    /\ UNCHANGED <<program, first, worklist, passes, unresolved>>

EndPlace ==
    /\ phase = "place" /\ Placeable = {}
    /\ unresolved' = LooseIn(Split)
    /\ phase' = "structure"
    /\ UNCHANGED <<program, base, subs, first, current, worklist, passes>>

----------------------------------------------------------------------------
(* Pointers and arrays without a name, by kind, target and count. *)

Target(id) == <<dies[id].kind, dies[id].size, Canonical(subs, dies[id].members[1])>>
Alike(id) == {x \in Ids : Anonymous(x) /\ Target(x) = Target(id)}
Merged == [x \in {id \in Ids : Anonymous(id) /\ id # Min(Alike(id))} |-> Min(Alike(x))]

MergeAnonymous ==
    /\ phase = "structure"
    /\ subs' = Over(subs, Merged)
    /\ phase' = IF DOMAIN subs' = DOMAIN subs THEN "done" ELSE "structure"
    /\ UNCHANGED <<program, base, first, current, worklist, passes, unresolved>>

----------------------------------------------------------------------------
Init ==
    /\ program \in Programs
    /\ phase = "link"
    /\ base = <<>> /\ subs = <<>> /\ first = <<>> /\ current = <<>>
    /\ worklist = {} /\ passes = 0 /\ unresolved = {}

Next == Link \/ StartCascade \/ Pass \/ EndCascade \/ Place \/ EndPlace \/ MergeAnonymous

Spec == Init /\ [][Next]_vars

----------------------------------------------------------------------------
(* The worklist of the cascade leaves nothing out: once it is empty, a    *)
(* whole pass over every group, under the map the worklist reached, puts  *)
(* every type where it is already (settle_named's claim that its outcome  *)
(* is the whole-pass fixpoint).  It is not where copies of one type mix   *)
(* pointers with and without a name: the one walked may go by the name,   *)
(* and the others' targets bring nobody back.                             *)
WholePass == Over(base, AllAliases([n \in Groups |-> Partition(base, ByClass(subs), n)]))

WorklistMissesNothing ==
    phase = "place" /\ worklist = {} =>
        \A id \in Ids : NameOf(id) # None => Canonical(subs, id) = Canonical(WholePass, id)

(* The reference: the greatest relation in which two named types have one *)
(* name, agree in layout and refer to related types, and two pointers,    *)
(* arrays or signatures of which one has no name agree in kind and count  *)
(* and lead to related types; reached by striking out pairs, with no      *)
(* heads, classes or worklists.                                           *)
Complete ==
    \A x, y \in Ids :
        /\ ~ dies[x].decl /\ dies[x].spec = Nowhere /\ dies[x].align = 0
        /\ NameOf(x) # None /\ NameOf(x) = NameOf(y) =>
              /\ dies[x].members = <<>> <=> dies[y].members = <<>>
              /\ dies[x].params = <<>> <=> dies[y].params = <<>>

RefsOf(id) == dies[id].members \o dies[id].params

Strike(related) ==
    {p \in related :
        LET x == p[1] y == p[2]
        IN  x = y \/
            /\ dies[x].kind = dies[y].kind
            /\ IF NameOf(x) # None /\ NameOf(y) # None
               THEN NameOf(x) = NameOf(y) /\ dies[x].size = dies[y].size
               ELSE /\ dies[x].kind \in {"pointer", "array", "subroutine"}
                    /\ dies[x].kind = "array" => dies[x].size = dies[y].size
            /\ Len(dies[x].members) = Len(dies[y].members)
            /\ Len(dies[x].params) = Len(dies[y].params)
            /\ \A i \in DOMAIN RefsOf(x) : <<RefsOf(x)[i], RefsOf(y)[i]>> \in related}

Coarsest ==
    LET settled[related \in SUBSET (Ids \X Ids)] ==
          IF Strike(related) = related THEN related ELSE settled[Strike(related)]
    IN  settled[Ids \X Ids]

(* Of a program whose units say everything, the identity found is that    *)
(* reference: no two types are one that differ anywhere below, and no     *)
(* type is two that nothing tells apart.                                  *)
IdentityIsCoarsest ==
    phase = "structure" /\ Complete =>
        \A x, y \in Ids : NameOf(x) # None /\ NameOf(y) # None =>
            (Canonical(subs, x) = Canonical(subs, y) <=> <<x, y>> \in Coarsest)

(* What the cascade settles on is the fixpoint of whole passes, and the   *)
(* coarsest identity the units' words allow.                              *)
IdentitySettles == WorklistMissesNothing /\ IdentityIsCoarsest

(* A declaration among several classes is either left a type of its own   *)
(* and reported, or is in the class of the definition its unit was        *)
(* compiled against (place_declarations), for a path of one crate and     *)
(* units that link one release of it.                                     *)
DeclarationsGoHome ==
    phase = "done" =>
        \A d \in DOMAIN program.meant :
            /\ Canonical(subs, d) = d /\ Cardinality(Classes(NameOf(d))) > 1 => d \in unresolved
            /\ ( /\ program.meant[d] # Nowhere
                 /\ Cardinality(program.crates[NameOf(d)]) = 1
                 /\ Cardinality(Classes(NameOf(d))) > 1 ) =>
                   Canonical(subs, d) \in {d, Canonical(subs, program.meant[d])}

(* Every loop ends by itself, whatever the units left out: the passes run *)
(* out of work before they run out of their cap (cascade), and no chain   *)
(* of substitutions comes back on itself (canonicalize_in, which has no   *)
(* cap and would never return).                                           *)
EveryLoopEnds ==
    /\ phase = "place" => worklist = {}
    /\ \A id \in Ids : Canonical(subs, id) \notin DOMAIN subs

=============================================================================
