--------------------------- MODULE MCTypeIdentity ---------------------------
(***************************************************************************)
(* Small programs for the identity of types.  Layered: a wrapper over     *)
(* aggregates over base types, every list present or left out, so that a  *)
(* difference two levels down must come up and incomplete copies may join *)
(* several classes.  Released: units that link one of two releases of a   *)
(* crate, each defining, declaring or not mentioning two of its types.    *)
(***************************************************************************)
EXTENDS TypeIdentity

D(kind, name, size, members, params) ==
    [kind |-> kind, name |-> name, size |-> size, align |-> 0, members |-> members,
     params |-> params, decl |-> FALSE, spec |-> Nowhere, unit |-> Nowhere]

AsProgram(d) == [dies |-> d, crates |-> [n \in Names |-> {}], meant |-> <<>>]
Absent == D("subroutine", None, 0, <<>>, <<>>)

(* 1, 2: the base types B, of either size.  3, 4, 5: aggregates A over    *)
(* them.  6, 7: wrappers W over aggregates.  8: a pointer to an aggregate. *)
LayeredDies ==
    { [i \in Ids |-> CASE i = 1 -> D("base", "B", 1, <<>>, <<>>)
                       [] i = 2 -> D("base", "B", 2, <<>>, <<>>)
                       [] i \in 3 .. 5 -> D("struct", "A", 8, m[i], p[i])
                       [] i \in 6 .. 7 -> D("struct", "W", 8, w[i], <<>>)
                       [] i = 8 -> D("pointer", None, 0, <<5>>, <<>>)] :
        m \in [3 .. 5 -> {<<>>, <<1>>, <<2>>}],
        p \in [3 .. 5 -> {<<>>, <<1>>, <<2>>}],
        w \in {[i \in 6 .. 7 |-> IF i = 6 THEN q ELSE r] :
              q \in {<<3>>}, r \in {<<>>, <<4>>, <<8>>}} }

Layered == {AsProgram(d) : d \in LayeredDies}

(* A definition 3 that takes its name from the declaration 4, a second    *)
(* declaration 6 and a definition 5 of the same name, of alignments given *)
(* or not, and the wrappers 7 and 8 over any of them.                     *)
LinkedDies ==
    { [i \in Ids |-> CASE i = 1 -> D("base", "B", 1, <<>>, <<>>)
                       [] i = 2 -> D("base", "B", 2, <<>>, <<>>)
                       [] i = 3 -> [D("enum", None, 8, <<m[3]>>, <<>>) EXCEPT !.spec = 4, !.align = a]
                       [] i \in {4, 6} -> [D("enum", "A", 0, <<>>, <<>>) EXCEPT !.decl = TRUE, !.unit = i - 3]
                       [] i = 5 -> [D("enum", "A", 8, <<m[5]>>, <<>>) EXCEPT !.align = 4, !.unit = 2]
                       [] i \in 7 .. 8 -> D("struct", "W", 8, <<w[i]>>, <<>>)] :
        m \in [{3, 5} -> {1, 2}], a \in {0, 4, 8}, w \in [7 .. 8 -> 3 .. 6] }
Linkages == {[dies |-> d, crates |-> [n \in Names |-> {}], meant |-> [i \in {4, 6} |-> Nowhere]] :
               d \in LinkedDies}

(* 3, 4: nodes of a list that refer to each other or to themselves, over  *)
(* one base type each.                                                    *)
LoopDies ==
    { [i \in Ids |-> CASE i = 1 -> D("base", "B", 1, <<>>, <<>>)
                       [] i = 2 -> D("base", "B", 2, <<>>, <<>>)
                       [] i \in 3 .. 5 -> D("struct", "A", 8, <<v[i], n[i]>>, <<>>)
                       [] i \in 6 .. 8 -> D("pointer", None, 0, <<i - 3>>, <<>>)] :
        v \in [3 .. 5 -> {1, 2}], n \in [3 .. 5 -> 6 .. 8] }
Loops == {AsProgram(d) : d \in LoopDies}

(* 5, 6: a pointer G with a name and one without, to one of the           *)
(* aggregates 3 and 4 or a base type; 7, 8: the wrappers over them.       *)
PointerDies(wrappers) ==
    { [i \in Ids |-> CASE i = 1 -> D("base", "B", 1, <<>>, <<>>)
                       [] i = 2 -> D("base", "B", 2, <<>>, <<>>)
                       [] i \in 3 .. 4 -> D("struct", "A", 8, <<m[i]>>, <<>>)
                       [] i = 5 -> D("pointer", "G", 0, <<t[5]>>, <<>>)
                       [] i = 6 -> D("pointer", None, 0, <<t[6]>>, <<>>)
                       [] i \in 7 .. 8 -> D("struct", "W", 8, <<w[i - 6]>>, <<>>)] :
        m \in [3 .. 4 -> {1, 2}], t \in [5 .. 6 -> {1, 3, 4}], w \in wrappers }

Pointers ==
    {AsProgram(d) : d \in PointerDies({<<5, 5>>, <<6, 5>>, <<6, 6>>})
                       \cup {e \in PointerDies({<<5, 6>>}) : e[3].members = e[4].members}}

(* The wrapper that is walked goes by the pointer's name, the other by    *)
(* what its pointer leads to.                                             *)
MixedPrograms == {AsProgram(d) : d \in PointerDies({<<5, 6>>})}

(* Ids 2u-1 and 2u are unit u's copies of S and of G.  G refers to S and  *)
(* differs between releases by its own size too ("flat"), only through S  *)
(* ("wrapper"), or is of another crate, of which the second unit links    *)
(* the other release than of S's ("apart").                               *)
UnitOf(i) == (i + 1) \div 2
Says(u, i) == IF i % 2 = 1 THEN u[1] ELSE u[2]

UnitForms == {<<"defined", "defined">>, <<"defined", "declared">>, <<"declared", "declared">>,
              <<"absent", "declared">>, <<"defined", "absent">>}

Released ==
    { [dies |-> [i \in Ids |->
          LET says == Says(form[UnitOf(i)], i)
              r    == IF relation = "apart" /\ i % 2 = 1 /\ UnitOf(i) = 2
                      THEN 3 - release[2] ELSE release[UnitOf(i)]
          IN  IF says = "absent" THEN Absent
              ELSE [D("struct", IF i % 2 = 1 THEN "S" ELSE "G", IF i % 2 = 1 \/ relation # "wrapper" THEN r ELSE 8,
                      IF i % 2 = 1 \/ says = "declared" \/ relation = "apart" THEN <<>> ELSE <<i - 1>>, <<>>)
                    EXCEPT !.decl = says = "declared", !.unit = UnitOf(i)]],
       crates |-> [n \in Names |-> 
                       CASE n = "G" -> {"c"}
                         [] n = "S" -> IF relation = "apart" THEN {"d"} ELSE {"c"}
                         [] OTHER -> {}],
       meant |-> [i \in {j \in Ids : Says(form[UnitOf(j)], j) = "declared"} |->
          LET defs == {j \in Ids : /\ Says(form[UnitOf(j)], j) = "defined" /\ j % 2 = i % 2
                                   /\ relation = "apart" => i % 2 = 0
                                   /\ release[UnitOf(j)] = release[UnitOf(i)]}
          IN  IF defs = {} THEN Nowhere ELSE Min(defs)]] :
      form \in {f \in [1 .. 4 -> UnitForms] : f[4] = <<"defined", "defined">> \/ f[4] = f[3]},
      release \in {r \in [1 .. 4 -> 1 .. 2] : r[1] = 1},
      relation \in {"flat", "wrapper", "apart"} }

MCPrograms == Layered \cup Linkages \cup Loops \cup Pointers \cup Released

=============================================================================
