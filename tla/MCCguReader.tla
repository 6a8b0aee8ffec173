---------------------------- MODULE MCCguReader ----------------------------
(***************************************************************************)
(* Small debug informations for the parallel read: units that name the    *)
(* same namespaces in different orders, one name under two parents, a     *)
(* type per level, a C unit beside rustc's, and units that do not parse.  *)
(* Two shards, so that parents and children fall in either.               *)
(***************************************************************************)
EXTENDS CguReader, TLC

CONSTANTS w1, w2, w3, a, b, name_t, rust_c, clang

MCStrings == {a, b, name_t, rust_c, clang}
MCShardOf == (a :> 0) @@ (b :> 1) @@ (name_t :> 0) @@ (rust_c :> 1) @@ (clang :> 1)
MCNsShardOf(parent, name) == (parent + name) % Shards

Space(p, n) == [parent |-> p, name |-> n]
Type(k, s, n) == [kind |-> k, space |-> s, name |-> n]

(* a, a::b *)
Nested == [parses |-> TRUE, spaces |-> <<Space(0, a), Space(1, b)>>,
           types |-> <<Type(1, 2, name_t)>>, producer |-> rust_c]

(* b, a, a::b: another order, b at two depths, and two kinds of one name *)
Reordered == [parses |-> TRUE,
              spaces |-> <<Space(0, b), Space(0, a), Space(2, b)>>,
              types |-> <<Type(1, 3, name_t), Type(2, 3, name_t), Type(1, 1, name_t)>>, producer |-> rust_c]

(* a C object: no namespaces, another compiler *)
Foreign == [parses |-> TRUE, spaces |-> <<>>, types |-> <<Type(1, 0, name_t)>>,
            producer |-> clang]

Anonymous == [Foreign EXCEPT !.producer = NoProducer]

Malformed == [Foreign EXCEPT !.parses = FALSE]

(* Two units; the offsets are the units' places in the section. *)
TwoUnits == {(10 :> x) @@ (20 :> y) :
               x \in {Foreign, Nested, Malformed},
               y \in {Nested, Reordered, Anonymous}}

(* Three units on a channel of one slot. *)
ThreeUnits == {(10 :> x) @@ (20 :> y) @@ (30 :> z) :
                 x \in {Foreign, Anonymous}, y \in {Nested, Malformed},
                 z \in {Nested, Malformed}}

MCPrograms == TwoUnits \cup ThreeUnits

=============================================================================
