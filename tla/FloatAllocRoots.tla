--------------------------- MODULE FloatAllocRoots ---------------------------
(***************************************************************************)
(* The primitives of floats.c that allocate more than once and so must   *)
(* keep their intermediate values as registered local roots:             *)
(* caml_frexp_float (356-371) and caml_modf_float (400-418), with the     *)
(* boxing they use, caml_copy_double (109-120) and Store_double_val /     *)
(* Double_val (85-107).                                                    *)
(*                                                                         *)
(* Any allocation may first run a minor collection (the collector is not  *)
(* code of this file; it is the environment here).  A collection moves    *)
(* every block reachable from the registered roots (CAMLparam/CAMLlocal)  *)
(* to a new address, rewrites those roots and the fields of moved blocks, *)
(* and frees the rest.  A C local that is not registered keeps the old    *)
(* address.                                                                *)
(*                                                                         *)
(* A double is the dyadic rational num / 2^exp, kept normalised, so that  *)
(* frexp and modf are computed exactly.                                    *)
(***************************************************************************)
EXTENDS Integers, Sequences, FiniteSets

CONSTANTS
  Addrs,         \* heap addresses
  Inputs         \* the doubles passed as f

VARIABLES
  prim,    \* "frexp" or "modf"
  pc,      \* the statement the primitive has reached
  heap,    \* address -> block
  locals,  \* C local variable -> value (or unboxed number)
  ret,     \* the value returned by CAMLreturn
  arg,     \* the double the primitive was called with (history)
  ALIGN_DOUBLE  \* ARCH_ALIGN_DOUBLE: fixed per build, both builds checked

vars == <<prim, pc, heap, locals, ret, arg, ALIGN_DOUBLE>>

-----------------------------------------------------------------------------
(* Dyadic doubles.                                                         *)
RECURSIVE Norm(_)
Norm(d) ==
  IF d.num = 0 THEN [num |-> 0, exp |-> 0]
  ELSE IF d.num % 2 = 0 /\ d.exp > 0
       THEN Norm([num |-> d.num \div 2, exp |-> d.exp - 1]) ELSE d
Abs(n) == IF n < 0 THEN -n ELSE n
(* the number of bits of a > 0: the least b with a < 2^b *)
Bits(a) == CHOOSE b \in 0..a : a < 2^b /\ (b = 0 \/ a >= 2^(b - 1))

(* frexp(x, &e): x = m * 2^e with 1/2 <= |m| < 1, or (0, 0) for zero.     *)
Frexp(d) ==
  IF d.num = 0 THEN [m |-> d, e |-> 0]
  ELSE [m |-> Norm([num |-> d.num, exp |-> Bits(Abs(d.num))]),
        e |-> Bits(Abs(d.num)) - d.exp]
(* modf(x, &i): the fractional part, truncating toward zero, and i.        *)
Modf(d) ==
  LET ip == IF d.num < 0 THEN -(Abs(d.num) \div 2^d.exp)
            ELSE d.num \div 2^d.exp
  IN [frac |-> Norm([num |-> d.num - ip * 2^d.exp, exp |-> d.exp]),
      int |-> [num |-> ip, exp |-> 0]]

-----------------------------------------------------------------------------
(* Values and blocks.                                                      *)
Imm(i) == [ptr |-> FALSE, v |-> i]   \* Val_int / Val_unit
Ptr(a) == [ptr |-> TRUE, v |-> a]
ValUnit == Imm(0)
FreeBlock == [tag |-> "free", fields |-> <<>>]
TupleBlock(fs) == [tag |-> "tuple", fields |-> fs]

(* Plausible bugs, used as mutants.                                        *)
StoreDoubleSwapped(d) ==
  IF ALIGN_DOUBLE THEN <<d.exp, d.num>> ELSE <<d>>
FrexpRootsNoMantissa == {"f", "res"}
FrexpFieldsRaw == <<locals["mantissa"], locals["exponent"]>>
ModfRootsNoQuo == {"f", "res", "rem"}

(* Store_double_val into a Double_tag block: one field, or with           *)
(* ARCH_ALIGN_DOUBLE the two words of the union in memory order.          *)
StoreDouble(d) == IF ALIGN_DOUBLE THEN <<d.num, d.exp>> ELSE <<d>>
(* Double_val: the inverse reassembly.                                     *)
DoubleVal(fs) == IF ALIGN_DOUBLE THEN [num |-> fs[1], exp |-> fs[2]] ELSE fs[1]
DoubleBlock(d) == [tag |-> "double", fields |-> StoreDouble(d)]

(* The roots each primitive registers with CAMLparam1 and CAMLlocalN.     *)
FrexpRoots == {"f", "res", "mantissa"}
ModfRoots == {"f", "res", "quo", "rem"}
Roots == IF prim = "frexp" THEN FrexpRoots ELSE ModfRoots

(* Field(res, 0) = mantissa; Field(res, 1) = Val_int(exponent); and       *)
(* Field(res, 0) = quo; Field(res, 1) = rem.                               *)
FrexpFields == <<locals["mantissa"], Imm(locals["exponent"])>>
ModfFields == <<locals["quo"], locals["rem"]>>

-----------------------------------------------------------------------------
(* The minor collection.                                                   *)
PtrsOf(vals) == {v.v : v \in {w \in vals : w.ptr}}
Fields(a) == IF heap[a].tag = "tuple"
             THEN {heap[a].fields[i] : i \in DOMAIN heap[a].fields} ELSE {}
RECURSIVE Reach(_)
Reach(S) ==
  LET S2 == S \cup UNION {PtrsOf(Fields(a)) : a \in S}
  IN IF S2 = S THEN S ELSE Reach(S2)
Live == Reach(PtrsOf({locals[n] : n \in Roots \cap DOMAIN locals})
              \cap {a \in Addrs : heap[a] # FreeBlock})

(* Alloc_small(name, block): optionally run a minor collection, then place *)
(* block at a free address and store the pointer in the C local name.      *)
Relocate(v, mv) == IF v.ptr /\ v.v \in DOMAIN mv THEN Ptr(mv[v.v]) ELSE v
Alloc(name, block, scalars) ==
  \/ \E a \in Addrs :
       /\ heap[a] = FreeBlock
       /\ heap' = [heap EXCEPT ![a] = block]
       /\ locals' = [n \in DOMAIN locals \cup {name} \cup DOMAIN scalars |->
                       IF n = name THEN Ptr(a)
                       ELSE IF n \in DOMAIN scalars THEN scalars[n]
                       ELSE locals[n]]
  \/ \E mv \in [Live -> Addrs \ Live] :
       /\ Cardinality({mv[a] : a \in Live}) = Cardinality(Live)
       /\ LET moved == [b \in Addrs |->
                IF \E a \in Live : mv[a] = b
                THEN LET a == CHOOSE a \in Live : mv[a] = b
                     IN IF heap[a].tag = "tuple"
                        THEN TupleBlock([i \in DOMAIN heap[a].fields |->
                                          Relocate(heap[a].fields[i], mv)])
                        ELSE heap[a]
                ELSE FreeBlock]
          IN \E a \in Addrs :
               /\ moved[a] = FreeBlock
               /\ heap' = [moved EXCEPT ![a] = block]
               /\ locals' =
                    [n \in DOMAIN locals \cup {name} \cup DOMAIN scalars |->
                       IF n = name THEN Ptr(a)
                       ELSE IF n \in DOMAIN scalars THEN scalars[n]
                       ELSE IF n \in Roots THEN Relocate(locals[n], mv)
                       ELSE locals[n]]

(* Double_val of the block a C local points to.                            *)
Unbox(n) == DoubleVal(heap[locals[n].v].fields)

-----------------------------------------------------------------------------
Init ==
  /\ ALIGN_DOUBLE \in BOOLEAN
  /\ prim \in {"frexp", "modf"}
  /\ pc = "call"
  /\ \E x \in Inputs, a \in Addrs :
       /\ heap = [b \in Addrs |-> IF b = a THEN DoubleBlock(x) ELSE FreeBlock]
       /\ locals = [n \in {"f"} \cup (Roots \ {"f"}) |->
                      IF n = "f" THEN Ptr(a) ELSE ValUnit]
  /\ ret = ValUnit
  /\ arg = Unbox("f")

(* mantissa = caml_copy_double(frexp(Double_val(f), &exponent));           *)
FrexpMantissa ==
  /\ prim = "frexp" /\ pc = "call"
  /\ LET r == Frexp(Unbox("f"))
     IN Alloc("mantissa", DoubleBlock(r.m), [exponent |-> r.e])
  /\ pc' = "tuple" /\ UNCHANGED <<prim, ret, arg, ALIGN_DOUBLE>>

(* quo = caml_copy_double(modf(Double_val(f), &frem));                     *)
ModfQuo ==
  /\ prim = "modf" /\ pc = "call"
  /\ LET r == Modf(Unbox("f"))
     IN Alloc("quo", DoubleBlock(r.frac), [frem |-> r.int])
  /\ pc' = "rem" /\ UNCHANGED <<prim, ret, arg, ALIGN_DOUBLE>>

(* rem = caml_copy_double(frem);                                           *)
ModfRem ==
  /\ prim = "modf" /\ pc = "rem"
  /\ Alloc("rem", DoubleBlock(locals["frem"]), <<>>)
  /\ pc' = "tuple" /\ UNCHANGED <<prim, ret, arg, ALIGN_DOUBLE>>

(* res = caml_alloc_tuple(2), its fields initialised to Val_unit.          *)
AllocTuple ==
  /\ pc = "tuple"
  /\ Alloc("res", TupleBlock(<<ValUnit, ValUnit>>), <<>>)
  /\ pc' = "fill" /\ UNCHANGED <<prim, ret, arg, ALIGN_DOUBLE>>

(* Field(res, 0) = mantissa; Field(res, 1) = Val_int(exponent);            *)
(* CAMLreturn(res).  For modf the fields are quo and rem.                  *)
FillAndReturn ==
  /\ pc = "fill"
  /\ heap' = [heap EXCEPT ![locals["res"].v] =
                TupleBlock(IF prim = "frexp" THEN FrexpFields ELSE ModfFields)]
  /\ ret' = locals["res"]
  /\ pc' = "done" /\ UNCHANGED <<prim, locals, arg, ALIGN_DOUBLE>>

(* The primitive has returned to the runtime.                              *)
Returned == pc = "done" /\ UNCHANGED vars

Next ==
  \/ FrexpMantissa \/ ModfQuo \/ ModfRem \/ AllocTuple \/ FillAndReturn
  \/ Returned

Spec == Init /\ [][Next]_vars

-----------------------------------------------------------------------------
Values == [ptr : {TRUE}, v : Addrs] \cup [ptr : {FALSE}, v : Int]
TypeOK ==
  /\ prim \in {"frexp", "modf"}
  /\ pc \in {"call", "rem", "tuple", "fill", "done"}
  /\ \A a \in Addrs :
       \/ heap[a] = FreeBlock
       \/ heap[a].tag = "double"
       \/ heap[a].tag = "tuple" /\ heap[a].fields \in Seq(Values)
  /\ ret \in Values /\ arg \in Inputs /\ ALIGN_DOUBLE \in BOOLEAN

(* When the primitive returns, its tuple holds exactly the decomposition   *)
(* of its argument: (mantissa, exponent) for frexp and (fractional part,  *)
(* integral part) for modf, each float a live boxed double with the right  *)
(* value, whatever collections ran between the allocations.               *)
ResultIntact ==
  pc = "done" =>
    LET t == heap[ret.v]
        Boxed(v, d) == v.ptr /\ heap[v.v].tag = "double"
                       /\ DoubleVal(heap[v.v].fields) = d
    IN /\ ret.ptr /\ t.tag = "tuple"
       /\ IF prim = "frexp"
          THEN Boxed(t.fields[1], Frexp(arg).m)
               /\ t.fields[2] = Imm(Frexp(arg).e)
          ELSE Boxed(t.fields[1], Modf(arg).frac)
               /\ Boxed(t.fields[2], Modf(arg).int)
=============================================================================
