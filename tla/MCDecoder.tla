------------------------------ MODULE MCDecoder ------------------------------
(* One encoding of each category, two that need AVX, a locked one; and      *)
(* VPMOVMSKB, the one AVX encoding whose semantics lack IF_AVX.             *)
EXTENDS Decoder

Encoding(c, n) == [category |-> c, operands |-> n, needs |-> {}, compiled |-> {},
                   locked |-> FALSE]
Needing(c, n, f) == [Encoding(c, n) EXCEPT !.needs = f, !.compiled = f]
AllKinds ==
  [bad |-> Encoding("invalid", 0), mov |-> Encoding("normal", 2),
   nop |-> Encoding("noop", 0), jmp |-> Encoding("jump", 1),
   jcc |-> Encoding("cond branch", 1), call |-> Encoding("call", 1),
   callr |-> Encoding("indirect call", 1), ret |-> Encoding("return", 0),
   int |-> Encoding("hyper call", 1), into |-> Encoding("cond interrupt", 0),
   lock |-> [Encoding("normal", 3) EXCEPT !.locked = TRUE],
   vadd |-> Needing("normal", 3, {"avx"}),
   zadd |-> Needing("normal", 3, {"avx512"}),
   vpmovmskb |-> [Encoding("normal", 2) EXCEPT !.needs = {"avx"}]]
AllArches ==
  [amd64 |-> [features |-> {}, lazy |-> TRUE],
   avx |-> [features |-> {"avx"}, lazy |-> TRUE],
   avx512 |-> [features |-> {"avx", "avx512"}, lazy |-> TRUE],
   aarch64 |-> [features |-> {}, lazy |-> FALSE]]
==============================================================================
