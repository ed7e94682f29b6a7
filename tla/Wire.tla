-------------------------------- MODULE Wire --------------------------------
(***************************************************************************)
(* The coding the bindings under binapi are generated for.  Size, Marshal  *)
(* and Unmarshal of a message spell out, field by field, what follows from *)
(* the types of its fields; here a message is given by these types and the *)
(* three are defined once.  The encoders and decoders of one value are     *)
(* those of package codec of govpp.                                        *)
(***************************************************************************)
EXTENDS Integers, Sequences, SequencesExt

CONSTANT
  Radix        (* how many values a byte has: 256                          *)

ASSUME WireAssumption == Radix \in Nat /\ Radix > 0 /\ Radix % 2 = 0

-----------------------------------------------------------------------------
(* Types.  A layout is the sequence of the fields of a struct, each a      *)
(* function that takes the name of the field to its type.                  *)

Uint(w) == [kind |-> "uint", width |-> w]
Sint(w) == [kind |-> "int", width |-> w]
Bool == [kind |-> "bool"]
String(n) == [kind |-> "string", length |-> n]
Bytes(n) == [kind |-> "bytes", length |-> n]
Slice(n, w) == [kind |-> "slice", length |-> n, width |-> w]
Array(n, T) == [kind |-> "array", length |-> n, of |-> T]
Struct(L) == [kind |-> "struct", fields |-> L]

(* A vector is preceded by the number of its elements, in another field.   *)
Counter(w, vec) == [kind |-> "count", width |-> w, vec |-> vec]
Vector(count, T) == [kind |-> "vector", count |-> count, of |-> T]

Name(f) == CHOOSE n \in DOMAIN f : TRUE
Type(f) == f[Name(f)]

Names(T) == {Name(T.fields[i]) : i \in DOMAIN T.fields}
TypeOf(T, n) ==
  Type(T.fields[CHOOSE i \in DOMAIN T.fields : Name(T.fields[i]) = n])

-----------------------------------------------------------------------------
(* Package codec.                                                          *)

(* The lowest w digits of x, the highest first; those of x + Radix ^ w     *)
(* when x is negative.                                                     *)
Encoded(w, x) ==
  LET q[i \in 0..w] == IF i = 0 THEN x ELSE q[i - 1] \div Radix
  IN  [i \in 1..w |-> q[w - i] % Radix]

Decoded(b) ==
  LET n[i \in 0..Len(b)] == IF i = 0 THEN 0 ELSE n[i - 1] * Radix + b[i]
  IN  n[Len(b)]

DecodedInt(b) ==
  IF Decoded(b) >= Radix ^ Len(b) \div 2
  THEN Decoded(b) - Radix ^ Len(b) ELSE Decoded(b)

(* EncodeString, EncodeBytes and the loop over a slice of fixed length:    *)
(* what is too long is cut, what is missing is zero.                       *)
Fitted(n, v) == [i \in 1..n |-> IF i <= Len(v) THEN v[i] ELSE 0]

(* DecodeString ends at the first zero byte.                               *)
UpToZero(b) ==
  SubSeq(b, 1, Max({n \in 0..Len(b) : \A i \in 1..n : b[i] # 0}))

-----------------------------------------------------------------------------
(* Mutant: a count that nobody filled in is written as it is.              *)
WrittenAsIs(m, f) == m[Name(f)]

(* What is written for a field: the count is that of the vector, whatever  *)
(* the field holds.                                                        *)
Written(m, f) ==
  IF Type(f).kind = "count" THEN Len(m[Type(f).vec]) ELSE m[Name(f)]

(* The zero value of a Go type, and a composite literal that gives some of *)
(* the fields.                                                             *)
RECURSIVE Zero(_)
Zero(T) ==
  CASE T.kind \in {"uint", "int", "count"} -> 0
    [] T.kind = "bool" -> FALSE
    [] T.kind \in {"string", "vector"} -> <<>>
    [] T.kind \in {"bytes", "slice"} -> Fitted(T.length, <<>>)
    [] T.kind = "array" -> [i \in 1..T.length |-> Zero(T.of)]
    [] T.kind = "struct" ->
         [n \in Names(T) |-> Zero(TypeOf(T, n))]

Literal(L, given) == given @@ Zero(Struct(L))

RECURSIVE Size(_, _)
Size(T, v) ==
  CASE T.kind \in {"uint", "int", "count"} -> T.width
    [] T.kind = "bool" -> 1
    [] T.kind \in {"string", "bytes"} -> T.length
    [] T.kind = "slice" -> T.length * T.width
    [] T.kind \in {"array", "vector"} -> Len(v) * Size(T.of, Zero(T.of))
    [] T.kind = "struct" ->
         LET sum[i \in 0..Len(T.fields)] ==
               IF i = 0 THEN 0
               ELSE LET f == T.fields[i]
                    IN  sum[i - 1] + Size(Type(f), v[Name(f)])
         IN  sum[Len(T.fields)]

(* The elements of a vector have one size: none holds a vector itself.     *)
Width(T) == Size(T, Zero(T))

Joined(n, part(_)) ==
  LET some[i \in 0..n] == IF i = 0 THEN <<>> ELSE some[i - 1] \o part(i)
  IN  some[n]

RECURSIVE Marshal(_, _)
Marshal(T, v) ==
  CASE T.kind \in {"uint", "int", "count"} -> Encoded(T.width, v)
    [] T.kind = "bool" -> Encoded(1, IF v THEN 1 ELSE 0)
    [] T.kind \in {"string", "bytes"} -> Fitted(T.length, v)
    [] T.kind = "slice" ->
         LET w == Fitted(T.length, v)
         IN  Joined(T.length, LAMBDA i : Encoded(T.width, w[i]))
    [] T.kind \in {"array", "vector"} ->
         Joined(Len(v), LAMBDA i : Marshal(T.of, v[i]))
    [] T.kind = "struct" ->
         Joined(Len(T.fields),
                LAMBDA i : Marshal(Type(T.fields[i]), Written(v, T.fields[i])))

(* The value of type T that b begins with; m is what has been read of the  *)
(* struct it is a field of.                                                *)
RECURSIVE Unmarshal(_, _, _)
Unmarshal(T, b, m) ==
  LET Elements(n, U) ==
        LET w == Width(U)
            At(i) == SubSeq(b, (i - 1) * w + 1, i * w)
        IN  Joined(n, LAMBDA i : <<Unmarshal(U, At(i), <<>>)>>)
      Fields ==
        LET read[i \in 0..Len(T.fields)] ==
              IF i = 0 THEN [m |-> <<>>, at |-> 0]
              ELSE LET r == read[i - 1]
                       U == Type(T.fields[i])
                       v == Unmarshal(U, SubSeq(b, r.at + 1, Len(b)), r.m)
                   IN  [m |-> r.m @@ (Name(T.fields[i]) :> v),
                        at |-> r.at + Size(U, v)]
        IN  read[Len(T.fields)].m
  IN  CASE T.kind \in {"uint", "count"} -> Decoded(SubSeq(b, 1, T.width))
        [] T.kind = "int" -> DecodedInt(SubSeq(b, 1, T.width))
        [] T.kind = "bool" -> b[1] # 0
        [] T.kind = "string" -> UpToZero(SubSeq(b, 1, T.length))
        [] T.kind = "bytes" -> SubSeq(b, 1, T.length)
        [] T.kind = "slice" -> Elements(T.length, Uint(T.width))
        [] T.kind = "array" -> Elements(T.length, T.of)
        [] T.kind = "vector" -> Elements(m[T.count], T.of)
        [] T.kind = "struct" -> Fields

(* A message goes from its sender to its receiver.                         *)
Received(L, m) == Unmarshal(Struct(L), Marshal(Struct(L), m), <<>>)

=============================================================================
