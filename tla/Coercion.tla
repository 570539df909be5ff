------------------------------ MODULE Coercion ------------------------------
(***************************************************************************)
(* The typed extraction of DBus::MessageIterator (messageiterator.cpp):    *)
(* the conversion operators operator bool() ... operator float(),          *)
(* operator const char*(), operator std::shared_ptr<FileDescriptor>(),     *)
(* and the getters get_bool() ... get_filedescriptor() they end in.        *)
(*                                                                         *)
(* Every numeric operator switches on arg_type(): for the operator's own   *)
(* wire type it calls the getter, for any other numeric wire type it       *)
(* casts *this to that wire type's C++ type -- a call of another           *)
(* conversion operator -- and the result is converted again by the        *)
(* return statement.  Cast below follows that dispatch, recursion          *)
(* included.  Values keep their C++ width: integers are 64-bit two's       *)
(* complement bit patterns, doubles and floats a sign and the bits of      *)
(* 2|x| (one fractional bit), rounded to 53 or 24 significant bits.        *)
(***************************************************************************)
EXTENDS Integers, Sequences

CONSTANTS
  Samples,     \* for each numeric wire type, the values a body may carry
  CharSigned,  \* char is a signed type on the target ABI
  SizeofLong,  \* DBUS_CXX_SIZEOF_LONG_INT
  MaxDepth     \* bound: nesting of conversion-operator calls evaluated

ASSUME CharSigned \in BOOLEAN /\ SizeofLong \in {4, 8} /\ MaxDepth \in Nat

-----------------------------------------------------------------------------
(* Wire types and C++ types.                                               *)

NumericTags == {"BYTE", "BOOLEAN", "INT16", "UINT16", "INT32", "UINT32",
                "INT64", "UINT64", "DOUBLE"}
StringTags  == {"STRING", "OBJECT_PATH", "SIGNATURE"}
Tags == NumericTags \cup StringTags \cup
        {"UNIX_FD", "ARRAY", "STRUCT", "VARIANT", "DICT_ENTRY", "INVALID"}

\* The C++ type each getter get_uint8() ... get_double() returns.
WireCType == [BYTE |-> "uint8", BOOLEAN |-> "bool", INT16 |-> "int16",
              UINT16 |-> "uint16", INT32 |-> "int32", UINT32 |-> "uint32",
              INT64 |-> "int64", UINT64 |-> "uint64", DOUBLE |-> "double"]

\* The conversion operators compiled in; operator (unsigned) long int only
\* where long is 32 bits wide.
NumericTargets ==
  {"bool", "uint8", "uint16", "int16", "uint32", "int32", "uint64", "int64",
   "double", "char", "int8", "float"}
  \cup (IF SizeofLong = 4 THEN {"ulong", "long"} ELSE {})
Targets == NumericTargets \cup {"string", "fd"}

Width  == [bool |-> 1, uint8 |-> 8, char |-> 8, int8 |-> 8, int16 |-> 16,
           uint16 |-> 16, int32 |-> 32, uint32 |-> 32, long |-> 32,
           ulong |-> 32, int64 |-> 64, uint64 |-> 64]
Signed == [bool |-> FALSE, uint8 |-> FALSE, char |-> CharSigned, int8 |-> TRUE,
           int16 |-> TRUE, uint16 |-> FALSE, int32 |-> TRUE, uint32 |-> FALSE,
           long |-> TRUE, ulong |-> FALSE, int64 |-> TRUE, uint64 |-> FALSE]
IsReal(T) == T \in {"double", "float"}
Precision == [double |-> 53, float |-> 24]

-----------------------------------------------------------------------------
(* Values.                                                                 *)

Bits    == 0..63          \* an integer's 64-bit two's complement pattern
MagBits == 0..66          \* 2|x| of a double or float

Throw     == [type |-> "throw"]      \* ErrorInvalidTypecast
Undefined == [type |-> "undefined"]  \* undefined behaviour of a conversion
Overflow  == [type |-> "overflow"]   \* conversion operators recursing without end
Failed(r) == r.type \in {"throw", "undefined", "overflow"}

BitsOfLimbs(l, n) ==
  [i \in 0..(n - 1) |-> (l[Len(l) - (i \div 16)] \div 2^(i % 16)) % 2]
\* An integer value of type T, from its pattern in 16-bit limbs, high first.
IntV(T, l) == [type |-> T, bits |-> BitsOfLimbs(l, 64)]
\* A double value, from the sign and 2|x| in five 16-bit limbs.
RealV(T, neg, l) == [type |-> T, neg |-> neg, mag |-> BitsOfLimbs(l, 67)]

Zero64 == [i \in Bits |-> 0]
One64  == [Zero64 EXCEPT ![0] = 1]

\* Add 2^i to a bit vector, carrying upwards; a carry out of the top is lost.
RECURSIVE AddAt(_, _)
AddAt(v, i) == IF i \notin DOMAIN v THEN v
               ELSE IF v[i] = 0 THEN [v EXCEPT ![i] = 1]
                    ELSE AddAt([v EXCEPT ![i] = 0], i + 1)

\* Integral conversion to T: keep the low Width[T] bits, then sign- or
\* zero-extend (modulo 2^w, as GCC does and C++20 requires).
Extend(b, T) == [i \in Bits |-> IF i < Width[T] THEN b[i]
                               ELSE IF Signed[T] THEN b[Width[T] - 1] ELSE 0]

IsNeg(x) == Signed[x.type] /\ x.bits[63] = 1
Negate(b) == AddAt([i \in DOMAIN b |-> 1 - b[i]], 0)
Magnitude(x) == IF IsNeg(x) THEN Negate(x.bits) ELSE x.bits

NonZero(x) == IF IsReal(x.type) THEN \E i \in MagBits : x.mag[i] = 1
                                ELSE \E i \in Bits : x.bits[i] = 1

\* Round 2|x| to p significant bits, to nearest, ties to even.
RoundSig(m, p) ==
  LET set == {i \in MagBits : m[i] = 1}
      top == IF set = {} THEN -1 ELSE CHOOSE i \in set : \A j \in set : j <= i
      cut == top - p + 1
      kept == [i \in MagBits |-> IF i >= cut THEN m[i] ELSE 0]
      up == /\ cut > 0 /\ m[cut - 1] = 1
            /\ \/ \E i \in 0..(cut - 2) : m[i] = 1
               \/ m[cut] = 1
  IN IF cut <= 0 THEN m ELSE IF up THEN AddAt(kept, cut) ELSE kept

\* Floating to integral: truncate toward zero; undefined unless the
\* truncated value is representable in T.
RealToInt(x, T) ==
  LET t   == [i \in Bits |-> x.mag[i + 1]]
      big == x.mag[65] = 1 \/ x.mag[66] = 1
      lim == IF Signed[T] THEN Width[T] - 1 ELSE Width[T]
      high == {i \in Bits : i >= lim /\ t[i] = 1}
      fits == ~big /\ IF ~x.neg THEN high = {}
                      ELSE IF ~Signed[T] THEN t = Zero64
                      ELSE \/ high = {}
                           \/ high = {lim} /\ \A i \in 0..(lim - 1) : t[i] = 0
  IN IF fits THEN [type |-> T, bits |-> Extend(IF x.neg THEN Negate(t) ELSE t, T)]
     ELSE Undefined

\* The implicit or static_cast conversion of value x to C++ type T.
Conv(x, T) ==
  CASE x.type = T -> x
    [] T = "bool" -> [type |-> "bool", bits |-> IF NonZero(x) THEN One64 ELSE Zero64]
    [] ~IsReal(x.type) /\ ~IsReal(T) -> [type |-> T, bits |-> Extend(x.bits, T)]
    [] ~IsReal(x.type) /\ IsReal(T) ->
         [type |-> T, neg |-> IsNeg(x),
          mag |-> RoundSig([i \in MagBits |-> IF i = 0 \/ i > 64 THEN 0
                                              ELSE Magnitude(x)[i - 1]], Precision[T])]
    [] IsReal(x.type) /\ IsReal(T) ->
         [type |-> T, neg |-> x.neg, mag |-> RoundSig(x.mag, Precision[T])]
    [] OTHER -> RealToInt(x, T)

-----------------------------------------------------------------------------
(* The conversion operators.                                               *)

\* The switch rows that call a getter directly: the operator's own wire
\* type, and operator char/int8_t on BYTE (static_cast of get_uint8()),
\* operator float on DOUBLE (static_cast of get_double()), operator
\* unsigned long / long on UINT32 / INT32.
GetterRows == {<<"char", "BYTE">>, <<"int8", "BYTE">>, <<"float", "DOUBLE">>,
               <<"ulong", "UINT32">>, <<"long", "INT32">>}

\* A copy-paste slip in one row: operator int16_t's UINT16 case calling
\* get_int16().
ViaCopyPaste(T, tag) ==
  IF <<T, tag>> = <<"int16", "UINT16">> THEN <<"get", "INT16">>
  ELSE IF WireCType[tag] = T \/ <<T, tag>> \in GetterRows
  THEN <<"get", tag>> ELSE <<"op", WireCType[tag]>>

\* What case `tag` of operator T does: <<"get", X>> calls get_X(),
\* <<"op", C>> evaluates (C)(*this), i.e. operator C.
Via(T, tag) ==
  IF WireCType[tag] = T \/ <<T, tag>> \in GetterRows
  THEN <<"get", tag>> ELSE <<"op", WireCType[tag]>>

\* get_X(): throws unless arg_type() is X, else the value as libdbus
\* returns it.
Getter(X, tag, v) == IF tag = X THEN v ELSE Throw

\* The conversion of the return statement left out: a case yields the
\* value of the operator it delegates to, in that operator's type.
CastDUnconverted(T, tag, v, d) ==
  IF tag \notin NumericTags THEN Throw
  ELSE IF Via(T, tag)[1] = "get" THEN Getter(Via(T, tag)[2], tag, v)
  ELSE Getter(tag, tag, v)

\* operator T() on a value v of wire type tag, with at most d nested
\* operator calls.
RECURSIVE CastD(_, _, _, _)
CastD(T, tag, v, d) ==
  IF tag \notin NumericTags THEN Throw
  ELSE IF d = 0 THEN Overflow
  ELSE LET via == Via(T, tag)
           r == IF via[1] = "get" THEN Getter(via[2], tag, v)
                ELSE CastD(via[2], tag, v, d - 1)
       IN IF Failed(r) THEN r ELSE Conv(r, T)

\* operator const char*(): get_string() for the three string-like types.
StringCast(tag, v) == IF tag \in StringTags THEN v ELSE Throw

\* operator std::shared_ptr<FileDescriptor>(): get_filedescriptor().
FdCast(tag, v) == IF tag = "UNIX_FD" THEN v ELSE Throw

Cast(T, tag, v) ==
  CASE T = "string" -> StringCast(tag, v)
    [] T = "fd"     -> FdCast(tag, v)
    [] OTHER        -> CastD(T, tag, v, MaxDepth)

-----------------------------------------------------------------------------
(* A caller extracting values: each state is one extraction request.       *)

VARIABLE req

\* A value of a non-numeric wire type, which no numeric conversion reads.
Opaque(tag) == [type |-> tag]

SampleOf(tag) == IF tag \in NumericTags THEN Samples[tag] ELSE {Opaque(tag)}

Requests == UNION {{[target |-> T, tag |-> g, val |-> v] : v \in SampleOf(g)} :
                   T \in Targets, g \in Tags}

Init == req \in Requests

\* The caller applies another conversion operator to some iterator.
Extract == req' \in Requests

Spec == Init /\ [][Extract]_req

Result == Cast(req.target, req.tag, req.val)

-----------------------------------------------------------------------------
(* Properties.                                                             *)

\* The canonical bit pattern of a value of integral type T.
Canonical(b, T) ==
  \A i \in Bits : i >= Width[T] =>
     b[i] = IF Signed[T] THEN b[Width[T] - 1] ELSE 0

\* Every extraction either throws, or returns a value of the requested C++
\* type: an integral result within its width, a bool 0 or 1, a floating
\* result with no more significant bits than its type holds.
TypeOK ==
  /\ req \in Requests
  /\ \/ Failed(Result)
     \/ req.target \in {"string", "fd"} /\ Result = req.val
     \/ /\ Result.type = req.target
        /\ IF IsReal(req.target)
           THEN RoundSig(Result.mag, Precision[req.target]) = Result.mag
           ELSE Canonical(Result.bits, req.target)

\* The value a numeric x stands for, read back independently of Conv: its
\* sign, and 2|x| as bits (bit i has weight 2^(i-1)).
NumNeg(x) == IF IsReal(x.type) THEN x.neg ELSE IsNeg(x)
Mag2(x) == IF IsReal(x.type) THEN x.mag
           ELSE [i \in MagBits |-> IF i = 0 \/ i > 64 THEN 0 ELSE Magnitude(x)[i - 1]]
IsZeroMag(m) == \A i \in MagBits : m[i] = 0
SameValue(x, y) ==
  /\ Mag2(x) = Mag2(y)
  /\ NumNeg(x) = NumNeg(y) \/ IsZeroMag(Mag2(x))

\* |x| < 2^k, and |x| <= 2^k, on 2|x|.
Below(m, k)  == \A i \in MagBits : i >= k + 1 => m[i] = 0
AtMost(m, k) == Below(m, k) \/ \A i \in MagBits : m[i] = IF i = k + 1 THEN 1 ELSE 0

\* The value of x can be held exactly by C++ type T: an integer in T's
\* range, or a real with no more significant bits than T's precision.
Representable(x, T) ==
  LET m == Mag2(x)
      neg == NumNeg(x) /\ ~IsZeroMag(m)
  IN IF IsReal(T) THEN RoundSig(m, Precision[T]) = m
     ELSE /\ m[0] = 0
          /\ CASE ~Signed[T] -> ~neg /\ Below(m, Width[T])
               [] neg        -> AtMost(m, Width[T] - 1)
               [] OTHER      -> Below(m, Width[T] - 1)

\* Any numeric type can be extracted from any numeric wire type (spec 4.1),
\* and a value the requested type can hold comes back unchanged: every
\* case of every conversion operator, through the operators it delegates
\* to and the conversions of their return statements, preserves it.
ValuePreserved ==
  /\ req.target \in NumericTargets
  /\ req.tag \in NumericTags
  /\ Representable(req.val, req.target)
  => /\ ~Failed(Result)
     /\ Result.type = req.target
     /\ SameValue(Result, req.val)

\* Any numeric type can be extracted from any numeric wire value (spec 4.1):
\* no conversion operator performs a conversion with undefined behaviour.
NoUndefinedCast == Result # Undefined

====
