----------------------------- MODULE MCCoercion -----------------------------
(* Boundary values of every numeric wire type for Coercion.  Integers are  *)
(* given as their 64-bit two's complement pattern in 16-bit limbs (high   *)
(* limb first); doubles as their sign and 2|x| in five limbs.             *)
EXTENDS Coercion

U8(x)  == IntV("uint8", <<0, 0, 0, x>>)
Neg1 == <<65535, 65535, 65535, 65535>>

MCSamples ==
  [BYTE    |-> {U8(0), U8(1), U8(127), U8(128), U8(200), U8(255)},
   BOOLEAN |-> {IntV("bool", <<0, 0, 0, 0>>), IntV("bool", <<0, 0, 0, 1>>)},
   INT16   |-> {IntV("int16", <<65535, 65535, 65535, 32768>>),    \* -32768
                IntV("int16", Neg1),                              \* -1
                IntV("int16", <<0, 0, 0, 256>>),
                IntV("int16", <<0, 0, 0, 32767>>)},
   UINT16  |-> {IntV("uint16", <<0, 0, 0, 255>>), IntV("uint16", <<0, 0, 0, 256>>),
                IntV("uint16", <<0, 0, 0, 65535>>)},
   INT32   |-> {IntV("int32", <<65535, 65535, 32768, 0>>),        \* -2^31
                IntV("int32", <<65535, 65535, 65535, 65407>>),    \* -129
                IntV("int32", <<0, 0, 1, 0>>),                    \* 65536
                IntV("int32", <<0, 0, 32767, 65535>>)},           \* 2^31-1
   UINT32  |-> {IntV("uint32", <<0, 0, 32768, 0>>),               \* 2^31
                IntV("uint32", <<0, 0, 256, 1>>),                 \* 2^24+1
                IntV("uint32", <<0, 0, 65535, 65535>>)},          \* 2^32-1
   INT64   |-> {IntV("int64", <<32768, 0, 0, 0>>),                \* -2^63
                IntV("int64", Neg1),
                IntV("int64", <<0, 1, 0, 0>>),                    \* 2^32
                IntV("int64", <<32, 0, 0, 1>>),                   \* 2^53+1
                IntV("int64", <<32767, 65535, 65535, 65535>>)},   \* 2^63-1
   UINT64  |-> {IntV("uint64", <<0, 0, 0, 0>>),
                IntV("uint64", <<32768, 0, 0, 0>>),               \* 2^63
                IntV("uint64", Neg1)},                            \* 2^64-1
   DOUBLE  |-> {RealV("double", FALSE, <<0, 0, 0, 0, 0>>),
                RealV("double", FALSE, <<0, 0, 0, 0, 1>>),        \* 0.5
                RealV("double", TRUE,  <<0, 0, 0, 0, 1>>),        \* -0.5
                RealV("double", TRUE,  <<0, 0, 0, 0, 2>>),        \* -1.0
                RealV("double", FALSE, <<0, 0, 0, 0, 511>>),      \* 255.5
                RealV("double", FALSE, <<0, 0, 0, 512, 2>>),      \* 2^24+1
                RealV("double", FALSE, <<0, 0, 1, 0, 0>>),        \* 2^31
                RealV("double", TRUE,  <<0, 1, 0, 0, 0>>),        \* -2^63
                RealV("double", FALSE, <<0, 2, 0, 0, 0>>)}]       \* 2^64
====
