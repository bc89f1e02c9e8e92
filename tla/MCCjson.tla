-------------------------------- MODULE MCCjson --------------------------------
(***************************************************************************)
(* cjson on small values and texts.  Calls follow each other: what encode  *)
(* has written may be given to decode.                                     *)
(***************************************************************************)
EXTENDS Integers, Sequences, FiniteSets, SequencesExt, TLC

CONSTANTS DefaultSize, IntMax, DefaultDepth, MaxCalls, MaxConfig

VARIABLES cfg, encode_buf, job, blocks, last, calls, configs,
          origin        \* the value whose text is being decoded, or the one encoded last

C == INSTANCE Cjson
vars == <<cfg, encode_buf, job, blocks, last, calls, configs, origin>>

None == [t |-> "none"]
a == C!Str(<<97>>)
Seven == C!Integer(7)
T(f) == C!Table(f)
K1 == C!Integer(1)
K2 == C!Integer(2)
K12 == C!Integer(12)
Half == C!Dbl(<<48, 46, 53>>)
List(s) == T([k \in {C!Integer(i) : i \in DOMAIN s} |-> s[k.i]])

Atoms ==
    {C!Str(<<b>>) : b \in C!Byte} \cup
    {C!Str(<<>>), C!Str(<<0, 0, 0>>), C!Str(<<97, 34, 98, 127>>), C!Str(<<97, 98, 99, 100, 0>>)} \cup
    {C!Integer(i) : i \in {0, 7, -3, 120}} \cup
    {Half, C!Dbl(<<51>>), C!Dbl(<<49, 101, 43, 49, 53>>), C!Dbl(C!NaN), C!Dbl(C!Inf),
     C!Dbl(C!NegInf), C!Boolean("true"), C!Boolean("false"), C!Nil, C!Null, C!Loop, [t |-> "function"]}

Few == {a, Seven, C!Null, C!Dbl(C!NaN), [t |-> "function"], List(<<a>>)}

Keys == {K1, K2, K12, C!Integer(0), C!Str(<<49>>), a, Half, C!Boolean("true"), C!Dbl(C!Inf)}

Values ==
    Atoms
    \cup {T(k :> v) : k \in Keys, v \in Few}
    \cup {T((k :> a) @@ (j :> v)) : k \in Keys, j \in Keys, v \in Few}
    \cup {T((K1 :> v) @@ (K2 :> a) @@ (k :> Seven)) : k \in Keys \ {K1, K2}, v \in Few}
    \cup {List(<<>>), List(<<List(<<>>)>>), List(<<List(<<List(<<a>>)>>), a>>),
          List(<<a, C!Loop>>), T(a :> T(a :> T(a :> a)))}

-------------------------------------------------------------------------------
(* What decode promises: the texts of the grammar and what they mean. *)

Punct(p) == C!Punct(p)
Num(i) == C!Number(C!DigitsOf(i))
Text(b) == C!String([i \in DOMAIN b |-> C!Char(b[i])])

Scalars == {<<Num(7), Seven>>, <<Text(<<97>>), a>>}

\* G[n]: the texts of n lexemes that are a value, the elements of an array, or
\* the members of an object, each with its meaning.
G[n \in 0 .. 7] ==
    LET Split == {i \in 1 .. n - 2 : TRUE}
        one == IF n = 0 THEN {} ELSE
               (IF n = 1 THEN Scalars ELSE {}) \cup
               (IF n = 2 THEN {<<<<Punct("["), Punct("]")>>, List(<<>>)>>,
                               <<<<Punct("{"), Punct("}")>>, List(<<>>)>>} ELSE {})
        val == {<<IF n = 1 THEN <<x[1]>> ELSE x[1], x[2]>> : x \in one} \cup
               (IF n < 3 THEN {}
                ELSE {<<<<Punct("[")>> \o e[1] \o <<Punct("]")>>, List(e[2])>> : e \in G[n - 2].elems}
                     \cup {<<<<Punct("{")>> \o m[1] \o <<Punct("}")>>, T(m[2])>> : m \in G[n - 2].mems})
        pair == IF n < 3 THEN {}
                ELSE {<<<<Text(k), Punct(":")>> \o v[1], C!Str(k) :> v[2]>> :
                         k \in {<<97>>, <<98>>}, v \in G[n - 2].val}
    IN  [val |-> val,
         elems |-> {<<v[1], <<v[2]>>>> : v \in val} \cup
                   UNION {{<<v[1] \o <<Punct(",")>> \o e[1], <<v[2]>> \o e[2]>> :
                              v \in G[i].val, e \in G[n - 1 - i].elems} : i \in Split},
         pairs |-> pair,
         mems |-> pair \cup
                  UNION {{<<p[1] \o <<Punct(",")>> \o m[1], m[2] @@ p[2]>> :
                             p \in G[i].pairs, m \in G[n - 1 - i].mems} : i \in Split}]

Grammar == UNION {G[n].val : n \in 1 .. 7}

\* Single tokens: what a string or a number stands for, NoValue if nothing.
Hex(c) == C!Hex4(c)
StringTexts ==
    {<<C!Esc(c)>> : c \in {34, 47, 92, 98, 102, 110, 114, 116, 97, 85}} \cup
    {<<Hex(c)>> : c \in {0, 65, 127, 128, 2047, 2048, 55295, 55296, 56320, 57343, 57344, 65535}} \cup
    {<<Hex(c), Hex(d)>> : c \in {55296, 56319, 56320, 65}, d \in {56320, 57343, 55296, 65}} \cup
    {<<C!BadHex>>, <<C!Char(97), C!BadHex>>, <<Hex(55296), C!BadHex>>, <<Hex(55296), C!Char(97)>>}

\* The code points that a sequence of UTF-8 bytes encodes; those of UTF-16 units.
CodePoints(b) ==
    LET From[i \in 1 .. Len(b) + 4] ==
            IF i > Len(b) THEN <<>>
            ELSE LET n == CASE b[i] < 128 -> 1 [] b[i] < 224 -> 2 [] b[i] < 240 -> 3 [] OTHER -> 4
                     lead == b[i] - (CASE n = 1 -> 0 [] n = 2 -> 192 [] n = 3 -> 224 [] n = 4 -> 240)
                 IN  IF i + n - 1 > Len(b) THEN <<-1>>
                     ELSE <<FoldLeft(LAMBDA x, c : x * 64 + (c - 128), lead,
                                     SubSeq(b, i + 1, i + n - 1))>> \o From[i + n]
    IN  From[1]

High == 55296 .. 56319
Low == 56320 .. 57343
IsText(u) ==
    \A i \in DOMAIN u : /\ u[i].k # "badu"
                        /\ u[i].k = "esc" => u[i].c \in {34, 47, 92, 98, 102, 110, 114, 116}
                        /\ u[i].k = "u" /\ u[i].c \in High =>
                             i < Len(u) /\ u[i + 1].k = "u" /\ u[i + 1].c \in Low
                        /\ u[i].k = "u" /\ u[i].c \in Low => i > 1 /\ u[i - 1].c \in High
UnitPoints(u) ==
    IF Len(u) = 2 /\ u[1].c \in High
    THEN <<65536 + (u[1].c - 55296) * 1024 + (u[2].c - 56320)>>
    ELSE [i \in DOMAIN u |->
            IF u[i].k = "esc"
            THEN CASE u[i].c = 98 -> 8 [] u[i].c = 102 -> 12 [] u[i].c = 110 -> 10
                   [] u[i].c = 114 -> 13 [] u[i].c = 116 -> 9 [] OTHER -> u[i].c
            ELSE u[i].c]

\* Digits, a sign, and the forms that only decode_invalid_numbers lets through.
Strict == {<<<<48>>, C!Integer(0)>>, <<<<45, 51>>, C!Integer(-3)>>, <<<<49, 50>>, C!Integer(12)>>,
           <<<<49, 46, 53>>, C!Dbl(<<49, 46, 53>>)>>, <<<<50, 101, 51>>, C!Dbl(<<50, 101, 51>>)>>}
Lenient == {<<<<43, 49>>, C!Integer(1)>>, <<<<48, 120, 49, 102>>, C!Integer(31)>>, <<<<48, 49, 48>>, C!Integer(8)>>}
Refused == {<<48, 56>>, <<45>>, <<45, 45, 49>>, <<49, 120>>}
Numbers == {x[1] : x \in Strict \cup Lenient} \cup Refused

Lexemes == {Punct(p) : p \in {"{", "}", "[", "]", ",", ":", " ", "NUL", "x"}}
           \cup {Num(7), Text(<<97>>), [s |-> <<C!Char(97)>>, closed |-> FALSE]}

Texts == {t[1] : t \in Grammar}
         \cup UNION {{IF i <= Len(g[1]) THEN [g[1] EXCEPT ![i] = x] ELSE Front(g[1]) :
                        i \in 1 .. 5, x \in Lexemes} : g \in UNION {G[n].val : n \in 1 .. 5}}
         \cup {<<x>> : x \in Lexemes \cup {Punct("true"), Punct("null")}} \cup {<<x, y>> : x \in Lexemes, y \in Lexemes} \cup {<<>>}
         \cup {<<C!String(u)>> : u \in StringTexts}
         \cup {<<C!Number(b)>> : b \in Numbers}
         \cup {<<Punct("["), C!Number(b), Punct("]")>> : b \in Numbers}

-------------------------------------------------------------------------------

Init == C!Init /\ origin = None

Encode == \E v \in Values :
              /\ calls = 0 \/ (last.op = "encode" /\ v \in Few)
              /\ C!json_encode(v)
              /\ origin' = v

Decode == \/ /\ calls = 0
             /\ \E t \in Texts : C!json_decode(t)
             /\ origin' = None
          \/ /\ last.op = "encode" /\ last.result # C!Failed
             /\ C!json_decode(last.result.text)
             /\ UNCHANGED origin

Config == /\ calls = 0 \/ job = C!Idle
          /\ \/ \E c \in {C!Nil, [x |-> TRUE]}, s \in {C!Nil, C!Integer(-1), C!Integer(1)},
                   r \in {C!Nil, C!Integer(-1), C!Integer(0), C!Integer(3)} :
                    C!json_cfg_encode_sparse_array(c, r, s)
             \/ C!json_cfg_max_depth(2, 2)
             \/ \E e \in 1 .. 2 : C!json_cfg_invalid_numbers(e, FALSE)
             \/ \E k \in BOOLEAN : C!json_cfg_encode_keep_buffer(k)
          /\ UNCHANGED origin

Next ==
    \/ Encode
    \/ Decode
    \/ Config
    \/ (C!Step \/ C!json_destroy_config) /\ UNCHANGED origin

Spec == Init /\ [][Next]_vars

-------------------------------------------------------------------------------
(* The value that comes back. *)

\* A table is written as an array when its keys are 1, 2, ... without too many
\* holes.
TooSparse(f) ==
    LET m == Max({k.i : k \in DOMAIN f})
    IN  m > cfg.sparse_safe /\ cfg.sparse_ratio > 0 /\ m > Cardinality(DOMAIN f) * cfg.sparse_ratio
ArrayKeys(f) == DOMAIN f # {} /\ \A k \in DOMAIN f : k.t = "integer" /\ k.i > 0
IsArray(f) == ArrayKeys(f) /\ ~TooSparse(f)

NotFinite == {C!Dbl(C!NaN), C!Dbl(C!Inf), C!Dbl(C!NegInf)}

RECURSIVE Parts(_), Depth(_), IsKept(_, _)
Parts(v) == IF v.t # "table" THEN {v}
            ELSE {v} \cup UNION {Parts(v.of[k]) : k \in DOMAIN v.of}
Depth(v) == IF v.t # "table" THEN 0
            ELSE 1 + Max({0} \cup {Depth(v.of[k]) : k \in DOMAIN v.of})

\* A key that is not a string comes back as one.
KeyOf(k) == IF k.t = "string" THEN k ELSE C!Str(C!NumberText(k))

IsKept(v, w) ==
    CASE v.t \in {"nil", "null"} -> w = C!Null
      [] v = C!Dbl(<<51>>) -> w = C!Integer(3)
      [] v \in NotFinite -> w = C!Null
      [] v.t = "table" ->
           /\ w.t = "table"
           /\ IF IsArray(v.of)
              THEN /\ DOMAIN w.of = {C!Integer(i) : i \in 1 .. Max({k.i : k \in DOMAIN v.of})}
                   /\ \A k \in DOMAIN w.of :
                        IsKept(IF k \in DOMAIN v.of THEN v.of[k] ELSE C!Nil, w.of[k])
              ELSE /\ DOMAIN w.of = {KeyOf(k) : k \in DOMAIN v.of}
                   /\ \A s \in DOMAIN w.of : \E k \in DOMAIN v.of :
                        KeyOf(k) = s /\ IsKept(v.of[k], w.of[s])
      [] OTHER -> w = v

\* What encode refuses, and says so.
Unserialisable(v) ==
    \/ Depth(v) > cfg.encode_max_depth
    \/ \E p \in Parts(v) :
         \/ p.t \in {"function", "loop"}
         \/ p \in NotFinite /\ cfg.encode_invalid_numbers = 0
         \/ /\ p.t = "table"
            /\ \/ \E k \in DOMAIN p.of : \/ k.t = "boolean"
                                         \/ k \in NotFinite /\ cfg.encode_invalid_numbers = 0
               \/ ArrayKeys(p.of) /\ TooSparse(p.of) /\ ~cfg.sparse_convert

\* Keys that an int of C does not hold are another matter.
IntKeys(v) ==
    \A p \in Parts(v) : p.t = "table" =>
        \A k \in DOMAIN p.of : k # C!Dbl(C!Inf) /\ (k.t = "integer" => k.i <= IntMax)

\* With encode_invalid_numbers on, NaN is written as such: decode refuses it.
WrittenAsNaN(v) == cfg.encode_invalid_numbers = 1 /\ Parts(v) \cap NotFinite # {}

(* encode refuses exactly the values that cannot be written (functions,    *)
(* NaN, tables that contain themselves or are nested too deep, arrays that *)
(* are mostly holes), and what it accepts decode gives back: arrays with   *)
(* null in the holes, other tables with their keys as strings, strings     *)
(* byte for byte (json_append_data, lua_array_length, json_process_value). *)
ValuesComeBack ==
    /\ last.op = "encode" /\ IntKeys(last.arg) =>
         (last.result = C!Failed <=> Unserialisable(last.arg))
    /\ last.op = "decode" /\ origin # None /\ IntKeys(origin) /\ ~WrittenAsNaN(origin) =>
         last.result # C!Failed /\ IsKept(origin, last.result)

\* A text without its blanks and what follows a zero byte.
Plain(t) ==
    LET z == SelectInSeq(t, LAMBDA x : x = Punct("NUL"))
    IN  SelectSeq(IF z = 0 THEN t ELSE SubSeq(t, 1, z - 1), LAMBDA x : x # Punct(" "))

Meanings(t) ==
    {g[2] : g \in {g \in Grammar : g[1] = t /\ Depth(g[2]) <= cfg.decode_max_depth}}
    \cup (IF t = <<Punct("true")>> THEN {C!Boolean("true")} ELSE {})
    \cup (IF t = <<Punct("null")>> THEN {C!Null} ELSE {})

(* decode accepts exactly the texts of the grammar and gives what they     *)
(* mean: of two members with one name the last counts, the escapes of a    *)
(* string are the UTF-8 of the characters that they name, surrogates in    *)
(* pairs; hexadecimal and octal numbers pass only when they are let        *)
(* through (json_parse_object_context, json_append_unicode_escape,         *)
(* json_is_invalid_number).                                                *)
DecodesTheGrammar ==
    last.op = "decode" /\ origin = None =>
        LET t == last.arg
            p == Plain(t)
            numbers == Strict \cup (IF cfg.decode_invalid_numbers THEN Lenient ELSE {})
            n == IF Len(p) = 1 THEN p[1] ELSE IF Len(p) = 3 THEN p[2] ELSE Punct("x")
        IN  IF Len(t) = 1 /\ "s" \in DOMAIN t[1] /\ t[1].closed
            THEN IF ~IsText(t[1].s) THEN last.result = C!Failed
                 ELSE CodePoints(last.result.b) = UnitPoints(t[1].s)
            ELSE IF "n" \in DOMAIN n /\ n.n \in Numbers
            THEN LET v == {x[2] : x \in {x \in numbers : x[1] = n.n}}
                 IN  IF v = {} THEN last.result = C!Failed
                     ELSE last.result \in IF Len(p) = 1 THEN v ELSE {List(<<x>>) : x \in v}
            ELSE IF Meanings(p) = {} \/ C!NotUTF8(t) THEN last.result = C!Failed
                 ELSE last.result \in Meanings(p)

(* Both: what encode and decode make of each other's texts, and of others. *)
TextsComeBack == ValuesComeBack /\ DecodesTheGrammar

(* No byte is written outside of a buffer, though the functions that write *)
(* strings do not look, and between calls the buffers that are allocated   *)
(* are the kept one and no other: every error frees what its call had      *)
(* allocated, once (json_encode_exception, json_throw_parse_error,         *)
(* json_cfg_encode_keep_buffer).                                           *)
BuffersAreSound ==
    /\ ~encode_buf.past
    /\ job.op = "encode" => ~job.buf.past
    /\ job.op = "decode" => ~job.tmp.past
    /\ job.op = "collected" => blocks = 0
    /\ job.op # "collected" =>
         /\ cfg.keep = C!Allocated(encode_buf)
         /\ blocks = (IF cfg.keep THEN 1 ELSE 0)
                     + (IF job.op = "decode" \/ (job.op = "encode" /\ ~cfg.keep) THEN 1 ELSE 0)
===============================================================================
