------------------------------- MODULE JsonText -------------------------------
(***************************************************************************)
(* The texts of src/depends/json/lua_cjson.c and the tokens it reads in    *)
(* them.                                                                   *)
(*                                                                         *)
(* A text is a sequence of lexemes, each a record:                         *)
(*   [p |-> "{"]  one of { } [ ] , : the blank, the zero byte, true,       *)
(*                false, null, and a byte that starts no token;            *)
(*   [n |-> b]    a number, b the codes of its characters;                 *)
(*   [s |-> u, closed |-> c]  a string of the units u, with or without its *)
(*                final quote.                                             *)
(* A unit is a byte as it is, an escape \c, or an escape \uXXXX.           *)
(***************************************************************************)
EXTENDS Integers, Sequences, SequencesExt

Byte == 0 .. 255
Minus == 45
Quote == 34

Char(c) == [k |-> "byte", c |-> c]
Esc(c) == [k |-> "esc", c |-> c]
Hex4(c) == [k |-> "u", c |-> c]
BadHex == [k |-> "badu", c |-> 0]

Punct(p) == [p |-> p]
Number(b) == [n |-> b]
String(u) == [s |-> u, closed |-> TRUE]

UnitBytes(u) == CASE u.k = "byte" -> 1 [] u.k = "esc" -> 2 [] OTHER -> 6

Bytes(x) ==
    IF "n" \in DOMAIN x THEN Len(x.n)
    ELSE IF "s" \in DOMAIN x
         THEN FoldLeft(LAMBDA a, u : a + UnitBytes(u), IF x.closed THEN 2 ELSE 1, x.s)
         ELSE CASE x.p \in {"true", "null"} -> 4 [] x.p = "false" -> 5 [] OTHER -> 1

TextBytes(t) == FoldLeft(LAMBDA a, x : a + Bytes(x), 0, t)

-------------------------------------------------------------------------------
(* Characters. *)

Letter == [b |-> 98, t |-> 116, n |-> 110, f |-> 102, r |-> 114, u |-> 117]

\* What a byte of a Lua string becomes in the text.
char2escape(b) ==
    CASE b = 8  -> Esc(Letter.b)
      [] b = 9  -> Esc(Letter.t)
      [] b = 10 -> Esc(Letter.n)
      [] b = 12 -> Esc(Letter.f)
      [] b = 13 -> Esc(Letter.r)
      [] b \in ((0 .. 31) \ {8, 9, 10, 12, 13}) \cup {127} -> Hex4(b)
      [] b \in {Quote, 47, 92} -> Esc(b)
      [] OTHER -> Char(b)

\* The byte an escape stands for, 0 if it stands for none.
escape2char(c) ==
    CASE c \in {Quote, 92, 47} -> c
      [] c = Letter.b -> 8
      [] c = Letter.t -> 9
      [] c = Letter.n -> 10
      [] c = Letter.f -> 12
      [] c = Letter.r -> 13
      [] OTHER -> 0

codepoint_to_utf8(cp) ==
    CASE cp <= 127     -> <<cp>>
      [] cp \in 128 .. 2047 -> <<192 + cp \div 64, 128 + (cp % 64)>>
      [] cp \in 2048 .. 65535 ->
             <<224 + cp \div 4096, 128 + ((cp \div 64) % 64), 128 + (cp % 64)>>
      [] OTHER -> <<240 + cp \div 262144, 128 + ((cp \div 4096) % 64),
                    128 + ((cp \div 64) % 64), 128 + (cp % 64)>>

IsSurrogate(c) == c \div 2048 = 27      \* (c & 0xF800) == 0xD800
IsLow(c) == c \div 1024 = 55            \* (c & 0xFC00) == 0xDC00

Bad == -1

\* Mutant: the two halves of a pair are not taken together.
EscapeAlone(u, i) ==
    IF u[i].k = "badu" THEN [bytes |-> <<Bad>>, units |-> 1]
    ELSE [bytes |-> codepoint_to_utf8(u[i].c), units |-> 1]

\* The bytes of an escape \uXXXX and how many units it takes: two when it is
\* the first half of a surrogate pair.
json_append_unicode_escape(u, i) ==
    IF u[i].k = "badu" THEN [bytes |-> <<Bad>>, units |-> 1]
    ELSE IF ~IsSurrogate(u[i].c) THEN [bytes |-> codepoint_to_utf8(u[i].c), units |-> 1]
    ELSE IF \/ IsLow(u[i].c)
            \/ i = Len(u)
            \/ u[i + 1].k # "u"
            \/ ~IsLow(u[i + 1].c)
         THEN [bytes |-> <<Bad>>, units |-> 1]
    ELSE [bytes |-> codepoint_to_utf8((u[i].c % 1024) * 1024 + (u[i + 1].c % 1024) + 65536),
          units |-> 2]

\* The bytes of a string token; with Bad among them where the token is refused.
json_next_string_token(u) ==
    LET From[i \in 1 .. Len(u) + 1] ==
            IF i = Len(u) + 1 THEN <<>>
            ELSE IF u[i].k = "byte" THEN (IF u[i].c = 0 THEN <<Bad>> ELSE <<u[i].c>>) \o From[i + 1]
            ELSE IF u[i].k = "esc"
                 THEN (IF escape2char(u[i].c) = 0 THEN <<Bad>> ELSE <<escape2char(u[i].c)>>)
                      \o From[i + 1]
            ELSE LET e == json_append_unicode_escape(u, i)
                 IN  e.bytes \o From[i + e.units]
    IN  From[1]

-------------------------------------------------------------------------------
(* Numbers. *)

IsDigit(c) == c \in 48 .. 57
IsHex(c) == IsDigit(c) \/ c \in 65 .. 70 \/ c \in 97 .. 102
DigitOf(c) == IF IsDigit(c) THEN c - 48 ELSE (c % 32) + 9

At(b, i) == IF i \in DOMAIN b THEN b[i] ELSE 0

\* strtoll(b, &end, 0): the base is what the digits say, 0x is hexadecimal and
\* a leading 0 is octal.
strtoll(b) ==
    LET sign == IF At(b, 1) = Minus THEN -1 ELSE 1
        first == IF At(b, 1) \in {43, Minus} THEN 2 ELSE 1
        hex == At(b, first) = 48 /\ At(b, first + 1) \in {88, 120} /\ IsHex(At(b, first + 2))
        base == IF hex THEN 16 ELSE IF At(b, first) = 48 THEN 8 ELSE 10
        start == IF hex THEN first + 2 ELSE first
        Fits(c) == IF hex THEN IsHex(c) ELSE c \in 48 .. (47 + base)
        Value[i \in (start - 1) .. Len(b)] ==
            IF i = start - 1 THEN 0 ELSE Value[i - 1] * base + DigitOf(b[i])
        ends == {i \in start .. Len(b) : \A j \in start .. i : Fits(b[j])}
        last == CHOOSE i \in ends : \A j \in ends : j <= i
    IN  IF ends = {} THEN [value |-> 0, end |-> 1]
        ELSE [value |-> sign * Value[last], end |-> last + 1]

json_is_invalid_number(b) ==
    LET p == IF At(b, 1) = Minus THEN 2 ELSE 1
    IN  \/ At(b, 1) = 43
        \/ At(b, p) = 48 /\ (At(b, p + 1) \in {88, 120} \/ IsDigit(At(b, p + 1)))
        \/ At(b, p) \in {73, 105, 78, 110}      \* inf, nan

\* The token at the head of the text t and the text after it.  T_UNKNOWN
\* covers what none of the branches recognises.
Token(type, rest) == [type |-> type, rest |-> rest]
Error(t) == Token("T_ERROR", t)

json_next_number_token(b, t) ==
    LET r == strtoll(b)
        left == SubSeq(b, r.end, Len(b))
    IN  IF r.end = 1 THEN Error(t)
        ELSE IF At(b, r.end) \in {46, 69, 101}      \* . E e: strtod reads it all
             THEN Token("T_NUMBER", Tail(t)) @@ [double |-> b]
             ELSE Token("T_INTEGER", IF left = <<>> THEN Tail(t)
                                     ELSE <<Number(left)>> \o Tail(t))
                  @@ [integer |-> r.value]

ch2token ==
    ("{" :> "T_OBJ_BEGIN") @@ ("}" :> "T_OBJ_END") @@ ("[" :> "T_ARR_BEGIN") @@
    ("]" :> "T_ARR_END") @@ ("," :> "T_COMMA") @@ (":" :> "T_COLON") @@
    ("true" :> "T_BOOLEAN") @@ ("false" :> "T_BOOLEAN") @@ ("null" :> "T_NULL") @@
    ("x" :> "T_ERROR")

json_next_token(text, invalidNumbers) ==
    LET t == SelectInSeq(text, LAMBDA x : x # Punct(" "))
        here == IF t = 0 THEN <<>> ELSE SubSeq(text, t, Len(text))
        x == here[1]
    IN  IF here = <<>> THEN Token("T_END", here)
        ELSE IF x = Punct("NUL") THEN Token("T_END", here)
        ELSE IF "n" \in DOMAIN x
             THEN IF IF IsDigit(x.n[1]) \/ x.n[1] = Minus
                     THEN ~invalidNumbers /\ json_is_invalid_number(x.n)
                     ELSE ~(invalidNumbers /\ json_is_invalid_number(x.n))
                  THEN Error(here)
                  ELSE json_next_number_token(x.n, here)
        ELSE IF "s" \in DOMAIN x
             THEN LET b == json_next_string_token(x.s)
                  IN  IF ~x.closed \/ Contains(b, Bad) THEN Error(here)
                      ELSE Token("T_STRING", Tail(here)) @@ [string |-> b]
        ELSE Token(ch2token[x.p], Tail(here)) @@ [boolean |-> x.p]
===============================================================================
