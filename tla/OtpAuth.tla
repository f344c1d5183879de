------------------------------ MODULE OtpAuth ------------------------------
(***************************************************************************)
(* One-time passwords: the otpauth URI a factor is imported from, directly *)
(* or out of the image of a QR code (crates/otp, crates/qr), and the codes *)
(* computed from the stored factor.                                        *)
(*                                                                         *)
(* A URI is given as the pieces between its separators: the part after     *)
(* "otpauth://" up to the first "/", the label (absent without a "/") and  *)
(* the query (absent without a "?") as the sequence of its "&" pieces, a   *)
(* piece being a key and a value at the first "=", or the empty sequence   *)
(* without a "=".  Labels and values are texts of tokens, one per          *)
(* character or escape; keys have their case folded.  A result is a set of *)
(* at most one element, empty for an error.                                *)
(*                                                                         *)
(* A code is ideal: the HMAC of the counter truncated to the digits is the *)
(* record of what it is computed from.                                     *)
(***************************************************************************)
EXTENDS Integers, SequencesExt, TLC

MaxPeriod == 300
MaxU8 == 255

\* Texts that parse as numbers, and as algorithms whatever their case.
Number ==
    (<<"0">> :> 0) @@ (<<"1">> :> 1) @@ (<<"6">> :> 6) @@ (<<"7">> :> 7) @@ (<<"8">> :> 8)
      @@ (<<"3", "0">> :> 30) @@ (<<"256">> :> 256) @@ (<<"300">> :> 300) @@ (<<"301">> :> 301)
Algorithm ==
    (<<"SHA1">> :> "SHA1") @@ (<<"sha-1">> :> "SHA1") @@ (<<"SHA256">> :> "SHA256")
Kind == [type \in {"totp", "TOTP", "hotp"} |-> IF type = "hotp" THEN "hotp" ELSE "totp"]

-----------------------------------------------------------------------------
(* Reading texts *)

\* "+" is a blank and an escape its character.  A percent sign before a
\* character of several bytes stops the parser with a panic: no result.
Escape == ("+" :> " ") @@ ("%20" :> " ") @@ ("%3A" :> ":") @@ ("%30" :> "0")
PercentDecode(t) ==
    {[i \in DOMAIN t |-> IF t[i] \in DOMAIN Escape THEN Escape[t[i]] ELSE t[i]] :
       x \in {y \in {t} : "%wide" \notin ToSet(t)}}

Trim(t) ==
    LET Shown(c) == c # " "
        first == SelectInSeq(t, Shown)
    IN IF first = 0 THEN <<>> ELSE SubSeq(t, first, SelectLastInSeq(t, Shown))
SplitLabel(label) ==
    LET t == Trim(label)
        colon == SelectInSeq(t, LAMBDA c : c = ":")
    IN [issuer |-> {Trim(SubSeq(t, 1, colon - 1))} \ {<<>>},
        account |-> {Trim(SubSeq(t, colon + 1, Len(t)))} \ {<<>>}]

\* The bytes of a secret: its base32 groups in upper case, without blanks
\* and without padding at the end.
Group == ("MZXW6YTB" :> "MZXW6YTB") @@ ("mzxw6ytb" :> "MZXW6YTB") @@ ("GEZDGNBV" :> "GEZDGNBV")
DecodeBase32(value) ==
    LET cleaned == SelectSeq(value, LAMBDA c : c # " ")
        end == SelectLastInSeq(cleaned, LAMBDA c : c # "=")
        unpadded == IF end = 0 THEN <<>> ELSE SubSeq(cleaned, 1, end)
    IN {[i \in DOMAIN unpadded |-> Group[unpadded[i]]] :
          x \in {y \in {unpadded} : y # <<>> /\ ToSet(y) \subseteq DOMAIN Group}}

NumberUpTo(value, most) == {n \in {Number[v] : v \in {value} \cap DOMAIN Number} : n <= most}

-----------------------------------------------------------------------------
(* Parsing *)

Defaults ==
    [secret |-> {}, algorithm |-> "SHA1", digits |-> 6, period |-> 30, counter |-> {}, issuer |-> {}]

\* The parameters after one more pair; an invalid one is an error at once,
\* even if a later pair would replace it.
ReadValue(params, key, value) ==
    CASE key = "secret" -> {[params EXCEPT !.secret = {s}] : s \in DecodeBase32(value)}
      [] key = "issuer" -> {[params EXCEPT !.issuer = {value}]}
      [] key = "algorithm" ->
           {[params EXCEPT !.algorithm = Algorithm[v]] : v \in {value} \cap DOMAIN Algorithm}
      [] key = "digits" -> {[params EXCEPT !.digits = n] : n \in NumberUpTo(value, MaxU8)}
      [] key = "period" -> {[params EXCEPT !.period = n] : n \in NumberUpTo(value, MaxU8 ^ 3)}
      [] key = "counter" -> {[params EXCEPT !.counter = {n}] : n \in NumberUpTo(value, MaxU8 ^ 3)}
      [] OTHER -> {params}
ReadPair(read, pair) ==
    IF pair = <<>> THEN {}
    ELSE UNION {ReadValue(params, pair[1], value) : params \in read, value \in PercentDecode(pair[2])}
\* What is read after each number of pairs.
ReadPairs(q) ==
    LET read[n \in 0 .. Len(q)] == IF n = 0 THEN {Defaults} ELSE ReadPair(read[n - 1], q[n])
    IN read
ReadQuery(query) == UNION {ReadPairs(q)[Len(q)] : q \in query}

\* Variant with a mistake: the period is only compared with its maximum.
InRangeAnyPeriod(kind, params) ==
    /\ params.secret # {}
    /\ params.digits \in {6, 8}
    /\ kind = "totp" => params.period <= MaxPeriod
    /\ kind = "hotp" => params.counter # {}
InRange(kind, params) ==
    /\ params.secret # {}
    /\ params.digits \in {6, 8}
    /\ kind = "totp" => params.period \in 1 .. MaxPeriod
    /\ kind = "hotp" => params.counter # {}

The(option) == CHOOSE value \in option : TRUE
ParsedFactor(kind, label, p) ==
    [kind |-> kind, secret |-> The(p.secret),
     algorithm |-> p.algorithm, digits |-> p.digits, period |-> p.period, counter |-> p.counter,
     issuer |-> IF p.issuer # {} THEN p.issuer ELSE SplitLabel(label).issuer,
     account |-> SplitLabel(label).account]
ParseOtpAuthUri(uri) ==
    {ParsedFactor(Kind[uri.type], l, p) :
       l \in UNION {PercentDecode(t) : t \in uri.label},
       p \in {r \in ReadQuery(uri.query) :
                /\ uri.otpauth /\ uri.type \in DOMAIN Kind
                /\ InRange(Kind[uri.type], r)}}

\* An image is unreadable or the sequence of its grids, each the sequence
\* of the one payload it decodes to, or the empty one.
DecodeSingle(image) ==
    LET payloads == FlattenSeq([i \in DOMAIN image.grids |-> image.grids[i]])
    IN {p \in ToSet(payloads) : image.readable /\ Len(payloads) = 1}
ImportQrImage(image) == UNION {ParseOtpAuthUri(uri) : uri \in DecodeSingle(image)}

-----------------------------------------------------------------------------
(* Codes *)

Hotp(secret, counter, algorithm, digits) ==
    {[secret |-> secret, counter |-> counter, algorithm |-> algorithm, digits |-> d] :
       d \in {digits} \cap {6, 8}}
Totp(secret, now, period, algorithm, digits) ==
    IF period = 0 THEN {} ELSE Hotp(secret, now \div period, algorithm, digits)
SecondsRemaining(now, period) == IF period = 0 THEN 0 ELSE period - (now % period)

\* The code shown for a stored factor and the seconds it stays valid.
GenerateOtpCode(factor, now) ==
    IF factor.kind = "totp"
    THEN {<<code, SecondsRemaining(now, factor.period)>> :
            code \in Totp(factor.secret, now, factor.period, factor.algorithm, factor.digits)}
    ELSE {<<code, 0>> :
            code \in UNION {Hotp(factor.secret, c, factor.algorithm, factor.digits) :
                              c \in IF factor.counter = {} THEN {0} ELSE factor.counter}}

ValidateFactorParams(kind, digits, period) ==
    digits \in {6, 8} /\ (kind = "totp" => period \in 1 .. MaxPeriod)
=============================================================================
