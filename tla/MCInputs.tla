------------------------------ MODULE MCInputs ------------------------------
(* Instance of Inputs for TLC: all short texts over a few characters, in   *)
(* one field at a time, and all short queries and answers over a few       *)
(* parameters and assets.                                                  *)
EXTENDS Inputs

MCLimit ==
    [name |-> 2, notes |-> 2, tags |-> 2, tag |-> 2, username |-> 2, email |-> 2, version |-> 2,
     urls |-> 2, zone |-> 3, locale |-> 4, part |-> 2, port |-> 2, ip |-> 3]

Texts(S, n) == BoundedSeq(S, n)
Headed(heads, S, n) == {<<h>> \o t : h \in heads, t \in BoundedSeq(S, n)}
Some(S) == {{x} : x \in S}
Option(S) == {{}} \cup Some(S)

NameTexts == Texts({" ", "newline", "bell", "wide", "a"}, 3)
UrlTexts ==
    Headed({"http://", "HTTP://", "ftp://", "--user-data-dir=", "a"}, {"a", "/", "@", " "}, 3)
      \cup Headed({" "}, {"http://", "a"}, 2) \cup {<<>>, <<" ">>}
LocaleTexts == Texts({"a", "8", "-", "_", "wide", " "}, 3) \cup Texts({"a", "-"}, 5)
ZoneTexts == Texts({"a", "/", "_", ".", " "}, 4) \cup {<<"UTC">>, <<" ", "UTC">>, <<"UTC", "a">>}
VersionTexts == Texts({"8", " ", "wide"}, 3)
TagLists ==
    BoundedSeq({<<>>, <<" ">>, <<"a">>, <<"A">>, <<" ", "a">>, <<"b">>, <<"bell">>, <<"wide", "a">>}, 3)
\* A port of two digits stands for one beyond 65535.
MCUnparsable == {<<scheme, "a", ":", "8", "8">> : scheme \in {"http://", "socks5://"}}
ProxyTexts ==
    Headed({"http://", "socks5://", "HTTP://", "ftp://"},
           {"a", "8", ":", "[", "]", "@", "/", " "}, 3)
      \cup {<<>>, <<" ">>, <<" ", "http://", "a">>, <<" ", "http://", "a", ":", "8", "8">>}
      \cup MCUnparsable

\* Every field in turn, the others as in a plain input.
PlainProfile ==
    [name |-> <<"a">>, version |-> {}, urls |-> <<>>, locale |-> {}, timezone |-> {}]
MCProfileInput ==
    {[PlainProfile EXCEPT !.name = t] : t \in NameTexts}
      \cup {[PlainProfile EXCEPT !.version = {t}] : t \in VersionTexts}
      \cup {[PlainProfile EXCEPT !.urls = <<t>>] : t \in UrlTexts}
      \cup {[PlainProfile EXCEPT !.urls = u] :
              u \in BoundedSeq({<<"http://", "a">>, <<" ">>, <<"a">>}, 3)}
      \cup {[PlainProfile EXCEPT !.locale = {t}] : t \in LocaleTexts}
      \cup {[PlainProfile EXCEPT !.timezone = {t}] : t \in ZoneTexts}
\* No version, one that is current, and a marker that names one deleted since.
MCLayout ==
    {[current |-> {}, installed |-> {}], [current |-> {<<"8">>}, installed |-> {<<"8">>}],
     [current |-> {<<"8", "8">>}, installed |-> {<<"8">>}]}
PlainAccount ==
    [name |-> <<"a">>, label |-> {}, username |-> {}, email |-> {}, url |-> {},
     tags |-> <<>>, notes |-> <<>>]
MCAccountInput ==
    {[PlainAccount EXCEPT !.name = t] : t \in NameTexts}
      \cup {[PlainAccount EXCEPT !.label = {t}] : t \in NameTexts}
      \cup {[PlainAccount EXCEPT !.username = {t}] : t \in NameTexts}
      \cup {[PlainAccount EXCEPT !.email = {t}] : t \in NameTexts}
      \cup {[PlainAccount EXCEPT !.url = {t}] : t \in UrlTexts}
      \cup {[PlainAccount EXCEPT !.tags = l] : l \in TagLists}
      \cup {[PlainAccount EXCEPT !.notes = t] : t \in NameTexts}
PlainSettings ==
    [clearSeconds |-> 20, lockMinutes |-> {10}, variant |-> <<"a">>, proxy |-> {}]
MCSettingsInput ==
    {[PlainSettings EXCEPT !.clearSeconds = n] : n \in {4, 5, 120, 121}}
      \cup {[PlainSettings EXCEPT !.lockMinutes = o] : o \in Option({0, 1, 240, 241})}
      \cup {[PlainSettings EXCEPT !.variant = t] : t \in {<<>>, <<" ">>, <<"a">>}}
      \cup {[PlainSettings EXCEPT !.proxy = {t}] : t \in ProxyTexts}
MCRename == {<<"a">>, <<" ", "b">>, <<" ">>}
MCProbedProxy ==
    Option({<<>>, <<" ">>, <<"http://", "a">>, <<" ", "http://", "a">>, <<"ftp://", "a">>,
            <<"http://", "a", ":", "a">>, <<"http://", "a", ":", "8", "8">>})
MCProbeAnswers ==
    [1 .. 3 -> {[status |-> 200, body |-> <<"8", ".", "8", "newline">>],
                [status |-> 200, body |-> <<"bell">>], [status |-> 0, body |-> <<>>]}]

Pairs ==
    {<<>>}
      \cup {<<"secret", t>> : t \in {<<"MZXW6YTB">>, <<"mzxw6ytb", "%20", "GEZDGNBV", "=">>,
                                     <<"=">>, <<"GEZDGNBV", "=", "GEZDGNBV">>}}
      \cup {<<"digits", t>> : t \in {<<"8">>, <<"7">>, <<"256">>, <<"+", "6">>}}
      \cup {<<"period", t>> : t \in {<<"1">>, <<"0">>, <<"3", "%30">>, <<"301">>}}
      \cup {<<"counter", t>> : t \in {<<"0">>, <<"a">>}}
      \cup {<<"algorithm", t>> : t \in {<<"SHA256">>, <<"sha-1">>, <<"a">>}}
      \cup {<<"issuer", t>> : t \in {<<>>, <<"a">>, <<"%wide">>}} \cup {<<"image", <<"a">>>>}
LabelTexts == Option(Texts({"a", ":", "%3A", "+"}, 2) \cup {<<"a", ":", " ", "a">>, <<"%wide">>})
PlainUri == [otpauth |-> TRUE, type |-> "totp", label |-> {<<"a">>}, query |-> {}]
Secret == <<"secret", <<"MZXW6YTB">>>>
Counter == <<"counter", <<"1">>>>
MCUri ==
    {[PlainUri EXCEPT !.type = k, !.query = {<<Secret>> \o q}] :
       k \in {"TOTP", "hotp"}, q \in BoundedSeq(Pairs, 2)}
      \cup {[PlainUri EXCEPT !.type = "hotp", !.query = {q \o <<Counter>>}] :
              q \in BoundedSeq(Pairs, 2)}
      \cup {[PlainUri EXCEPT !.label = l, !.query = {<<Secret>> \o q}] :
              l \in LabelTexts, q \in BoundedSeq({<<"issuer", <<"b">>>>}, 1)}
      \cup {[PlainUri EXCEPT !.type = k, !.otpauth = o, !.query = q] :
              k \in {"totp", "push"}, o \in BOOLEAN, q \in Option({<<Secret>>})}
Payload == {[PlainUri EXCEPT !.query = {<<Secret>>}], PlainUri}
MCImage ==
    {[readable |-> r, grids |-> g] :
       r \in BOOLEAN, g \in BoundedSeq({<<>>} \cup {<<p>> : p \in Payload}, 2)}

Names ==
    {[prefix |-> TRUE, suffix |-> TRUE, token |-> t, parts |-> p] :
       t \in {"AVX2", "WIN32_SSE2"}, p \in {<<"152", "0", "0", "55">>, <<"0", "0", "0", "0">>}}
      \cup {[prefix |-> TRUE, suffix |-> TRUE, token |-> "AVX2", parts |-> p] :
              p \in {<<"152", "0", "0">>, <<"152", "", "0", "55">>}}
      \cup {[prefix |-> p, suffix |-> s, token |-> t, parts |-> <<"0", "0", "0", "0">>] :
              p \in BOOLEAN, s \in BOOLEAN, t \in {"MMX"}}
Assets ==
    {[name |-> n, url |-> u, size |-> s] :
       n \in Option(Names), u \in {"none", "odd", "url"}, s \in {"none", "odd", "big"}}
MixedAssets == {a \in Assets : a.url # "none" /\ a.size # "none" /\ a.name # {}}
Plain(assets) == [tag |-> {"t"}, assets |-> {assets}]
Good(releases) == [failures |-> 0, status |-> 200, array |-> TRUE, releases |-> releases]
PlainAsset == CHOOSE a \in Assets : a.url = "url" /\ a.size = "big" /\ \E n \in a.name : ParsePortableZip(n) # {}
MCSources == <<"gz83/thorium", "Alex313031/Thorium">>
Few == {<<>>, <<PlainAsset>>}
MCApiAnswers ==
    {[s \in ToSet(Sources) |-> Good(IF s = Sources[1] THEN <<Plain(a)>> ELSE <<Plain(<<PlainAsset>>)>>)] :
       a \in BoundedSeq(MixedAssets, 2) \cup {<<PlainAsset, a>> : a \in Assets} \cup {<<a, PlainAsset>> : a \in Assets}}
      \cup [ToSet(Sources) ->
              {[failures |-> f, status |-> c, array |-> a, releases |-> <<Plain(<<PlainAsset>>)>>] :
                 f \in 0 .. 3, c \in {200, 403}, a \in BOOLEAN}]
      \cup [ToSet(Sources) ->
              {Good(r) : r \in BoundedSeq({[tag |-> t, assets |-> l] : t \in Option({"t"}), l \in Option(Few)}, 2)}]
=============================================================================
