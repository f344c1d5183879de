------------------------------- MODULE Rules -------------------------------
(***************************************************************************)
(* The rules for metadata that a user enters (crates/domain) and what the  *)
(* accepted values are used for: the launch line of a browser and the      *)
(* route of downloads.                                                     *)
(*                                                                         *)
(* A text is a sequence of tokens.  A token is one character, except the   *)
(* tokens that only begin a text: a scheme with its "://", and a switch.   *)
(* An optional value is a set of at most one element, and so is the result *)
(* of a rule: the value that is kept, or nothing when it is refused.       *)
(***************************************************************************)
EXTENDS Naturals, SequencesExt

CONSTANTS Limit,      \* the limits of the code by name, smaller for TLC
          Unparsable  \* proxies that the HTTP client refuses to be built with

ASSUME LimitsAssumption ==
    Limit \in [{"name", "notes", "tags", "tag", "username", "email", "version", "urls",
              "zone", "locale", "part", "port", "ip"} -> Nat]

Blank == {" ", "newline"}
Control == {"newline", "bell"}
Digit == {"8"}
Letter == {"a", "A", "b"}
WebScheme == {"http://", "HTTP://", "https://"}
ProxyScheme == {"http://", "https://", "socks5://"}
Scheme == WebScheme \cup ProxyScheme \cup {"ftp://"}

Has(t, tokens) == \E i \in DOMAIN t : t[i] \in tokens
\* Every character takes one byte but "wide".
Bytes(t) == Len(t) + Len(SelectSeq(t, LAMBDA c : c = "wide"))
Trimmed(t) ==
    LET Shown(c) == c \notin Blank
        first == SelectInSeq(t, Shown)
    IN IF first = 0 THEN <<>> ELSE SubSeq(t, first, SelectLastInSeq(t, Shown))
UpTo(t, tokens) ==
    LET i == SelectInSeq(t, LAMBDA c : c \in tokens) IN IF i = 0 THEN t ELSE SubSeq(t, 1, i - 1)
AfterLast(t, token) == SubSeq(t, SelectLastInSeq(t, LAMBDA c : c = token) + 1, Len(t))
\* The pieces between two separators with none in between.
Parts(t, token) ==
    LET cuts == {0, Len(t) + 1} \cup {i \in DOMAIN t : t[i] = token}
    IN {SubSeq(t, c[1] + 1, c[2] - 1) :
          c \in {d \in cuts \X cuts : d[1] < d[2] /\ \A e \in cuts : e <= d[1] \/ e >= d[2]}}
\* eq_ignore_ascii_case compares texts folded like this.
Folded(t) == [i \in DOMAIN t |-> IF t[i] = "A" THEN "a" ELSE t[i]]

-----------------------------------------------------------------------------
(* Single values *)

Name(value) ==
    {t \in {Trimmed(value)} : t # <<>> /\ Len(t) <= Limit.name /\ ~ Has(t, Control)}

Authority(t) == UpTo(IF t[1] \in Scheme THEN Tail(t) ELSE t, {"/", "?", "#"})
HasHost(t) ==
    LET host == AfterLast(Authority(t), "@") IN host # <<>> /\ ~ Has(host, Blank)
\* Variant with a mistake: the scheme is not looked at.
HttpUrlAnyScheme(value) == {t \in {Trimmed(value)} : t # <<>> /\ HasHost(t)}
HttpUrl(value) ==
    {t \in {Trimmed(value)} : t # <<>> /\ t[1] \in WebScheme /\ HasHost(t)}

IanaTimeZone(value) ==
    {t \in {Trimmed(value)} :
       \/ /\ ToSet(t) \subseteq Letter \cup Digit \cup {"/", "_", "-", "+"}
          /\ Has(t, {"/"}) /\ <<>> \notin Parts(t, "/")
          /\ Bytes(t) <= Limit.zone
       \/ t = <<"UTC">>}

LocaleTag(value) ==
    {t \in {Trimmed(value)} :
       /\ t # <<>> /\ Bytes(t) <= Limit.locale
       /\ \A part \in Parts(t, "-") :
             part # <<>> /\ Bytes(part) <= Limit.part /\ ToSet(part) \subseteq Letter \cup Digit
       /\ t[1] \in Letter}

Notes(value) ==
    {t \in {value} : Len(t) <= Limit.notes /\ ~ Has(t, Control \ {"newline"})}

\* One tag after the other; `kept` holds the tags so far, or nothing once refused.
AddTag(kept, tag) ==
    LET t == Trimmed(tag)
        With(tags) ==
            IF \E i \in DOMAIN tags : Folded(tags[i]) = Folded(t) THEN tags ELSE Append(tags, t)
    IN IF t = <<>> THEN kept
       ELSE {tags \in {With(k) : k \in kept} :
               ~ Has(t, Control) /\ Bytes(t) <= Limit.tag /\ Len(tags) <= Limit.tags}
\* What is kept after each number of tags.
TagsKept(tags) ==
    LET kept[n \in 0 .. Len(tags)] == IF n = 0 THEN {<<>>} ELSE AddTag(kept[n - 1], tags[n])
    IN kept
NormalizeTags(tags) == TagsKept(tags)[Len(tags)]

-----------------------------------------------------------------------------
(* Inputs, with a field for each value: the kept record, or nothing *)

\* An absent value is kept absent, a given one as its rule accepts it.
Optional(option, accepted) == IF option = {} THEN {{}} ELSE {{t} : t \in accepted}
Labels(option) == Optional(option, UNION {Name(value) : value \in option})
Urls(option) == Optional(option, UNION {HttpUrl(value) : value \in option})
Locales(option) == Optional(option, UNION {LocaleTag(value) : value \in option})
Zones(option) == Optional(option, UNION {IanaTimeZone(value) : value \in option})
\* A blank value counts as absent.
Given(option) == {Trimmed(value) : value \in option} \ {<<>>}
Short(option, limit) ==
    {o \in {Given(option)} : \A t \in o : ~ Has(t, Control) /\ Bytes(t) <= limit}

\* `label` is the label of a custom service, absent for a preset.
ValidAccount(input) ==
    [name : Name(input.name), label : Labels(input.label),
     username : Short(input.username, Limit.username), email : Short(input.email, Limit.email),
     url : Urls(Given(input.url)),
     tags : NormalizeTags(input.tags), notes : Notes(input.notes)]

\* A pinned version is kept as it was entered; no version is the current one.
PinnedVersion(option) ==
    {o \in {option} : \A v \in o : Trimmed(v) # <<>> /\ Bytes(v) <= Limit.version}
\* One address after the other, blank ones are passed over.
AddUrl(kept, url) ==
    IF Trimmed(url) = <<>> THEN kept
    ELSE {Append(urls, u) : urls \in kept, u \in HttpUrl(url)}
UrlsKept(urls) ==
    LET kept[n \in 0 .. Len(urls)] == IF n = 0 THEN {<<>>} ELSE AddUrl(kept[n - 1], urls[n])
    IN kept
StartupUrls(urls) == IF Len(urls) > Limit.urls THEN {} ELSE UrlsKept(urls)[Len(urls)]
ValidProfile(input) ==
    [name : Name(input.name), version : PinnedVersion(input.version),
     urls : StartupUrls(input.urls),
     locale : Locales(input.locale), timezone : Zones(input.timezone)]

\* Brackets around an IPv6 literal are taken off.
Bare(host) ==
    LET open == SelectInSeq(host, LAMBDA c : c # "[")
        t == SubSeq(host, open, Len(host))
    IN IF open = 0 THEN <<>> ELSE SubSeq(t, 1, SelectLastInSeq(t, LAMBDA c : c # "]"))
ValidProxy(raw) ==
    LET url == Trimmed(raw)
        hostPort == UpTo(AfterLast(Tail(url), "@"), {"/", "?", "#"})
        colon == SelectLastInSeq(hostPort, LAMBDA c : c = ":")
        before == SubSeq(hostPort, 1, colon - 1)
        portless == colon = 0 \/ (before # <<>> /\ before[1] = "[" /\ ~ Has(before, {"]"}))
        host == Bare(IF portless THEN hostPort ELSE before)
        port == SubSeq(hostPort, colon + 1, Len(hostPort))
    IN /\ url # <<>> /\ url[1] \in ProxyScheme
       /\ host # <<>> /\ ~ Has(host, Blank)
       /\ portless \/ (port # <<>> /\ Len(port) <= Limit.port /\ ToSet(port) \subseteq Digit)
ValidSettings(settings) ==
    {s \in {settings} :
       /\ s.clearSeconds \in 5 .. 120
       /\ \A minutes \in s.lockMinutes : minutes \in 1 .. 240
       /\ Trimmed(s.variant) # <<>>
       /\ \A proxy \in s.proxy : ValidProxy(proxy)}

-----------------------------------------------------------------------------
(* What the kept values are used for *)

\* The proxy that downloads go through, absent for a direct connection; no
\* route when the rule or the HTTP client refuses the proxy.
Route(settings) ==
    {route \in {Given(settings.proxy)} :
       \/ route = {}
       \/ route \cap Unparsable = {} /\ \A p \in settings.proxy : ValidProxy(p)}

\* The answer of the probe: one of three attempts has to be an address.
LooksLikeIp(t) ==
    t # <<>> /\ Bytes(t) <= Limit.ip /\ ToSet(t) \subseteq {"a", "A", "b", "8", ".", ":"}
ExitIp(answers) ==
    LET Good(answer) == answer.status = 200 /\ LooksLikeIp(Trimmed(answer.body))
        i == SelectInSeq(SubSeq(answers, 1, 3), Good)
    IN IF i = 0 THEN {} ELSE {Trimmed(answers[i].body)}
TestProxy(proxy, answers) == IF Route([proxy |-> proxy]) = {} THEN {} ELSE ExitIp(answers)

AllowedExtra == {<<"--new-window">>}
BuildArguments(dir, urls, locale, extra) ==
    {arguments \in {<< <<"--user-data-dir=", dir>>, <<"--no-first-run">>,
                       <<"--no-default-browser-check">> >>
                      \o [i \in 1 .. Cardinality(locale) |->
                            <<"--lang=">> \o (CHOOSE t \in locale : TRUE)]
                      \o extra \o urls} :
       ToSet(extra) \subseteq AllowedExtra}
\* A version is looked up by its name as it was entered; the stored locale is
\* validated once more.
PlanLaunch(dir, profile, layout) ==
    LET named == IF profile.version = {} THEN layout.current ELSE profile.version
    IN {[version |-> v, arguments |-> line] :
          v \in named \cap layout.installed,
          line \in UNION {BuildArguments(dir, profile.urls, locale, <<>>) :
                            locale \in Locales(profile.locale)}}
=============================================================================
