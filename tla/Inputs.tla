------------------------------- MODULE Inputs -------------------------------
(***************************************************************************)
(* What comes from outside and is kept: metadata that a user enters, a URI *)
(* or an image a factor is imported from, and the answers of the release   *)
(* API.  A command either refuses its input or keeps a value made from it; *)
(* later commands work on the kept value: a page sends back the copy it    *)
(* was shown, a profile is launched, a code is shown, a download is routed.*)
(*                                                                         *)
(* Commands on one value run one after another here; how they interleave   *)
(* is the subject of Records, Secrets and Housekeeping.                    *)
(***************************************************************************)
EXTENDS Rules, OtpAuth, Releases

CONSTANTS ProfileInput, AccountInput, SettingsInput,  \* what is entered
          Rename,       \* names a page may change a copy to
          ProbedProxy, ProbeAnswers,
          Uri, Image,   \* what a factor is imported from
          Instant,      \* times at which a code is shown
          ApiAnswers,   \* what the sources answer
          Layout,       \* the installed versions and the current one at a launch
          Dir           \* the directory of the profile

\* The types of what comes from outside: the arguments of the commands, the
\* pieces of a URI, an image with at most one payload in each grid, and the
\* answers of the API.
Text == Seq(STRING)
Pair == {<<>>} \cup (STRING \X Text)
ProfileType ==
    [name : Text, version : SUBSET Text, urls : Seq(Text), locale : SUBSET Text,
     timezone : SUBSET Text]
AccountType ==
    [name : Text, label : SUBSET Text, username : SUBSET Text, email : SUBSET Text,
     url : SUBSET Text, tags : Seq(Text), notes : Text]
UriType == [otpauth : BOOLEAN, type : STRING, label : SUBSET Text, query : SUBSET Seq(Pair)]
ImageType ==
    {image \in [readable : BOOLEAN, grids : Seq(Seq(UriType))] :
       \A i \in DOMAIN image.grids : Len(image.grids[i]) <= 1}
Optionally(S) == {option \in SUBSET S : \A x, y \in option : x = y}
NameType == [prefix : BOOLEAN, suffix : BOOLEAN, token : STRING, parts : Seq(STRING)]
AssetType == [name : Optionally(NameType), url : STRING, size : STRING]
ReleaseType == [tag : Optionally(STRING), assets : Optionally(Seq(AssetType))]
LayoutType == [current : Optionally(Text), installed : SUBSET Text]
AnswerType == [failures : Nat, status : Nat, array : BOOLEAN, releases : Seq(ReleaseType)]
ASSUME InputTypes ==
    /\ ProfileInput \subseteq ProfileType /\ AccountInput \subseteq AccountType
    /\ Uri \subseteq UriType /\ Image \subseteq ImageType
    /\ Instant \subseteq Nat /\ Layout \subseteq LayoutType /\ Unparsable \subseteq Text
    /\ Sources \in Seq(STRING) /\ ApiAnswers \subseteq [ToSet(Sources) -> AnswerType]

VARIABLES given,  \* the command and its input
          kept    \* the value that was kept or answered, or nothing

ivars == <<given, kept>>

Command(kind, input, value) == given' = [kind |-> kind, input |-> input] /\ kept' = value
Nothing == [kind |-> "nothing", input |-> {}]
Kept(kind) == IF given.kind = kind THEN kept ELSE {}

InputsInit == given = Nothing /\ kept = {}

-----------------------------------------------------------------------------
CreateProfile(input) == given = Nothing /\ Command("profile", input, ValidProfile(input))
CreateAccount(input) == given = Nothing /\ Command("account", input, ValidAccount(input))
SaveSettings(input) == given = Nothing /\ Command("settings", input, ValidSettings(input))
ProbeProxy(proxy, answers) ==
    given = Nothing /\ Command("probe", proxy, TestProxy(proxy, answers))
ImportUri(uri) == given = Nothing /\ Command("uri", uri, ParseOtpAuthUri(uri))
ImportImage(image) == given = Nothing /\ Command("image", image, ImportQrImage(image))
Discover(answers) == given = Nothing /\ Command("answers", answers, DiscoverThoriumReleases(answers))

\* A page sends back the copy it was shown, with another name or unchanged.
UpdateProfile(name) ==
    \E p \in Kept("profile") :
       LET copy == [p EXCEPT !.name = name] IN Command("profile copy", copy, ValidProfile(copy))
ResaveProfile == \E p \in Kept("profile") : Command("profile copy", p, ValidProfile(p))
UpdateAccount(name) ==
    \E a \in Kept("account") :
       LET copy == [a EXCEPT !.name = name] IN Command("account copy", copy, ValidAccount(copy))
ResaveAccount == \E a \in Kept("account") : Command("account copy", a, ValidAccount(a))

LaunchProfile ==
    \E p \in Kept("profile"), layout \in Layout :
       Command("launch", [profile |-> p, layout |-> layout], PlanLaunch(Dir, p, layout))
StartDownload == \E s \in Kept("settings") : Command("download", s, Route(s))
ShowCode(now) ==
    \E f \in Kept("uri") \cup Kept("image") :
       Command("code", [factor |-> f, now |-> now], GenerateOtpCode(f, now))

Answered == given # Nothing /\ given' = Nothing /\ kept' = {}

InputsNext ==
    \/ \E input \in ProfileInput : CreateProfile(input)
    \/ \E input \in AccountInput : CreateAccount(input)
    \/ \E input \in SettingsInput : SaveSettings(input)
    \/ \E proxy \in ProbedProxy, answers \in ProbeAnswers : ProbeProxy(proxy, answers)
    \/ \E uri \in Uri : ImportUri(uri)
    \/ \E image \in Image : ImportImage(image)
    \/ \E answers \in ApiAnswers : Discover(answers)
    \/ \E name \in Rename : UpdateProfile(name) \/ UpdateAccount(name)
    \/ ResaveProfile \/ ResaveAccount
    \/ LaunchProfile \/ StartDownload
    \/ \E now \in Instant : ShowCode(now)
    \/ Answered

InputsSpec == InputsInit /\ [][InputsNext]_ivars

-----------------------------------------------------------------------------
(* Properties *)

\* The places of the tags that are not blank and differ from those before by
\* more than case, and the list of the tags at these places.
FirstTags(tags) ==
    {n \in DOMAIN tags :
       /\ Trimmed(tags[n]) # <<>>
       /\ \A k \in 1 .. n - 1 : Folded(Trimmed(tags[k])) # Folded(Trimmed(tags[n]))}
ListsFirsts(list, tags) ==
    \E place \in [DOMAIN list -> FirstTags(tags)] :
       /\ \A i, j \in DOMAIN list : i < j => place[i] < place[j]
       /\ \A n \in FirstTags(tags) : \E i \in DOMAIN list : place[i] = n
       /\ \A i \in DOMAIN list : list[i] = Trimmed(tags[place[i]])
GoodTags(tags) ==
    /\ \A i \in DOMAIN tags :
          LET t == Trimmed(tags[i]) IN t = <<>> \/ (~ Has(t, Control) /\ Bytes(t) <= Limit.tag)
    /\ Cardinality(FirstTags(tags)) <= Limit.tags

\* The browser gets one data directory, that of its profile, and apart from
\* the fixed switches only a language and web addresses.
Isolated(arguments) ==
    \A i \in DOMAIN arguments :
       LET argument == arguments[i] IN
       \/ i = 1 /\ argument = <<"--user-data-dir=", Dir>>
       \/ argument \in {<<"--no-first-run">>, <<"--no-default-browser-check">>}
       \/ argument[1] = "--lang="
       \/ argument[1] \in WebScheme

\* The rules agree: what one of them accepted no later one refuses, and a later
\* command fails only for what no rule looks at.  A page can send its copy back,
\* and only the name it changed can be refused.  A stored profile is launched,
\* isolated and with the version it names as entered, exactly when that one is
\* installed.  A saved proxy is the route of downloads, or nothing is when the
\* HTTP client cannot take it; it is never passed by.  One that was tested is a
\* route, and can be saved unless it is blank.  Tags are accepted or refused as
\* a whole and keep the first casing.  (The same values pass through the rules
\* of validation.rs several times, in account.rs, profile.rs, settings.rs,
\* services.rs and thorium_mgmt.rs.)
RulesAgree ==
    /\ given.kind = "profile copy" =>
          kept = {[given.input EXCEPT !.name = name] : name \in Name(given.input.name)}
    /\ given.kind = "account copy" =>
          kept = {[given.input EXCEPT !.name = name] : name \in Name(given.input.name)}
    /\ given.kind = "launch" =>
          LET pinned == given.input.profile.version
              layout == given.input.layout
              fit == layout.installed \cap (IF pinned = {} THEN layout.current ELSE pinned)
          IN /\ kept = {} <=> fit = {}
             /\ \A plan \in kept : plan.version \in fit /\ Isolated(plan.arguments)
    /\ given.kind = "download" =>
          LET proxy == Given(given.input.proxy)
          IN kept \subseteq {proxy} /\ (kept = {} => proxy \cap Unparsable # {})
    /\ given.kind = "probe" /\ kept # {} =>
          /\ Given(given.input) \cap Unparsable = {}
          /\ \A p \in given.input : Trimmed(p) = <<>> \/ ValidProxy(p)
    /\ given.kind = "account" =>
          LET tags == given.input.tags
              others == ValidAccount([given.input EXCEPT !.tags = <<>>])
          IN /\ \A a \in kept :
                   [a EXCEPT !.tags = <<>>] \in others /\ GoodTags(tags) /\ ListsFirsts(a.tags, tags)
             /\ GoodTags(tags) => others \subseteq {[a EXCEPT !.tags = <<>>] : a \in kept}

\* What a pair of the query says, nothing when it says nothing valid.
Meaning(pair) ==
    LET key == pair[1]
        Read(value) ==
            CASE key = "secret" -> DecodeBase32(value)
              [] key = "algorithm" -> {Algorithm[v] : v \in {value} \cap DOMAIN Algorithm}
              [] key = "digits" -> NumberUpTo(value, MaxU8)
              [] key \in {"period", "counter"} -> NumberUpTo(value, MaxU8 ^ 3)
              [] OTHER -> {value}
    IN IF pair = <<>> THEN {} ELSE UNION {Read(value) : value \in PercentDecode(pair[2])}
\* What the query says of a key: the meaning of the last pair with it.
LastOf(query, key) ==
    LET i == SelectLastInSeq(query, LAMBDA pair : pair # <<>> /\ pair[1] = key)
    IN IF i = 0 THEN {} ELSE Meaning(query[i])
OrElse(option, default) == IF option = {} THEN default ELSE The(option)

\* The factor a URI of that kind, label and query stands for.
FactorOf(kind, l, q) ==
    [kind |-> kind, secret |-> OrElse(LastOf(q, "secret"), <<>>),
     algorithm |-> OrElse(LastOf(q, "algorithm"), "SHA1"), digits |-> OrElse(LastOf(q, "digits"), 6),
     period |-> OrElse(LastOf(q, "period"), 30), counter |-> LastOf(q, "counter"),
     issuer |-> IF LastOf(q, "issuer") = {} THEN SplitLabel(l).issuer ELSE LastOf(q, "issuer"),
     account |-> SplitLabel(l).account]
GoodQuery(kind, q) ==
    /\ \A i \in DOMAIN q : Meaning(q[i]) # {}
    /\ LastOf(q, "secret") # {}
    /\ ValidateFactorParams(kind, OrElse(LastOf(q, "digits"), 6), OrElse(LastOf(q, "period"), 30))
    /\ kind = "hotp" => LastOf(q, "counter") # {}
FactorsOf(uri) ==
    {FactorOf(Kind[uri.type], l, q) :
       l \in UNION {PercentDecode(t) : t \in uri.label},
       q \in {r \in uri.query :
                uri.otpauth /\ uri.type \in DOMAIN Kind /\ GoodQuery(Kind[uri.type], r)}}

\* A factor says what its URI says: every parameter has the meaning of its
\* last occurrence or its default, one that means nothing anywhere refuses
\* the URI, and what is kept satisfies the rules of the domain (factor.rs).
\* An image gives the factor of its one payload.  A code is computed for
\* every kept factor, and that of a TOTP factor changes after exactly the
\* seconds that are shown.  (otpauth.rs, engine.rs, the QR crate.)
FactorsMatchTheirUri ==
    /\ given.kind = "uri" => kept = FactorsOf(given.input)
    /\ given.kind = "image" =>
          LET decoded == {i \in DOMAIN given.input.grids : given.input.grids[i] # <<>>}
          IN kept = UNION {FactorsOf(given.input.grids[i][1]) :
                             i \in {j \in decoded : given.input.readable /\ decoded = {j}}}
    /\ given.kind = "code" =>
          \E shown \in kept :
             LET factor == given.input.factor
                 CodeAt(time) == {s[1] : s \in GenerateOtpCode(factor, time)}
             IN /\ kept = {shown}
                /\ factor.kind = "totp" =>
                      /\ shown[2] \in 1 .. factor.period
                      /\ CodeAt(given.input.now + shown[2] - 1) = {shown[1]}
                      /\ CodeAt(given.input.now + shown[2]) # {shown[1]}

-----------------------------------------------------------------------------
\* Assets by their place in the answers: source, release, asset.
ReleaseAt(answers, p) == answers[Sources[p[1]]].releases[p[2]]
AssetAt(answers, p) == (CHOOSE s \in ReleaseAt(answers, p).assets : TRUE)[p[3]]
Places(answers) ==
    UNION {UNION {UNION {{<<s, r, a>> : a \in DOMAIN assets} :
                         assets \in answers[Sources[s]].releases[r].assets} :
                  r \in DOMAIN answers[Sources[s]].releases} : s \in DOMAIN Sources}
Portable(answers, p) == UNION {ParsePortableZip(name) : name \in AssetAt(answers, p).name}
SameRelease(answers, p) == {q \in Places(answers) : q[1] = p[1] /\ q[2] = p[2]}
\* A release stands or falls as a whole; an odd field takes one asset away.
Offered(answers) ==
    {p \in Places(answers) :
       /\ ReleaseAt(answers, p).tag # {}
       /\ Portable(answers, p) # {} /\ Usable(AssetAt(answers, p))
       /\ \A q \in SameRelease(answers, p) :
             /\ AssetAt(answers, q).name # {}
             /\ Portable(answers, q) # {} => ~ Fatal(AssetAt(answers, q))}
OptionFor(answers, p) ==
    LET first == CHOOSE q \in SameRelease(answers, p) :
                   /\ Portable(answers, q) # {}
                   /\ \A o \in SameRelease(answers, p) : Portable(answers, o) # {} => q[3] <= o[3]
        Parsed(q) == CHOOSE x \in Portable(answers, q) : TRUE
    IN [repo |-> Sources[p[1]], tag |-> CHOOSE t \in ReleaseAt(answers, p).tag : TRUE,
        version |-> Parsed(first).version, variant |-> Parsed(p).variant,
        url |-> AssetAt(answers, p).url, size |-> AssetAt(answers, p).size]
\* The version that the name of a portable asset says, and whether those of its
\* release say the same one.
VersionAt(answers, p) == (CHOOSE x \in Portable(answers, p) : TRUE).version
OneVersion(answers, p) ==
    \A q, o \in SameRelease(answers, p) :
       Portable(answers, q) # {} /\ Portable(answers, o) # {} =>
          VersionAt(answers, q) = VersionAt(answers, o)
Before(p, q) ==
    p[1] < q[1] \/ (p[1] = q[1] /\ (p[2] < q[2] \/ (p[2] = q[2] /\ p[3] < q[3])))

\* The options of the places offered, in their order, each with the version of
\* its own asset wherever the release has one version.
ListsOffered(options, answers) ==
    \E place \in [DOMAIN options -> Offered(answers)] :
       /\ \A i, j \in DOMAIN options : i < j => Before(place[i], place[j])
       /\ \A p \in Offered(answers) : \E i \in DOMAIN options : place[i] = p
       /\ \A i \in DOMAIN options : options[i] = OptionFor(answers, place[i])
       /\ \A i \in DOMAIN options :
             OneVersion(answers, place[i]) =>
                options[i].version = VersionAt(answers, place[i])

\* The options offered are the usable portable assets of all sources, each once
\* and in the order of the answers.  An option says what its own asset says, its
\* version included as long as the portable assets of the release agree on it;
\* where they do not, every option of the release has the version of the first of
\* them, also when that one was passed over.  Any source that fails fails them
\* all, and every option names a variant that an install accepts.  (catalog.rs,
\* parse_release, discover_windows_releases, discover_thorium_releases.)
OptionsMatchTheirAssets ==
    given.kind = "answers" =>
       LET answers == given.input
           Complete(s) == answers[s].failures < 3 /\ answers[s].array /\ answers[s].status = 200
       IN /\ kept # {} <=> \A s \in ToSet(Sources) : Complete(s)
          /\ \A options \in kept :
                /\ kept = {options} /\ ListsOffered(options, answers)
                /\ \A i \in DOMAIN options : FromId(options[i].variant) # {}
=============================================================================
