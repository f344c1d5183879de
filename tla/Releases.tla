------------------------------ MODULE Releases ------------------------------
(***************************************************************************)
(* Discovery of Thorium releases: the names of portable assets             *)
(* (crates/thorium/src/catalog.rs), the answers of the release API         *)
(* (releases.rs) and the options offered for installation                  *)
(* (crates/controller/src/thorium_mgmt.rs).                                *)
(*                                                                         *)
(* The name of an asset is given as its pieces: the token between          *)
(* "Thorium_" and the version, the parts of the version between its dots,  *)
(* and whether the name has that prefix and the suffix ".zip".             *)
(*                                                                         *)
(* A field of a JSON object that is missing or of another type is the      *)
(* empty set; where the two differ it is "none" or "odd".  A result is a   *)
(* set of at most one element, empty for an error or for an entry that is  *)
(* left out.                                                               *)
(***************************************************************************)
EXTENDS Naturals, SequencesExt

CONSTANTS Sources  \* the repositories, in order

\* Variants are named by the token in asset names, which is their id too.
Variant == {"AVX2", "AVX", "AVX512", "SSE4", "SSE3", "WIN32_SSE2"}
FromId(id) == {id} \cap Variant

\* Parts of 1 to 6 digits; the tokens outside are longer, empty or no digits.
VersionPart == {"152", "0", "55"}
IsBrowserVersion(parts) == Len(parts) = 4 /\ ToSet(parts) \subseteq VersionPart
ParsePortableZip(name) ==
    {[version |-> n.parts, variant |-> n.token] :
       n \in {m \in {name} : /\ m.prefix /\ m.suffix /\ m.token \in Variant
                             /\ IsBrowserVersion(m.parts)}}

-----------------------------------------------------------------------------
(* Answers of the API *)

\* A release while its assets are read: the version of the first portable
\* asset and the assets so far.  A portable asset without a URL or a size
\* takes the release away; one with a field of another type is passed over.
Fatal(asset) == asset.url = "none" \/ (asset.url # "odd" /\ asset.size = "none")
Usable(asset) == "odd" \notin {asset.url, asset.size}
\* Variant with a mistake: an asset without a field is passed over.
ReadAssetSkipping(read, asset) ==
    LET portable == UNION {ParsePortableZip(name) : name \in asset.name}
        Versioned(r, p) == IF r.version = {} THEN [r EXCEPT !.version = {p.version}] ELSE r
        Found(p) == [variant |-> p.variant, url |-> asset.url, size |-> asset.size]
    IN CASE asset.name # {} /\ portable = {} -> read
         [] Fatal(asset) -> read
         [] OTHER ->
              {IF Usable(asset)
               THEN [Versioned(r, p) EXCEPT !.assets = Append(@, Found(p))]
               ELSE Versioned(r, p) : r \in read, p \in portable}

ReadAsset(read, asset) ==
    LET portable == UNION {ParsePortableZip(name) : name \in asset.name}
        Versioned(r, p) == IF r.version = {} THEN [r EXCEPT !.version = {p.version}] ELSE r
        Found(p) == [variant |-> p.variant, url |-> asset.url, size |-> asset.size]
    IN CASE asset.name # {} /\ portable = {} -> read
         [] portable # {} /\ Fatal(asset) -> {}
         [] OTHER ->
              {IF Usable(asset)
               THEN [Versioned(r, p) EXCEPT !.assets = Append(@, Found(p))]
               ELSE Versioned(r, p) : r \in read, p \in portable}

\* What is read after each number of assets.
AssetsRead(assets) ==
    LET read[n \in 0 .. Len(assets)] ==
            IF n = 0 THEN {[version |-> {}, assets |-> <<>>]}
            ELSE ReadAsset(read[n - 1], assets[n])
    IN read
ParseRelease(release) ==
    {[tag |-> tag, version |-> CHOOSE v \in r.version : TRUE, assets |-> r.assets] :
       tag \in release.tag,
       r \in {s \in UNION {AssetsRead(assets)[Len(assets)] : assets \in release.assets} :
              s.version # {}}}

\* One source: three attempts to get an answer, which has to be a JSON
\* array with status 200.  Releases that cannot be parsed are left out.
Attempts == 3
Releases(answer) ==
    {FlattenSeq([i \in DOMAIN a.releases |-> SetToSeq(ParseRelease(a.releases[i]))]) :
       a \in {b \in {answer} : b.failures < Attempts /\ b.array /\ b.status = 200}}

\* All sources in order: the first that fails ends the discovery.
Ask(found, source, answer) ==
    {Append(f, [repo |-> source, releases |-> r]) : f \in found, r \in Releases(answer)}
Found(answers) ==
    LET found[n \in 0 .. Len(Sources)] ==
            IF n = 0 THEN {<<>>} ELSE Ask(found[n - 1], Sources[n], answers[Sources[n]])
    IN found
DiscoverWindowsReleases(answers) == Found(answers)[Len(Sources)]

\* One option for each asset.
OptionsOf(repo, release) ==
    [i \in DOMAIN release.assets |->
       [repo |-> repo, tag |-> release.tag, version |-> release.version,
        variant |-> release.assets[i].variant, url |-> release.assets[i].url,
        size |-> release.assets[i].size]]
DiscoverThoriumReleases(answers) ==
    {FlattenSeq([i \in DOMAIN found |->
       FlattenSeq([j \in DOMAIN found[i].releases |->
         OptionsOf(found[i].repo, found[i].releases[j])])]) :
       found \in DiscoverWindowsReleases(answers)}

=============================================================================
