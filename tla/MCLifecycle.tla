------------------------------ MODULE MCLifecycle ------------------------------
(***************************************************************************)
(* An instance of Lifecycle for TLC: what the release API may list.        *)
(* Tags are a9, a10 and a010; each binary is in one asset of a listing.    *)
(***************************************************************************)
EXTENDS Lifecycle

CONSTANTS Good, Broken, Silent  \* binaries: works, answers -v only, does not answer

Tag9 == <<97, 57>>
Tag10 == <<97, 49, 48>>
Upper010 == <<65, 48, 49, 48>>

Release(tag, published, assets) ==
  [tag |-> tag, name |-> tag, prerelease |-> TRUE, alpha |-> TRUE,
   published |-> published, assets |-> assets]

Asset(arch, level, binary) ==
  [arch |-> arch, level |-> level, gz |-> TRUE, exact |-> TRUE, core |-> binary]

MCListings ==
  { \* the same day, the higher number is listed last
    << Release(Tag9, 1, {Asset("amd64", "v1", Broken), Asset("amd64", "v3", Installed)}),
       Release(Tag10, 1, {Asset("amd64", "v1", Good), Asset("amd64", "v3", Silent)}) >>,
    \* the latest has nothing for the host, the one listed first is the older one
    << Release(Tag10, 1, {Asset("amd64", "", Broken)}),
       Release(Tag9, 2, {Asset("amd64", "", Good)}),
       Release(Upper010, 3, {Asset("arm64", "", Silent)}) >>,
    \* the latest is not an alpha, or not a prerelease
    << [Release(Tag10, 2, {Asset("amd64", "", Silent)}) EXCEPT !.alpha = FALSE],
       [Release(Tag10, 3, {Asset("amd64", "", Broken)}) EXCEPT !.prerelease = FALSE],
       Release(Tag9, 1, {Asset("amd64", "", Good)}) >>,
    \* the latest leaves the level open
    << Release(Tag9, 1, {Asset("amd64", "", Good)}),
       Release(Tag10, 2, {Asset("amd64", "", Broken), Asset("amd64", "compatible", Silent)}) >>,
    \* one asset is not packed, one is misspelled
    << Release(Tag9, 1, {[Asset("amd64", "", Silent) EXCEPT !.gz = FALSE],
                         [Asset("amd64", "v3", Broken) EXCEPT !.exact = FALSE]}) >>,
    << >> }
=============================================================================
